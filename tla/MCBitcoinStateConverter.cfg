\* Debug build: conversions, transition checks and settlements interleaved.
CONSTANTS
    t1 = t1
    t2 = t2
    l1 = l1
    l2 = l2
    c1 = c1
    c2 = c2
    k1 = k1
    Threads <- MCThreads
    Locks <- MCLocks
    Channels <- MCChannels
    Pks <- MCPks
    ChannelOf <- MCChannelOf
    PkOf <- MCPkOf
    SeqOf <- MCSeqOf
    Width = 2
    WrapOnOverflow = FALSE
    None = None
INIT ConverterInit
NEXT ConverterNext
INVARIANTS
    ConverterTypeOK
