CONSTANTS
    a1 = a1
    a2 = a2
    r1 = r1
    r2 = r2
    None = None
    Addresses <- MCAddresses
    Roots <- MCRoots
    Duration = 2
    Width = 3
    ClockSkew = 1
    MaxEpoch = 3
    WrapOnOverflow = TRUE

SPECIFICATION RootSpec

INVARIANT EpochPacing
