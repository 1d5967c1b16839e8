----------------------- MODULE MCBitcoinStateConverter -----------------------
(* Model values and functions for checking BitcoinStateConverter: two     *)
(* locks on distinct channels, one of them at the top of the sequence     *)
(* range, so that prev.sequence + 1 reaches the u64 boundary.             *)
EXTENDS BitcoinStateConverter, TLC

CONSTANTS t1, t2, l1, l2, c1, c2, k1

MCThreads == {t1, t2}
MCLocks == {l1, l2}
MCChannels == {c1, c2}
MCPks == {k1}
MCChannelOf == (l1 :> c1) @@ (l2 :> c2)
MCPkOf == (l1 :> k1) @@ (l2 :> k1)
MCSeqOf == (l1 :> 0) @@ (l2 :> 3)

\* One caller, so that nothing but a failed proof can leave the tree ahead.
MCOneThread == {t1}

\* Both locks hash to the same channel id: a later lock of the channel.
MCSharedChannelOf == (l1 :> c1) @@ (l2 :> c1)

=============================================================================
