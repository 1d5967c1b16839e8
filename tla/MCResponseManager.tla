------------------------- MODULE MCResponseManager -------------------------
(* One storage node with two store callers and the verification loop that *)
(* two successful starts may spawn.  BOC b1 has one cell and b2 two; the  *)
(* ceiling of two cells is exceeded once both are stored, so cycles that  *)
(* verify and cycles that fail on size both occur.                        *)
EXTENDS ResponseManager

CONSTANTS c1, c2, b1, b2, h1, h2, h3, t1, t2

MCCallers == {c1, c2}
MCBocs == {b1, b2}
MCHashes == {h1, h2, h3}
MCContentHash == [b \in MCBocs |-> IF b = b1 THEN h1 ELSE h2]
MCPeers == {}
MCCharge == 3
MCTasks == {t1, t2}
MCSize == [b \in MCBocs |-> IF b = b1 THEN 1 ELSE 2]
MCMaxResponseSize == 2
MCResponseThreshold == 1
MCMetricsCap == 2
=============================================================================
