--------------------------- MODULE MCStorageNode ---------------------------
(* A storage node with two concurrent callers, three BOCs, one peer and a  *)
(* battery for two calls, so that callers run it dry while BOCs are left.  *)
EXTENDS StorageNode, TLC

CONSTANTS c1, c2, b1, b2, b3, h1, h2, h3, p1

MCCallers == {c1, c2}
MCBocs == {b1, b2, b3}
MCHashes == {h1, h2, h3}
MCContentHash == (b1 :> h1) @@ (b2 :> h2) @@ (b3 :> h3)
MCPeers == {p1}
MCCharge == 2
=============================================================================
