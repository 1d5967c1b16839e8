------------------------- MODULE MCSparseMerkleTreeI -------------------------
(* A tree of two levels over keys of one two-bit byte: kA (01) and kB (10) *)
(* reach distinct leaves, the empty key kE pads to 00.  Leaves hold the    *)
(* zero digest or a leaf digest.                                           *)
EXTENDS SparseMerkleTreeI, TLC

CONSTANTS kA, kB, kE, v1

MCKeys == {kA, kB, kE}
MCKeyBytes == (kA :> <<1>>) @@ (kB :> <<2>>) @@ (kE :> <<>>)
MCValues == {v1}

\* Leaf digests a full tree holds in the root-fold check.
MCLeafSet == {Zero, HashLeaf(kA, v1)}

(* The algorithm's inputs for the path and root-fold checks: every full tree over    *)
(* MCLeafSet, as the spec's contract for update describes it.              *)
MCFullTreeInit ==
    \E leaves \in [0 .. 2^Height - 1 -> MCLeafSet] :
        /\ rootHash = FullTree(leaves).level[0]
        /\ nodes = FullTree(leaves).nodes
        /\ publicInputs = 0
        /\ result = "none"

\* The key's path, checked over every full tree with these leaves.
MCPathReachesLeaf == PathReachesLeaf(MCLeafSet)

\* The spec's root fold, checked over every full tree with these leaves.
MCUpdateRootMatchesSpec == UpdateRootMatchesSpec(MCLeafSet)
=============================================================================
