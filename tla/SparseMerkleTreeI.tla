-------------------------- MODULE SparseMerkleTreeI --------------------------
(***************************************************************************)
(* The intermediate layer's sparse Merkle tree                             *)
(* (src/overpass-rs/src/core/hierarchy/intermediate/sparse_merkle_tree_i.rs)*)
(*                                                                         *)
(* The tree keeps root_hash and a node map from a node's hash to its two   *)
(* child hashes; update walks the key's bit path down from root_hash       *)
(* through the node map (generate_merkle_path), then folds the recorded    *)
(* path back up over the new leaf hash (calculate_new_root).  It also      *)
(* feeds a plonky2 CircuitBuilder that lives as long as the tree; of it    *)
(* the model keeps the number of public inputs, the only part that grows.  *)
(*                                                                         *)
(* SHA-256 is taken to be collision-free: the digest of a concatenation is *)
(* the pair of its parts.  [0u8; 32] is the model value Zero.  A key is a  *)
(* model value with its byte string KeyBytes[k]; a byte has ByteBits bits  *)
(* (8 in the code) and the tree Height levels (256 in the code).           *)
(***************************************************************************)
EXTENDS Naturals, Sequences, SequencesExt

CONSTANTS
    Height,          \* self.height
    ByteBits,        \* bits of a key byte
    Keys,            \* keys a caller may pass
    KeyBytes,        \* the byte string of each key
    Values,          \* values a caller may pass
    Zero,            \* the all-zero digest root_hash starts with
    None,            \* an absent child
    MaxPublicInputs  \* bound on the circuit's public inputs

ASSUME SmtAssumption ==
    /\ Height \in Nat \ {0}
    /\ ByteBits \in Nat \ {0}
    /\ KeyBytes \in [Keys -> Seq(0 .. 2^ByteBits - 1)]
    /\ MaxPublicInputs \in Nat

\* Sha256 over the concatenation of two byte strings.
Hash(a, b) == <<a, b>>

\* hash_leaf: the digest of key || value.
HashLeaf(k, v) == Hash(k, v)

\* Mutant: the bits of a byte are read least significant first.
GetBitLsbFirst(k, index) ==
    LET byteIndex == index \div ByteBits
        bitIndex == index % ByteBits
    IN  /\ byteIndex < Len(KeyBytes[k])
        /\ (KeyBytes[k][byteIndex + 1] \div 2^bitIndex) % 2 = 1

(* get_bit: bit index of the key, most significant bit of each byte first; *)
(* past the end of the key the bit is 0.                                   *)
GetBit(k, index) ==
    LET byteIndex == index \div ByteBits
        bitIndex == ByteBits - 1 - (index % ByteBits)
    IN  /\ byteIndex < Len(KeyBytes[k])
        /\ (KeyBytes[k][byteIndex + 1] \div 2^bitIndex) % 2 = 1

(* generate_merkle_path from root over the node map: at each of the Height *)
(* levels the current node must be in the map and have the child the bit   *)
(* selects (right on 1, left on 0), else NotFound.  The path records that  *)
(* child's hash with the bit.                                              *)
MerklePath(nodeMap, root, k) ==
    LET Step(w, i) ==
          IF ~w.ok \/ w.current \notin DOMAIN nodeMap THEN [w EXCEPT !.ok = FALSE]
          ELSE LET bit == GetBit(k, i)
                   child == IF bit THEN nodeMap[w.current].right
                                   ELSE nodeMap[w.current].left
               IN  IF child = None THEN [w EXCEPT !.ok = FALSE]
                   ELSE [ok |-> TRUE, current |-> child,
                         path |-> Append(w.path, <<child, bit>>)]
    IN  FoldLeft(Step, [ok |-> TRUE, current |-> root, path |-> <<>>],
                 [i \in 1 .. Height |-> i - 1])

(* calculate_new_root: from the leaf hash, over the path from its last     *)
(* entry to its first, hash the current digest with the recorded one,      *)
(* current on the left when the entry's flag is set.                       *)
CalculateNewRoot(path, leafHash) ==
    LET Up(entry, current) ==
          IF entry[2] THEN Hash(current, entry[1]) ELSE Hash(entry[1], current)
    IN  FoldRight(Up, path, leafHash)

\* Public inputs update adds: value cell, key cell, one per path entry, root cell.
UpdateInputs == Height + 3

VARIABLES
    rootHash,      \* root_hash
    nodes,         \* nodes: hash -> [left, right]
    publicInputs,  \* public inputs registered with circuit_builder
    result         \* what the last update returned

smtVars == <<rootHash, nodes, publicInputs, result>>

SmtTypeOK ==
    /\ publicInputs \in 0 .. MaxPublicInputs
    /\ result \in {"none", "Ok", "NotFound"}

(* SparseMerkleTreeI::new: root_hash zero, no nodes, an empty circuit.     *)
SmtInit ==
    /\ rootHash = Zero
    /\ nodes = [h \in {} |-> None]
    /\ publicInputs = 0
    /\ result = "none"

(* update: hash the leaf, take the path (its ? returns NotFound before any *)
(* change), register the value and key cells and, in                      *)
(* add_path_constraints, one cell per path entry and the root cell, then   *)
(* store the folded root.  The node map is never written.                  *)
Update(k, v) ==
    LET w == MerklePath(nodes, rootHash, k)
    IN  \/ /\ ~w.ok
           /\ result' = "NotFound"
           /\ UNCHANGED <<rootHash, nodes, publicInputs>>
        \/ /\ w.ok
           /\ publicInputs + UpdateInputs <= MaxPublicInputs
           /\ rootHash' = CalculateNewRoot(w.path, HashLeaf(k, v))
           /\ publicInputs' = publicInputs + UpdateInputs
           /\ result' = "Ok"
           /\ UNCHANGED nodes

(* add_virtual_public_input: one more public input on the shared circuit. *)
AddVirtualPublicInput ==
    /\ publicInputs < MaxPublicInputs
    /\ publicInputs' = publicInputs + 1
    /\ UNCHANGED <<rootHash, nodes, result>>

SmtNext ==
    \/ \E k \in Keys, v \in Values : Update(k, v)
    \/ AddVirtualPublicInput

SmtSpec == SmtInit /\ [][SmtNext]_smtVars

-----------------------------------------------------------------------------
(* The spec's tree (4.1), the reference the code is checked against: the  *)
(* leaves of a full tree of Height levels, the key's leaf at the number    *)
(* its leading Height bits spell, read big-endian (missing bytes are 0),   *)
(* each interior digest the hash of its left and right child.              *)
LeafIndex(k) ==
    LET nb == (Height + ByteBits - 1) \div ByteBits
        padded == [i \in 1 .. nb |-> IF i <= Len(KeyBytes[k]) THEN KeyBytes[k][i] ELSE 0]
    IN  FoldLeft(LAMBDA n, byte : n * 2^ByteBits + byte, 0, padded)
          \div 2^(nb * ByteBits - Height)

\* The levels of a full tree from its leaves up to its root, with the node map.
FullTree(leaves) ==
    LET Halve(t, d) ==
          LET up == [j \in 0 .. 2^(Height - d) - 1 |->
                       Hash(t.level[2 * j], t.level[2 * j + 1])]
              Children(h) == LET j == CHOOSE j \in DOMAIN up : up[j] = h
                             IN  [left |-> t.level[2 * j], right |-> t.level[2 * j + 1]]
          IN  [level |-> up,
               nodes |-> t.nodes @@ [h \in {up[j] : j \in DOMAIN up} |-> Children(h)]]
    IN  FoldLeft(Halve, [level |-> leaves, nodes |-> [h \in {} |-> None]],
                 [d \in 1 .. Height |-> d])

\* The spec's root after update(k, v) on the full tree with these leaves.
SpecUpdatedRoot(leaves, k, v) ==
    FullTree([leaves EXCEPT ![LeafIndex(k)] = HashLeaf(k, v)]).level[0]

-----------------------------------------------------------------------------
(* Spec 4.1: a key's leaf is the one its bits index, most significant bit *)
(* at the root.  On a well-formed tree (the node map and root of a full    *)
(* tree whose leaves are in LeafSet), generate_merkle_path, reading the   *)
(* key with get_bit, walks all Height levels and ends at that leaf.        *)
PathReachesLeaf(LeafSet) ==
    \A leaves \in [0 .. 2^Height - 1 -> LeafSet] :
        LET t == FullTree(leaves)
        IN  t.level[0] = rootHash /\ t.nodes = nodes =>
              \A k \in Keys :
                  LET w == MerklePath(nodes, rootHash, k)
                  IN  w.ok /\ w.current = leaves[LeafIndex(k)]

(* Spec 4.1: on a well-formed tree (the node map and root of a full tree  *)
(* whose leaves are in LeafSet), update(k, v) finds the key's path and the *)
(* root it stores is the root of the tree with k's leaf replaced by        *)
(* hash_leaf(k, v): the fold of the sibling digests from leaf to root.    *)
UpdateRootMatchesSpec(LeafSet) ==
    \A leaves \in [0 .. 2^Height - 1 -> LeafSet] :
        LET t == FullTree(leaves)
        IN  t.level[0] = rootHash /\ t.nodes = nodes =>
              \A k \in Keys, v \in Values :
                  LET w == MerklePath(nodes, rootHash, k)
                  IN  /\ w.ok
                      /\ CalculateNewRoot(w.path, HashLeaf(k, v)) = SpecUpdatedRoot(leaves, k, v)

=============================================================================
