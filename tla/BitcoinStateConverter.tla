------------------------ MODULE BitcoinStateConverter ------------------------
(***************************************************************************)
(* The Bitcoin lock converter of the client wallet extension              *)
(* (src/overpass-rs/src/core/hierarchy/client/wallet_extension/bitcoin_b2o/*)
(* bitcoin_state_converter.rs): it turns a Bitcoin lock into an Overpass  *)
(* channel state, checks channel state transitions and prepares their     *)
(* settlement.  All its calls share one state tree behind                  *)
(* Arc<RwLock<SparseMerkleTreeWasm>>, so several threads may convert at    *)
(* once.                                                                   *)
(*                                                                         *)
(* SparseMerkleTreeWasm is not under src/: the tree is taken from the spec *)
(* (4.1, 8) as the map from channel id to the state data last written     *)
(* there, and its root as that map itself (the root depends only on the   *)
(* updates applied, and distinct maps have distinct roots).  A state's     *)
(* merkle_proof is recorded as the root it was generated against.  The     *)
(* proof backend is a nondeterministic success or failure.                *)
(*                                                                         *)
(* A lock is a model value; its channel id (generate_channel_id, a double  *)
(* SHA-256 of script hash, height and pubkey hash), pubkey hash and        *)
(* sequence are CONSTANT functions of it.  Sequences are u64 kept at Width *)
(* bits; prev.sequence + 1 wraps in a release build and panics in a debug  *)
(* build (WrapOnOverflow).                                                 *)
(***************************************************************************)
EXTENDS Naturals, FiniteSets

CONSTANTS
    Threads,         \* threads calling the shared converter
    Locks,           \* BitcoinLockState values a caller may convert
    Channels,        \* 32-byte channel ids
    Pks,             \* 20-byte pubkey hashes
    ChannelOf,       \* generate_channel_id: Locks -> Channels
    PkOf,            \* lock_state.pubkey_hash
    SeqOf,           \* lock_state.sequence
    Width,           \* bits of the model's u64
    WrapOnOverflow,  \* TRUE: release build (wraps); FALSE: debug (panics)
    None             \* an empty tree slot, no state

MaxSeq == 2^Width - 1

ASSUME ConverterAssumption ==
    /\ Width \in Nat \ {0}
    /\ 2^Width \in Nat \ {0, 1}
    /\ ChannelOf \in [Locks -> Channels]
    /\ PkOf \in [Locks -> Pks]
    /\ SeqOf \in [Locks -> 0 .. MaxSeq]
    /\ WrapOnOverflow \in BOOLEAN
    /\ None \notin Locks

\* A tree root: the state data (identified by its lock) under each channel.
TreeRoots == [Channels -> Locks \cup {None}]

\* OverpassBitcoinState, with merkle_proof as the root it proves against.
States == [channel : Channels, root : TreeRoots, seq : 0 .. MaxSeq, pk : Pks,
           proofRoot : TreeRoots]

VARIABLES
    tree,      \* the shared state tree
    conv,      \* per thread: program point of convert_lock_to_state
    issued,    \* OverpassBitcoinStates convert_lock_to_state returned
    accepted,  \* <<prev, new>> pairs verify_state_transition accepted
    settled,   \* states prepare_settlement turned into lock states
    settling,  \* per thread: the final state prepare_settlement has checked
    result     \* what the last verify or settle call returned

cvars == <<tree, conv, issued, accepted, settled, settling, result>>

Results == {"none", "true", "false", "InvalidState", "ProofError", "Ok"}

Pcs == {"idle", "prove", "readRoot"}

ConverterTypeOK ==
    /\ tree \in TreeRoots
    /\ conv \in [Threads -> [pc : Pcs, lock : Locks \cup {None},
                             proofRoot : TreeRoots \cup {None}]]
    /\ issued \subseteq States
    /\ accepted \subseteq States \X States
    /\ settled \subseteq States
    /\ settling \in [Threads -> States \cup {None}]
    /\ result \in Results

-----------------------------------------------------------------------------
(* BitcoinStateConverter::new over a fresh SparseMerkleTreeWasm.           *)
ConverterInit ==
    /\ tree = [c \in Channels |-> None]
    /\ conv = [t \in Threads |-> [pc |-> "idle", lock |-> None, proofRoot |-> None]]
    /\ issued = {}
    /\ accepted = {}
    /\ settled = {}
    /\ settling = [t \in Threads |-> None]
    /\ result = "none"

(* convert_lock_to_state, first block: under the tree's write lock, write  *)
(* the lock's state data at its channel id and take the merkle proof for   *)
(* it; the guard is dropped at the end of the block.                       *)
ConvertUpdateTree(t, l) ==
    /\ conv[t].pc = "idle"
    /\ settling[t] = None
    /\ tree' = [tree EXCEPT ![ChannelOf[l]] = l]
    /\ conv' = [conv EXCEPT ![t] = [pc |-> "prove", lock |-> l,
                                    proofRoot |-> [tree EXCEPT ![ChannelOf[l]] = l]]]
    /\ UNCHANGED <<issued, accepted, settled, settling, result>>

(* generate_proof_js on the lock amount, outside any lock.  On a backend   *)
(* error ? returns it; the tree keeps the written leaf.                     *)
ConvertProve(t) ==
    /\ conv[t].pc = "prove"
    /\ \/ conv' = [conv EXCEPT ![t].pc = "readRoot"]
       \/ conv' = [conv EXCEPT ![t] = [pc |-> "idle", lock |-> None, proofRoot |-> None]]
    /\ UNCHANGED <<tree, issued, accepted, settled, settling, result>>

\* Mutant: the new state's sequence is one past the lock's.
ConvertReadRootNextSeq(t) ==
    LET l == conv[t].lock
    IN  /\ conv[t].pc = "readRoot"
        /\ issued' = issued \cup {[channel |-> ChannelOf[l], root |-> tree,
                                   seq |-> SeqOf[l] + 1, pk |-> PkOf[l],
                                   proofRoot |-> conv[t].proofRoot]}
        /\ conv' = [conv EXCEPT ![t] = [pc |-> "idle", lock |-> None, proofRoot |-> None]]
        /\ UNCHANGED <<tree, accepted, settled, settling, result>>

(* Build the OverpassBitcoinState: state_root is read under a new read    *)
(* lock, merkle_proof is the one taken in the first block.                 *)
ConvertReadRoot(t) ==
    LET l == conv[t].lock
    IN  /\ conv[t].pc = "readRoot"
        /\ issued' = issued \cup {[channel |-> ChannelOf[l], root |-> tree,
                                   seq |-> SeqOf[l], pk |-> PkOf[l],
                                   proofRoot |-> conv[t].proofRoot]}
        /\ conv' = [conv EXCEPT ![t] = [pc |-> "idle", lock |-> None, proofRoot |-> None]]
        /\ UNCHANGED <<tree, accepted, settled, settling, result>>

(* verify_state_constraints: same channel id, sequence advanced by one    *)
(* (computed as prev.sequence + 1 in u64), same pubkey hash.               *)
VerifyStateConstraints(prev, new) ==
    /\ prev.channel = new.channel
    /\ new.seq = (prev.seq + 1) % 2^Width
    /\ prev.pk = new.pk

(* SparseMerkleTreeWasm::verify_root_transition (spec 4.1): new_root is    *)
(* prev_root with at most one leaf rewritten.                              *)
VerifyRootTransition(prevRoot, newRoot) ==
    \E c \in Channels : \A d \in Channels \ {c} : prevRoot[d] = newRoot[d]

(* A transition a caller may submit: an issued state and a successor that  *)
(* keeps or changes the channel, pubkey, sequence and root.                *)
Successors(prev) ==
    {[channel |-> c, root |-> r, seq |-> s, pk |-> k, proofRoot |-> prev.proofRoot] :
        c \in Channels, s \in 0 .. MaxSeq, k \in Pks, r \in {prev.root, tree}}

(* verify_state_transition: Ok(false) when the constraints or the root     *)
(* transition fail, else what verify_proof_js answers: true, false or an   *)
(* error.  In a debug build prev.sequence + 1 panics at the top of the     *)
(* range, once the channel ids have matched.                               *)
VerifyStateTransition(prev, new) ==
    /\ prev.channel # new.channel \/ prev.seq < MaxSeq \/ WrapOnOverflow
    /\ \/ /\ VerifyStateConstraints(prev, new)
          /\ VerifyRootTransition(prev.root, new.root)
          /\ accepted' = accepted \cup {<<prev, new>>}
          /\ result' = "true"
       \/ /\ VerifyStateConstraints(prev, new)
          /\ VerifyRootTransition(prev.root, new.root)
          /\ result' \in {"false", "ProofError"}
          /\ UNCHANGED accepted
       \/ /\ ~(VerifyStateConstraints(prev, new) /\ VerifyRootTransition(prev.root, new.root))
          /\ result' = "false"
          /\ UNCHANGED accepted
    /\ UNCHANGED <<tree, conv, issued, settled, settling>>

(* prepare_settlement, first part: read the tree root under a read lock   *)
(* that is dropped at once; a final state whose root is not the tree's     *)
(* fails with InvalidState.                                                *)
PrepareSettlementCheck(t, s) ==
    /\ conv[t].pc = "idle"
    /\ settling[t] = None
    /\ \/ /\ tree # s.root
          /\ result' = "InvalidState"
          /\ UNCHANGED settling
       \/ /\ tree = s.root
          /\ settling' = [settling EXCEPT ![t] = s]
          /\ UNCHANGED result
    /\ UNCHANGED <<tree, conv, issued, accepted, settled>>

(* generate_settlement_proof over the checked state, then the lock state   *)
(* is built from it; the proof backend may fail.                           *)
PrepareSettlementProve(t) ==
    /\ settling[t] # None
    /\ \/ /\ settled' = settled \cup {settling[t]}
          /\ result' = "Ok"
       \/ /\ result' = "ProofError"
          /\ UNCHANGED settled
    /\ settling' = [settling EXCEPT ![t] = None]
    /\ UNCHANGED <<tree, conv, issued, accepted>>

ConverterNext ==
    \/ \E t \in Threads, l \in Locks : ConvertUpdateTree(t, l)
    \/ \E t \in Threads : ConvertProve(t) \/ ConvertReadRoot(t)
    \/ \E prev \in issued : \E new \in Successors(prev) : VerifyStateTransition(prev, new)
    \/ \E t \in Threads, s \in issued : PrepareSettlementCheck(t, s)
    \/ \E t \in Threads : PrepareSettlementProve(t)

ConverterSpec == ConverterInit /\ [][ConverterNext]_cvars

-----------------------------------------------------------------------------
(* A converted state is self-consistent: its merkle_proof proves its leaf *)
(* against its own state_root (3: state_root is reachable via a valid tree *)
(* update).                                                                *)
ProofAgainstRoot ==
    \A s \in issued : s.proofRoot = s.root

(* A failed conversion leaves no trace (the ? on generate_proof_js returns *)
(* the error to the caller): once no conversion is under way, the tree's   *)
(* root is the state_root of some state a conversion returned, so         *)
(* prepare_settlement can accept that state.                               *)
TreeRootIssued ==
    (\A t \in Threads : conv[t].pc = "idle") /\ tree # [c \in Channels |-> None]
        => \E s \in issued : s.root = tree

(* "Verify final state validity": prepare_settlement returns a lock state  *)
(* only for a final state whose channel leaf is still the tree's when the  *)
(* lock state is returned, not one a later conversion of the channel has   *)
(* superseded.                                                             *)
SettleCurrent ==
    [][\A s \in settled' \ settled : tree[s.channel] = s.root[s.channel]]_cvars

=============================================================================
