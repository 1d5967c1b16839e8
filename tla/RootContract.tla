---------------------------- MODULE RootContract ----------------------------
(***************************************************************************)
(* The root aggregator (src/overpass-rs/src/core/hierarchy/root/           *)
(* root_contract.rs): the latest root of every intermediate contract, a    *)
(* global sparse Merkle tree folding them in, and an epoch counter that    *)
(* try_submit_global_root advances at most once per epoch_duration.        *)
(*                                                                         *)
(* The caller supplies now; the model gives the callers a clock and lets a *)
(* caller's reading lag it by up to ClockSkew.  u64 arithmetic is kept at  *)
(* Width bits: the subtraction now - last_submission wraps modulo 2^Width  *)
(* in a release build and panics in a debug build (WrapOnOverflow).        *)
(*                                                                         *)
(* SparseMerkleTreeR is not under src/: its update_global_tree is taken    *)
(* from the spec (4.1), as a map from address to the leaf's root, whose    *)
(* update either succeeds or fails with NotFound.                          *)
(***************************************************************************)
EXTENDS Naturals, Sequences

CONSTANTS
    Addresses,       \* intermediate contract addresses
    Roots,           \* intermediate roots they report
    Duration,        \* epoch_duration passed to RootContract::new
    Width,           \* bits of the model's u64
    ClockSkew,       \* how far a caller's now may lag the clock
    MaxEpoch,        \* model bound on the number of epochs
    WrapOnOverflow,  \* TRUE: release build (wraps); FALSE: debug (panics)
    None             \* no root for an address

ASSUME RootAssumption ==
    /\ Width \in Nat \ {0}
    /\ 2^Width \in Nat \ {0, 1}
    /\ Duration \in 0 .. 2^Width - 1
    /\ ClockSkew \in Nat
    /\ MaxEpoch \in 0 .. 2^Width - 1   \* epoch is a u64 as well
    /\ WrapOnOverflow \in BOOLEAN
    /\ None \notin Roots

VARIABLES
    intermediateRoots,  \* intermediate_roots: address -> root or None
    globalTree,         \* global_tree's leaves: address -> root or None
    epoch,              \* epoch
    epochDuration,      \* epoch_duration
    lastSubmission,     \* last_submission
    flags,              \* the capability flags that change or are read
    clock               \* the callers' time

rootVars == <<intermediateRoots, globalTree, epoch, epochDuration,
              lastSubmission, flags, clock>>

MaxTime == 2^Width - 1

Flags == [verifySettlement : BOOLEAN, submitSettlement : BOOLEAN,
          verifyGlobal : BOOLEAN]

RootTypeOK ==
    /\ intermediateRoots \in [Addresses -> Roots \cup {None}]
    /\ globalTree \in [Addresses -> Roots \cup {None}]
    /\ epoch \in 0 .. MaxEpoch
    /\ epochDuration \in 0 .. MaxTime
    /\ lastSubmission \in 0 .. MaxTime
    /\ flags \in Flags
    /\ clock \in 0 .. MaxTime

-----------------------------------------------------------------------------
(* u64 subtraction at Width bits, as a release build computes it.          *)
WrappingSub(a, b) == (a - b) % 2^Width

(* u64::to_le_bytes: eight bytes, least significant first.               *)
ToLeBytes(n) ==
    LET q1 == n \div 256   q2 == q1 \div 256   q3 == q2 \div 256
        q4 == q3 \div 256  q5 == q4 \div 256   q6 == q5 \div 256
        q7 == q6 \div 256
    IN  <<n % 256, q1 % 256, q2 % 256, q3 % 256,
          q4 % 256, q5 % 256, q6 % 256, q7 % 256>>

(* u64::from_le_bytes of eight bytes.                                      *)
FromLeBytes(s) ==
    s[1] + 256 * (s[2] + 256 * (s[3] + 256 * (s[4] + 256 *
        (s[5] + 256 * (s[6] + 256 * (s[7] + 256 * s[8]))))))

(* The model's word fits the eight bytes of to_le_bytes (Width <= 64):     *)
(* decoding what was encoded gives the value back.  TLC evaluates this on  *)
(* every instance; the proofs use it for deserialize.                      *)
ASSUME LeBytesRoundTrip ==
    \A n \in 0 .. 2^Width - 1 : FromLeBytes(ToLeBytes(n)) = n

\* Mutant: to_state_data writes last_submission before epoch_duration,
\* the reverse of the order deserialize reads them in.
StateDataSwapped ==
    ToLeBytes(epoch) \o ToLeBytes(lastSubmission) \o ToLeBytes(epochDuration)
        \o <<IF flags.verifySettlement THEN 1 ELSE 0,
             IF flags.submitSettlement THEN 1 ELSE 0>>

(* to_state_data: epoch, epoch_duration and last_submission as 8 bytes     *)
(* each, then the two persisted flags as one byte each.                    *)
StateData ==
    ToLeBytes(epoch) \o ToLeBytes(epochDuration) \o ToLeBytes(lastSubmission)
        \o <<IF flags.verifySettlement THEN 1 ELSE 0,
             IF flags.submitSettlement THEN 1 ELSE 0>>

(* RootContract::new(epoch_duration).                                      *)
RootInit ==
    /\ intermediateRoots = [a \in Addresses |-> None]
    /\ globalTree = [a \in Addresses |-> None]
    /\ epoch = 0
    /\ epochDuration = Duration
    /\ lastSubmission = 0
    /\ flags = [verifySettlement |-> TRUE, submitSettlement |-> TRUE,
                verifyGlobal |-> FALSE]
    /\ clock = 0

(* process_intermediate_root: the root is recorded first, then folded into *)
(* the global tree; when update_global_tree fails, ? returns the error and *)
(* the recorded root stays.                                                *)
ProcessIntermediateRoot(a, r) ==
    /\ intermediateRoots' = [intermediateRoots EXCEPT ![a] = r]
    /\ \/ globalTree' = [globalTree EXCEPT ![a] = r]
       \/ UNCHANGED globalTree
    /\ UNCHANGED <<epoch, epochDuration, lastSubmission, flags, clock>>

\* Mutant: last_submission is not moved to now.
TrySubmitKeepsLast(now) ==
    /\ now >= lastSubmission \/ WrapOnOverflow
    /\ \/ /\ WrappingSub(now, lastSubmission) < epochDuration
          /\ UNCHANGED rootVars
       \/ /\ WrappingSub(now, lastSubmission) >= epochDuration
          /\ epoch < MaxEpoch
          /\ epoch' = epoch + 1
          /\ flags' = [verifySettlement |-> TRUE, submitSettlement |-> TRUE,
                        verifyGlobal |-> flags.verifyGlobal]
          /\ UNCHANGED <<intermediateRoots, globalTree, epochDuration, lastSubmission, clock>>

(* try_submit_global_root(now): nothing happens while less than           *)
(* epoch_duration has passed since the last submission; otherwise the      *)
(* epoch advances and last_submission becomes now, whether or not          *)
(* verify_global_state lets the root be returned.  In a debug build a now  *)
(* older than last_submission panics on the subtraction.                   *)
TrySubmitGlobalRoot(now) ==
    /\ now >= lastSubmission \/ WrapOnOverflow
    /\ \/ /\ WrappingSub(now, lastSubmission) < epochDuration
          /\ UNCHANGED rootVars
       \/ /\ WrappingSub(now, lastSubmission) >= epochDuration
          /\ epoch < MaxEpoch
          /\ epoch' = epoch + 1
          /\ lastSubmission' = now
          /\ flags' = [verifySettlement |-> TRUE, submitSettlement |-> TRUE,
                        verifyGlobal |-> flags.verifyGlobal]
          /\ UNCHANGED <<intermediateRoots, globalTree, epochDuration, clock>>

\* Mutant: last_submission is read one byte early (data[16..24]).
DeserializeShiftedSlice ==
    LET data == StateData
    IN  /\ Len(data) >= 26
        /\ epoch' = FromLeBytes(SubSeq(data, 1, 8))
        /\ epochDuration' = FromLeBytes(SubSeq(data, 9, 16))
        /\ lastSubmission' = FromLeBytes(SubSeq(data, 16, 23))
        /\ flags' = [verifySettlement |-> data[25] # 0,
                     submitSettlement |-> data[26] # 0,
                     verifyGlobal |-> FALSE]
        /\ globalTree' = [a \in Addresses |-> None]
        /\ intermediateRoots' = [a \in Addresses |-> None]
        /\ UNCHANGED clock

(* The contract is rebuilt by deserialize from a BOC whose root cell holds *)
(* its to_state_data: the header is decoded, the tree and the intermediate *)
(* roots start empty and the other flags false.                            *)
Deserialize ==
    LET data == StateData
    IN  /\ Len(data) >= 26
        /\ epoch' = FromLeBytes(SubSeq(data, 1, 8))
        /\ epochDuration' = FromLeBytes(SubSeq(data, 9, 16))
        /\ lastSubmission' = FromLeBytes(SubSeq(data, 17, 24))
        /\ flags' = [verifySettlement |-> data[25] # 0,
                     submitSettlement |-> data[26] # 0,
                     verifyGlobal |-> FALSE]
        /\ globalTree' = [a \in Addresses |-> None]
        /\ intermediateRoots' = [a \in Addresses |-> None]
        /\ UNCHANGED clock

Tick ==
    /\ clock < MaxTime
    /\ clock' = clock + 1
    /\ UNCHANGED <<intermediateRoots, globalTree, epoch, epochDuration,
                   lastSubmission, flags>>

(* A caller's now: the clock, or a reading up to ClockSkew behind it.      *)
Readings == {n \in 0 .. clock : n + ClockSkew >= clock}

RootNext ==
    \/ \E a \in Addresses, r \in Roots : ProcessIntermediateRoot(a, r)
    \/ \E now \in Readings : TrySubmitGlobalRoot(now)
    \/ Deserialize
    \/ Tick

RootSpec == RootInit /\ [][RootNext]_rootVars

-----------------------------------------------------------------------------
(* Epoch gating (3, 8): a new epoch needs epoch_duration to have passed    *)
(* since the last submission, so k epochs take at least k intervals and    *)
(* the last submission is not before epoch * epoch_duration.               *)
EpochPacing ==
    epoch * epochDuration <= lastSubmission

(* Epoch numbers are never reused: no step, a restart from to_state_data   *)
(* through deserialize included, moves the epoch or last_submission back.  *)
(* It rests on deserialize reading the header in the order to_state_data  *)
(* wrote it, and on try_submit_global_root's now not being older than      *)
(* last_submission.                                                        *)
EpochNeverRewinds ==
    [][epoch' >= epoch /\ lastSubmission' >= lastSubmission]_rootVars

(* process_intermediate_root folds every recorded root into the global    *)
(* tree (4.2): an address's recorded root is its leaf in the tree.         *)
TreeCoversRoots ==
    \A a \in Addresses : intermediateRoots[a] # None => globalTree[a] = intermediateRoots[a]

=============================================================================
