---------------------------- MODULE StorageNode ----------------------------
(***************************************************************************)
(* The admission and persistence path of a storage node                    *)
(* (src/overpass-rs/src/core/storage_node/storage_node_contract.rs).       *)
(*                                                                         *)
(* A node keeps three maps behind futures::lock::Mutex: the battery, the   *)
(* stored BOCs and the stored proofs, both keyed by the content hash of    *)
(* the BOC.  store_update holds the battery lock for the whole call,       *)
(* charges one processing unit, checks that the proof's public inputs are  *)
(* exactly [hash(boc)], then inserts the BOC under the BOC lock and, still *)
(* holding it, the proof under the proof lock.  Every .await on a lock or  *)
(* on the battery is a point where another task may run, so a call is cut  *)
(* into the steps between those points.                                    *)
(*                                                                         *)
(* A BOC is a model value; its content hash is the injective CONSTANT      *)
(* ContentHash (SHA-256 taken to be collision-free).  A proof is its       *)
(* sequence of public inputs, the only part the node inspects.             *)
(***************************************************************************)
EXTENDS Naturals, Sequences, FiniteSets

CONSTANTS
    Callers,      \* tasks that may call store_update concurrently
    Bocs,         \* the BOCs a caller may submit
    Hashes,       \* 32-byte digests (finitely many); includes digests of no BOC
    ContentHash,  \* hash_boc_internal: Bocs -> Hashes
    Peers,        \* peer ids a caller may add or remove
    Charge,       \* processing units the node's battery starts with
    None          \* an absent map entry, a free lock, no argument

\* The cost of one store_update; BatteryChargingSystem is not under src/,
\* the spec (4.3 step 1) says one processing unit per call.
ProcessingCost == 1

\* Public inputs a submitted proof may carry: empty, one digest or two.
ProofInputs == {<<>>} \cup {<<h>> : h \in Hashes} \cup {<<h, g>> : h, g \in Hashes}

ASSUME ConstantsAssumption ==
    /\ Callers # {}
    /\ ContentHash \in [Bocs -> Hashes]
    /\ \A a, b \in Bocs : ContentHash[a] = ContentHash[b] => a = b
    /\ Charge \in Nat
    /\ None \notin Bocs \cup Callers \cup Seq(Hashes)
    /\ IsFiniteSet(Hashes)

VARIABLES
    bocs,         \* stored_bocs: hash -> BOC or None
    proofs,       \* stored_proofs: hash -> public inputs or None
    battery,      \* remaining charge of battery_system
    batteryLock,  \* caller holding battery_system's lock, or None
    bocsLock,     \* caller holding stored_bocs' lock across an await, or None
    peers,        \* the peer set
    call          \* per caller: program point, arguments, last result

nodeVars == <<bocs, proofs, battery, batteryLock, bocsLock, peers, call>>

Results == {"none", "Ok", "BatteryError", "InvalidProof"}

Idle(r) == [pc |-> "idle", boc |-> None, proof |-> None, result |-> r]

TypeOK ==
    /\ bocs \in [Hashes -> Bocs \cup {None}]
    /\ proofs \in [Hashes -> ProofInputs \cup {None}]
    /\ battery \in 0..Charge
    /\ batteryLock \in Callers \cup {None}
    /\ bocsLock \in Callers \cup {None}
    /\ peers \subseteq Peers
    /\ call \in [Callers ->
                   [pc : {"idle", "insertBoc", "insertProof"},
                    boc : Bocs \cup {None},
                    proof : ProofInputs \cup {None},
                    result : Results]]

-----------------------------------------------------------------------------
\* Mutant: the length check of the public inputs is dropped, only the
\* first input is compared.
VerifyProofFirstOnly(proof, boc) ==
    Len(proof) >= 1 /\ proof[1] = ContentHash[boc]

(* verify_proof_internal: the proof binds the BOC when its public inputs   *)
(* are exactly one element, the BOC's content hash.  The cryptographic     *)
(* check is commented out in the code and the function returns true.       *)
VerifyProofInternal(proof, boc) ==
    Len(proof) = 1 /\ proof[1] = ContentHash[boc]

(* StorageNode::new succeeded (initial_stake >= 1000): empty maps, a full  *)
(* battery, the given peers (here none), every caller idle.                *)
Init ==
    /\ bocs = [h \in Hashes |-> None]
    /\ proofs = [h \in Hashes |-> None]
    /\ battery = Charge
    /\ batteryLock = None
    /\ bocsLock = None
    /\ peers = {}
    /\ call = [c \in Callers |-> Idle("none")]

\* Mutant: the result of charge_for_processing is ignored, so a call with
\* a short battery goes on without paying.
StoreUpdateBeginUncharged(c, boc, proof) ==
    /\ call[c].pc = "idle"
    /\ batteryLock = None
    /\ battery' = IF battery >= ProcessingCost THEN battery - ProcessingCost ELSE battery
    /\ \/ /\ ~VerifyProofInternal(proof, boc)
          /\ call' = [call EXCEPT ![c] = Idle("InvalidProof")]
          /\ UNCHANGED batteryLock
       \/ /\ VerifyProofInternal(proof, boc)
          /\ batteryLock' = c
          /\ call' = [call EXCEPT ![c] = [pc |-> "insertBoc", boc |-> boc,
                                          proof |-> proof, result |-> "none"]]
    /\ UNCHANGED <<bocs, proofs, bocsLock, peers>>

\* Mutant: the charge is taken without checking the battery first.
StoreUpdateBeginNoCheck(c, boc, proof) ==
    /\ call[c].pc = "idle"
    /\ batteryLock = None
    /\ battery' = battery - ProcessingCost
    /\ \/ /\ ~VerifyProofInternal(proof, boc)
          /\ call' = [call EXCEPT ![c] = Idle("InvalidProof")]
          /\ UNCHANGED batteryLock
       \/ /\ VerifyProofInternal(proof, boc)
          /\ batteryLock' = c
          /\ call' = [call EXCEPT ![c] = [pc |-> "insertBoc", boc |-> boc,
                                          proof |-> proof, result |-> "none"]]
    /\ UNCHANGED <<bocs, proofs, bocsLock, peers>>

(* store_update up to its first suspension point past the battery: lock    *)
(* the battery, charge_for_processing (fails when the charge is short),    *)
(* then the binding check.  A rejected call has already paid.  An accepted *)
(* call keeps the battery lock and goes on to insert.                      *)
StoreUpdateBegin(c, boc, proof) ==
    /\ call[c].pc = "idle"
    /\ batteryLock = None
    /\ \/ /\ battery < ProcessingCost
          /\ call' = [call EXCEPT ![c] = Idle("BatteryError")]
          /\ UNCHANGED <<battery, batteryLock>>
       \/ /\ battery >= ProcessingCost
          /\ battery' = battery - ProcessingCost
          /\ \/ /\ ~VerifyProofInternal(proof, boc)
                /\ call' = [call EXCEPT ![c] = Idle("InvalidProof")]
                /\ UNCHANGED batteryLock
             \/ /\ VerifyProofInternal(proof, boc)
                /\ batteryLock' = c
                /\ call' = [call EXCEPT ![c] = [pc |-> "insertBoc", boc |-> boc,
                                                proof |-> proof, result |-> "none"]]
    /\ UNCHANGED <<bocs, proofs, bocsLock, peers>>

\* Mutant: the BOC map's guard is dropped before the proof lock is awaited.
StoreInsertBocEarlyUnlock(c) ==
    /\ call[c].pc = "insertBoc"
    /\ bocsLock = None
    /\ bocs' = [bocs EXCEPT ![ContentHash[call[c].boc]] = call[c].boc]
    /\ call' = [call EXCEPT ![c].pc = "insertProof"]
    /\ UNCHANGED <<proofs, battery, batteryLock, bocsLock, peers>>

(* Lock stored_bocs and insert the BOC under its content hash.  The lock   *)
(* is held on, across the await on stored_proofs' lock.                    *)
StoreInsertBoc(c) ==
    /\ call[c].pc = "insertBoc"
    /\ bocsLock = None
    /\ bocsLock' = c
    /\ bocs' = [bocs EXCEPT ![ContentHash[call[c].boc]] = call[c].boc]
    /\ call' = [call EXCEPT ![c].pc = "insertProof"]
    /\ UNCHANGED <<proofs, battery, batteryLock, peers>>

(* Lock stored_proofs, insert the proof under the same hash, then drop     *)
(* both map guards and, on return, the battery guard.                      *)
StoreInsertProof(c) ==
    /\ call[c].pc = "insertProof"
    /\ proofs' = [proofs EXCEPT ![ContentHash[call[c].boc]] = call[c].proof]
    /\ bocsLock' = None
    /\ batteryLock' = None
    /\ call' = [call EXCEPT ![c] = Idle("Ok")]
    /\ UNCHANGED <<bocs, battery, peers>>

AddPeer(p) ==
    /\ peers' = peers \cup {p}
    /\ UNCHANGED <<bocs, proofs, battery, batteryLock, bocsLock, call>>

RemovePeer(p) ==
    /\ peers' = peers \ {p}
    /\ UNCHANGED <<bocs, proofs, battery, batteryLock, bocsLock, call>>

NodeNext ==
    \/ \E c \in Callers, b \in Bocs, pi \in ProofInputs : StoreUpdateBegin(c, b, pi)
    \/ \E c \in Callers : StoreInsertBoc(c) \/ StoreInsertProof(c)
    \/ \E p \in Peers : AddPeer(p) \/ RemovePeer(p)

NodeSpec == Init /\ [][NodeNext]_nodeVars

-----------------------------------------------------------------------------
(* The spec's storage invariant (3, StorageNode state): every stored proof *)
(* has its BOC under the same hash, and its public inputs are exactly that *)
(* BOC's content hash.  It rests on the binding check of store_update and  *)
(* on the BOC being inserted before the proof.                             *)
ProofBinding ==
    \A h \in Hashes :
        proofs[h] # None =>
            /\ bocs[h] # None
            /\ ContentHash[bocs[h]] = h
            /\ proofs[h] = <<h>>

(* Whoever can take stored_bocs' lock (retrieve_boc, the response          *)
(* manager's cycle) never sees a BOC whose proof is not stored yet: the    *)
(* BOC and its proof are inserted as a pair under store_update's guard.    *)
PairedWhenUnlocked ==
    bocsLock = None =>
        \A h \in Hashes : bocs[h] # None => proofs[h] # None

(* Every stored BOC was paid for: the node never holds more objects than   *)
(* the processing units its battery has spent (4.3 step 1, 5).            *)
StoredPaidFor ==
    Cardinality({h \in Hashes : bocs[h] # None}) <= Charge - battery

-----------------------------------------------------------------------------
(* Refinement mapping onto AtomicStorage: an object is visible once its    *)
(* proof is stored (the BOC insert before it is not yet a store), and the  *)
(* unit charged by a call still holding the battery lock is counted as not *)
(* yet spent, since that call has not finished.                            *)
Atomic == INSTANCE AtomicStorage WITH
    objects <- [h \in Hashes |-> IF proofs[h] # None THEN bocs[h] ELSE None],
    charge <- battery + (IF batteryLock = None THEN 0 ELSE 1)

(* store_update is linearizable: every interleaving of concurrent calls,   *)
(* cut at their awaits, is a run of the atomic store of spec 4.3, in which *)
(* each call debits one unit and stores its BOC and proof as a pair or     *)
(* nothing at all.                                                         *)
AtomicAdmission == Atomic!ASpec

=============================================================================
