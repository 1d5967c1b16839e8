------------------------- MODULE StorageNode_proofs -------------------------
(***************************************************************************)
(* Proofs about the admission path of module StorageNode, for every set of *)
(* callers, BOCs and digests and every battery charge.                     *)
(*                                                                         *)
(* Neither TypeOK nor ProofBinding is inductive on its own: a caller past  *)
(* the binding check carries a BOC and a proof that the next steps store,  *)
(* and both facts need to know what those are.  CallerInv records it: a    *)
(* caller between the check and the proof insert holds a BOC and exactly   *)
(* the proof <<hash of that BOC>>, and once its BOC insert has happened    *)
(* the BOC is stored under its hash.                                       *)
(***************************************************************************)
EXTENDS StorageNode, FiniteSetTheorems, TLAPS

Busy(c) == call[c].pc \in {"insertBoc", "insertProof"}

CallerInv ==
    \A c \in Callers :
        /\ Busy(c) => /\ call[c].boc \in Bocs
                      /\ call[c].proof = <<ContentHash[call[c].boc]>>
        /\ call[c].pc = "insertProof" => bocs[ContentHash[call[c].boc]] = call[c].boc

IInv == TypeOK /\ ProofBinding /\ CallerInv

-----------------------------------------------------------------------------
(* The hash of a BOC is a digest, and a single digest is a public-input   *)
(* sequence distinct from None.                                            *)
LEMMA HashFacts ==
    ASSUME NEW b \in Bocs
    PROVE  /\ ContentHash[b] \in Hashes
           /\ <<ContentHash[b]>> \in ProofInputs
           /\ <<ContentHash[b]>> # None
<1>1. ContentHash[b] \in Hashes
  BY ConstantsAssumption
<1>2. <<ContentHash[b]>> \in ProofInputs
  BY <1>1 DEF ProofInputs
<1>3. <<ContentHash[b]>> \in Seq(Hashes)
  BY <1>1
<1>4. <<ContentHash[b]>> # None
  BY <1>3, ConstantsAssumption
<1>. QED  BY <1>1, <1>2, <1>4

(* Two BOCs stored under the same digest are the same BOC.                 *)
LEMMA HashInjective ==
    ASSUME NEW a \in Bocs, NEW b \in Bocs, ContentHash[a] = ContentHash[b]
    PROVE  a = b
BY ConstantsAssumption

-----------------------------------------------------------------------------
(* The initial state of StorageNode::new satisfies the invariant.          *)
LEMMA InitIInv == Init => IInv
BY ConstantsAssumption DEF Init, IInv, TypeOK, ProofBinding, CallerInv, Busy, Idle, Results

(* Every step of the admission path and of the peer operations keeps the   *)
(* invariant.                                                              *)
LEMMA NextIInv == IInv /\ [NodeNext]_nodeVars => IInv'
<1> SUFFICES ASSUME IInv, [NodeNext]_nodeVars PROVE IInv'
  OBVIOUS
<1>. USE DEF IInv
<1>1. ASSUME NEW c \in Callers, NEW b \in Bocs, NEW pi \in ProofInputs,
             StoreUpdateBegin(c, b, pi)
      PROVE  IInv'
  <2>1. TypeOK'
    <3>. USE ConstantsAssumption DEF TypeOK, Idle, Results, ProcessingCost
    <3>1. CASE battery < ProcessingCost
      BY <1>1, <3>1 DEF StoreUpdateBegin
    <3>2. CASE battery >= ProcessingCost /\ ~VerifyProofInternal(pi, b)
      BY <1>1, <3>2 DEF StoreUpdateBegin
    <3>3. CASE battery >= ProcessingCost /\ VerifyProofInternal(pi, b)
      BY <1>1, <3>3 DEF StoreUpdateBegin
    <3>. QED  BY <3>1, <3>2, <3>3
  <2>2. ProofBinding'
    BY <1>1 DEF StoreUpdateBegin, ProofBinding
  <2>3. CallerInv'
    <3>1. VerifyProofInternal(pi, b) => pi = <<ContentHash[b]>>
      BY DEF VerifyProofInternal, ProofInputs
    <3>. QED  BY <1>1, <3>1 DEF StoreUpdateBegin, CallerInv, Busy, Idle, TypeOK
  <2>. QED  BY <2>1, <2>2, <2>3
<1>2. ASSUME NEW c \in Callers, StoreInsertBoc(c)
      PROVE  IInv'
  <2>. DEFINE b == call[c].boc
              h == ContentHash[b]
  <2>1. b \in Bocs /\ h \in Hashes
    BY <1>2, HashFacts DEF StoreInsertBoc, CallerInv, Busy
  <2>2. TypeOK'
    BY <1>2, <2>1 DEF StoreInsertBoc, TypeOK
  <2>3. ProofBinding'
    <3>1. proofs[h] # None => bocs[h] = b
      BY <2>1, HashInjective DEF ProofBinding, TypeOK
    <3>. QED  BY <1>2, <2>1, <3>1 DEF StoreInsertBoc, ProofBinding, TypeOK
  <2>4. CallerInv'
    <3>1. ASSUME NEW d \in Callers, call[d].pc = "insertProof"
          PROVE  bocs'[ContentHash[call[d].boc]] = call[d].boc
      <4>1. d # c /\ call[d].boc \in Bocs
        BY <1>2, <3>1 DEF StoreInsertBoc, CallerInv, Busy
      <4>2. ContentHash[call[d].boc] = h => call[d].boc = b
        BY <4>1, <2>1, HashInjective
      <4>. QED  BY <1>2, <3>1, <4>1, <4>2, <2>1 DEF StoreInsertBoc, CallerInv, TypeOK
    <3>. QED  BY <1>2, <2>1, <3>1 DEF StoreInsertBoc, CallerInv, Busy, TypeOK
  <2>. QED  BY <2>2, <2>3, <2>4
<1>3. ASSUME NEW c \in Callers, StoreInsertProof(c)
      PROVE  IInv'
  <2>. DEFINE b == call[c].boc
              h == ContentHash[b]
  <2>1. /\ b \in Bocs /\ h \in Hashes
        /\ call[c].proof = <<h>> /\ <<h>> \in ProofInputs /\ <<h>> # None
        /\ bocs[h] = b
    BY <1>3, HashFacts DEF StoreInsertProof, CallerInv, Busy
  <2>2. TypeOK'
    BY <1>3, <2>1 DEF StoreInsertProof, TypeOK, Idle, Results
  <2>3. ProofBinding'
    BY <1>3, <2>1, ConstantsAssumption DEF StoreInsertProof, ProofBinding, TypeOK
  <2>4. CallerInv'
    BY <1>3, <2>1 DEF StoreInsertProof, CallerInv, Busy, Idle, TypeOK
  <2>. QED  BY <2>2, <2>3, <2>4
<1>4. ASSUME NEW p \in Peers, AddPeer(p) \/ RemovePeer(p)
      PROVE  IInv'
  BY <1>4 DEF AddPeer, RemovePeer, TypeOK, ProofBinding, CallerInv, Busy
<1>5. CASE UNCHANGED nodeVars
  BY <1>5 DEF nodeVars, TypeOK, ProofBinding, CallerInv, Busy
<1>. QED  BY <1>1, <1>2, <1>3, <1>4, <1>5 DEF NodeNext

-----------------------------------------------------------------------------
(* Every reachable state of store_update, add_peer and remove_peer is      *)
(* well-typed: the maps hold BOCs and public-input sequences, the battery  *)
(* stays within 0..Charge and each lock is free or held by a caller.       *)
THEOREM TypeCorrect == NodeSpec => []TypeOK
<1>1. IInv => TypeOK
  BY DEF IInv
<1>. QED  BY <1>1, InitIInv, NextIInv, PTL DEF NodeSpec

(* The storage invariant of the spec holds for every number of concurrent  *)
(* store_update calls and BOCs: a stored proof always has its BOC under    *)
(* the same hash and its public inputs are exactly that hash.              *)
THEOREM ProofBindingHolds == NodeSpec => []ProofBinding
<1>1. IInv => ProofBinding
  BY DEF IInv
<1>. QED  BY <1>1, InitIInv, NextIInv, PTL DEF NodeSpec


-----------------------------------------------------------------------------
(* The refinement needs one more fact: the battery lock is held exactly by *)
(* the caller between the binding check and the proof insert.  It is what *)
(* lets the mapping count the unit that caller has charged as unspent.     *)
LockInv == \A c \in Callers : Busy(c) <=> batteryLock = c

LEMMA InitLockInv == Init => LockInv
BY ConstantsAssumption DEF Init, LockInv, Busy, Idle

LEMMA NextLockInv == IInv /\ LockInv /\ [NodeNext]_nodeVars => LockInv'
<1> SUFFICES ASSUME IInv, LockInv, [NodeNext]_nodeVars PROVE LockInv'
  OBVIOUS
<1>. USE ConstantsAssumption DEF IInv, TypeOK, LockInv, Busy
<1>1. ASSUME NEW c \in Callers, NEW b \in Bocs, NEW pi \in ProofInputs,
             StoreUpdateBegin(c, b, pi)
      PROVE  LockInv'
  BY <1>1 DEF StoreUpdateBegin, Idle
<1>2. ASSUME NEW c \in Callers, StoreInsertBoc(c)
      PROVE  LockInv'
  BY <1>2 DEF StoreInsertBoc
<1>3. ASSUME NEW c \in Callers, StoreInsertProof(c)
      PROVE  LockInv'
  BY <1>3 DEF StoreInsertProof, Idle
<1>4. ASSUME NEW p \in Peers, AddPeer(p) \/ RemovePeer(p)
      PROVE  LockInv'
  BY <1>4 DEF AddPeer, RemovePeer
<1>5. CASE UNCHANGED nodeVars
  BY <1>5 DEF nodeVars
<1>. QED  BY <1>1, <1>2, <1>3, <1>4, <1>5 DEF NodeNext

(* The mapped initial state is AtomicStorage's: nothing stored, the full   *)
(* charge, no peer.                                                        *)
LEMMA InitRefined == Init => Atomic!AInit
BY ConstantsAssumption DEF Init, Atomic!AInit

(* A step that leaves the maps, the battery, its lock and the peers alone *)
(* leaves the mapped state alone.                                          *)
LEMMA MappedUnchanged ==
    UNCHANGED <<bocs, proofs, battery, batteryLock, peers>> => UNCHANGED Atomic!avars
BY DEF Atomic!avars

(* Every step of StorageNode is a step of AtomicStorage or leaves the      *)
(* mapped state unchanged.                                                 *)
LEMMA NextRefined ==
    IInv /\ LockInv /\ [NodeNext]_nodeVars => [Atomic!ANext]_Atomic!avars
<1> SUFFICES ASSUME IInv, LockInv, [NodeNext]_nodeVars
             PROVE  [Atomic!ANext]_Atomic!avars
  OBVIOUS
<1>. USE ConstantsAssumption DEF IInv
<1>1. ASSUME NEW c \in Callers, NEW b \in Bocs, NEW pi \in ProofInputs,
             StoreUpdateBegin(c, b, pi)
      PROVE  [Atomic!ANext]_Atomic!avars
  <2>1. CASE battery < ProcessingCost
    <3>1. UNCHANGED <<bocs, proofs, battery, batteryLock, peers>>
      BY <1>1, <2>1 DEF StoreUpdateBegin, ProcessingCost, TypeOK
    <3>. QED  BY <3>1, MappedUnchanged
  <2>2. CASE battery >= ProcessingCost /\ ~VerifyProofInternal(pi, b)
    <3>1. Atomic!StoreRejected
      BY <1>1, <2>2 DEF StoreUpdateBegin, Atomic!StoreRejected, ProcessingCost, TypeOK
    <3>. QED  BY <3>1 DEF Atomic!ANext
  <2>3. CASE battery >= ProcessingCost /\ VerifyProofInternal(pi, b)
    <3>1. /\ battery \in Nat /\ battery' \in Nat
          /\ battery >= 1 /\ battery' = battery - 1
          /\ batteryLock' # None /\ batteryLock = None
          /\ UNCHANGED <<bocs, proofs, peers>>
      BY <1>1, <2>3 DEF StoreUpdateBegin, ProcessingCost, TypeOK
    <3>2. /\ (IF batteryLock' = None THEN 0 ELSE 1) = 1
          /\ (IF batteryLock = None THEN 0 ELSE 1) = 0
      BY <3>1
    <3>3. battery' + 1 = battery + 0
      BY <3>1
    <3>4. battery' + (IF batteryLock' = None THEN 0 ELSE 1)
            = battery + (IF batteryLock = None THEN 0 ELSE 1)
      BY <3>2, <3>3
    <3>. QED  BY <3>1, <3>4 DEF Atomic!avars
  <2>. QED  BY <2>1, <2>2, <2>3 DEF TypeOK, ProcessingCost
<1>2. ASSUME NEW c \in Callers, StoreInsertBoc(c)
      PROVE  [Atomic!ANext]_Atomic!avars
  <2>. DEFINE b == call[c].boc
              h == ContentHash[b]
  <2>1. b \in Bocs /\ h \in Hashes
    BY <1>2, HashFacts DEF StoreInsertBoc, CallerInv, Busy
  <2>2. proofs[h] # None => bocs[h] = b
    BY <2>1, HashInjective DEF ProofBinding, TypeOK
  <2>3. [g \in Hashes |-> IF proofs'[g] # None THEN bocs'[g] ELSE None]
          = [g \in Hashes |-> IF proofs[g] # None THEN bocs[g] ELSE None]
    BY <1>2, <2>1, <2>2 DEF StoreInsertBoc, TypeOK
  <2>. QED  BY <1>2, <2>3 DEF StoreInsertBoc, Atomic!avars
<1>3. ASSUME NEW c \in Callers, StoreInsertProof(c)
      PROVE  [Atomic!ANext]_Atomic!avars
  <2>1. PICK b \in Bocs : b = call[c].boc
    BY <1>3 DEF StoreInsertProof, CallerInv, Busy
  <2>. DEFINE h == ContentHash[b]
  <2>2. /\ h \in Hashes
        /\ call[c].proof = <<h>> /\ <<h>> # None
        /\ bocs[h] = b
        /\ batteryLock = c
    BY <1>3, <2>1, HashFacts DEF StoreInsertProof, CallerInv, Busy, LockInv
  <2>3. /\ battery \in Nat /\ battery' = battery
        /\ batteryLock' = None /\ batteryLock # None
        /\ bocs' = bocs /\ peers' = peers
        /\ proofs' = [proofs EXCEPT ![h] = <<h>>]
    BY <1>3, <2>1, <2>2, ConstantsAssumption DEF StoreInsertProof, TypeOK
  <2>4. battery + (IF batteryLock = None THEN 0 ELSE 1) >= 1
    BY <2>3
  <2>5. battery' + (IF batteryLock' = None THEN 0 ELSE 1)
          = battery + (IF batteryLock = None THEN 0 ELSE 1) - 1
    BY <2>3
  <2>6. \A g \in Hashes : (IF proofs'[g] # None THEN bocs'[g] ELSE None)
                         = IF g = h THEN b ELSE IF proofs[g] # None THEN bocs[g] ELSE None
    BY <2>2, <2>3 DEF TypeOK
  <2>7. [g \in Hashes |-> IF proofs'[g] # None THEN bocs'[g] ELSE None]
          = [[g \in Hashes |-> IF proofs[g] # None THEN bocs[g] ELSE None]
               EXCEPT ![h] = b]
    BY <2>2, <2>6
  <2>8. Atomic!StoreAccepted(b)
    BY <2>3, <2>4, <2>5, <2>7 DEF Atomic!StoreAccepted, h
  <2>. QED  BY <2>8 DEF Atomic!ANext
<1>4. ASSUME NEW p \in Peers, AddPeer(p) \/ RemovePeer(p)
      PROVE  [Atomic!ANext]_Atomic!avars
  <2>1. Atomic!PeerChange(p)
    BY <1>4 DEF AddPeer, RemovePeer, Atomic!PeerChange
  <2>. QED  BY <2>1 DEF Atomic!ANext
<1>5. CASE UNCHANGED nodeVars
  BY <1>5 DEF nodeVars, Atomic!avars
<1>. QED  BY <1>1, <1>2, <1>3, <1>4, <1>5 DEF NodeNext

(* store_update implements the atomic store of spec 4.3: under the        *)
(* mapping, every behaviour of concurrent calls cut at their awaits is a  *)
(* behaviour of AtomicStorage.                                             *)
THEOREM AdmissionRefined == NodeSpec => AtomicAdmission
<1>1. NodeSpec => [](IInv /\ LockInv)
  BY InitIInv, NextIInv, InitLockInv, NextLockInv, PTL DEF NodeSpec
<1>. QED  BY <1>1, InitRefined, NextRefined, PTL DEF NodeSpec, AtomicAdmission, Atomic!ASpec


-----------------------------------------------------------------------------
(* PairedWhenUnlocked is not inductive: a BOC without its proof is allowed *)
(* while the BOC lock is held, and the proof insert must know which one it *)
(* is.  PairInv says that the BOC lock is held exactly by the caller at    *)
(* its proof insert, and that a BOC without its proof is that caller's.    *)
BocLockInv == \A c \in Callers : bocsLock = c <=> call[c].pc = "insertProof"

UnpairedInv ==
    \A h \in Hashes :
        bocs[h] # None /\ proofs[h] = None =>
            bocsLock # None /\ h = ContentHash[call[bocsLock].boc]

PairInv == BocLockInv /\ UnpairedInv

LEMMA InitPairInv == Init => PairInv
BY ConstantsAssumption DEF Init, PairInv, BocLockInv, UnpairedInv, Idle

LEMMA NextPairInv == IInv /\ PairInv /\ [NodeNext]_nodeVars => PairInv'
<1> SUFFICES ASSUME IInv, PairInv, [NodeNext]_nodeVars PROVE PairInv'
  OBVIOUS
<1>. USE ConstantsAssumption DEF IInv, TypeOK, PairInv
<1>1. ASSUME NEW c \in Callers, NEW b \in Bocs, NEW pi \in ProofInputs,
             StoreUpdateBegin(c, b, pi)
      PROVE  PairInv'
  <2>1. /\ bocsLock # c
        /\ UNCHANGED <<bocs, proofs, bocsLock>>
        /\ call'[c].pc # "insertProof"
        /\ \A d \in Callers \ {c} : call'[d] = call[d]
    BY <1>1 DEF StoreUpdateBegin, Idle, BocLockInv
  <2>2. BocLockInv'
    BY <2>1 DEF BocLockInv
  <2>3. UnpairedInv'
    BY <2>1 DEF UnpairedInv
  <2>. QED  BY <2>2, <2>3
<1>2. ASSUME NEW c \in Callers, StoreInsertBoc(c)
      PROVE  PairInv'
  <2>. DEFINE h == ContentHash[call[c].boc]
  <2>1. /\ h \in Hashes
        /\ bocsLock = None /\ bocsLock' = c
        /\ bocs' = [bocs EXCEPT ![h] = call[c].boc]
        /\ UNCHANGED proofs
        /\ call' = [call EXCEPT ![c].pc = "insertProof"]
    BY <1>2, HashFacts DEF StoreInsertBoc, CallerInv, Busy
  <2>2. \A d \in Callers : call[d].pc # "insertProof"
    BY <2>1 DEF BocLockInv
  <2>3. \A g \in Hashes : ~(bocs[g] # None /\ proofs[g] = None)
    BY <2>1 DEF UnpairedInv
  <2>4. BocLockInv'
    BY <2>1, <2>2 DEF BocLockInv
  <2>5. UnpairedInv'
    BY <2>1, <2>3 DEF UnpairedInv
  <2>. QED  BY <2>4, <2>5
<1>3. ASSUME NEW c \in Callers, StoreInsertProof(c)
      PROVE  PairInv'
  <2>. DEFINE h == ContentHash[call[c].boc]
  <2>1. /\ h \in Hashes /\ <<h>> # None
        /\ bocsLock = c /\ bocsLock' = None
        /\ proofs' = [proofs EXCEPT ![h] = <<h>>]
        /\ UNCHANGED bocs
        /\ call'[c].pc = "idle"
        /\ \A d \in Callers \ {c} : call'[d] = call[d]
    BY <1>3, HashFacts DEF StoreInsertProof, CallerInv, Busy, BocLockInv, Idle
  <2>2. \A d \in Callers \ {c} : call[d].pc # "insertProof"
    BY <2>1 DEF BocLockInv
  <2>3. BocLockInv'
    BY <2>1, <2>2 DEF BocLockInv
  <2>4. UnpairedInv'
    BY <2>1 DEF UnpairedInv
  <2>. QED  BY <2>3, <2>4
<1>4. ASSUME NEW p \in Peers, AddPeer(p) \/ RemovePeer(p)
      PROVE  PairInv'
  BY <1>4 DEF AddPeer, RemovePeer, BocLockInv, UnpairedInv
<1>5. CASE UNCHANGED nodeVars
  BY <1>5 DEF nodeVars, BocLockInv, UnpairedInv
<1>. QED  BY <1>1, <1>2, <1>3, <1>4, <1>5 DEF NodeNext

(* Whoever takes stored_bocs' lock never sees a BOC without its proof, for *)
(* any number of concurrent store_update calls: the BOC and the proof are  *)
(* inserted as a pair under the guard store_update keeps across its await. *)
THEOREM PairedWhenUnlockedHolds == NodeSpec => []PairedWhenUnlocked
<1>1. NodeSpec => [](IInv /\ PairInv)
  BY InitIInv, NextIInv, InitPairInv, NextPairInv, PTL DEF NodeSpec
<1>2. IInv /\ PairInv => PairedWhenUnlocked
  BY DEF PairInv, UnpairedInv, PairedWhenUnlocked
<1>. QED  BY <1>1, <1>2, PTL


-----------------------------------------------------------------------------
(* StoredPaidFor is not inductive either: a caller that has paid and not   *)
(* yet inserted its BOC stores one more object without paying again.       *)
(* PaidInv counts that caller's unit with the stored objects; under        *)
(* LockInv the only such caller is the holder of the battery lock.         *)
StoredHashes == {h \in Hashes : bocs[h] # None}

Pending == IF batteryLock # None /\ call[batteryLock].pc = "insertBoc" THEN 1 ELSE 0

PaidInv == Cardinality(StoredHashes) + Pending <= Charge - battery

(* The stored digests are a finite set, of known cardinality.              *)
LEMMA StoredFinite == TypeOK => IsFiniteSet(StoredHashes) /\ Cardinality(StoredHashes) \in Nat
<1>1. IsFiniteSet(StoredHashes)
  BY ConstantsAssumption, FS_Subset DEF StoredHashes
<1>. QED  BY <1>1, FS_CardinalityType

LEMMA InitPaidInv == Init => PaidInv
<1> SUFFICES ASSUME Init PROVE PaidInv
  OBVIOUS
<1>1. StoredHashes = {}
  BY DEF Init, StoredHashes
<1>2. Cardinality(StoredHashes) = 0
  BY <1>1, FS_EmptySet
<1>. QED  BY <1>2, ConstantsAssumption DEF Init, PaidInv, Pending

LEMMA NextPaidInv == IInv /\ LockInv /\ PaidInv /\ [NodeNext]_nodeVars => PaidInv'
<1> SUFFICES ASSUME IInv, LockInv, PaidInv, [NodeNext]_nodeVars PROVE PaidInv'
  OBVIOUS
<1>. USE ConstantsAssumption DEF IInv, TypeOK
<1>0. Cardinality(StoredHashes) \in Nat /\ battery \in 0 .. Charge
  BY StoredFinite DEF TypeOK
<1>1. ASSUME NEW c \in Callers, NEW b \in Bocs, NEW pi \in ProofInputs,
             StoreUpdateBegin(c, b, pi)
      PROVE  PaidInv'
  <2>1. StoredHashes' = StoredHashes /\ batteryLock = None
    BY <1>1 DEF StoreUpdateBegin, StoredHashes
  <2>2. Pending = 0
    BY <2>1 DEF Pending
  <2>3. CASE battery < ProcessingCost
    <3>1. battery' = battery /\ batteryLock' = None
      BY <1>1, <2>1, <2>3 DEF StoreUpdateBegin, ProcessingCost, TypeOK
    <3>. QED  BY <1>0, <2>1, <2>2, <3>1 DEF PaidInv, Pending
  <2>4. CASE battery >= ProcessingCost
    <3>1. battery' = battery - 1 /\ battery >= 1
      BY <1>1, <2>4 DEF StoreUpdateBegin, ProcessingCost
    <3>2. Pending' \in {0, 1}
      BY DEF Pending
    <3>3. Cardinality(StoredHashes') = Cardinality(StoredHashes)
      BY <2>1
    <3>. QED  BY <1>0, <2>2, <3>1, <3>2, <3>3 DEF PaidInv
  <2>. QED  BY <2>3, <2>4, <1>0 DEF ProcessingCost
<1>2. ASSUME NEW c \in Callers, StoreInsertBoc(c)
      PROVE  PaidInv'
  <2>. DEFINE h == ContentHash[call[c].boc]
  <2>1. /\ h \in Hashes
        /\ batteryLock = c /\ call[c].pc = "insertBoc"
        /\ bocs' = [bocs EXCEPT ![h] = call[c].boc]
        /\ UNCHANGED <<battery, batteryLock>>
        /\ call'[c].pc = "insertProof"
    BY <1>2, HashFacts DEF StoreInsertBoc, CallerInv, Busy, LockInv
  <2>2. Pending = 1 /\ Pending' = 0
    BY <2>1 DEF Pending
  <2>3. StoredHashes' = StoredHashes \cup {h}
    BY <2>1, HashFacts DEF StoredHashes, CallerInv, Busy, TypeOK
  <2>4. Cardinality(StoredHashes') <= Cardinality(StoredHashes) + 1
    <3>1. IsFiniteSet(StoredHashes)
      BY StoredFinite
    <3>2. Cardinality(StoredHashes \cup {h})
            = IF h \in StoredHashes THEN Cardinality(StoredHashes) ELSE Cardinality(StoredHashes) + 1
      BY <3>1, FS_AddElement
    <3>. QED  BY <1>0, <2>3, <3>2
  <2>5. Cardinality(StoredHashes') \in Nat
    <3>1. IsFiniteSet(StoredHashes \cup {h})
      BY StoredFinite, FS_AddElement
    <3>. QED  BY <2>3, <3>1, FS_CardinalityType
  <2>. QED  BY <1>0, <2>1, <2>2, <2>4, <2>5 DEF PaidInv
<1>3. ASSUME NEW c \in Callers, StoreInsertProof(c)
      PROVE  PaidInv'
  <2>1. /\ batteryLock = c /\ call[c].pc = "insertProof"
        /\ batteryLock' = None
        /\ UNCHANGED <<bocs, battery>>
    BY <1>3 DEF StoreInsertProof, Busy, LockInv
  <2>2. Pending = 0 /\ Pending' = 0 /\ StoredHashes' = StoredHashes
    BY <2>1 DEF Pending, StoredHashes
  <2>. QED  BY <2>1, <2>2 DEF PaidInv
<1>4. ASSUME NEW p \in Peers, AddPeer(p) \/ RemovePeer(p)
      PROVE  PaidInv'
  BY <1>4 DEF AddPeer, RemovePeer, PaidInv, Pending, StoredHashes
<1>5. CASE UNCHANGED nodeVars
  BY <1>5 DEF nodeVars, PaidInv, Pending, StoredHashes
<1>. QED  BY <1>1, <1>2, <1>3, <1>4, <1>5 DEF NodeNext

(* The node never holds more objects than its battery has paid for, for   *)
(* any charge and any number of concurrent store_update calls, including  *)
(* calls that pay, fail the binding check, or find the battery empty.      *)
THEOREM StoredPaidForHolds == NodeSpec => []StoredPaidFor
<1>1. NodeSpec => [](IInv /\ LockInv /\ PaidInv)
  BY InitIInv, NextIInv, InitLockInv, NextLockInv, InitPaidInv, NextPaidInv, PTL DEF NodeSpec
<1>2. IInv /\ PaidInv => StoredPaidFor
  <2> SUFFICES ASSUME IInv, PaidInv PROVE StoredPaidFor
    OBVIOUS
  <2>1. Cardinality(StoredHashes) \in Nat /\ Pending \in {0, 1}
    BY StoredFinite DEF IInv, Pending
  <2>. QED  BY <2>1, ConstantsAssumption DEF PaidInv, StoredPaidFor, StoredHashes, IInv, TypeOK
<1>. QED  BY <1>1, <1>2, PTL

=============================================================================
