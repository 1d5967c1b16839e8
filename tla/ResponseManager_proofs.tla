----------------------- MODULE ResponseManager_proofs -----------------------
(***************************************************************************)
(* Proofs about the verification loop of module ResponseManager composed  *)
(* with the admission path, for every set of tasks, callers, BOCs and      *)
(* digests and every threshold, size ceiling and charge.                   *)
(*                                                                         *)
(* The manager's steps leave the node's variables alone, so every step of  *)
(* the composition is a step or a stutter of StorageNode, and the node's   *)
(* inductive invariants (IInv, PairInv of StorageNode_proofs) carry over.  *)
(* SnapshotBacked rests on two of their consequences: a snapshot is taken  *)
(* only while stored_bocs' lock is free, when every stored BOC has its     *)
(* proof (UnpairedInv), and a stored proof is never removed.               *)
(***************************************************************************)
EXTENDS ResponseManager, StorageNode_proofs, TLAPS

(* A step of the composition is, on the node's variables, a NodeNext step  *)
(* or a stutter: the loop task only reads stored_bocs and stored_proofs.   *)
LEMMA NodeStep == [ManagerNext]_vars => [NodeNext]_nodeVars
BY DEF ManagerNext, StartVerification, StopVerification, TaskStep, LoopTop,
       LockAcquired, VerifySingleResponse, Tally, Wake, vars, managerVars

(* store_update never removes a proof, and the one it inserts is a         *)
(* public-input sequence, not None.                                        *)
LEMMA ProofsKept ==
    IInv /\ [NodeNext]_nodeVars =>
        \A h \in Hashes : proofs[h] # None => proofs'[h] # None
<1> SUFFICES ASSUME IInv, [NodeNext]_nodeVars, NEW h \in Hashes, proofs[h] # None
             PROVE  proofs'[h] # None
  OBVIOUS
<1>1. ASSUME NEW c \in Callers, StoreInsertProof(c)
      PROVE  proofs'[h] # None
  <2>1. call[c].boc \in Bocs /\ call[c].proof = <<ContentHash[call[c].boc]>>
    BY <1>1 DEF StoreInsertProof, IInv, CallerInv, Busy
  <2>2. call[c].proof # None
    BY <2>1, HashFacts
  <2>. QED  BY <1>1, <2>2 DEF StoreInsertProof, IInv, TypeOK
<1>2. CASE UNCHANGED proofs
  BY <1>2
<1>. QED  BY <1>1, <1>2 DEF NodeNext, StoreUpdateBegin, StoreInsertBoc, AddPeer,
                            RemovePeer, nodeVars

-----------------------------------------------------------------------------
(* The type of one loop task's record.                                     *)
TaskRec == [pc : TaskPcs, pending : SUBSET Hashes, ok : BOOLEAN]

(* Setting a task's program point, or its whole record, to a typed value   *)
(* keeps the task map typed.                                               *)
LEMMA PcUpdate ==
    ASSUME NEW T, NEW f \in [T -> TaskRec], NEW t \in T, NEW p \in TaskPcs
    PROVE  [f EXCEPT ![t].pc = p] \in [T -> TaskRec]
BY DEF TaskRec

LEMMA RecUpdate ==
    ASSUME NEW T, NEW f \in [T -> TaskRec], NEW t \in T, NEW r \in TaskRec
    PROVE  [f EXCEPT ![t] = r] \in [T -> TaskRec]
OBVIOUS

(* The manager's initial state and every step keep its variables typed.    *)
LEMMA InitManagerType == ManagerInit => ManagerTypeOK
<1> SUFFICES ASSUME ManagerInit PROVE ManagerTypeOK
  OBVIOUS
<1>1. TypeOK
  BY InitIInv DEF ManagerInit, IInv
<1>2. task \in [Tasks -> TaskRec]
  <2>1. [pc |-> "unspawned", pending |-> {}, ok |-> TRUE] \in TaskRec
    BY DEF TaskRec, TaskPcs
  <2>. QED  BY <2>1 DEF ManagerInit
<1>3. metrics \in [total : 0..MetricsCap, successful : 0..MetricsCap,
                   failed : 0..MetricsCap]
  BY ManagerAssumption DEF ManagerInit
<1>. QED  BY <1>1, <1>2, <1>3 DEF ManagerInit, ManagerTypeOK, TaskRec

(* The cycle's decision leaves a typed task record: the snapshot is a set  *)
(* of digests.                                                             *)
LEMMA CheckType ==
    ASSUME ManagerTypeOK, NEW t \in Tasks, CheckResponseVerification(t)
    PROVE  task' \in [Tasks -> TaskRec]
<1>1. task \in [Tasks -> TaskRec]
  BY DEF ManagerTypeOK, TaskRec
<1>2. /\ [pc |-> "tally", pending |-> {}, ok |-> FALSE] \in TaskRec
      /\ [pc |-> "tally", pending |-> {}, ok |-> TRUE] \in TaskRec
      /\ [pc |-> "verify", pending |-> Stored, ok |-> TRUE] \in TaskRec
  BY DEF TaskRec, TaskPcs, Stored
<1>. HIDE DEF TaskRec
<1>. QED  BY <1>1, <1>2, RecUpdate DEF CheckResponseVerification

(* A capped counter stays within its cap.                                  *)
LEMMA IncType ==
    ASSUME NEW n \in 0..MetricsCap
    PROVE  Inc(n) \in 0..MetricsCap
BY ManagerAssumption DEF Inc

(* The counters and the manager's own variables, typed.                   *)
MetricsRec == [total : 0..MetricsCap, successful : 0..MetricsCap, failed : 0..MetricsCap]

LoopTypeOK ==
    /\ isVerifying \in BOOLEAN
    /\ task \in [Tasks -> TaskRec]
    /\ metrics \in MetricsRec
    /\ verified \subseteq Hashes
    /\ stopped \subseteq Tasks

LEMMA NextManagerType ==
    IInv /\ ManagerTypeOK /\ [ManagerNext]_vars => ManagerTypeOK'
<1> SUFFICES ASSUME IInv, ManagerTypeOK, [ManagerNext]_vars PROVE ManagerTypeOK'
  OBVIOUS
<1>0. /\ task \in [Tasks -> TaskRec]
      /\ metrics \in MetricsRec
      /\ isVerifying \in BOOLEAN
      /\ verified \subseteq Hashes
      /\ stopped \subseteq Tasks
  BY DEF ManagerTypeOK, TaskRec, MetricsRec
<1>1. TypeOK'
  BY NodeStep, NextIInv DEF IInv
<1> SUFFICES LoopTypeOK'
  BY <1>1 DEF ManagerTypeOK, LoopTypeOK, TaskRec, MetricsRec
<1>. HIDE DEF TaskRec
<1>. USE DEF LoopTypeOK
<1>2. ASSUME NEW t \in Tasks, StartVerification(t) PROVE LoopTypeOK'
  BY <1>0, <1>2, PcUpdate DEF StartVerification, TaskPcs
<1>3. ASSUME NEW t \in Tasks, LoopTop(t) PROVE LoopTypeOK'
  <2>1. CASE CheckResponseVerification(t)
    BY <1>0, <1>3, <2>1, CheckType DEF LoopTop
  <2>2. CASE ~CheckResponseVerification(t)
    <3>1. /\ [task EXCEPT ![t].pc = "done"] \in [Tasks -> TaskRec]
          /\ [task EXCEPT ![t].pc = "waitLock"] \in [Tasks -> TaskRec]
      BY <1>0, PcUpdate DEF TaskPcs
    <3>. QED  BY <1>0, <1>3, <2>2, <3>1 DEF LoopTop
  <2>. QED  BY <2>1, <2>2
<1>4. ASSUME NEW t \in Tasks, LockAcquired(t) PROVE LoopTypeOK'
  BY <1>0, <1>4, CheckType DEF LockAcquired
<1>5. ASSUME NEW t \in Tasks, VerifySingleResponse(t) PROVE LoopTypeOK'
  <2>1. PICK h \in task[t].pending :
            /\ verified' = verified \cup {h}
            /\ task' = [task EXCEPT ![t].pending = @ \ {h},
                                    ![t].pc = IF task[t].pending = {h} THEN "tally" ELSE "verify"]
    BY <1>5 DEF VerifySingleResponse
  <2>2. task' \in [Tasks -> TaskRec]
    BY <1>0, <2>1 DEF TaskRec, TaskPcs
  <2>3. verified' \subseteq Hashes
    BY <1>0, <2>1 DEF TaskRec
  <2>4. metrics' \in MetricsRec
    BY <1>0, <1>5, IncType DEF MetricsRec, VerifySingleResponse
  <2>. QED  BY <1>0, <1>5, <2>2, <2>3, <2>4 DEF VerifySingleResponse
<1>6. ASSUME NEW t \in Tasks, Tally(t) PROVE LoopTypeOK'
  <2>1. task' \in [Tasks -> TaskRec]
    <3>1. /\ [task EXCEPT ![t].pc = "top"] \in [Tasks -> TaskRec]
          /\ [task EXCEPT ![t].pc = "done"] \in [Tasks -> TaskRec]
          /\ [task EXCEPT ![t].pc = "sleep"] \in [Tasks -> TaskRec]
      BY <1>0, PcUpdate DEF TaskPcs
    <3>. QED  BY <1>6, <3>1 DEF Tally
  <2>2. metrics' \in MetricsRec
    BY <1>0, <1>6, IncType DEF MetricsRec, Tally
  <2>. QED  BY <1>0, <1>6, <2>1, <2>2 DEF Tally
<1>7. ASSUME NEW t \in Tasks, Wake(t) PROVE LoopTypeOK'
  BY <1>0, <1>7, PcUpdate DEF Wake, TaskPcs
<1>8. CASE StopVerification \/ (NodeNext /\ UNCHANGED managerVars) \/ UNCHANGED vars
  BY <1>0, <1>8 DEF StopVerification, managerVars, vars
<1>. QED  BY <1>2, <1>3, <1>4, <1>5, <1>6, <1>7, <1>8 DEF ManagerNext, TaskStep

(* The manager's variables keep their types in every reachable state.      *)
THEOREM ManagerTypeCorrect == ManagerSpec => []ManagerTypeOK
<1>1. ManagerInit => IInv /\ ManagerTypeOK
  BY InitIInv, InitManagerType DEF ManagerInit
<1>2. IInv /\ ManagerTypeOK /\ [ManagerNext]_vars => IInv' /\ ManagerTypeOK'
  BY NodeStep, NextIInv, NextManagerType
<1>. QED  BY <1>1, <1>2, PTL DEF ManagerSpec

-----------------------------------------------------------------------------
LEMMA InitSnapshot == ManagerInit => SnapshotBacked
BY DEF ManagerInit, SnapshotBacked

(* A snapshot taken while stored_bocs' lock is free holds only digests     *)
(* whose proof is stored: a BOC without its proof exists only while the   *)
(* store_update that inserted it still holds the lock (UnpairedInv).       *)
LEMMA CheckSnapshot ==
    ASSUME PairInv, bocsLock = None, ManagerTypeOK, SnapshotBacked,
           NEW t \in Tasks, CheckResponseVerification(t), UNCHANGED proofs
    PROVE  SnapshotBacked'
<1>1. \A h \in Stored : proofs[h] # None
  BY DEF PairInv, UnpairedInv, Stored
<1>2. PICK r \in {[pc |-> "tally", pending |-> {}, ok |-> FALSE],
                  [pc |-> "verify", pending |-> Stored, ok |-> TRUE],
                  [pc |-> "tally", pending |-> {}, ok |-> TRUE]} :
            task' = [task EXCEPT ![t] = r]
  BY DEF CheckResponseVerification
<1>3. r.pending \subseteq Stored
  OBVIOUS
<1>4. task \in [Tasks -> TaskRec]
  BY DEF ManagerTypeOK, TaskRec
<1>5. \A u \in Tasks : task'[u].pending = IF u = t THEN r.pending ELSE task[u].pending
  BY <1>2, <1>4 DEF TaskRec
<1>. QED  BY <1>1, <1>3, <1>5 DEF SnapshotBacked

(* No step of the composition gives a loop task a digest without a stored *)
(* proof: the node's steps never delete a proof, a cycle's snapshot is     *)
(* backed, and verification only removes digests from it.                 *)
LEMMA NextSnapshot ==
    IInv /\ PairInv /\ ManagerTypeOK /\ SnapshotBacked /\ [ManagerNext]_vars
        => SnapshotBacked'
<1> SUFFICES ASSUME IInv, PairInv, ManagerTypeOK, SnapshotBacked, [ManagerNext]_vars
             PROVE  SnapshotBacked'
  OBVIOUS
<1>0. task \in [Tasks -> TaskRec]
  BY DEF ManagerTypeOK, TaskRec
<1>. HIDE DEF TaskRec
<1>1. CASE NodeNext /\ UNCHANGED managerVars
  <2>1. \A h \in Hashes : proofs[h] # None => proofs'[h] # None
    BY <1>1, ProofsKept
  <2>. QED  BY <1>0, <1>1, <2>1 DEF SnapshotBacked, managerVars, TaskRec
<1>2. ASSUME NEW t \in Tasks, StartVerification(t) PROVE SnapshotBacked'
  BY <1>0, <1>2 DEF StartVerification, SnapshotBacked, nodeVars, TaskRec
<1>3. ASSUME NEW t \in Tasks, LoopTop(t) PROVE SnapshotBacked'
  <2>1. CASE bocsLock = None /\ CheckResponseVerification(t)
    BY <1>3, <2>1, CheckSnapshot DEF LoopTop, nodeVars
  <2>2. CASE ~(bocsLock = None /\ CheckResponseVerification(t))
    BY <1>0, <1>3, <2>2 DEF LoopTop, SnapshotBacked, nodeVars, TaskRec
  <2>. QED  BY <2>1, <2>2
<1>4. ASSUME NEW t \in Tasks, LockAcquired(t) PROVE SnapshotBacked'
  BY <1>4, CheckSnapshot DEF LockAcquired, nodeVars
<1>5. ASSUME NEW t \in Tasks, VerifySingleResponse(t) PROVE SnapshotBacked'
  <2>1. PICK h \in task[t].pending :
            task' = [task EXCEPT ![t].pending = @ \ {h},
                                 ![t].pc = IF task[t].pending = {h} THEN "tally" ELSE "verify"]
    BY <1>5 DEF VerifySingleResponse
  <2>. QED  BY <1>0, <1>5, <2>1 DEF VerifySingleResponse, SnapshotBacked, nodeVars, TaskRec
<1>6. ASSUME NEW t \in Tasks, Tally(t) PROVE SnapshotBacked'
  BY <1>0, <1>6 DEF Tally, SnapshotBacked, nodeVars, TaskRec
<1>7. ASSUME NEW t \in Tasks, Wake(t) PROVE SnapshotBacked'
  BY <1>0, <1>7 DEF Wake, SnapshotBacked, nodeVars, TaskRec
<1>8. CASE StopVerification \/ UNCHANGED vars
  BY <1>8 DEF StopVerification, SnapshotBacked, nodeVars, vars, managerVars
<1>. QED  BY <1>1, <1>2, <1>3, <1>4, <1>5, <1>6, <1>7, <1>8 DEF ManagerNext, TaskStep

(* Every digest a verification cycle has snapshotted still has its proof  *)
(* when verify_single_response looks it up, so the "Proof not found"       *)
(* retry path of response.rs is never taken, for every configuration.     *)
THEOREM SnapshotBackedHolds == ManagerSpec => []SnapshotBacked
<1>1. ManagerInit => IInv /\ PairInv /\ ManagerTypeOK /\ SnapshotBacked
  BY InitIInv, InitPairInv, InitManagerType, InitSnapshot DEF ManagerInit
<1>2. IInv /\ PairInv /\ ManagerTypeOK /\ SnapshotBacked /\ [ManagerNext]_vars
        => IInv' /\ PairInv' /\ ManagerTypeOK' /\ SnapshotBacked'
  BY NodeStep, NextIInv, NextPairInv, NextManagerType, NextSnapshot
<1>. QED  BY <1>1, <1>2, PTL DEF ManagerSpec

=====
