-------------------- MODULE BitcoinStateConverter_proofs --------------------
(***************************************************************************)
(* Proofs about module BitcoinStateConverter, for every number of threads, *)
(* locks and channels and every word width.                                *)
(*                                                                         *)
(* The type invariant is not inductive by itself: ConvertReadRoot builds   *)
(* a state from the thread's lock and root, so the invariant also says     *)
(* that a thread past the tree update holds a lock and a root.            *)
(***************************************************************************)
EXTENDS BitcoinStateConverter, TLAPS

Converting(t) == conv[t].pc \in {"prove", "readRoot"}

ThreadInv ==
    \A t \in Threads :
        Converting(t) => conv[t].lock \in Locks /\ conv[t].proofRoot \in TreeRoots

IInv == ConverterTypeOK /\ ThreadInv

-----------------------------------------------------------------------------
(* A submitted successor of a well-formed state is well-formed.           *)
LEMMA SuccessorsType ==
    ASSUME NEW prev \in States, tree \in TreeRoots
    PROVE  Successors(prev) \subseteq States
<1>1. prev.root \in TreeRoots /\ prev.proofRoot \in TreeRoots
  BY DEF States
<1>. QED  BY <1>1 DEF Successors, States

(* BitcoinStateConverter::new satisfies the invariant.                     *)
LEMMA InitIInv == ConverterInit => IInv
BY DEF ConverterInit, IInv, ConverterTypeOK, ThreadInv, Converting,
       Pcs, Results, TreeRoots

(* Every step keeps the types and the per-thread facts, in either build.  *)
LEMMA NextTInv == ConverterTypeOK /\ ThreadInv /\ [ConverterNext]_cvars
                    => ConverterTypeOK' /\ ThreadInv'
<1> SUFFICES ASSUME ConverterTypeOK, ThreadInv, [ConverterNext]_cvars
             PROVE  ConverterTypeOK' /\ ThreadInv'
  OBVIOUS
<1>. USE DEF ConverterTypeOK, ThreadInv, Converting
<1>1. ASSUME NEW t \in Threads, NEW l \in Locks, ConvertUpdateTree(t, l)
      PROVE  ConverterTypeOK' /\ ThreadInv'
  <2>1. ChannelOf[l] \in Channels
    BY ConverterAssumption
  <2>. QED  BY <1>1, <2>1 DEF ConvertUpdateTree, Pcs, TreeRoots
<1>2. ASSUME NEW t \in Threads, ConvertProve(t)
      PROVE  ConverterTypeOK' /\ ThreadInv'
  BY <1>2 DEF ConvertProve, Pcs
<1>3. ASSUME NEW t \in Threads, ConvertReadRoot(t)
      PROVE  ConverterTypeOK' /\ ThreadInv'
  <2>1. /\ conv[t].lock \in Locks /\ conv[t].proofRoot \in TreeRoots
        /\ ChannelOf[conv[t].lock] \in Channels /\ PkOf[conv[t].lock] \in Pks
        /\ SeqOf[conv[t].lock] \in 0 .. MaxSeq
    BY <1>3, ConverterAssumption DEF ConvertReadRoot
  <2>. QED  BY <1>3, <2>1 DEF ConvertReadRoot, Pcs, States
<1>4. ASSUME NEW prev \in issued, NEW new \in Successors(prev),
             VerifyStateTransition(prev, new)
      PROVE  ConverterTypeOK' /\ ThreadInv'
  <2>1. prev \in States
    OBVIOUS
  <2>2. new \in States
    BY <2>1, SuccessorsType
  <2>. QED  BY <1>4, <2>1, <2>2 DEF VerifyStateTransition, Results
<1>5. ASSUME NEW t \in Threads, NEW s \in issued, PrepareSettlementCheck(t, s)
      PROVE  ConverterTypeOK' /\ ThreadInv'
  BY <1>5 DEF PrepareSettlementCheck, Results
<1>6. ASSUME NEW t \in Threads, PrepareSettlementProve(t)
      PROVE  ConverterTypeOK' /\ ThreadInv'
  BY <1>6 DEF PrepareSettlementProve, Results
<1>7. CASE UNCHANGED cvars
  BY <1>7 DEF cvars
<1>. QED  BY <1>1, <1>2, <1>3, <1>4, <1>5, <1>6, <1>7 DEF ConverterNext

(* In either build, every reachable state is well-typed: the tree maps     *)
(* channels to locks, issued, accepted and settled states are well-formed  *)
(* and a thread past its tree update holds a lock and a root.              *)
THEOREM ConverterTypeCorrect == ConverterSpec => []ConverterTypeOK
<1>1. ConverterInit => ConverterTypeOK /\ ThreadInv
  BY InitIInv DEF IInv
<1>. QED  BY <1>1, NextTInv, PTL DEF ConverterSpec

=============================================================================
