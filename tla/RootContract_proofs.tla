------------------------- MODULE RootContract_proofs -------------------------
(***************************************************************************)
(* Proofs about the epoch state machine of module RootContract, for every  *)
(* word width, epoch duration and set of contracts.                        *)
(*                                                                         *)
(* Epoch pacing holds when the subtraction now - last_submission cannot    *)
(* wrap: either every caller passes the current time (ClockSkew = 0), or   *)
(* the build panics instead of wrapping.  It is not inductive alone: a     *)
(* submission moves last_submission to now, and now is at least the old    *)
(* last_submission only because last_submission never runs ahead of the   *)
(* clock.  PacingInv adds that fact to the type invariant.                 *)
(***************************************************************************)
EXTENDS RootContract, SequenceTheorems, TLAPS

NoWrapAround == ClockSkew = 0 \/ ~WrapOnOverflow

PacingInv == RootTypeOK /\ EpochPacing /\ lastSubmission <= clock

-----------------------------------------------------------------------------
(* A difference that fits the word is its own wrapped value.               *)
LEMMA SubNoWrap ==
    ASSUME NEW a \in 0 .. MaxTime, NEW b \in 0 .. MaxTime, a >= b
    PROVE  WrappingSub(a, b) = a - b
BY RootAssumption DEF WrappingSub, MaxTime

(* A slice of a sequence that agrees with t element by element is t.     *)
LEMMA SubSeqSlice ==
    ASSUME NEW s \in Seq(Nat), NEW t \in Seq(Nat), NEW m \in Nat \ {0},
           m + Len(t) - 1 <= Len(s),
           \A i \in 1 .. Len(t) : s[m + i - 1] = t[i]
    PROVE  SubSeq(s, m, m + Len(t) - 1) = t
<1>1. \A i \in m .. m + Len(t) - 1 : s[i] \in Nat
  BY ElementOfSeq
<1>2. /\ SubSeq(s, m, m + Len(t) - 1) \in Seq(Nat)
      /\ Len(SubSeq(s, m, m + Len(t) - 1)) = Len(t)
      /\ \A i \in 1 .. Len(t) : SubSeq(s, m, m + Len(t) - 1)[i] = s[m + i - 1]
  BY <1>1, SubSeqProperties
<1>. QED  BY <1>2, SeqEqual

(* The two halves of a concatenation, element by element.                 *)
LEMMA ConcatParts ==
    ASSUME NEW x \in Seq(Nat), NEW y \in Seq(Nat)
    PROVE  /\ x \o y \in Seq(Nat)
           /\ Len(x \o y) = Len(x) + Len(y)
           /\ \A k \in 1 .. Len(x) : (x \o y)[k] = x[k]
           /\ \A k \in 1 .. Len(y) : (x \o y)[Len(x) + k] = y[k]
<1>1. x \o y \in Seq(Nat)
  BY ConcatProperties, Zenon
<1>2. /\ Len(x \o y) = Len(x) + Len(y)
      /\ \A i \in 1 .. Len(x) + Len(y) :
            (x \o y)[i] = IF i <= Len(x) THEN x[i] ELSE y[i - Len(x)]
  BY ConcatProperties, Zenon
<1>3. Len(x) \in Nat /\ Len(y) \in Nat
  BY LenProperties, Zenon
<1>. QED  BY <1>2, <1>3

(* Three 8-byte words and two bytes, concatenated, are found again at     *)
(* offsets 1, 9, 17, 25 and 26.                                            *)
Layout(a, b, c, d) ==
    LET s == a \o b \o c \o d
    IN  /\ Len(s) = 26
        /\ SubSeq(s, 1, 8) = a
        /\ SubSeq(s, 9, 16) = b
        /\ SubSeq(s, 17, 24) = c
        /\ s[25] = d[1] /\ s[26] = d[2]

LEMMA ConcatLayout ==
    ASSUME NEW a \in Seq(Nat), NEW b \in Seq(Nat), NEW c \in Seq(Nat),
           NEW d \in Seq(Nat),
           Len(a) = 8, Len(b) = 8, Len(c) = 8, Len(d) = 2
    PROVE  Layout(a, b, c, d)
<1>a. PICK ab : ab = a \o b  OBVIOUS
<1>b. PICK abc : abc = ab \o c  OBVIOUS
<1>c. PICK s : s = abc \o d  OBVIOUS
<1>d. s = a \o b \o c \o d  BY <1>a, <1>b, <1>c
<1>0. ab \in Seq(Nat)  BY <1>a, ConcatParts, Zenon
<1>7. abc \in Seq(Nat)  BY <1>0, <1>b, ConcatParts, Zenon
<1>1. /\ ab \in Seq(Nat) /\ Len(ab) = Len(a) + Len(b)
      /\ \A k \in 1 .. Len(a) : ab[k] = a[k]
      /\ \A k \in 1 .. Len(b) : ab[Len(a) + k] = b[k]
  <2>1. /\ a \o b \in Seq(Nat) /\ Len(a \o b) = Len(a) + Len(b)
        /\ \A k \in 1 .. Len(a) : (a \o b)[k] = a[k]
        /\ \A k \in 1 .. Len(b) : (a \o b)[Len(a) + k] = b[k]
    BY ConcatParts
  <2>. QED  BY <2>1, <1>a, Zenon
<1>2. /\ abc \in Seq(Nat) /\ Len(abc) = Len(ab) + Len(c)
      /\ \A k \in 1 .. Len(ab) : abc[k] = ab[k]
      /\ \A k \in 1 .. Len(c) : abc[Len(ab) + k] = c[k]
  <2>1. /\ ab \o c \in Seq(Nat) /\ Len(ab \o c) = Len(ab) + Len(c)
        /\ \A k \in 1 .. Len(ab) : (ab \o c)[k] = ab[k]
        /\ \A k \in 1 .. Len(c) : (ab \o c)[Len(ab) + k] = c[k]
    BY <1>0, ConcatParts
  <2>. QED  BY <2>1, <1>b, Zenon
<1>3. /\ s \in Seq(Nat) /\ Len(s) = Len(abc) + Len(d)
      /\ \A k \in 1 .. Len(abc) : s[k] = abc[k]
      /\ \A k \in 1 .. Len(d) : s[Len(abc) + k] = d[k]
  <2>1. /\ abc \o d \in Seq(Nat) /\ Len(abc \o d) = Len(abc) + Len(d)
        /\ \A k \in 1 .. Len(abc) : (abc \o d)[k] = abc[k]
        /\ \A k \in 1 .. Len(d) : (abc \o d)[Len(abc) + k] = d[k]
    BY <1>7, ConcatParts
  <2>. QED  BY <2>1, <1>c, Zenon
<1>5. Len(ab) = 16 /\ Len(abc) = 24 /\ Len(s) = 26
  BY <1>1, <1>2, <1>3
<1>6. s[25] = d[1] /\ s[26] = d[2]
  <2>1. 1 \in 1 .. Len(d) /\ 2 \in 1 .. Len(d) /\ Len(abc) + 1 = 25 /\ Len(abc) + 2 = 26
    BY <1>5
  <2>2. s[Len(abc) + 1] = d[1] /\ s[Len(abc) + 2] = d[2]
    BY <2>1, <1>3, Zenon
  <2>. QED  BY <2>1, <2>2
<1>4. ASSUME NEW k \in 1 .. 8
      PROVE  s[k] = a[k] /\ s[8 + k] = b[k] /\ s[16 + k] = c[k]
  <2>1. /\ k \in 1 .. Len(a) /\ k \in 1 .. Len(b) /\ k \in 1 .. Len(c)
        /\ k \in 1 .. Len(ab) /\ Len(a) + k \in 1 .. Len(ab)
        /\ k \in 1 .. Len(abc) /\ Len(a) + k \in 1 .. Len(abc)
        /\ Len(ab) + k \in 1 .. Len(abc)
        /\ Len(a) + k = 8 + k /\ Len(ab) + k = 16 + k
    BY <1>5
  <2>2. ab[k] = a[k] /\ ab[Len(a) + k] = b[k]
    BY <2>1, <1>1, Zenon
  <2>3. /\ abc[k] = ab[k] /\ abc[Len(a) + k] = ab[Len(a) + k]
        /\ abc[Len(ab) + k] = c[k]
    BY <2>1, <1>2, Zenon
  <2>4. /\ s[k] = abc[k] /\ s[Len(a) + k] = abc[Len(a) + k]
        /\ s[Len(ab) + k] = abc[Len(ab) + k]
    BY <2>1, <1>3, Zenon
  <2>. QED  BY <2>1, <2>2, <2>3, <2>4
<1>8. ASSUME NEW t \in Seq(Nat), Len(t) = 8, NEW m \in {1, 9, 17},
             \A i \in 1 .. 8 : s[m + i - 1] = t[i]
      PROVE  SubSeq(s, m, m + 7) = t
  <2>1. /\ \A i \in 1 .. Len(t) : s[m + i - 1] = t[i]
        /\ m \in Nat \ {0} /\ m + Len(t) - 1 <= Len(s) /\ m + Len(t) - 1 = m + 7
    <3>1. ASSUME NEW i \in 1 .. Len(t) PROVE s[m + i - 1] = t[i]
      <4>1. i \in 1 .. 8  BY <1>8
      <4>. QED  BY <4>1, <1>8
    <3>2. m \in Nat \ {0} /\ m + Len(t) - 1 <= Len(s) /\ m + Len(t) - 1 = m + 7
      BY <1>5, <1>8
    <3>. QED  BY <3>1, <3>2
  <2>2. SubSeq(s, m, m + Len(t) - 1) = t
    BY <2>1, <1>3, SubSeqSlice, Zenon
  <2>. QED  BY <2>1, <2>2
<1>9. /\ SubSeq(s, 1, 8) = a
      /\ SubSeq(s, 9, 16) = b
      /\ SubSeq(s, 17, 24) = c
  <2>1. ASSUME NEW i \in 1 .. 8
        PROVE  s[1 + i - 1] = a[i] /\ s[9 + i - 1] = b[i] /\ s[17 + i - 1] = c[i]
    <3>1. s[i] = a[i] /\ s[8 + i] = b[i] /\ s[16 + i] = c[i]
      BY <1>4
    <3>2. 1 + i - 1 = i /\ 9 + i - 1 = 8 + i /\ 17 + i - 1 = 16 + i
      OBVIOUS
    <3>. QED  BY <3>1, <3>2
  <2>2. /\ \A i \in 1 .. 8 : s[1 + i - 1] = a[i]
        /\ \A i \in 1 .. 8 : s[9 + i - 1] = b[i]
        /\ \A i \in 1 .. 8 : s[17 + i - 1] = c[i]
    BY <2>1
  <2>3. /\ SubSeq(s, 1, 1 + 7) = a
        /\ SubSeq(s, 9, 9 + 7) = b
        /\ SubSeq(s, 17, 17 + 7) = c
    BY <2>2, <1>8, Zenon
  <2>4. 1 + 7 = 8 /\ 9 + 7 = 16 /\ 17 + 7 = 24
    OBVIOUS
  <2>. QED  BY <2>3, <2>4, Zenon
<1>. QED  BY <1>5, <1>6, <1>9, <1>d DEF Layout

(* to_le_bytes yields eight bytes.                                         *)
LEMMA LeBytesType ==
    ASSUME NEW n \in Nat
    PROVE  ToLeBytes(n) \in Seq(Nat) /\ Len(ToLeBytes(n)) = 8
BY DEF ToLeBytes

(* to_state_data lays the three words and two flag bytes out so that       *)
(* deserialize reads back exactly what was written.                        *)
LEMMA StateDataLayout ==
    ASSUME RootTypeOK
    PROVE  /\ Len(StateData) = 26
           /\ SubSeq(StateData, 1, 8) = ToLeBytes(epoch)
           /\ SubSeq(StateData, 9, 16) = ToLeBytes(epochDuration)
           /\ SubSeq(StateData, 17, 24) = ToLeBytes(lastSubmission)
           /\ StateData[25] # 0 <=> flags.verifySettlement
           /\ StateData[26] # 0 <=> flags.submitSettlement
<1>. DEFINE d == <<IF flags.verifySettlement THEN 1 ELSE 0,
                   IF flags.submitSettlement THEN 1 ELSE 0>>
<1>1. d \in Seq(Nat) /\ Len(d) = 2
  OBVIOUS
<1>2. /\ epoch \in Nat /\ epochDuration \in Nat /\ lastSubmission \in Nat
      /\ flags.verifySettlement \in BOOLEAN /\ flags.submitSettlement \in BOOLEAN
  BY RootAssumption DEF RootTypeOK, MaxTime, Flags
<1>3. /\ ToLeBytes(epoch) \in Seq(Nat) /\ Len(ToLeBytes(epoch)) = 8
      /\ ToLeBytes(epochDuration) \in Seq(Nat) /\ Len(ToLeBytes(epochDuration)) = 8
      /\ ToLeBytes(lastSubmission) \in Seq(Nat) /\ Len(ToLeBytes(lastSubmission)) = 8
  BY <1>2, LeBytesType
<1>4. PICK e1 : e1 = ToLeBytes(epoch)  OBVIOUS
<1>5. PICK e2 : e2 = ToLeBytes(epochDuration)  OBVIOUS
<1>6. PICK e3 : e3 = ToLeBytes(lastSubmission)  OBVIOUS
<1>15. PICK dd : dd = d  OBVIOUS
<1>16. dd \in Seq(Nat) /\ Len(dd) = 2
  BY <1>1, <1>15
<1>10. StateData = e1 \o e2 \o e3 \o dd
  BY <1>4, <1>5, <1>6, <1>15 DEF StateData, d
<1>11. /\ e1 \in Seq(Nat) /\ e2 \in Seq(Nat) /\ e3 \in Seq(Nat)
       /\ Len(e1) = 8 /\ Len(e2) = 8 /\ Len(e3) = 8
  BY <1>3, <1>4, <1>5, <1>6
<1>12. Layout(e1, e2, e3, dd)
  BY <1>16, <1>11, ConcatLayout, Zenon
<1>13. /\ Len(StateData) = 26
       /\ SubSeq(StateData, 1, 8) = ToLeBytes(epoch)
       /\ SubSeq(StateData, 9, 16) = ToLeBytes(epochDuration)
       /\ SubSeq(StateData, 17, 24) = ToLeBytes(lastSubmission)
       /\ StateData[25] = d[1] /\ StateData[26] = d[2]
  BY <1>12, <1>10, <1>4, <1>5, <1>6, <1>15 DEF Layout
<1>14. (d[1] # 0 <=> flags.verifySettlement) /\ (d[2] # 0 <=> flags.submitSettlement)
  BY <1>2
<1>. QED
  BY <1>13, <1>14

(* Deserializing to_state_data restores the header fields.                 *)
LEMMA DeserializeRestores ==
    ASSUME RootTypeOK, Deserialize
    PROVE  /\ epoch' = epoch
           /\ epochDuration' = epochDuration
           /\ lastSubmission' = lastSubmission
           /\ flags' \in Flags
<1>1. /\ epoch \in 0 .. 2^Width - 1
      /\ epochDuration \in 0 .. 2^Width - 1
      /\ lastSubmission \in 0 .. 2^Width - 1
  BY RootAssumption DEF RootTypeOK, MaxTime
<1>. QED
  BY <1>1, StateDataLayout, LeBytesRoundTrip DEF Deserialize, Flags


-----------------------------------------------------------------------------
(* RootContract::new satisfies the invariant.                              *)
LEMMA InitPacing == RootInit => PacingInv
BY RootAssumption DEF RootInit, PacingInv, RootTypeOK, EpochPacing, MaxTime, Flags

(* When the subtraction cannot wrap, a submission's now is not older than *)
(* last_submission: either it is the clock, which last_submission never    *)
(* passes, or a debug build would have panicked.                           *)
LEMMA NowNotOlder ==
    ASSUME NoWrapAround, PacingInv, NEW now \in Readings, TrySubmitGlobalRoot(now)
    PROVE  now >= lastSubmission
<1>0. clock \in Nat /\ lastSubmission \in Nat /\ now \in 0 .. clock
  BY RootAssumption DEF PacingInv, RootTypeOK, MaxTime, Readings
<1>1. CASE ClockSkew = 0
  BY <1>0, <1>1 DEF Readings, PacingInv
<1>2. CASE ~WrapOnOverflow
  BY <1>2 DEF TrySubmitGlobalRoot
<1>. QED  BY <1>1, <1>2 DEF NoWrapAround

(* Every step keeps the invariant when the subtraction cannot wrap.        *)
LEMMA NextPacing ==
    ASSUME NoWrapAround
    PROVE  PacingInv /\ [RootNext]_rootVars => PacingInv'
<1> SUFFICES ASSUME PacingInv, [RootNext]_rootVars PROVE PacingInv'
  OBVIOUS
<1>0. /\ epoch \in Nat /\ epochDuration \in Nat /\ lastSubmission \in Nat
      /\ clock \in Nat /\ MaxTime \in Nat /\ MaxEpoch \in Nat
  BY RootAssumption DEF PacingInv, RootTypeOK, MaxTime
<1>1. ASSUME NEW a \in Addresses, NEW r \in Roots, ProcessIntermediateRoot(a, r)
      PROVE  PacingInv'
  BY <1>1 DEF ProcessIntermediateRoot, PacingInv, RootTypeOK, EpochPacing
<1>2. ASSUME NEW now \in Readings, TrySubmitGlobalRoot(now)
      PROVE  PacingInv'
  <2>1. now \in 0 .. clock /\ now \in 0 .. MaxTime
    BY <1>0 DEF Readings, PacingInv, RootTypeOK
  <2>2. now >= lastSubmission
    BY <1>2, NowNotOlder
  <2>3. WrappingSub(now, lastSubmission) = now - lastSubmission
    BY <2>1, <2>2, SubNoWrap DEF PacingInv, RootTypeOK
  <2>4. CASE WrappingSub(now, lastSubmission) < epochDuration /\ UNCHANGED rootVars
    BY <2>4 DEF rootVars, PacingInv, RootTypeOK, EpochPacing
  <2>5. CASE /\ WrappingSub(now, lastSubmission) >= epochDuration
             /\ epoch < MaxEpoch
             /\ epoch' = epoch + 1
             /\ lastSubmission' = now
             /\ flags' = [verifySettlement |-> TRUE, submitSettlement |-> TRUE,
                        verifyGlobal |-> flags.verifyGlobal]
             /\ UNCHANGED <<intermediateRoots, globalTree, epochDuration, clock>>
    <3>1. (epoch + 1) * epochDuration = epoch * epochDuration + epochDuration
      BY <1>0
    <3>5. epoch' * epochDuration' = epoch * epochDuration + epochDuration
      BY <2>5, <3>1
    <3>6. epoch * epochDuration + epochDuration <= now
      BY <2>5, <2>3, <2>1, <1>0 DEF PacingInv, EpochPacing
    <3>2. EpochPacing'
      BY <2>5, <3>5, <3>6 DEF EpochPacing
    <3>3. RootTypeOK'
      BY <2>5, <2>1, <1>0 DEF PacingInv, RootTypeOK, Flags
    <3>4. (lastSubmission <= clock)'
      BY <2>5, <2>1
    <3>. QED  BY <3>2, <3>3, <3>4 DEF PacingInv
  <2>. QED  BY <1>2, <2>4, <2>5 DEF TrySubmitGlobalRoot
<1>3. CASE Deserialize
  <2>1. /\ epoch' = epoch /\ epochDuration' = epochDuration
        /\ lastSubmission' = lastSubmission /\ flags' \in Flags
    BY <1>3, DeserializeRestores DEF PacingInv
  <2>2. /\ globalTree' = [a \in Addresses |-> None]
        /\ intermediateRoots' = [a \in Addresses |-> None]
        /\ clock' = clock
    BY <1>3 DEF Deserialize
  <2>. QED  BY <2>1, <2>2 DEF PacingInv, RootTypeOK, EpochPacing
<1>4. CASE Tick
  BY <1>4, <1>0 DEF Tick, PacingInv, RootTypeOK, EpochPacing, MaxTime
<1>5. CASE UNCHANGED rootVars
  BY <1>5 DEF rootVars, PacingInv, RootTypeOK, EpochPacing
<1>. QED  BY <1>1, <1>2, <1>3, <1>4, <1>5 DEF RootNext

-----------------------------------------------------------------------------
(* The type invariant is inductive on its own, wrap or no wrap.           *)
LEMMA NextType == RootTypeOK /\ [RootNext]_rootVars => RootTypeOK'
<1> SUFFICES ASSUME RootTypeOK, [RootNext]_rootVars PROVE RootTypeOK'
  OBVIOUS
<1>0. /\ epoch \in Nat /\ clock \in Nat /\ MaxTime \in Nat /\ MaxEpoch \in Nat
  BY RootAssumption DEF RootTypeOK, MaxTime
<1>1. ASSUME NEW a \in Addresses, NEW r \in Roots, ProcessIntermediateRoot(a, r)
      PROVE  RootTypeOK'
  BY <1>1 DEF ProcessIntermediateRoot, RootTypeOK
<1>2. ASSUME NEW now \in Readings, TrySubmitGlobalRoot(now)
      PROVE  RootTypeOK'
  <2>1. now \in 0 .. MaxTime
    BY <1>0 DEF Readings, RootTypeOK
  <2>2. CASE UNCHANGED rootVars
    BY <2>2 DEF rootVars, RootTypeOK
  <2>3. CASE /\ epoch < MaxEpoch
             /\ epoch' = epoch + 1
             /\ lastSubmission' = now
             /\ flags' = [verifySettlement |-> TRUE, submitSettlement |-> TRUE,
                          verifyGlobal |-> flags.verifyGlobal]
             /\ UNCHANGED <<intermediateRoots, globalTree, epochDuration, clock>>
    BY <2>3, <2>1, <1>0 DEF RootTypeOK, Flags
  <2>. QED  BY <1>2, <2>2, <2>3 DEF TrySubmitGlobalRoot
<1>3. CASE Deserialize
  <2>1. /\ epoch' = epoch /\ epochDuration' = epochDuration
        /\ lastSubmission' = lastSubmission /\ flags' \in Flags
    BY <1>3, DeserializeRestores
  <2>2. /\ globalTree' = [a \in Addresses |-> None]
        /\ intermediateRoots' = [a \in Addresses |-> None]
        /\ clock' = clock
    BY <1>3 DEF Deserialize
  <2>. QED  BY <2>1, <2>2 DEF RootTypeOK
<1>4. CASE Tick
  BY <1>4, <1>0 DEF Tick, RootTypeOK, MaxTime
<1>5. CASE UNCHANGED rootVars
  BY <1>5 DEF rootVars, RootTypeOK
<1>. QED  BY <1>1, <1>2, <1>3, <1>4, <1>5 DEF RootNext

(* Every reachable state of the root aggregator is well-typed, for any     *)
(* word width and build: epoch, duration, last_submission and the clock    *)
(* stay u64 values (the epoch within its bound), the maps hold roots, and  *)
(* deserialize restores a well-formed flag record.                         *)
THEOREM RootTypeCorrect == RootSpec => []RootTypeOK
<1>1. RootInit => RootTypeOK
  BY InitPacing DEF PacingInv
<1>. QED  BY <1>1, NextType, PTL DEF RootSpec

(* try_submit_global_root paces the epochs (3, 8) in every instance where  *)
(* now - last_submission cannot wrap: callers pass the current time, or a  *)
(* debug build panics on an older now.  Then k epochs take at least k     *)
(* epoch_durations.  MCRootContract_Wrap shows the release build with a   *)
(* lagging caller breaking it.                                             *)
THEOREM EpochPacingHolds == NoWrapAround => (RootSpec => []EpochPacing)
<1> SUFFICES ASSUME NoWrapAround PROVE RootSpec => []EpochPacing
  OBVIOUS
<1>1. PacingInv => EpochPacing
  BY DEF PacingInv
<1>2. PacingInv /\ [RootNext]_rootVars => PacingInv'
  BY NextPacing
<1>. QED  BY <1>1, <1>2, InitPacing, PTL DEF RootSpec

-----------------------------------------------------------------------------
(* No step moves the epoch or last_submission back: a submission raises    *)
(* both, a restart restores both (DeserializeRestores), and nothing else   *)
(* writes them.                                                            *)
LEMMA StepNoRewind ==
    ASSUME NoWrapAround
    PROVE  PacingInv /\ [RootNext]_rootVars
               => [epoch' >= epoch /\ lastSubmission' >= lastSubmission]_rootVars
<1> SUFFICES ASSUME PacingInv, [RootNext]_rootVars
             PROVE  [epoch' >= epoch /\ lastSubmission' >= lastSubmission]_rootVars
  OBVIOUS
<1>0. epoch \in Nat /\ lastSubmission \in Nat
  BY RootAssumption DEF PacingInv, RootTypeOK, MaxTime
<1>1. ASSUME NEW a \in Addresses, NEW r \in Roots, ProcessIntermediateRoot(a, r)
      PROVE  epoch' >= epoch /\ lastSubmission' >= lastSubmission
  BY <1>0, <1>1 DEF ProcessIntermediateRoot
<1>2. ASSUME NEW now \in Readings, TrySubmitGlobalRoot(now)
      PROVE  [epoch' >= epoch /\ lastSubmission' >= lastSubmission]_rootVars
  <2>1. now >= lastSubmission /\ now \in Nat
    BY <1>2, NowNotOlder DEF Readings
  <2>. QED  BY <1>0, <1>2, <2>1 DEF TrySubmitGlobalRoot
<1>3. CASE Deserialize
  BY <1>0, <1>3, DeserializeRestores DEF PacingInv
<1>4. CASE Tick
  BY <1>0, <1>4 DEF Tick
<1>5. CASE UNCHANGED rootVars
  BY <1>5
<1>. QED  BY <1>1, <1>2, <1>3, <1>4, <1>5 DEF RootNext

(* Epoch numbers are never reused, a restart from to_state_data included, *)
(* in every instance where now - last_submission cannot wrap (callers pass *)
(* the current time, or a debug build).                                    *)
THEOREM EpochNeverRewindsHolds == NoWrapAround => (RootSpec => EpochNeverRewinds)
<1> SUFFICES ASSUME NoWrapAround PROVE RootSpec => EpochNeverRewinds
  OBVIOUS
<1>1. RootSpec => []PacingInv
  BY InitPacing, NextPacing, PTL DEF RootSpec
<1>2. PacingInv /\ [RootNext]_rootVars
        => [epoch' >= epoch /\ lastSubmission' >= lastSubmission]_rootVars
  BY StepNoRewind
<1>. QED  BY <1>1, <1>2, PTL DEF RootSpec, EpochNeverRewinds

=====
