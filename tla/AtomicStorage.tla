---------------------------- MODULE AtomicStorage ----------------------------
(***************************************************************************)
(* What a storage node's admission promises (spec 4.3), with no locks and  *)
(* no suspension points: store(object, proof) is one indivisible step      *)
(* that debits one processing unit or fails with nothing changed; a paid   *)
(* call either rejects the proof or stores the object and a proof whose    *)
(* public inputs are exactly the object's content hash, as a pair.  Peers  *)
(* are added and removed freely.                                           *)
(*                                                                         *)
(* StorageNode cuts store_update into steps at its awaits; the theorem     *)
(* StorageNode_proofs!AdmissionRefined shows that its steps are these      *)
(* steps seen through a refinement mapping.                                *)
(***************************************************************************)
EXTENDS Naturals

CONSTANTS Bocs, Hashes, ContentHash, Peers, Charge, None

VARIABLES
    objects,   \* hash -> the object stored under it, or None
    proofs,    \* hash -> public inputs of the proof stored under it, or None
    charge,    \* processing units left
    peers      \* the peer set

avars == <<objects, proofs, charge, peers>>

AInit ==
    /\ objects = [h \in Hashes |-> None]
    /\ proofs = [h \in Hashes |-> None]
    /\ charge = Charge
    /\ peers = {}

\* A paid call whose proof binds object b: the pair is stored at once.
StoreAccepted(b) ==
    LET h == ContentHash[b]
    IN  /\ charge >= 1
        /\ charge' = charge - 1
        /\ objects' = [objects EXCEPT ![h] = b]
        /\ proofs' = [proofs EXCEPT ![h] = <<h>>]
        /\ UNCHANGED peers

\* A paid call whose proof does not bind its object: nothing is stored.
StoreRejected ==
    /\ charge >= 1
    /\ charge' = charge - 1
    /\ UNCHANGED <<objects, proofs, peers>>

PeerChange(p) ==
    /\ peers' \in {peers \cup {p}, peers \ {p}}
    /\ UNCHANGED <<objects, proofs, charge>>

ANext ==
    \/ \E b \in Bocs : StoreAccepted(b)
    \/ StoreRejected
    \/ \E p \in Peers : PeerChange(p)

ASpec == AInit /\ [][ANext]_avars

=============================================================================
