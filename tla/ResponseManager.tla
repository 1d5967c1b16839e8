--------------------------- MODULE ResponseManager ---------------------------
(***************************************************************************)
(* The background verification loop of a storage node                     *)
(* (src/overpass-rs/src/core/storage_node/attest/response.rs), composed    *)
(* with the node's admission path of module StorageNode: the manager holds *)
(* an Arc<StorageNode> and reads the same stored_bocs and stored_proofs    *)
(* that store_update writes.                                               *)
(*                                                                         *)
(* start_verification flips is_verifying from false to true and spawns a   *)
(* loop task with spawn_local; stop_verification clears the flag.  A task  *)
(* checks the flag at the top of every iteration and, when the cycle left  *)
(* time over, once more inside delay_with_cancellation before it sleeps.   *)
(* Each Tasks element is the task one successful start would spawn, so     *)
(* Tasks bounds the number of starts.  Steps are cut at the .await points  *)
(* of the wasm executor: a lock that is held, the backoff and the          *)
(* end-of-cycle timers.                                                    *)
(***************************************************************************)
EXTENDS StorageNode

CONSTANTS
    Tasks,               \* one loop task per successful start_verification
    ResponseThreshold,   \* response_threshold
    MaxResponseSize,     \* MAX_RESPONSE_SIZE, in cells
    Size,                \* boc.cells.len() of each BOC
    MetricsCap           \* counters stop growing here (model bound)

ASSUME ManagerAssumption ==
    /\ ResponseThreshold \in Nat \ {0}   \* create(): MIN_RESPONSE_THRESHOLD = 1
    /\ MaxResponseSize \in Nat
    /\ Size \in [Bocs -> Nat]
    /\ MetricsCap \in Nat \ {0}

VARIABLES
    isVerifying,  \* is_verifying: AtomicBool
    task,         \* per task: program point, proof hashes left, cycle result
    metrics,      \* VerificationMetrics counters
    verified,     \* hashes verify_single_response has accepted (history)
    stopped       \* loop tasks alive when stop_verification ran (history)

LOCAL INSTANCE FiniteSetsExt

managerVars == <<isVerifying, task, metrics, verified, stopped>>
vars == <<nodeVars, managerVars>>

TaskPcs == {"unspawned", "top", "waitLock", "verify", "tally", "sleep", "done"}

Inc(n) == IF n < MetricsCap THEN n + 1 ELSE n

ManagerTypeOK ==
    /\ TypeOK
    /\ isVerifying \in BOOLEAN
    /\ task \in [Tasks -> [pc : TaskPcs, pending : SUBSET Hashes, ok : BOOLEAN]]
    /\ metrics \in [total : 0..MetricsCap, successful : 0..MetricsCap,
                    failed : 0..MetricsCap]
    /\ verified \subseteq Hashes
    /\ stopped \subseteq Tasks

-----------------------------------------------------------------------------
Stored == {h \in Hashes : bocs[h] # None}

TotalSize == MapThenSumSet(LAMBDA h : Size[bocs[h]], Stored)

Running(t) == task[t].pc \notin {"unspawned", "done"}

ManagerInit ==
    /\ Init
    /\ isVerifying = FALSE
    /\ task = [t \in Tasks |-> [pc |-> "unspawned", pending |-> {}, ok |-> TRUE]]
    /\ metrics = [total |-> 0, successful |-> 0, failed |-> 0]
    /\ verified = {}
    /\ stopped = {}

(* start_verification: compare_exchange(false, true); on success spawn a   *)
(* fresh loop task (it first runs at the loop top).  When the flag is      *)
(* already set the call returns VerificationInProgress and changes nothing.*)
StartVerification(t) ==
    /\ ~isVerifying
    /\ task[t].pc = "unspawned"
    /\ isVerifying' = TRUE
    /\ task' = [task EXCEPT ![t].pc = "top"]
    /\ UNCHANGED <<nodeVars, metrics, verified, stopped>>

(* stop_verification only clears the flag; the history records the tasks  *)
(* it was meant to end.                                                    *)
StopVerification ==
    /\ isVerifying' = FALSE
    /\ stopped' = stopped \cup {t \in Tasks : Running(t)}
    /\ UNCHANGED <<nodeVars, task, metrics, verified>>

\* Mutant: the threshold is compared with > instead of >=.
CheckResponseVerificationStrict(t) ==
    \/ /\ TotalSize > MaxResponseSize
       /\ task' = [task EXCEPT ![t] = [pc |-> "tally", pending |-> {}, ok |-> FALSE]]
    \/ /\ TotalSize <= MaxResponseSize
       /\ Cardinality(Stored) > ResponseThreshold
       /\ task' = [task EXCEPT ![t] = [pc |-> "verify", pending |-> Stored, ok |-> TRUE]]
    \/ /\ TotalSize <= MaxResponseSize
       /\ Cardinality(Stored) <= ResponseThreshold
       /\ task' = [task EXCEPT ![t] = [pc |-> "tally", pending |-> {}, ok |-> TRUE]]

(* check_response_verification once stored_bocs' lock is held: the cycle  *)
(* fails when the stored cells exceed MAX_RESPONSE_SIZE; at or above the   *)
(* threshold it snapshots the keys, drops the lock and verifies them all;  *)
(* below it the cycle succeeds with nothing to do.                         *)
CheckResponseVerification(t) ==
    \/ /\ TotalSize > MaxResponseSize
       /\ task' = [task EXCEPT ![t] = [pc |-> "tally", pending |-> {}, ok |-> FALSE]]
    \/ /\ TotalSize <= MaxResponseSize
       /\ Cardinality(Stored) >= ResponseThreshold
       /\ task' = [task EXCEPT ![t] = [pc |-> "verify", pending |-> Stored, ok |-> TRUE]]
    \/ /\ TotalSize <= MaxResponseSize
       /\ Cardinality(Stored) < ResponseThreshold
       /\ task' = [task EXCEPT ![t] = [pc |-> "tally", pending |-> {}, ok |-> TRUE]]

\* Mutant: the loop never looks at is_verifying (loop instead of while).
LoopTopNoFlag(t) ==
    /\ task[t].pc = "top"
    /\ \/ /\ bocsLock # None
          /\ task' = [task EXCEPT ![t].pc = "waitLock"]
       \/ /\ bocsLock = None
          /\ CheckResponseVerification(t)
    /\ UNCHANGED <<nodeVars, isVerifying, metrics, verified, stopped>>

(* The while condition; when it holds, the cycle locks stored_bocs at once *)
(* or, if a store_update holds the lock, suspends on it.                   *)
LoopTop(t) ==
    /\ task[t].pc = "top"
    /\ \/ /\ ~isVerifying
          /\ task' = [task EXCEPT ![t].pc = "done"]
       \/ /\ isVerifying
          /\ bocsLock # None
          /\ task' = [task EXCEPT ![t].pc = "waitLock"]
       \/ /\ isVerifying
          /\ bocsLock = None
          /\ CheckResponseVerification(t)
    /\ UNCHANGED <<nodeVars, isVerifying, metrics, verified, stopped>>

LockAcquired(t) ==
    /\ task[t].pc = "waitLock"
    /\ bocsLock = None
    /\ CheckResponseVerification(t)
    /\ UNCHANGED <<nodeVars, isVerifying, metrics, verified, stopped>>

(* verify_responses takes the snapshot's keys in HashMap order, i.e. any   *)
(* order; verify_single_response looks the proof up under stored_proofs'   *)
(* lock and counts one successful verification.  The lookup cannot fail    *)
(* (SnapshotBacked), so the retry and backoff path is never taken.         *)
VerifySingleResponse(t) ==
    /\ task[t].pc = "verify"
    /\ \E h \in task[t].pending :
          /\ proofs[h] # None
          /\ verified' = verified \cup {h}
          /\ task' = [task EXCEPT ![t].pending = @ \ {h},
                                  ![t].pc = IF task[t].pending = {h} THEN "tally" ELSE "verify"]
    /\ metrics' = [metrics EXCEPT !.total = Inc(@), !.successful = Inc(@)]
    /\ UNCHANGED <<nodeVars, isVerifying, stopped>>

(* The loop body after the cycle: one more total and one success or one    *)
(* failure; then, if the cycle took less than response_interval (elapsed   *)
(* is wall-clock time, either may hold), delay_with_cancellation checks    *)
(* the flag once before awaiting the timer and breaks the loop if it is    *)
(* clear.                                                                  *)
Tally(t) ==
    /\ task[t].pc = "tally"
    /\ metrics' = IF task[t].ok
                  THEN [metrics EXCEPT !.total = Inc(@), !.successful = Inc(@)]
                  ELSE [metrics EXCEPT !.total = Inc(@), !.failed = Inc(@)]
    /\ \/ task' = [task EXCEPT ![t].pc = "top"]
       \/ /\ ~isVerifying
          /\ task' = [task EXCEPT ![t].pc = "done"]
       \/ /\ isVerifying
          /\ task' = [task EXCEPT ![t].pc = "sleep"]
    /\ UNCHANGED <<nodeVars, isVerifying, verified, stopped>>

(* The end-of-cycle timer fires; the flag is not looked at again until the *)
(* loop top.                                                               *)
Wake(t) ==
    /\ task[t].pc = "sleep"
    /\ task' = [task EXCEPT ![t].pc = "top"]
    /\ UNCHANGED <<nodeVars, isVerifying, metrics, verified, stopped>>

TaskStep(t) ==
    LoopTop(t) \/ LockAcquired(t) \/ VerifySingleResponse(t) \/ Tally(t) \/ Wake(t)

ManagerNext ==
    \/ NodeNext /\ UNCHANGED managerVars
    \/ \E t \in Tasks : StartVerification(t) \/ TaskStep(t)
    \/ StopVerification

(* The wasm event loop polls every woken task and fires every timer, and a *)
(* store_update past its charge finishes its inserts: weak fairness for    *)
(* each of them.  Callers, start and stop are the environment.             *)
ManagerFairness ==
    /\ \A t \in Tasks : WF_vars(TaskStep(t))
    /\ \A c \in Callers : WF_vars((StoreInsertBoc(c) \/ StoreInsertProof(c)) /\ UNCHANGED managerVars)

ManagerSpec == ManagerInit /\ [][ManagerNext]_vars /\ ManagerFairness

-----------------------------------------------------------------------------
(* Every key a cycle snapshotted from stored_bocs still has its proof when *)
(* verify_single_response looks it up: the snapshot is taken under the    *)
(* BOC lock, which store_update holds from the BOC insert until the proof  *)
(* insert.  Otherwise the lookup fails with "Proof not found" and the      *)
(* retry loop backs off three times and fails the cycle.                   *)
SnapshotBacked ==
    \A t \in Tasks : \A h \in task[t].pending : proofs[h] # None

(* After stop_verification every loop task eventually ends, unless the     *)
(* loop is started again: the flag is checked at the loop top and in       *)
(* delay_with_cancellation, and every sleep is finite.                     *)
StopTerminates ==
    (~isVerifying) ~> (isVerifying \/ \A t \in Tasks : ~Running(t))

(* A proof stored while the loop runs is verified by a later cycle, not    *)
(* missed for good (5: "picked up next cycle"), once the stored count has  *)
(* reached the threshold, unless the loop is stopped or the stored cells   *)
(* outgrow MAX_RESPONSE_SIZE, which fails every cycle from then on.        *)
PickedUp ==
    \A h \in Hashes :
        (proofs[h] # None /\ isVerifying /\ Cardinality(Stored) >= ResponseThreshold)
            ~> (h \in verified \/ ~isVerifying \/ TotalSize > MaxResponseSize)

(* stop_verification ends the loop (spec 4.4: one instance runs; the loop *)
(* observes the flag and terminates): a loop task alive when the loop was  *)
(* stopped never begins another cycle, even if start_verification runs     *)
(* again before that task next looks at is_verifying.                      *)
StoppedLoopEnds ==
    [][\A t \in stopped :
          task[t].pc = "top" => task'[t].pc \in {"top", "done"}]_vars

=============================================================================
