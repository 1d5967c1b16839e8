# Formal models of the Overpass core

This directory has TLA+ specifications of the Rust core under `src/overpass-rs/src/core`. It also has the TLC configurations that model-check them on small instances, and TLAPS proofs of their main safety properties for every value of the constants. `PROJECT.json` lists the components, the runs, the mutants, the source lines each definition models, the findings and the hazards.

## 1. Inventory: the system and its parts

| Part | Source | State it changes | Concurrency |
|---|---|---|---|
| Storage node admission | `storage_node/storage_node_contract.rs` | `stored_bocs`, `stored_proofs`, battery, peers | async, `futures::lock::Mutex` per map; `store_update` holds the battery lock for the whole call and the BOC lock across the await on the proof lock |
| Response / verification manager | `storage_node/attest/response.rs` | `is_verifying` (AtomicBool), metrics, a `spawn_local` loop task | single-threaded wasm executor; tasks interleave at `.await` points; shares the node's maps with `store_update` |
| Root aggregator | `hierarchy/root/root_contract.rs` | intermediate roots, global tree, epoch, duration, last submission, capability flags | `&mut self`, sequential; the caller passes `now` |
| Bitcoin state converter | `hierarchy/client/wallet_extension/bitcoin_b2o/bitcoin_state_converter.rs` | the shared state tree `Arc<RwLock<SparseMerkleTreeWasm>>` | multi-threaded through the `RwLock` |
| Intermediate SMT | `hierarchy/intermediate/sparse_merkle_tree_i.rs` | `root_hash`, the circuit's public inputs | none (`&mut self`) |
| Battery | `storage_node/battery/mod.rs` | (re-exports only) | — |
| Client proof exporter | `ovp_client_node/.../client_proof_exporter.rs` | none (pure serialisation) | — |
| Distribution manager | named in the spec (4.5), no code under `src/` | — | — |

The parts interact in two places:

- The response manager holds an `Arc<StorageNode>`. Its loop reads the same `stored_bocs` and `stored_proofs` maps that `store_update` writes. `ResponseManager` therefore EXTENDS `StorageNode`, and both run together.
- The root aggregator folds intermediate roots into a global tree, and the converter writes channel states into a client-side tree. The trees' own code (`SparseMerkleTreeR`, `SparseMerkleTreeWasm`) is not under `src/`. It is taken from the spec (4.1): a map from key to the last value written. Definitions taken from the spec are marked `spec_modelled` in `PROJECT.json`.

## 2. Plan

1. Model the storage node admission path with its lock and await structure. Check the spec's storage invariant, and prove it.
2. Compose it with the verification loop. Check the loop's snapshot, termination and pick-up properties, and the spec's single-instance and metrics claims.
3. Model the root aggregator's epoch machine with u64 wrap-around and its 26-byte serialisation. Check epoch pacing, partial update and restart, and prove pacing together with the header round trip.
4. Model the converter's three-phase conversion over the shared tree and its transition check. Check the sequence invariant and the stale root, and prove the sequence invariant.
5. Split `prepare_settlement` at its dropped read lock. Check what a failed conversion and a concurrent settlement leave behind.
6. State the admission path's promise as an atomic abstract spec (`AtomicStorage`), and prove that `StorageNode` refines it.
7. Model the intermediate SMT's `update`, with its path and root folds. Check it against a full-tree reference built from spec 4.1.
8. Later: the retry path under a lossy proof backend, and larger instances.

## 3. Modules and how they correspond to the code

### `StorageNode` (storage_node_contract.rs)

**State.** The variables are `bocs` and `proofs` (the two maps, keyed by content hash), `battery`, `batteryLock`, `bocsLock`, `peers`, and `call`, which holds each caller's program point, arguments and last result.

- A BOC is a model value, and `ContentHash` is an injective constant: `hash_boc_internal` is SHA-256, taken to be collision-free.
- A proof is its public-input sequence, the only part the node reads.
- `Init` starts with no peers, although `new` takes a peer set. No property reads the peers, and `AddPeer` and `RemovePeer` reach every peer set anyway. The `InvalidAmount` error of `new` (a stake under 1000) is not modelled: the model starts from a node that was constructed.

**Actions.** `store_update` is cut at its awaits into three actions:

- `StoreUpdateBegin` takes the battery lock and charges (or fails with `BatteryError`), then runs the binding check. A rejected call keeps the charge spent.
- `StoreInsertBoc` takes the BOC lock and inserts the BOC.
- `StoreInsertProof` inserts the proof and releases every lock.

`AddPeer` and `RemovePeer` model `add_peer` and `remove_peer`. `Init` is `StorageNode::new` with a stake of at least 1000.

**Properties.**

- `ProofBinding`: the spec's invariant. A stored proof has its BOC under the same hash, and its inputs are exactly that hash.
- `PairedWhenUnlocked`: whoever can take the BOC lock sees no BOC without its proof.
- `StoredPaidFor`: the stored objects never outnumber the units spent.
- `AtomicAdmission`: the node implements `AtomicStorage` (below).

### `AtomicStorage` (spec 4.3), the abstract admission

This module states what admission promises, with no locks and no awaits. A `store` call is one step, and it has three possible outcomes:

- `StoreAccepted(b)` debits one unit and stores the object and the proof `<<hash>>` together;
- `StoreRejected` debits one unit and stores nothing;
- when the charge is spent, no step is taken (the call fails with nothing changed).

`PeerChange` adds or removes a peer.

`StorageNode` maps onto it through `Atomic == INSTANCE AtomicStorage WITH ...`:

- `objects` shows a BOC only once its proof is stored. This hides the window between `StoreInsertBoc` and `StoreInsertProof`.
- `charge` is `battery` plus the unit a caller holds under the battery lock before its charge is spent.

With this mapping, a caller's steps become these abstract steps:

- the charge, with the binding check, is a stutter;
- the proof insert is `StoreAccepted`;
- a rejection or a battery error ends with a `StoreRejected` or a stutter.

### `ResponseManager` (response.rs), composed with `StorageNode`

**State.**

- `isVerifying` is the `AtomicBool`.
- `task[t]` is one `spawn_local` task: its program point, the snapshot of keys still to verify, and the cycle's result.
- `metrics` holds the three counters.
- `verified` (the hashes accepted) is a history variable.
- `stopped` (the tasks alive when `stop_verification` ran) is a history variable that `StoppedLoopEnds` reads.

**Actions.**

- `StartVerification` is the `compare_exchange` plus the spawn. `StopVerification` is the store of `false`.
- `LoopTop` is the `while` condition, then the BOC lock (taken at once, or `waitLock` when `store_update` holds it). It ends with `CheckResponseVerification`, which covers the size ceiling, the threshold, and the snapshot with the lock dropped.
- `LockAcquired` resumes a task that waited on the lock.
- `VerifySingleResponse` looks up one proof and counts it.
- `Tally` is the loop body's metrics update, then one of three outcomes:
  - no delay, when the cycle overran the interval;
  - `delay_with_cancellation` seeing the flag cleared, which breaks the loop;
  - going to sleep.
- `Wake` is the timer firing.

**Atomicity.** Steps are cut at every `.await`. That is finer than the wasm executor, which runs a task until an await is pending. The lock awaits of a cycle never pend: `stored_proofs`' lock is never held across an await. So in the code nothing else runs between the loop top and the end-of-cycle sleep. The model lets other steps in there, which over-approximates. The safety invariants hold under this, so they also hold for the code. `StoppedLoopEnds`' counterexample uses only real yield points: a task spawned but not yet polled, and the end-of-cycle sleep.

**Data.** The size of a BOC is a constant `Size`. The ceiling `MaxResponseSize` is measured in cells. `MetricsCap` bounds the counters for the model only.

**Properties.**

- `SnapshotBacked`: every snapshotted key still has its proof when it is looked up.
- `StopTerminates`: after a stop, every task ends unless the loop is started again.
- `PickedUp`: a stored proof is eventually verified while the loop runs.
- `StoppedLoopEnds` (action property): a task alive at a stop never begins another cycle. This is the spec's claim that the code breaks (§4).

### `RootContract` (root_contract.rs)

**State.** The variables are `intermediateRoots`, `globalTree`, `epoch`, `epochDuration`, `lastSubmission`, `flags` (the three flags that change or are read) and `clock`.

**Arithmetic and encoding.**

- u64 values are kept at `Width` bits. `WrappingSub` is the subtraction of line 61. `WrapOnOverflow` chooses between a release build, which wraps, and a debug build, which panics; a panic is modelled as no step.
- `ToLeBytes` and `FromLeBytes` are `u64::to_le_bytes` and `from_le_bytes` on eight bytes. `StateData` is `to_state_data`.

**Actions.**

- `ProcessIntermediateRoot` records the root and then updates the tree, which may fail.
- `TrySubmitGlobalRoot(now)` is the epoch gate. `now` is a reading of the clock that may lag it by `ClockSkew`.
- `Deserialize` rebuilds the contract from `StateData`.
- `Tick` advances the callers' time.

**Properties.** `EpochPacing` states that `epoch * epochDuration <= lastSubmission`: k epochs take k intervals. `EpochNeverRewinds` (action property) states that no step moves `epoch` or `last_submission` back, a restart through `deserialize` included, so epoch numbers are never reused. `TreeCoversRoots` is checked too (§4).

### `BitcoinStateConverter` (bitcoin_state_converter.rs)

**State.**

- `tree` is the shared tree: the map from channel to the lock whose state data was written there. Its root is that map.
- `conv[t]` is each thread's point in `convert_lock_to_state`.
- `issued`, `accepted` and `settled` are the values the calls returned.
- `settling[t]` is the final state a thread's `prepare_settlement` has checked and is proving.
- `result` is the last verdict.

**Actions.** `convert_lock_to_state` is cut into three actions:

- `ConvertUpdateTree` writes the tree and takes the merkle proof under the write lock;
- `ConvertProve` calls `generate_proof_js` outside any lock, and may fail;
- `ConvertReadRoot` reads `state_root` under a new read lock.

`VerifyStateTransition` is `verify_state_constraints`, then `verify_root_transition`, then the backend's answer. `prepare_settlement` is cut at its dropped read lock into two actions:

- `PrepareSettlementCheck` compares the final state's root with the tree root, and fails with `InvalidState` when they differ;
- `PrepareSettlementProve` runs `generate_settlement_proof`, which may fail, and returns the lock state.

A thread runs one call at a time.

**Properties.**

- `ProofAgainstRoot`: a converted state's merkle proof is for its own `state_root`.
- `TreeRootIssued`: once no conversion is under way, the tree's root is the `state_root` of some returned state, so something can still be settled.
- `SettleCurrent` (action property): a settled state's channel leaf is still the tree's when the lock state is returned.

### `SparseMerkleTreeI` (sparse_merkle_tree_i.rs)

SHA-256 is taken to be collision-free: the digest of a concatenation is the pair of its parts. A key is a model value with a byte string `KeyBytes[k]`. A byte has `ByteBits` bits (8 in the code), and the tree has `Height` levels (256 in the code).

**State.**

- `rootHash` and `nodes` are the tree.
- `publicInputs` is the number of public inputs on the `CircuitBuilder`, which lives as long as the tree.
- `result` is what the last `update` returned.

**Operators.**

- `GetBit` is `get_bit`: the most significant bit first, and 0 past the end of the key.
- `MerklePath` is `generate_merkle_path` as a `FoldLeft` over the levels.
- `CalculateNewRoot` is `calculate_new_root` as a `FoldRight` over the path, so the last entry is hashed first.

**Actions.**

- `Update(k, v)` models `update`. The `?` on the path returns `NotFound` before any change. Otherwise `add_path_constraints` adds `Height + 3` public inputs, and the folded root is stored.
- `AddVirtualPublicInput` models `add_virtual_public_input`.

**The reference.** `FullTree` builds spec 4.1's tree from its leaves. `LeafIndex` gives a key's leaf. `SpecUpdatedRoot` is the root after the leaf is replaced.

**Properties.**

- `PathReachesLeaf`: on a well-formed full tree, `generate_merkle_path` walks each key to the leaf that the spec indexes. The reference `LeafIndex` reads the key as a big-endian number, with missing bytes taken as 0, and does not use `get_bit`.
- `UpdateRootMatchesSpec`: on a well-formed full tree, `update` stores the reference's root.

The code cannot build a full tree, because nothing writes `nodes`: from `new`, `update` returns `NotFound` at the first level. The checks therefore start from every full tree over a small set of leaves (`MCFullTreeInit`). Those are the states that the spec says `update` operates on.

The reference itself was validated on a scratch copy with the two fixes:

- record the sibling instead of the child;
- put `current` on the side of the step taken.

With those fixes, the property holds.

## 4. Runs, and what they show

| Run (cfg) | Expect | Checks | Shows |
|---|---|---|---|
| `MCStorageNode.cfg` | pass | TypeOK, ProofBinding, PairedWhenUnlocked, StoredPaidFor, AtomicAdmission | 2 callers, 3 BOCs, 3 digests, battery of 2 units, 1 peer: 382 states. The binding, the pairing under the lock and the payment hold in every interleaving, including the battery running out. Every behaviour is also a behaviour of `AtomicStorage` under the mapping. |
| `MCResponseManager.cfg` | pass | ManagerTypeOK, SnapshotBacked, StopTerminates, PickedUp | 2 callers, 2 BOCs of 1 and 2 cells under a ceiling of 2, threshold 1, 2 loop tasks (two starts): about 129k states. The snapshot is always backed, because the BOC lock is held from the BOC insert to the proof insert. Stop ends every task, and proofs are picked up. |
| `MCResponseManager_Restart.cfg` | violation | StoppedLoopEnds | The trace is start, stop, start, then the first task's first poll. It finds `is_verifying` set again and runs a cycle, so two loops now alternate. The same happens when the stop and the start fall in the first task's end-of-cycle sleep, because `delay_with_cancellation` reads the flag only before the timer. |
| `MCRootContract.cfg` | pass | RootTypeOK, EpochPacing, EpochNeverRewinds | Width 3 (time 0..7), duration 2, 3 epochs, 2 addresses, callers on time: about 2k states. Pacing survives submissions, partial updates and restarts, and neither the epoch nor `last_submission` ever moves back. |
| `MCRootContract_Wrap.cfg` | violation | EpochPacing | `ClockSkew = 1` in a release build: a `now` one behind `last_submission` wraps to 7 and opens an epoch early. |
| `MCRootContract_PartialUpdate.cfg` | violation | TreeCoversRoots | A root is recorded but not in the tree after a failed update. |
| `MCBitcoinStateConverter.cfg` | pass | ConverterTypeOK | Debug build, 2 threads, 2 locks on distinct channels, one at the top of the 2-bit sequence range, with conversions, transitions and two-phase settlements interleaved: about 220k states. |
| `MCBitcoinStateConverter_Interleave.cfg` | violation | ProofAgainstRoot | Two conversions interleave between the write-locked update and the read of the root. |
| `MCBitcoinStateConverter_FailedProof.cfg` | violation | TreeRootIssued | One thread. A conversion whose proving fails leaves its leaf in the tree. No returned state carries the new root, so `prepare_settlement` rejects every final state. |
| `MCBitcoinStateConverter_StaleSettle.cfg` | violation | SettleCurrent | Two locks on one channel. Thread 1 checks its final state, thread 2 converts the other lock on the same channel, and thread 1's proof then settles a superseded state. |
| `MCSparseMerkleTreeI_Path.cfg` | pass | MCPathReachesLeaf | Height 2, 2-bit bytes, keys `<<1>>`, `<<2>>` and `<<>>`, and all 16 full trees over {zero, one leaf hash}, followed by updates and extra public inputs: 944 states. Every key reaches its leaf, and the empty key reaches the leaf of `00`. Deadlock is not checked, because the only stop is the model's cap on public inputs. |
| `MCSparseMerkleTreeI_Fold.cfg` | violation | MCUpdateRootMatchesSpec | Height 2, keys `<<1>>`, `<<2>>` and `<<>>`, leaves drawn from {zero, one leaf hash}: 16 full trees. Already on the all-zero tree, the folded root differs from the reference's. |

Each property of a passing run has a mutant in `PROJECT.json`. A mutant is a plausible bug in the modelled code under which TLC finds the property violated:

- a dropped battery check;
- a proof check that looks only at the first input;
- the BOC lock released early;
- the charge ignored;
- a loop that never reads the flag;
- a strict threshold;
- a slice read one byte early;
- `last_submission` not moved forward;
- a sequence set one past the lock's;
- for `AtomicAdmission`, the charge ignored, which stores an object no unit paid for;
- for `EpochNeverRewinds`, `to_state_data` writing `last_submission` before `epoch_duration`, so a restart reads them swapped;
- for `PathReachesLeaf`, `get_bit` reading a byte's bits least significant first.

**Why the bounds are enough.** Each bound is the smallest that lets the interesting case happen:

- Two callers and two tasks are enough for every pairwise interleaving of the locks and of stop and start.
- Three BOCs with a battery of two make the battery run out.
- A ceiling of two cells is crossed by storing both BOCs.
- A threshold of 1 makes cycles verify.
- Width 3 with duration 2 gives several epochs and a wrap within 8 ticks.
- A 2-bit sequence puts a lock at u64::MAX.
- For the SMT, height 2 with 2-bit bytes has keys that go left, go right, and run off the end of the key (`<<>>`). Sixteen full trees cover equal and distinct siblings.

## 5. Fairness

`ManagerSpec` assumes weak fairness on each task's step and on each caller's inserts after its charge:

- The wasm event loop polls every woken future.
- Timers fire.
- A `store_update` that has passed its charge has no remaining await other than a lock some other task releases.

Starts, stops and new `store_update` calls are the environment and get no fairness. `StopTerminates` and `PickedUp` depend on exactly this.

## 6. Proofs (TLAPS)

| Module | Theorem | Assumptions | Inductive invariant |
|---|---|---|---|
| `StorageNode_proofs` | `TypeCorrect`, `ProofBindingHolds` | `ConstantsAssumption` (injective hash, `None` distinct) | `TypeOK /\ ProofBinding /\ CallerInv` |
| `RootContract_proofs` | `RootTypeCorrect` | `RootAssumption`, `LeBytesRoundTrip` | `RootTypeOK` |
| `RootContract_proofs` | `EpochPacingHolds` (under `ClockSkew = 0 \/ ~WrapOnOverflow`) | as above | `PacingInv == RootTypeOK /\ EpochPacing /\ lastSubmission <= clock` |
| `StorageNode_proofs` | `AdmissionRefined`: `NodeSpec => AtomicAdmission` | `ConstantsAssumption` | `IInv /\ LockInv` |
| `BitcoinStateConverter_proofs` | `ConverterTypeCorrect` (either build) | `ConverterAssumption` | `ConverterTypeOK /\ ThreadInv` |
| `StorageNode_proofs` | `PairedWhenUnlockedHolds` | `ConstantsAssumption` | `IInv /\ PairInv` (`BocLockInv /\ UnpairedInv`) |
| `RootContract_proofs` | `EpochNeverRewindsHolds` (under `ClockSkew = 0 \/ ~WrapOnOverflow`) | `RootAssumption`, `LeBytesRoundTrip` | `PacingInv` |
| `StorageNode_proofs` | `StoredPaidForHolds` | `ConstantsAssumption`, including `IsFiniteSet(Hashes)` | `IInv /\ LockInv /\ PaidInv` |
| `ResponseManager_proofs` | `ManagerTypeCorrect` | `ConstantsAssumption`, `ManagerAssumption` | `IInv /\ ManagerTypeOK` |
| `ResponseManager_proofs` | `SnapshotBackedHolds` | as above | `IInv /\ PairInv /\ ManagerTypeOK /\ SnapshotBacked` |

**Why the invariants are strengthened.**

- `ProofBinding` alone is not inductive. A caller past the binding check carries a proof that the next steps store. `CallerInv` says what it carries: exactly `<<hash of its BOC>>`. It also says that, once its BOC insert has happened, the BOC is stored under that hash.
- `EpochPacing` needs `now >= lastSubmission`. That holds because `now` is a clock reading and `lastSubmission` never runs ahead of the clock. The lemma `NowNotOlder` states it once. `EpochNeverRewinds` uses the same lemma for submissions, and `DeserializeRestores` for restarts. It is proved the usual way for an action property: `[]PacingInv`, then `StepNoRewind` for one step under the invariant, then PTL. In a release build with a lagging caller it fails, for the reason `EpochPacing` does.
- Restarts are covered by the lemmas `ConcatLayout`, `StateDataLayout` and `DeserializeRestores`. They prove that `deserialize` of `to_state_data` restores the header: the slices 1..8, 9..16 and 17..24 and bytes 25 and 26 are the fields written.
- The byte round trip `FromLeBytes(ToLeBytes(n)) = n` is the named assumption `LeBytesRoundTrip`. TLC evaluates it on every instance, and it holds whenever the width is at most 64. Its general proof is induction over data, which the provers cannot do.
- The refinement is proved the standard way:
  - `InitRefined`: the initial state maps to `AtomicStorage`'s initial state.
  - `NextRefined`: every step maps to an abstract step, or to a stutter of the mapped variables. It takes one case per action.

  The mapped charge is right only if a caller is busy exactly when it holds the battery lock. That is `LockInv`. The two facts are combined by PTL.
- `ConverterTypeOK` is not inductive by itself. `ConvertReadRoot` builds a state from the thread's lock and root, so `ThreadInv` adds that a thread past the tree update holds a lock and a root.
- `PairedWhenUnlocked` is not inductive: while a `store_update` holds the BOC lock, one BOC may lack its proof. `PairInv` says which one. `BocLockInv` says the lock is held by exactly the caller between its BOC insert and its proof insert. `UnpairedInv` says a BOC without its proof is that caller's BOC. Releasing the lock in `StoreInsertProof` then pairs the last unpaired BOC.
- `StoredPaidFor` is not inductive either. The battery is debited in `StoreUpdateBegin`, and the BOC is stored only at `StoreInsertBoc`. `PaidInv` counts the unit charged by a call that has not yet inserted its BOC (`Pending`), so `|stored| + Pending <= Charge - battery` holds at every step. It needs `LockInv` to know that only the battery-lock holder can be in that window. Counting needs a finite set of digests. The new conjunct `IsFiniteSet(Hashes)` of `ConstantsAssumption` is justified because the digests are 32-byte arrays. `StoredHashes` names the set of stored digests in the proofs.
- The response manager's steps leave the node's variables alone (`NodeStep`), so `IInv` and `PairInv` carry over to the composition. `SnapshotBacked` then rests on two facts:
  - a snapshot is taken only when the BOC lock is free, and then every stored BOC has its proof (`CheckSnapshot`, from `UnpairedInv`);
  - `store_update` never removes a proof (`ProofsKept`).

  Verification only removes keys from a snapshot. The proof holds for any number of loop tasks, including a second loop started after a stop.

**What stays with TLC.** Liveness (`StopTerminates`, `PickedUp`) needs fairness and ENABLED, which the provers do not handle. The response manager's safety invariants are proved. Its liveness stays with TLC, and `StoppedLoopEnds` is violated (§4). `SparseMerkleTreeI`'s folds are over data: what they compute for every height is induction over sequences, which the provers cannot do. It is checked by TLC only. The violated properties are shown by TLC counterexamples.

## 7. Not modelled, and why

- **`SparseMerkleTreeI`'s `hash_to_field`, `root` and `serialize_state`.** The first feeds only unused bindings, and the other two only read.
- **The release-build converter.** With `WrapOnOverflow = TRUE`, `prev.sequence + 1` wraps at u64::MAX. Then `verify_state_constraints` accepts a transition from u64::MAX to 0, which spec 8 forbids. The model has this case, but no run checks it: the converter's runs go to its three interleaving findings. In the debug build the check at that point is only the guard, and the addition panics.
- **A stored proof's bytes.** The model sees a proof's public inputs only. A second `store_update` of the same BOC with other proof bytes overwrites `stored_proofs` (`HashMap::insert`), and no property can see that.
- **The per-cycle metric tally.** `Tally` adds one total on top of the ones `VerifySingleResponse` adds. The model keeps both, but no run states the spec's one-tally-per-proof rule.
- **`StorageNode::new` from `ResponseManager::create`.** It is called with three arguments and a stake of 0, which the four-argument constructor would reject with `InvalidAmount`. `ManagerInit` takes the node as successfully constructed.
- **`try_submit_global_root`'s return value.** `verify_global_state` is never set, so no root is ever returned. The model keeps the bookkeeping that does happen.
- **`verify_transaction`, `retrieve_boc`, `retrieve_proof`, `create_conversion_boc`, `generate_conversion_proof`, `export_proof_boc`.** They change no state.
- **The latency averages, `last_verification_time` and console logging.** No property is about them.
- **The battery internals (`charging`, `monitoring`, `rewards`) and the distribution manager.** Their code is not under `src/`.
