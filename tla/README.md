# TLA+ models of the Aleph Core Channel Node message pipeline

This directory holds TLA+ specifications of the parts of `src/src/aleph` that move
messages from chains and peers into the node's tables. With them are the TLC
configurations that check them on small instances, and TLAPS proofs of their
main safety invariants. `PROJECT.json` lists every component, run, mutant, finding,
hazard and theorem, and maps each modelled definition to the source lines it
translates.

## 1. The system

The node runs its ingestion and processing jobs as separate OS processes. They
share only the database and the RabbitMQ broker. Inside a process, concurrency
is cooperative (asyncio): a task switch can only happen at an `await`.

| Part | Source | State | Operations |
|---|---|---|---|
| Chain connectors (not under `src/`) | — | `chain_txs`, `pending_txs` | record a ChainTx and its PendingTx, then publish the tx hash on the pending-tx exchange (`incoming_chaindata`) |
| Chain Data Service | `chains/chaindata.py` | none of its own | `get_tx_messages`: dispatch on the protocol. On-chain: the `messages` list. Off-chain: the `seen_ids` window, then fetch the sync file, then commit the stored file and `tx_file_pin` rows, then pin. Smart-contract: one synthesized STORE message. Unknown protocol: `InvalidContent`. Also `get_chaindata`, the outgoing encoder. |
| Pending-Tx Processor | `jobs/process_pending_txs.py` | durable queue `pending-tx-queue`, the delivery in hand, `seen_ids` | `handle_pending_tx`: look up the PendingTx, expand it, admit each message, then delete and commit. `process()`: ack on a normal exit, reject without requeue on an exception. `handle_txs_task`: restart after any exception. |
| Message Publisher (not under `src/`) | spec 4.3 | `pending_messages`, `message_status`, `message_confirmations` | `add_pending_message`: idempotent insert by logical key; a status row if absent; a confirmation when the message arrives with a tx |
| IPFS pub/sub ingress | `services/ipfs/pubsub.py` | — | `incoming_channel`: decode each message and hand it to a fire-and-forget processing task |
| Pending-Message Processor | `jobs/process_pending_messages.py` | `pending_messages` (Mongo, no unique key), `processing_messages`, `seen_ids`, the tasks, per-type semaphores | scan loop; `handle_pending_message` per row; `process_message_job_results`; the >100000-row cleanup; the `retry_messages_task` restart loop |
| Message tables | `db/models/messages.py` | `messages`, `message_status`, `message_confirmations` | row conversions and content validation |
| Cost service, prices controller | `services/cost.py`, `web/controllers/prices.py` | read-only | price of an executable message from its resources and volumes |
| Storage controllers, config, schemas | `web/controllers/storage.py`, `config.py`, `schemas/` | none | HTTP forwarding, defaults, data shapes |

How the parts interact:

- A chain connector writes a ChainTx and its PendingTx, then publishes the tx
  hash.
- The Pending-Tx Processor consumes the hash. It expands the tx through the
  Chain Data Service and admits every message through the Message Publisher, one
  committed session per message. Only then does it delete the PendingTx and
  acknowledge the delivery.
- Peers feed the same admission gate through pub/sub.
- The Pending-Message Processor scans the pending rows and runs `incoming` on
  each, at most `max_concurrent_tasks` at a time and at most `sem_value` per
  message type. It applies each task's bulk operations when it collects the
  task: every outcome except RETRYING_LATER deletes the row.

Behaviours that make this code hard to test, all of which the models cover:

- A consumer crash between any two commits of a batch.
- Redelivery of a tx that is no longer pending.
- A rejected delivery that is never requeued.
- The `seen_ids` window written before the fetch it guards.
- Tasks that outlive the scan loop that started them.
- A cleanup that reads `seen_ids` written by tasks whose results are not
  applied yet.
- The task-slot bound at its limit.

## 2. Modules

| Module | Models | Kind |
|---|---|---|
| `PendingTxs` | Pending-Tx Processor, the `get_tx_messages` branches of the Chain Data Service, admission (spec-modelled) and pub/sub ingress | component, composed |
| `MCPendingTxs` | constants for TLC: four txs, two messages, one sync file | MC |
| `PendingTxsProofs` | TLAPS proofs about `PendingTxs` | proofs |
| `PendingMessages` | Pending-Message Processor: scan loop, tasks, collection, cleanup, restarts | component |
| `MCPendingMessages` | constants for TLC: three rows, two messages, two types | MC |
| `PendingMessagesProofs` | TLAPS proofs about `PendingMessages`: types and the task bound | proofs |
| `PendingMessagesSafety` | TLAPS proof of `NoLostMessage` | proofs |
| `PendingMessagesInFlight` | TLAPS proofs of `NoDuplicateInCall`, and of `NoRowTwiceInFlight` without loop exceptions | proofs |
| `ChainSync` | Chain Data Service: the encoder `get_chaindata` against the decoder `get_tx_messages` | pure, with a log of posts |
| `MCChainSync` | constants for TLC: two messages, batches of up to two, one threshold | MC |
| `PendingTxsAdmission` | TLAPS proof of `ExpandedTxAdmitted` | proofs |
| `Cost` | `services/cost.py`: `compute_cost` and its helpers, over changing file pin and tag tables | pure, with the tables it reads |
| `MCCost` | constants for TLC: two refs, three file sizes, two volume sizes, 1–2 vCPUs, 2–4 GiB | MC |

### PendingTxs

State:

- `chain_txs` and `pending_txs` are the ChainTxDb and PendingTxDb rows.
- `pending_tx_queue` holds the deliveries ready in the broker. It is a set,
  because a second publication of the same hash adds nothing the model can tell
  apart.
- `current`, `consumer` and `todo` are the consumer's position inside
  `handle_pending_tx`: the delivery it holds unacknowledged, and the messages of
  the batch not yet admitted.
- `seen_ids` is the off-chain window.
- `pending_messages`, `message_status`, `message_confirmations` and
  `tx_file_pins` are the tables written.
- `crashes` counts consumer crashes.

A tx's content is abstracted to a `TxRecord`: its protocol, the messages it
yields or `Bad` (not a list, not a STORE_IPFS event, not parsable), and for
off-chain txs the file hash. `FileContent` is what the storage service resolves a
file hash to.

Actions:

- `handle_pending_tx(t)` takes a delivery and runs the whole of
  `handle_pending_tx` up to its first commit. If the PendingTx is gone, the
  delivery is acknowledged. Otherwise `get_tx_messages` either returns a batch
  (`Expanded`) or raises (`Raised`). When it raises, `process()` rejects the
  delivery, the exception ends `process_pending_txs`, and `handle_txs_task`
  restarts it with a fresh `seen_ids`.
- The off-chain branch (`OffChainMessages`) has four outcomes:
  - the file was already seen: empty batch;
  - the fetch fails;
  - the fetch succeeds: the file's batch, plus the pin row when IPFS is enabled;
  - the pin row is committed and then `pin_hash` fails with something other
    than a timeout.
- `admit_message` is one `add_pending_message` call, committed on its own.
- `delete_pending_tx` is the delete and commit.
- `ack` is the normal exit of `process()`.
- `crash` models the process dying inside `process_pending_txs`. The
  delivery is acknowledged only when `process()` exits (line 93), and the
  queue is durable (lines 113-115), so the broker requeues the unacknowledged
  delivery. The `seen_ids` set (line 89) is lost with the process. The
  requeue is the broker's behaviour, not a line of this code.
- `ConsumerStep` groups the consumer's actions. Its fairness rests on the
  `while True` of `handle_txs_task` (lines 150-157).
- `incoming_chaindata` and `incoming_channel` are the environment.

`add_pending_message` follows spec 4.3 because MessagePublisher is not under
`src/`:

- a malformed message only records its rejection;
- otherwise the key is inserted idempotently, the status row is created if
  absent, and a tx source adds a confirmation.

### PendingMessages

State:

- `pending_messages` holds the rows (model values with constant item, chain and
  height); `admitted` is its history.
- `messages` and `rejected_messages` are the outcomes.
- `job` is the scan loop's position. `cursor` is what the current `find()` has
  still to yield. `held` is the row waiting for a free slot.
- `processing_messages` and `seen_ids` are the loop's local state.
- `tasks` is the set of asyncio tasks: row, phase (waiting for the semaphore,
  inside `incoming`, done), result, and whether the task is an orphan of an
  earlier call.
- `loop_errors` counts the exceptions raised by the loop.

The scan loop:

- `count_documents` is the `while` test.
- `next_pending` is one iteration of the `async for`: skip a key in flight,
  otherwise mark it and create the task, or wait for a slot when
  `len(pending_tasks) == max_concurrent_tasks`.
- `wait_slot` and `end_of_cursor` are the two `asyncio.wait(FIRST_COMPLETED)`
  calls. Each collects every finished task (`Collect`): apply its operations,
  remove its key.
- `cleanup` is the >100000 sweep (the bound is `HighWater`).
- `retry_messages_task` and `loop_raises` call the loop again with fresh local
  state. This happens after a normal return or after any await raised. All
  running tasks become orphans.

The tasks:

- `NewTask` runs `parse_message`; a refused row's task only returns the delete.
- `acquire_semaphore` is `async with sem` on a BoundedSemaphore of size
  `SemValue[type]`. The model is looser than the code in two ways. All orphan
  generations share one pool, whereas each call makes fresh semaphores
  (line 140). A task may also stay waiting on a semaphore that has a free slot
  while the loop takes further steps, whereas asyncio runs it at the loop's
  next await. Neither matters to the passing safety properties, which hold
  for every such schedule. The violation run `pending_messages_duplicate_key`
  rules out the second with the action constraint `EagerAcquire` (in
  `MCPendingMessages`), so its trace is one the event loop can produce.
- `incoming` is spec-modelled. A message already processed, or a row above the
  height `seen_ids` holds, is a duplicate. Otherwise the outcome is committed
  (or rejected for `InvalidContent`), RETRYING_LATER, or an exception.
- An orphan's finished result is dropped (`orphan_done`).

The row order of the sorted `find()` is left nondeterministic, so every order is
checked. A cursor over the rows as they stood at `find()` time may yield a row
that has already been deleted. MongoDB does this for the batch it has already
fetched.

### ChainSync

State: `ipfs` (the objects `add_json` stored) and `posted` (pairs of a batch and
the envelope posted for it). `post_batch` runs `get_chaindata` on a batch and a
threshold. It uploads the `chaindata` object first when the envelope is off-chain.
- `message_to_dict` keeps the authorized fields and turns `time` into its epoch.
- `JsonLength` is `len(json.dumps(chaindata))`: a fixed overhead, each dict's
  length, and `", "` between items. Strings are never built.
- A content hash is a tagged copy of the object, since content addressing is
  injective.
- `get_tx_messages` decodes an envelope as the node's decoder does: on-chain,
  `tx.content["messages"]`; off-chain, the fetched object's `["messages"]`.
- How the connectors fill `tx.content` is modelled from spec 4.1
  (spec-modelled), as they are not under `src/`.

### Cost

`compute_cost` prices an executable message. It is made of:

- the compute units, `max(vcpus, ceil(memory / 2048))`;
- a multiplier of 2 for a microVM (a program that is not persistent) with
  internet;
- a unit cost of 200 for a microVM and 2000 otherwise;
- the storage beyond a free allowance per vCPU: 2 GiB for a microVM, 20 GiB
  otherwise, divided by 20.

`get_volume_size` sums two kinds of volume:

- The volumes given by reference: code, runtime, data and immutable volumes.
  Each is resolved in `message_file_pins` (an exact STORE item hash) or in
  `file_tags` (`use_latest`). A missing one raises `RuntimeError`.
- The sized ones: rootfs, ephemeral and persistent volumes.

The model keeps the two tables as variables, `file_pins` and `file_tags`.
`store_pin` and `update_tag` change them arbitrarily: they stand for the
STORE and FORGET handlers, which are not under `src/`. The price operators
are read against every state of the tables.

Units are chosen so that TLC's integers stay exact:

- sizes are in MiB;
- prices are multiplied by 20, so the `Decimal` division by 20 has no
  remainder.

## 3. Runs

| Run | Config | Expect | What it shows |
|---|---|---|---|
| `pending_txs_sync` | `MCPendingTxs.cfg` | pass | Covers two off-chain txs sharing a sync file, a STORE_IPFS smart-contract tx, an on-chain tx whose `messages` is not a list, and one crash. Shows type correctness (`TypeOK`), `ExpandedTxAdmitted`, `DecodableTxDeliverable`, and `TxEventuallyExpanded`. |
| `pending_txs_batches` | `MCPendingTxsB.cfg` | pass | Covers an empty batch, a batch with a malformed message, a bad smart-contract payload, an unknown protocol, and IPFS disabled. |
| `pending_tx_orphan` | `MCPendingTxsOrphan.cfg` | violation | `NoOrphanPendingTx` (spec 4.2, "redelivery will retry") fails after two transitions, `incoming_chaindata` and then `handle_pending_tx`: a failed off-chain fetch rejects the delivery without requeue and the PendingTx is left with none. |
| `pending_messages_restarts` | `MCPendingMessages.cfg` | pass | `TaskBound`, `NoLostMessage` and `NoDuplicateInCall` hold through a loop exception, a cleanup at every pass and orphaned tasks (224k states). |
| `pending_messages_steady` | `MCPendingMessagesLive.cfg` | pass | Without loop exceptions, `NoDuplicateInFlight` holds and `KeyEventuallyReleased` holds under the fairness below. |
| `pending_messages_shared_rows` | `MCPendingMessagesRows.cfg` | pass | `NoRowTwiceInFlight` holds with three rows of m1 on c1, two of them at height 2 (one key), semaphores of the default size 2 and no loop exception. This is the instance of finding 5: a call returns while a task runs, and the next call starts a task on the other row with its key, but never a second task on the same row. |
| `pending_messages_duplicate_task` | `MCPendingMessagesRestart.cfg` | violation | `NoDuplicateInFlight` (spec 4.4) fails in 7 steps: a task survives a loop exception and the next call starts another task on the same row. |
| `pending_messages_duplicate_key` | `MCPendingMessagesShared.cfg` | violation | `NoDuplicateInFlight` fails with no exception at all. Three rows of m1 on c1 are used, two of them at height 2, with semaphores of the default size 2 (`sem_value = max_concurrency`). In the trace, r1 is committed and r2's task enters `incoming`. The cleanup deletes r2, whose height is `$gt` the seen height 1, and the call returns while r2's task is still inside `incoming`. r3 is then inserted, and the next call starts a task on r3, which has r2's key. |
| `chain_sync_roundtrip` | `MCChainSync.cfg` | violation | `RoundTrip` (spec P6) fails as soon as a two-message batch is posted: it goes off-chain and its decoding raises `KeyError`. TLC's trace may first post a batch that stays inline. |
| `cost_microvm` | `MCCost.cfg` | pass | `MicroVmNotDearer`: for every program of the bounded shapes and every state of the file tables, a microVM never costs more than the same program run persistently. |
| `pending_messages_sweep` | `MCPendingMessagesSweep.cfg` | violation | `SweepDeletesLowerHeight` (spec 4.6, I3) fails: the cleanup deletes the higher-height confirmation of a handled item. |

The properties:

- `ExpandedTxAdmitted`: a deleted PendingTx has all its messages admitted.
- `DecodableTxDeliverable`: a decodable pending tx always has a delivery queued
  or in hand.
- `TxEventuallyExpanded`: every decodable tx is eventually expanded and its
  PendingTx deleted.
- `TaskBound`: this call never runs more than `max_concurrent_tasks` tasks.
- `NoLostMessage`: a parsable message whose rows are all gone is processed or
  rejected.
- `NoDuplicateInFlight`: no two unfinished tasks share a logical key.
- `NoDuplicateInCall`: no two tasks of the current call, nor the row it holds
  for a slot, share a logical key.
- `NoRowTwiceInFlight`: no row is handled by two unfinished tasks at once.
- `RoundTrip`: every posted envelope decodes to the dicts of its batch.
- `KeyEventuallyReleased`: a key in `processing_messages` is eventually removed.
- `MicroVmNotDearer`: the cheaper microVM compute unit outweighs its smaller
  free storage.

Every property of a passing run has a mutant in `PROJECT.json`: a plausible bug
in a mapped definition under which TLC finds the property violated. Examples:

- The delete moved inside `if messages:`.
- `seen_ids` surviving the restart.
- A no-ack consumer.
- The slot check written `>`.
- The cleanup written `$gte`.
- The skip of in-flight keys dropped (breaks `NoDuplicateInFlight`,
  `NoDuplicateInCall` and `NoRowTwiceInFlight`).
- The key never removed at collection.
- The PendingTx deleted before its batch is admitted.
- The microVM and persistent unit costs swapped.

### Bounds

- **PendingTxs.** Four txs is enough to cover both off-chain txs sharing one
  file (the `seen_ids` skip) and one tx of every other kind. Two messages make a
  batch that a crash can interrupt between admissions. One crash is enough to
  reach every crash position, since nothing depends on a second one.
- **PendingMessages.** Three rows give the two shapes that matter: two
  confirmations of one item on one chain at heights 1 and 2 (what the cleanup
  and `seen_ids` tell apart), and a pub/sub row of another type. Two task slots
  with three rows make the slot wait happen. Semaphores of size 1 make tasks of
  one type wait for each other. The shared-key runs use the default size 2
  instead, so that no task waits on a semaphore and the early return is the
  only way for a task to outlive its call. `HighWater = 1` runs the cleanup at every pass.
  One loop exception creates orphans.

- **ChainSync.** Messages of 10 characters and an overhead of 50 give batches
  of 50, 60 and 72 characters. A threshold of 60 keeps one-message batches
  inline (60 is not `> 60`) and sends two-message batches off-chain, so both
  protocols and the boundary occur.
- **Cost.** The properties quantify over every `ProgramContent` record built
  from the constants, so the bound is on the shapes:
  - 1–2 vCPUs and 2048–4096 MiB give 1 or 2 compute units from either term;
  - file sizes of 1, 20 and 60 GiB and volume sizes of 10 and 40 GiB straddle
    both free allowances (2 and 20 GiB per vCPU);
  - one extra volume, by reference or sized;
  - two refs, each missing, pinned or tagged in the reachable table states
    (256 states).

### Fairness

- **PendingTxs.** `WF_vars(ConsumerStep)`. `handle_txs_task` loops forever and
  restarts the consumer after any exception. The environment and crashes get no
  fairness.
- **PendingMessages.** `WF_vars(LoopStep)`, because `retry_messages_task`
  always calls the loop again. Each task of the current call gets
  `SF_vars(TaskOf(r, FALSE))`:
  - asyncio runs ready callbacks in FIFO order;
  - a released `asyncio.Semaphore` wakes its oldest waiter;

  so a task that is enabled again and again does run. Weak fairness on all
  tasks together is too weak here: TLC finds one task starved while another
  retries forever. Orphans hold no key and get no fairness.

## 4. Findings

1. **Orphaned PendingTx** (`process_pending_txs.py:93`, run `pending_tx_orphan`).
   - An exception from `get_tx_messages` leaves `async with
     pending_tx_message.process()`. That rejects the delivery with
     `requeue=False`.
   - The exception may be a transient `ContentCurrentlyUnavailable`, an
     `InvalidContent`, or the smart-contract `ValueError`.
   - The PendingTx row stays, but nothing will ever deliver it again.
   - The smart-contract `ValueError` is not `InvalidContent`, because of the
     walrus precedence at `chaindata.py:177`: `message_type` is bound to the
     Boolean. The consumer cannot tell these exceptions apart, so the model
     treats them alike.
2. **Duplicate task after a loop exception** (`process_pending_messages.py:228`,
   run `pending_messages_duplicate_task`).
   - `retry_messages_task` restarts `process_pending_messages` without
     cancelling the tasks it started.
   - The new call has an empty `processing_messages` and fresh semaphores, so
     one row can be handled by two tasks at once. The per-type bound no longer
     holds either.
   - The orphans' bulk operations are never applied.
3. **Cleanup keeps the lowest height** (`process_pending_messages.py:212`, run
   `pending_messages_sweep`). The sweep deletes heights `$gt` the one
   `seen_ids` holds. The spec's I3 and 4.6 prefer the highest.

4. **Off-chain envelope does not round-trip** (`chaindata.py:130`, run
   `chain_sync_roundtrip`). `get_chaindata` uploads the object
   `{"protocol", "version", "content": {"messages": [...]}}` once its JSON is
   longer than `bulk_threshold`. The decoder reads `value["messages"]` at the
   top level of the fetched file, which raises `KeyError`. Spec P6 says a
   produced envelope decodes to its messages. Scenario 4 resolves the hash to
   exactly the uploaded object. The chain connectors are not under `src/`;
   `ChainSync` takes `tx.content` to be the envelope's `content` (the hash H),
   as spec 4.1 says.

5. **A call returns with tasks still running** (`process_pending_messages.py:151`,
   run `pending_messages_duplicate_key`).
   - The `while await count_documents(...)` loop ends as soon as no pending
     row is left. It does not await `pending_tasks`.
   - A task can still be inside `incoming` when the cleanup at line 201
     deletes its row, which has a height `$gt` the one `seen_ids` holds. This
     needs no semaphore wait: the run uses the default semaphore size.
   - `retry_messages_task` then calls `process_pending_messages` again, with an
     empty `processing_messages`.
   - A row with the same (item, chain, height) gets a second task while the
     first one is still unfinished.
   - Such rows exist: the TODO at line 199 says unicity is not checked on
     insertion. No exception is needed, unlike finding 2.
   - For the same reason `NoDuplicateInFlight` holds only within one call.
     `PendingMessagesInFlight` proves that it does (`NoDuplicateInCall`),
     and that a row is never handled twice at once when no loop exception
     occurs (`NoRowTwiceInFlight`); see section 5.

Other observations, not checked by a run:

- **Missing import.** `prices.py` imports `compute_flow_cost`, which
  `services/cost.py` does not define.
- **Price falls when a vCPU is added.** `get_additional_storage_price`
  multiplies the free storage by `vcpus` (`cost.py:68`), not by the compute
  units. With 4096 MiB the compute units are 2
  whether there are one or two vCPUs. A persistent VM with 60 GiB of volumes
  then costs 4000 + 2048 with one vCPU and 4000 + 1024 with two. Adding a vCPU at fixed memory can therefore
  lower the total price. TLC confirms this with a throwaway monotonicity
  property. Nothing in the spec, the comments or the tests promises
  monotonicity, so no run asserts it.

## 5. Proofs

`PendingTxsProofs` proves three theorems with TLAPS for every value of the
constants that satisfies `ConstantsAssumption`:

- `TypeCorrect`: `Spec => []TypeOK`.
- `DeliverableWhilePending`: `Spec => []DecodableTxDeliverable`.
- `InductiveInvariant`: `Spec => []IInv`, which the two above rest on.

The inductive invariant is `IInv == TypeOK /\ ConsumerInv /\
DecodableTxDeliverable`. `TypeOK` alone is not inductive: `admit_message` needs
the consumer to hold a delivery, which `ConsumerInv` records. `ConsumerInv`
says:

- the consumer is idle exactly when it holds nothing;
- what it holds is a recorded tx;
- in the `ack` phase its tx is no longer pending;
- every pending tx is recorded.

That last conjunct is what lets a crash's requeue and the delete-before-ack
window preserve `DecodableTxDeliverable`.

The proof has one lemma per action. `GetTxMessagesOutcome` covers the four
protocol branches of `get_tx_messages`. `NextInv` combines the lemmas, and the
theorems follow by PTL.

`PendingTxsAdmission` proves, from the same assumption:

- `AdmissionInvariant`: `Spec => [](IInv /\ RInv)`.
- `ExpandedAdmitted`: `Spec => []ExpandedTxAdmitted`.

`ExpandedTxAdmitted` is not inductive. When `delete_pending_tx` fires, nothing
in the state says the batch was admitted. `RInv` records where every carried
message is on its way to admission:

- an idle or acking consumer has nothing left to admit;
- in the `admit` phase, `current` is pending and each of its messages is
  already admitted or still in `todo`;
- every file in `seen_ids` was readable, and its messages are admitted or in
  `todo`;
- every expanded tx has all its messages admitted.

The `seen_ids` conjunct covers a tx whose file was skipped as already seen: its
empty batch is sound only because the tx that put the file in the window
admitted the same messages first. A crash empties `seen_ids`, which keeps the
conjunct trivially true.

`NextRInv` has one case per action. It uses `AddPendingMessageAdmits` (an
admission adds exactly its message to `Admitted`) and `RangeHeadTail` (on
sequences).

`PendingMessagesProofs` proves, from `MessagesAssumption` (the row tables are
functions of the right types, `MaxConcurrency >= 1`, the bounds are natural
numbers, and `None` is neither a chain nor a height):

- `InductiveInvariant`: `Spec => []IInv`.
- `TypeCorrect`: `Spec => []TypeOK`.
- `TasksWithinBound`: `Spec => []TaskBound`.

`IInv == TypeOK /\ LoopInv /\ TaskBound`. `TaskBound` is not inductive by
itself, for two reasons:

- `wait_slot` adds the held row's task after the collection removed at least
  one, so the held row must be a row;
- the counting needs `Live`, the unfinished tasks of the current call, to be a
  finite set.

`LoopInv` states both. Lemmas such as `AddBelowBound`, `ReplaceOne`,
`RemoveSomeAddOne` and `NewTaskLive` do the cardinality arithmetic with
`FiniteSetTheorems`. Each action has a lemma of its own.

`PendingMessagesSafety` proves `NoMessageLost`: `Spec => []NoLostMessage`. It
also uses `NoneAssumption`: Python's `None` is neither a task result nor a row.
`NoLostMessage` says nothing of why a row may be gone. The proof needs
`LostInv`, whose main conjuncts are these:

- `ResultTables`: committed messages are valid, rejected ones invalid, and
  every pending row was admitted.
- `TaskFacts`: a task's result matches its row and its phase.
- `LiveFacts`, for the tasks of the current call:
  - a `duplicate` result, or a row no longer pending, means the message is
    `Gone`: committed, rejected, or seen at a lower height;
  - every live task's key is in `processing_messages`;
  - the live keys are distinct.
- `CursorFacts` and `HeldFacts`: the same for rows in the cursor snapshot and
  for the row waiting for a slot.
- `SeenFacts`: an entry of `seen_ids` names a valid message that is committed,
  or a pending parsable row that carries it at that height.

The last conjunct is what makes the `$gt` cleanup and the `duplicate` result
safe: a deleted row always leaves a witness row at the seen height. A restart
empties `seen_ids` and marks every task an orphan. That keeps the stale results
of earlier calls from counting, since `collect` applies only live tasks.
`SeenAfterShrinks` shows that, within a call, a seen height only decreases, so
the witness survives. `NoLostMessage` does not assume unique keys. Its proof
needs the live keys to be distinct, and that is an invariant of one call: the
skip at line 159 ensures it, and a restart clears `Live`.

`PendingMessagesInFlight` proves two theorems about in-flight keys and rows.

`KeysApartInCall` is `Spec => []NoDuplicateInCall`, for every value of the
constants. Rows may share a key, and loop exceptions and restarts may happen.
It follows from `LostInv`. `LiveFacts` says that every live task's key is in
`processing_messages` and that the live keys are distinct. `HeldFacts` says
that the held row's key is in `processing_messages` and apart from the live
ones. These hold because the skip at line 159 adds a key only when it is
absent, and a restart clears `Live`.

`NoDuplicateInFlight`, the spec's stronger claim across calls, has no
theorem: findings 2 and 5 refute it. What does survive a return is stated
about rows. `NoRowTwiceWithoutErrors` proves `Spec => []NoRowTwiceInFlight`
under the hypothesis `MaxLoopErrors = 0` (no await of the loop raises). Rows
may still share a key, and calls still return without awaiting their tasks.
Finding 2 shows the hypothesis is needed: after a loop exception the new
call starts a second task on the very row whose first task still runs.

The proof of `NoRowTwiceWithoutErrors` strengthens `IInv /\ LostInv` by `DupInv`
(`InFlightInvariant`). Within one call, `LiveFacts` already keeps the keys of
live tasks distinct. `DupInv` covers the tasks that a returned call leaves
behind:

- `OrphanFacts`: every task, cursor row and held row was admitted. An
  unfinished orphan's row is neither pending, nor in the cursor, nor held.
  Unfinished orphans are on distinct rows, and on rows other than those of the
  current call's tasks.
- `ReturnFacts`: the cursor is empty outside `iterate` and `wait_slot`, and a
  row is held only in `wait_slot`. When the call returns, no unfinished task's
  row is pending.

The argument runs in three steps:

1. A call returns only when `count_documents` found the collection empty.
2. Insertion never re-inserts an admitted row.
3. So the rows of the tasks it leaves behind never come back to a cursor.

`DistinctRows` combines this with `LiveFacts`. Two live tasks have distinct
keys, hence distinct rows, and an orphan's row differs from every other
task's. `loop_raises` is the only action that would orphan a task whose row
is still pending, and `MaxLoopErrors = 0` disables it.

What stays with TLC:

- The liveness properties `TxEventuallyExpanded` and `KeyEventuallyReleased`:
  fairness and ENABLED are beyond TLAPS.
- `MicroVmNotDearer`: its arithmetic needs `get_volume_size` to be a natural
  number. That is a `FoldLeft` over the volumes, so it is induction over data,
  which the installed provers cannot instantiate.
- The violated properties `NoOrphanPendingTx`, `SweepDeletesLowerHeight` and
  `RoundTrip`, which TLC refutes. `NoDuplicateInFlight` is also refuted, on
  the instances of findings 2 and 5, and holds on the `pending_messages_steady`
  instance (no loop exception, distinct keys).

## 6. Not modelled

- **Prices controller** (`web/controllers/prices.py`). It imports
  `compute_flow_cost`, which does not exist, so the module cannot be loaded.
  What it would do is read-only dispatch onto `compute_cost` and fixed
  per-type prices.
- **Message table models** (`db/models/messages.py`). Row conversions and
  content validation with pydantic. They have no state transition of their
  own; their effect appears as `message_status` and `message_confirmations` in
  `PendingTxs`.
- **Storage controllers, config and schemas.** No state of the node's own.
- **Inside `incoming` and the type handlers.** Not under `src/`. They appear
  only through their outcomes.
- **The retry counter and backoff.** Not in this code's processor.
