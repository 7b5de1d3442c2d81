--------------------------- MODULE PendingMessages ---------------------------
(***************************************************************************)
(* The pending-message job (src/aleph/jobs/process_pending_messages.py):    *)
(* one scan loop (process_pending_messages, restarted forever by           *)
(* retry_messages_task) that walks the pending_messages collection and     *)
(* starts an asyncio task per row (handle_pending_message), with at most   *)
(* max_concurrent_tasks tasks, a BoundedSemaphore per message type, and    *)
(* the in-memory set processing_messages of logical keys in flight.        *)
(*                                                                         *)
(* A task's database writes are returned as bulk operations and applied by *)
(* the loop when it collects the finished task.  When an await of the loop *)
(* raises (a DB error, a row that fails validate_pending_message) or the   *)
(* loop returns while tasks still run, the tasks are not cancelled: they   *)
(* run on as orphans whose results nobody applies, and the next call       *)
(* starts from fresh processing_messages, seen_ids and semaphores.         *)
(*                                                                         *)
(* `incoming` (aleph.chains.common, not under src/) is modelled from the   *)
(* spec (4.4, 4.6): it commits, rejects, asks to retry later, raises, or   *)
(* reports a duplicate of a processed message or of a key seen_ids holds   *)
(* at a lower height.                                                      *)
(***************************************************************************)
EXTENDS Naturals, FiniteSets

CONSTANTS
    Rows,           \* pending_messages documents (their _id)
    Msgs,           \* item hashes
    Types,          \* MessageType values
    Chains,         \* source chains of confirmed rows
    RowMsg,         \* the item hash a row carries
    RowChain,       \* source.chain_name of a row, or None (pub/sub)
    RowHeight,      \* source.height of a row, or None (pub/sub)
    MsgType,        \* the type of each message
    Unparsable,     \* rows whose message parse_message refuses
    InvalidContent, \* messages `incoming` rejects permanently
    SemValue,       \* per-type semaphore size (init_semaphores)
    MaxConcurrency, \* max_concurrent_tasks
    HighWater,      \* the 100000-document threshold of the cleanup
    MaxLoopErrors,  \* bound on exceptions raised by the scan loop
    None

ASSUME MessagesAssumption ==
    /\ RowMsg \in [Rows -> Msgs]
    /\ RowChain \in [Rows -> Chains \cup {None}]
    /\ RowHeight \in [Rows -> Nat \cup {None}]
    /\ \A r \in Rows : (RowChain[r] = None) <=> (RowHeight[r] = None)
    /\ MsgType \in [Msgs -> Types]
    /\ Unparsable \subseteq Rows
    /\ InvalidContent \subseteq Msgs
    /\ SemValue \in [Types -> Nat \ {0}]
    /\ MaxConcurrency \in Nat \ {0}
    /\ HighWater \in Nat
    /\ MaxLoopErrors \in Nat
    /\ None \notin Chains \cup Nat

VARIABLES
    pending_messages,     \* rows of the pending_messages collection
    admitted,             \* rows ever inserted (history)
    messages,             \* item hashes of processed messages
    rejected_messages,    \* item hashes rejected permanently
    job,                  \* where the scan loop is
    cursor,               \* rows the current find() has still to yield
    held,                 \* the row waiting for a free task slot, or None
    processing_messages,  \* logical keys with a task in flight
    seen_ids,             \* <<item, chain>> -> lowest height handled
    tasks,                \* running and finished asyncio tasks
    loop_errors           \* exceptions raised by the scan loop so far

vars == <<pending_messages, admitted, messages, rejected_messages, job, cursor,
          held, processing_messages, seen_ids, tasks, loop_errors>>

(* get_pending_message_id: (item_hash, sender, chain_name, height); the    *)
(* sender is a function of the item hash.                                  *)
get_pending_message_id(r) == <<RowMsg[r], RowChain[r], RowHeight[r]>>

SeenKeys == Msgs \X Chains
Results == {"committed", "duplicate", "rejected", "retry", "error", "drop"}

(* None (Python's None) is neither a task result nor a row.                *)
ASSUME NoneAssumption == None \notin Results \cup Rows
Phases == {"sem", "run", "done"}
Task == [row : Rows, phase : Phases, result : Results \cup {None},
         orphan : BOOLEAN]

Live == {t \in tasks : ~t.orphan}
LiveRows == {t.row : t \in Live}

---------------------------------------------------------------------------
(* Admission inserts a row (MessagePublisher, not modelled here).          *)
add_pending_row(r) ==
    /\ r \notin admitted
    /\ admitted' = admitted \cup {r}
    /\ pending_messages' = pending_messages \cup {r}
    /\ UNCHANGED <<messages, rejected_messages, job, cursor, held,
                   processing_messages, seen_ids, tasks, loop_errors>>

---------------------------------------------------------------------------
(* The task: handle_pending_message(pending, sem, seen_ids).               *)

(* parse_message refuses the row: the task only returns its delete.       *)
(* Otherwise it waits for the semaphore of the message's type: the live  *)
(* tasks share this call's semaphores, orphans those of their own call.  *)
acquire_semaphore(t) ==
    /\ t \in tasks
    /\ t.phase = "sem"
    /\ Cardinality({u \in tasks : /\ u.phase = "run" /\ u.orphan = t.orphan
                                  /\ MsgType[RowMsg[u.row]] = MsgType[RowMsg[t.row]]})
         < SemValue[MsgType[RowMsg[t.row]]]
    /\ tasks' = (tasks \ {t}) \cup {[t EXCEPT !.phase = "run"]}
    /\ UNCHANGED <<pending_messages, admitted, messages, rejected_messages, job,
                   cursor, held, processing_messages, seen_ids, loop_errors>>

(* A row at a height above the one seen_ids holds for its <<item, chain>> *)
(* is a duplicate of a confirmation already handled.                      *)
SeenDuplicate(r) ==
    /\ RowChain[r] # None
    /\ seen_ids[<<RowMsg[r], RowChain[r]>>] # None
    /\ RowHeight[r] > seen_ids[<<RowMsg[r], RowChain[r]>>]

SeenAfter(r) ==
    IF RowChain[r] = None THEN seen_ids
    ELSE LET k == <<RowMsg[r], RowChain[r]>> IN
         [seen_ids EXCEPT ![k] = IF @ = None \/ RowHeight[r] < @
                                 THEN RowHeight[r] ELSE @]

(* `incoming`, under the semaphore (spec-modelled).  The seen_ids window  *)
(* is the live call's dictionary; an orphan's updates are lost with it.   *)
incoming(t) ==
    LET r == t.row IN
    /\ t \in tasks
    /\ t.phase = "run"
    /\ \E res \in Results :
         /\ CASE RowMsg[r] \in messages \/ SeenDuplicate(r) -> res = "duplicate"
              [] RowMsg[r] \in InvalidContent -> res \in {"rejected", "retry", "error"}
              [] OTHER -> res \in {"committed", "retry", "error"}
         /\ tasks' = (tasks \ {t}) \cup {[t EXCEPT !.phase = "done", !.result = res]}
         /\ seen_ids' = IF res = "committed" /\ ~t.orphan THEN SeenAfter(r)
                        ELSE seen_ids
    /\ UNCHANGED <<pending_messages, admitted, messages, rejected_messages, job,
                   cursor, held, processing_messages, loop_errors>>

(* An orphaned task ends and its operations are dropped with it.          *)
orphan_done(t) ==
    /\ t \in tasks
    /\ t.orphan
    /\ t.phase = "done"
    /\ tasks' = tasks \ {t}
    /\ UNCHANGED <<pending_messages, admitted, messages, rejected_messages, job,
                   cursor, held, processing_messages, seen_ids, loop_errors>>

---------------------------------------------------------------------------
(* The scan loop: process_pending_messages.                                *)

(* A task's operations, applied by process_job_results: everything but   *)
(* RETRYING_LATER deletes the row; a task that raised applies nothing.    *)
Applied(D) ==
    LET ok == {t \in D : t.result \notin {"retry", "error"}} IN
    /\ pending_messages' = pending_messages \ {t.row : t \in ok}
    /\ messages' = messages \cup {RowMsg[t.row] : t \in {u \in ok : u.result = "committed"}}
    /\ rejected_messages' =
         rejected_messages \cup {RowMsg[t.row] : t \in {u \in ok : u.result = "rejected"}}

(* asyncio.wait(FIRST_COMPLETED) returns once a task has finished, with  *)
(* every finished task; process_message_job_results applies them and     *)
(* their keys leave processing_messages.  The others stay in pending_tasks.*)
Finished == {t \in Live : t.phase = "done"}

(* Mutant: the finished keys are never removed from processing_messages. *)
CollectKeepsKeys ==
    /\ Finished # {}
    /\ Applied(Finished)
    /\ UNCHANGED processing_messages

Collect ==
    /\ Finished # {}
    /\ Applied(Finished)
    /\ processing_messages' =
         processing_messages \ {get_pending_message_id(t.row) : t \in Finished}

(* asyncio.create_task(handle_pending_message(...)).                      *)
NewTask(r) ==
    IF r \in Unparsable
    THEN [row |-> r, phase |-> "done", result |-> "drop", orphan |-> FALSE]
    ELSE [row |-> r, phase |-> "sem", result |-> None, orphan |-> FALSE]

(* `while await count_documents(...)`: stop when the collection is empty, *)
(* otherwise start a sorted find().                                       *)
count_documents ==
    /\ job = "count"
    /\ \/ /\ pending_messages # {}
          /\ job' = "iterate"
          /\ cursor' = pending_messages
       \/ /\ pending_messages = {}
          /\ job' = "return"
          /\ UNCHANGED cursor
    /\ UNCHANGED <<pending_messages, admitted, messages, rejected_messages, held,
                   processing_messages, seen_ids, tasks, loop_errors>>

(* Mutant: a key already in flight is not skipped.                       *)
next_pending_no_skip ==
    /\ job = "iterate"
    /\ \E r \in cursor :
         /\ cursor' = cursor \ {r}
         /\ processing_messages' = processing_messages \cup {get_pending_message_id(r)}
         /\ \/ /\ Cardinality(Live) < MaxConcurrency
               /\ tasks' = tasks \cup {NewTask(r)}
               /\ UNCHANGED <<held, job>>
            \/ /\ Cardinality(Live) = MaxConcurrency
               /\ held' = r
               /\ job' = "wait_slot"
               /\ UNCHANGED tasks
    /\ UNCHANGED <<pending_messages, admitted, messages, rejected_messages,
                   seen_ids, loop_errors>>

(* Mutant: the slot check waits only once the tasks exceed the maximum.  *)
next_pending_late_wait ==
    /\ job = "iterate"
    /\ \E r \in cursor :
         /\ cursor' = cursor \ {r}
         /\ get_pending_message_id(r) \notin processing_messages
         /\ processing_messages' = processing_messages \cup {get_pending_message_id(r)}
         /\ Cardinality(Live) <= MaxConcurrency
         /\ tasks' = tasks \cup {NewTask(r)}
         /\ UNCHANGED <<held, job>>
    /\ UNCHANGED <<pending_messages, admitted, messages, rejected_messages,
                   seen_ids, loop_errors>>

(* The body of `async for pending in ...`: skip a key in flight; else     *)
(* mark it, and start the task now or after a slot frees up.              *)
next_pending ==
    /\ job = "iterate"
    /\ \E r \in cursor :
         /\ cursor' = cursor \ {r}
         /\ \/ /\ get_pending_message_id(r) \in processing_messages
               /\ UNCHANGED <<processing_messages, tasks, held, job>>
            \/ /\ get_pending_message_id(r) \notin processing_messages
               /\ processing_messages' = processing_messages \cup {get_pending_message_id(r)}
               /\ \/ /\ Cardinality(Live) < MaxConcurrency
                     /\ tasks' = tasks \cup {NewTask(r)}
                     /\ UNCHANGED <<held, job>>
                  \/ /\ Cardinality(Live) = MaxConcurrency
                     /\ held' = r
                     /\ job' = "wait_slot"
                     /\ UNCHANGED tasks
    /\ UNCHANGED <<pending_messages, admitted, messages, rejected_messages,
                   seen_ids, loop_errors>>

(* `len(pending_tasks) == max_concurrent_tasks`: wait for completions,    *)
(* collect them, then start the held row's task.                          *)
wait_slot ==
    /\ job = "wait_slot"
    /\ Collect
    /\ tasks' = (tasks \ Finished) \cup {NewTask(held)}
    /\ held' = None
    /\ job' = "iterate"
    /\ UNCHANGED <<admitted, cursor, seen_ids, loop_errors>>

(* The cursor is exhausted: wait for at least one task if any runs.       *)
end_of_cursor ==
    /\ job = "iterate"
    /\ cursor = {}
    /\ \/ /\ Live = {}
          /\ UNCHANGED <<pending_messages, messages, rejected_messages,
                         processing_messages, tasks>>
       \/ Collect /\ tasks' = tasks \ Finished
    /\ job' = "cleanup"
    /\ UNCHANGED <<admitted, cursor, held, seen_ids, loop_errors>>

(* Mutant: the cleanup deletes from the seen height on ($gte).         *)
cleanup_gte ==
    /\ job = "cleanup"
    /\ pending_messages' =
         IF Cardinality(pending_messages) > HighWater
         THEN {r \in pending_messages :
                 ~(/\ RowChain[r] # None
                   /\ seen_ids[<<RowMsg[r], RowChain[r]>>] # None
                   /\ RowHeight[r] >= seen_ids[<<RowMsg[r], RowChain[r]>>])}
         ELSE pending_messages
    /\ job' = "count"
    /\ UNCHANGED <<admitted, messages, rejected_messages, cursor, held,
                   processing_messages, seen_ids, tasks, loop_errors>>

(* More than 100000 rows: delete every row of a seen <<item, chain>>      *)
(* whose height is above the one seen_ids holds.                          *)
cleanup ==
    /\ job = "cleanup"
    /\ pending_messages' =
         IF Cardinality(pending_messages) > HighWater
         THEN {r \in pending_messages : ~SeenDuplicate(r)}
         ELSE pending_messages
    /\ job' = "count"
    /\ UNCHANGED <<admitted, messages, rejected_messages, cursor, held,
                   processing_messages, seen_ids, tasks, loop_errors>>

(* The call returns, or one of its awaits raises: retry_messages_task     *)
(* calls process_pending_messages again with fresh local state, and the   *)
(* tasks of this call run on, uncollected.                                *)
Restart ==
    /\ job' = "count"
    /\ cursor' = {}
    /\ held' = None
    /\ processing_messages' = {}
    /\ seen_ids' = [k \in SeenKeys |-> None]
    /\ tasks' = {[t EXCEPT !.orphan = TRUE] : t \in tasks}
    /\ UNCHANGED <<pending_messages, admitted, messages, rejected_messages>>

retry_messages_task ==
    /\ job = "return"
    /\ Restart
    /\ UNCHANGED loop_errors

loop_raises ==
    /\ job \in {"count", "iterate", "wait_slot", "cleanup"}
    /\ loop_errors < MaxLoopErrors
    /\ loop_errors' = loop_errors + 1
    /\ Restart

---------------------------------------------------------------------------
Init ==
    /\ pending_messages = {}
    /\ admitted = {}
    /\ messages = {}
    /\ rejected_messages = {}
    /\ job = "count"
    /\ cursor = {}
    /\ held = None
    /\ processing_messages = {}
    /\ seen_ids = [k \in SeenKeys |-> None]
    /\ tasks = {}
    /\ loop_errors = 0

(* A step of the task of row r in this call (o = FALSE) or an earlier one. *)
TaskOf(r, o) ==
    \E t \in tasks : /\ t.row = r /\ t.orphan = o
                    /\ \/ acquire_semaphore(t) \/ incoming(t) \/ orphan_done(t)

TaskStep == \E r \in Rows, o \in BOOLEAN : TaskOf(r, o)

LoopStep ==
    count_documents \/ next_pending \/ wait_slot \/ end_of_cursor \/ cleanup
    \/ retry_messages_task

Next ==
    \/ \E r \in Rows : add_pending_row(r)
    \/ TaskStep
    \/ LoopStep
    \/ loop_raises

(* The event loop runs its ready callbacks in FIFO order and a released   *)
(* asyncio semaphore wakes its oldest waiter, so a task that is ready     *)
(* again and again runs; retry_messages_task calls the loop forever.      *)
(* Orphaned tasks hold no key, so no fairness is asked of them.           *)
Spec == /\ Init /\ [][Next]_vars /\ WF_vars(LoopStep)
        /\ \A r \in Rows : SF_vars(TaskOf(r, FALSE))

---------------------------------------------------------------------------
TypeOK ==
    /\ pending_messages \subseteq Rows
    /\ admitted \subseteq Rows
    /\ messages \subseteq Msgs
    /\ rejected_messages \subseteq Msgs
    /\ job \in {"count", "iterate", "wait_slot", "cleanup", "return"}
    /\ cursor \subseteq Rows
    /\ held \in Rows \cup {None}
    /\ processing_messages \subseteq {get_pending_message_id(r) : r \in Rows}
    /\ seen_ids \in [SeenKeys -> Nat \cup {None}]
    /\ tasks \subseteq Task
    /\ loop_errors \in 0..MaxLoopErrors

(* The spec (4.4, 5): processing_messages keeps two workers from racing   *)
(* on the same logical key: no two unfinished tasks share one.            *)
NoDuplicateInFlight ==
    \A t, u \in tasks :
        (t # u /\ t.phase # "done" /\ u.phase # "done")
            => get_pending_message_id(t.row) # get_pending_message_id(u.row)

(* The skip of in-flight keys (`if message_id in processing_messages`)   *)
(* works within one call of process_pending_messages: no two tasks the   *)
(* call has started and not yet collected, nor the row it holds for a    *)
(* slot, share a logical key, whatever rows share one and whatever loop   *)
(* exceptions and restarts came before.                                   *)
NoDuplicateInCall ==
    /\ \A t, u \in Live :
          t # u => get_pending_message_id(t.row) # get_pending_message_id(u.row)
    /\ held # None =>
          \A t \in Live : get_pending_message_id(t.row) # get_pending_message_id(held)

(* No pending row is handled by two tasks at once, of this call or of one *)
(* that returned: a call returns only once count_documents finds no row,  *)
(* so the tasks it leaves behind are on deleted rows, which no later       *)
(* find() yields; rows sharing a key are distinct rows.                   *)
NoRowTwiceInFlight ==
    \A t, u \in tasks :
        (t # u /\ t.phase # "done" /\ u.phase # "done") => t.row # u.row

(* The loop never runs more than max_concurrent_tasks tasks of its own.   *)
TaskBound == Cardinality(Live) <= MaxConcurrency

(* Safety: a parsable message whose rows are all gone from the pending    *)
(* collection has been processed or rejected, whatever the cleanup of     *)
(* seen duplicates deleted and whichever task results were dropped.       *)
NoLostMessage ==
    \A m \in Msgs :
        LET rows == {r \in admitted \ Unparsable : RowMsg[r] = m} IN
        (rows # {} /\ rows \cap pending_messages = {})
            => m \in messages \cup rejected_messages

(* The spec (4.6): the high-water sweep deletes the rows of an item      *)
(* confirmed on a chain that have a LOWER source height than another of  *)
(* its rows: every row the cleanup deletes is below some admitted row.    *)
SweepDeletesLowerHeight ==
    [][job = "cleanup" =>
         \A r \in pending_messages \ pending_messages' :
             \E r2 \in admitted : /\ RowMsg[r2] = RowMsg[r]
                                 /\ RowChain[r2] = RowChain[r]
                                 /\ RowHeight[r2] > RowHeight[r]]_vars

(* Liveness: a logical key marked in flight is eventually released.       *)
KeyEventuallyReleased ==
    \A r \in Rows :
        get_pending_message_id(r) \in processing_messages
            ~> get_pending_message_id(r) \notin processing_messages

=============================================================================
