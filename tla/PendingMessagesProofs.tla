------------------------ MODULE PendingMessagesProofs ------------------------
(***************************************************************************)
(* Proofs about the pending-message job (PendingMessages), for every value *)
(* of the constants that satisfies MessagesAssumption: every state is well *)
(* typed, and the scan loop never has more than max_concurrent_tasks tasks *)
(* of its own, through restarts that orphan the tasks of earlier calls.    *)
(***************************************************************************)
EXTENDS PendingMessages, FiniteSetTheorems, TLAPS

USE MessagesAssumption

(* The loop's own bookkeeping: a slot wait always holds a row, and the    *)
(* live tasks are finitely many (so that their number is defined).        *)
LoopInv ==
    /\ job = "wait_slot" => held \in Rows
    /\ IsFiniteSet(Live)

IInv == TypeOK /\ LoopInv /\ TaskBound

---------------------------------------------------------------------------
(* Lemmas about the sets the loop counts.                                  *)

LEMMA AddBelowBound ==
    ASSUME NEW S, NEW x, NEW n \in Nat, IsFiniteSet(S), Cardinality(S) < n
    PROVE  IsFiniteSet(S \cup {x}) /\ Cardinality(S \cup {x}) <= n
<1>1. Cardinality(S) \in Nat
  BY FS_CardinalityType
<1>2. IsFiniteSet(S \cup {x})
      /\ Cardinality(S \cup {x}) =
         IF x \in S THEN Cardinality(S) ELSE Cardinality(S) + 1
  BY FS_AddElement
<1>. QED
  BY <1>1, <1>2

LEMMA ReplaceOne ==
    ASSUME NEW S, NEW t \in S, NEW x, IsFiniteSet(S)
    PROVE  IsFiniteSet((S \ {t}) \cup {x})
           /\ Cardinality((S \ {t}) \cup {x}) <= Cardinality(S)
<1>1. IsFiniteSet(S \ {t}) /\ Cardinality(S \ {t}) = Cardinality(S) - 1
  BY FS_RemoveElement
<1>2. Cardinality(S) \in Nat /\ Cardinality(S \ {t}) \in Nat
  BY <1>1, FS_CardinalityType
<1>3. IsFiniteSet((S \ {t}) \cup {x})
      /\ Cardinality((S \ {t}) \cup {x}) =
         IF x \in S \ {t} THEN Cardinality(S \ {t}) ELSE Cardinality(S \ {t}) + 1
  BY <1>1, FS_AddElement
<1>. QED
  BY <1>1, <1>2, <1>3

LEMMA RemoveSomeAddOne ==
    ASSUME NEW S, NEW F \in SUBSET S, F # {}, NEW x, IsFiniteSet(S)
    PROVE  IsFiniteSet((S \ F) \cup {x})
           /\ Cardinality((S \ F) \cup {x}) <= Cardinality(S)
<1>1. PICK f \in F : TRUE
  OBVIOUS
<1>2. IsFiniteSet(S \ {f}) /\ Cardinality(S \ {f}) = Cardinality(S) - 1
  BY <1>1, FS_RemoveElement
<1>3. IsFiniteSet(S \ F) /\ Cardinality(S \ F) <= Cardinality(S \ {f})
  BY <1>1, <1>2, FS_Subset
<1>4. Cardinality(S \ F) \in Nat /\ Cardinality(S) \in Nat
  BY <1>3, FS_CardinalityType
<1>5. IsFiniteSet((S \ F) \cup {x})
      /\ Cardinality((S \ F) \cup {x}) =
         IF x \in S \ F THEN Cardinality(S \ F) ELSE Cardinality(S \ F) + 1
  BY <1>3, FS_AddElement
<1>. QED
  BY <1>2, <1>3, <1>4, <1>5

LEMMA NewTaskLive ==
    ASSUME NEW r \in Rows
    PROVE  NewTask(r) \in Task /\ ~NewTask(r).orphan
BY DEF NewTask, Task, Results, Phases

---------------------------------------------------------------------------
LEMMA InitIInv == Init => IInv
<1> SUFFICES ASSUME Init PROVE IInv
  OBVIOUS
<1>1. Live = {}
  BY DEF Init, Live
<1>. QED
  BY <1>1, FS_EmptySet DEF Init, IInv, TypeOK, LoopInv, TaskBound

(* A task that changes phase keeps its place among the live tasks or the  *)
(* orphans, so their number does not grow.                                 *)
LEMMA ReplaceTaskBound ==
    ASSUME IInv, NEW t \in tasks, NEW t2 \in Task, t2.orphan = t.orphan,
           tasks' = (tasks \ {t}) \cup {t2}
    PROVE  IsFiniteSet(Live') /\ Cardinality(Live') <= MaxConcurrency
<1>1. t \in Task /\ IsFiniteSet(Live) /\ Cardinality(Live) <= MaxConcurrency
  BY DEF IInv, TypeOK, LoopInv, TaskBound
<1>2. CASE t.orphan
  <2>1. Live' = Live
    BY <1>2 DEF Live
  <2>. QED
    BY <1>1, <2>1
<1>3. CASE ~t.orphan
  <2>1. Live' = (Live \ {t}) \cup {t2} /\ t \in Live
    BY <1>3 DEF Live
  <2>2. IsFiniteSet(Live') /\ Cardinality(Live') <= Cardinality(Live)
    BY <1>1, <2>1, ReplaceOne
  <2>3. Cardinality(Live') \in Nat /\ Cardinality(Live) \in Nat
    BY <1>1, <2>2, FS_CardinalityType
  <2>. QED
    BY <1>1, <2>2, <2>3
<1>. QED
  BY <1>2, <1>3

LEMMA AddRowIInv ==
    ASSUME IInv, NEW r \in Rows, add_pending_row(r)
    PROVE  IInv'
BY DEF IInv, TypeOK, LoopInv, TaskBound, Live, add_pending_row

LEMMA AcquireIInv ==
    ASSUME IInv, NEW t \in tasks, acquire_semaphore(t)
    PROVE  IInv'
<1>1. t \in Task
  BY DEF IInv, TypeOK
<1>2. [t EXCEPT !.phase = "run"] \in Task
      /\ [t EXCEPT !.phase = "run"].orphan = t.orphan
  BY <1>1 DEF Task, Phases
<1>3. IsFiniteSet(Live') /\ Cardinality(Live') <= MaxConcurrency
  BY <1>2, ReplaceTaskBound DEF acquire_semaphore
<1>4. TypeOK'
  BY <1>2 DEF IInv, TypeOK, acquire_semaphore
<1>. QED
  BY <1>3, <1>4 DEF IInv, LoopInv, TaskBound, acquire_semaphore

(* seen_ids keeps its type: a confirmed row's height is a natural.         *)
LEMMA SeenAfterType ==
    ASSUME TypeOK, NEW r \in Rows
    PROVE  SeenAfter(r) \in [SeenKeys -> Nat \cup {None}]
BY DEF TypeOK, SeenAfter, SeenKeys

LEMMA IncomingIInv ==
    ASSUME IInv, NEW t \in tasks, incoming(t)
    PROVE  IInv'
<1>1. t \in Task
  BY DEF IInv, TypeOK
<1>2. PICK res \in Results :
        /\ tasks' = (tasks \ {t}) \cup {[t EXCEPT !.phase = "done", !.result = res]}
        /\ seen_ids' = IF res = "committed" /\ ~t.orphan THEN SeenAfter(t.row)
                       ELSE seen_ids
  BY DEF incoming
<1>3. [t EXCEPT !.phase = "done", !.result = res] \in Task
      /\ [t EXCEPT !.phase = "done", !.result = res].orphan = t.orphan
  BY <1>1 DEF Task, Phases
<1>4. IsFiniteSet(Live') /\ Cardinality(Live') <= MaxConcurrency
  BY <1>2, <1>3, ReplaceTaskBound
<1>5. seen_ids' \in [SeenKeys -> Nat \cup {None}]
  BY <1>1, <1>2, SeenAfterType DEF IInv, TypeOK, Task
<1>6. TypeOK'
  BY <1>2, <1>3, <1>5 DEF IInv, TypeOK, incoming
<1>. QED
  BY <1>4, <1>6 DEF IInv, LoopInv, TaskBound, incoming

LEMMA OrphanDoneIInv ==
    ASSUME IInv, NEW t \in tasks, orphan_done(t)
    PROVE  IInv'
<1>1. Live' = Live
  BY DEF orphan_done, Live
<1>. QED
  BY <1>1 DEF IInv, TypeOK, LoopInv, TaskBound, orphan_done

LEMMA CountIInv ==
    ASSUME IInv, count_documents
    PROVE  IInv'
BY DEF IInv, TypeOK, LoopInv, TaskBound, Live, count_documents

LEMMA NextPendingIInv ==
    ASSUME IInv, next_pending
    PROVE  IInv'
<1>1. PICK r \in cursor :
        /\ cursor' = cursor \ {r}
        /\ \/ /\ get_pending_message_id(r) \in processing_messages
              /\ UNCHANGED <<processing_messages, tasks, held, job>>
           \/ /\ get_pending_message_id(r) \notin processing_messages
              /\ processing_messages' = processing_messages \cup {get_pending_message_id(r)}
              /\ \/ /\ Cardinality(Live) < MaxConcurrency
                    /\ tasks' = tasks \cup {NewTask(r)}
                    /\ UNCHANGED <<held, job>>
                 \/ /\ Cardinality(Live) = MaxConcurrency
                    /\ held' = r
                    /\ job' = "wait_slot"
                    /\ UNCHANGED tasks
  BY DEF next_pending
<1>2. r \in Rows
  BY DEF IInv, TypeOK
<1>3. CASE UNCHANGED <<processing_messages, tasks, held, job>>
  <2>1. Live' = Live
    BY <1>3 DEF Live
  <2>. QED
    BY <1>1, <1>3, <2>1 DEF IInv, TypeOK, LoopInv, TaskBound, next_pending
<1>5. CASE /\ processing_messages' = processing_messages \cup {get_pending_message_id(r)}
           /\ held' = r
           /\ job' = "wait_slot"
           /\ UNCHANGED tasks
  <2>1. Live' = Live
    BY <1>5 DEF Live
  <2>2. TypeOK'
    BY <1>1, <1>2, <1>5 DEF IInv, TypeOK, next_pending
  <2>. QED
    BY <1>2, <1>5, <2>1, <2>2 DEF IInv, LoopInv, TaskBound
<1>4. CASE /\ Cardinality(Live) < MaxConcurrency
           /\ tasks' = tasks \cup {NewTask(r)}
           /\ processing_messages' = processing_messages \cup {get_pending_message_id(r)}
           /\ UNCHANGED <<held, job>>
  <2>1. Live' = Live \cup {NewTask(r)}
    BY <1>2, <1>4, NewTaskLive DEF Live
  <2>2. IsFiniteSet(Live') /\ Cardinality(Live') <= MaxConcurrency
    BY <1>4, <2>1, AddBelowBound DEF IInv, LoopInv
  <2>. QED
    BY <1>1, <1>2, <1>4, <2>2, NewTaskLive DEF IInv, TypeOK, LoopInv, TaskBound, next_pending
<1>. QED
  BY <1>1, <1>3, <1>4, <1>5

(* Collecting the finished tasks keeps the tables typed.                   *)
LEMMA CollectType ==
    ASSUME TypeOK, Collect
    PROVE  /\ pending_messages' \subseteq Rows
           /\ messages' \subseteq Msgs
           /\ rejected_messages' \subseteq Msgs
           /\ processing_messages' \subseteq {get_pending_message_id(r) : r \in Rows}
<1>1. \A t \in Finished : t.row \in Rows
  BY DEF TypeOK, Finished, Live, Task
<1>. QED
  BY <1>1 DEF TypeOK, Collect, Applied

LEMMA WaitSlotIInv ==
    ASSUME IInv, wait_slot
    PROVE  IInv'
<1>1. held \in Rows /\ Finished # {} /\ Finished \subseteq Live
  BY DEF IInv, LoopInv, wait_slot, Collect, Finished
<1>2. Live' = (Live \ Finished) \cup {NewTask(held)}
  BY <1>1, NewTaskLive DEF wait_slot, Live, Finished
<1>3. IsFiniteSet(Live') /\ Cardinality(Live') <= Cardinality(Live)
  BY <1>1, <1>2, RemoveSomeAddOne DEF IInv, LoopInv
<1>4. Cardinality(Live') \in Nat /\ Cardinality(Live) \in Nat
  BY <1>3, FS_CardinalityType DEF IInv, LoopInv
<1>5. TypeOK'
  BY <1>1, NewTaskLive, CollectType DEF IInv, TypeOK, wait_slot
<1>. QED
  BY <1>3, <1>4, <1>5 DEF IInv, LoopInv, TaskBound, wait_slot

LEMMA EndOfCursorIInv ==
    ASSUME IInv, end_of_cursor
    PROVE  IInv'
<1>1. CASE Live = {} /\ UNCHANGED <<pending_messages, messages, rejected_messages,
                                     processing_messages, tasks>>
  <2>1. Live' = Live
    BY <1>1 DEF Live
  <2>. QED
    BY <1>1, <2>1 DEF IInv, TypeOK, LoopInv, TaskBound, end_of_cursor
<1>2. CASE Collect /\ tasks' = tasks \ Finished
  <2>1. Live' \subseteq Live
    BY <1>2 DEF Live
  <2>2. IsFiniteSet(Live') /\ Cardinality(Live') <= Cardinality(Live)
    BY <2>1, FS_Subset DEF IInv, LoopInv
  <2>3. Cardinality(Live') \in Nat /\ Cardinality(Live) \in Nat
    BY <2>2, FS_CardinalityType DEF IInv, LoopInv
  <2>4. TypeOK'
    BY <1>2, CollectType DEF IInv, TypeOK, end_of_cursor
  <2>. QED
    BY <2>2, <2>3, <2>4 DEF IInv, LoopInv, TaskBound, end_of_cursor
<1>. QED
  BY <1>1, <1>2 DEF end_of_cursor

LEMMA CleanupIInv ==
    ASSUME IInv, cleanup
    PROVE  IInv'
BY DEF IInv, TypeOK, LoopInv, TaskBound, Live, cleanup

(* A restart orphans every task: the new call has none of its own.         *)
LEMMA RestartIInv ==
    ASSUME IInv, Restart, loop_errors' \in 0..MaxLoopErrors
    PROVE  IInv'
<1>1. Live' = {}
  BY DEF IInv, TypeOK, Task, Restart, Live
<1>2. tasks' \subseteq Task
  <2>1. ASSUME NEW t \in tasks PROVE [t EXCEPT !.orphan = TRUE] \in Task
    <3>1. t \in Task
      BY DEF IInv, TypeOK
    <3>. QED
      BY <3>1 DEF Task
  <2>. QED
    BY <2>1 DEF Restart
<1>3. seen_ids' \in [SeenKeys -> Nat \cup {None}]
  BY DEF Restart
<1>. QED
  BY <1>1, <1>2, <1>3, FS_EmptySet DEF IInv, TypeOK, LoopInv, TaskBound, Restart

LEMMA NextIInv == IInv /\ [Next]_vars => IInv'
<1> SUFFICES ASSUME IInv, [Next]_vars PROVE IInv'
  OBVIOUS
<1>1. CASE \E r \in Rows : add_pending_row(r)
  BY <1>1, AddRowIInv
<1>2. CASE TaskStep
  <2>1. PICK t \in tasks : acquire_semaphore(t) \/ incoming(t) \/ orphan_done(t)
    BY <1>2 DEF TaskStep, TaskOf
  <2>. QED
    BY <2>1, AcquireIInv, IncomingIInv, OrphanDoneIInv
<1>3. CASE count_documents
  BY <1>3, CountIInv
<1>4. CASE next_pending
  BY <1>4, NextPendingIInv
<1>5. CASE wait_slot
  BY <1>5, WaitSlotIInv
<1>6. CASE end_of_cursor
  BY <1>6, EndOfCursorIInv
<1>7. CASE cleanup
  BY <1>7, CleanupIInv
<1>8. CASE retry_messages_task
  BY <1>8, RestartIInv DEF retry_messages_task, IInv, TypeOK
<1>9. CASE loop_raises
  BY <1>9, RestartIInv DEF loop_raises, IInv, TypeOK
<1>10. CASE UNCHANGED vars
  BY <1>10 DEF vars, IInv, TypeOK, LoopInv, TaskBound, Live
<1>. QED
  BY <1>1, <1>2, <1>3, <1>4, <1>5, <1>6, <1>7, <1>8, <1>9, <1>10
     DEF Next, LoopStep

---------------------------------------------------------------------------
(* IInv holds in every reachable state of the job.                         *)
THEOREM InductiveInvariant == Spec => []IInv
BY InitIInv, NextIInv, PTL DEF Spec

(* Every reachable state of the pending-message job is well typed.         *)
THEOREM TypeCorrect == Spec => []TypeOK
BY InductiveInvariant, PTL DEF IInv

(* The scan loop never runs more than max_concurrent_tasks tasks of its    *)
(* own (process_pending_messages: the slot wait when len(pending_tasks)    *)
(* reaches the maximum), for any bound, any number of rows and any number  *)
(* of restarts: the tasks a restart orphans no longer count.              *)
THEOREM TasksWithinBound == Spec => []TaskBound
BY InductiveInvariant, PTL DEF IInv

=============================================================================
