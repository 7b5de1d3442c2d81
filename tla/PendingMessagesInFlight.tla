------------------------ MODULE PendingMessagesInFlight ------------------------
(***************************************************************************)
(* When does processing_messages keep two tasks off one logical key?       *)
(* Within one call of process_pending_messages it always does: the skip of *)
(* in-flight keys keeps the call's own tasks apart (NoDuplicateInCall),    *)
(* for every value of the constants.  Across calls it does not: findings 2 *)
(* and 5 show a loop exception, and a call that returns early, leaving a   *)
(* task behind while another row with its key is pending.  What survives   *)
(* a return is weaker: with no loop exception, no ROW is ever handled by   *)
(* two tasks at once (NoRowTwiceInFlight), since a call returns only once  *)
(* its rows are gone and a row is inserted once.                           *)
(***************************************************************************)
EXTENDS PendingMessagesSafety

USE MessagesAssumption, NoneAssumption

Unfinished(t) == t.phase # "done"

(* Tasks left behind by a call that returned: their rows were deleted     *)
(* before the call ended and an admitted row is never inserted again, so  *)
(* no later find() yields them; they are apart from each other and from   *)
(* the tasks of the current call.                                         *)
OrphanFacts ==
    /\ cursor \subseteq admitted
    /\ held \in admitted \cup {None}
    /\ \A t \in tasks : t.row \in admitted
    /\ \A t \in tasks : t.orphan /\ Unfinished(t) =>
          t.row \notin pending_messages \cup cursor /\ t.row # held
    /\ \A t, u \in tasks : t # u /\ t.orphan /\ u.orphan /\ Unfinished(t) /\ Unfinished(u)
          => t.row # u.row
    /\ \A t, u \in tasks : t.orphan /\ ~u.orphan /\ Unfinished(t) => t.row # u.row

(* When the call returns, the cursor is spent and no unfinished task's    *)
(* row is pending.                                                        *)
ReturnFacts ==
    /\ job \in {"count", "cleanup", "return"} => cursor = {}
    /\ job # "wait_slot" => held = None
    /\ job = "return" => \A t \in tasks : Unfinished(t) => t.row \notin pending_messages

DupInv == OrphanFacts /\ ReturnFacts

---------------------------------------------------------------------------
LEMMA InitDupInv == Init => DupInv
BY DEF Init, DupInv, OrphanFacts, ReturnFacts

(* A task step advances or removes one task and leaves its row and its    *)
(* call alone.                                                            *)
LEMMA TaskStepDupInv ==
    ASSUME DupInv, NEW t \in tasks, NEW t2,
           t2.row = t.row, t2.orphan = t.orphan, Unfinished(t2) => Unfinished(t),
           \/ tasks' = (tasks \ {t}) \cup {t2}
           \/ tasks' = tasks \ {t},
           UNCHANGED <<pending_messages, admitted, job, cursor, held>>
    PROVE  DupInv'
<1>1. \A x \in tasks' : \/ x = t2
                        \/ x \in tasks /\ x # t
  OBVIOUS
<1>2. OrphanFacts'
  <2>1. \A x \in tasks' : x.row \in admitted'
    BY <1>1 DEF DupInv, OrphanFacts
  <2>2. \A x \in tasks' : x.orphan /\ Unfinished(x) =>
          x.row \notin pending_messages' \cup cursor' /\ x.row # held'
    BY <1>1 DEF DupInv, OrphanFacts
  <2>3. ASSUME NEW x \in tasks', NEW y \in tasks', x # y
        PROVE  /\ x.orphan /\ y.orphan /\ Unfinished(x) /\ Unfinished(y) => x.row # y.row
               /\ x.orphan /\ ~y.orphan /\ Unfinished(x) => x.row # y.row
    <3>1. CASE x = t2
      BY <1>1, <2>3, <3>1 DEF DupInv, OrphanFacts
    <3>2. CASE y = t2
      BY <1>1, <2>3, <3>2 DEF DupInv, OrphanFacts
    <3>3. CASE x # t2 /\ y # t2
      BY <1>1, <2>3, <3>3 DEF DupInv, OrphanFacts
    <3>. QED
      BY <3>1, <3>2, <3>3
  <2>4. ASSUME NEW x \in tasks', x.orphan, Unfinished(x), ~x.orphan
        PROVE  FALSE
    BY <2>4
  <2>. QED
    BY <2>1, <2>2, <2>3, <2>4 DEF DupInv, OrphanFacts
<1>3. ReturnFacts'
  BY <1>1 DEF DupInv, ReturnFacts
<1>. QED
  BY <1>2, <1>3 DEF DupInv

LEMMA AddRowDupInv ==
    ASSUME DupInv, NEW r \in Rows, add_pending_row(r)
    PROVE  DupInv'
<1>1. \A t \in tasks : t.row # r
  BY DEF add_pending_row, DupInv, OrphanFacts
<1>. QED
  BY <1>1 DEF add_pending_row, DupInv, OrphanFacts, ReturnFacts

LEMMA CountDupInv ==
    ASSUME LostInv, DupInv, count_documents
    PROVE  DupInv'
BY DEF count_documents, LostInv, ResultTables, DupInv, OrphanFacts, ReturnFacts

LEMMA CleanupDupInv ==
    ASSUME DupInv, cleanup
    PROVE  DupInv'
<1>1. pending_messages' \subseteq pending_messages
  BY DEF cleanup
<1>. QED
  BY <1>1 DEF cleanup, DupInv, OrphanFacts, ReturnFacts



LEMMA NextPendingDupInv ==
    ASSUME IInv, DupInv, next_pending
    PROVE  DupInv'
<1>1. PICK r \in cursor :
         /\ cursor' = cursor \ {r}
         /\ \/ UNCHANGED <<processing_messages, tasks, held, job>>
            \/ /\ tasks' = tasks \cup {NewTask(r)}
               /\ UNCHANGED <<held, job>>
            \/ /\ held' = r
               /\ job' = "wait_slot"
               /\ UNCHANGED tasks
  BY DEF next_pending
<1>2. /\ UNCHANGED <<pending_messages, admitted>>
      /\ job = "iterate"
      /\ held = None
  BY DEF next_pending, DupInv, ReturnFacts
<1>3. r \in Rows /\ r \in admitted
  BY DEF IInv, TypeOK, DupInv, OrphanFacts
<1>4. \A x \in tasks : x.orphan /\ Unfinished(x) => x.row # r
  BY DEF DupInv, OrphanFacts
<1>5. NewTask(r).row = r /\ ~NewTask(r).orphan
  BY <1>3, NewTaskFacts
<1>6. CASE UNCHANGED <<processing_messages, tasks, held, job>>
  BY <1>1, <1>2, <1>6 DEF DupInv, OrphanFacts, ReturnFacts
<1>7. CASE tasks' = tasks \cup {NewTask(r)} /\ UNCHANGED <<held, job>>
  BY <1>1, <1>2, <1>3, <1>4, <1>5, <1>7 DEF DupInv, OrphanFacts, ReturnFacts
<1>8. CASE held' = r /\ job' = "wait_slot" /\ UNCHANGED tasks
  BY <1>1, <1>2, <1>3, <1>4, <1>8 DEF DupInv, OrphanFacts, ReturnFacts
<1>. QED
  BY <1>1, <1>6, <1>7, <1>8

LEMMA WaitSlotDupInv ==
    ASSUME IInv, DupInv, wait_slot
    PROVE  DupInv'
<1>1. held \in Rows /\ held \in admitted
  BY DEF wait_slot, IInv, LoopInv, DupInv, OrphanFacts, NoneAssumption
<1>2. NewTask(held).row = held /\ ~NewTask(held).orphan
  BY <1>1, NewTaskFacts
<1>3. /\ tasks' = (tasks \ Finished) \cup {NewTask(held)}
      /\ pending_messages' \subseteq pending_messages
      /\ held' = None /\ job' = "iterate"
      /\ UNCHANGED <<admitted, cursor>>
  BY DEF wait_slot, Collect, Applied
<1>4. \A x \in tasks : x.orphan /\ Unfinished(x) => x.row # held
  BY DEF DupInv, OrphanFacts
<1>5. \A x \in tasks' : x = NewTask(held) \/ x \in tasks
  BY <1>3
<1>6. OrphanFacts'
  <2>1. \A x \in tasks' : x.row \in admitted'
    BY <1>1, <1>2, <1>3, <1>5 DEF DupInv, OrphanFacts
  <2>2. \A x \in tasks' : x.orphan /\ Unfinished(x) =>
          x.row \notin pending_messages' \cup cursor' /\ x.row # held'
    <3>1. \A x \in tasks : x.row \in Rows
      BY DEF IInv, TypeOK, Task
    <3>. QED
      BY <1>2, <1>3, <1>5, <3>1, NoneAssumption DEF DupInv, OrphanFacts
  <2>3. ASSUME NEW x \in tasks', NEW y \in tasks', x # y
        PROVE  /\ x.orphan /\ y.orphan /\ Unfinished(x) /\ Unfinished(y) => x.row # y.row
               /\ x.orphan /\ ~y.orphan /\ Unfinished(x) => x.row # y.row
    BY <1>2, <1>4, <1>5, <2>3 DEF DupInv, OrphanFacts
  <2>. QED
    BY <1>1, <1>2, <1>3, <1>5, <2>1, <2>2, <2>3 DEF DupInv, OrphanFacts
<1>7. ReturnFacts'
  BY <1>3 DEF ReturnFacts
<1>. QED
  BY <1>6, <1>7 DEF DupInv

LEMMA EndOfCursorDupInv ==
    ASSUME DupInv, end_of_cursor
    PROVE  DupInv'
<1>1. /\ tasks' \subseteq tasks
      /\ pending_messages' \subseteq pending_messages
      /\ job' = "cleanup" /\ cursor = {}
      /\ UNCHANGED <<admitted, cursor, held>>
  BY DEF end_of_cursor, Collect, Applied
<1>2. held = None
  BY DEF end_of_cursor, DupInv, ReturnFacts
<1>. QED
  BY <1>1, <1>2 DEF DupInv, OrphanFacts, ReturnFacts

(* The call returned with no pending row left: every unfinished task of    *)
(* it becomes an orphan whose row is gone.                                *)
LEMMA RetryDupInv ==
    ASSUME IInv, LostInv, DupInv, retry_messages_task
    PROVE  DupInv'
<1>1. /\ job = "return"
      /\ tasks' = {[t EXCEPT !.orphan = TRUE] : t \in tasks}
      /\ cursor' = {} /\ held' = None /\ job' = "count"
      /\ UNCHANGED <<pending_messages, admitted>>
  BY DEF retry_messages_task, Restart
<1>2. ASSUME NEW x \in tasks'
      PROVE  \E t \in tasks : x.row = t.row /\ x.phase = t.phase /\ x.orphan
  <2>1. PICK t \in tasks : x = [t EXCEPT !.orphan = TRUE]
    BY <1>1
  <2>2. t \in Task
    BY DEF IInv, TypeOK
  <2>. QED
    BY <2>1, <2>2 DEF Task
<1>3. \A t, u \in Live : t # u => t.row # u.row
  BY DEF LostInv, LiveFacts
<1>4. \A t \in tasks : t.row \in Rows
  BY DEF IInv, TypeOK, Task
<1>5. ASSUME NEW x \in tasks', Unfinished(x)
      PROVE  x.row \notin pending_messages' \cup cursor' /\ x.row # held'
  <2>1. PICK t \in tasks : x.row = t.row /\ x.phase = t.phase
    BY <1>2
  <2>2. Unfinished(t)
    BY <1>5, <2>1 DEF Unfinished
  <2>. QED
    BY <1>1, <1>4, <2>1, <2>2, NoneAssumption DEF DupInv, ReturnFacts
<1>6. ASSUME NEW x \in tasks', NEW y \in tasks', x # y, Unfinished(x), Unfinished(y)
      PROVE  x.row # y.row
  <2>1. PICK t \in tasks : x = [t EXCEPT !.orphan = TRUE]
    BY <1>1
  <2>2. PICK u \in tasks : y = [u EXCEPT !.orphan = TRUE]
    BY <1>1
  <2>3. t \in Task /\ u \in Task
    BY DEF IInv, TypeOK
  <2>4. /\ t # u
        /\ x.row = t.row /\ y.row = u.row
        /\ Unfinished(t) /\ Unfinished(u)
    BY <1>6, <2>1, <2>2, <2>3 DEF Task, Unfinished
  <2>5. CASE t.orphan /\ u.orphan
    BY <2>4, <2>5 DEF DupInv, OrphanFacts
  <2>6. CASE t.orphan /\ ~u.orphan
    BY <2>4, <2>6 DEF DupInv, OrphanFacts
  <2>7. CASE ~t.orphan /\ u.orphan
    BY <2>4, <2>7 DEF DupInv, OrphanFacts
  <2>8. CASE ~t.orphan /\ ~u.orphan
    BY <1>3, <2>4, <2>8 DEF Live
  <2>. QED
    BY <2>5, <2>6, <2>7, <2>8
<1>7. OrphanFacts'
  BY <1>1, <1>2, <1>5, <1>6 DEF DupInv, OrphanFacts
<1>8. ReturnFacts'
  BY <1>1 DEF ReturnFacts
<1>. QED
  BY <1>7, <1>8 DEF DupInv

(* With no loop exception (MaxLoopErrors = 0), DupInv is inductive.       *)
LEMMA NextDupInv ==
    ASSUME MaxLoopErrors = 0, IInv, LostInv, DupInv, [Next]_vars
    PROVE  DupInv'
<1>1. CASE \E r \in Rows : add_pending_row(r)
  BY <1>1, AddRowDupInv
<1>2. CASE TaskStep
  <2>1. PICK t \in tasks : acquire_semaphore(t) \/ incoming(t) \/ orphan_done(t)
    BY <1>2 DEF TaskStep, TaskOf
  <2>2. t \in Task
    BY DEF IInv, TypeOK
  <2>3. CASE acquire_semaphore(t)
    BY <2>2, <2>3, TaskStepDupInv DEF acquire_semaphore, Task, Unfinished
  <2>4. CASE incoming(t)
    <3>1. PICK res \in Results :
             tasks' = (tasks \ {t}) \cup {[t EXCEPT !.phase = "done", !.result = res]}
      BY <2>4 DEF incoming
    <3> DEFINE t2 == [t EXCEPT !.phase = "done", !.result = res]
    <3>2. UNCHANGED <<pending_messages, admitted, job, cursor, held>>
      BY <2>4 DEF incoming
    <3>3. t2.row = t.row /\ t2.orphan = t.orphan /\ ~Unfinished(t2)
      BY <2>2 DEF Task, Unfinished
    <3>. QED
      BY <3>1, <3>2, <3>3, TaskStepDupInv
  <2>5. CASE orphan_done(t)
    BY <2>5, TaskStepDupInv DEF orphan_done
  <2>. QED
    BY <2>1, <2>3, <2>4, <2>5
<1>3. CASE count_documents
  BY <1>3, CountDupInv
<1>4. CASE next_pending
  BY <1>4, NextPendingDupInv
<1>5. CASE wait_slot
  BY <1>5, WaitSlotDupInv
<1>6. CASE end_of_cursor
  BY <1>6, EndOfCursorDupInv
<1>7. CASE cleanup
  BY <1>7, CleanupDupInv
<1>8. CASE retry_messages_task
  BY <1>8, RetryDupInv
<1>9. CASE loop_raises
  BY <1>9 DEF loop_raises, IInv, TypeOK
<1>10. CASE UNCHANGED vars
  BY <1>10 DEF vars, DupInv, OrphanFacts, ReturnFacts
<1>. QED
  BY <1>1, <1>2, <1>3, <1>4, <1>5, <1>6, <1>7, <1>8, <1>9, <1>10 DEF Next, LoopStep

(* Two unfinished tasks are on two rows: two live ones have two keys, and *)
(* an orphan's row is apart from every other task's.                      *)
LEMMA DistinctRows ==
    ASSUME IInv, LostInv, DupInv
    PROVE  NoRowTwiceInFlight
<1> SUFFICES ASSUME NEW t \in tasks, NEW u \in tasks, t # u,
                    t.phase # "done", u.phase # "done"
             PROVE  t.row # u.row
  BY DEF NoRowTwiceInFlight
<1>1. CASE ~t.orphan /\ ~u.orphan
  <2>1. Key(t.row) # Key(u.row)
    BY <1>1 DEF LostInv, LiveFacts, Live
  <2>. QED
    BY <2>1
<1>2. CASE t.orphan \/ u.orphan
  BY <1>2 DEF DupInv, OrphanFacts, Unfinished
<1>. QED
  BY <1>1, <1>2

(* With no loop exception, IInv /\ LostInv /\ DupInv holds in every        *)
(* reachable state.                                                       *)
THEOREM InFlightInvariant ==
    ASSUME MaxLoopErrors = 0
    PROVE  Spec => [](IInv /\ LostInv /\ DupInv)
<1>1. Init => IInv /\ LostInv /\ DupInv
  BY InitIInv, InitLostInv, InitDupInv
<1>2. IInv /\ LostInv /\ DupInv /\ [Next]_vars => (IInv /\ LostInv /\ DupInv)'
  BY NextIInv, NextLostInv, NextDupInv
<1>. QED
  BY <1>1, <1>2, PTL DEF Spec

(* processing_messages keeps the tasks of one call of                    *)
(* process_pending_messages off each other's logical keys (spec 4.4), for *)
(* every value of the constants: rows that share a key, loop exceptions   *)
(* and restarts included.  The tasks of the call and the row it holds for *)
(* a slot all have their keys in processing_messages, and a key is added  *)
(* only when the skip finds it absent.                                    *)
THEOREM KeysApartInCall == Spec => []NoDuplicateInCall
<1>1. LostInv => NoDuplicateInCall
  BY DEF LostInv, LiveFacts, HeldFacts, NoDuplicateInCall, Key
<1>. QED
  BY <1>1, SafetyInvariant, PTL

(* When no await of process_pending_messages raises, no pending row is    *)
(* ever handled by two tasks at once, even though a call returns without  *)
(* awaiting its tasks (line 151) and rows may share a key: the tasks left *)
(* behind are on rows deleted for good.  Finding 2 shows that a loop      *)
(* exception breaks it: the new call starts a second task on a row whose  *)
(* first task still runs.                                                 *)
THEOREM NoRowTwiceWithoutErrors ==
    ASSUME MaxLoopErrors = 0
    PROVE  Spec => []NoRowTwiceInFlight
BY InFlightInvariant, DistinctRows, PTL

=============================================================================
