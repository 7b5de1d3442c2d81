------------------------ MODULE PendingMessagesSafety ------------------------
(***************************************************************************)
(* Proof that the pending-message job never loses a message: a parsable    *)
(* message whose rows have all left pending_messages has been processed or *)
(* rejected (NoLostMessage), for every value of the constants.             *)
(*                                                                         *)
(* NoLostMessage is not inductive.  A row leaves the collection when its   *)
(* task reports a duplicate, or when the high-water cleanup finds a lower  *)
(* height in seen_ids; in both cases the message is safe only because the  *)
(* row seen_ids points at is still pending.  A task's result is computed   *)
(* against seen_ids and applied later, and a cursor yields rows that may   *)
(* have been deleted since the find().  LostInv records what makes each of *)
(* these sound.                                                            *)
(***************************************************************************)
EXTENDS PendingMessagesProofs

USE MessagesAssumption, NoneAssumption

Key(r) == get_pending_message_id(r)

(* What the current call may assume of a row it no longer finds: its     *)
(* message is already processed or rejected, or seen_ids holds a lower    *)
(* height for its <<item, chain>>.                                        *)
Gone(r) == RowMsg[r] \in messages \cup rejected_messages \/ SeenDuplicate(r)

(* A pending, parsable row at the height seen_ids holds for k.            *)
SeenWitness(k) ==
    \E r \in pending_messages \ Unparsable :
        RowMsg[r] = k[1] /\ RowChain[r] = k[2] /\ RowHeight[r] = seen_ids[k]

ResultTables ==
    /\ pending_messages \subseteq admitted
    /\ messages \cap InvalidContent = {}
    /\ rejected_messages \subseteq InvalidContent

(* Every task, live or orphaned: its result matches its phase and its row. *)
TaskFacts ==
    \A t \in tasks :
        /\ (t.row \in Unparsable) = (t.result = "drop")
        /\ (t.phase = "done") = (t.result # None)
        /\ t.result = "committed" => RowMsg[t.row] \notin InvalidContent
        /\ t.result = "rejected" => RowMsg[t.row] \in InvalidContent

(* The tasks of this call: a duplicate or a vanished row is Gone, and     *)
(* processing_messages holds each task's key, no two tasks sharing one.   *)
LiveFacts ==
    /\ \A t \in Live :
          /\ t.result = "duplicate" => Gone(t.row)
          /\ t.row \notin pending_messages \cup Unparsable => Gone(t.row)
          /\ Key(t.row) \in processing_messages
    /\ \A t, u \in Live : t # u => Key(t.row) # Key(u.row)

CursorFacts == \A r \in cursor \ (pending_messages \cup Unparsable) : Gone(r)

HeldFacts ==
    held # None =>
        /\ job = "wait_slot"
        /\ held \notin pending_messages \cup Unparsable => Gone(held)
        /\ Key(held) \in processing_messages
        /\ \A t \in Live : Key(t.row) # Key(held)

(* A height in seen_ids was committed by a valid message, which is either *)
(* processed or still has its pending row at that height.                  *)
SeenFacts ==
    \A k \in SeenKeys : seen_ids[k] # None =>
        /\ k[1] \notin InvalidContent
        /\ k[1] \in messages \/ SeenWitness(k)

LostInv ==
    /\ NoLostMessage
    /\ ResultTables
    /\ TaskFacts
    /\ LiveFacts
    /\ CursorFacts
    /\ HeldFacts
    /\ SeenFacts

(* A step that keeps every seen height, possibly lowering it.             *)
SeenShrinks ==
    \A k \in SeenKeys :
        seen_ids[k] # None => seen_ids'[k] \in Nat /\ seen_ids'[k] <= seen_ids[k]

---------------------------------------------------------------------------
LEMMA RowKey ==
    ASSUME NEW r \in Rows, RowChain[r] # None
    PROVE  /\ <<RowMsg[r], RowChain[r]>> \in SeenKeys
           /\ RowHeight[r] \in Nat
BY DEF SeenKeys

(* Gone stays true while the tables only grow and seen_ids only shrinks.   *)
LEMMA GoneMono ==
    ASSUME TypeOK, NEW r \in Rows, Gone(r),
           messages \subseteq messages', rejected_messages \subseteq rejected_messages',
           SeenShrinks
    PROVE  Gone(r)'
<1>1. CASE RowMsg[r] \in messages \cup rejected_messages
  BY <1>1 DEF Gone
<1>2. CASE SeenDuplicate(r)
  <2>1. /\ <<RowMsg[r], RowChain[r]>> \in SeenKeys
        /\ RowHeight[r] \in Nat
        /\ seen_ids[<<RowMsg[r], RowChain[r]>>] \in Nat
    BY <1>2, RowKey DEF SeenDuplicate, TypeOK
  <2>. QED
    BY <1>2, <2>1 DEF SeenShrinks, SeenDuplicate, Gone
<1>. QED
  BY <1>1, <1>2 DEF Gone

LEMMA InitLostInv == Init => LostInv
BY DEF Init, LostInv, NoLostMessage, ResultTables, TaskFacts, LiveFacts, Live,
       CursorFacts, HeldFacts, SeenFacts

LEMMA AddRowLostInv ==
    ASSUME IInv, LostInv, NEW r \in Rows, add_pending_row(r)
    PROVE  LostInv'
<1>1. \A x \in Rows : Gone(x)' = Gone(x)
  BY DEF add_pending_row, Gone, SeenDuplicate
<1>2. ASSUME NEW k \in SeenKeys, SeenWitness(k) PROVE SeenWitness(k)'
  BY <1>2 DEF add_pending_row, SeenWitness
<1>3. Live' = Live
  BY DEF add_pending_row, Live
<1>4. NoLostMessage'
  BY DEF add_pending_row, LostInv, NoLostMessage
<1>5. (ResultTables /\ TaskFacts /\ SeenFacts)'
  BY <1>2 DEF add_pending_row, LostInv, ResultTables, TaskFacts, SeenFacts
<1>6. (LiveFacts /\ CursorFacts /\ HeldFacts)'
  <2>1. held \in Rows \cup {None} /\ cursor \subseteq Rows /\ \A t \in Live : t.row \in Rows
    BY DEF IInv, TypeOK, Live, Task
  <2>. QED
    BY <1>1, <1>3, <2>1 DEF add_pending_row, LostInv, LiveFacts, CursorFacts, HeldFacts
<1>. QED
  BY <1>4, <1>5, <1>6 DEF LostInv

LEMMA OrphanDoneLostInv ==
    ASSUME IInv, LostInv, NEW t \in tasks, orphan_done(t)
    PROVE  LostInv'
<1>1. Live' = Live
  BY DEF orphan_done, Live
<1>2. \A x \in Rows : Gone(x)' = Gone(x)
  BY DEF orphan_done, Gone, SeenDuplicate
<1>3. held \in Rows \cup {None} /\ cursor \subseteq Rows /\ \A u \in Live : u.row \in Rows
  BY DEF IInv, TypeOK, Live, Task
<1>. QED
  BY <1>1, <1>2, <1>3
  DEF orphan_done, LostInv, NoLostMessage, ResultTables, TaskFacts, LiveFacts,
      CursorFacts, HeldFacts, SeenFacts, SeenWitness

LEMMA CountLostInv ==
    ASSUME IInv, LostInv, count_documents
    PROVE  LostInv'
<1>1. Live' = Live
  BY DEF count_documents, Live
<1>2. \A x \in Rows : Gone(x)' = Gone(x)
  BY DEF count_documents, Gone, SeenDuplicate
<1>3. held = None /\ held' = None
  BY DEF count_documents, LostInv, HeldFacts
<1>4. \A u \in Live : u.row \in Rows
  BY DEF IInv, TypeOK, Live, Task
<1>5. CursorFacts'
  <2>1. CASE cursor' = pending_messages
    BY <2>1 DEF count_documents, CursorFacts
  <2>2. CASE UNCHANGED cursor
    BY <1>2, <2>2 DEF count_documents, LostInv, CursorFacts, IInv, TypeOK
  <2>. QED
    BY <2>1, <2>2 DEF count_documents
<1>6. (LiveFacts /\ HeldFacts)'
  BY <1>1, <1>2, <1>3, <1>4 DEF count_documents, LostInv, LiveFacts, HeldFacts
<1>. QED
  BY <1>5, <1>6
  DEF count_documents, LostInv, NoLostMessage, ResultTables, TaskFacts,
      SeenFacts, SeenWitness

(* The sweep deletes only rows above the height seen_ids holds, so the    *)
(* row seen_ids points at stays, and with it the message.                 *)
LEMMA CleanupLostInv ==
    ASSUME IInv, LostInv, cleanup
    PROVE  LostInv'
<1>1. pending_messages' \subseteq pending_messages
      /\ \A r \in pending_messages \ pending_messages' : SeenDuplicate(r)
  BY DEF cleanup
<1>2. \A x \in Rows : Gone(x)' = Gone(x)
  BY DEF cleanup, Gone, SeenDuplicate
<1>3. \A x \in pending_messages \ pending_messages' : Gone(x)
  BY <1>1 DEF Gone
<1>4. ASSUME NEW k \in SeenKeys, SeenWitness(k) PROVE SeenWitness(k)'
  <2>1. PICK r \in pending_messages \ Unparsable :
          RowMsg[r] = k[1] /\ RowChain[r] = k[2] /\ RowHeight[r] = seen_ids[k]
    BY <1>4 DEF SeenWitness
  <2>2. ~SeenDuplicate(r)
    <3>1. k = <<RowMsg[r], RowChain[r]>> /\ r \in Rows /\ RowChain[r] # None
      BY <2>1 DEF SeenKeys, IInv, TypeOK
    <3>2. RowHeight[r] \in Nat
      BY <3>1, RowKey
    <3>. QED
      BY <2>1, <3>1, <3>2 DEF SeenDuplicate
  <2>3. r \in pending_messages'
    BY <1>1, <2>1, <2>2
  <2>. QED
    BY <2>1, <2>3 DEF SeenWitness, cleanup
<1>5. SeenFacts'
  BY <1>4 DEF LostInv, SeenFacts, cleanup
<1>6. NoLostMessage'
  <2> SUFFICES ASSUME NEW m \in Msgs,
                      NEW r0 \in admitted \ Unparsable, RowMsg[r0] = m,
                      {r \in admitted \ Unparsable : RowMsg[r] = m} \cap pending_messages' = {}
               PROVE  m \in messages \cup rejected_messages
    BY DEF NoLostMessage, cleanup
  <2>1. CASE {r \in admitted \ Unparsable : RowMsg[r] = m} \cap pending_messages = {}
    BY <2>1 DEF LostInv, NoLostMessage
  <2>2. CASE \E r \in pending_messages \ pending_messages' : r \notin Unparsable /\ RowMsg[r] = m
    <3>1. PICK r \in pending_messages \ pending_messages' : r \notin Unparsable /\ RowMsg[r] = m
      BY <2>2
    <3>2. SeenDuplicate(r)
      BY <1>1, <3>1
    <3>3. r \in Rows /\ RowChain[r] # None
      BY <3>2 DEF SeenDuplicate, IInv, TypeOK
    <3>4. <<m, RowChain[r]>> \in SeenKeys /\ seen_ids[<<m, RowChain[r]>>] # None
      BY <3>1, <3>2, <3>3, RowKey DEF SeenDuplicate
    <3>5. CASE m \in messages
      BY <3>5
    <3>6. CASE SeenWitness(<<m, RowChain[r]>>)
      <4>1. SeenWitness(<<m, RowChain[r]>>)'
        BY <3>4, <3>6, <1>4
      <4>2. PICK w \in pending_messages' \ Unparsable : RowMsg[w] = m
        BY <4>1 DEF SeenWitness
      <4>3. w \in admitted
        BY <1>1, <4>2 DEF LostInv, ResultTables
      <4>. QED
        BY <4>2, <4>3
    <3>. QED
      BY <3>4, <3>5, <3>6 DEF LostInv, SeenFacts
  <2>. QED
    BY <2>1, <2>2, <1>1
<1>7. held \in Rows \cup {None} /\ cursor \subseteq Rows /\ \A u \in Live : u.row \in Rows
  BY DEF IInv, TypeOK, Live, Task
<1>8. Live' = Live
  BY DEF cleanup, Live
<1>9. (LiveFacts /\ CursorFacts /\ HeldFacts)'
  BY <1>2, <1>3, <1>7, <1>8 DEF cleanup, LostInv, LiveFacts, CursorFacts, HeldFacts
<1>10. (ResultTables /\ TaskFacts)'
  BY <1>1 DEF cleanup, LostInv, ResultTables, TaskFacts
<1>. QED
  BY <1>5, <1>6, <1>9, <1>10 DEF LostInv

(* A restart empties the call's state: only the tables and the orphans    *)
(* remain, and nothing in NoLostMessage depends on the lost window.       *)
LEMMA RestartLostInv ==
    ASSUME IInv, LostInv, Restart
    PROVE  LostInv'
<1>1. Live' = {}
  BY DEF IInv, TypeOK, Task, Restart, Live
<1>2. ASSUME NEW t \in tasks PROVE
        /\ [t EXCEPT !.orphan = TRUE].row = t.row
        /\ [t EXCEPT !.orphan = TRUE].phase = t.phase
        /\ [t EXCEPT !.orphan = TRUE].result = t.result
  <2>1. t \in Task
    BY DEF IInv, TypeOK
  <2>. QED
    BY <2>1 DEF Task
<1>3. TaskFacts'
  <2> SUFFICES ASSUME NEW t2 \in tasks'
               PROVE  /\ (t2.row \in Unparsable) = (t2.result = "drop")
                      /\ (t2.phase = "done") = (t2.result # None)
                      /\ t2.result = "committed" => RowMsg[t2.row] \notin InvalidContent
                      /\ t2.result = "rejected" => RowMsg[t2.row] \in InvalidContent
    BY DEF TaskFacts
  <2>1. PICK t \in tasks : t2 = [t EXCEPT !.orphan = TRUE]
    BY DEF Restart
  <2>. QED
    BY <1>2, <2>1 DEF LostInv, TaskFacts
<1>. QED
  BY <1>1, <1>3
  DEF Restart, LostInv, NoLostMessage, ResultTables, LiveFacts, CursorFacts,
      HeldFacts, SeenFacts

(* A task that changes phase stays live or orphaned as it was.            *)
LEMMA LiveReplace ==
    ASSUME NEW t \in tasks, NEW t2, t2.orphan = t.orphan,
           tasks' = (tasks \ {t}) \cup {t2}
    PROVE  /\ \A u \in Live' : u = t2 \/ (u \in Live /\ u # t)
           /\ t2 \in Live' => t \in Live
BY DEF Live

(* Replacing a task by one on the same row keeps the live keys distinct.  *)
LEMMA LiveKeysReplace ==
    ASSUME LiveFacts, NEW t \in tasks, NEW t2, t2.orphan = t.orphan, t2.row = t.row,
           tasks' = (tasks \ {t}) \cup {t2}
    PROVE  \A u, v \in Live' : u # v => Key(u.row) # Key(v.row)
<1> SUFFICES ASSUME NEW u \in Live', NEW v \in Live', u # v
             PROVE  Key(u.row) # Key(v.row)
  OBVIOUS
<1>1. \A w \in Live' : w = t2 \/ (w \in Live /\ w # t)
  BY LiveReplace
<1>2. t2 \in Live' => t \in Live
  BY LiveReplace
<1>3. CASE u # t2 /\ v # t2
  BY <1>1, <1>3 DEF LiveFacts
<1>4. CASE u = t2
  <2>1. t \in Live /\ v \in Live /\ v # t
    BY <1>1, <1>2, <1>4
  <2>. QED
    BY <1>4, <2>1 DEF LiveFacts
<1>5. CASE v = t2
  <2>1. t \in Live /\ u \in Live /\ u # t
    BY <1>1, <1>2, <1>5
  <2>. QED
    BY <1>5, <2>1 DEF LiveFacts
<1>. QED
  BY <1>3, <1>4, <1>5

LEMMA AcquireLostInv ==
    ASSUME IInv, LostInv, NEW t \in tasks, acquire_semaphore(t)
    PROVE  LostInv'
<1> DEFINE t2 == [t EXCEPT !.phase = "run"]
<1>1. t \in Task
  BY DEF IInv, TypeOK
<1>2. t2.row = t.row /\ t2.result = t.result /\ t2.orphan = t.orphan /\ t2.phase = "run"
  BY <1>1 DEF Task
<1>3. t.result = None
  BY <1>1 DEF acquire_semaphore, LostInv, TaskFacts
<1>4. tasks' = (tasks \ {t}) \cup {t2}
  BY DEF acquire_semaphore
<1>5. \A u \in Live' : u = t2 \/ (u \in Live /\ u # t)
  BY <1>2, <1>4, LiveReplace
<1>6. t2 \in Live' => t \in Live
  BY <1>2, <1>4, LiveReplace
<1>7. \A x \in Rows : Gone(x)' = Gone(x)
  BY DEF acquire_semaphore, Gone, SeenDuplicate
<1>8. t.row \in Rows /\ \A u \in Live : u.row \in Rows
  BY <1>1 DEF IInv, TypeOK, Live, Task
<1>9. TaskFacts'
  <2> SUFFICES ASSUME NEW u \in tasks'
               PROVE  /\ (u.row \in Unparsable) = (u.result = "drop")
                      /\ (u.phase = "done") = (u.result # None)
                      /\ u.result = "committed" => RowMsg[u.row] \notin InvalidContent
                      /\ u.result = "rejected" => RowMsg[u.row] \in InvalidContent
    BY DEF TaskFacts
  <2>1. CASE u = t2
    BY <1>2, <1>3, <2>1 DEF LostInv, TaskFacts
  <2>2. CASE u \in tasks
    BY <2>2 DEF LostInv, TaskFacts
  <2>. QED
    BY <1>4, <2>1, <2>2
<1>10. LiveFacts'
  <2>1. ASSUME NEW u \in Live'
        PROVE  /\ u.result = "duplicate" => Gone(u.row)'
               /\ u.row \notin pending_messages' \cup Unparsable => Gone(u.row)'
               /\ Key(u.row) \in processing_messages'
    BY <1>2, <1>5, <1>6, <1>7, <1>8 DEF LostInv, LiveFacts, acquire_semaphore
  <2>2. \A u, v \in Live' : u # v => Key(u.row) # Key(v.row)
    BY <1>2, <1>4, LiveKeysReplace DEF LostInv
  <2>. QED
    BY <2>1, <2>2 DEF LiveFacts
<1>11. HeldFacts'
  BY <1>2, <1>5, <1>6, <1>7 DEF LostInv, HeldFacts, acquire_semaphore, IInv, TypeOK
<1>. QED
  BY <1>7, <1>9, <1>10, <1>11, <1>8
  DEF acquire_semaphore, LostInv, NoLostMessage, ResultTables, CursorFacts,
      SeenFacts, SeenWitness, IInv, TypeOK

(* `incoming`: the result it reports, and what each says of the message.  *)
LEMMA IncomingResult ==
    ASSUME NEW r \in Rows, NEW res \in Results,
           CASE RowMsg[r] \in messages \/ SeenDuplicate(r) -> res = "duplicate"
             [] RowMsg[r] \in InvalidContent -> res \in {"rejected", "retry", "error"}
             [] OTHER -> res \in {"committed", "retry", "error"}
    PROVE  /\ res # "drop"
           /\ res = "duplicate" => (RowMsg[r] \in messages \/ SeenDuplicate(r))
           /\ res = "committed" => /\ RowMsg[r] \notin messages
                                   /\ ~SeenDuplicate(r)
                                   /\ RowMsg[r] \notin InvalidContent
           /\ res = "rejected" => RowMsg[r] \in InvalidContent
<1>1. CASE RowMsg[r] \in messages \/ SeenDuplicate(r)
  BY <1>1
<1>2. CASE ~(RowMsg[r] \in messages \/ SeenDuplicate(r)) /\ RowMsg[r] \in InvalidContent
  BY <1>2
<1>3. CASE ~(RowMsg[r] \in messages \/ SeenDuplicate(r)) /\ RowMsg[r] \notin InvalidContent
  BY <1>3
<1>. QED
  BY <1>1, <1>2, <1>3

(* A committed height replaces the one seen_ids holds only if it is lower. *)
LEMMA SeenAfterShrinks ==
    ASSUME TypeOK, NEW r \in Rows, seen_ids' = SeenAfter(r)
    PROVE  /\ SeenShrinks
           /\ \A k \in SeenKeys : seen_ids'[k] = seen_ids[k]
                 \/ (RowChain[r] # None /\ k = <<RowMsg[r], RowChain[r]>>
                     /\ seen_ids'[k] = RowHeight[r])
<1>1. CASE RowChain[r] = None
  BY <1>1 DEF SeenAfter, SeenShrinks, TypeOK
<1>2. CASE RowChain[r] # None
  <2>1. <<RowMsg[r], RowChain[r]>> \in SeenKeys /\ RowHeight[r] \in Nat
    BY <1>2, RowKey
  <2>. QED
    BY <1>2, <2>1 DEF SeenAfter, SeenShrinks, TypeOK
<1>. QED
  BY <1>1, <1>2

(* `incoming` reports a result.  A live task that commits may lower the   *)
(* height seen_ids holds; its own row, still pending, becomes the witness. *)
LEMMA IncomingLostInv ==
    ASSUME IInv, LostInv, NEW t \in tasks, incoming(t)
    PROVE  LostInv'
<1> DEFINE r == t.row
<1>1. t \in Task /\ r \in Rows /\ t.phase = "run"
  BY DEF IInv, TypeOK, Task, incoming
<1>2. t.result = None /\ r \notin Unparsable
  <2>1. t.result = None
    BY <1>1 DEF LostInv, TaskFacts
  <2>2. None # "drop"
    BY DEF Results
  <2>. QED
    BY <2>1, <2>2 DEF LostInv, TaskFacts
<1>3. PICK res \in Results :
        /\ CASE RowMsg[r] \in messages \/ SeenDuplicate(r) -> res = "duplicate"
             [] RowMsg[r] \in InvalidContent -> res \in {"rejected", "retry", "error"}
             [] OTHER -> res \in {"committed", "retry", "error"}
        /\ tasks' = (tasks \ {t}) \cup {[t EXCEPT !.phase = "done", !.result = res]}
        /\ seen_ids' = IF res = "committed" /\ ~t.orphan THEN SeenAfter(r)
                       ELSE seen_ids
  BY DEF incoming
<1> DEFINE t2 == [t EXCEPT !.phase = "done", !.result = res]
<1>4. t2.row = r /\ t2.orphan = t.orphan /\ t2.phase = "done" /\ t2.result = res
  BY <1>1 DEF Task
<1>5. /\ res # "drop"
      /\ res = "duplicate" => (RowMsg[r] \in messages \/ SeenDuplicate(r))
      /\ res = "committed" => /\ RowMsg[r] \notin messages
                              /\ ~SeenDuplicate(r)
                              /\ RowMsg[r] \notin InvalidContent
      /\ res = "rejected" => RowMsg[r] \in InvalidContent
  BY <1>1, <1>3, IncomingResult
<1>6. UNCHANGED <<pending_messages, admitted, messages, rejected_messages, cursor,
                  held, processing_messages, job>>
  BY DEF incoming
<1>7. SeenShrinks
  <2>1. CASE seen_ids' = seen_ids
    BY <2>1 DEF SeenShrinks, IInv, TypeOK
  <2>2. CASE seen_ids' = SeenAfter(r)
    BY <1>1, <2>2, SeenAfterShrinks DEF IInv
  <2>. QED
    BY <1>3, <2>1, <2>2
<1>8. \A x \in Rows : Gone(x) => Gone(x)'
  BY <1>6, <1>7, GoneMono DEF IInv
<1>9. \A u \in Live' : u = t2 \/ (u \in Live /\ u # t)
  BY <1>3, <1>4, LiveReplace
<1>10. t2 \in Live' => t \in Live
  BY <1>3, <1>4, LiveReplace
<1>11. \A u \in Live : u.row \in Rows
  BY DEF IInv, TypeOK, Live, Task
<1>12. TaskFacts'
  <2> SUFFICES ASSUME NEW u \in tasks'
               PROVE  /\ (u.row \in Unparsable) = (u.result = "drop")
                      /\ (u.phase = "done") = (u.result # None)
                      /\ u.result = "committed" => RowMsg[u.row] \notin InvalidContent
                      /\ u.result = "rejected" => RowMsg[u.row] \in InvalidContent
    BY DEF TaskFacts
  <2>1. CASE u = t2
    BY <1>2, <1>4, <1>5, <2>1 DEF Results
  <2>2. CASE u \in tasks
    BY <2>2 DEF LostInv, TaskFacts
  <2>. QED
    BY <1>3, <2>1, <2>2
<1>13. LiveFacts'
  <2>1. ASSUME NEW u \in Live'
        PROVE  /\ u.result = "duplicate" => Gone(u.row)'
               /\ u.row \notin pending_messages' \cup Unparsable => Gone(u.row)'
               /\ Key(u.row) \in processing_messages'
    <3>1. CASE u = t2
      <4>1. t \in Live
        BY <1>10, <3>1
      <4>2. res = "duplicate" => Gone(r)
        BY <1>5 DEF Gone
      <4>. QED
        BY <1>1, <1>4, <1>6, <1>8, <3>1, <4>1, <4>2 DEF LostInv, LiveFacts
    <3>2. CASE u \in Live
      BY <1>6, <1>8, <1>11, <3>2 DEF LostInv, LiveFacts
    <3>. QED
      BY <1>9, <3>1, <3>2
  <2>2. \A u, v \in Live' : u # v => Key(u.row) # Key(v.row)
    BY <1>3, <1>4, LiveKeysReplace DEF LostInv
  <2>. QED
    BY <2>1, <2>2 DEF LiveFacts
<1>14. CursorFacts'
  BY <1>6, <1>8 DEF LostInv, CursorFacts, IInv, TypeOK
<1>15. HeldFacts'
  <2>1. ASSUME NEW u \in Live' PROVE Key(u.row) # Key(held) \/ held = None
    <3>1. CASE u = t2
      BY <1>4, <1>10, <3>1 DEF LostInv, HeldFacts
    <3>2. CASE u \in Live
      BY <3>2 DEF LostInv, HeldFacts
    <3>. QED
      BY <1>9, <3>1, <3>2
  <2>. QED
    BY <1>6, <1>8, <2>1 DEF LostInv, HeldFacts, IInv, TypeOK
<1>16. SeenFacts'
  <2> SUFFICES ASSUME NEW k \in SeenKeys, seen_ids'[k] # None
               PROVE  /\ k[1] \notin InvalidContent
                      /\ k[1] \in messages' \/ SeenWitness(k)'
    BY DEF SeenFacts
  <2>1. CASE seen_ids'[k] = seen_ids[k]
    <3>1. SeenWitness(k) => SeenWitness(k)'
      BY <1>6, <2>1 DEF SeenWitness
    <3>. QED
      BY <1>6, <2>1, <3>1 DEF LostInv, SeenFacts
  <2>2. CASE seen_ids'[k] # seen_ids[k]
    <3>1. res = "committed" /\ seen_ids' = SeenAfter(r)
      BY <1>3, <2>2
    <3>2. RowChain[r] # None /\ k = <<RowMsg[r], RowChain[r]>> /\ seen_ids'[k] = RowHeight[r]
      BY <1>1, <2>2, <3>1, SeenAfterShrinks DEF IInv
    <3>3. RowMsg[r] \notin messages /\ ~SeenDuplicate(r) /\ RowMsg[r] \notin InvalidContent
      BY <1>5, <3>1
    <3>4. RowMsg[r] \notin rejected_messages
      BY <3>3 DEF LostInv, ResultTables
    <3>5. t \in Live
      BY <1>3, <2>2, <3>1 DEF Live
    <3>6. r \in pending_messages
      BY <1>2, <3>3, <3>4, <3>5 DEF LostInv, LiveFacts, Gone
    <3>. QED
      BY <1>2, <1>6, <3>2, <3>3, <3>6 DEF SeenWitness
  <2>. QED
    BY <2>1, <2>2
<1>. QED
  BY <1>6, <1>12, <1>13, <1>14, <1>15, <1>16
  DEF LostInv, NoLostMessage, ResultTables

(* The rows a collection deletes are Gone afterwards: their task committed *)
(* or rejected the message, or reported a duplicate that seen_ids still    *)
(* justifies.  Parsable rows only: an unparsable row's task drops it.      *)
LEMMA CollectDeletesGone ==
    ASSUME IInv, LostInv, Collect, UNCHANGED seen_ids
    PROVE  /\ messages \subseteq messages' /\ rejected_messages \subseteq rejected_messages'
           /\ pending_messages' \subseteq pending_messages
           /\ \A x \in pending_messages \ pending_messages' : x \notin Unparsable => Gone(x)'
<1>1. messages \subseteq messages' /\ rejected_messages \subseteq rejected_messages'
      /\ pending_messages' \subseteq pending_messages
  BY DEF Collect, Applied
<1>2. SeenShrinks
  BY DEF SeenShrinks, IInv, TypeOK
<1>3. ASSUME NEW x \in pending_messages \ pending_messages', x \notin Unparsable
      PROVE  Gone(x)'
  <2>1. PICK t \in Finished : t.row = x /\ t.result \notin {"retry", "error"}
    BY <1>3 DEF Collect, Applied
  <2>2. t \in Live /\ t \in tasks /\ t \in Task /\ t.phase = "done" /\ x \in Rows
    BY <2>1 DEF Finished, Live, IInv, TypeOK, Task
  <2>3. t.result \in Results
    BY <2>2 DEF LostInv, TaskFacts, Task
  <2>4. CASE t.result = "committed"
    BY <2>1, <2>4 DEF Collect, Applied, Gone
  <2>5. CASE t.result = "rejected"
    BY <2>1, <2>4, <2>5 DEF Collect, Applied, Gone
  <2>6. CASE t.result = "duplicate"
    <3>1. Gone(x)
      BY <2>1, <2>2, <2>6 DEF LostInv, LiveFacts
    <3>. QED
      BY <1>1, <1>2, <2>2, <3>1, GoneMono DEF IInv
  <2>7. CASE t.result = "drop"
    BY <1>3, <2>1, <2>2, <2>7 DEF LostInv, TaskFacts
  <2>. QED
    BY <2>1, <2>3, <2>4, <2>5, <2>6, <2>7 DEF Results
<1>. QED
  BY <1>1, <1>3

(* After a collection the tables, the seen heights and NoLostMessage hold. *)
LEMMA CollectTables ==
    ASSUME IInv, LostInv, Collect, UNCHANGED <<admitted, seen_ids>>
    PROVE  (NoLostMessage /\ ResultTables /\ SeenFacts)'
<1>1. /\ messages \subseteq messages' /\ rejected_messages \subseteq rejected_messages'
      /\ pending_messages' \subseteq pending_messages
      /\ \A x \in pending_messages \ pending_messages' : x \notin Unparsable => Gone(x)'
  BY CollectDeletesGone
<1>2. ResultTables'
  <2>1. ASSUME NEW t \in Finished PROVE
          /\ t.result = "committed" => RowMsg[t.row] \notin InvalidContent
          /\ t.result = "rejected" => RowMsg[t.row] \in InvalidContent
    BY DEF Finished, Live, LostInv, TaskFacts
  <2>. QED
    BY <1>1, <2>1 DEF Collect, Applied, LostInv, ResultTables
<1>3. SeenFacts'
  <2> SUFFICES ASSUME NEW k \in SeenKeys, seen_ids[k] # None
               PROVE  /\ k[1] \notin InvalidContent
                      /\ k[1] \in messages' \/ SeenWitness(k)'
    BY DEF SeenFacts
  <2>1. k[1] \notin InvalidContent /\ (k[1] \in messages \/ SeenWitness(k))
    BY DEF LostInv, SeenFacts
  <2>2. CASE k[1] \in messages
    BY <1>1, <2>1, <2>2
  <2>3. CASE SeenWitness(k)
    <3>1. PICK w \in pending_messages \ Unparsable :
            RowMsg[w] = k[1] /\ RowChain[w] = k[2] /\ RowHeight[w] = seen_ids[k]
      BY <2>3 DEF SeenWitness
    <3>2. CASE w \in pending_messages'
      BY <2>1, <3>1, <3>2 DEF SeenWitness
    <3>3. CASE w \notin pending_messages'
      <4>1. Gone(w)'
        BY <1>1, <3>1, <3>3
      <4>2. k = <<RowMsg[w], RowChain[w]>> /\ w \in Rows
        BY <3>1 DEF SeenKeys, IInv, TypeOK
      <4>3. ~SeenDuplicate(w)'
        BY <3>1, <4>2 DEF SeenDuplicate
      <4>4. RowMsg[w] \notin rejected_messages'
        BY <1>2, <2>1, <3>1 DEF ResultTables
      <4>. QED
        BY <2>1, <3>1, <4>1, <4>3, <4>4 DEF Gone
    <3>. QED
      BY <3>2, <3>3
  <2>. QED
    BY <2>1, <2>2, <2>3
<1>4. NoLostMessage'
  <2> SUFFICES ASSUME NEW m \in Msgs,
                      NEW r0 \in admitted \ Unparsable, RowMsg[r0] = m,
                      {r \in admitted \ Unparsable : RowMsg[r] = m} \cap pending_messages' = {}
               PROVE  m \in messages' \cup rejected_messages'
    BY DEF NoLostMessage, Collect
  <2>1. CASE {r \in admitted \ Unparsable : RowMsg[r] = m} \cap pending_messages = {}
    BY <1>1, <2>1 DEF LostInv, NoLostMessage
  <2>2. CASE \E r \in pending_messages \ pending_messages' : r \notin Unparsable /\ RowMsg[r] = m
    <3>1. PICK r \in pending_messages \ pending_messages' : r \notin Unparsable /\ RowMsg[r] = m
      BY <2>2
    <3>2. Gone(r)'
      BY <1>1, <3>1
    <3>3. CASE SeenDuplicate(r)'
      <4>1. r \in Rows /\ RowChain[r] # None
        BY <3>3 DEF SeenDuplicate, IInv, TypeOK
      <4>2. <<m, RowChain[r]>> \in SeenKeys /\ seen_ids[<<m, RowChain[r]>>] # None
        BY <3>1, <3>3, <4>1, RowKey DEF SeenDuplicate
      <4>3. m \in messages' \/ SeenWitness(<<m, RowChain[r]>>)'
        BY <1>3, <4>2 DEF SeenFacts
      <4>4. CASE SeenWitness(<<m, RowChain[r]>>)'
        <5>1. PICK w \in pending_messages' \ Unparsable : RowMsg[w] = m
          BY <4>4 DEF SeenWitness
        <5>2. w \in admitted
          BY <1>1, <5>1 DEF LostInv, ResultTables
        <5>. QED
          BY <5>1, <5>2
      <4>. QED
        BY <4>3, <4>4
    <3>. QED
      BY <3>1, <3>2, <3>3 DEF Gone
  <2>. QED
    BY <2>1, <2>2, <1>1
<1>. QED
  BY <1>2, <1>3, <1>4

(* A new task: a refused row's task is done with its drop, any other      *)
(* waits for the semaphore with no result yet.                            *)
LEMMA NewTaskFacts ==
    ASSUME NEW r \in Rows
    PROVE  /\ NewTask(r).row = r /\ ~NewTask(r).orphan
           /\ (NewTask(r).row \in Unparsable) = (NewTask(r).result = "drop")
           /\ (NewTask(r).phase = "done") = (NewTask(r).result # None)
           /\ NewTask(r).result \notin {"committed", "rejected", "duplicate"}
<1>1. None \notin {"drop", "committed", "rejected", "duplicate"}
  BY DEF Results
<1>2. CASE r \in Unparsable
  BY <1>1, <1>2 DEF NewTask
<1>3. CASE r \notin Unparsable
  BY <1>1, <1>3 DEF NewTask
<1>. QED
  BY <1>2, <1>3

(* The cursor yields a row: skipped if its key is in flight, else marked  *)
(* and started now, or held until a slot frees.                           *)
LEMMA NextPendingLostInv ==
    ASSUME IInv, LostInv, next_pending
    PROVE  LostInv'
<1>1. PICK r \in cursor :
        /\ cursor' = cursor \ {r}
        /\ \/ /\ Key(r) \in processing_messages
              /\ UNCHANGED <<processing_messages, tasks, held, job>>
           \/ /\ Key(r) \notin processing_messages
              /\ processing_messages' = processing_messages \cup {Key(r)}
              /\ \/ /\ Cardinality(Live) < MaxConcurrency
                    /\ tasks' = tasks \cup {NewTask(r)}
                    /\ UNCHANGED <<held, job>>
                 \/ /\ Cardinality(Live) = MaxConcurrency
                    /\ held' = r
                    /\ job' = "wait_slot"
                    /\ UNCHANGED tasks
  BY DEF next_pending, Key
<1>2. UNCHANGED <<pending_messages, admitted, messages, rejected_messages, seen_ids>>
  BY DEF next_pending
<1>3. r \in Rows /\ held = None /\ \A u \in Live : u.row \in Rows
  BY DEF IInv, TypeOK, next_pending, LostInv, HeldFacts, Live, Task
<1>4. \A x \in Rows : Gone(x)' = Gone(x)
  BY <1>2 DEF Gone, SeenDuplicate
<1>5. r \notin pending_messages \cup Unparsable => Gone(r)
  BY DEF LostInv, CursorFacts
<1>6. (NoLostMessage /\ ResultTables /\ SeenFacts /\ CursorFacts)'
  BY <1>1, <1>2, <1>4
  DEF LostInv, NoLostMessage, ResultTables, SeenFacts, SeenWitness, CursorFacts, IInv, TypeOK
<1>7. CASE UNCHANGED <<processing_messages, tasks, held, job>>
  <2>1. Live' = Live
    BY <1>7 DEF Live
  <2>2. LiveFacts'
    BY <1>2, <1>3, <1>4, <1>7, <2>1 DEF LostInv, LiveFacts
  <2>3. (TaskFacts /\ HeldFacts)'
    BY <1>3, <1>7 DEF LostInv, TaskFacts, HeldFacts
  <2>. QED
    BY <1>6, <2>2, <2>3 DEF LostInv
<1>8. CASE /\ Key(r) \notin processing_messages
           /\ processing_messages' = processing_messages \cup {Key(r)}
           /\ tasks' = tasks \cup {NewTask(r)}
           /\ UNCHANGED <<held, job>>
  <2>1. Live' = Live \cup {NewTask(r)}
    BY <1>3, <1>8, NewTaskFacts DEF Live
  <2>2. \A u \in Live : Key(u.row) \in processing_messages
    BY DEF LostInv, LiveFacts
  <2>3. TaskFacts'
    BY <1>3, <1>8, NewTaskFacts DEF LostInv, TaskFacts
  <2>4. ASSUME NEW u \in Live'
        PROVE  /\ u.result = "duplicate" => Gone(u.row)'
               /\ u.row \notin pending_messages' \cup Unparsable => Gone(u.row)'
               /\ Key(u.row) \in processing_messages'
    <3>1. CASE u = NewTask(r)
      BY <1>2, <1>3, <1>4, <1>5, <1>8, <3>1, NewTaskFacts
    <3>2. CASE u \in Live
      BY <1>2, <1>3, <1>4, <1>8, <3>2 DEF LostInv, LiveFacts
    <3>. QED
      BY <2>1, <3>1, <3>2
  <2>5. ASSUME NEW u \in Live', NEW v \in Live', u # v PROVE Key(u.row) # Key(v.row)
    <3>1. CASE u \in Live /\ v \in Live
      BY <3>1, <2>5 DEF LostInv, LiveFacts
    <3>2. CASE u = NewTask(r) /\ v \in Live
      BY <1>3, <1>8, <2>2, <3>2, NewTaskFacts
    <3>3. CASE v = NewTask(r) /\ u \in Live
      BY <1>3, <1>8, <2>2, <3>3, NewTaskFacts
    <3>. QED
      BY <2>1, <2>5, <3>1, <3>2, <3>3
  <2>. QED
    BY <1>3, <1>6, <1>8, <2>3, <2>4, <2>5 DEF LostInv, LiveFacts, HeldFacts
<1>9. CASE /\ Key(r) \notin processing_messages
           /\ processing_messages' = processing_messages \cup {Key(r)}
           /\ held' = r
           /\ job' = "wait_slot"
           /\ UNCHANGED tasks
  <2>1. Live' = Live
    BY <1>9 DEF Live
  <2>2. \A u \in Live : Key(u.row) \in processing_messages
    BY DEF LostInv, LiveFacts
  <2>3. HeldFacts'
    BY <1>2, <1>3, <1>4, <1>5, <1>9, <2>1, <2>2 DEF HeldFacts
  <2>4. LiveFacts'
    BY <1>2, <1>3, <1>4, <1>9, <2>1 DEF LostInv, LiveFacts
  <2>. QED
    BY <1>6, <1>9, <2>3, <2>4 DEF LostInv, TaskFacts
<1>. QED
  BY <1>1, <1>7, <1>8, <1>9

(* A task that is not collected keeps its key, which no collected task    *)
(* shares; the held row's key is not collected either.                    *)
LEMMA CollectKeys ==
    ASSUME LostInv, Collect
    PROVE  /\ \A u \in Live \ Finished : Key(u.row) \in processing_messages'
           /\ held # None => Key(held) \in processing_messages'
<1>1. processing_messages' = processing_messages \ {Key(f.row) : f \in Finished}
  BY DEF Collect, Key
<1>2. Finished \subseteq Live
  BY DEF Finished
<1>3. ASSUME NEW u \in Live \ Finished PROVE Key(u.row) \in processing_messages'
  <2>1. \A f \in Finished : Key(f.row) # Key(u.row)
    BY <1>2, <1>3 DEF LostInv, LiveFacts
  <2>. QED
    BY <1>1, <1>3, <2>1 DEF LostInv, LiveFacts
<1>4. held # None => Key(held) \in processing_messages'
  BY <1>1, <1>2 DEF LostInv, HeldFacts
<1>. QED
  BY <1>3, <1>4

(* The live tasks that stay after a collection keep their facts.           *)
LEMMA CollectLiveStays ==
    ASSUME IInv, LostInv, Collect, UNCHANGED seen_ids, NEW u \in Live \ Finished
    PROVE  /\ u.result = "duplicate" => Gone(u.row)'
           /\ u.row \notin pending_messages' \cup Unparsable => Gone(u.row)'
           /\ Key(u.row) \in processing_messages'
<1>1. /\ messages \subseteq messages' /\ rejected_messages \subseteq rejected_messages'
      /\ pending_messages' \subseteq pending_messages
      /\ \A x \in pending_messages \ pending_messages' : x \notin Unparsable => Gone(x)'
  BY CollectDeletesGone
<1>2. SeenShrinks /\ u.row \in Rows
  BY DEF SeenShrinks, IInv, TypeOK, Live, Task
<1>3. Gone(u.row) => Gone(u.row)'
  BY <1>1, <1>2, GoneMono DEF IInv
<1>. QED
  BY <1>1, <1>3, CollectKeys DEF LostInv, LiveFacts

LEMMA WaitSlotLostInv ==
    ASSUME IInv, LostInv, wait_slot
    PROVE  LostInv'
<1> DEFINE nt == NewTask(held)
<1>1. held \in Rows /\ job = "wait_slot" /\ Collect
      /\ tasks' = (tasks \ Finished) \cup {nt} /\ held' = None
      /\ UNCHANGED <<admitted, cursor, seen_ids>>
  BY DEF IInv, LoopInv, wait_slot
<1>2. (NoLostMessage /\ ResultTables /\ SeenFacts)'
  BY <1>1, CollectTables
<1>3. /\ messages \subseteq messages' /\ rejected_messages \subseteq rejected_messages'
      /\ pending_messages' \subseteq pending_messages
      /\ \A x \in pending_messages \ pending_messages' : x \notin Unparsable => Gone(x)'
  BY <1>1, CollectDeletesGone
<1>4. SeenShrinks
  BY <1>1 DEF SeenShrinks, IInv, TypeOK
<1>5. \A x \in Rows : Gone(x) => Gone(x)'
  BY <1>3, <1>4, GoneMono DEF IInv
<1>6. Live' = (Live \ Finished) \cup {nt}
  BY <1>1, NewTaskFacts DEF Live, Finished
<1>7. TaskFacts'
  BY <1>1, NewTaskFacts DEF LostInv, TaskFacts
<1>8. Key(held) \in processing_messages' /\ \A u \in Live : Key(u.row) # Key(held)
  BY <1>1, CollectKeys DEF LostInv, HeldFacts
<1>9. ASSUME NEW u \in Live'
      PROVE  /\ u.result = "duplicate" => Gone(u.row)'
             /\ u.row \notin pending_messages' \cup Unparsable => Gone(u.row)'
             /\ Key(u.row) \in processing_messages'
  <2>1. CASE u = nt
    <3>1. held \notin pending_messages \cup Unparsable => Gone(held)
      BY <1>1 DEF LostInv, HeldFacts
    <3>. QED
      BY <1>1, <1>3, <1>5, <1>8, <2>1, <3>1, NewTaskFacts
  <2>2. CASE u \in Live \ Finished
    BY <1>1, <2>2, CollectLiveStays
  <2>. QED
    BY <1>6, <2>1, <2>2
<1>10. ASSUME NEW u \in Live', NEW v \in Live', u # v PROVE Key(u.row) # Key(v.row)
  <2>1. CASE u \in Live /\ v \in Live
    BY <1>10, <2>1 DEF LostInv, LiveFacts
  <2>2. CASE u = nt /\ v \in Live
    BY <1>1, <1>8, <2>2, NewTaskFacts
  <2>3. CASE v = nt /\ u \in Live
    BY <1>1, <1>8, <2>3, NewTaskFacts
  <2>. QED
    BY <1>6, <1>10, <2>1, <2>2, <2>3
<1>11. CursorFacts'
  <2>1. cursor \subseteq Rows
    BY DEF IInv, TypeOK
  <2>. QED
    BY <1>1, <1>3, <1>5, <2>1 DEF LostInv, CursorFacts
<1>12. HeldFacts'
  BY <1>1 DEF HeldFacts
<1>. QED
  BY <1>2, <1>7, <1>9, <1>10, <1>11, <1>12 DEF LostInv, LiveFacts

LEMMA EndOfCursorLostInv ==
    ASSUME IInv, LostInv, end_of_cursor
    PROVE  LostInv'
<1>1. held = None /\ held' = None /\ UNCHANGED <<admitted, cursor, seen_ids>>
  BY DEF end_of_cursor, LostInv, HeldFacts
<1>2. CASE Live = {} /\ UNCHANGED <<pending_messages, messages, rejected_messages,
                                     processing_messages, tasks>>
  <2>1. Live' = Live
    BY <1>2 DEF Live
  <2>2. \A x \in Rows : Gone(x)' = Gone(x)
    BY <1>1, <1>2 DEF Gone, SeenDuplicate
  <2>3. cursor \subseteq Rows
    BY DEF IInv, TypeOK
  <2>. QED
    BY <1>1, <1>2, <2>1, <2>2, <2>3
    DEF LostInv, NoLostMessage, ResultTables, TaskFacts, LiveFacts, CursorFacts,
        HeldFacts, SeenFacts, SeenWitness
<1>3. CASE Collect /\ tasks' = tasks \ Finished
  <2>1. (NoLostMessage /\ ResultTables /\ SeenFacts)'
    BY <1>1, <1>3, CollectTables
  <2>2. /\ messages \subseteq messages' /\ rejected_messages \subseteq rejected_messages'
        /\ pending_messages' \subseteq pending_messages
        /\ \A x \in pending_messages \ pending_messages' : x \notin Unparsable => Gone(x)'
    BY <1>1, <1>3, CollectDeletesGone
  <2>3. \A x \in Rows : Gone(x) => Gone(x)'
    <3>1. SeenShrinks
      BY <1>1 DEF SeenShrinks, IInv, TypeOK
    <3>. QED
      BY <2>2, <3>1, GoneMono DEF IInv
  <2>4. Live' = Live \ Finished
    BY <1>3 DEF Live, Finished
  <2>5. TaskFacts'
    BY <1>3 DEF LostInv, TaskFacts
  <2>6. LiveFacts'
    <3>1. \A u \in Live' :
            /\ u.result = "duplicate" => Gone(u.row)'
            /\ u.row \notin pending_messages' \cup Unparsable => Gone(u.row)'
            /\ Key(u.row) \in processing_messages'
      BY <1>1, <1>3, <2>4, CollectLiveStays
    <3>2. \A u, v \in Live' : u # v => Key(u.row) # Key(v.row)
      BY <2>4 DEF LostInv, LiveFacts
    <3>. QED
      BY <3>1, <3>2 DEF LiveFacts
  <2>7. CursorFacts'
    <3>1. cursor \subseteq Rows
      BY DEF IInv, TypeOK
    <3>. QED
      BY <1>1, <2>2, <2>3, <3>1 DEF LostInv, CursorFacts
  <2>. QED
    BY <1>1, <2>1, <2>5, <2>6, <2>7 DEF LostInv, HeldFacts
<1>. QED
  BY <1>2, <1>3 DEF end_of_cursor

LEMMA NextLostInv == IInv /\ LostInv /\ [Next]_vars => LostInv'
<1> SUFFICES ASSUME IInv, LostInv, [Next]_vars PROVE LostInv'
  OBVIOUS
<1>1. CASE \E r \in Rows : add_pending_row(r)
  BY <1>1, AddRowLostInv
<1>2. CASE TaskStep
  <2>1. PICK t \in tasks : acquire_semaphore(t) \/ incoming(t) \/ orphan_done(t)
    BY <1>2 DEF TaskStep, TaskOf
  <2>. QED
    BY <2>1, AcquireLostInv, IncomingLostInv, OrphanDoneLostInv
<1>3. CASE count_documents
  BY <1>3, CountLostInv
<1>4. CASE next_pending
  BY <1>4, NextPendingLostInv
<1>5. CASE wait_slot
  BY <1>5, WaitSlotLostInv
<1>6. CASE end_of_cursor
  BY <1>6, EndOfCursorLostInv
<1>7. CASE cleanup
  BY <1>7, CleanupLostInv
<1>8. CASE retry_messages_task \/ loop_raises
  BY <1>8, RestartLostInv DEF retry_messages_task, loop_raises
<1>9. CASE UNCHANGED vars
  <2>1. Live' = Live /\ \A x \in Rows : Gone(x)' = Gone(x)
    BY <1>9 DEF vars, Live, Gone, SeenDuplicate
  <2>2. held \in Rows \cup {None} /\ cursor \subseteq Rows /\ \A u \in Live : u.row \in Rows
    BY DEF IInv, TypeOK, Live, Task
  <2>. QED
    BY <1>9, <2>1, <2>2
    DEF vars, LostInv, NoLostMessage, ResultTables, TaskFacts, LiveFacts,
        CursorFacts, HeldFacts, SeenFacts, SeenWitness
<1>. QED
  BY <1>1, <1>2, <1>3, <1>4, <1>5, <1>6, <1>7, <1>8, <1>9 DEF Next, LoopStep

---------------------------------------------------------------------------
(* IInv /\ LostInv holds in every reachable state of the job.              *)
THEOREM SafetyInvariant == Spec => [](IInv /\ LostInv)
<1>1. Init => IInv /\ LostInv
  BY InitIInv, InitLostInv
<1>2. IInv /\ LostInv /\ [Next]_vars => (IInv /\ LostInv)'
  BY NextIInv, NextLostInv
<1>. QED
  BY <1>1, <1>2, PTL DEF Spec

(* No message is lost by the pending-message job: once every parsable row *)
(* of a message has left pending_messages (its task committed, rejected or *)
(* reported a duplicate, or the high-water cleanup deleted it), the        *)
(* message is processed or rejected.  This holds through loop exceptions, *)
(* orphaned tasks whose results are dropped, cursors that yield deleted    *)
(* rows and results computed against a seen_ids that changed since         *)
(* (process_pending_messages, process_message_job_results).                *)
THEOREM NoMessageLost == Spec => []NoLostMessage
BY SafetyInvariant, PTL DEF LostInv

=============================================================================
