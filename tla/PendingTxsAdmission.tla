------------------------- MODULE PendingTxsAdmission -------------------------
(***************************************************************************)
(* Proof that ExpandedTxAdmitted holds for every value of the constants:  *)
(* a PendingTx row is deleted only once every message its tx carries has  *)
(* a status row.                                                           *)
(*                                                                         *)
(* The step that matters is delete_pending_tx.  It needs RInv, which says  *)
(* what the consumer's state guarantees about the messages not yet         *)
(* admitted: the messages of the tx in hand are admitted or still in       *)
(* `todo`, and so are those of every off-chain file in seen_ids, which is  *)
(* what makes the skip of a re-seen file safe.                             *)
(***************************************************************************)
EXTENDS PendingTxsProofs, SequenceTheorems

USE ConstantsAssumption

(* The consumer's obligations towards admission.                          *)
RInv ==
    /\ consumer \in {"idle", "ack"} => todo = <<>>
    /\ consumer = "admit" =>
           /\ current \in pending_txs
           /\ Carried(current) \subseteq Admitted \cup Range(todo)
    /\ \A f \in seen_ids :
           /\ FileContent[f] # Bad
           /\ Range(FileContent[f]) \subseteq Admitted \cup Range(todo)
    /\ \A t \in chain_txs \ pending_txs : Carried(t) \subseteq Admitted

(* What a transaction carries are messages.                               *)
LEMMA CarriedMsgs ==
    ASSUME NEW t \in Txs
    PROVE  Carried(t) \subseteq Msgs
<1>1. TxContent[t] \in TxRecord
  OBVIOUS
<1>2. CASE TxContent[t].protocol \in {OnChain, SmartContract} /\ TxContent[t].messages # Bad
  <2>1. TxContent[t].messages \in Seq(Msgs)
    BY <1>1, <1>2 DEF TxRecord
  <2>2. QED
    BY <1>2, <2>1 DEF Carried, Range
<1>3. CASE TxContent[t].protocol = OffChain /\ FileContent[TxContent[t].file] # Bad
  <2>1. TxContent[t].file \in Files
    BY <1>3
  <2>2. FileContent[TxContent[t].file] \in Seq(Msgs)
    BY <1>3, <2>1
  <2>3. ~(TxContent[t].protocol \in {OnChain, SmartContract})
    BY <1>3
  <2>4. QED
    BY <1>3, <2>2, <2>3 DEF Carried, Range
<1>4. CASE ~(TxContent[t].protocol \in {OnChain, SmartContract} /\ TxContent[t].messages # Bad)
           /\ ~(TxContent[t].protocol = OffChain /\ FileContent[TxContent[t].file] # Bad)
  BY <1>4 DEF Carried
<1>5. QED
  BY <1>2, <1>3, <1>4

(* Removing the head of a sequence leaves the rest of its elements.       *)
LEMMA RangeHeadTail ==
    ASSUME NEW S, NEW s \in Seq(S), s # <<>>
    PROVE  Range(s) \subseteq {Head(s)} \cup Range(Tail(s))
<1>1. /\ Tail(s) \in Seq(S) /\ Len(Tail(s)) = Len(s) - 1
      /\ \A i \in 1..Len(Tail(s)) : Tail(s)[i] = s[i + 1]
  BY HeadTailProperties
<1>2. SUFFICES ASSUME NEW i \in 1..Len(s), i # 1
               PROVE  s[i] \in Range(Tail(s))
  <2>1. Range(s) = {s[i] : i \in 1..Len(s)}
    BY RangeEquality
  <2>2. Head(s) = s[1]
    OBVIOUS
  <2>3. QED
    BY <2>1, <2>2
<1>3. i - 1 \in 1..Len(Tail(s)) /\ Tail(s)[i - 1] = s[i]
  <2>0. Len(s) \in Nat /\ i \in Nat
    BY LenProperties
  <2>1. i - 1 \in 1..Len(Tail(s))
    BY <1>1, <1>2, <2>0
  <2>2. Tail(s)[i - 1] = s[(i - 1) + 1]
    BY <1>1, <2>1
  <2>3. QED
    BY <2>1, <2>2
<1>4. DOMAIN Tail(s) = 1..Len(Tail(s))
  BY <1>1
<1>5. QED
  BY <1>3, <1>4 DEF Range

(* Admission only ever adds status rows.                                  *)
LEMMA AddPendingMessageAdmits ==
    ASSUME TypeOK, NEW m \in Msgs, NEW src \in Sources,
           add_pending_message(m, src)
    PROVE  Admitted' = Admitted \cup {m}
BY DEF TypeOK, add_pending_message, Admitted, Statuses

(* The messages a decodable batch or a fetched sync file carries.          *)
LEMMA CarriedCases ==
    ASSUME NEW t \in Txs
    PROVE  /\ TxContent[t].protocol \in {OnChain, SmartContract} /\ TxContent[t].messages # Bad
                => Carried(t) = Range(TxContent[t].messages)
           /\ TxContent[t].protocol = OffChain /\ FileContent[TxContent[t].file] # Bad
                => Carried(t) = Range(FileContent[TxContent[t].file])
BY DEF Carried

LEMMA RangeEmpty == Range(<<>>) = {}
BY DEF Range

(* RInv survives a step that admits messages and hands nothing new to the *)
(* consumer: what was admitted or still to admit stays so.                *)
LEMMA RInvMonotone ==
    ASSUME RInv,
           Admitted \subseteq Admitted',
           Admitted \cup Range(todo) \subseteq Admitted' \cup Range(todo'),
           UNCHANGED <<consumer, current, seen_ids, chain_txs, pending_txs>>,
           consumer \in {"idle", "ack"} => todo' = <<>>
    PROVE  RInv'
BY DEF RInv

LEMMA InitRInv == Init => RInv
BY DEF Init, RInv

LEMMA IncomingChaindataRInv ==
    ASSUME RInv, NEW t \in Txs, incoming_chaindata(t)
    PROVE  RInv'
<1>1. Admitted' = Admitted
  BY DEF incoming_chaindata, Admitted
<1>2. chain_txs' \ pending_txs' = chain_txs \ pending_txs
  BY DEF incoming_chaindata
<1>3. QED
  BY <1>1, <1>2 DEF RInv, incoming_chaindata, consumer_vars

LEMMA IncomingChannelRInv ==
    ASSUME IInv, RInv, NEW m \in Msgs, incoming_channel(m)
    PROVE  RInv'
<1>1. Admitted' = Admitted \cup {m}
  <2>1. P2P \in Sources
    BY DEF Sources
  <2>2. QED
    BY <2>1, AddPendingMessageAdmits DEF IInv, incoming_channel
<1>2. UNCHANGED <<consumer, current, todo, seen_ids, chain_txs, pending_txs>>
  BY DEF incoming_channel, consumer_vars
<1>3. Admitted \cup Range(todo) \subseteq Admitted' \cup Range(todo')
  BY <1>1, <1>2
<1>4. consumer \in {"idle", "ack"} => todo' = <<>>
  BY <1>2 DEF RInv
<1>5. QED
  BY <1>1, <1>2, <1>3, <1>4, RInvMonotone

LEMMA AdmitRInv ==
    ASSUME IInv, RInv, admit_message
    PROVE  RInv'
<1>1. todo # <<>> /\ todo \in Seq(Msgs) /\ current \in Txs
  BY DEF admit_message, IInv, ConsumerInv, TypeOK
<1>2. Head(todo) \in Msgs /\ current \in Sources
  BY <1>1 DEF Sources
<1>3. Admitted' = Admitted \cup {Head(todo)}
  BY <1>2, AddPendingMessageAdmits DEF IInv, admit_message
<1>4. Range(todo) \subseteq {Head(todo)} \cup Range(todo')
  BY <1>1, RangeHeadTail DEF admit_message
<1>5. QED
  BY <1>3, <1>4, RInvMonotone DEF admit_message

LEMMA DeleteRInv ==
    ASSUME RInv, delete_pending_tx
    PROVE  RInv'
<1>1. Carried(current) \subseteq Admitted
  BY RangeEmpty DEF delete_pending_tx, RInv
<1>2. Admitted' = Admitted
  BY DEF delete_pending_tx, Admitted
<1>3. QED
  BY <1>1, <1>2 DEF delete_pending_tx, RInv

LEMMA AckRInv ==
    ASSUME RInv, ack
    PROVE  RInv'
<1>1. Admitted' = Admitted
  BY DEF ack, db_vars, Admitted
<1>2. QED
  BY <1>1 DEF ack, RInv, db_vars

LEMMA CrashRInv ==
    ASSUME RInv, crash
    PROVE  RInv'
<1>1. Admitted' = Admitted
  BY DEF crash, db_vars, Admitted
<1>2. QED
  BY <1>1 DEF crash, RInv, db_vars

(* The consumer takes a delivery: the messages of the tx now in hand are  *)
(* all in `todo`, except for a re-seen off-chain file, whose messages      *)
(* RInv says were admitted while the consumer was idle.                    *)
LEMMA HandleRInv ==
    ASSUME IInv, RInv, NEW t \in Txs, handle_pending_tx(t)
    PROVE  RInv'
<1>1. consumer = "idle" /\ todo = <<>>
  BY DEF handle_pending_tx, RInv
<1>2. /\ Admitted' = Admitted
      /\ UNCHANGED <<chain_txs, pending_txs>>
  BY DEF handle_pending_tx, Admitted
<1>3. \A f \in seen_ids : Range(FileContent[f]) \subseteq Admitted
  BY <1>1, RangeEmpty DEF RInv
<1>4. TxContent[t] \in TxRecord
  OBVIOUS
<1>5. CASE t \notin pending_txs /\ UNCHANGED <<consumer_vars, tx_file_pins>>
  BY <1>2, <1>5 DEF RInv, consumer_vars
<1> DEFINE SeenOK == \A f \in seen_ids' :
                         /\ FileContent[f] # Bad
                         /\ Range(FileContent[f]) \subseteq Admitted \cup Range(todo')
<1>6. ASSUME current' = t, consumer' = "admit", t \in pending_txs,
             Carried(t) \subseteq Admitted \cup Range(todo'), SeenOK
      PROVE  RInv'
  BY <1>2, <1>6 DEF RInv, SeenOK
<1>7. ASSUME current' = None, consumer' = "idle", todo' = <<>>, seen_ids' = {}
      PROVE  RInv'
  BY <1>2, <1>7 DEF RInv
<1>8. CASE t \in pending_txs /\ \/ OnChainMessages(t) \/ SmartContractMessages(t)
                                \/ UnknownProtocol(t)
  <2>1. CASE /\ TxContent[t].protocol \in {OnChain, SmartContract}
             /\ TxContent[t].messages # Bad
             /\ Expanded(t, TxContent[t].messages)
             /\ UNCHANGED seen_ids
    <3>1. Carried(t) \subseteq Range(todo')
      BY <2>1, CarriedCases DEF Expanded
    <3>2. SeenOK
      BY <1>3, <2>1 DEF SeenOK, RInv
    <3>3. QED
      BY <1>6, <1>8, <2>1, <3>1, <3>2 DEF Expanded
  <2>5. CASE Raised(t)
    BY <1>7, <2>5 DEF Raised
  <2>6. QED
    BY <1>8, <2>1, <2>5 DEF OnChainMessages, SmartContractMessages, UnknownProtocol
<1>9. CASE t \in pending_txs /\ OffChainMessages(t)
  <2> DEFINE f == TxContent[t].file
  <2>1. TxContent[t].protocol = OffChain /\ f \in Files
    BY <1>9 DEF OffChainMessages
  <2>2. CASE f \in seen_ids /\ Expanded(t, <<>>) /\ UNCHANGED <<seen_ids, tx_file_pins>>
    <3>1. FileContent[f] # Bad
      BY <2>2 DEF RInv
    <3>2. Carried(t) \subseteq Admitted
      BY <1>3, <2>1, <2>2, <3>1, CarriedCases
    <3>3. SeenOK
      BY <1>3, <2>2 DEF SeenOK, RInv
    <3>4. QED
      BY <1>6, <1>9, <2>2, <3>2, <3>3 DEF Expanded
  <2>3. CASE /\ FileContent[f] # Bad
             /\ Expanded(t, FileContent[f])
             /\ seen_ids' = seen_ids \cup {f}
    <3>1. Carried(t) \subseteq Range(todo')
      BY <2>1, <2>3, CarriedCases DEF Expanded
    <3>2. SeenOK
      BY <1>3, <2>3 DEF SeenOK, RInv, Expanded
    <3>3. QED
      BY <1>6, <1>9, <2>3, <3>1, <3>2 DEF Expanded
  <2>4. CASE Raised(t)
    BY <1>7, <2>4 DEF Raised
  <2>5. QED
    BY <1>9, <2>2, <2>3, <2>4 DEF OffChainMessages
<1>10. QED
  BY <1>5, <1>8, <1>9 DEF handle_pending_tx

LEMMA NextRInv == IInv /\ RInv /\ [Next]_vars => RInv'
<1> SUFFICES ASSUME IInv, RInv, [Next]_vars PROVE RInv'
  OBVIOUS
<1>1. CASE \E t \in Txs : incoming_chaindata(t)
  BY <1>1, IncomingChaindataRInv
<1>2. CASE \E m \in Msgs : incoming_channel(m)
  BY <1>2, IncomingChannelRInv
<1>3. CASE \E t \in Txs : handle_pending_tx(t)
  BY <1>3, HandleRInv
<1>4. CASE admit_message
  BY <1>4, AdmitRInv
<1>5. CASE delete_pending_tx
  BY <1>5, DeleteRInv
<1>6. CASE ack
  BY <1>6, AckRInv
<1>7. CASE crash
  BY <1>7, CrashRInv
<1>8. CASE UNCHANGED vars
  <2>1. Admitted' = Admitted
    BY <1>8 DEF vars, db_vars, Admitted
  <2>2. QED
    BY <1>8, <2>1 DEF vars, RInv, consumer_vars, db_vars
<1>9. QED
  BY <1>1, <1>2, <1>3, <1>4, <1>5, <1>6, <1>7, <1>8 DEF Next, ConsumerStep

THEOREM AdmissionInvariant == Spec => [](IInv /\ RInv)
<1>1. Init => IInv /\ RInv
  BY InitInv, InitRInv
<1>2. IInv /\ RInv /\ [Next]_vars => IInv' /\ RInv'
  BY NextInv, NextRInv
<1>3. QED
  BY <1>1, <1>2, PTL DEF Spec

(* A PendingTx row is only ever deleted once every message its tx carries *)
(* has a status row: through crashes mid-batch, redeliveries, and the     *)
(* seen_ids skip of a re-seen off-chain file (delete_pending_tx,          *)
(* _get_tx_messages_off_chain_protocol).                                  *)
THEOREM ExpandedAdmitted == Spec => []ExpandedTxAdmitted
<1>1. IInv /\ RInv => ExpandedTxAdmitted
  <2>1. SUFFICES ASSUME IInv, RInv, NEW t \in chain_txs \ pending_txs,
                        NEW m \in Carried(t)
                 PROVE  message_status[m] # None
    BY DEF ExpandedTxAdmitted
  <2>2. m \in Admitted
    BY <2>1 DEF RInv
  <2>3. QED
    BY <2>2 DEF Admitted
<1>2. QED
  BY <1>1, AdmissionInvariant, PTL

=============================================================================
