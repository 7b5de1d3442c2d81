-------------------------- MODULE PendingTxsProofs --------------------------
(***************************************************************************)
(* Proofs about the chain-sync engine (PendingTxs) for every value of the   *)
(* constants: type correctness, and that a decodable PendingTx always keeps *)
(* a delivery in the pending-tx queue or in the consumer's hands.  Both     *)
(* rest on IInv = TypeOK /\ ConsumerInv /\ DecodableTxDeliverable: TypeOK   *)
(* alone is not inductive, since admit_message needs the consumer to hold   *)
(* a delivery, which ConsumerInv records.                                   *)
(***************************************************************************)
EXTENDS PendingTxs, TLAPS

USE ConstantsAssumption

(* add_pending_message keeps the three tables it writes well typed.        *)
LEMMA AddPendingMessageType ==
    ASSUME TypeOK, NEW m \in Msgs, NEW src \in Sources,
           add_pending_message(m, src)
    PROVE  /\ pending_messages' \subseteq Msgs \X Sources
           /\ message_status' \in [Msgs -> Statuses]
           /\ message_confirmations' \subseteq Msgs \X Txs
BY DEF TypeOK, add_pending_message, Statuses, Sources

(* A decodable tx is on-chain or smart-contract and yields a sequence.     *)
LEMMA DecodableContent ==
    ASSUME NEW t \in Txs, Decodable(t)
    PROVE  /\ TxContent[t].protocol \in {OnChain, SmartContract}
           /\ TxContent[t].protocol \notin {OffChain, Unknown}
           /\ TxContent[t].messages \in Seq(Msgs)
BY DEF Decodable, TxRecord

(* Every outcome of handle_pending_tx(t) on a pending t leaves the         *)
(* consumer holding t with a sequence to admit, or idle with nothing.      *)
LEMMA GetTxMessagesOutcome ==
    ASSUME TypeOK, NEW t \in Txs,
           \/ OnChainMessages(t) \/ OffChainMessages(t)
           \/ SmartContractMessages(t) \/ UnknownProtocol(t)
    PROVE  /\ \/ current' = t /\ consumer' = "admit" /\ todo' \in Seq(Msgs)
              \/ current' = None /\ consumer' = "idle" /\ todo' = <<>>
           /\ seen_ids' \subseteq Files
           /\ tx_file_pins' \subseteq Files \X Txs
           /\ Decodable(t) => current' = t
<1>1. TxContent[t] \in TxRecord
  OBVIOUS
<1>2. TxContent[t].messages # Bad => TxContent[t].messages \in Seq(Msgs)
  BY <1>1 DEF TxRecord
<1>3. CASE OnChainMessages(t)
  BY <1>2, <1>3 DEF OnChainMessages, Expanded, Raised, TypeOK, Decodable
<1>4. CASE SmartContractMessages(t)
  BY <1>2, <1>4 DEF SmartContractMessages, Expanded, Raised, TypeOK, Decodable
<1>5. CASE UnknownProtocol(t)
  BY <1>5, DecodableContent DEF UnknownProtocol, Raised, TypeOK
<1>6. CASE OffChainMessages(t)
  <2>. DEFINE f == TxContent[t].file
  <2>1. TxContent[t].protocol = OffChain /\ f \in Files
    BY <1>6 DEF OffChainMessages
  <2>2. FileContent[f] # Bad => FileContent[f] \in Seq(Msgs)
    BY <2>1
  <2>3. ~Decodable(t)
    BY <2>1, DecodableContent
  <2>4. <<f, t>> \in Files \X Txs
    BY <2>1
  <2>5. CASE f \in seen_ids /\ Expanded(t, <<>>) /\ UNCHANGED <<seen_ids, tx_file_pins>>
    BY <2>3, <2>5 DEF Expanded, TypeOK
  <2>6. CASE f \notin seen_ids /\ Raised(t) /\ UNCHANGED tx_file_pins
    BY <2>3, <2>6 DEF Raised, TypeOK
  <2>7. CASE /\ FileContent[f] # Bad
             /\ Expanded(t, FileContent[f])
             /\ seen_ids' = seen_ids \cup {f}
             /\ tx_file_pins' = IF IpfsEnabled THEN tx_file_pins \cup {<<f, t>>}
                                               ELSE tx_file_pins
    BY <2>1, <2>2, <2>3, <2>4, <2>7 DEF Expanded, TypeOK
  <2>8. CASE /\ Raised(t)
             /\ tx_file_pins' = IF IpfsEnabled THEN tx_file_pins \cup {<<f, t>>}
                                               ELSE tx_file_pins
    BY <2>3, <2>4, <2>8 DEF Raised, TypeOK
  <2>9. QED
    BY <1>6, <2>5, <2>6, <2>7, <2>8 DEF OffChainMessages
<1>7. QED
  BY <1>3, <1>4, <1>5, <1>6

LEMMA InitInv == Init => IInv
BY DEF Init, IInv, TypeOK, ConsumerInv, DecodableTxDeliverable, Statuses

LEMMA IncomingChaindataInv ==
    ASSUME IInv, NEW t \in Txs, incoming_chaindata(t)
    PROVE  IInv'
BY DEF IInv, TypeOK, ConsumerInv, DecodableTxDeliverable, incoming_chaindata,
       consumer_vars

LEMMA IncomingChannelInv ==
    ASSUME IInv, NEW m \in Msgs, incoming_channel(m)
    PROVE  IInv'
<1>1. P2P \in Sources
  BY DEF Sources
<1>2. TypeOK'
  BY <1>1, AddPendingMessageType DEF IInv, TypeOK, incoming_channel, consumer_vars
<1>3. QED
  BY <1>2 DEF IInv, ConsumerInv, DecodableTxDeliverable, incoming_channel,
              consumer_vars

LEMMA HandleInv ==
    ASSUME IInv, NEW t \in Txs, handle_pending_tx(t)
    PROVE  IInv'
<1>1. current = None /\ consumer = "idle"
  BY DEF handle_pending_tx, IInv, ConsumerInv
<1>2. UNCHANGED <<chain_txs, pending_txs, pending_messages, message_status,
                  message_confirmations, crashes>>
  BY DEF handle_pending_tx
<1>3. pending_tx_queue' = pending_tx_queue \ {t}
  BY DEF handle_pending_tx
<1>4. CASE t \notin pending_txs /\ UNCHANGED <<consumer_vars, tx_file_pins>>
  <2>1. TypeOK'
    BY <1>2, <1>3, <1>4 DEF IInv, TypeOK, consumer_vars
  <2>2. ConsumerInv'
    BY <1>2, <1>4 DEF IInv, ConsumerInv, consumer_vars
  <2>3. DecodableTxDeliverable'
    BY <1>1, <1>2, <1>3, <1>4 DEF IInv, DecodableTxDeliverable, consumer_vars
  <2>4. QED
    BY <2>1, <2>2, <2>3 DEF IInv
<1>5. CASE t \in pending_txs /\ \/ OnChainMessages(t) \/ OffChainMessages(t)
                                \/ SmartContractMessages(t) \/ UnknownProtocol(t)
  <2>1. /\ \/ current' = t /\ consumer' = "admit" /\ todo' \in Seq(Msgs)
           \/ current' = None /\ consumer' = "idle" /\ todo' = <<>>
        /\ seen_ids' \subseteq Files
        /\ tx_file_pins' \subseteq Files \X Txs
        /\ Decodable(t) => current' = t
    BY <1>5, GetTxMessagesOutcome DEF IInv
  <2>2. TypeOK'
    <3>1. current' \in Txs \cup {None}
      BY <2>1
    <3>5. todo' \in Seq(Msgs)
      <4>1. <<>> \in Seq(Msgs)
        OBVIOUS
      <4>2. QED
        BY <2>1, <4>1
    <3>2. consumer' \in {"idle", "admit", "ack"}
      BY <2>1
    <3>3. pending_tx_queue' \subseteq Txs
      BY <1>3 DEF IInv, TypeOK
    <3>4. QED
      BY <1>2, <2>1, <3>1, <3>2, <3>3, <3>5 DEF IInv, TypeOK
  <2>3. ConsumerInv'
    BY <1>2, <1>5, <2>1 DEF IInv, ConsumerInv
  <2>4. DecodableTxDeliverable'
    <3>1. SUFFICES ASSUME NEW s \in pending_txs', Decodable(s)
                   PROVE  s \in pending_tx_queue' \/ current' = s
      BY DEF DecodableTxDeliverable
    <3>2. CASE s = t
      BY <2>1, <3>1, <3>2
    <3>3. CASE s # t
      <4>1. s \in pending_tx_queue
        BY <1>1, <1>2, <3>1 DEF IInv, TypeOK, DecodableTxDeliverable
      <4>2. QED
        BY <1>3, <3>3, <4>1
    <3>4. QED
      BY <3>2, <3>3
  <2>5. QED
    BY <2>2, <2>3, <2>4 DEF IInv
<1>6. QED
  BY <1>4, <1>5 DEF handle_pending_tx

LEMMA AdmitInv ==
    ASSUME IInv, admit_message
    PROVE  IInv'
<1>1. todo # <<>> /\ current \in Txs
  BY DEF admit_message, IInv, ConsumerInv, TypeOK
<1>2. Head(todo) \in Msgs /\ Tail(todo) \in Seq(Msgs)
  BY <1>1 DEF IInv, TypeOK
<1>3. current \in Sources
  BY <1>1 DEF Sources
<1>4. TypeOK'
  BY <1>2, <1>3, AddPendingMessageType DEF admit_message, IInv, TypeOK
<1>5. QED
  BY <1>4 DEF admit_message, IInv, ConsumerInv, DecodableTxDeliverable

LEMMA DeleteInv ==
    ASSUME IInv, delete_pending_tx
    PROVE  IInv'
BY DEF delete_pending_tx, IInv, TypeOK, ConsumerInv, DecodableTxDeliverable

LEMMA AckInv ==
    ASSUME IInv, ack
    PROVE  IInv'
BY DEF ack, IInv, TypeOK, ConsumerInv, DecodableTxDeliverable, db_vars

LEMMA CrashInv ==
    ASSUME IInv, crash
    PROVE  IInv'
<1>1. TypeOK'
  BY DEF crash, IInv, TypeOK, ConsumerInv, db_vars
<1>2. QED
  BY <1>1 DEF crash, IInv, ConsumerInv, DecodableTxDeliverable, db_vars

LEMMA NextInv == IInv /\ [Next]_vars => IInv'
<1> SUFFICES ASSUME IInv, [Next]_vars PROVE IInv'
  OBVIOUS
<1>1. CASE \E t \in Txs : incoming_chaindata(t)
  BY <1>1, IncomingChaindataInv
<1>2. CASE \E m \in Msgs : incoming_channel(m)
  BY <1>2, IncomingChannelInv
<1>3. CASE \E t \in Txs : handle_pending_tx(t)
  BY <1>3, HandleInv
<1>4. CASE admit_message
  BY <1>4, AdmitInv
<1>5. CASE delete_pending_tx
  BY <1>5, DeleteInv
<1>6. CASE ack
  BY <1>6, AckInv
<1>7. CASE crash
  BY <1>7, CrashInv
<1>8. CASE UNCHANGED vars
  BY <1>8 DEF vars, IInv, TypeOK, ConsumerInv, DecodableTxDeliverable,
              consumer_vars, db_vars
<1>9. QED
  BY <1>1, <1>2, <1>3, <1>4, <1>5, <1>6, <1>7, <1>8 DEF Next, ConsumerStep

THEOREM InductiveInvariant == Spec => []IInv
BY InitInv, NextInv, PTL DEF Spec

(* Type correctness of the chain-sync engine.                             *)
THEOREM TypeCorrect == Spec => []TypeOK
BY InductiveInvariant, PTL DEF IInv

(* A decodable PendingTx is never left without a delivery: the consumer   *)
(* deletes the row before it acknowledges, a crash requeues the delivery  *)
(* in hand, and a redelivered tx that is no longer pending is only acked. *)
THEOREM DeliverableWhilePending == Spec => []DecodableTxDeliverable
BY InductiveInvariant, PTL DEF IInv

=============================================================================
