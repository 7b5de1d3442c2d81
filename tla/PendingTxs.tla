----------------------------- MODULE PendingTxs -----------------------------
(***************************************************************************)
(* The chain-sync engine of a Core Channel Node: the pending-tx consumer   *)
(* (src/aleph/jobs/process_pending_txs.py), the chain data service that    *)
(* expands a chain transaction into messages (src/aleph/chains/            *)
(* chaindata.py), the admission gate that writes pending messages          *)
(* (MessagePublisher.add_pending_message, not under src/: modelled from    *)
(* the spec, section 4.3) and the peer-to-peer ingress that feeds the same *)
(* gate (src/aleph/services/ipfs/pubsub.py).                               *)
(*                                                                         *)
(* The pending-tx queue is a durable RabbitMQ queue consumed by one        *)
(* sequential consumer.  A delivery is acknowledged when                   *)
(* `pending_tx_message.process()` exits normally and rejected WITHOUT      *)
(* requeue when the block raises (aio_pika's default requeue=False); an    *)
(* unacknowledged delivery is requeued when the consumer crashes.  Every   *)
(* database write the code commits is a step of its own, so a crash can    *)
(* fall between any two of them.                                           *)
(***************************************************************************)
EXTENDS Naturals, Sequences, Functions

CONSTANTS
    Txs,            \* chain transaction hashes
    Msgs,           \* item hashes of the messages carried by transactions
    Files,          \* content hashes of off-chain sync files
    Malformed,      \* messages add_pending_message refuses (INVALID_FORMAT)
    TxContent,      \* what each transaction carries (see TxRecord)
    FileContent,    \* what the storage service resolves each file hash to
    IpfsEnabled,    \* config.ipfs.enabled
    MaxCrashes,     \* bound on consumer crashes
    None, P2P, Bad, \* sentinels: no value, peer ingress, undecodable content
    OnChain, OffChain, SmartContract, Unknown   \* ChainSyncProtocol (v1)

(* The content of a ChainTx, abstracted to what get_tx_messages decides on: *)
(* for on-chain and smart-contract txs the messages it yields, or Bad when  *)
(* `messages` is not a list / the payload is not a STORE_IPFS event; for    *)
(* off-chain txs the file hash; Unknown stands for any other                *)
(* (protocol, version) pair.                                                *)
TxRecord == [protocol : {OnChain, OffChain, SmartContract, Unknown},
             messages : Seq(Msgs) \cup {Bad},
             file     : Files \cup {None}]

ASSUME ConstantsAssumption ==
    /\ Malformed \subseteq Msgs
    /\ TxContent \in [Txs -> TxRecord]
    /\ \A t \in Txs : TxContent[t].protocol = OffChain => TxContent[t].file \in Files
    /\ FileContent \in [Files -> Seq(Msgs) \cup {Bad}]
    /\ IpfsEnabled \in BOOLEAN
    /\ MaxCrashes \in Nat
    /\ {None, P2P, Bad} \cap (Txs \cup Msgs \cup Files) = {}
    /\ None # P2P
    /\ None \notin {"pending", "rejected"}
    /\ OnChain \notin {OffChain, SmartContract, Unknown}
    /\ OffChain \notin {SmartContract, Unknown}
    /\ SmartContract # Unknown

VARIABLES
    chain_txs,              \* ChainTxDb rows
    pending_txs,            \* PendingTxDb rows
    pending_tx_queue,       \* deliveries ready in "pending-tx-queue"
    current,                \* the delivery the consumer holds unacknowledged
    consumer,               \* where the consumer is in handle_pending_tx
    todo,                   \* messages of `current` not yet admitted
    seen_ids,               \* off-chain file hashes seen by this consumer loop
    pending_messages,       \* PendingMessageDb rows, by logical key <<item, source>>
    message_status,         \* MessageStatusDb: item hash -> status
    message_confirmations,  \* <<item hash, tx hash>> rows
    tx_file_pins,           \* <<file hash, tx hash>> rows (upsert_tx_file_pin)
    crashes                 \* consumer crashes so far

consumer_vars == <<current, consumer, todo, seen_ids>>
db_vars == <<chain_txs, pending_txs, pending_messages, message_status,
             message_confirmations, tx_file_pins>>
vars == <<pending_tx_queue, consumer_vars, db_vars, crashes>>

Sources == Txs \cup {P2P}
Statuses == {None, "pending", "rejected"}

---------------------------------------------------------------------------
(* Mutant: the confirmation is written whatever the source, also for     *)
(* pub/sub ingress that carries no tx_hash.                               *)
add_pending_message_always_confirms(m, src) ==
    IF m \in Malformed
    THEN /\ message_status' =
              [message_status EXCEPT ![m] = IF @ = None THEN "rejected" ELSE @]
         /\ UNCHANGED <<pending_messages, message_confirmations>>
    ELSE /\ pending_messages' = pending_messages \cup {<<m, src>>}
         /\ message_status' =
              [message_status EXCEPT ![m] = IF @ = None THEN "pending" ELSE @]
         /\ message_confirmations' = message_confirmations \cup {<<m, src>>}

(* Message admission (spec 4.3, spec-modelled).  One committed            *)
(* transaction: a malformed dict only records its rejection; otherwise    *)
(* the pending row is inserted unless its logical key exists, the status  *)
(* row is created if absent, and a tx source gets its confirmation.       *)
add_pending_message(m, src) ==
    IF m \in Malformed
    THEN /\ message_status' =
              [message_status EXCEPT ![m] = IF @ = None THEN "rejected" ELSE @]
         /\ UNCHANGED <<pending_messages, message_confirmations>>
    ELSE /\ pending_messages' = pending_messages \cup {<<m, src>>}
         /\ message_status' =
              [message_status EXCEPT ![m] = IF @ = None THEN "pending" ELSE @]
         /\ message_confirmations' =
              IF src \in Txs THEN message_confirmations \cup {<<m, src>>}
                             ELSE message_confirmations

(* A chain connector records a new ChainTx, its PendingTx row, and        *)
(* publishes the tx hash on the pending-tx exchange.                      *)
incoming_chaindata(t) ==
    /\ t \notin chain_txs
    /\ chain_txs' = chain_txs \cup {t}
    /\ pending_txs' = pending_txs \cup {t}
    /\ pending_tx_queue' = pending_tx_queue \cup {t}
    /\ UNCHANGED <<consumer_vars, pending_messages, message_status,
                   message_confirmations, tx_file_pins, crashes>>

(* A message received on the IPFS pub/sub topic is admitted with no tx.   *)
incoming_channel(m) ==
    /\ add_pending_message(m, P2P)
    /\ UNCHANGED <<pending_tx_queue, consumer_vars, chain_txs, pending_txs,
                   tx_file_pins, crashes>>

---------------------------------------------------------------------------
(* Outcomes of get_tx_messages for the consumer.                          *)

(* Mutant: the PendingTx deletion sits inside `if messages:`, so an      *)
(* empty batch is acknowledged without being deleted.                     *)
ExpandedSkipsEmpty(t, msgs) ==
    /\ current' = t
    /\ consumer' = IF msgs = <<>> THEN "ack" ELSE "admit"
    /\ todo' = msgs

(* It returned `msgs`: admit them one by one, then delete the PendingTx.  *)
Expanded(t, msgs) ==
    /\ current' = t
    /\ consumer' = "admit"
    /\ todo' = msgs

(* Mutant: seen_ids outlives the exception (created once, outside the    *)
(* restart loop), keeping the file hash added before the failed fetch.    *)
RaisedKeepsSeen(t) ==
    /\ current' = None
    /\ consumer' = "idle"
    /\ todo' = <<>>
    /\ seen_ids' = IF TxContent[t].protocol = OffChain
                   THEN seen_ids \cup {TxContent[t].file} ELSE seen_ids

(* It raised: process() rejects the delivery without requeue, the         *)
(* exception ends process_pending_txs, and handle_txs_task restarts it    *)
(* with a fresh seen_ids set.                                             *)
Raised(t) ==
    /\ current' = None
    /\ consumer' = "idle"
    /\ todo' = <<>>
    /\ seen_ids' = {}

OnChainMessages(t) ==
    /\ TxContent[t].protocol = OnChain
    /\ \/ /\ TxContent[t].messages # Bad
          /\ Expanded(t, TxContent[t].messages)
          /\ UNCHANGED seen_ids
       \/ /\ TxContent[t].messages = Bad
          /\ Raised(t)
    /\ UNCHANGED tx_file_pins

SmartContractMessages(t) ==
    /\ TxContent[t].protocol = SmartContract
    /\ \/ /\ TxContent[t].messages # Bad
          /\ Expanded(t, TxContent[t].messages)
          /\ UNCHANGED seen_ids
       \/ /\ TxContent[t].messages = Bad
          /\ Raised(t)
    /\ UNCHANGED tx_file_pins

UnknownProtocol(t) ==
    /\ TxContent[t].protocol = Unknown
    /\ Raised(t)
    /\ UNCHANGED tx_file_pins

(* Mutant: upsert_tx_file_pin is called with the tx hash and the file     *)
(* hash swapped.                                                          *)
OffChainMessagesSwappedPin(t) ==
    LET f == TxContent[t].file
        pinned == IF IpfsEnabled THEN tx_file_pins \cup {<<t, f>>}
                                 ELSE tx_file_pins
    IN
    /\ TxContent[t].protocol = OffChain
    /\ \/ /\ f \in seen_ids
          /\ Expanded(t, <<>>)
          /\ UNCHANGED <<seen_ids, tx_file_pins>>
       \/ /\ f \notin seen_ids
          /\ Raised(t)
          /\ UNCHANGED tx_file_pins
       \/ /\ f \notin seen_ids
          /\ FileContent[f] # Bad
          /\ Expanded(t, FileContent[f])
          /\ seen_ids' = seen_ids \cup {f}
          /\ tx_file_pins' = pinned
       \/ /\ f \notin seen_ids
          /\ FileContent[f] # Bad
          /\ IpfsEnabled
          /\ Raised(t)
          /\ tx_file_pins' = pinned

(* The file hash is added to seen_ids before the fetch.  A fetch may fail *)
(* transiently (ContentCurrentlyUnavailable) or yield no `messages`; when *)
(* IPFS is enabled the stored file and tx_file_pin rows are committed     *)
(* before pin_hash, whose timeout is swallowed but whose other errors     *)
(* propagate.                                                             *)
OffChainMessages(t) ==
    LET f == TxContent[t].file
        pinned == IF IpfsEnabled THEN tx_file_pins \cup {<<f, t>>}
                                 ELSE tx_file_pins
    IN
    /\ TxContent[t].protocol = OffChain
    /\ \/ /\ f \in seen_ids
          /\ Expanded(t, <<>>)
          /\ UNCHANGED <<seen_ids, tx_file_pins>>
       \/ /\ f \notin seen_ids
          /\ Raised(t)
          /\ UNCHANGED tx_file_pins
       \/ /\ f \notin seen_ids
          /\ FileContent[f] # Bad
          /\ Expanded(t, FileContent[f])
          /\ seen_ids' = seen_ids \cup {f}
          /\ tx_file_pins' = pinned
       \/ /\ f \notin seen_ids
          /\ FileContent[f] # Bad
          /\ IpfsEnabled
          /\ Raised(t)
          /\ tx_file_pins' = pinned

(* The consumer takes a delivery and runs handle_pending_tx on it.  A tx  *)
(* that is no longer pending is acknowledged at once.                     *)
handle_pending_tx(t) ==
    /\ consumer = "idle"
    /\ t \in pending_tx_queue
    /\ pending_tx_queue' = pending_tx_queue \ {t}
    /\ \/ /\ t \notin pending_txs
          /\ UNCHANGED <<consumer_vars, tx_file_pins>>
       \/ /\ t \in pending_txs
          /\ \/ OnChainMessages(t)
             \/ OffChainMessages(t)
             \/ SmartContractMessages(t)
             \/ UnknownProtocol(t)
    /\ UNCHANGED <<chain_txs, pending_txs, pending_messages, message_status,
                   message_confirmations, crashes>>

(* The loop over the returned messages: one add_pending_message call,     *)
(* committed in its own session.                                          *)
admit_message ==
    /\ consumer = "admit"
    /\ todo # <<>>
    /\ add_pending_message(Head(todo), current)
    /\ todo' = Tail(todo)
    /\ UNCHANGED <<pending_tx_queue, current, consumer, seen_ids, chain_txs,
                   pending_txs, tx_file_pins, crashes>>

(* Mutant: the PendingTx row is deleted and the delivery acknowledged     *)
(* without waiting for the admission loop to finish.                      *)
delete_pending_tx_early ==
    /\ consumer = "admit"
    /\ pending_txs' = pending_txs \ {current}
    /\ consumer' = "ack"
    /\ UNCHANGED <<pending_tx_queue, current, todo, seen_ids, chain_txs,
                   pending_messages, message_status, message_confirmations,
                   tx_file_pins, crashes>>

(* `messages is not None`: delete the PendingTx row and commit.           *)
delete_pending_tx ==
    /\ consumer = "admit"
    /\ todo = <<>>
    /\ pending_txs' = pending_txs \ {current}
    /\ consumer' = "ack"
    /\ UNCHANGED <<pending_tx_queue, current, todo, seen_ids, chain_txs,
                   pending_messages, message_status, message_confirmations,
                   tx_file_pins, crashes>>

(* process() exits normally and acknowledges the delivery.                *)
ack ==
    /\ consumer = "ack"
    /\ current' = None
    /\ consumer' = "idle"
    /\ UNCHANGED <<pending_tx_queue, todo, seen_ids, db_vars, crashes>>

(* Mutant: deliveries are consumed without acknowledgement (no_ack), so  *)
(* a crash loses the delivery in hand.                                    *)
crashLosesDelivery ==
    /\ crashes < MaxCrashes
    /\ crashes' = crashes + 1
    /\ UNCHANGED pending_tx_queue
    /\ current' = None
    /\ consumer' = "idle"
    /\ todo' = <<>>
    /\ seen_ids' = {}
    /\ UNCHANGED db_vars

(* The consumer process dies: the broker requeues the unacknowledged      *)
(* delivery, the in-memory seen_ids window is lost, committed rows stay.  *)
crash ==
    /\ crashes < MaxCrashes
    /\ crashes' = crashes + 1
    /\ pending_tx_queue' = IF current = None THEN pending_tx_queue
                                             ELSE pending_tx_queue \cup {current}
    /\ current' = None
    /\ consumer' = "idle"
    /\ todo' = <<>>
    /\ seen_ids' = {}
    /\ UNCHANGED db_vars

---------------------------------------------------------------------------
Init ==
    /\ chain_txs = {}
    /\ pending_txs = {}
    /\ pending_tx_queue = {}
    /\ current = None
    /\ consumer = "idle"
    /\ todo = <<>>
    /\ seen_ids = {}
    /\ pending_messages = {}
    /\ message_status = [m \in Msgs |-> None]
    /\ message_confirmations = {}
    /\ tx_file_pins = {}
    /\ crashes = 0

ConsumerStep ==
    \/ \E t \in Txs : handle_pending_tx(t)
    \/ admit_message
    \/ delete_pending_tx
    \/ ack

Next ==
    \/ \E t \in Txs : incoming_chaindata(t)
    \/ \E m \in Msgs : incoming_channel(m)
    \/ ConsumerStep
    \/ crash

(* handle_txs_task loops forever and restarts process_pending_txs after  *)
(* any exception, so the consumer is weakly fair; the environment (chain *)
(* connectors, peers) and crashes are not.                               *)
Spec == Init /\ [][Next]_vars /\ WF_vars(ConsumerStep)

---------------------------------------------------------------------------
TypeOK ==
    /\ chain_txs \subseteq Txs
    /\ pending_txs \subseteq Txs
    /\ pending_tx_queue \subseteq Txs
    /\ current \in Txs \cup {None}
    /\ consumer \in {"idle", "admit", "ack"}
    /\ todo \in Seq(Msgs)
    /\ seen_ids \subseteq Files
    /\ pending_messages \subseteq Msgs \X Sources
    /\ message_status \in [Msgs -> Statuses]
    /\ message_confirmations \subseteq Msgs \X Txs
    /\ tx_file_pins \subseteq Files \X Txs
    /\ crashes \in 0..MaxCrashes

(* The messages a tx carries when get_tx_messages can decode it.          *)
Carried(t) ==
    LET c == TxContent[t] IN
    CASE c.protocol \in {OnChain, SmartContract} /\ c.messages # Bad
           -> Range(c.messages)
      [] c.protocol = OffChain /\ FileContent[c.file] # Bad
           -> Range(FileContent[c.file])
      [] OTHER -> {}

(* A tx whose content never makes get_tx_messages raise.                  *)
Decodable(t) ==
    TxContent[t].protocol \in {OnChain, SmartContract} /\ TxContent[t].messages # Bad

(* Safety: a PendingTx row is only deleted once every message its         *)
(* transaction carries has been admitted, even when the consumer crashes  *)
(* mid-batch or skips a re-seen off-chain file (handle_pending_tx,        *)
(* _get_tx_messages_off_chain_protocol's seen_ids window).                *)
ExpandedTxAdmitted ==
    \A t \in chain_txs \ pending_txs :
        \A m \in Carried(t) : message_status[m] # None

(* Safety: while a decodable tx is pending, a delivery of it is queued or *)
(* held by the consumer, so it cannot be forgotten by the broker (ack     *)
(* after delete, requeue of the unacked delivery on a crash).             *)
DecodableTxDeliverable ==
    \A t \in pending_txs :
        Decodable(t) => t \in pending_tx_queue \/ current = t

(* The spec (4.2): a tx whose content cannot be obtained stays pending and *)
(* "redelivery will retry": every pending tx keeps a delivery.             *)
NoOrphanPendingTx ==
    \A t \in pending_txs : t \in pending_tx_queue \/ current = t

(* Liveness: every decodable tx recorded on chain is eventually expanded  *)
(* and its PendingTx row deleted.                                         *)
TxEventuallyExpanded ==
    \A t \in Txs : (t \in pending_txs /\ Decodable(t)) ~> t \notin pending_txs

(* A message is admitted once it has a MessageStatus row.                *)
Admitted == {m \in Msgs : message_status[m] # None}

---------------------------------------------------------------------------
(* The consumer's bookkeeping, which makes DecodableTxDeliverable         *)
(* inductive: the consumer holds a delivery exactly when it is not idle,  *)
(* that delivery is of a recorded tx, and once its PendingTx row is       *)
(* deleted it is no longer pending (only the consumer deletes, and a       *)
(* recorded tx is never recorded again).                                  *)
ConsumerInv ==
    /\ pending_txs \subseteq chain_txs
    /\ (consumer = "idle") <=> (current = None)
    /\ current # None => current \in chain_txs
    /\ consumer = "ack" => current \notin pending_txs

IInv == TypeOK /\ ConsumerInv /\ DecodableTxDeliverable

=============================================================================
