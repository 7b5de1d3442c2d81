----------------------------- MODULE ChainSync -----------------------------
(***************************************************************************)
(* The chain-sync envelope (src/aleph/chains/chaindata.py): the outgoing   *)
(* encoder get_chaindata, which posts a batch of messages inline or, past  *)
(* bulk_threshold characters, uploads the envelope to IPFS and posts its   *)
(* hash; and the incoming decoder get_tx_messages, on a tx whose content   *)
(* the chain connector (not under src/) took from the posted envelope's    *)
(* `content` field, as the spec (4.1) has it: the hash H for off-chain     *)
(* sync.                                                                   *)
(*                                                                         *)
(* JSON objects are records; json.dumps is modelled by its length, which   *)
(* is what the threshold test reads; add_json's content hash is a tagged   *)
(* copy of the object (content addressing is injective).                   *)
(***************************************************************************)
EXTENDS Naturals, Sequences, SequencesExt

CONSTANTS
    Msgs,           \* item hashes of the messages a node posts
    Times,          \* message times (epoch seconds)
    MsgSize,        \* len(json.dumps(message_to_dict(m))) of each message
    Overhead,       \* len(json.dumps(chaindata)) with an empty `messages`
    Thresholds,     \* bulk_threshold values the callers use
    MaxBatch,       \* bound on the messages of one batch
    OnChain, OffChain, KeyError

VARIABLES
    ipfs,       \* JSON objects uploaded with add_json
    posted      \* <<batch sent, envelope posted on chain>> pairs

vars == <<ipfs, posted>>

(* A MessageDb row as get_chaindata reads it, its columns other than the *)
(* INCOMING_MESSAGE_AUTHORIZED_FIELDS left out; `time` is a datetime.     *)
MessageDb == [item_hash : Msgs, time : [epoch : Times]]

Batches == BoundedSeq(MessageDb, MaxBatch)

(* message_to_dict: keep the authorized fields and turn the datetime     *)
(* into its epoch.                                                        *)
message_to_dict(m) == [item_hash |-> m.item_hash, time |-> m.time.epoch]

(* len(json.dumps(chaindata)): the list's items joined by ", ".           *)
JsonLength(dicts) ==
    Overhead
    + FoldLeft(LAMBDA acc, d : acc + MsgSize[d.item_hash], 0, dicts)
    + (IF dicts = <<>> THEN 0 ELSE 2 * (Len(dicts) - 1))

(* The content hash add_json returns for an object.                       *)
Cid(obj) == <<"cid", obj>>

Chaindata(msgs) ==
    [protocol |-> OnChain, version |-> 1,
     content |-> [messages |-> [i \in 1..Len(msgs) |-> message_to_dict(msgs[i])]]]

(* get_chaindata: the envelope to post, and what it uploads first.        *)
get_chaindata(msgs, T) ==
    LET chaindata == Chaindata(msgs) IN
    IF JsonLength(chaindata.content.messages) > T
    THEN [env |-> [protocol |-> OffChain, version |-> 1, content |-> Cid(chaindata)],
          upload |-> {chaindata}]
    ELSE [env |-> chaindata, upload |-> {}]

(* A node posts a batch of messages on chain.                             *)
post_batch(msgs, T) ==
    LET out == get_chaindata(msgs, T) IN
    /\ ipfs' = ipfs \cup out.upload
    /\ posted' = posted \cup {<<msgs, out.env>>}

---------------------------------------------------------------------------
(* The decoder.  tx.content is the envelope's `content` (spec-modelled).  *)

(* _get_sync_messages: tx_content["messages"], a KeyError when absent.    *)
GetSyncMessages(obj) ==
    IF "messages" \in DOMAIN obj THEN obj.messages ELSE KeyError

(* get_tx_messages on the (protocol, content) of a posted envelope.  The  *)
(* off-chain branch fetches the object behind the hash (get_json) and    *)
(* reads its `messages`.                                                  *)
get_tx_messages(env) ==
    CASE env.protocol = OnChain -> GetSyncMessages(env.content)
      [] env.protocol = OffChain /\ env.content[2] \in ipfs
           -> GetSyncMessages(env.content[2])

---------------------------------------------------------------------------
Init ==
    /\ ipfs = {}
    /\ posted = {}

Next == \E msgs \in Batches, T \in Thresholds : post_batch(msgs, T)

Spec == Init /\ [][Next]_vars

(* The spec (P6): decoding what get_chaindata posted gives back the       *)
(* message dicts of the batch, whether or not the envelope went through   *)
(* IPFS.                                                                  *)
RoundTrip ==
    \A p \in posted :
        get_tx_messages(p[2]) = [i \in 1..Len(p[1]) |-> message_to_dict(p[1][i])]

=============================================================================
