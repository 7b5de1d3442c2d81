---------------------------- MODULE MCPendingTxs ----------------------------
(* Small instances of PendingTxs for TLC.                                  *)
EXTENDS PendingTxs

CONSTANTS t1, t2, t3, t4, m1, m2, f1

(* Two off-chain txs that reference the same sync file, so that the      *)
(* seen_ids window skips the second; a smart-contract STORE_IPFS tx; an    *)
(* on-chain tx whose `messages` is not a list.                            *)
MCTxContent ==
    [t \in {t1, t2, t3, t4} |->
        CASE t \in {t1, t2} -> [protocol |-> OffChain, messages |-> Bad, file |-> f1]
          [] t = t3 -> [protocol |-> SmartContract, messages |-> <<m2>>, file |-> None]
          [] t = t4 -> [protocol |-> OnChain, messages |-> Bad, file |-> None]]

(* An empty on-chain batch, an on-chain batch carrying a malformed message, *)
(* an unparsable smart-contract payload and an unknown protocol.           *)
MCTxContentB ==
    [t \in {t1, t2, t3, t4} |->
        CASE t = t1 -> [protocol |-> OnChain, messages |-> <<>>, file |-> None]
          [] t = t2 -> [protocol |-> OnChain, messages |-> <<m1, m2>>, file |-> None]
          [] t = t3 -> [protocol |-> SmartContract, messages |-> Bad, file |-> None]
          [] t = t4 -> [protocol |-> Unknown, messages |-> Bad, file |-> None]]

MCFileContent == [f \in {f1} |-> <<m1, m2>>]
=============================================================================
