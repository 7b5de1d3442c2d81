------------------------- MODULE MCPendingMessages -------------------------
(* Small instances of PendingMessages for TLC.                             *)
EXTENDS PendingMessages, TLC

CONSTANTS r1, r2, r3, m1, m2, c1, Post, Store

(* Two confirmations of m1 on chain c1 at heights 1 and 2, which the      *)
(* cleanup tells apart, and m2 received over pub/sub.                     *)
MCRowMsg == (r1 :> m1) @@ (r2 :> m1) @@ (r3 :> m2)
MCRowChain == (r1 :> c1) @@ (r2 :> c1) @@ (r3 :> None)
MCRowHeight == (r1 :> 1) @@ (r2 :> 2) @@ (r3 :> None)
MCMsgType == (m1 :> Post) @@ (m2 :> Store)
MCSemValue == [t \in {Post, Store} |-> 1]

(* The default sem_value = max_concurrency (2) of init_semaphores.         *)
DefaultSemValue == [t \in {Post, Store} |-> 2]

(* Three confirmations of m1 on c1, two of them at height 2: the same     *)
(* logical key twice, which the insertion does not rule out (the TODO on *)
(* unicity in process_pending_messages.py).                               *)
SharedRowMsg == (r1 :> m1) @@ (r2 :> m1) @@ (r3 :> m1)
SharedRowChain == (r1 :> c1) @@ (r2 :> c1) @@ (r3 :> c1)
SharedRowHeight == (r1 :> 1) @@ (r2 :> 2) @@ (r3 :> 2)

(* asyncio runs a ready task at the loop's next await: a task of this call *)
(* waiting on a semaphore that has a free slot acquires it before the scan *)
(* loop takes its next step.                                               *)
SemFree(t) ==
    Cardinality({u \in tasks : /\ u.phase = "run" /\ u.orphan = t.orphan
                              /\ MsgType[RowMsg[u.row]] = MsgType[RowMsg[t.row]]})
      < SemValue[MsgType[RowMsg[t.row]]]

EagerAcquire == LoopStep => \A t \in Live : t.phase = "sem" => ~SemFree(t)
=============================================================================
