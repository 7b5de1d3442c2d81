---------------------------- MODULE MCChainSync ----------------------------
(* Two messages of one time, batches of up to two; every message dict is *)
(* 10 characters and the empty envelope 50, so batches are 50, 60 or 72  *)
(* characters long and the threshold 60 sends every two-message batch  *)
(* off-chain.                                                            *)
EXTENDS ChainSync, TLC

CONSTANTS m1, m2

MCMsgSize == (m1 :> 10) @@ (m2 :> 10)
=============================================================================
