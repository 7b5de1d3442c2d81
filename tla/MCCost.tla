------------------------------- MODULE MCCost -------------------------------
(* Two references, files of 1, 20 and 60 GiB, one extra volume of 10 or  *)
(* 40 GiB: volume totals fall below, between and above the free          *)
(* allowances of one and two vCPUs of either kind of VM.                 *)
EXTENDS Cost, TLC

CONSTANTS r1, r2
=============================================================================
