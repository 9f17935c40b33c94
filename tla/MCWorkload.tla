----------------------------- MODULE MCWorkload -----------------------------
(* Workload for TLC.                                                          *)
EXTENDS Workload

CONSTANTS r1, r2, r3

(* A close loop with too little and with enough room in the commit channel, and an *)
(* open loop.                                                                     *)
MCWorkloads ==
  {[loop |-> "CloseLoop", capacity |-> 1], [loop |-> "CloseLoop", capacity |-> 2],
   [loop |-> "OpenLoop", capacity |-> 1]}
=============================================================================
