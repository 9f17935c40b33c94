---------------------------- MODULE MCCommandPool ----------------------------
(* CommandPool for TLC.                                                       *)
EXTENDS CommandPool

CONSTANTS c1, c2, c3
=============================================================================
