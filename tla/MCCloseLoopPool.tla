-------------------------- MODULE MCCloseLoopPool --------------------------
(* CloseLoopPool for TLC.                                                     *)
EXTENDS CloseLoopPool

CONSTANTS c1, c2, c3
=============================================================================
