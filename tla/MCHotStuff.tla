----------------------------- MODULE MCHotStuff -----------------------------
(* HotStuff for TLC.                                                          *)
EXTENDS HotStuff

CONSTANTS c1, c2
=============================================================================
