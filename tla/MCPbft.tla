------------------------------- MODULE MCPbft -------------------------------
(* Pbft for TLC: up to four replicas, three of them backups, and few clients.  *)
EXTENDS Pbft, TLC

CONSTANTS p, b1, b2, b3, c1, c2, c3

(* The blocks that hold one command.                                           *)
OneCommandBlocks == {{x} : x \in Command}

(* Correct backups behave alike, and so do clients.                            *)
PairSymmetry == Permutations({b1, b2})
ClientSymmetry == Permutations(Client)
EquivocateSymmetry == Permutations({b1, b2, b3}) \cup Permutations({c1, c2})
=============================================================================
