--------------------------- MODULE MCInterconnect ---------------------------
(* Interconnect for TLC.                                                      *)
EXTENDS Interconnect

Plan(kind, n, sizes, wireUnits, events0, events1, events2) ==
  [transport |-> kind, member |-> 0..(n - 1), sizes |-> sizes, wire |-> wireUnits,
   events |-> [r \in Replica |-> <<events0, events1, events2>>[r + 1]]]

(* Two replicas with enough messages to fill everything between them; messages that *)
(* come in parts, with QUIC in any order; messages that are too large; three replicas. *)
MCPlans ==
  {Plan("quic", 2, {2}, 1, 5, 5, 0), Plan("tcp", 2, {1, 2}, 2, 3, 1, 0),
   Plan("quic", 2, {1, 2}, 3, 3, 0, 0), Plan("quic", 2, {3}, 1, 1, 1, 0),
   Plan("tcp", 2, {2, 3}, 2, 2, 0, 0),
   Plan("quic", 3, {1}, 1, 1, 0, 0), Plan("tcp", 3, {1}, 1, 0, 0, 0)}
=============================================================================
