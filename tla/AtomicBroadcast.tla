-------------------------- MODULE AtomicBroadcast --------------------------
(* What a replication protocol of this repository promises to the services    *)
(* above it through ReplicaAction::Finalize (src/replica.rs): the correct      *)
(* replicas hand out the blocks of one growing log, in its order, none left    *)
(* out, each at its own pace.                                                  *)
EXTENDS Naturals, Sequences

CONSTANTS Replica,      \* the correct replicas
          NoBlock,      \* stands where there is no block
          MaxRun        \* how many blocks a replica may hand out at once

VARIABLES log,        \* the blocks that are final
          delivered   \* delivered[r]: how many of them replica r has handed out

vars == <<log, delivered>>

Init ==
  /\ log = <<>>
  /\ delivered = [r \in Replica |-> 0]

(* r hands out the next blocks of the log.                                     *)
CatchUp(r) ==
  /\ \E n \in delivered[r] + 1 .. Len(log) : delivered' = [delivered EXCEPT ![r] = n]
  /\ UNCHANGED log

(* r is the first to hand out blocks, and by that makes them final.            *)
Extend(r) ==
  /\ \E size \in 1..MaxRun : Len(log') = Len(log) + size
  /\ SubSeq(log', 1, Len(log)) = log
  /\ \A i \in DOMAIN log' : log'[i] # NoBlock
  /\ delivered' = [delivered EXCEPT ![r] = Len(log')]

Next == \E r \in Replica : CatchUp(r) \/ Extend(r)

Spec == Init /\ [][Next]_vars
=============================================================================
