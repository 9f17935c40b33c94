---------------------------- MODULE AbstractPool ----------------------------
(* What a close loop command pool promises to the replica that owns it       *)
(* (src/command/pool.rs, module close_loop), with no queue and no offsets: at *)
(* most one pending command per client, never a command that is not newer     *)
(* than what was submitted for its client, and batches that hold as many      *)
(* pending commands as they may, in some order.                               *)
EXTENDS Naturals, Sequences

CONSTANTS Client,        \* the ids of the close loop clients
          MaxSeq,        \* bound: clients number their commands 1..MaxSeq
          MaxBatchSize   \* the argument the replica gives to close_batch

VARIABLES
  pending,    \* pending[c]: seq of the command of c that waits, 0 if none
  submitted,  \* submitted[c]: highest seq returned or committed for c, 0 if none
  returned    \* every command close_batch has returned, in order

vars == <<pending, submitted, returned>>

Command == [client : Client, seq : 1..MaxSeq]

PendingCommands ==
  {[client |-> c, seq |-> pending[c]] : c \in {d \in Client : pending[d] # 0}}

Init ==
  /\ pending = [c \in Client |-> 0]
  /\ submitted = [c \in Client |-> 0]
  /\ returned = <<>>

(* A command is accepted when it is newer than everything the pool knows of  *)
(* its client; it replaces the pending one.                                   *)
Push(command) ==
  /\ command.seq > submitted[command.client]
  /\ command.seq > pending[command.client]
  /\ pending' = [pending EXCEPT ![command.client] = command.seq]
  /\ UNCHANGED <<submitted, returned>>

(* Some pending commands leave for a batch: MaxBatchSize of them, or all.     *)
CloseBatch ==
  \E size \in 1..MaxBatchSize : \E batch \in [1..size -> PendingCommands] :
    /\ \A i, j \in 1..size : batch[i].client = batch[j].client => i = j
    /\ size = MaxBatchSize \/ \A p \in PendingCommands : \E i \in 1..size : batch[i] = p
    /\ pending' = [c \in Client |->
                     IF \E i \in 1..size : batch[i].client = c THEN 0 ELSE pending[c]]
    /\ submitted' = [c \in Client |->
                       IF \E i \in 1..size : batch[i].client = c THEN pending[c]
                                                                 ELSE submitted[c]]
    /\ returned' = returned \o batch

(* A command known to be committed makes every older one of its client stale. *)
Commit(command) ==
  LET c == command.client
  IN  /\ submitted' = [submitted EXCEPT ![c] = IF @ < command.seq THEN command.seq ELSE @]
      /\ pending' = [pending EXCEPT ![c] = IF @ <= command.seq THEN 0 ELSE @]
      /\ UNCHANGED returned

Next ==
  \/ \E command \in Command : Push(command) \/ Commit(command)
  \/ CloseBatch

Spec == Init /\ [][Next]_vars
=============================================================================
