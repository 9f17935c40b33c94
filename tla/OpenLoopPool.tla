---------------------------- MODULE OpenLoopPool ----------------------------
(* The open loop command pool of src/command/pool.rs: one queue for the commands *)
(* of all clients, of which a client may have several, and for each client the     *)
(* highest seq that was pushed or committed. Unlike the close loop pool it drops    *)
(* commands: the oldest when the queue is full, and all but the newest when a       *)
(* batch is closed. CommandPool gives it its constants.                            *)
EXTENDS Naturals, SequencesExt

CONSTANTS Client,          \* the ids of the open loop clients
          MaxSeq,          \* bound: clients number their commands 1..MaxSeq
          MaxBatchSize,    \* the argument the replica gives to close_batch
          MaxLen           \* MAX_LEN, 5000 in the code

VARIABLES
  pendingBuf,    \* the pending commands, oldest first
  clientSeqs,    \* client -> highest seq pushed or committed, 0 if none
  accepted,      \* history: the commands for which push has returned true
  batched        \* history: every command close_batch has returned

vars == <<pendingBuf, clientSeqs, accepted, batched>>

Command == [client : Client, seq : 1..MaxSeq]

Init ==
  /\ pendingBuf = <<>>
  /\ clientSeqs = [c \in Client |-> 0]
  /\ accepted = <<>> /\ batched = <<>>

(* A full queue loses its oldest command.                                          *)
OldestLost(buf) == IF Len(buf) = MaxLen THEN Tail(buf) ELSE buf

Push(command) ==
  LET c == command.client
  IN  \/ clientSeqs[c] >= command.seq /\ UNCHANGED vars
      \/ /\ clientSeqs[c] < command.seq
         /\ clientSeqs' = [clientSeqs EXCEPT ![c] = command.seq]
         /\ pendingBuf' = Append(OldestLost(pendingBuf), command)
         /\ accepted' = Append(accepted, command)
         /\ UNCHANGED batched

(* The newest MaxBatchSize commands are returned, and the others are dropped.       *)
FirstOf(buf) == SubSeq(buf, 1, IF Len(buf) < MaxBatchSize THEN Len(buf) ELSE MaxBatchSize)
NewestOf(buf) ==
  SubSeq(buf, IF Len(buf) < MaxBatchSize THEN 1 ELSE Len(buf) - MaxBatchSize + 1, Len(buf))

CloseBatch ==
  /\ pendingBuf # <<>>
  /\ batched' = batched \o NewestOf(pendingBuf)
  /\ pendingBuf' = <<>>
  /\ UNCHANGED <<clientSeqs, accepted>>

(* A committed command, and older ones of its client, are not accepted any more. If *)
(* they are pending they stay, and are returned.                                   *)
Raised(command) ==
  [clientSeqs EXCEPT ![command.client] = IF @ < command.seq THEN command.seq ELSE @]

Commit(command) ==
  /\ clientSeqs' = Raised(command)
  /\ UNCHANGED <<pendingBuf, accepted, batched>>

-----------------------------------------------------------------------------
(* What the comments of the pool promise. "If a command is pushed later than the     *)
(* other one, it will not be returned by close_batch earlier"; a command that was     *)
(* pushed or committed is not returned for another push; "the maximum size of open    *)
(* loop pool is MAX_LEN"; and a command that is dropped has at least as many newer    *)
(* ones as fill a batch, so that the pool loses commands only under load.            *)
Promises ==
  LET kept == batched \o pendingBuf IN
  /\ \A i \in DOMAIN kept : \A j \in 1..i :
       \E m \in DOMAIN accepted : \E l \in 1..m :
         (l < m <=> j < i) /\ accepted[m] = kept[i] /\ accepted[l] = kept[j]
  /\ \A i \in DOMAIN accepted : \A j \in 1..(i - 1) :
       accepted[j].client = accepted[i].client => accepted[j].seq < accepted[i].seq
  /\ Len(pendingBuf) <= MaxLen
  /\ \A i \in DOMAIN accepted :
       accepted[i] \notin ToSet(kept) => Len(accepted) - i >= MaxBatchSize
=============================================================================
