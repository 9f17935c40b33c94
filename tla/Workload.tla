------------------------------ MODULE Workload ------------------------------
(* The workloads of src/workload.rs: one driver task and the client tasks of     *)
(* pbft/transport.rs, hotstuff/transport.rs and unreplicated.rs, which talk over  *)
(* channels of bounded capacity. The driver sends Invoke to a client over the     *)
(* client's own channel; all clients report their commits over one. In a close    *)
(* loop a commit is answered with the next Invoke, in an open loop the driver     *)
(* invokes the clients in turn, on a timer. The run ends some time after its      *)
(* deadline. A client commits a request when it has the same result under the ids  *)
(* of num_faulty + 1 replicas; the id is what a reply says it is, and faulty       *)
(* replicas reply whatever, as whomever and as often as they like. The run fails    *)
(* when the task of a client does.                                                 *)
EXTENDS Integers, Sequences, SequencesExt, FiniteSets

CONSTANTS NumClient,        \* Config::num_client
          InvokeCapacity,   \* of each invoke channel, 100 in the code
          MaxInflight,      \* OpenLoopClientConfig::num_max_inflight
          Workloads,        \* the workloads to consider: CloseLoop or OpenLoop, and
                            \* the capacity of the commit channel, 100 in the code
          Replica,          \* the replicas of a replicated service
          Id,               \* the ids that a reply can name, theirs among them
          Faulty,           \* the replicas that are faulty
          NumFaulty         \* Spec::num_faulty

(* The clients in the order in which the map of their senders is iterated.        *)
Client == 1..NumClient

ASSUME NumClientAssumption == NumClient \in Nat \ {0}
ASSUME CapacityAssumption == InvokeCapacity \in Nat \ {0}
ASSUME MaxInflightAssumption == MaxInflight \in Nat \ {0}
ASSUME WorkloadsAssumption ==
  \A w \in Workloads : w.loop \in {"CloseLoop", "OpenLoop"} /\ w.capacity \in Nat \ {0}
ASSUME FaultyAssumption ==
  /\ Replica \subseteq Id /\ Faulty \subseteq Replica /\ Faulty # Replica /\ NumFaulty \in Nat
  /\ IsFiniteSet(Faulty) /\ Cardinality(Faulty) <= NumFaulty

VARIABLES
  loop,         \* which workload this is
  replicated,   \* whether the service is replicated, or a single correct server
  commitCapacity,
  phase,        \* of the driver: starting, running, sending, joining, done, failed
  turn,         \* the client that is invoked next by turns
  receiver,     \* the client that the driver sends to, while it is sending
  invokes,      \* invokes[c]: how many Invoke wait in the channel of c
  commits,      \* the commit channel
  state,        \* state[c]: of the task of c: selecting, committing, exited, failed
  scratch,      \* scratch[c]: the results of each entry of seq_scratch of c, oldest first
  posed,        \* history: the clients that took a wrong result under the id of a
                \* replica that is not faulty, or of none
  cut           \* history: the clients that a connection of theirs failed

config == <<loop, replicated, commitCapacity>>
vars == <<config, phase, turn, receiver, invokes, commits, state, scratch, posed, cut>>

Init ==
  /\ \E w \in Workloads : loop = w.loop /\ commitCapacity = w.capacity
  /\ replicated \in BOOLEAN
  /\ phase = IF loop = "CloseLoop" THEN "starting" ELSE "running"
  /\ turn = 1 /\ receiver = 1
  /\ invokes = [c \in Client |-> 0]
  /\ commits = <<>>
  /\ state = [c \in Client |-> "selecting"]
  /\ scratch = [c \in Client |-> <<>>]
  /\ posed = {} /\ cut = {}

-----------------------------------------------------------------------------
(* The driver.                                                                  *)

After(c) == IF c = NumClient THEN 1 ELSE c + 1

(* A close loop starts with one Invoke to every client.                          *)
Start ==
  /\ phase = "starting"
  /\ state[turn] # "failed" /\ invokes[turn] < InvokeCapacity
  /\ invokes' = [invokes EXCEPT ![turn] = @ + 1]
  /\ turn' = After(turn)
  /\ phase' = IF turn = NumClient THEN "running" ELSE phase
  /\ UNCHANGED <<config, receiver, commits, state, scratch, posed, cut>>

(* Receive a commit: in a close loop, the next Invoke goes to its client.         *)
InvokedInTurn(c) == After(c)
InvokedNext(c) == c

TakeCommit ==
  /\ phase = "running"
  /\ commits # <<>>
  /\ commits' = Tail(commits)
  /\ IF loop = "CloseLoop"
     THEN /\ phase' = "sending"
          /\ receiver' = InvokedNext(Head(commits))
     ELSE UNCHANGED <<phase, receiver>>
  /\ UNCHANGED <<config, turn, invokes, state, scratch, posed, cut>>

(* The timer of the open loop.                                                   *)
Sleep ==
  /\ loop = "OpenLoop"
  /\ phase = "running"
  /\ phase' = "sending"
  /\ receiver' = turn
  /\ turn' = After(turn)
  /\ UNCHANGED <<config, invokes, commits, state, scratch, posed, cut>>

(* The driver does nothing else until there is room in the channel.               *)
SendInvoke ==
  /\ phase = "sending"
  /\ state[receiver] # "failed" /\ invokes[receiver] < InvokeCapacity
  /\ invokes' = [invokes EXCEPT ![receiver] = @ + 1]
  /\ phase' = "running" /\ receiver' = 1
  /\ UNCHANGED <<config, turn, commits, state, scratch, posed, cut>>

(* The timeout of the select: it is polled only when the loop is at its top. The  *)
(* driver drops its senders, and only waits for the clients from then on.         *)
Deadline ==
  /\ phase = "running"
  /\ phase' = "joining"
  /\ UNCHANGED <<config, turn, receiver, invokes, commits, state, scratch, posed, cut>>

Join ==
  /\ phase = "joining"
  /\ \A c \in Client : state[c] = "exited"
  /\ phase' = "done"
  /\ UNCHANGED <<config, turn, receiver, invokes, commits, state, scratch, posed, cut>>

(* The driver takes the error of a task that it joins, and gets one when it sends   *)
(* to a client whose task is over. The run ends with it, and all its tasks.        *)
RunFails ==
  /\ \/ phase \in {"running", "joining"} /\ \E c \in Client : state[c] = "failed"
     \/ phase = "starting" /\ state[turn] = "failed"
     \/ phase = "sending" /\ state[receiver] = "failed"
  /\ phase' = "failed"
  /\ UNCHANGED <<config, turn, receiver, invokes, commits, state, scratch, posed, cut>>

-----------------------------------------------------------------------------
(* The task of client c selects between Invoke, replies and its connections.      *)
At(c, s) == state[c] = s /\ phase # "failed"

(* A close loop client has no outstanding request here, or it fails. An open loop *)
(* client forgets the oldest when there are MaxInflight.                          *)
NoResult == [q \in Id |-> "none"]
WithNewRequest(entries) ==
  Append(IF loop = "OpenLoop" /\ Len(entries) = MaxInflight THEN Tail(entries) ELSE entries,
         NoResult)

TakeInvoke(c) ==
  /\ At(c, "selecting")
  /\ invokes[c] > 0
  /\ invokes' = [invokes EXCEPT ![c] = @ - 1]
  /\ IF loop = "CloseLoop" /\ scratch[c] # <<>>
     THEN state' = [state EXCEPT ![c] = "failed"] /\ UNCHANGED scratch
     ELSE scratch' = [scratch EXCEPT ![c] = WithNewRequest(@)] /\ UNCHANGED state
  /\ UNCHANGED <<config, phase, turn, receiver, commits, posed, cut>>

(* A reply under id q with result v comes for the ith outstanding request: the first *)
(* under that id or another one. Nothing proves the id: that of a correct replica is *)
(* its own, that of a faulty one any. A client of a single server takes what that    *)
(* says. A request that is not outstanding any more, or not yet, is ignored. Every   *)
(* driver of the code expects a certain result, and the client fails when it gets    *)
(* another.                                                                        *)
FaultyThreshold == IF replicated /\ NumFaulty > 0 THEN NumFaulty ELSE 1
Threshold == IF replicated THEN NumFaulty + 1 ELSE 1
SingleServer == CHOOSE r \in Replica : r \notin Faulty
Server == IF replicated THEN Replica ELSE {SingleServer}
CanReply(q, v) ==
  \E r \in Server : r \in Faulty \/ (q = r /\ v = "right")
Matching(results, v) == Cardinality({q \in Id : results[q] = v})

TakeReply(c, i, q, v) ==
  /\ At(c, "selecting")
  /\ i \in DOMAIN scratch[c] /\ CanReply(q, v)
  /\ LET results == [scratch[c][i] EXCEPT ![q] = v] IN
       \/ /\ Matching(results, v) # Threshold
          /\ scratch' = [scratch EXCEPT ![c][i] = results]
          /\ UNCHANGED state
       \/ /\ Matching(results, v) = Threshold
          /\ scratch' = [scratch EXCEPT ![c] = RemoveAt(@, i)]
          /\ state' = [state EXCEPT ![c] = IF v = "right" THEN "committing" ELSE "failed"]
  /\ posed' = IF v = "wrong" /\ q \notin Faulty THEN posed \cup {c} ELSE posed
  /\ UNCHANGED <<config, phase, turn, receiver, invokes, commits, cut>>

(* A connection of the client ends, or its channel is closed when the client writes. *)
Cut(c) ==
  /\ At(c, "selecting")
  /\ state' = [state EXCEPT ![c] = "failed"]
  /\ cut' = cut \cup {c}
  /\ UNCHANGED <<config, phase, turn, receiver, invokes, commits, scratch, posed>>

(* commit waits for room in the commit channel, and the client with it.           *)
Commit(c) ==
  /\ At(c, "committing")
  /\ Len(commits) < commitCapacity
  /\ commits' = Append(commits, c)
  /\ state' = [state EXCEPT ![c] = "selecting"]
  /\ UNCHANGED <<config, phase, turn, receiver, invokes, scratch, posed, cut>>

SendersDropped == phase \in {"joining", "done"}

Exit(c) ==
  /\ At(c, "selecting")
  /\ invokes[c] = 0 /\ SendersDropped
  /\ state' = [state EXCEPT ![c] = "exited"]
  /\ UNCHANGED <<config, phase, turn, receiver, invokes, commits, scratch, posed, cut>>

-----------------------------------------------------------------------------
ClientStep(c) ==
  \/ TakeInvoke(c) \/ Commit(c) \/ Cut(c) \/ Exit(c)
  \/ \E i \in 1..MaxInflight, q \in Id, v \in {"right", "wrong"} : TakeReply(c, i, q, v)

Next ==
  \/ Start \/ TakeCommit \/ Sleep \/ SendInvoke \/ Deadline \/ Join \/ RunFails
  \/ \E c \in Client : ClientStep(c)

Spec == Init /\ [][Next]_vars

(* Tasks that can run do. The deadline is polled again and again, at the top of    *)
(* every turn of the driver's loop in which nothing else is ready, so it is noticed *)
(* sooner or later: strong fairness. Replies need not come, connections need not    *)
(* last, and the timer of the open loop is not relied on.                          *)
FairSpec ==
  /\ Spec
  /\ WF_vars(Start) /\ WF_vars(TakeCommit) /\ WF_vars(SendInvoke) /\ WF_vars(Join)
  /\ WF_vars(RunFails) /\ SF_vars(Deadline)
  /\ \A c \in Client : WF_vars(TakeInvoke(c)) /\ WF_vars(Commit(c)) /\ WF_vars(Exit(c))

-----------------------------------------------------------------------------
(* A close loop client has exactly one request in the system until its task ends or  *)
(* the run fails: it is about to be sent or in the invoke channel, outstanding, or   *)
(* on its way back in the commit channel. So the driver never waits for an invoke    *)
(* channel, and no client fails for a request while another is outstanding. An open   *)
(* loop client never has more than num_max_inflight outstanding.                     *)
BoolToInt(b) == IF b THEN 1 ELSE 0
Requests(c) ==
  BoolToInt(phase = "starting" /\ turn <= c) + BoolToInt(phase = "sending" /\ receiver = c)
    + invokes[c] + Len(scratch[c]) + BoolToInt(state[c] = "committing")
    + Cardinality({k \in DOMAIN commits : commits[k] = c})

RequestsBounded ==
  \A c \in Client :
    \/ /\ loop = "CloseLoop"
       /\ Requests(c) <= 1
       /\ Requests(c) = 0 => state[c] \in {"exited", "failed"} \/ phase = "failed"
    \/ loop = "OpenLoop" /\ Len(scratch[c]) <= MaxInflight

(* A client fails only when a connection of its own does, or when it was sent a wrong *)
(* result under an id that is not that of a faulty replica. As long as each replica   *)
(* replies under its own id, no replies make it fail, however many faulty replicas     *)
(* repeat and take back, and however late they are: num_faulty + 1 ids agree on right  *)
(* results only, and the request of a close loop client is forgotten before the next   *)
(* one is invoked.                                                                  *)
ClientsFailForReason == \A c \in Client : state[c] = "failed" => c \in posed \cup cut

(* The driver waits for a client, as it joins it or as the client's invoke channel  *)
(* is full, and that client waits for room in the commit channel, from which only   *)
(* the driver takes. In a close loop this takes more clients than the channel has   *)
(* room for.                                                                       *)
CircularWait ==
  /\ Len(commits) = commitCapacity
  /\ loop = "CloseLoop" => NumClient > commitCapacity
  /\ \/ phase = "sending" /\ state[receiver] = "committing"
     \/ phase = "joining" /\ \E c \in Client : state[c] = "committing"

=============================================================================
