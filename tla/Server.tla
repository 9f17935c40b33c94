------------------------------- MODULE Server -------------------------------
(* One server: the service task and the replica task of src/transport.rs and its *)
(* clients' connections. Requests come from the read tasks of the connections      *)
(* through the message channel to the service task, and over the request channel   *)
(* to the replica task. The replica finalizes blocks of commands at times that      *)
(* depend on the other replicas; they go over the finalized channel to the service  *)
(* task, which replies over a write channel per client. Every channel is bounded,   *)
(* and a task that sends waits for room and does nothing else. So does the service  *)
(* task while it accepts a client, until that has sent its id.                      *)
(* The server of src/unreplicated.rs has the same service task; in the place of a   *)
(* replica, a task hands each request back as finalized.                            *)
EXTENDS Integers, FiniteSets, Sequences, SequencesExt

CONSTANTS Client,
          MaxSeq,             \* bounds the requests of a client
          MaxSent,            \* bounds the requests of all clients together
          MaxFinalized,       \* bounds the commands the replica finalizes
          MaxBatch,           \* bounds the commands of a block
          Servers,            \* quic, tcp, unreplicated (over quic)
          MessageCapacity,    \* of the service's message channel, 4096 in the code
          RequestCapacity,    \* of the request channel, 1000
          FinalizedCapacity,  \* of the finalized channel, 100
          WriteCapacity       \* of each write channel, 1000

ASSUME BoundsAssumption == {MaxSeq, MaxSent} \subseteq Nat /\ MaxFinalized \in Nat /\ MaxBatch \in Nat
ASSUME ServersAssumption == Servers \subseteq {"quic", "tcp", "unreplicated"}
ASSUME EchoAssumption == "unreplicated" \in Servers => MaxSent <= MaxFinalized
ASSUME CapacitiesAssumption ==
  {MessageCapacity, RequestCapacity, FinalizedCapacity, WriteCapacity} \subseteq Nat \ {0}

Command == [client : Client, seq : 1..MaxSeq]
Block == BoundedSeq(Command, MaxBatch) \ {<<>>}

VARIABLES
  server,      \* replicated with run (quic) or run_tcp, or unreplicated
  cancelled,   \* the cancellation token
  failed,      \* a task has ended with an error, which ends the other and the server
  peerLeft,    \* a connection to another replica was not made, or has ended
  (* clients and their connections *)
  client,      \* client[c]: new, dialing, connected, left
  named,       \* the clients that have written their id to the connection
  sent,        \* sent[c]: the last request c has sent
  wire,        \* requests on their way to the read tasks
  writer,      \* writer[c]: none, open, closed: the entry of c in write_senders
  writes,      \* writes[c]: how many replies wait in the write channel of c
  (* the service task *)
  service,     \* selecting, handshaking, identifying, requesting, resending,
               \* replying, ended
  guest,       \* the client that the service task is accepting, or failed to accept
  incoming,    \* the message channel
  hand,        \* the message that the service task is busy with, if there is one
  block,       \* what is left of the block it replies to
  replies,     \* replies[c]: the seq of the cached reply, 0 if there is none
  (* the replica task *)
  replica,     \* booting, selecting, finalizing, ended
  requests,    \* the request channel
  actions,     \* the blocks that the replica's actions finalize
  finalized,   \* the finalized channel
  (* history *)
  handled,     \* the requests the replica has handled
  given,       \* the blocks the replica has finalized
  answered     \* answered[c]: the seqs of all replies put into the write channel of c

control == <<server, cancelled, failed, peerLeft>>
connections == <<client, named, sent, wire, writer, writes>>
serviceVars == <<service, guest, incoming, hand, block, replies>>
replicaVars == <<replica, requests, actions, finalized>>
vars == <<control, connections, serviceVars, replicaVars, handled, given, answered>>

Init ==
  /\ server \in Servers
  /\ cancelled = FALSE /\ failed = FALSE /\ peerLeft = FALSE
  /\ client = [c \in Client |-> "new"]
  /\ named = {}
  /\ sent = [c \in Client |-> 0]
  /\ wire = {}
  /\ writer = [c \in Client |-> "none"]
  /\ writes = [c \in Client |-> 0]
  /\ service = "selecting"
  /\ guest = {}
  /\ incoming = <<>>
  /\ hand = <<>>
  /\ block = <<>>
  /\ replies = [c \in Client |-> 0]
  /\ replica = IF server = "unreplicated" THEN "selecting" ELSE "booting"
  /\ requests = <<>>
  /\ actions = <<>>
  /\ finalized = <<>>
  /\ handled = {} /\ given = <<>>
  /\ answered = [c \in Client |-> <<>>]

(* A task that ends with an error takes the other one with it (try_join).          *)
BothEnd ==
  /\ service' = "ended" /\ replica' = "ended"
  /\ incoming' = <<>> /\ requests' = <<>> /\ finalized' = <<>> /\ actions' = <<>>
  /\ hand' = <<>> /\ block' = <<>> /\ writes' = [c \in Client |-> 0]
  /\ UNCHANGED <<server, client, named, sent, wire, writer, guest, replies,
                 handled, given, answered>>
Stop == BothEnd /\ failed' = TRUE /\ UNCHANGED cancelled
Fail == Stop /\ UNCHANGED peerLeft

-----------------------------------------------------------------------------
(* Clients and connections.                                                     *)

(* A QUIC handshake completes only when the server accepts it. A TCP connection is *)
(* made by the kernel, and accepted some time later.                               *)
MadeByKernel == FALSE
MadeByAccept == server # "tcp"

Connect(c) ==
  /\ ~MadeByAccept
  /\ client[c] = "new" /\ service # "ended"
  /\ client' = [client EXCEPT ![c] = "connected"]
  /\ UNCHANGED <<control, named, sent, wire, writer, writes, serviceVars, replicaVars,
                 handled, given, answered>>

(* It writes its id first, and sends to this server and to others.                 *)
Name(c) ==
  /\ client[c] = "connected" /\ c \notin named
  /\ named' = named \cup {c}
  /\ UNCHANGED <<control, client, sent, wire, writer, writes, serviceVars, replicaVars,
                 handled, given, answered>>

Send(c) ==
  /\ client[c] = "connected" /\ c \in named
  /\ sent[c] < MaxSeq /\ SumFunction(sent) < MaxSent
  /\ sent' = [sent EXCEPT ![c] = @ + 1]
  /\ wire' = wire \cup {[client |-> c, seq |-> sent[c] + 1]}
  /\ UNCHANGED <<control, client, named, writer, writes, serviceVars, replicaVars,
                 handled, given, answered>>

(* It may leave at any time, as at the end of its workload.                        *)
Leave(c) ==
  /\ client[c] \in {"dialing", "connected"}
  /\ client' = [client EXCEPT ![c] = "left"]
  /\ UNCHANGED <<control, named, sent, wire, writer, writes, serviceVars, replicaVars,
                 handled, given, answered>>

(* The read task of the connection, which exists once it is accepted. What a client *)
(* sent before it left may still be read, or not.                                   *)
Read(x) ==
  /\ x \in wire
  /\ writer[x.client] # "none" /\ service # "ended"
  /\ Len(incoming) < MessageCapacity
  /\ wire' = wire \ {x}
  /\ incoming' = Append(incoming, x)
  /\ UNCHANGED <<control, client, named, sent, writer, writes, service, guest, hand, block, replies,
                 replicaVars, handled, given, answered>>

(* The write task. Once the client has left a write is lost, or fails and ends the *)
(* task, which drops the channel.                                                  *)
Write(c) ==
  /\ writer[c] = "open" /\ writes[c] > 0
  /\ \/ writes' = [writes EXCEPT ![c] = @ - 1] /\ UNCHANGED writer
     \/ /\ client[c] = "left"
        /\ writes' = [writes EXCEPT ![c] = 0]
        /\ writer' = [writer EXCEPT ![c] = "closed"]
  /\ UNCHANGED <<control, client, named, sent, wire, serviceVars, replicaVars,
                 handled, given, answered>>

-----------------------------------------------------------------------------
(* The service task.                                                            *)

(* The select hands it a connection, whose handshake it waits for with QUIC, and    *)
(* then for the id of the client. It waits for nothing else meanwhile, and ends with  *)
(* an error when the client leaves before it is accepted.                           *)
Accept(c) ==
  /\ service = "selecting"
  /\ writer[c] = "none"
  /\ \/ /\ MadeByAccept /\ client[c] = "new"
        /\ client' = [client EXCEPT ![c] = "dialing"]
        /\ service' = "handshaking"
     \/ /\ client[c] # "new"
        /\ service' = "identifying"
        /\ UNCHANGED client
  /\ guest' = {c}
  /\ UNCHANGED <<control, named, sent, wire, writer, writes, incoming, hand, block, replies,
                 replicaVars, handled, given, answered>>

Handshake(c) ==
  /\ service = "handshaking" /\ c \in guest
  /\ client[c] = "dialing"
  /\ client' = [client EXCEPT ![c] = "connected"]
  /\ service' = "identifying"
  /\ UNCHANGED <<control, named, sent, wire, writer, writes, guest, incoming, hand, block,
                 replies, replicaVars, handled, given, answered>>

Identify(c) ==
  /\ service = "identifying" /\ c \in guest
  /\ c \in named
  /\ writer' = [writer EXCEPT ![c] = "open"]
  /\ service' = "selecting"
  /\ guest' = {}
  /\ UNCHANGED <<control, client, named, sent, wire, writes, incoming, hand, block, replies,
                 replicaVars, handled, given, answered>>

AcceptFails(c) ==
  /\ service \in {"handshaking", "identifying"} /\ c \in guest
  /\ client[c] = "left"
  /\ Fail

(* A request that is older than the cached reply is ignored, the one that it answers *)
(* is answered again, and a newer one goes to the replica.                           *)
SameReply(x) == replies[x.client] = x.seq
AnsweredBefore(x) == replies[x.client] \notin {0, x.seq}
IsOld(x) == replies[x.client] > x.seq

TakeMessage ==
  /\ service = "selecting"
  /\ incoming # <<>>
  /\ incoming' = Tail(incoming)
  /\ LET x == Head(incoming) IN
       \/ IsOld(x) /\ UNCHANGED <<service, hand>>
       \/ ~IsOld(x) /\ SameReply(x) /\ service' = "resending" /\ hand' = <<x>>
       \/ ~IsOld(x) /\ ~SameReply(x) /\ service' = "requesting" /\ hand' = <<x>>
  /\ UNCHANGED <<control, connections, guest, block, replies, replicaVars,
                 handled, given, answered>>

SendRequest ==
  /\ service = "requesting"
  /\ Len(requests) < RequestCapacity
  /\ requests' = requests \o hand
  /\ service' = "selecting"
  /\ hand' = <<>>
  /\ UNCHANGED <<control, connections, guest, incoming, block, replies, replica, actions,
                 finalized, handled, given, answered>>

(* A reply goes to the write channel of its client, when there is room.            *)
WriteReply(c, seq) ==
  /\ writer[c] = "open" /\ writes[c] < WriteCapacity
  /\ writes' = [writes EXCEPT ![c] = @ + 1]
  /\ answered' = [answered EXCEPT ![c] = Append(@, seq)]

(* The channel of the client is not there, or its write task has ended.            *)
NeverAccepted(c) == writer[c] = "none"
CannotReply(c) == writer[c] # "open"

Resend ==
  /\ service = "resending"
  /\ \/ CannotReply(Head(hand).client) /\ Fail
     \/ /\ WriteReply(Head(hand).client, Head(hand).seq)
        /\ service' = "selecting"
        /\ hand' = <<>>
        /\ UNCHANGED <<control, client, named, sent, wire, writer, guest, incoming, block, replies,
                       replicaVars, handled, given>>

TakeFinalized ==
  /\ service = "selecting"
  /\ finalized # <<>>
  /\ block' = Head(finalized)
  /\ finalized' = Tail(finalized)
  /\ service' = "replying"
  /\ UNCHANGED <<control, connections, guest, incoming, hand, replies, replica, requests, actions,
                 handled, given, answered>>

(* on_finalized, command by command: what is answered already is skipped.          *)
Duplicated(x) == replies[x.client] >= x.seq

After(rest) == block' = rest /\ service' = IF rest = <<>> THEN "selecting" ELSE "replying"

Reply ==
  /\ service = "replying"
  /\ LET x == Head(block) IN
       \/ /\ Duplicated(x)
          /\ After(Tail(block))
          /\ UNCHANGED <<control, connections, guest, incoming, hand, replies, replicaVars,
                         handled, given, answered>>
       \/ ~Duplicated(x) /\ CannotReply(x.client) /\ Fail
       \/ /\ ~Duplicated(x)
          /\ WriteReply(x.client, x.seq)
          /\ replies' = [replies EXCEPT ![x.client] = x.seq]
          /\ After(Tail(block))
          /\ UNCHANGED <<control, client, named, sent, wire, writer, guest, incoming, hand, replicaVars,
                         handled, given>>

(* On ctrl-c. Over TCP there is no token: both tasks are dropped where they are.    *)
Cancel ==
  /\ server # "tcp" /\ ~cancelled
  /\ cancelled' = TRUE
  /\ UNCHANGED <<server, failed, peerLeft, connections, serviceVars, replicaVars,
                 handled, given, answered>>

Drop ==
  /\ server = "tcp" /\ ~cancelled /\ ~failed
  /\ BothEnd
  /\ cancelled' = TRUE
  /\ UNCHANGED <<failed, peerLeft>>

(* The service task ends, and drops its connections and its ends of the channels.   *)
NoticeCancel ==
  /\ service = "selecting" /\ cancelled
  /\ service' = "ended"
  /\ incoming' = <<>> /\ finalized' = <<>> /\ writes' = [c \in Client |-> 0]
  /\ UNCHANGED <<control, client, named, sent, wire, writer, guest, hand, block, replies, replica,
                 requests,
                 actions, handled, given, answered>>

-----------------------------------------------------------------------------
(* The replica task.                                                            *)

Replicated == server # "unreplicated"

(* It connects to all other replicas first, and for as long as that takes it looks at *)
(* nothing else, not even at the token.                                            *)
Boot ==
  /\ replica = "booting"
  /\ replica' = "selecting"
  /\ UNCHANGED <<control, connections, serviceVars, requests, actions, finalized,
                 handled, given, answered>>

ReplicaRequest ==
  /\ Replicated
  /\ replica = "selecting"
  /\ requests # <<>>
  /\ requests' = Tail(requests)
  /\ handled' = handled \cup {Head(requests)}
  /\ UNCHANGED <<control, connections, serviceVars, replica, actions, finalized,
                 given, answered>>

(* A message of another replica finalizes blocks of commands that clients have sent, *)
(* to this server or to others. A faulty primary may have them finalized repeatedly  *)
(* and in any order.                                                                *)
IsSent(x) == x.seq <= sent[x.client]

ReplicaMessage(blocks) ==
  /\ Replicated
  /\ replica = "selecting"
  /\ \A b \in ToSet(blocks) : \A x \in ToSet(b) : IsSent(x)
  /\ Len(FlattenSeq(given \o blocks)) <= MaxFinalized
  /\ given' = given \o blocks
  /\ actions' = blocks
  /\ replica' = "finalizing"
  /\ UNCHANGED <<control, connections, serviceVars, requests, finalized, handled, answered>>

(* The effect of Finalize waits for room, or fails when the receiver is gone.       *)
Finalize ==
  /\ replica = "finalizing"
  /\ \/ service = "ended" /\ Fail
     \/ /\ service # "ended"
        /\ Len(finalized) < FinalizedCapacity
        /\ finalized' = Append(finalized, Head(actions))
        /\ actions' = Tail(actions)
        /\ replica' = IF Tail(actions) = <<>> THEN "selecting" ELSE "finalizing"
        /\ UNCHANGED <<control, connections, serviceVars, requests, handled, given, answered>>

(* A connection to another replica has ended, or could not be made: so does this    *)
(* replica, with an error.                                                         *)
PeerLeaves ==
  /\ Replicated
  /\ replica \in {"booting", "selecting"}
  /\ Stop
  /\ peerLeft' = TRUE

(* The task of the unreplicated server.                                            *)
Echo ==
  /\ ~Replicated
  /\ replica = "selecting"
  /\ requests # <<>>
  /\ requests' = Tail(requests)
  /\ handled' = handled \cup {Head(requests)}
  /\ given' = Append(given, <<Head(requests)>>)
  /\ actions' = <<<<Head(requests)>>>>
  /\ replica' = "finalizing"
  /\ UNCHANGED <<control, connections, serviceVars, finalized, answered>>

(* The request channel is closed once its sender is dropped and it is empty. The     *)
(* unreplicated server also looks at the token itself.                             *)
KeptOpen == FALSE
RequestsClosed ==
  \/ service = "ended" /\ requests = <<>>
  \/ ~Replicated /\ cancelled

ReplicaEnds ==
  /\ replica = "selecting"
  /\ RequestsClosed
  /\ replica' = "ended"
  /\ UNCHANGED <<control, connections, serviceVars, requests, actions, finalized,
                 handled, given, answered>>

-----------------------------------------------------------------------------
BlockList == {l \in BoundedSeq(Block, MaxFinalized) \ {<<>>} : Len(FlattenSeq(l)) <= MaxFinalized}

ServiceSends == SendRequest \/ Resend \/ Reply
ServiceStep == TakeMessage \/ TakeFinalized \/ NoticeCancel \/ ServiceSends
ReplicaReceives == ReplicaRequest \/ Echo \/ ReplicaEnds

Next ==
  \/ \E c \in Client :
       \/ Connect(c) \/ Name(c) \/ Send(c) \/ Leave(c) \/ Write(c)
       \/ Accept(c) \/ Handshake(c) \/ Identify(c) \/ AcceptFails(c)
  \/ \E x \in Command : Read(x)
  \/ Cancel \/ Drop \/ ServiceStep
  \/ Boot \/ ReplicaReceives \/ Finalize \/ PeerLeaves
  \/ \E blocks \in BlockList : ReplicaMessage(blocks)

Spec == Init /\ [][Next]_vars

(* Tasks that can go on do, and connections take what is written to them. A select  *)
(* chooses among what is ready at random, so nothing that is ready again and again   *)
(* is passed over for ever: strong fairness of what a task receives. Clients and     *)
(* other replicas need not do anything: a handshake need not end, replicas need not  *)
(* be reached, and what a client wrote need not come once it has left.              *)
FairSpec ==
  /\ Spec
  /\ WF_vars(ServiceSends) /\ WF_vars(Finalize) /\ \A c \in Client : WF_vars(Write(c))
  /\ \A c \in Client : WF_vars(client[c] = "connected" /\ Identify(c))
  /\ SF_vars(TakeFinalized) /\ SF_vars(NoticeCancel) /\ SF_vars(ReplicaReceives)

-----------------------------------------------------------------------------
(* Where a request is between its connection and the replica, what the replica has   *)
(* finalized, and what of that is still to be replied to.                           *)
InFlight == ToSet(incoming) \cup ToSet(hand) \cup ToSet(requests)
Given == UNION {ToSet(b) : b \in ToSet(given)}
InBlocks == UNION {ToSet(b) : b \in ToSet(actions) \cup ToSet(finalized) \cup {block}}
Answered(x) == replies[x.client] >= x.seq

(* Whatever repeated or reordered blocks the replica finalizes, a client gets the   *)
(* replies of this server in the order of its requests, and a second reply to a      *)
(* request only because the request came after it was answered.                      *)
Replies(x) ==
  Cardinality({i \in DOMAIN answered[x.client] : answered[x.client][i] = x.seq})

RepliesInOrder ==
  /\ \A c \in Client : \A i \in 1..(Len(answered[c]) - 1) : answered[c][i] <= answered[c][i + 1]
  /\ \A x \in Command : Replies(x) <= IF x \in wire \cup InFlight \cup handled THEN 1 ELSE 2

(* While the server runs, no request is lost between its connection and the replica:  *)
(* a request that was read waits in a channel, or the replica has handled it, or the *)
(* client has been sent the reply to it or to a newer one. Nor is a finalized command *)
(* lost between the replica and the write channel of its client.                     *)
NothingLost ==
  service # "ended" =>
    /\ \A x \in Command : IsSent(x) => x \in wire \cup InFlight \cup handled \/ Answered(x)
    /\ \A x \in Given : x \in InBlocks \/ Answered(x)

(* The server ends with an error only if another replica has ended or was not         *)
(* reached, if it is told to end while the replica still finalizes, if a client left  *)
(* without its replies, if a client left while it was being accepted, or, with TCP,   *)
(* if the replica finalizes a request of a client whose connection waits to be        *)
(* accepted.                                                                        *)
FailsForReason ==
  failed => \/ peerLeft \/ cancelled
            \/ \E c \in Client : client[c] = "left" /\ writer[c] = "closed"
            \/ \E c \in guest : client[c] = "left"
            \/ server = "tcp" /\ \E c \in Client : client[c] # "new" /\ writer[c] = "none"

(* The service task waits for room in the request channel, from which the other task *)
(* does not take: that waits for room in the finalized channel, or is the one of the *)
(* unreplicated server and has noticed the cancellation before.                     *)
CircularWait ==
  /\ service = "requesting" /\ Len(requests) = RequestCapacity
  /\ \/ replica = "finalizing" /\ Len(finalized) = FinalizedCapacity
     \/ ~Replicated /\ cancelled /\ replica = "ended"

(* It waits for a client whose handshake does not end, whose id has not come, or who  *)
(* has left since.                                                                  *)
AwaitsClient ==
  \/ service = "handshaking"
  \/ service = "identifying" /\ \E c \in guest : c \notin named \/ client[c] = "left"

AwaitsReplicas == replica = "booting"

StallsForReason == <>[]CircularWait \/ <>[]AwaitsClient \/ <>[]AwaitsReplicas

(* Nothing but this circle, a client that is being accepted, and replicas that cannot *)
(* be reached keeps a task from its next select for ever: neither do clients that are  *)
(* accepted, however slow they are, and whether they leave.                          *)
OnlyCircleStalls ==
  \/ []<>(service \in {"selecting", "ended"}) /\ []<>(replica \in {"selecting", "ended"})
  \/ StallsForReason

(* A server that is told to end does, but for these.                                 *)
CancelEnds ==
  [](cancelled => <>(service = "ended" /\ replica = "ended") \/ StallsForReason)
=============================================================================
