---------------------------- MODULE Interconnect ----------------------------
(* The replica tasks of src/transport.rs and what carries their messages to each other: *)
(* the write channels, the write tasks, the connections, the read tasks with the          *)
(* framing of src/transport/tcp.rs, and the message channels. All of them are bounded,     *)
(* and a replica that waits to write to another one does nothing else. A message is        *)
(* carried in units, of which a read takes as many as happen to be there.                 *)
EXTENDS Bootstrap, Sequences, SequencesExt

CONSTANTS
  Plans,             \* the services to consider: transport, members, the sizes of their
                     \* messages in units, the units that a connection takes
                     \* before its reader reads (wire), and the bound on the
                     \* events of each replica at which it sends
  WriteCapacity,     \* of each write channel, 100 in the code
  MessageCapacity,   \* of the message channel of each replica, 100
  BufferSize         \* of a read task, 64 KiB

ASSUME CapacitiesAssumption ==
  {WriteCapacity, MessageCapacity, BufferSize} \subseteq Nat \ {0}
ASSUME PlansAssumption ==
  \A p \in Plans : /\ p.transport \in {"quic", "tcp"} /\ p.member \subseteq Replica
                   /\ p.sizes \subseteq Nat \ {0} /\ p.wire \in Nat \ {0} /\ p.events \in [Replica -> Nat]

VARIABLES
  plan,        \* what Init has chosen of Plans
  events,      \* events[r]: how many events r may still send at
  effects,     \* effects[r]: what is left to send of the actions of the last event
  written,     \* written[r][i]: history: all messages that r has put into the channel to i
  writes,      \* writes[r][i]: the write channel from r to i
  wire,        \* wire[r][i]: units from r to i; the first plan.wire have left the write task
  arrived,     \* arrived[r][i]: with QUIC, the units from r that are at i
  buffer,      \* buffer[r][i]: the units in decode_bytes of the read task from r to i
  incoming,    \* incoming[r]: the message channel
  received,    \* received[r][i]: history: the messages that i has received from r
  cancelled    \* the servers are being stopped

linkVars == <<written, writes, wire, buffer, incoming, received>>
vars == <<transport, member, phase, bootVars, plan, events, effects, linkVars, arrived, cancelled>>

Init ==
  /\ plan \in Plans
  /\ transport = plan.transport /\ member = plan.member
  /\ BootInit
  /\ events = plan.events
  /\ effects = [r \in Replica |-> <<>>]
  /\ written = [r \in Replica |-> [i \in Replica |-> <<>>]]
  /\ writes = written /\ wire = written /\ buffer = written /\ received = written
  /\ arrived = [r \in Replica |-> [i \in Replica |-> {}]]
  /\ incoming = [r \in Replica |-> <<>>]
  /\ cancelled = FALSE

Selecting(r) == phase[r] = "running" /\ effects[r] = <<>>
Ended(r) == phase[r] \in {"left", "failed"}

-----------------------------------------------------------------------------
(* The replica task. A request, a tick or a message makes it send to one replica, to all *)
(* in the arbitrary order of the map, or to none; here a message of every size. A send to    *)
(* itself, which ends the task, is in Pbft (RepeatVotes).                                 *)
Recipients(r) ==
  {<<i>> : i \in Peers(r)} \cup
  {s \in [1..Cardinality(Peers(r)) -> Peers(r)] : IsInjective(s)}

Act(r) ==
  \/ UNCHANGED <<events, effects>>
  \/ /\ events[r] > 0
     /\ events' = [events EXCEPT ![r] = @ - 1]
     /\ \E s \in Recipients(r), size \in plan.sizes :
          effects' = [effects EXCEPT ![r] = [k \in DOMAIN s |-> [to |-> s[k], size |-> size]]]

Spontaneous(r) ==
  /\ Selecting(r) /\ events[r] > 0
  /\ Act(r)
  /\ UNCHANGED <<transport, member, phase, bootVars, plan, linkVars, arrived, cancelled>>

Receive(r) ==
  /\ Selecting(r)
  /\ incoming[r] # <<>>
  /\ LET x == Head(incoming[r]) IN received' = [received EXCEPT ![x.from][r] = Append(@, x.n)]
  /\ incoming' = [incoming EXCEPT ![r] = Tail(@)]
  /\ Act(r)
  /\ UNCHANGED <<transport, member, phase, bootVars, plan, written, writes, wire, arrived,
                 buffer, cancelled>>

(* The other end is gone: writes to it fail, which ends the write task and drops the       *)
(* receiver of its channel. A QUIC connection whose read task has been aborted is still    *)
(* there.                                                                                *)
ClosedByError(i) == phase[i] = "failed"
Closed(i) == Ended(i)

(* checked_send to the write channel waits for room, or fails.                            *)
HasRoom(r, i) == Len(writes[r][i]) < WriteCapacity

Send(r) ==
  /\ phase[r] = "running" /\ effects[r] # <<>>
  /\ LET i == Head(effects[r]).to
         m == [n |-> Len(written[r][i]) + 1, size |-> Head(effects[r]).size]
     IN \/ /\ HasRoom(r, i)
           /\ written' = [written EXCEPT ![r][i] = Append(@, m)]
           /\ writes' = [writes EXCEPT ![r][i] = Append(@, m)]
           /\ effects' = [effects EXCEPT ![r] = Tail(@)]
           /\ UNCHANGED phase
        \/ /\ Closed(i)
           /\ phase' = [phase EXCEPT ![r] = "failed"]
           /\ effects' = [effects EXCEPT ![r] = <<>>]
           /\ UNCHANGED <<written, writes>>
  /\ UNCHANGED <<transport, member, bootVars, plan, events, wire, arrived, buffer,
                 incoming, received, cancelled>>

(* A task of a connection has ended with an error, and with it the replica.               *)
ConnectionFails(r) ==
  /\ Selecting(r)
  /\ \E i \in Peers(r) : Closed(i)
  /\ phase' = [phase EXCEPT ![r] = "failed"]
  /\ UNCHANGED <<transport, member, bootVars, plan, events, effects, linkVars, arrived, cancelled>>

(* The servers are stopped once all are ready. With QUIC the service task of each drops   *)
(* the sender of the request channel, and the replica task its read tasks when it notices;  *)
(* with TCP both tasks are not polled any more, wherever they are, and those of the         *)
(* connections go on. Some time later (a second in the code) everything is dropped.        *)
Cancel ==
  /\ ~cancelled
  /\ \A r \in member : phase[r] = "running"
  /\ cancelled' = TRUE
  /\ UNCHANGED <<transport, member, phase, bootVars, plan, events, effects, linkVars, arrived>>

Leave(r) ==
  /\ cancelled
  /\ phase[r] = "running" /\ (transport = "quic" => Selecting(r))
  /\ phase' = [phase EXCEPT ![r] = "leaving"]
  /\ effects' = [effects EXCEPT ![r] = <<>>]
  /\ UNCHANGED <<transport, member, bootVars, plan, events, linkVars, arrived, cancelled>>

Release(r) ==
  /\ phase[r] = "leaving"
  /\ phase' = [phase EXCEPT ![r] = "left"]
  /\ UNCHANGED <<transport, member, bootVars, plan, events, effects, linkVars, arrived, cancelled>>

-----------------------------------------------------------------------------
(* The connections.                                                                      *)

Units(m) == [p \in 1..m.size |-> [n |-> m.n, part |-> p, size |-> m.size]]

(* The write task takes the next message when all of the last one has left it.            *)
WriteTask(r, i) ==
  /\ ~Ended(r)
  /\ writes[r][i] # <<>>
  /\ Len(wire[r][i]) <= plan.wire
  /\ wire' = [wire EXCEPT ![r][i] = @ \o Units(Head(writes[r][i]))]
  /\ writes' = [writes EXCEPT ![r][i] = Tail(@)]
  /\ UNCHANGED <<transport, member, phase, bootVars, plan, events, effects, written, arrived,
                 buffer, incoming, received, cancelled>>

(* The read task of i has a message once it has all of its units from the first.           *)
HasMessage(units) ==
  /\ units # <<>>
  /\ Len(units) >= Head(units).size
  /\ \A p \in 1..Head(units).size : units[p].n = Head(units).n /\ units[p].part = p

Reads(i) == phase[i] = "running" \/ (transport = "tcp" /\ phase[i] = "leaving")

(* The units of a TCP connection come in their order. With QUIC every message has a       *)
(* stream of its own, and those of all streams that have left the write task come in any. *)
Arrive(r, i) ==
  /\ transport = "quic"
  /\ \E k \in 1..Len(wire[r][i]) :
       /\ k <= plan.wire /\ wire[r][i][k] \notin arrived[r][i]
       /\ arrived' = [arrived EXCEPT ![r][i] = @ \cup {wire[r][i][k]}]
  /\ UNCHANGED <<transport, member, phase, bootVars, plan, events, effects, linkVars, cancelled>>

(* It decodes what it has before it reads more. A TCP read takes any number of units that  *)
(* are there. With QUIC the streams are accepted in the order in which they were opened,    *)
(* which is that of wire, and each is read to its end before the next one is accepted.      *)
Readable(r, i) ==
  {k \in 1..Len(wire[r][i]) :
     /\ k <= plan.wire
     /\ transport = "quic" => \A p \in 1..k : /\ wire[r][i][p].n = Head(wire[r][i]).n
                                            /\ wire[r][i][p] \in arrived[r][i]}

ReadTask(r, i) ==
  /\ Reads(i)
  /\ ~HasMessage(buffer[r][i])
  /\ \E k \in Readable(r, i) :
       /\ k <= BufferSize - Len(buffer[r][i])
       /\ buffer' = [buffer EXCEPT ![r][i] = @ \o SubSeq(wire[r][i], 1, k)]
       /\ wire' = [wire EXCEPT ![r][i] = SubSeq(@, k + 1, Len(@))]
  /\ UNCHANGED <<transport, member, phase, bootVars, plan, events, effects, written, writes,
                 arrived, incoming, received, cancelled>>

(* A decoded message goes to the message channel when there is room, and the rest of the    *)
(* buffer is moved to its front.                                                          *)
RestDropped(units) == <<>>
Rest(units) == SubSeq(units, Head(units).size + 1, Len(units))

Deliver(r, i) ==
  /\ Reads(i)
  /\ HasMessage(buffer[r][i])
  /\ Len(incoming[i]) < MessageCapacity
  /\ incoming' = [incoming EXCEPT ![i] = Append(@, [from |-> r, n |-> Head(buffer[r][i]).n])]
  /\ buffer' = [buffer EXCEPT ![r][i] = Rest(@)]
  /\ UNCHANGED <<transport, member, phase, bootVars, plan, events, effects, written, writes, wire,
                 arrived, received, cancelled>>

(* A message that does not fit: a read into the full TCP buffer returns 0, like the end of  *)
(* the stream, and read_to_end reports a QUIC stream that is too long. The replica ends       *)
(* with the error of the read task.                                                       *)
NoRoomToRead(r, i) == Len(buffer[r][i]) = BufferSize
BufferFull(r, i) == Len(buffer[r][i]) = BufferSize /\ ~HasMessage(buffer[r][i])

ReadFails(r, i) ==
  /\ Selecting(i)
  /\ BufferFull(r, i)
  /\ phase' = [phase EXCEPT ![i] = "failed"]
  /\ UNCHANGED <<transport, member, bootVars, plan, events, effects, linkVars, arrived, cancelled>>

-----------------------------------------------------------------------------
Boot(r) == BootStep(r) /\ UNCHANGED <<transport, member, plan, events, effects, linkVars, arrived, cancelled>>

Link(r, i) == WriteTask(r, i) \/ Arrive(r, i) \/ ReadTask(r, i) \/ Deliver(r, i) \/ ReadFails(r, i)

Step ==
  \/ \E r \in member : \/ Boot(r)
                       \/ Receive(r) \/ Send(r) \/ ConnectionFails(r) \/ Leave(r) \/ Release(r)
  \/ \E r, i \in member : Link(r, i)

Next ==
  \/ Step
  \/ \E r \in member : Spontaneous(r)
  \/ Cancel

Spec == Init /\ [][Next]_vars

(* Tasks that can go on do. A select takes what is ready again and again some time, and as  *)
(* the events at which replicas send are bounded, every other step is possible a finite     *)
(* number of times: fairness of all together is fairness of each. Ticks and requests need   *)
(* not come, and the servers need not be stopped.                                        *)
FairSpec == Spec /\ WF_vars(Step)

-----------------------------------------------------------------------------
(* The messages that r has sent to i: the first ones i has received, the next are in its     *)
(* message channel, then come those whose units are on the connection, up to message b, and  *)
(* the others wait in the write channel.                                                   *)
Before(u, v) == u.n < v.n \/ (u.n = v.n /\ u.part < v.part)

InOnePlace(r, sent, taken, channel, units, waiting) ==
  \E a, b \in 0..Len(sent) :
    /\ Len(taken) <= a /\ a <= b
    /\ taken = [k \in 1..Len(taken) |-> k]
    /\ {x.n : x \in {y \in ToSet(channel) : y.from = r}} = (Len(taken) + 1)..a
    /\ \A p, q \in DOMAIN channel :
         p < q /\ channel[p].from = r /\ channel[q].from = r => channel[p].n < channel[q].n
    /\ ToSet(units) = UNION {ToSet(Units(sent[n])) : n \in (a + 1)..b}
    /\ \A p, q \in DOMAIN units : p < q => Before(units[p], units[q])
    /\ waiting = SubSeq(sent, b + 1, Len(sent))

(* Between two replicas that run, every message is in exactly one place, and they arrive in *)
(* the order in which they were sent, whatever the chunks in which they are read and, with   *)
(* QUIC, the order in which the units of their streams arrive. And the connections are who   *)
(* they are taken for.                                                                    *)
DeliveredExactly ==
  /\ ConnectedRight
  /\ \A r, i \in member : ~Ended(r) /\ ~Ended(i) =>
       InOnePlace(r, written[r][i], received[r][i], incoming[i], buffer[r][i] \o wire[r][i],
                  writes[r][i])

(* A replica ends with an error only when a TCP connection was refused, when a message was  *)
(* sent that is larger than the buffer of a read task, or when the servers are stopped.     *)
Oversized == \E r, i \in member : \E m \in ToSet(written[r][i]) : m.size > BufferSize

FailsForReason == (\E r \in member : phase[r] = "failed") => refused \/ Oversized \/ cancelled

(* Replicas that wait in a circle: each for room in the write channel to the next one,      *)
(* which takes no messages while it waits itself.                                        *)
Blocked(r, i) ==
  /\ phase[r] = "running" /\ effects[r] # <<>> /\ Head(effects[r]).to = i
  /\ Len(writes[r][i]) = WriteCapacity /\ Len(incoming[i]) = MessageCapacity

CircularWait ==
  \E s \in SUBSET member : s # {} /\ \A r \in s : \E i \in s : Blocked(r, i)

(* Nothing else keeps a replica from its next select for ever: not the bootstrap, in         *)
(* whatever order the replicas start and connect, unless a TCP connection is refused; and     *)
(* not the connections.                                                                  *)
OnlyCircleStalls ==
  \/ \A r \in Replica : []<>(r \in member => Selecting(r) \/ Ended(r))
  \/ <>[](refused \/ CircularWait)

(* Servers that are stopped end, also if others end before them, unless in such a circle.    *)
StoppedEnds == cancelled ~> (\A r \in member : Ended(r)) \/ CircularWait
=============================================================================
