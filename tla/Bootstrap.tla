------------------------------ MODULE Bootstrap ------------------------------
(* How the replicas of a service connect to each other before they run: boot_replica  *)
(* of src/transport.rs (QUIC) and of src/transport/tcp.rs (TCP). Each replica runs an   *)
(* active task, which connects to others one after the other and sends its own id       *)
(* over each connection, concurrently with a passive one, which accepts a number of      *)
(* connections and reads the id from each before it accepts the next. With QUIC there    *)
(* is one connection per pair, made by the lower id; with TCP one in each direction.     *)
EXTENDS Integers, FiniteSets

CONSTANT Replica   \* the ids of the largest service that is considered
ASSUME ReplicaAssumption == \E n \in Replica : Replica = 0..n

VARIABLES
  transport,   \* quic, tcp
  member,      \* the replicas of this service, the keys of server_internal_addresses
  phase,       \* phase[r]: down, booting, running, leaving, left, failed
  active,      \* active[r][i]: how far the active task of r is with the connection to i:
               \* none, dialed, made, labelled
  accepted,    \* accepted[r]: whose connections the passive task of r has accepted
  reading,     \* reading[r]: the one it reads the id from, if there is one
  labels,      \* labels[r]: the ids it has read, each with the replica that it came from
  refused      \* a TCP connection was refused

bootVars == <<active, accepted, reading, labels, refused>>

BootInit ==
  /\ phase = [r \in Replica |-> "down"]
  /\ active = [r \in Replica |-> [i \in Replica |-> "none"]]
  /\ accepted = [r \in Replica |-> {}]
  /\ reading = [r \in Replica |-> {}]
  /\ labels = [r \in Replica |-> {}]
  /\ refused = FALSE

Peers(r) == member \ {r}
Targets(r) == {i \in Peers(r) : transport = "quic" => i > r}
AcceptsOneMore(r) == IF transport = "quic" THEN r + 1 ELSE Cardinality(member) - 1
NumAccepts(r) == IF transport = "quic" THEN r ELSE Cardinality(member) - 1

(* A replica starts, and binds its address before it does anything else.               *)
Start(r) ==
  /\ r \in member /\ phase[r] = "down"
  /\ phase' = [phase EXCEPT ![r] = "booting"]
  /\ UNCHANGED bootVars

(* The next connection of the active task, in the arbitrary order of the map. A QUIC    *)
(* handshake waits for the other side as long as it takes; a TCP connection is refused   *)
(* while nobody listens, and is made without being accepted otherwise. The delay before  *)
(* the first one (server_interconnect_delay) may be too short.                          *)
ActiveIdle(r) == \A i \in Replica : active[r][i] \notin {"dialed", "made"}

Dial(r, i) ==
  /\ phase[r] = "booting"
  /\ ActiveIdle(r) /\ i \in Targets(r) /\ active[r][i] = "none"
  /\ \/ /\ transport = "quic"
        /\ active' = [active EXCEPT ![r][i] = "dialed"]
        /\ UNCHANGED <<phase, refused>>
     \/ /\ transport = "tcp" /\ phase[i] = "booting"
        /\ active' = [active EXCEPT ![r][i] = "made"]
        /\ UNCHANGED <<phase, refused>>
     \/ /\ transport = "tcp" /\ phase[i] # "booting"
        /\ phase' = [phase EXCEPT ![r] = "failed"]
        /\ refused' = TRUE
        /\ UNCHANGED active
  /\ UNCHANGED <<accepted, reading, labels>>

(* The active task sends the id of its replica.                                        *)
OwnId(r) == r

SendLabel(r, i) ==
  /\ phase[r] = "booting"
  /\ active[r][i] = "made"
  /\ active' = [active EXCEPT ![r][i] = "labelled"]
  /\ UNCHANGED <<phase, accepted, reading, labels, refused>>

Accept(r, i) ==
  /\ phase[r] = "booting"
  /\ reading[r] = {} /\ Cardinality(accepted[r]) < NumAccepts(r) /\ i \notin accepted[r]
  /\ \/ /\ transport = "quic" /\ active[i][r] = "dialed"
        /\ active' = [active EXCEPT ![i][r] = "made"]
     \/ /\ transport = "tcp" /\ active[i][r] \in {"made", "labelled"}
        /\ UNCHANGED active
  /\ accepted' = [accepted EXCEPT ![r] = @ \cup {i}]
  /\ reading' = [reading EXCEPT ![r] = {i}]
  /\ UNCHANGED <<phase, labels, refused>>

ReadLabel(r, i) ==
  /\ phase[r] = "booting"
  /\ reading[r] = {i} /\ active[i][r] = "labelled"
  /\ labels' = [labels EXCEPT ![r] = @ \cup {[id |-> OwnId(i), peer |-> i]}]
  /\ reading' = [reading EXCEPT ![r] = {}]
  /\ UNCHANGED <<phase, active, accepted, refused>>

(* Both tasks are done. With QUIC the connections of both are put into one map, which    *)
(* has to have an entry for every other replica.                                        *)
ReadIds(r) == {l.id : l \in labels[r]}
Complete(r) ==
  transport = "quic" => Cardinality(Targets(r) \cup ReadIds(r)) = Cardinality(member) - 1

Ready(r) ==
  /\ phase[r] = "booting"
  /\ \A i \in Targets(r) : active[r][i] = "labelled"
  /\ reading[r] = {} /\ Cardinality(accepted[r]) = NumAccepts(r)
  /\ phase' = [phase EXCEPT ![r] = IF Complete(r) THEN "running" ELSE "failed"]
  /\ UNCHANGED bootVars

BootStep(r) ==
  \/ Start(r) \/ Ready(r)
  \/ \E i \in Replica : Dial(r, i) \/ SendLabel(r, i) \/ Accept(r, i) \/ ReadLabel(r, i)

-----------------------------------------------------------------------------
(* A replica that runs has exactly one connection to send to, and one to receive from,    *)
(* every other replica, and knows which is whose.                                        *)
ConnectedRight ==
  \A r \in member : phase[r] = "running" =>
    /\ \A l \in labels[r] : l.id = l.peer
    /\ Targets(r) \cup ReadIds(r) = Peers(r)
    /\ transport = "quic" => Targets(r) \cap ReadIds(r) = {}
    /\ transport = "tcp" => ReadIds(r) = Peers(r)
=============================================================================
