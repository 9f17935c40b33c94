------------------------------ MODULE PbftLossy ------------------------------
(* Pbft over links that lose messages until the network is stable, and what     *)
(* the retransmissions of src/pbft/mod.rs (tick at the primary, the duplicated   *)
(* PrePrepare path at the backups) make of it. Every step is a step of Pbft, so  *)
(* its safety carries over; here a loss lasts until the sender sends again.      *)
EXTENDS Pbft

CONSTANTS LossyLinks,   \* the <<type, destination>> pairs that lose messages
          MaxLost       \* bound: how many messages are missing at a time

ASSUME LossyAssumption ==
  /\ LossyLinks \subseteq ({"PrePrepare", "Prepare", "Commit"} \X Correct)
  /\ MaxLost \in Nat

VARIABLES
  lost,     \* <<r, m>>: message m was lost on its way to r, and not sent again
  resent,   \* <<r, m>>: a PrePrepare sent again is on its way to r
  stable    \* from now on nothing is lost

lossVars == <<lost, resent, stable>>
lossyVars == <<slots, proposeNum, finalizeNum, pending, submitted, ticked, sent, ended,
               lost, resent, stable>>

LossyInit == Init /\ lost = {} /\ resent = {} /\ stable = FALSE

Arrives(r, m) == <<r, m>> \notin lost

LossyAccept(r, k) ==
  \E b \in KnownBlocks :
    /\ Arrives(r, PrePrepare(k, b))
    /\ AcceptPrePrepare(r, k, b)
    /\ UNCHANGED lossVars

(* The PrePrepare of a tick reaches a backup that has the block: its votes go   *)
(* again to the primary, and to nobody else.                                    *)
LossyRepeat(r, k) ==
  \E b \in KnownBlocks :
    /\ <<r, PrePrepare(k, b)>> \in resent
    /\ RepeatVotes(r, k, b)
    /\ resent' = resent \ {<<r, PrePrepare(k, b)>>}
    /\ lost' = lost \ ({<<Primary, Prepare(r, k, b)>>}
                         \cup (IF slots[r][k].prepareCert # {}
                               THEN {<<Primary, Commit(r, k, b)>>} ELSE {}))
    /\ UNCHANGED stable

LossyPrepare(r, k) ==
  \E b \in KnownBlocks : \E q \in Replica :
    /\ Arrives(r, Prepare(q, k, b))
    /\ ReceivePrepare(r, q, k, b)
    /\ UNCHANGED lossVars

LossyCommit(r, k) ==
  \E b \in KnownBlocks : \E q \in Replica :
    /\ Arrives(r, Commit(q, k, b))
    /\ ReceiveCommit(r, q, k, b)
    /\ UNCHANGED lossVars

LossyTick(r) ==
  /\ Tick(r)
  /\ LET again == (Correct \ {r}) \X Resent(r)
     IN  /\ lost' = lost \ again
         /\ resent' = resent \cup again
  /\ UNCHANGED stable

LossyRequest(command) ==
  /\ ReceiveForward(command) \/ \E r \in Correct \ ended : ClientRequest(r, command)
  /\ UNCHANGED lossVars

(* External: the network loses a message, also one that was sent again.         *)
Lose ==
  /\ ~stable
  /\ Cardinality(lost) < MaxLost
  /\ \E link \in LossyLinks :
     \E m \in {n \in sent : n.type = link[1] /\ (n.type # "PrePrepare" => n.from # link[2])} :
       /\ lost' = lost \cup {<<link[2], m>>}
       /\ resent' = resent \ {<<link[2], m>>}
  /\ UNCHANGED <<vars, stable>>

Stabilize ==
  /\ ~stable
  /\ stable' = TRUE
  /\ UNCHANGED <<vars, lost, resent>>

LossyNext ==
  \/ \E r \in Correct \ ended :
       \/ \E k \in BlockNum : \/ LossyAccept(r, k) \/ LossyRepeat(r, k)
                              \/ LossyPrepare(r, k) \/ LossyCommit(r, k)
       \/ LossyTick(r)
  \/ \E command \in Command : LossyRequest(command)
  \/ Lose
  \/ Stabilize

(* The network becomes stable, it delivers what is not lost, a replica handles   *)
(* every message it is delivered, and the event loop of a replica keeps ticking. *)
Fairness ==
  /\ WF_lossyVars(Stabilize)
  /\ \A r \in Correct :
       /\ WF_lossyVars(LossyTick(r))
       /\ \A k \in BlockNum : /\ WF_lossyVars(LossyAccept(r, k))
                              /\ WF_lossyVars(LossyRepeat(r, k))
                              /\ WF_lossyVars(LossyPrepare(r, k))
                              /\ WF_lossyVars(LossyCommit(r, k))

LossySpec == LossyInit /\ [][LossyNext]_lossyVars /\ Fairness

(* "(re)send whatever we have to best effort progress the primary": every block   *)
(* that a correct primary proposes is eventually final at the primary, although   *)
(* messages were lost.                                                            *)
PrimaryProgress ==
  \A command \in Command :
    (\E k \in 1..proposeNum[Primary] : command \in slots[Primary][k].block)
      ~> FinalizedAt(Primary, command)
=============================================================================
