----------------------------- MODULE MCPbftLossy -----------------------------
(* PbftLossy for TLC.                                                         *)
EXTENDS PbftLossy

CONSTANTS p, b1, b2, b3, c1, c2, c3

(* What a retransmission repairs: the proposals, and the votes to the primary.  *)
RepairedLinks ==
  ({"PrePrepare"} \X (Correct \ {Primary})) \cup ({"Prepare", "Commit"} \X {Primary})

(* The Prepares that backups send to each other.                                *)
BackupPrepareLinks == {"Prepare"} \X (Correct \ {Primary})
=============================================================================
