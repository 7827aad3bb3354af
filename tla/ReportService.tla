--------------------------- MODULE ReportService ---------------------------
(***************************************************************************)
(* What the collector of update reports promises for each connection: it   *)
(* stays open until its report is taken, once, or it is given up; only a   *)
(* report is taken; and what was decided stays.  Several connections may   *)
(* be given up at once, and in any order with respect to their arrival.    *)
(***************************************************************************)
CONSTANTS
  Conns,    \* connections
  Genuine   \* those that carry a report

VARIABLE status

Init == status = [c \in Conns |-> "none"]

Open(c) == status[c] = "none" /\ status' = [status EXCEPT ![c] = "open"]

Take(c) ==
  /\ c \in Genuine /\ status[c] = "open"
  /\ status' = [status EXCEPT ![c] = "taken"]

GiveUp(S) ==
  /\ \A c \in S : status[c] = "open"
  /\ status' = [c \in Conns |-> IF c \in S THEN "lost" ELSE status[c]]

Next ==
  \/ \E c \in Conns : Open(c) \/ Take(c)
  \/ \E S \in SUBSET Conns : GiveUp(S)

Spec == Init /\ [][Next]_status
=============================================================================
