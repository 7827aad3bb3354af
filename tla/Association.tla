---------------------------- MODULE Association ----------------------------
(***************************************************************************)
(* What a WTP and its AC promise about one another: an association is      *)
(* built in lock step.  The WTP asks to join, then to configure, then      *)
(* reports its state; in each phase the AC has granted at most the next    *)
(* one, and the WTP enters only the phase that the AC has granted in this  *)
(* association.  The WTP may give up at any time and start over with       *)
(* nothing granted; only in the configure phase does giving up end it.     *)
(***************************************************************************)
VARIABLES
  wtp,      \* the phase of the WTP
  granted   \* the phase that its AC lets it enter

vars == <<wtp, granted>>

After == [join |-> "configure", configure |-> "dataCheck", dataCheck |-> "run"]

Requests == DOMAIN After

Init == wtp = "idle" /\ granted = "join"

Begin == wtp = "idle" /\ wtp' = "join" /\ UNCHANGED granted

(* The AC accepts the request of the WTP's phase. *)
Grant ==
  /\ wtp \in Requests
  /\ granted = wtp
  /\ granted' = After[wtp]
  /\ UNCHANGED wtp

(* The WTP learns of it. *)
Enter ==
  /\ wtp \in Requests
  /\ granted = After[wtp]
  /\ wtp' = granted
  /\ UNCHANGED granted

GiveUp ==
  /\ \/ wtp \in {"join", "dataCheck", "run"} /\ wtp' = "idle"
     \/ wtp = "configure" /\ wtp' = "ended"
  /\ granted' = "join"

Next == Begin \/ Grant \/ Enter \/ GiveUp

Spec == Init /\ [][Next]_vars
=============================================================================
