--------------------------- MODULE SessionService ---------------------------
(***************************************************************************)
(* What one AC session (CWManageWTP, src/ACMainLoop.c:334) promises to its *)
(* WTP and to the application that sends it commands, whatever the thread, *)
(* its timers and its signals do inside.                                   *)
(*                                                                         *)
(* The session walks through the protocol states in order and may close at *)
(* any time.  A command is taken up unless the session closes first; once  *)
(* the request is sent, the command ends with the WTP's response, which    *)
(* only the run state accepts, or with the session.                        *)
(***************************************************************************)
VARIABLES
  phase,      \* the protocol state the session is in
  command     \* the application's command: none, queued for the session, or sent

vars == <<phase, command>>

Init == phase = "join" /\ command = "none"

Open == phase # "closed"

Advance ==
  /\ \/ phase = "join" /\ phase' = "configure"
     \/ phase = "configure" /\ phase' = "dataCheck"
     \/ phase = "dataCheck" /\ phase' = "run"
  /\ UNCHANGED command

Submit == command = "none" /\ command' = "queued" /\ UNCHANGED phase

(* The session sends the request, or reports at once that it cannot. *)
Take ==
  /\ Open
  /\ command = "queued"
  /\ command' \in {"sent", "none"}
  /\ UNCHANGED phase

Answer ==
  /\ phase = "run"
  /\ command = "sent"
  /\ command' = "none"
  /\ UNCHANGED phase

(* Closing ends the command that was sent; a command still in the queue is *)
(* not answered any more.                                                  *)
Close ==
  /\ Open
  /\ phase' = "closed"
  /\ command' = IF command = "sent" THEN "none" ELSE command

Next == Advance \/ Submit \/ Take \/ Answer \/ Close

Spec == Init /\ [][Next]_vars /\ WF_vars(Take)
=============================================================================
