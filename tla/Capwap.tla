------------------------------- MODULE Capwap -------------------------------
(***************************************************************************)
(* A WTP, its AC and the network between them: the requests by which the   *)
(* WTP joins, is configured and reports its state                          *)
(* (CWWTPSendAcknowledgedPacket, src/WTP.c:159), the sessions of the AC    *)
(* that answer them (AC*State.c), and messages that are lost, repeated and *)
(* reordered.                                                              *)
(*                                                                         *)
(* Each join of the WTP opens a socket of its own, hence a new address for *)
(* the AC, which opens a session for every address it does not know.  The  *)
(* packets a WTP has not read yet stay in gPacketReceiveList from one      *)
(* association to the next.                                                *)
(*                                                                         *)
(* WTP and ACSession model the two sides in detail, for any partner.  Here *)
(* each is reduced to its protocol phase.  Discovery finds the AC, which   *)
(* accepts every request and has a free slot; messages have one fragment;  *)
(* the WTP's join timer does not expire (WTP), and sequence numbers do not *)
(* come round within a run of the model (CW_MAX_SEQ_NUM, 255).             *)
(***************************************************************************)
EXTENDS Integers, Sequences

CONSTANTS
  gCWMaxRetransmit,
  MaxEras,        \* joins of the WTP (bound of the model)
  MaxEchoes,      \* Echo Requests (bound of the model)
  MaxLosses,      \* messages that are lost (bound of the model)
  MaxRepeats,     \* messages that arrive twice (bound of the model)
  MaxBreaks       \* sessions closed while the WTP uses them (bound of the model)

ASSUME CapwapAssumption ==
  /\ gCWMaxRetransmit \in Nat \ {0} /\ MaxEras \in Nat \ {0} /\ MaxEchoes \in Nat
  /\ MaxLosses \in Nat /\ MaxRepeats \in Nat /\ MaxBreaks \in Nat

VARIABLES
  phase,      \* the state of the WTP: nextState
  era,        \* number of its joins; names the socket of the current one
  seqNum,     \* the last sequence number it used
  awaited,    \* that of the request whose response it waits for
  gWTPRetransmissionCount,
  list,       \* gPacketReceiveList: responses that arrived
  session,    \* per era: currentState of the AC's session, "none" without one
  timer,      \* per era: the session has a critical timer
  net,        \* messages in flight
  echoes, losses, repeats, breaks,  \* what happened so far, of what is bounded
  reached,    \* history, per era: the furthest state of a session
  hopeless    \* history: a loss happened that a configuring WTP cannot survive

wtpVars == <<phase, era, awaited, gWTPRetransmissionCount>>
acVars == <<session, timer, reached>>
faultVars == <<losses, repeats, breaks, hopeless>>
vars == <<wtpVars, seqNum, list, acVars, net, echoes, faultVars>>

Eras == 1 .. MaxEras
After == [join |-> "configure", configure |-> "dataCheck", dataCheck |-> "run"]
Requests == DOMAIN After
Phases == {"discovery", "ended", "run"} \union Requests
MaxSeqNum == 3 * MaxEras + MaxEchoes

(* The copies of a request that is sent again, and their responses, differ in  *)
(* nothing the parties look at: copy only keeps them apart in the network.     *)
Messages ==
  [kind : {"request", "response"}, type : Requests \union {"echo"}, era : Eras,
   seqNum : 1 .. MaxSeqNum, copy : 0 .. gCWMaxRetransmit]

Init ==
  /\ phase = "discovery" /\ era = 0
  /\ seqNum = 0 /\ awaited = 0 /\ gWTPRetransmissionCount = 0
  /\ list = <<>>
  /\ session = [e \in Eras |-> "none"] /\ timer = [e \in Eras |-> FALSE]
  /\ reached = [e \in Eras |-> "join"]
  /\ net = {}
  /\ echoes = 0 /\ losses = 0 /\ repeats = 0 /\ breaks = 0 /\ hopeless = FALSE

-----------------------------------------------------------------------------
\* Definitions named <Operator>_<bug> are mutants of the operator that follows:
\* Next uses none of them.

(* The WTP.  A request of its current phase, sent for the first time or again. *)
Request(type, e, num, copy) ==
  [kind |-> "request", type |-> type, era |-> e, seqNum |-> num, copy |-> copy]

SendRequest(type, e) ==
  /\ seqNum' = seqNum + 1
  /\ awaited' = seqNum + 1
  /\ gWTPRetransmissionCount' = 0
  /\ net' = net \union {Request(type, e, seqNum + 1, 0)}

(* Discovery has found an AC: a new socket, and a Join Request on it. *)
CWWTPEnterJoin ==
  /\ phase = "discovery" /\ era < MaxEras
  /\ phase' = "join"
  /\ era' = era + 1
  /\ SendRequest("join", era + 1)
  /\ UNCHANGED <<list, acVars, echoes, faultVars>>

(* No response: join and data check go back to discovery, configure ends the   *)
(* process.                                                                    *)
RequestFails_Ends ==
  /\ phase' = "ended"
  /\ UNCHANGED <<gWTPRetransmissionCount, net>>

RequestFails ==
  /\ phase' = IF phase = "configure" THEN "ended" ELSE "discovery"
  /\ UNCHANGED <<gWTPRetransmissionCount, net>>

Retransmit_OneMore ==
  \/ /\ gWTPRetransmissionCount <= gCWMaxRetransmit
     /\ gWTPRetransmissionCount' = gWTPRetransmissionCount + 1
     /\ net' = net \union {Request(phase, era, awaited, gWTPRetransmissionCount + 1)}
     /\ UNCHANGED phase
  \/ gWTPRetransmissionCount > gCWMaxRetransmit /\ RequestFails

(* The retransmission loop goes round once more, or ends. *)
Retransmit ==
  \/ /\ gWTPRetransmissionCount + 1 < gCWMaxRetransmit
     /\ gWTPRetransmissionCount' = gWTPRetransmissionCount + 1
     /\ net' = net \union {Request(phase, era, awaited, gWTPRetransmissionCount + 1)}
     /\ UNCHANGED phase
  \/ gWTPRetransmissionCount + 1 >= gCWMaxRetransmit /\ RequestFails

(* The interval is longer than the way to the AC and back: it ends only when   *)
(* no copy of the request or its response is under way.                        *)
Timeout ==
  /\ phase \in Requests
  /\ list = <<>>
  /\ \A m \in net : m.seqNum # awaited
  /\ Retransmit
  /\ UNCHANGED <<era, seqNum, awaited, list, acVars, echoes, faultVars>>

IsAwaited_TypeOnly(m) == m.type = phase

(* The response has the type and the number of the request. *)
IsAwaited(m) == m.type = phase /\ m.seqNum = awaited

(* The next message of the list.  Its era is not looked at. *)
ReceiveResponse ==
  /\ phase \in Requests
  /\ list # <<>>
  /\ list' = Tail(list)
  /\ IF IsAwaited(Head(list))
     THEN /\ phase' = After[phase]
          /\ IF After[phase] \in Requests
             THEN SendRequest(After[phase], era)
             ELSE UNCHANGED <<seqNum, awaited, gWTPRetransmissionCount, net>>
     ELSE Retransmit /\ UNCHANGED <<seqNum, awaited>>
  /\ UNCHANGED <<era, acVars, echoes, faultVars>>

(* In the run state responses change nothing; the WTP leaves it when it has    *)
(* heard nothing for too long, or for an error.                                *)
ReceiveInRun ==
  /\ phase = "run"
  /\ list # <<>>
  /\ list' = Tail(list)
  /\ UNCHANGED <<wtpVars, seqNum, acVars, net, echoes, faultVars>>

LeaveRun ==
  /\ phase = "run"
  /\ phase' = "discovery"
  /\ UNCHANGED <<era, awaited, gWTPRetransmissionCount, seqNum, list, acVars, net, echoes,
                 faultVars>>

(* The heartbeat, which runs from the data check on. *)
SendEcho ==
  /\ phase \in {"dataCheck", "run"}
  /\ echoes < MaxEchoes
  /\ echoes' = echoes + 1
  /\ seqNum' = seqNum + 1
  /\ net' = net \union {Request("echo", era, seqNum + 1, 0)}
  /\ UNCHANGED <<wtpVars, list, acVars, faultVars>>

-----------------------------------------------------------------------------
(* The network.  A message that arrives may arrive once more. *)
Arrives(m, sent) ==
  \/ net' = (net \ {m}) \union sent /\ UNCHANGED repeats
  \/ repeats < MaxRepeats /\ repeats' = repeats + 1 /\ net' = net \union sent

(* A response reaches the socket it was sent to, if that is still open. *)
CWWTPReceiveDtlsPacket(m) ==
  /\ m.kind = "response"
  /\ \/ /\ m.era = era /\ phase \notin {"discovery", "ended"}
        /\ list' = Append(list, m)
        /\ Arrives(m, {})
     \/ /\ m.era # era \/ phase \in {"discovery", "ended"}
        /\ net' = net \ {m}
        /\ UNCHANGED <<list, repeats>>
  /\ UNCHANGED <<wtpVars, seqNum, acVars, echoes, losses, breaks, hopeless>>

(* A WTP that waits for a Configure Response in vain ends. *)
Lose(m) ==
  /\ losses < MaxLosses
  /\ losses' = losses + 1
  /\ net' = net \ {m}
  /\ hopeless' = (hopeless \/ (m.kind = "response" /\ m.type = "configure"))
  /\ UNCHANGED <<wtpVars, seqNum, list, acVars, echoes, repeats, breaks>>

-----------------------------------------------------------------------------
(* The AC.  A request from an address without a session opens one. *)
StateOf(e) == IF session[e] = "none" THEN "join" ELSE session[e]
TimerOf(e) == session[e] = "none" \/ timer[e]

Answer(m) == [m EXCEPT !.kind = "response"]

Order == [join |-> 0, configure |-> 1, dataCheck |-> 2, run |-> 3]

(* ACEnterJoin, ACEnterConfigure, ACEnterDataCheck: the configure state has no *)
(* timer.                                                                      *)
AcceptRequest(m) ==
  /\ m.type = StateOf(m.era)
  /\ session' = [session EXCEPT ![m.era] = After[m.type]]
  /\ timer' = [timer EXCEPT ![m.era] = m.type # "join"]
  /\ reached' = [reached EXCEPT ![m.era] =
                   IF Order[After[m.type]] > Order[@] THEN After[m.type] ELSE @]
  /\ Arrives(m, {Answer(m)})

(* The run state answers every request, an unexpected one with a failure. *)
AnswerInRun(m) ==
  /\ StateOf(m.era) = "run"
  /\ timer' = [timer EXCEPT ![m.era] = TRUE]
  /\ Arrives(m, {Answer(m)})
  /\ UNCHANGED <<session, reached>>

(* Any other request is ignored; in the data check state the timer is gone. *)
IgnoreRequest(m) ==
  /\ StateOf(m.era) \in Requests \ {m.type}
  /\ session' = [session EXCEPT ![m.era] = StateOf(m.era)]
  /\ timer' = [timer EXCEPT ![m.era] = StateOf(m.era) # "dataCheck" /\ TimerOf(m.era)]
  /\ Arrives(m, {})
  /\ UNCHANGED reached

ReceiveRequest(m) ==
  /\ m.kind = "request"
  /\ AcceptRequest(m) \/ AnswerInRun(m) \/ IgnoreRequest(m)
  /\ UNCHANGED <<wtpVars, seqNum, list, echoes, losses, breaks, hopeless>>

(* A session closes when its timer expires, or for an error while the WTP uses *)
(* it; the packets in its list are gone with it.                               *)
InUse(e) == e = era /\ phase \notin {"discovery", "ended"}

CloseSession(e) ==
  /\ session[e] # "none"
  /\ \/ ~ InUse(e) /\ timer[e] /\ UNCHANGED <<breaks, hopeless>>
     \/ /\ InUse(e) /\ breaks < MaxBreaks
        /\ breaks' = breaks + 1
        /\ hopeless' = (hopeless \/ phase \in {"join", "configure"})
  /\ session' = [session EXCEPT ![e] = "none"]
  /\ timer' = [timer EXCEPT ![e] = FALSE]
  /\ \E queued \in SUBSET {m \in net : m.kind = "request" /\ m.era = e} : net' = net \ queued
  /\ UNCHANGED <<wtpVars, seqNum, list, reached, echoes, losses, repeats>>

-----------------------------------------------------------------------------
Main == CWWTPEnterJoin \/ Timeout \/ ReceiveResponse \/ ReceiveInRun

Deliver == \E m \in net : CWWTPReceiveDtlsPacket(m) \/ ReceiveRequest(m)

Next ==
  \/ Main \/ LeaveRun \/ SendEcho
  \/ Deliver
  \/ \E m \in net : Lose(m)
  \/ \E e \in Eras : CloseSession(e)

(* The WTP's main thread is scheduled, and what is not lost arrives. *)
Spec == Init /\ [][Next]_vars /\ WF_vars(Main) /\ WF_vars(Deliver)

-----------------------------------------------------------------------------
(* Every variable has its type. *)
TypeOK ==
  /\ phase \in Phases /\ era \in 0 .. MaxEras
  /\ seqNum \in 0 .. MaxSeqNum /\ awaited \in 0 .. seqNum
  /\ gWTPRetransmissionCount \in 0 .. gCWMaxRetransmit - 1
  /\ list \in Seq({m \in Messages : m.kind = "response"})
  /\ session \in [Eras -> {"none", "run"} \union Requests]
  /\ timer \in [Eras -> BOOLEAN]
  /\ net \subseteq Messages
  /\ echoes \in 0 .. MaxEchoes /\ losses \in 0 .. MaxLosses
  /\ repeats \in 0 .. MaxRepeats /\ breaks \in 0 .. MaxBreaks
  /\ reached \in [Eras -> {"run"} \union Requests]
  /\ hopeless \in BOOLEAN

(* The two implement the association in lock step, whatever the network does   *)
(* and whenever the AC's session breaks: the WTP enters a phase only when a    *)
(* session for this very join has accepted the request for it, never on the    *)
(* response of an earlier association that was left in its list; and a session *)
(* that replays old requests never runs ahead of the WTP.                      *)
Agreement ==
  INSTANCE Association WITH
    wtp <- IF phase = "discovery" THEN "idle" ELSE phase,
    granted <- IF phase \in {"discovery", "ended"} THEN "join" ELSE reached[era]

ImplementsAssociation == Agreement!Spec

(* The retransmissions and new joins of the WTP make up for lost messages: it  *)
(* gets to the run state, unless a Configure Response was lost, or the session *)
(* broke before it was sent.  The AC has left the configure state then, and    *)
(* ignores the request that the WTP repeats until it gives up and ends.        *)
ReachesRun == <> (phase = "run" \/ hopeless)
=============================================================================
