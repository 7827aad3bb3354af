----------------------------- MODULE ACSession -----------------------------
(***************************************************************************)
(* One session of the AC: the thread CWManageWTP (src/ACMainLoop.c) with   *)
(* the handlers of the protocol states (ACJoinState.c, ACConfigureState.c, *)
(* ACDataCheckState.c, ACRunState.c) and the acknowledged requests of      *)
(* ACRetransmission.c, in the build without DTLS.                          *)
(*                                                                         *)
(* Around it: the main thread appends the WTP's packets to                 *)
(* packetReceiveList, one application at a time submits a command          *)
(* (ACInterface.c) and waits for its end, and the ticker thread of         *)
(* TimerLib sends the critical signal when a timer of the session expires. *)
(* The signal handler runs inside the session thread, where it is, unless  *)
(* the signal is blocked.                                                  *)
(*                                                                         *)
(* The content of a packet is chosen when it is taken out of the list.     *)
(* The soft timer has no effect and is left out: CWACSendFragments frees   *)
(* the messages it sends, so CWSoftTimerExpiredHandler always returns at   *)
(* its test messages == NULL (l.857).                                      *)
(***************************************************************************)
EXTENDS Integers

CONSTANTS
  MaxPackets,    \* packets the WTP sends (bound of the model)
  MaxRequests    \* acknowledged requests the AC sends (bound of the model)

ASSUME SessionAssumption == MaxPackets \in Nat /\ MaxRequests \in Nat

VARIABLES
  pc,            \* where the session thread is
  currentState,  \* gWTPs[i].currentState
  packets,       \* number of packets in packetReceiveList
  arrived,       \* number of packets appended so far
  isRequestClose,
  critBlocked,   \* the thread blocks CW_CRITICAL_TIMER_EXPIRED_SIGNAL
  pendCrit,      \* that signal is pending for the thread
  timers,        \* critical timers of the session in the timer queue
  current,       \* currentTimer is the id of one of them
  inflight,      \* the ticker took such a timer out, its signal is yet to be sent
  interfaceCommand,          \* a command is set (# NO_CMD)
  interfaceCommandProgress,
  app,           \* the application: waits for interfaceComplete, or how it was woken
  expected,      \* responseType and responseSeqNum, None if not isRetransmitting
  requests,      \* acknowledged requests sent so far, the last sequence number
  commandSeq,    \* history: sequence number of the command's request, 0 before it
  acked          \* history: requests whose response was accepted

listVars == <<packets, arrived>>
signalVars == <<isRequestClose, critBlocked, pendCrit>>
timerVars == <<timers, current, inflight>>
appVars == <<interfaceCommand, interfaceCommandProgress, app, commandSeq>>
requestVars == <<expected, requests, acked>>
vars == <<pc, currentState, listVars, signalVars, timerVars, appVars, requestVars>>

\* start: before the loop; loop: before the lock and the wait condition; toWait:
\* condition found false, lock held; waiting: in pthread_cond_wait; awake: lock
\* released; checked: not asked to close; serve: signals blocked; closing and
\* freeing: in _CWCloseThread; closed: slot released, thread gone.
Places == {"start", "loop", "toWait", "waiting", "awake", "checked", "serve",
           "closing", "freeing", "closed"}

None == [type |-> "unused", seq |-> 0]
Response == [type : {"update", "station"}, seq : 1 .. MaxRequests]

Init ==
  /\ pc = "start"
  /\ currentState = "join"
  /\ packets = 0 /\ arrived = 0
  /\ isRequestClose = FALSE
  /\ critBlocked = TRUE
  /\ pendCrit = FALSE
  /\ timers = 0 /\ current = FALSE /\ inflight = FALSE
  /\ interfaceCommand = FALSE
  /\ interfaceCommandProgress = FALSE
  /\ app = "idle"
  /\ commandSeq = 0
  /\ expected = None
  /\ requests = 0
  /\ acked = {}

-----------------------------------------------------------------------------
\* Definitions named <Operator>_<bug> are mutants of the operator that follows:
\* Next uses none of them.

(* A signal on interfaceWait: the thread looks at its condition again. *)
Wake == pc' = IF pc = "waiting" THEN "loop" ELSE pc

(* interfaceMutex is free for another thread. *)
Unlocked == pc # "toWait"

(* CWTimerRequest and CWTimerCancel on currentTimer. *)
RequestTimer == timers' = timers + 1 /\ current' = TRUE

CancelTimer_UnknownId == timers' = timers - 1 /\ current' = FALSE

CancelTimer ==
  /\ timers' = IF current THEN timers - 1 ELSE timers
  /\ current' = FALSE

RestartTimer ==
  /\ timers' = IF current THEN timers ELSE timers + 1
  /\ current' = TRUE

(* The bottom of the loop unblocks the signals: a pending one is handled now. *)
NextIteration ==
  /\ pc' = "loop"
  /\ critBlocked' = FALSE
  /\ isRequestClose' = (isRequestClose \/ pendCrit)
  /\ pendCrit' = FALSE

-----------------------------------------------------------------------------
(* The other threads.  CWACManageIncomingPacket appends a packet. *)
AppendPacket_NoSignal ==
  /\ pc # "closed" /\ Unlocked
  /\ arrived < MaxPackets
  /\ arrived' = arrived + 1
  /\ packets' = packets + 1
  /\ UNCHANGED <<pc, currentState, signalVars, timerVars, appVars, requestVars>>

AppendPacket ==
  /\ pc # "closed" /\ Unlocked
  /\ arrived < MaxPackets
  /\ arrived' = arrived + 1
  /\ packets' = packets + 1
  /\ Wake
  /\ UNCHANGED <<currentState, signalVars, timerVars, appVars, requestVars>>

(* An application sets a command, in whatever state the session is, and waits *)
(* for interfaceComplete (CWOFDMSetValues, CWVendorSetValues, CWWumSetValues). *)
SetValues ==
  /\ pc \notin {"start", "closed"} /\ Unlocked
  /\ app # "waiting"
  /\ interfaceCommand' = TRUE
  /\ app' = "waiting"
  /\ commandSeq' = 0
  /\ Wake
  /\ UNCHANGED <<currentState, listVars, signalVars, timerVars,
                 interfaceCommandProgress, requestVars>>

(* The ticker takes an expired timer out of the queue ... *)
Expire ==
  /\ timers > 0
  /\ ~ inflight
  /\ timers' = timers - 1
  /\ current' \in {FALSE, current /\ timers > 1}
  /\ inflight' = TRUE
  /\ UNCHANGED <<pc, currentState, listVars, signalVars, appVars, requestVars>>

(* ... and CWHandleTimer signals the thread.  The handler asks for the close. *)
Interrupt ==
  /\ inflight
  /\ pc # "closed" /\ ~ critBlocked
  /\ inflight' = FALSE
  /\ isRequestClose' = TRUE
  /\ Wake
  /\ UNCHANGED <<currentState, listVars, critBlocked, pendCrit, timers, current,
                 appVars, requestVars>>

(* A blocked signal stays pending; one for a thread that is gone is lost. *)
SignalBlocked ==
  /\ inflight
  /\ pc = "closed" \/ critBlocked
  /\ inflight' = FALSE
  /\ pendCrit' = (pc # "closed")
  /\ UNCHANGED <<pc, currentState, listVars, isRequestClose, critBlocked,
                 timers, current, appVars, requestVars>>

-----------------------------------------------------------------------------
(* The session thread, up to the loop: the WaitJoin timer is started, or the *)
(* thread closes when it cannot be.                                          *)
StartSession ==
  /\ pc = "start"
  /\ currentState' = "join"
  /\ interfaceCommand' = FALSE
  /\ interfaceCommandProgress' = FALSE
  /\ \/ RequestTimer /\ pc' = "loop"
     \/ UNCHANGED <<timers, current>> /\ pc' = "closing"
  /\ UNCHANGED <<listVars, signalVars, inflight, app, commandSeq, requestVars>>

(* The wait condition, under interfaceMutex. *)
LoopTop ==
  /\ pc = "loop"
  /\ pc' = IF isRequestClose \/ packets > 0 \/ interfaceCommand THEN "awake" ELSE "toWait"
  /\ UNCHANGED <<currentState, listVars, signalVars, timerVars, appVars, requestVars>>

Sleep ==
  /\ pc = "toWait"
  /\ pc' = "waiting"
  /\ UNCHANGED <<currentState, listVars, signalVars, timerVars, appVars, requestVars>>

CheckClose_Skipped ==
  /\ pc = "awake"
  /\ pc' = "checked"
  /\ UNCHANGED <<currentState, listVars, signalVars, timerVars, appVars, requestVars>>

CheckClose ==
  /\ pc = "awake"
  /\ pc' = IF isRequestClose THEN "closing" ELSE "checked"
  /\ UNCHANGED <<currentState, listVars, signalVars, timerVars, appVars, requestVars>>

BlockSignals ==
  /\ pc = "checked"
  /\ pc' = "serve"
  /\ critBlocked' = TRUE
  /\ UNCHANGED <<currentState, listVars, isRequestClose, pendCrit, timerVars,
                 appVars, requestVars>>

-----------------------------------------------------------------------------
(* A packet leaves the list. *)
TakePacket ==
  /\ pc = "serve"
  /\ packets > 0
  /\ packets' = packets - 1
  /\ UNCHANGED arrived

(* CWProtocolParseFragment has no message yet, or cannot read the packet: the *)
(* loop goes on without unblocking the critical signal (l.502).               *)
ReceiveFragment ==
  /\ TakePacket
  /\ pc' = "loop"
  /\ UNCHANGED <<currentState, signalVars, timerVars, appVars, requestVars>>

(* Out of memory, no timer, or a send that fails: the session closes.  The    *)
(* handler may have cancelled or restarted its timer before.                  *)
CriticalError ==
  /\ TakePacket
  /\ pc' = "closing"
  /\ \/ currentState \in {"join", "configure"} /\ UNCHANGED <<timers, current>>
     \/ currentState # "configure" /\ CancelTimer
     \/ currentState = "run" /\ RestartTimer
  /\ UNCHANGED <<currentState, signalVars, inflight, appVars, requestVars>>

(* Not a Join (or Configure) Request: logged and ignored. *)
IgnoreMessage ==
  /\ TakePacket
  /\ currentState \in {"join", "configure"}
  /\ NextIteration
  /\ UNCHANGED <<currentState, timerVars, appVars, requestVars>>

ACEnterJoin_KeepsWaitJoin ==
  /\ TakePacket
  /\ currentState = "join"
  /\ currentState' = "configure"
  /\ NextIteration
  /\ UNCHANGED <<timerVars, appVars, requestVars>>

(* A Join Request is answered; the WaitJoin timer is cancelled. *)
ACEnterJoin ==
  /\ TakePacket
  /\ currentState = "join"
  /\ CancelTimer
  /\ currentState' = "configure"
  /\ NextIteration
  /\ UNCHANGED <<inflight, appVars, requestVars>>

(* A Configure Request is answered; the ChangeStatePending timer starts. *)
ACEnterConfigure ==
  /\ TakePacket
  /\ currentState = "configure"
  /\ RequestTimer
  /\ currentState' = "dataCheck"
  /\ NextIteration
  /\ UNCHANGED <<inflight, appVars, requestVars>>

(* A Change State Event Request is answered and NeighborDead replaces the     *)
(* ChangeStatePending timer, which is cancelled before the message is parsed. *)
ACEnterDataCheck ==
  /\ TakePacket
  /\ currentState = "dataCheck"
  /\ RestartTimer
  /\ currentState' = "run"
  /\ NextIteration
  /\ UNCHANGED <<inflight, appVars, requestVars>>

(* Any other message of the data check state, and in the run state a data     *)
(* message without a station, an unreadable one, or a response that is not    *)
(* the expected one: the timer is cancelled and not started again.            *)
LoseTimer ==
  /\ CancelTimer
  /\ NextIteration
  /\ UNCHANGED <<currentState, inflight, appVars>>

IgnoreInDataCheck ==
  /\ TakePacket
  /\ currentState = "dataCheck"
  /\ LoseTimer
  /\ UNCHANGED requestVars

IgnoreInRun ==
  /\ TakePacket
  /\ currentState = "run"
  /\ LoseTimer
  /\ UNCHANGED requestVars

(* CWACSendAcknowledgedPacket: the response to this request is awaited, in    *)
(* place of any other.                                                        *)
SendAcknowledged(type) ==
  /\ requests < MaxRequests
  /\ requests' = requests + 1
  /\ expected' = [type |-> type, seq |-> requests + 1]
  /\ UNCHANGED acked

(* The request could not be assembled, or not be sent (CWACStopRetransmission). *)
SendFailed ==
  /\ expected' \in {expected, None}
  /\ UNCHANGED <<requests, acked>>

(* A data frame of a station: the AC sends a Station Configuration Request. *)
ReceiveFrame ==
  /\ TakePacket
  /\ currentState = "run"
  /\ LoseTimer
  /\ SendAcknowledged("station") \/ SendFailed

(* A request of the WTP in the run state (echo, change state event, data      *)
(* transfer, WTP event, or an unknown one) is answered; NeighborDead restarts. *)
ReceiveRequest ==
  /\ TakePacket
  /\ currentState = "run"
  /\ RestartTimer
  /\ NextIteration
  /\ UNCHANGED <<currentState, inflight, appVars, requestVars>>

IsExpected_TypeOnly(r) == r.type = expected.type

(* CWACParseGenericRunMessage: a response needs the awaited type and number. *)
IsExpected(r) == r = expected

(* The application that waits is woken, if its command was in progress. *)
CompleteCommand ==
  /\ interfaceCommandProgress' = FALSE
  /\ app' = IF interfaceCommandProgress THEN "answered" ELSE app
  /\ UNCHANGED <<interfaceCommand, commandSeq>>

(* A positive WTP_COMMIT_ACK: the WTP ends, and its session with it. *)
CloseOnCommit ==
  /\ pc' = "loop"
  /\ critBlocked' = FALSE
  /\ isRequestClose' = TRUE
  /\ pendCrit' = FALSE

(* Configuration Update Response and Clear Configuration Response end the     *)
(* application's command; a Station Configuration Response does not.          *)
ReceiveResponse(r) ==
  /\ TakePacket
  /\ currentState = "run"
  /\ r.seq <= requests
  /\ IsExpected(r)
  /\ expected' = None
  /\ acked' = acked \union {r.seq}
  /\ RestartTimer
  /\ IF r.type = "update" THEN CompleteCommand ELSE UNCHANGED appVars
  /\ NextIteration \/ (r.type = "update" /\ CloseOnCommit)
  /\ UNCHANGED <<currentState, inflight, requests>>

-----------------------------------------------------------------------------
(* With no packet to serve, the thread sends the request of a command. *)
SendCommand ==
  /\ pc = "serve" /\ packets = 0
  /\ interfaceCommand
  /\ interfaceCommand' = FALSE
  /\ SendAcknowledged("update")
  /\ interfaceCommandProgress' = TRUE
  /\ commandSeq' = requests + 1
  /\ NextIteration
  /\ UNCHANGED <<currentState, listVars, timerVars, app>>

CommandFails_Silently ==
  /\ pc = "serve" /\ packets = 0
  /\ interfaceCommand
  /\ interfaceCommand' = FALSE
  /\ SendFailed
  /\ NextIteration
  /\ UNCHANGED <<currentState, listVars, timerVars, interfaceCommandProgress, app, commandSeq>>

(* The request could not be sent: the application is told at once. *)
CommandFails ==
  /\ pc = "serve" /\ packets = 0
  /\ interfaceCommand
  /\ interfaceCommand' = FALSE
  /\ SendFailed
  /\ app' = "failed"
  /\ NextIteration
  /\ UNCHANGED <<currentState, listVars, timerVars, interfaceCommandProgress, commandSeq>>

-----------------------------------------------------------------------------
(* _CWCloseThread: the signals are blocked, the timer cancelled, the request  *)
(* forgotten, and a command in progress ended.                                *)
_CWCloseThread ==
  /\ pc = "closing"
  /\ pc' = "freeing"
  /\ critBlocked' = TRUE
  /\ CancelTimer
  /\ expected' = None
  /\ interfaceCommandProgress' = FALSE
  /\ app' = IF interfaceCommandProgress THEN "released" ELSE app
  /\ UNCHANGED <<currentState, listVars, isRequestClose, pendCrit, inflight,
                 interfaceCommand, commandSeq, requests, acked>>

(* Its end: the packets are freed with their list, then the slot is free. *)
FreeSlot ==
  /\ pc = "freeing"
  /\ pc' = "closed"
  /\ packets' = 0
  /\ UNCHANGED <<currentState, arrived, signalVars, timerVars, appVars, requestVars>>

-----------------------------------------------------------------------------
ReceivePacket ==
  \/ ReceiveFragment \/ CriticalError \/ IgnoreMessage
  \/ ACEnterJoin \/ ACEnterConfigure \/ ACEnterDataCheck \/ IgnoreInDataCheck
  \/ IgnoreInRun \/ ReceiveFrame \/ ReceiveRequest
  \/ \E r \in Response : ReceiveResponse(r)

CWManageWTP ==
  \/ StartSession \/ LoopTop \/ Sleep \/ CheckClose \/ BlockSignals
  \/ ReceivePacket \/ SendCommand \/ CommandFails
  \/ _CWCloseThread \/ FreeSlot

Others == AppendPacket \/ SetValues \/ Expire \/ Interrupt \/ SignalBlocked

Next == CWManageWTP \/ Others

(* The session thread is scheduled; no one else has to do anything. *)
Spec == Init /\ [][Next]_vars /\ WF_vars(CWManageWTP)

-----------------------------------------------------------------------------
(* Every variable has its type. *)
TypeOK ==
  /\ pc \in Places
  /\ currentState \in {"join", "configure", "dataCheck", "run"}
  /\ packets \in 0 .. MaxPackets /\ arrived \in 0 .. MaxPackets
  /\ isRequestClose \in BOOLEAN /\ critBlocked \in BOOLEAN /\ pendCrit \in BOOLEAN
  /\ timers \in Nat /\ current \in BOOLEAN /\ inflight \in BOOLEAN
  /\ interfaceCommand \in BOOLEAN /\ interfaceCommandProgress \in BOOLEAN
  /\ app \in {"idle", "waiting", "answered", "failed", "released"}
  /\ expected \in Response \union {None}
  /\ requests \in 0 .. MaxRequests /\ commandSeq \in 0 .. MaxRequests
  /\ acked \subseteq 1 .. MaxRequests

(* The session never has two critical timers, since only the last can be      *)
(* cancelled (currentTimer, CWAC.h:120); the configure state has none; and    *)
(* none is left in the queue for a thread that has closed.                    *)
OneTimerPerSession ==
  /\ timers = IF current THEN 1 ELSE 0
  /\ currentState = "configure" => timers = 0
  /\ pc \in {"freeing", "closed"} => timers = 0

(* An application is told that its command was carried out only when the      *)
(* response to the request of this command was accepted: a late or repeated   *)
(* response to an earlier one does not end it.                                *)
AnsweredMeansAcked == app = "answered" => commandSeq \in acked

(* Packets do not stay in the list of a session that sleeps: no append is     *)
(* missed between the wait condition and the wait.                            *)
PacketsServed == packets > 0 ~> packets = 0

(* A session asked to close does so at the latest after the next packet, even *)
(* if the signal that asked came between the wait condition and the wait.     *)
ClosesAtNextPacket == isRequestClose /\ packets > 0 ~> pc = "closed"

(* The session implements its abstract specification; "lost" is no value of   *)
(* the abstract command, so an open session never forgets a command.          *)
phase == IF pc \in {"freeing", "closed"} THEN "closed" ELSE currentState

command ==
  CASE app # "waiting" -> "none"
    [] app = "waiting" /\ interfaceCommand -> "queued"
    [] app = "waiting" /\ ~ interfaceCommand /\ interfaceCommandProgress -> "sent"
    [] OTHER -> "lost"

Service == INSTANCE SessionService WITH phase <- phase, command <- command

ImplementsService == Service!Spec

(* "signals will be unblocked by the threads that needs timers"               *)
(* (ACMainLoop.c:85): the signal of an expired timer does not stay pending    *)
(* for a session thread that goes on.                                         *)
TimerSignalIsUnblocked == pendCrit ~> (~ pendCrit \/ pc = "closed")
=============================================================================
