-------------------------------- MODULE WTP --------------------------------
(***************************************************************************)
(* The WTP daemon: the main thread's state machine (src/WTP.c:605 and the  *)
(* handlers WTP*State.c), the acknowledged requests of its association     *)
(* (CWWTPSendAcknowledgedPacket), the run state with its lists of packets  *)
(* and frames, and its timers.                                             *)
(*                                                                         *)
(* Four kinds of threads meet here: the main thread, the receive threads   *)
(* that append packets to gPacketReceiveList, the capture thread that      *)
(* appends stations' frames to gFrameList, and the ticker of TimerLib,     *)
(* which runs the timer handlers one at a time.  Both lists share          *)
(* gInterfaceMutex and gInterfaceWait, so each signal may be for the other *)
(* list.                                                                   *)
(*                                                                         *)
(* What a packet contains is chosen when it is taken out of its list.  The *)
(* WTP starts in the discovery state (no AC address is forced).            *)
(***************************************************************************)
EXTENDS Integers

CONSTANTS
  ACs,               \* the configured ACs, gCWACList
  NoAC,              \* gACInfoPtr is NULL
  gCWMaxDiscoveries,
  gCWMaxRetransmit,
  MaxPackets,        \* packets that arrive (bound of the model)
  MaxFrames,         \* frames that are captured (bound of the model)
  MaxBeats           \* heartbeat handlers that run (bound of the model)

ASSUME WTPAssumption ==
  /\ ACs # {} /\ NoAC \notin ACs
  /\ gCWMaxDiscoveries \in Nat \ {0} /\ gCWMaxRetransmit \in Nat \ {0}
  /\ MaxPackets \in Nat /\ MaxFrames \in Nat /\ MaxBeats \in Nat

VARIABLES
  state,         \* nextState, the state whose handler runs
  pc,            \* where in that handler the main thread is
  gACInfoPtr,    \* the AC that is stored
  received,      \* the ACs whose answer was accepted in this discovery
  heard,         \* history: the ACs that answered at all in this discovery
  lastValid,     \* result of CWReadResponses, that of its last datagram
  gCWDiscoveryCount,
  gWTPRetransmissionCount,
  packets,       \* number of packets in gPacketReceiveList
  arrived,       \* number of packets that arrived so far
  frames,        \* number of frames in gFrameList
  captured,      \* number of frames captured so far
  bReceiveBinding,  \* frames seen before the packet was taken (run state)
  receiver,      \* a receive thread exists
  socket,        \* gWTPSocket is open
  gSuccessfulHandshake,
  joinTimer,     \* the WaitJoin timer is in the timer queue
  heartbeats,    \* heartbeat timers in the timer queue
  hbCurrent,     \* gCWHeartBeatTimerID names one of them
  dead,          \* NeighborDead timers in the timer queue
  gNeighborDeadTimerSet,
  ticker,        \* the handler the ticker runs
  beats,         \* heartbeat handlers run so far
  beatLost       \* history: a handler ended without starting the next heartbeat

place == <<state, pc>>
discoveryVars == <<gACInfoPtr, received, heard, lastValid, gCWDiscoveryCount>>
listVars == <<packets, arrived, frames, captured>>
linkVars == <<receiver, socket>>
joinVars == <<gSuccessfulHandshake, joinTimer>>
beatVars == <<heartbeats, hbCurrent, beats, beatLost>>
deadVars == <<dead, gNeighborDeadTimerSet>>
runVars == <<bReceiveBinding>>
vars == <<place, discoveryVars, gWTPRetransmissionCount, listVars, runVars,
          linkVars, joinVars, beatVars, deadVars, ticker>>

States == {"discovery", "sulking", "join", "configure", "dataCheck", "run", "quit"}
Requests == {"join", "configure", "dataCheck"}

\* enter: at the start of a state's handler; round, listen: the two halves of the
\* discovery loop; send, await, waiting, receive: in an acknowledged request;
\* joined: before the test of gSuccessfulHandshake; loop, runWait, runReceive,
\* frames: in the run state; stopDead, clearDead, stopBeat, startBeat: there too,
\* before the four steps of CWResetTimers; ended: the process is gone.
Resetting == {"stopDead", "clearDead", "stopBeat", "startBeat"}
Places == {"enter", "round", "listen", "send", "await", "waiting", "receive",
           "joined", "loop", "runWait", "runReceive", "frames", "ended"} \union Resetting

\* idle: in cronometer; join: before CWWTPWaitJoinExpired; heartbeat, startDead,
\* setDead, echo: in the heartbeat handler, before its test of
\* gNeighborDeadTimerSet, the NeighborDead timer's timer_add, the assignment of
\* the flag, and the Echo Request.
Beating == {"heartbeat", "startDead", "setDead", "echo"}
Handlers == {"idle", "join"} \union Beating

Init ==
  /\ state = "discovery" /\ pc = "enter"
  /\ gACInfoPtr = NoAC /\ received = {} /\ heard = {} /\ lastValid = FALSE
  /\ gCWDiscoveryCount = 0 /\ gWTPRetransmissionCount = 0
  /\ packets = 0 /\ arrived = 0 /\ frames = 0 /\ captured = 0
  /\ bReceiveBinding = FALSE
  /\ receiver = FALSE /\ socket = FALSE
  /\ gSuccessfulHandshake = TRUE /\ joinTimer = FALSE
  /\ heartbeats = 0 /\ hbCurrent = FALSE /\ beats = 0 /\ beatLost = FALSE
  /\ dead = 0 /\ gNeighborDeadTimerSet = FALSE
  /\ ticker = "idle"

-----------------------------------------------------------------------------
\* Definitions named <Operator>_<bug> are mutants of the operator that follows:
\* Next uses none of them.

At(s, p) == state = s /\ pc = p

Goto(s, p) == state' = s /\ pc' = p

(* The reset state only leads back to discovery. *)
ToDiscovery == Goto("discovery", "enter")

(* CWWTPDestroy and the end of main, or exit. *)
Quit == Goto("quit", "ended")

(* timer_add and the assignment of the identifier are one step: no thread is *)
(* held up between them for the seconds until the new timer is due.          *)
CWStartHeartbeatTimer ==
  /\ heartbeats' = heartbeats + 1
  /\ hbCurrent' = TRUE
  /\ beatLost' = FALSE

CWStopHeartbeatTimer ==
  /\ heartbeats' = IF hbCurrent THEN heartbeats - 1 ELSE heartbeats
  /\ hbCurrent' = FALSE

(* timer_add fails and leaves -1 in the identifier. *)
HeartbeatNotStarted == hbCurrent' = FALSE /\ UNCHANGED heartbeats

-----------------------------------------------------------------------------
(* Discovery.  A new socket, no answers yet; the stored AC is kept. *)
EnterDiscovery ==
  /\ At("discovery", "enter")
  /\ gCWDiscoveryCount' = 0
  /\ received' = {}
  /\ heard' = {}
  /\ \/ Goto("discovery", "round") /\ socket' = TRUE
     \/ Quit /\ socket' = FALSE
  /\ UNCHANGED <<gACInfoPtr, lastValid, gWTPRetransmissionCount, listVars, runVars,
                 receiver, joinVars, beatVars, deadVars, ticker>>

(* A round asks the ACs that have not answered yet.  It uses gACInfoPtr for    *)
(* their addresses and frees it, which forgets the AC stored before.  With all *)
(* ACs heard, the stored one is picked.                                        *)
DiscoveryRound_KeepsAC ==
  /\ At("discovery", "round")
  /\ IF gCWDiscoveryCount = gCWMaxDiscoveries
     THEN /\ Goto("sulking", "enter")
          /\ UNCHANGED <<gACInfoPtr, gCWDiscoveryCount, lastValid>>
     ELSE IF received = ACs /\ gACInfoPtr # NoAC
          THEN /\ Goto("join", "enter")
               /\ UNCHANGED <<gACInfoPtr, gCWDiscoveryCount, lastValid>>
          ELSE /\ Goto("discovery", "listen")
               /\ gACInfoPtr' = gACInfoPtr
               /\ gCWDiscoveryCount' = gCWDiscoveryCount + 1
               /\ lastValid' = FALSE
  /\ UNCHANGED <<received, heard, gWTPRetransmissionCount, listVars, runVars, linkVars,
                 joinVars, beatVars, deadVars, ticker>>

DiscoveryRound ==
  /\ At("discovery", "round")
  /\ IF gCWDiscoveryCount = gCWMaxDiscoveries
     THEN /\ Goto("sulking", "enter")
          /\ UNCHANGED <<gACInfoPtr, gCWDiscoveryCount, lastValid>>
     ELSE IF received = ACs /\ gACInfoPtr # NoAC
          THEN /\ Goto("join", "enter")
               /\ UNCHANGED <<gACInfoPtr, gCWDiscoveryCount, lastValid>>
          ELSE /\ Goto("discovery", "listen")
               /\ gACInfoPtr' = IF received = ACs THEN gACInfoPtr ELSE NoAC
               /\ gCWDiscoveryCount' = gCWDiscoveryCount + 1
               /\ lastValid' = FALSE
  /\ UNCHANGED <<received, heard, gWTPRetransmissionCount, listVars, runVars, linkVars,
                 joinVars, beatVars, deadVars, ticker>>

(* A Discovery Response.  CWWTPEvaluateAC stores the better AC before its      *)
(* number is compared with that of the last request, so a late answer to an    *)
(* earlier request is stored and then refused.                                 *)
CWReceiveDiscoveryResponse(ac) ==
  /\ At("discovery", "listen") /\ socket
  /\ gACInfoPtr' \in {ac} \union ({gACInfoPtr} \ {NoAC})
  /\ heard' = heard \union {ac}
  /\ \/ received' = received \union {ac} /\ lastValid' = TRUE
     \/ gCWDiscoveryCount > 1 /\ received' = received /\ lastValid' = FALSE
  /\ UNCHANGED <<place, gCWDiscoveryCount, gWTPRetransmissionCount, listVars, runVars,
                 linkVars, joinVars, beatVars, deadVars, ticker>>

(* Any other datagram makes the result of the round a failure. *)
ReceiveOther ==
  /\ At("discovery", "listen") /\ socket
  /\ lastValid' = FALSE
  /\ UNCHANGED <<place, gACInfoPtr, received, heard, gCWDiscoveryCount,
                 gWTPRetransmissionCount, listVars, runVars, linkVars, joinVars, beatVars,
                 deadVars, ticker>>

(* The discovery interval is over; the result of CWReadResponses was a local. *)
EndRound ==
  /\ At("discovery", "listen")
  /\ IF lastValid /\ gACInfoPtr # NoAC
     THEN Goto("join", "enter")
     ELSE Goto("discovery", "round")
  /\ lastValid' = FALSE
  /\ UNCHANGED <<gACInfoPtr, received, heard, gCWDiscoveryCount, gWTPRetransmissionCount,
                 listVars, runVars, linkVars, joinVars, beatVars, deadVars, ticker>>

(* Sulking: the silent interval passes; an error on the socket ends the WTP. *)
CWWTPEnterSulking ==
  /\ At("sulking", "enter")
  /\ ToDiscovery \/ Quit
  /\ UNCHANGED <<discoveryVars, gWTPRetransmissionCount, listVars, runVars, linkVars,
                 joinVars, beatVars, deadVars, ticker>>

-----------------------------------------------------------------------------
(* Join: the discovery socket is closed, the join timer started, a socket to  *)
(* the AC opened and a receive thread created; each of the three may fail.    *)
(* Of the discovery only the stored AC is used from here on; the rest, which   *)
(* the code clears when the next discovery starts, is cleared here.            *)
EnterJoin ==
  /\ At("join", "enter")
  /\ \/ /\ Goto("join", "send")
        /\ joinTimer' = TRUE /\ socket' = TRUE /\ receiver' = TRUE
        /\ gWTPRetransmissionCount' = 0
     \/ /\ ToDiscovery
        /\ socket' = FALSE
        /\ UNCHANGED <<joinTimer, receiver, gWTPRetransmissionCount>>
  /\ received' = {} /\ heard' = {} /\ gCWDiscoveryCount' = 0
  /\ UNCHANGED <<gACInfoPtr, lastValid, listVars, runVars, gSuccessfulHandshake, beatVars,
                 deadVars, ticker>>

EnterConfigure ==
  /\ At("configure", "enter")
  /\ Goto("configure", "send")
  /\ gWTPRetransmissionCount' = 0
  /\ UNCHANGED <<discoveryVars, listVars, runVars, linkVars, joinVars, beatVars, deadVars,
                 ticker>>

EnterDataCheck ==
  /\ At("dataCheck", "enter")
  /\ gWTPRetransmissionCount' = 0
  /\ \/ CWStartHeartbeatTimer /\ Goto("dataCheck", "send")
     \/ HeartbeatNotStarted /\ UNCHANGED beatLost /\ ToDiscovery
  /\ UNCHANGED <<discoveryVars, listVars, runVars, linkVars, joinVars, beats, deadVars,
                 ticker>>

(* What follows a request that failed.  Join: the timer is removed and the     *)
(* socket closed; configure: the WTP ends; data check: reset, with the         *)
(* heartbeat still running.                                                    *)
RequestFails ==
  /\ \/ state = "join" /\ ToDiscovery /\ joinTimer' = FALSE /\ socket' = FALSE
     \/ state = "configure" /\ Quit /\ socket' = FALSE /\ UNCHANGED joinTimer
     \/ state = "dataCheck" /\ ToDiscovery /\ UNCHANGED <<joinTimer, socket>>
  /\ UNCHANGED <<heartbeats, hbCurrent>>

(* ... and one that was answered. *)
RequestSucceeds ==
  /\ \/ state = "join" /\ Goto("join", "joined") /\ joinTimer' = FALSE
        /\ UNCHANGED <<heartbeats, hbCurrent>>
     \/ state = "configure" /\ Goto("dataCheck", "enter")
        /\ UNCHANGED <<joinTimer, heartbeats, hbCurrent>>
     \/ state = "dataCheck" /\ Goto("run", "enter") /\ CWStopHeartbeatTimer
        /\ UNCHANGED joinTimer
  /\ UNCHANGED socket

requestUnchanged == <<discoveryVars, frames, captured, arrived, runVars, receiver,
                      gSuccessfulHandshake, beats, beatLost, deadVars, ticker>>

Transmit_OneMore ==
  /\ state \in Requests /\ pc = "send"
  /\ \/ /\ gWTPRetransmissionCount <= gCWMaxRetransmit /\ socket
        /\ Goto(state, "await")
        /\ UNCHANGED <<joinTimer, socket, heartbeats, hbCurrent>>
     \/ RequestFails
  /\ UNCHANGED <<requestUnchanged, gWTPRetransmissionCount, packets>>

(* The top of the retransmission loop. *)
Transmit ==
  /\ state \in Requests /\ pc = "send"
  /\ \/ /\ gWTPRetransmissionCount < gCWMaxRetransmit /\ socket
        /\ Goto(state, "await")
        /\ UNCHANGED <<joinTimer, socket, heartbeats, hbCurrent>>
     \/ RequestFails    \* out of retransmissions, or nothing could be sent
  /\ UNCHANGED <<requestUnchanged, gWTPRetransmissionCount, packets>>

(* Under the mutex: a packet is there, or the thread waits for a signal. *)
Await ==
  /\ state \in Requests /\ pc = "await"
  /\ Goto(state, IF packets > 0 THEN "receive" ELSE "waiting")
  /\ UNCHANGED <<requestUnchanged, gWTPRetransmissionCount, packets, joinTimer, socket,
                 heartbeats, hbCurrent>>

Timeout_NotCounted ==
  /\ state \in Requests /\ pc = "waiting"
  /\ Goto(state, "send")
  /\ UNCHANGED <<requestUnchanged, gWTPRetransmissionCount, packets, joinTimer, socket,
                 heartbeats, hbCurrent>>

Timeout ==
  /\ state \in Requests /\ pc = "waiting"
  /\ gWTPRetransmissionCount' = gWTPRetransmissionCount + 1
  /\ Goto(state, "send")
  /\ UNCHANGED <<requestUnchanged, packets, joinTimer, socket, heartbeats, hbCurrent>>

(* CWReceiveMessage, which waits without a timeout, and what the request does  *)
(* with the message: the first fragment of one, nothing that can be read, a    *)
(* message that is not the response (sent again at once), a response that is   *)
(* refused (the wait goes on) and the response.                                *)
ReceiveInRequest ==
  /\ state \in Requests /\ pc = "receive"
  /\ packets > 0
  /\ packets' = packets - 1
  /\ \/ /\ Goto(state, "receive")
        /\ UNCHANGED <<gWTPRetransmissionCount, joinTimer, socket, heartbeats, hbCurrent>>
     \/ RequestFails /\ UNCHANGED gWTPRetransmissionCount
     \/ /\ Goto(state, "send")
        /\ gWTPRetransmissionCount' = gWTPRetransmissionCount + 1
        /\ UNCHANGED <<joinTimer, socket, heartbeats, hbCurrent>>
     \/ /\ Goto(state, "await")
        /\ UNCHANGED <<gWTPRetransmissionCount, joinTimer, socket, heartbeats, hbCurrent>>
     \/ RequestSucceeds /\ UNCHANGED gWTPRetransmissionCount
  /\ UNCHANGED requestUnchanged

(* The join was answered: it counts only if the timer has not expired. *)
FinishJoin ==
  /\ At("join", "joined")
  /\ \/ gSuccessfulHandshake /\ Goto("configure", "enter") /\ UNCHANGED socket
     \/ ~ gSuccessfulHandshake /\ ToDiscovery /\ socket' = FALSE
  /\ UNCHANGED <<discoveryVars, gWTPRetransmissionCount, listVars, runVars, receiver,
                 joinVars, beatVars, deadVars, ticker>>

-----------------------------------------------------------------------------
(* The run state. *)
EnterRun ==
  /\ At("run", "enter")
  /\ \/ CWStartHeartbeatTimer /\ Goto("run", "loop")
     \/ HeartbeatNotStarted /\ UNCHANGED beatLost /\ ToDiscovery
  /\ UNCHANGED <<discoveryVars, gWTPRetransmissionCount, listVars, runVars, linkVars,
                 joinVars, beats, deadVars, ticker>>

(* The top of the loop, under the mutex, and the same test after the wait. *)
LookAtLists ==
  /\ bReceiveBinding' = (frames > 0)
  /\ Goto("run", IF packets > 0 THEN "runReceive"
                 ELSE IF frames > 0 THEN "frames" ELSE "loop")

RunLoop ==
  /\ At("run", "loop")
  /\ IF packets = 0 /\ frames = 0
     THEN Goto("run", "runWait") /\ UNCHANGED bReceiveBinding
     ELSE LookAtLists
  /\ UNCHANGED <<discoveryVars, gWTPRetransmissionCount, listVars, linkVars, joinVars,
                 beatVars, deadVars, ticker>>

(* Nothing came for longer than the NeighborDead interval. *)
RunWaitTimeout ==
  /\ At("run", "runWait")
  /\ CWStopHeartbeatTimer
  /\ ToDiscovery
  /\ UNCHANGED <<discoveryVars, gWTPRetransmissionCount, listVars, runVars, linkVars,
                 joinVars, beats, beatLost, deadVars, ticker>>

AfterMessage == Goto("run", IF bReceiveBinding THEN "frames" ELSE "loop")

(* CWResetTimers, against the ticker and without a lock: the test of the flag, *)
(* timer_rem of the NeighborDead timer, the flag, timer_rem of the heartbeat   *)
(* and timer_add of the next one are steps of their own.                       *)
CWResetTimers ==
  Goto("run", IF gNeighborDeadTimerSet THEN "stopDead" ELSE "stopBeat")

CWStopNeighborDeadTimer ==
  /\ At("run", "stopDead")
  /\ dead' = IF dead > 0 THEN dead - 1 ELSE 0
  /\ Goto("run", "clearDead")
  /\ UNCHANGED <<discoveryVars, gWTPRetransmissionCount, listVars, runVars, linkVars,
                 joinVars, beatVars, gNeighborDeadTimerSet, ticker>>

ClearNeighborDead ==
  /\ At("run", "clearDead")
  /\ gNeighborDeadTimerSet' = FALSE
  /\ Goto("run", "stopBeat")
  /\ UNCHANGED <<discoveryVars, gWTPRetransmissionCount, listVars, runVars, linkVars,
                 joinVars, beatVars, dead, ticker>>

ResetStopsHeartbeat ==
  /\ At("run", "stopBeat")
  /\ CWStopHeartbeatTimer
  /\ Goto("run", "startBeat")
  /\ UNCHANGED <<discoveryVars, gWTPRetransmissionCount, listVars, runVars, linkVars,
                 joinVars, beats, beatLost, deadVars, ticker>>

(* What is left of the message is handled after the reset: that may fail, and a *)
(* commit of an update ends the process.  A reset that fails raises no error:   *)
(* the last error of the thread, whatever it was, decides how it goes on.       *)
ResetStartsHeartbeat ==
  /\ At("run", "startBeat")
  /\ CWStartHeartbeatTimer \/ (HeartbeatNotStarted /\ beatLost' = TRUE)
  /\ AfterMessage \/ ToDiscovery \/ Quit
  /\ UNCHANGED <<discoveryVars, gWTPRetransmissionCount, listVars, runVars, linkVars,
                 joinVars, beats, deadVars, ticker>>

(* CWWTPManageGenericRunMessage, up to the reset: a message that is not valid   *)
(* is ignored, any other resets the timers before it is looked at further.      *)
ManageGenericRunMessage == AfterMessage \/ CWResetTimers

(* A packet of the run state: a fragment, nothing that can be read, a message.  *)
ReceiveInRun ==
  /\ At("run", "runReceive")
  /\ packets > 0
  /\ packets' = packets - 1
  /\ \/ Goto("run", "runReceive")
     \/ ToDiscovery
     \/ ManageGenericRunMessage
  /\ UNCHANGED <<discoveryVars, gWTPRetransmissionCount, arrived, frames, captured, runVars,
                 linkVars, joinVars, beatVars, deadVars, ticker>>

CWWTPCheckForBindingFrame ==
  /\ At("run", "frames")
  /\ frames' = 0
  /\ Goto("run", "loop")
  /\ UNCHANGED <<discoveryVars, gWTPRetransmissionCount, packets, arrived, captured, runVars,
                 linkVars, joinVars, beatVars, deadVars, ticker>>

-----------------------------------------------------------------------------
(* The other threads.  A signal on gInterfaceWait ends the wait of a request   *)
(* as if a packet had come, and sends the run state back to its lists.         *)
Signal ==
  CASE pc = "waiting" -> Goto(state, "receive")
    [] pc = "runWait" -> Goto("run", "loop")
    [] OTHER -> UNCHANGED place

CWWTPReceiveDtlsPacket_NoSignal ==
  /\ pc # "ended" /\ receiver
  /\ arrived < MaxPackets
  /\ arrived' = arrived + 1
  /\ packets' = packets + 1
  /\ UNCHANGED <<place, discoveryVars, gWTPRetransmissionCount, frames, captured, runVars,
                 linkVars, joinVars, beatVars, deadVars, ticker>>

CWWTPReceiveDtlsPacket ==
  /\ pc # "ended" /\ receiver
  /\ arrived < MaxPackets
  /\ arrived' = arrived + 1
  /\ packets' = packets + 1
  /\ Signal
  /\ UNCHANGED <<discoveryVars, gWTPRetransmissionCount, frames, captured, runVars,
                 linkVars, joinVars, beatVars, deadVars, ticker>>

CWWTPReceiveFrame ==
  /\ pc # "ended"
  /\ captured < MaxFrames
  /\ captured' = captured + 1
  /\ frames' = frames + 1
  /\ Signal
  /\ UNCHANGED <<discoveryVars, gWTPRetransmissionCount, packets, arrived, runVars,
                 linkVars, joinVars, beatVars, deadVars, ticker>>

-----------------------------------------------------------------------------
(* The ticker takes an expired timer out of the queue, then runs its handler. *)
TakeJoinTimer ==
  /\ pc # "ended" /\ ticker = "idle"
  /\ joinTimer
  /\ joinTimer' = FALSE
  /\ ticker' = "join"
  /\ UNCHANGED <<place, discoveryVars, gWTPRetransmissionCount, listVars, runVars, linkVars,
                 gSuccessfulHandshake, beatVars, deadVars>>

CWWTPWaitJoinExpired ==
  /\ pc # "ended" /\ ticker = "join"
  /\ gSuccessfulHandshake' = FALSE
  /\ socket' = FALSE
  /\ ticker' = "idle"
  /\ UNCHANGED <<place, discoveryVars, gWTPRetransmissionCount, listVars, runVars, receiver,
                 joinTimer, beatVars, deadVars>>

TakeHeartbeat ==
  /\ pc # "ended" /\ ticker = "idle"
  /\ heartbeats > 0 /\ beats < MaxBeats
  /\ heartbeats' = heartbeats - 1
  /\ hbCurrent' \in {FALSE, hbCurrent /\ heartbeats > 1}
  /\ beats' = beats + 1
  /\ ticker' = "heartbeat"
  /\ UNCHANGED <<place, discoveryVars, gWTPRetransmissionCount, listVars, runVars, linkVars,
                 joinVars, beatLost, deadVars>>

TestNeighborDead_AlwaysStarts ==
  /\ pc # "ended" /\ ticker = "heartbeat"
  /\ ticker' = "startDead"
  /\ UNCHANGED <<place, discoveryVars, gWTPRetransmissionCount, listVars, runVars, linkVars,
                 joinVars, beatVars, deadVars>>

(* CWWTPHeartBeatTimerExpiredHandler, which the main thread may interrupt at    *)
(* any of its steps.  It looks whether the NeighborDead timer is set, ...       *)
TestNeighborDead ==
  /\ pc # "ended" /\ ticker = "heartbeat"
  /\ ticker' = IF gNeighborDeadTimerSet THEN "echo" ELSE "startDead"
  /\ UNCHANGED <<place, discoveryVars, gWTPRetransmissionCount, listVars, runVars, linkVars,
                 joinVars, beatVars, deadVars>>

(* ... starts it if it is not, ...                                              *)
CWStartNeighborDeadTimer ==
  /\ pc # "ended" /\ ticker = "startDead"
  /\ dead' = dead + 1
  /\ ticker' = "setDead"
  /\ UNCHANGED <<place, discoveryVars, gWTPRetransmissionCount, listVars, runVars, linkVars,
                 joinVars, beatVars, gNeighborDeadTimerSet>>

SetNeighborDead ==
  /\ pc # "ended" /\ ticker = "setDead"
  /\ gNeighborDeadTimerSet' = TRUE
  /\ ticker' = "echo"
  /\ UNCHANGED <<place, discoveryVars, gWTPRetransmissionCount, listVars, runVars, linkVars,
                 joinVars, beatVars, dead>>

(* ... sends an Echo Request (a failure to send is ignored) and starts the next *)
(* heartbeat.                                                                   *)
SendEcho ==
  /\ pc # "ended" /\ ticker = "echo"
  /\ CWStartHeartbeatTimer
  /\ ticker' = "idle"
  /\ UNCHANGED <<place, discoveryVars, gWTPRetransmissionCount, listVars, runVars, linkVars,
                 joinVars, beats, deadVars>>

(* A timer cannot be started, or the Echo Request not be assembled: there is   *)
(* no next heartbeat.  Without the NeighborDead timer the current heartbeat,   *)
(* which may be one of the main thread, is stopped and the flag cleared.       *)
HeartbeatFails ==
  /\ pc # "ended"
  /\ \/ /\ ticker = "startDead"
        /\ CWStopHeartbeatTimer
        /\ gNeighborDeadTimerSet' = FALSE
     \/ /\ ticker = "echo"
        /\ hbCurrent' \in {FALSE, hbCurrent}
        /\ UNCHANGED <<heartbeats, gNeighborDeadTimerSet>>
  /\ beatLost' = TRUE
  /\ ticker' = "idle"
  /\ UNCHANGED <<place, discoveryVars, gWTPRetransmissionCount, listVars, runVars, linkVars,
                 joinVars, beats, dead>>

(* CWWTPNeighborDeadTimerExpired only writes a line into the log. *)
NeighborDeadExpired ==
  /\ pc # "ended" /\ ticker = "idle"
  /\ dead > 0
  /\ dead' = dead - 1
  /\ UNCHANGED <<place, discoveryVars, gWTPRetransmissionCount, listVars, runVars, linkVars,
                 joinVars, beatVars, gNeighborDeadTimerSet, ticker>>

-----------------------------------------------------------------------------
Main ==
  \/ EnterDiscovery \/ DiscoveryRound \/ EndRound \/ CWWTPEnterSulking
  \/ EnterJoin \/ EnterConfigure \/ EnterDataCheck
  \/ Transmit \/ Await \/ Timeout \/ ReceiveInRequest \/ FinishJoin
  \/ EnterRun \/ RunLoop \/ RunWaitTimeout \/ ReceiveInRun \/ CWWTPCheckForBindingFrame
  \/ CWStopNeighborDeadTimer \/ ClearNeighborDead
  \/ ResetStopsHeartbeat \/ ResetStartsHeartbeat

Network ==
  \/ \E ac \in ACs : CWReceiveDiscoveryResponse(ac)
  \/ ReceiveOther \/ CWWTPReceiveDtlsPacket \/ CWWTPReceiveFrame

Ticker ==
  \/ TakeJoinTimer \/ CWWTPWaitJoinExpired
  \/ TakeHeartbeat \/ TestNeighborDead \/ CWStartNeighborDeadTimer \/ SetNeighborDead
  \/ SendEcho \/ HeartbeatFails \/ NeighborDeadExpired

Next == Main \/ Network \/ Ticker

(* The main thread is scheduled, and its waits with a timeout end. *)
Spec == Init /\ [][Next]_vars /\ WF_vars(Main)

-----------------------------------------------------------------------------
(* Every variable has its type. *)
TypeOK ==
  /\ state \in States /\ pc \in Places
  /\ gACInfoPtr \in ACs \union {NoAC}
  /\ received \subseteq ACs /\ heard \subseteq ACs /\ lastValid \in BOOLEAN
  /\ gCWDiscoveryCount \in 0 .. gCWMaxDiscoveries
  /\ gWTPRetransmissionCount \in 0 .. gCWMaxRetransmit
  /\ packets \in 0 .. MaxPackets /\ arrived \in 0 .. MaxPackets
  /\ frames \in 0 .. MaxFrames /\ captured \in 0 .. MaxFrames
  /\ bReceiveBinding \in BOOLEAN
  /\ receiver \in BOOLEAN /\ socket \in BOOLEAN
  /\ gSuccessfulHandshake \in BOOLEAN /\ joinTimer \in BOOLEAN
  /\ heartbeats \in Nat /\ hbCurrent \in BOOLEAN
  /\ beats \in 0 .. MaxBeats /\ beatLost \in BOOLEAN
  /\ dead \in Nat /\ gNeighborDeadTimerSet \in BOOLEAN
  /\ ticker \in Handlers

(* The join state writes through gACInfoPtr: it is never NULL there, and it is *)
(* an AC that answered in this discovery, not one of an earlier discovery that *)
(* may be gone.  Nothing resets the pointer when a discovery starts; what       *)
(* clears it is its use for the addresses of the ACs that are asked again.      *)
JoinsAnAnsweringAC == At("join", "enter") => gACInfoPtr \in heard

(* The join timer runs only while a join does: no path out of the join state    *)
(* leaves it behind to close the socket of a later state.                       *)
JoinTimerOnlyInJoin == joinTimer => state = "join" /\ pc \in {"send", "await", "waiting", "receive"}

(* The heartbeat handler and the main thread both start and stop the           *)
(* NeighborDead timer, and each tests the flag, acts and sets the flag in      *)
(* steps that the other may come between.  There is never more than one timer  *)
(* all the same, and the flag is set while there is one, so that the main      *)
(* thread can stop it, but for the moment before the handler sets it.          *)
OneNeighborDead == dead <= 1 /\ (dead = 1 => gNeighborDeadTimerSet \/ ticker = "setDead")

(* In the run state a heartbeat is due, its handler runs, or the main thread is *)
(* about to restart it, unless one could not be started: between the two steps  *)
(* of the reset no step of the handler loses the heartbeat for good.            *)
RunHasHeartbeat ==
  state = "run" /\ pc \notin {"enter", "startBeat"} =>
    heartbeats > 0 \/ ticker \in Beating \/ beatLost

(* Main thread and ticker start, stop and lose timers with no lock between      *)
(* them; the timers fit the state of the WTP all the same.                       *)
TimersFitState == JoinTimerOnlyInJoin /\ OneNeighborDead /\ RunHasHeartbeat

(* CWReceiveMessage waits for a packet, or the next fragment, without timeout. *)
blocked == pc \in {"receive", "runReceive"} /\ packets = 0

(* The main thread never sleeps in the run state while a packet or a frame is   *)
(* there, nor in a request while a packet is: no append falls between the test  *)
(* of the lists and the wait, though both lists share one condition.            *)
NeverSleepsOnWork ==
  /\ pc = "waiting" => packets = 0
  /\ pc = "runWait" => packets = 0 /\ frames = 0

(* No state holds the WTP for ever.  The requests of an association end,       *)
(* answered or out of retransmissions, whatever comes meanwhile; and a WTP that *)
(* no longer hears from its AC and has no stations leaves the run state (the    *)
(* packets and frames of the model end).  Excepted is a CWReceiveMessage that   *)
(* waits for a packet for ever.                                                 *)
StatesEnd == <>[] ~ blocked =>
  /\ state \in Requests ~> state \notin Requests
  /\ state = "run" ~> state # "run"
=============================================================================
