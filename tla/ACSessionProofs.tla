-------------------------- MODULE ACSessionProofs --------------------------
(***************************************************************************)
(* Proofs about ACSession, for every number of packets and requests.       *)
(*                                                                         *)
(* OneTimerPerSession is not inductive as it stands: that the configure    *)
(* state has no timer rests on Join cancelling the only one, so the states *)
(* are tied to the timer in IInv.  AnsweredMeansAcked rests on the match   *)
(* between the awaited response and the command in progress.               *)
(***************************************************************************)
EXTENDS ACSession, TLAPS

(* Before the session has started no timer runs and no request was sent. *)
StartInv ==
  pc = "start" =>
    /\ timers = 0 /\ ~ current
    /\ currentState = "join"
    /\ app = "idle" /\ ~ interfaceCommand /\ ~ interfaceCommandProgress
    /\ expected = None

(* The application waits just as long as one of the command's flags is set;   *)
(* an answered or failed application has none.                                *)
CommandInv ==
  /\ app = "waiting" <=> (interfaceCommand \/ interfaceCommandProgress)
  /\ ~ (interfaceCommand /\ interfaceCommandProgress)

(* The response awaited for a command in progress is the one to its own       *)
(* request, and an update is awaited only for a command in progress.          *)
ExpectedInv ==
  /\ expected.type = "update" =>
       interfaceCommandProgress /\ expected.seq = commandSeq
  /\ pc \in {"freeing", "closed"} => ~ interfaceCommandProgress

(* TypeOK in four parts, which the provers need one at a time. *)
PlaceType ==
  /\ pc \in Places
  /\ currentState \in {"join", "configure", "dataCheck", "run"}
  /\ app \in {"idle", "waiting", "answered", "failed", "released"}

FlagType ==
  /\ isRequestClose \in BOOLEAN /\ critBlocked \in BOOLEAN /\ pendCrit \in BOOLEAN
  /\ current \in BOOLEAN /\ inflight \in BOOLEAN
  /\ interfaceCommand \in BOOLEAN /\ interfaceCommandProgress \in BOOLEAN

CountType ==
  /\ packets \in 0 .. MaxPackets /\ arrived \in 0 .. MaxPackets
  /\ timers \in Nat
  /\ requests \in 0 .. MaxRequests /\ commandSeq \in 0 .. MaxRequests

RequestType ==
  /\ expected \in Response \union {None}
  /\ acked \subseteq 1 .. MaxRequests

(* What has not been taken out was appended. *)
PacketInv == packets <= arrived

IInv ==
  /\ TypeOK
  /\ PacketInv
  /\ OneTimerPerSession
  /\ AnsweredMeansAcked
  /\ StartInv
  /\ CommandInv
  /\ ExpectedInv

USE SessionAssumption

-----------------------------------------------------------------------------
(* The initial states satisfy the inductive invariant. *)
LEMMA InitInv == Init => IInv
<1> SUFFICES ASSUME Init PROVE IInv
  OBVIOUS
<1>1. TypeOK
  <2>1. PlaceType
    BY DEF Init, PlaceType, Places
  <2>2. FlagType
    BY DEF Init, FlagType
  <2>3. CountType
    BY DEF Init, CountType
  <2>4. RequestType
    BY DEF Init, RequestType
  <2> QED BY <2>1, <2>2, <2>3, <2>4 DEF TypeOK, PlaceType, FlagType, CountType, RequestType
<1>2. PacketInv /\ OneTimerPerSession /\ AnsweredMeansAcked
  BY DEF Init, PacketInv, OneTimerPerSession, AnsweredMeansAcked
<1>3. StartInv /\ CommandInv /\ ExpectedInv
  BY DEF Init, StartInv, CommandInv, ExpectedInv, None
<1> QED BY <1>1, <1>2, <1>3 DEF IInv

(* Every step preserves it, action by action. *)
LEMMA NextInv == IInv /\ [Next]_vars => IInv'
<1> SUFFICES ASSUME IInv, [Next]_vars PROVE IInv'
  OBVIOUS
<1>1. CASE AppendPacket
  <2>1. TypeOK'
    <3>1. PlaceType'
      BY <1>1 DEF AppendPacket, Wake, listVars, signalVars, timerVars, appVars, requestVars, IInv, TypeOK, PlaceType, Places
    <3>2. FlagType'
      BY <1>1 DEF AppendPacket, Wake, listVars, signalVars, timerVars, appVars, requestVars, IInv, TypeOK, FlagType
    <3>3. CountType'
      BY <1>1 DEF AppendPacket, Wake, listVars, signalVars, timerVars, appVars, requestVars, IInv, TypeOK, PacketInv, OneTimerPerSession, CountType
    <3>4. RequestType'
      BY <1>1 DEF AppendPacket, Wake, listVars, signalVars, timerVars, appVars, requestVars, IInv, TypeOK, RequestType
    <3> QED BY <3>1, <3>2, <3>3, <3>4 DEF TypeOK, PlaceType, FlagType, CountType, RequestType
  <2>2. PacketInv' /\ OneTimerPerSession' /\ StartInv'
    BY <1>1 DEF AppendPacket, Wake, listVars, signalVars, timerVars, appVars, requestVars, IInv, TypeOK, PacketInv, OneTimerPerSession, StartInv
  <2>3. AnsweredMeansAcked' /\ CommandInv' /\ ExpectedInv'
    BY <1>1 DEF AppendPacket, Wake, listVars, signalVars, timerVars, appVars, requestVars, IInv, TypeOK, StartInv, AnsweredMeansAcked, CommandInv, ExpectedInv, None, Response
  <2> QED BY <2>1, <2>2, <2>3 DEF IInv
<1>2. CASE SetValues
  <2>1. TypeOK'
    <3>1. PlaceType'
      BY <1>2 DEF SetValues, Wake, Unlocked, listVars, signalVars, timerVars, appVars, requestVars, IInv, TypeOK, PlaceType, Places
    <3>2. FlagType'
      BY <1>2 DEF SetValues, Wake, Unlocked, listVars, signalVars, timerVars, appVars, requestVars, IInv, TypeOK, FlagType
    <3>3. CountType'
      BY <1>2 DEF SetValues, Wake, Unlocked, listVars, signalVars, timerVars, appVars, requestVars, IInv, TypeOK, PacketInv, OneTimerPerSession, CountType
    <3>4. RequestType'
      BY <1>2 DEF SetValues, Wake, Unlocked, listVars, signalVars, timerVars, appVars, requestVars, IInv, TypeOK, RequestType
    <3> QED BY <3>1, <3>2, <3>3, <3>4 DEF TypeOK, PlaceType, FlagType, CountType, RequestType
  <2>2. PacketInv' /\ OneTimerPerSession' /\ StartInv'
    BY <1>2 DEF SetValues, Wake, Unlocked, listVars, signalVars, timerVars, appVars, requestVars, IInv, TypeOK, PacketInv, OneTimerPerSession, StartInv
  <2>3. AnsweredMeansAcked' /\ CommandInv' /\ ExpectedInv'
    BY <1>2 DEF SetValues, Wake, Unlocked, listVars, signalVars, timerVars, appVars, requestVars, IInv, TypeOK, StartInv, AnsweredMeansAcked, CommandInv, ExpectedInv, None, Response
  <2> QED BY <2>1, <2>2, <2>3 DEF IInv
<1>3. CASE Expire
  <2>a. timers = 1 /\ current = TRUE
    BY <1>3 DEF Expire, IInv, TypeOK, OneTimerPerSession
  <2>b. ~ (timers > 1)
    BY <2>a
  <2>c. timers' = 0 /\ current' = FALSE
    <3>1. current' \in {FALSE, current /\ timers > 1}
      BY <1>3 DEF Expire
    <3>2. current' = FALSE
      BY <3>1, <2>b, Zenon
    <3>3. timers' = 0
      BY <1>3, <2>a DEF Expire
    <3> QED BY <3>2, <3>3
  <2>1. TypeOK'
    <3>1. PlaceType'
      BY <1>3 DEF Expire, listVars, signalVars, timerVars, appVars, requestVars, IInv, TypeOK, PlaceType, Places
    <3>2. FlagType'
      BY <1>3, <2>c DEF Expire, listVars, signalVars, timerVars, appVars, requestVars, IInv, TypeOK, FlagType
    <3>3. CountType'
      BY <1>3, <2>c DEF Expire, listVars, signalVars, timerVars, appVars, requestVars, IInv, TypeOK, PacketInv, OneTimerPerSession, CountType
    <3>4. RequestType'
      BY <1>3 DEF Expire, listVars, signalVars, timerVars, appVars, requestVars, IInv, TypeOK, RequestType
    <3> QED BY <3>1, <3>2, <3>3, <3>4 DEF TypeOK, PlaceType, FlagType, CountType, RequestType
  <2>2. PacketInv' /\ OneTimerPerSession' /\ StartInv'
    BY <1>3, <2>c DEF Expire, listVars, signalVars, timerVars, appVars, requestVars, IInv, TypeOK, PacketInv, OneTimerPerSession, StartInv
  <2>3. AnsweredMeansAcked' /\ CommandInv' /\ ExpectedInv'
    BY <1>3 DEF Expire, listVars, signalVars, timerVars, appVars, requestVars, IInv, TypeOK, StartInv, AnsweredMeansAcked, CommandInv, ExpectedInv, None, Response
  <2> QED BY <2>1, <2>2, <2>3 DEF IInv
<1>4. CASE Interrupt
  <2>1. TypeOK'
    <3>1. PlaceType'
      BY <1>4 DEF Interrupt, Wake, listVars, signalVars, timerVars, appVars, requestVars, IInv, TypeOK, PlaceType, Places
    <3>2. FlagType'
      BY <1>4 DEF Interrupt, Wake, listVars, signalVars, timerVars, appVars, requestVars, IInv, TypeOK, FlagType
    <3>3. CountType'
      BY <1>4 DEF Interrupt, Wake, listVars, signalVars, timerVars, appVars, requestVars, IInv, TypeOK, PacketInv, OneTimerPerSession, CountType
    <3>4. RequestType'
      BY <1>4 DEF Interrupt, Wake, listVars, signalVars, timerVars, appVars, requestVars, IInv, TypeOK, RequestType
    <3> QED BY <3>1, <3>2, <3>3, <3>4 DEF TypeOK, PlaceType, FlagType, CountType, RequestType
  <2>2. PacketInv' /\ OneTimerPerSession' /\ StartInv'
    BY <1>4 DEF Interrupt, Wake, listVars, signalVars, timerVars, appVars, requestVars, IInv, TypeOK, PacketInv, OneTimerPerSession, StartInv
  <2>3. AnsweredMeansAcked' /\ CommandInv' /\ ExpectedInv'
    BY <1>4 DEF Interrupt, Wake, listVars, signalVars, timerVars, appVars, requestVars, IInv, TypeOK, StartInv, AnsweredMeansAcked, CommandInv, ExpectedInv, None, Response
  <2> QED BY <2>1, <2>2, <2>3 DEF IInv
<1>5. CASE SignalBlocked
  <2>1. TypeOK'
    <3>1. PlaceType'
      BY <1>5 DEF SignalBlocked, listVars, signalVars, timerVars, appVars, requestVars, IInv, TypeOK, PlaceType, Places
    <3>2. FlagType'
      BY <1>5 DEF SignalBlocked, listVars, signalVars, timerVars, appVars, requestVars, IInv, TypeOK, FlagType
    <3>3. CountType'
      BY <1>5 DEF SignalBlocked, listVars, signalVars, timerVars, appVars, requestVars, IInv, TypeOK, PacketInv, OneTimerPerSession, CountType
    <3>4. RequestType'
      BY <1>5 DEF SignalBlocked, listVars, signalVars, timerVars, appVars, requestVars, IInv, TypeOK, RequestType
    <3> QED BY <3>1, <3>2, <3>3, <3>4 DEF TypeOK, PlaceType, FlagType, CountType, RequestType
  <2>2. PacketInv' /\ OneTimerPerSession' /\ StartInv'
    BY <1>5 DEF SignalBlocked, listVars, signalVars, timerVars, appVars, requestVars, IInv, TypeOK, PacketInv, OneTimerPerSession, StartInv
  <2>3. AnsweredMeansAcked' /\ CommandInv' /\ ExpectedInv'
    BY <1>5 DEF SignalBlocked, listVars, signalVars, timerVars, appVars, requestVars, IInv, TypeOK, StartInv, AnsweredMeansAcked, CommandInv, ExpectedInv, None, Response
  <2> QED BY <2>1, <2>2, <2>3 DEF IInv
<1>6. CASE StartSession
  <2>1. TypeOK'
    <3>1. PlaceType'
      BY <1>6 DEF StartSession, RequestTimer, listVars, signalVars, timerVars, appVars, requestVars, IInv, TypeOK, PlaceType, Places
    <3>2. FlagType'
      BY <1>6 DEF StartSession, RequestTimer, listVars, signalVars, timerVars, appVars, requestVars, IInv, TypeOK, FlagType
    <3>3. CountType'
      BY <1>6 DEF StartSession, RequestTimer, listVars, signalVars, timerVars, appVars, requestVars, IInv, TypeOK, PacketInv, OneTimerPerSession, CountType
    <3>4. RequestType'
      BY <1>6 DEF StartSession, RequestTimer, listVars, signalVars, timerVars, appVars, requestVars, IInv, TypeOK, RequestType
    <3> QED BY <3>1, <3>2, <3>3, <3>4 DEF TypeOK, PlaceType, FlagType, CountType, RequestType
  <2>2. PacketInv' /\ OneTimerPerSession' /\ StartInv'
    BY <1>6 DEF StartSession, RequestTimer, listVars, signalVars, timerVars, appVars, requestVars, IInv, TypeOK, PacketInv, OneTimerPerSession, StartInv
  <2>3. AnsweredMeansAcked' /\ CommandInv' /\ ExpectedInv'
    BY <1>6 DEF StartSession, RequestTimer, listVars, signalVars, timerVars, appVars, requestVars, IInv, TypeOK, StartInv, AnsweredMeansAcked, CommandInv, ExpectedInv, None, Response
  <2> QED BY <2>1, <2>2, <2>3 DEF IInv
<1>7. CASE LoopTop
  <2>1. TypeOK'
    <3>1. PlaceType'
      BY <1>7 DEF LoopTop, listVars, signalVars, timerVars, appVars, requestVars, IInv, TypeOK, PlaceType, Places
    <3>2. FlagType'
      BY <1>7 DEF LoopTop, listVars, signalVars, timerVars, appVars, requestVars, IInv, TypeOK, FlagType
    <3>3. CountType'
      BY <1>7 DEF LoopTop, listVars, signalVars, timerVars, appVars, requestVars, IInv, TypeOK, PacketInv, OneTimerPerSession, CountType
    <3>4. RequestType'
      BY <1>7 DEF LoopTop, listVars, signalVars, timerVars, appVars, requestVars, IInv, TypeOK, RequestType
    <3> QED BY <3>1, <3>2, <3>3, <3>4 DEF TypeOK, PlaceType, FlagType, CountType, RequestType
  <2>2. PacketInv' /\ OneTimerPerSession' /\ StartInv'
    BY <1>7 DEF LoopTop, listVars, signalVars, timerVars, appVars, requestVars, IInv, TypeOK, PacketInv, OneTimerPerSession, StartInv
  <2>3. AnsweredMeansAcked' /\ CommandInv' /\ ExpectedInv'
    BY <1>7 DEF LoopTop, listVars, signalVars, timerVars, appVars, requestVars, IInv, TypeOK, StartInv, AnsweredMeansAcked, CommandInv, ExpectedInv, None, Response
  <2> QED BY <2>1, <2>2, <2>3 DEF IInv
<1>8. CASE Sleep
  <2>1. TypeOK'
    <3>1. PlaceType'
      BY <1>8 DEF Sleep, listVars, signalVars, timerVars, appVars, requestVars, IInv, TypeOK, PlaceType, Places
    <3>2. FlagType'
      BY <1>8 DEF Sleep, listVars, signalVars, timerVars, appVars, requestVars, IInv, TypeOK, FlagType
    <3>3. CountType'
      BY <1>8 DEF Sleep, listVars, signalVars, timerVars, appVars, requestVars, IInv, TypeOK, PacketInv, OneTimerPerSession, CountType
    <3>4. RequestType'
      BY <1>8 DEF Sleep, listVars, signalVars, timerVars, appVars, requestVars, IInv, TypeOK, RequestType
    <3> QED BY <3>1, <3>2, <3>3, <3>4 DEF TypeOK, PlaceType, FlagType, CountType, RequestType
  <2>2. PacketInv' /\ OneTimerPerSession' /\ StartInv'
    BY <1>8 DEF Sleep, listVars, signalVars, timerVars, appVars, requestVars, IInv, TypeOK, PacketInv, OneTimerPerSession, StartInv
  <2>3. AnsweredMeansAcked' /\ CommandInv' /\ ExpectedInv'
    BY <1>8 DEF Sleep, listVars, signalVars, timerVars, appVars, requestVars, IInv, TypeOK, StartInv, AnsweredMeansAcked, CommandInv, ExpectedInv, None, Response
  <2> QED BY <2>1, <2>2, <2>3 DEF IInv
<1>9. CASE CheckClose
  <2>1. TypeOK'
    <3>1. PlaceType'
      BY <1>9 DEF CheckClose, listVars, signalVars, timerVars, appVars, requestVars, IInv, TypeOK, PlaceType, Places
    <3>2. FlagType'
      BY <1>9 DEF CheckClose, listVars, signalVars, timerVars, appVars, requestVars, IInv, TypeOK, FlagType
    <3>3. CountType'
      BY <1>9 DEF CheckClose, listVars, signalVars, timerVars, appVars, requestVars, IInv, TypeOK, PacketInv, OneTimerPerSession, CountType
    <3>4. RequestType'
      BY <1>9 DEF CheckClose, listVars, signalVars, timerVars, appVars, requestVars, IInv, TypeOK, RequestType
    <3> QED BY <3>1, <3>2, <3>3, <3>4 DEF TypeOK, PlaceType, FlagType, CountType, RequestType
  <2>2. PacketInv' /\ OneTimerPerSession' /\ StartInv'
    BY <1>9 DEF CheckClose, listVars, signalVars, timerVars, appVars, requestVars, IInv, TypeOK, PacketInv, OneTimerPerSession, StartInv
  <2>3. AnsweredMeansAcked' /\ CommandInv' /\ ExpectedInv'
    BY <1>9 DEF CheckClose, listVars, signalVars, timerVars, appVars, requestVars, IInv, TypeOK, StartInv, AnsweredMeansAcked, CommandInv, ExpectedInv, None, Response
  <2> QED BY <2>1, <2>2, <2>3 DEF IInv
<1>10. CASE BlockSignals
  <2>1. TypeOK'
    <3>1. PlaceType'
      BY <1>10 DEF BlockSignals, listVars, signalVars, timerVars, appVars, requestVars, IInv, TypeOK, PlaceType, Places
    <3>2. FlagType'
      BY <1>10 DEF BlockSignals, listVars, signalVars, timerVars, appVars, requestVars, IInv, TypeOK, FlagType
    <3>3. CountType'
      BY <1>10 DEF BlockSignals, listVars, signalVars, timerVars, appVars, requestVars, IInv, TypeOK, PacketInv, OneTimerPerSession, CountType
    <3>4. RequestType'
      BY <1>10 DEF BlockSignals, listVars, signalVars, timerVars, appVars, requestVars, IInv, TypeOK, RequestType
    <3> QED BY <3>1, <3>2, <3>3, <3>4 DEF TypeOK, PlaceType, FlagType, CountType, RequestType
  <2>2. PacketInv' /\ OneTimerPerSession' /\ StartInv'
    BY <1>10 DEF BlockSignals, listVars, signalVars, timerVars, appVars, requestVars, IInv, TypeOK, PacketInv, OneTimerPerSession, StartInv
  <2>3. AnsweredMeansAcked' /\ CommandInv' /\ ExpectedInv'
    BY <1>10 DEF BlockSignals, listVars, signalVars, timerVars, appVars, requestVars, IInv, TypeOK, StartInv, AnsweredMeansAcked, CommandInv, ExpectedInv, None, Response
  <2> QED BY <2>1, <2>2, <2>3 DEF IInv
<1>11. CASE ReceiveFragment
  <2>1. TypeOK'
    <3>1. PlaceType'
      BY <1>11 DEF ReceiveFragment, TakePacket, listVars, signalVars, timerVars, appVars, requestVars, IInv, TypeOK, PlaceType, Places
    <3>2. FlagType'
      BY <1>11 DEF ReceiveFragment, TakePacket, listVars, signalVars, timerVars, appVars, requestVars, IInv, TypeOK, FlagType
    <3>3. CountType'
      BY <1>11 DEF ReceiveFragment, TakePacket, listVars, signalVars, timerVars, appVars, requestVars, IInv, TypeOK, PacketInv, OneTimerPerSession, CountType
    <3>4. RequestType'
      BY <1>11 DEF ReceiveFragment, TakePacket, listVars, signalVars, timerVars, appVars, requestVars, IInv, TypeOK, RequestType
    <3> QED BY <3>1, <3>2, <3>3, <3>4 DEF TypeOK, PlaceType, FlagType, CountType, RequestType
  <2>2. PacketInv' /\ OneTimerPerSession' /\ StartInv'
    BY <1>11 DEF ReceiveFragment, TakePacket, listVars, signalVars, timerVars, appVars, requestVars, IInv, TypeOK, PacketInv, OneTimerPerSession, StartInv
  <2>3. AnsweredMeansAcked' /\ CommandInv' /\ ExpectedInv'
    BY <1>11 DEF ReceiveFragment, TakePacket, listVars, signalVars, timerVars, appVars, requestVars, IInv, TypeOK, StartInv, AnsweredMeansAcked, CommandInv, ExpectedInv, None, Response
  <2> QED BY <2>1, <2>2, <2>3 DEF IInv
<1>12. CASE CriticalError
  <2>1. TypeOK'
    <3>1. PlaceType'
      BY <1>12 DEF CriticalError, TakePacket, CancelTimer, RestartTimer, listVars, signalVars, timerVars, appVars, requestVars, IInv, TypeOK, PlaceType, Places
    <3>2. FlagType'
      BY <1>12 DEF CriticalError, TakePacket, CancelTimer, RestartTimer, listVars, signalVars, timerVars, appVars, requestVars, IInv, TypeOK, FlagType
    <3>3. CountType'
      BY <1>12 DEF CriticalError, TakePacket, CancelTimer, RestartTimer, listVars, signalVars, timerVars, appVars, requestVars, IInv, TypeOK, PacketInv, OneTimerPerSession, CountType
    <3>4. RequestType'
      BY <1>12 DEF CriticalError, TakePacket, CancelTimer, RestartTimer, listVars, signalVars, timerVars, appVars, requestVars, IInv, TypeOK, RequestType
    <3> QED BY <3>1, <3>2, <3>3, <3>4 DEF TypeOK, PlaceType, FlagType, CountType, RequestType
  <2>2. PacketInv' /\ OneTimerPerSession' /\ StartInv'
    BY <1>12 DEF CriticalError, TakePacket, CancelTimer, RestartTimer, listVars, signalVars, timerVars, appVars, requestVars, IInv, TypeOK, PacketInv, OneTimerPerSession, StartInv
  <2>3. AnsweredMeansAcked' /\ CommandInv' /\ ExpectedInv'
    BY <1>12 DEF CriticalError, TakePacket, CancelTimer, RestartTimer, listVars, signalVars, timerVars, appVars, requestVars, IInv, TypeOK, StartInv, AnsweredMeansAcked, CommandInv, ExpectedInv, None, Response
  <2> QED BY <2>1, <2>2, <2>3 DEF IInv
<1>13. CASE IgnoreMessage
  <2>1. TypeOK'
    <3>1. PlaceType'
      BY <1>13 DEF IgnoreMessage, TakePacket, NextIteration, listVars, signalVars, timerVars, appVars, requestVars, IInv, TypeOK, PlaceType, Places
    <3>2. FlagType'
      BY <1>13 DEF IgnoreMessage, TakePacket, NextIteration, listVars, signalVars, timerVars, appVars, requestVars, IInv, TypeOK, FlagType
    <3>3. CountType'
      BY <1>13 DEF IgnoreMessage, TakePacket, NextIteration, listVars, signalVars, timerVars, appVars, requestVars, IInv, TypeOK, PacketInv, OneTimerPerSession, CountType
    <3>4. RequestType'
      BY <1>13 DEF IgnoreMessage, TakePacket, NextIteration, listVars, signalVars, timerVars, appVars, requestVars, IInv, TypeOK, RequestType
    <3> QED BY <3>1, <3>2, <3>3, <3>4 DEF TypeOK, PlaceType, FlagType, CountType, RequestType
  <2>2. PacketInv' /\ OneTimerPerSession' /\ StartInv'
    BY <1>13 DEF IgnoreMessage, TakePacket, NextIteration, listVars, signalVars, timerVars, appVars, requestVars, IInv, TypeOK, PacketInv, OneTimerPerSession, StartInv
  <2>3. AnsweredMeansAcked' /\ CommandInv' /\ ExpectedInv'
    BY <1>13 DEF IgnoreMessage, TakePacket, NextIteration, listVars, signalVars, timerVars, appVars, requestVars, IInv, TypeOK, StartInv, AnsweredMeansAcked, CommandInv, ExpectedInv, None, Response
  <2> QED BY <2>1, <2>2, <2>3 DEF IInv
<1>14. CASE ACEnterJoin
  <2>1. TypeOK'
    <3>1. PlaceType'
      BY <1>14 DEF ACEnterJoin, TakePacket, NextIteration, CancelTimer, listVars, signalVars, timerVars, appVars, requestVars, IInv, TypeOK, PlaceType, Places
    <3>2. FlagType'
      BY <1>14 DEF ACEnterJoin, TakePacket, NextIteration, CancelTimer, listVars, signalVars, timerVars, appVars, requestVars, IInv, TypeOK, FlagType
    <3>3. CountType'
      BY <1>14 DEF ACEnterJoin, TakePacket, NextIteration, CancelTimer, listVars, signalVars, timerVars, appVars, requestVars, IInv, TypeOK, PacketInv, OneTimerPerSession, CountType
    <3>4. RequestType'
      BY <1>14 DEF ACEnterJoin, TakePacket, NextIteration, CancelTimer, listVars, signalVars, timerVars, appVars, requestVars, IInv, TypeOK, RequestType
    <3> QED BY <3>1, <3>2, <3>3, <3>4 DEF TypeOK, PlaceType, FlagType, CountType, RequestType
  <2>2. PacketInv' /\ OneTimerPerSession' /\ StartInv'
    BY <1>14 DEF ACEnterJoin, TakePacket, NextIteration, CancelTimer, listVars, signalVars, timerVars, appVars, requestVars, IInv, TypeOK, PacketInv, OneTimerPerSession, StartInv
  <2>3. AnsweredMeansAcked' /\ CommandInv' /\ ExpectedInv'
    BY <1>14 DEF ACEnterJoin, TakePacket, NextIteration, CancelTimer, listVars, signalVars, timerVars, appVars, requestVars, IInv, TypeOK, StartInv, AnsweredMeansAcked, CommandInv, ExpectedInv, None, Response
  <2> QED BY <2>1, <2>2, <2>3 DEF IInv
<1>15. CASE ACEnterConfigure
  <2>1. TypeOK'
    <3>1. PlaceType'
      BY <1>15 DEF ACEnterConfigure, TakePacket, NextIteration, RequestTimer, listVars, signalVars, timerVars, appVars, requestVars, IInv, TypeOK, PlaceType, Places
    <3>2. FlagType'
      BY <1>15 DEF ACEnterConfigure, TakePacket, NextIteration, RequestTimer, listVars, signalVars, timerVars, appVars, requestVars, IInv, TypeOK, FlagType
    <3>3. CountType'
      BY <1>15 DEF ACEnterConfigure, TakePacket, NextIteration, RequestTimer, listVars, signalVars, timerVars, appVars, requestVars, IInv, TypeOK, PacketInv, OneTimerPerSession, CountType
    <3>4. RequestType'
      BY <1>15 DEF ACEnterConfigure, TakePacket, NextIteration, RequestTimer, listVars, signalVars, timerVars, appVars, requestVars, IInv, TypeOK, RequestType
    <3> QED BY <3>1, <3>2, <3>3, <3>4 DEF TypeOK, PlaceType, FlagType, CountType, RequestType
  <2>2. PacketInv' /\ OneTimerPerSession' /\ StartInv'
    BY <1>15 DEF ACEnterConfigure, TakePacket, NextIteration, RequestTimer, listVars, signalVars, timerVars, appVars, requestVars, IInv, TypeOK, PacketInv, OneTimerPerSession, StartInv
  <2>3. AnsweredMeansAcked' /\ CommandInv' /\ ExpectedInv'
    BY <1>15 DEF ACEnterConfigure, TakePacket, NextIteration, RequestTimer, listVars, signalVars, timerVars, appVars, requestVars, IInv, TypeOK, StartInv, AnsweredMeansAcked, CommandInv, ExpectedInv, None, Response
  <2> QED BY <2>1, <2>2, <2>3 DEF IInv
<1>16. CASE ACEnterDataCheck
  <2>1. TypeOK'
    <3>1. PlaceType'
      BY <1>16 DEF ACEnterDataCheck, TakePacket, NextIteration, RestartTimer, listVars, signalVars, timerVars, appVars, requestVars, IInv, TypeOK, PlaceType, Places
    <3>2. FlagType'
      BY <1>16 DEF ACEnterDataCheck, TakePacket, NextIteration, RestartTimer, listVars, signalVars, timerVars, appVars, requestVars, IInv, TypeOK, FlagType
    <3>3. CountType'
      BY <1>16 DEF ACEnterDataCheck, TakePacket, NextIteration, RestartTimer, listVars, signalVars, timerVars, appVars, requestVars, IInv, TypeOK, PacketInv, OneTimerPerSession, CountType
    <3>4. RequestType'
      BY <1>16 DEF ACEnterDataCheck, TakePacket, NextIteration, RestartTimer, listVars, signalVars, timerVars, appVars, requestVars, IInv, TypeOK, RequestType
    <3> QED BY <3>1, <3>2, <3>3, <3>4 DEF TypeOK, PlaceType, FlagType, CountType, RequestType
  <2>2. PacketInv' /\ OneTimerPerSession' /\ StartInv'
    BY <1>16 DEF ACEnterDataCheck, TakePacket, NextIteration, RestartTimer, listVars, signalVars, timerVars, appVars, requestVars, IInv, TypeOK, PacketInv, OneTimerPerSession, StartInv
  <2>3. AnsweredMeansAcked' /\ CommandInv' /\ ExpectedInv'
    BY <1>16 DEF ACEnterDataCheck, TakePacket, NextIteration, RestartTimer, listVars, signalVars, timerVars, appVars, requestVars, IInv, TypeOK, StartInv, AnsweredMeansAcked, CommandInv, ExpectedInv, None, Response
  <2> QED BY <2>1, <2>2, <2>3 DEF IInv
<1>17. CASE IgnoreInDataCheck
  <2>1. TypeOK'
    <3>1. PlaceType'
      BY <1>17 DEF IgnoreInDataCheck, TakePacket, LoseTimer, NextIteration, CancelTimer, listVars, signalVars, timerVars, appVars, requestVars, IInv, TypeOK, PlaceType, Places
    <3>2. FlagType'
      BY <1>17 DEF IgnoreInDataCheck, TakePacket, LoseTimer, NextIteration, CancelTimer, listVars, signalVars, timerVars, appVars, requestVars, IInv, TypeOK, FlagType
    <3>3. CountType'
      BY <1>17 DEF IgnoreInDataCheck, TakePacket, LoseTimer, NextIteration, CancelTimer, listVars, signalVars, timerVars, appVars, requestVars, IInv, TypeOK, PacketInv, OneTimerPerSession, CountType
    <3>4. RequestType'
      BY <1>17 DEF IgnoreInDataCheck, TakePacket, LoseTimer, NextIteration, CancelTimer, listVars, signalVars, timerVars, appVars, requestVars, IInv, TypeOK, RequestType
    <3> QED BY <3>1, <3>2, <3>3, <3>4 DEF TypeOK, PlaceType, FlagType, CountType, RequestType
  <2>2. PacketInv' /\ OneTimerPerSession' /\ StartInv'
    BY <1>17 DEF IgnoreInDataCheck, TakePacket, LoseTimer, NextIteration, CancelTimer, listVars, signalVars, timerVars, appVars, requestVars, IInv, TypeOK, PacketInv, OneTimerPerSession, StartInv
  <2>3. AnsweredMeansAcked' /\ CommandInv' /\ ExpectedInv'
    BY <1>17 DEF IgnoreInDataCheck, TakePacket, LoseTimer, NextIteration, CancelTimer, listVars, signalVars, timerVars, appVars, requestVars, IInv, TypeOK, StartInv, AnsweredMeansAcked, CommandInv, ExpectedInv, None, Response
  <2> QED BY <2>1, <2>2, <2>3 DEF IInv
<1>18. CASE IgnoreInRun
  <2>1. TypeOK'
    <3>1. PlaceType'
      BY <1>18 DEF IgnoreInRun, TakePacket, LoseTimer, NextIteration, CancelTimer, listVars, signalVars, timerVars, appVars, requestVars, IInv, TypeOK, PlaceType, Places
    <3>2. FlagType'
      BY <1>18 DEF IgnoreInRun, TakePacket, LoseTimer, NextIteration, CancelTimer, listVars, signalVars, timerVars, appVars, requestVars, IInv, TypeOK, FlagType
    <3>3. CountType'
      BY <1>18 DEF IgnoreInRun, TakePacket, LoseTimer, NextIteration, CancelTimer, listVars, signalVars, timerVars, appVars, requestVars, IInv, TypeOK, PacketInv, OneTimerPerSession, CountType
    <3>4. RequestType'
      BY <1>18 DEF IgnoreInRun, TakePacket, LoseTimer, NextIteration, CancelTimer, listVars, signalVars, timerVars, appVars, requestVars, IInv, TypeOK, RequestType
    <3> QED BY <3>1, <3>2, <3>3, <3>4 DEF TypeOK, PlaceType, FlagType, CountType, RequestType
  <2>2. PacketInv' /\ OneTimerPerSession' /\ StartInv'
    BY <1>18 DEF IgnoreInRun, TakePacket, LoseTimer, NextIteration, CancelTimer, listVars, signalVars, timerVars, appVars, requestVars, IInv, TypeOK, PacketInv, OneTimerPerSession, StartInv
  <2>3. AnsweredMeansAcked' /\ CommandInv' /\ ExpectedInv'
    BY <1>18 DEF IgnoreInRun, TakePacket, LoseTimer, NextIteration, CancelTimer, listVars, signalVars, timerVars, appVars, requestVars, IInv, TypeOK, StartInv, AnsweredMeansAcked, CommandInv, ExpectedInv, None, Response
  <2> QED BY <2>1, <2>2, <2>3 DEF IInv
<1>19. CASE ReceiveFrame
  <2>1. TypeOK'
    <3>1. PlaceType'
      BY <1>19 DEF ReceiveFrame, TakePacket, LoseTimer, NextIteration, CancelTimer, SendAcknowledged, SendFailed, listVars, signalVars, timerVars, appVars, requestVars, IInv, TypeOK, PlaceType, Places
    <3>2. FlagType'
      BY <1>19 DEF ReceiveFrame, TakePacket, LoseTimer, NextIteration, CancelTimer, SendAcknowledged, SendFailed, listVars, signalVars, timerVars, appVars, requestVars, IInv, TypeOK, FlagType
    <3>3. CountType'
      BY <1>19 DEF ReceiveFrame, TakePacket, LoseTimer, NextIteration, CancelTimer, SendAcknowledged, SendFailed, listVars, signalVars, timerVars, appVars, requestVars, IInv, TypeOK, PacketInv, OneTimerPerSession, CountType
    <3>4. RequestType'
      <4>1. CASE SendAcknowledged("station")
        <5>1. requests + 1 \in 1 .. MaxRequests
          BY <4>1 DEF SendAcknowledged, IInv, TypeOK
        <5>2. expected' \in Response
          BY <4>1, <5>1 DEF SendAcknowledged, Response
        <5> QED BY <4>1, <5>2 DEF SendAcknowledged, IInv, TypeOK, RequestType
      <4>2. CASE SendFailed
        BY <4>2 DEF SendFailed, IInv, TypeOK, RequestType
      <4> QED BY <1>19, <4>1, <4>2 DEF ReceiveFrame
    <3> QED BY <3>1, <3>2, <3>3, <3>4 DEF TypeOK, PlaceType, FlagType, CountType, RequestType
  <2>2. PacketInv' /\ OneTimerPerSession' /\ StartInv'
    BY <1>19 DEF ReceiveFrame, TakePacket, LoseTimer, NextIteration, CancelTimer, SendAcknowledged, SendFailed, listVars, signalVars, timerVars, appVars, requestVars, IInv, TypeOK, PacketInv, OneTimerPerSession, StartInv
  <2>3. AnsweredMeansAcked' /\ CommandInv' /\ ExpectedInv'
    BY <1>19 DEF ReceiveFrame, TakePacket, LoseTimer, NextIteration, CancelTimer, SendAcknowledged, SendFailed, listVars, signalVars, timerVars, appVars, requestVars, IInv, TypeOK, StartInv, AnsweredMeansAcked, CommandInv, ExpectedInv, None, Response
  <2> QED BY <2>1, <2>2, <2>3 DEF IInv
<1>20. CASE ReceiveRequest
  <2>1. TypeOK'
    <3>1. PlaceType'
      BY <1>20 DEF ReceiveRequest, TakePacket, NextIteration, RestartTimer, listVars, signalVars, timerVars, appVars, requestVars, IInv, TypeOK, PlaceType, Places
    <3>2. FlagType'
      BY <1>20 DEF ReceiveRequest, TakePacket, NextIteration, RestartTimer, listVars, signalVars, timerVars, appVars, requestVars, IInv, TypeOK, FlagType
    <3>3. CountType'
      BY <1>20 DEF ReceiveRequest, TakePacket, NextIteration, RestartTimer, listVars, signalVars, timerVars, appVars, requestVars, IInv, TypeOK, PacketInv, OneTimerPerSession, CountType
    <3>4. RequestType'
      BY <1>20 DEF ReceiveRequest, TakePacket, NextIteration, RestartTimer, listVars, signalVars, timerVars, appVars, requestVars, IInv, TypeOK, RequestType
    <3> QED BY <3>1, <3>2, <3>3, <3>4 DEF TypeOK, PlaceType, FlagType, CountType, RequestType
  <2>2. PacketInv' /\ OneTimerPerSession' /\ StartInv'
    BY <1>20 DEF ReceiveRequest, TakePacket, NextIteration, RestartTimer, listVars, signalVars, timerVars, appVars, requestVars, IInv, TypeOK, PacketInv, OneTimerPerSession, StartInv
  <2>3. AnsweredMeansAcked' /\ CommandInv' /\ ExpectedInv'
    BY <1>20 DEF ReceiveRequest, TakePacket, NextIteration, RestartTimer, listVars, signalVars, timerVars, appVars, requestVars, IInv, TypeOK, StartInv, AnsweredMeansAcked, CommandInv, ExpectedInv, None, Response
  <2> QED BY <2>1, <2>2, <2>3 DEF IInv
<1>21. CASE SendCommand
  <2>1. TypeOK'
    <3>1. PlaceType'
      BY <1>21 DEF SendCommand, SendAcknowledged, NextIteration, listVars, signalVars, timerVars, appVars, requestVars, IInv, TypeOK, PlaceType, Places
    <3>2. FlagType'
      BY <1>21 DEF SendCommand, SendAcknowledged, NextIteration, listVars, signalVars, timerVars, appVars, requestVars, IInv, TypeOK, FlagType
    <3>3. CountType'
      BY <1>21 DEF SendCommand, SendAcknowledged, NextIteration, listVars, signalVars, timerVars, appVars, requestVars, IInv, TypeOK, PacketInv, OneTimerPerSession, CountType
    <3>4. RequestType'
      BY <1>21 DEF SendCommand, SendAcknowledged, NextIteration, listVars, signalVars, timerVars, appVars, requestVars, IInv, TypeOK, RequestType, None, Response
    <3> QED BY <3>1, <3>2, <3>3, <3>4 DEF TypeOK, PlaceType, FlagType, CountType, RequestType
  <2>2. PacketInv' /\ OneTimerPerSession' /\ StartInv'
    BY <1>21 DEF SendCommand, SendAcknowledged, NextIteration, listVars, signalVars, timerVars, appVars, requestVars, IInv, TypeOK, PacketInv, OneTimerPerSession, StartInv
  <2>3. AnsweredMeansAcked' /\ CommandInv' /\ ExpectedInv'
    BY <1>21 DEF SendCommand, SendAcknowledged, NextIteration, listVars, signalVars, timerVars, appVars, requestVars, IInv, TypeOK, StartInv, AnsweredMeansAcked, CommandInv, ExpectedInv, None, Response
  <2> QED BY <2>1, <2>2, <2>3 DEF IInv
<1>22. CASE CommandFails
  <2>1. TypeOK'
    <3>1. PlaceType'
      BY <1>22 DEF CommandFails, SendFailed, NextIteration, listVars, signalVars, timerVars, appVars, requestVars, IInv, TypeOK, PlaceType, Places
    <3>2. FlagType'
      BY <1>22 DEF CommandFails, SendFailed, NextIteration, listVars, signalVars, timerVars, appVars, requestVars, IInv, TypeOK, FlagType
    <3>3. CountType'
      BY <1>22 DEF CommandFails, SendFailed, NextIteration, listVars, signalVars, timerVars, appVars, requestVars, IInv, TypeOK, PacketInv, OneTimerPerSession, CountType
    <3>4. RequestType'
      BY <1>22 DEF CommandFails, SendFailed, NextIteration, listVars, signalVars, timerVars, appVars, requestVars, IInv, TypeOK, RequestType, None
    <3> QED BY <3>1, <3>2, <3>3, <3>4 DEF TypeOK, PlaceType, FlagType, CountType, RequestType
  <2>2. PacketInv' /\ OneTimerPerSession' /\ StartInv'
    BY <1>22 DEF CommandFails, SendFailed, NextIteration, listVars, signalVars, timerVars, appVars, requestVars, IInv, TypeOK, PacketInv, OneTimerPerSession, StartInv
  <2>3. AnsweredMeansAcked' /\ CommandInv' /\ ExpectedInv'
    BY <1>22 DEF CommandFails, SendFailed, NextIteration, listVars, signalVars, timerVars, appVars, requestVars, IInv, TypeOK, StartInv, AnsweredMeansAcked, CommandInv, ExpectedInv, None, Response
  <2> QED BY <2>1, <2>2, <2>3 DEF IInv
<1>23. CASE _CWCloseThread
  <2>1. TypeOK'
    <3>1. PlaceType'
      BY <1>23 DEF _CWCloseThread, CancelTimer, listVars, signalVars, timerVars, appVars, requestVars, IInv, TypeOK, PlaceType, Places
    <3>2. FlagType'
      BY <1>23 DEF _CWCloseThread, CancelTimer, listVars, signalVars, timerVars, appVars, requestVars, IInv, TypeOK, FlagType
    <3>3. CountType'
      BY <1>23 DEF _CWCloseThread, CancelTimer, listVars, signalVars, timerVars, appVars, requestVars, IInv, TypeOK, PacketInv, OneTimerPerSession, CountType
    <3>4. RequestType'
      BY <1>23 DEF _CWCloseThread, CancelTimer, listVars, signalVars, timerVars, appVars, requestVars, IInv, TypeOK, RequestType, None
    <3> QED BY <3>1, <3>2, <3>3, <3>4 DEF TypeOK, PlaceType, FlagType, CountType, RequestType
  <2>2. PacketInv' /\ OneTimerPerSession' /\ StartInv'
    BY <1>23 DEF _CWCloseThread, CancelTimer, listVars, signalVars, timerVars, appVars, requestVars, IInv, TypeOK, PacketInv, OneTimerPerSession, StartInv
  <2>3. AnsweredMeansAcked' /\ CommandInv' /\ ExpectedInv'
    BY <1>23 DEF _CWCloseThread, CancelTimer, listVars, signalVars, timerVars, appVars, requestVars, IInv, TypeOK, StartInv, AnsweredMeansAcked, CommandInv, ExpectedInv, None, Response
  <2> QED BY <2>1, <2>2, <2>3 DEF IInv
<1>24. CASE FreeSlot
  <2>1. TypeOK'
    <3>1. PlaceType'
      BY <1>24 DEF FreeSlot, listVars, signalVars, timerVars, appVars, requestVars, IInv, TypeOK, PlaceType, Places
    <3>2. FlagType'
      BY <1>24 DEF FreeSlot, listVars, signalVars, timerVars, appVars, requestVars, IInv, TypeOK, FlagType
    <3>3. CountType'
      BY <1>24 DEF FreeSlot, listVars, signalVars, timerVars, appVars, requestVars, IInv, TypeOK, PacketInv, OneTimerPerSession, CountType
    <3>4. RequestType'
      BY <1>24 DEF FreeSlot, listVars, signalVars, timerVars, appVars, requestVars, IInv, TypeOK, RequestType
    <3> QED BY <3>1, <3>2, <3>3, <3>4 DEF TypeOK, PlaceType, FlagType, CountType, RequestType
  <2>2. PacketInv' /\ OneTimerPerSession' /\ StartInv'
    BY <1>24 DEF FreeSlot, listVars, signalVars, timerVars, appVars, requestVars, IInv, TypeOK, PacketInv, OneTimerPerSession, StartInv
  <2>3. AnsweredMeansAcked' /\ CommandInv' /\ ExpectedInv'
    BY <1>24 DEF FreeSlot, listVars, signalVars, timerVars, appVars, requestVars, IInv, TypeOK, StartInv, AnsweredMeansAcked, CommandInv, ExpectedInv, None, Response
  <2> QED BY <2>1, <2>2, <2>3 DEF IInv
<1>25. ASSUME NEW r \in Response, ReceiveResponse(r)
      PROVE  IInv'
  <2>1. TypeOK'
    <3>1. PlaceType'
      BY <1>25 DEF ReceiveResponse, TakePacket, NextIteration, CloseOnCommit, RestartTimer, CompleteCommand, IsExpected, listVars, signalVars, timerVars, appVars, requestVars, IInv, TypeOK, PlaceType, Places
    <3>2. FlagType'
      BY <1>25 DEF ReceiveResponse, TakePacket, NextIteration, CloseOnCommit, RestartTimer, CompleteCommand, IsExpected, listVars, signalVars, timerVars, appVars, requestVars, IInv, TypeOK, FlagType
    <3>3. CountType'
      BY <1>25 DEF ReceiveResponse, TakePacket, NextIteration, CloseOnCommit, RestartTimer, CompleteCommand, IsExpected, listVars, signalVars, timerVars, appVars, requestVars, IInv, TypeOK, PacketInv, OneTimerPerSession, CountType
    <3>4. RequestType'
      BY <1>25 DEF ReceiveResponse, TakePacket, NextIteration, CloseOnCommit, RestartTimer, CompleteCommand, IsExpected, listVars, signalVars, timerVars, appVars, requestVars, IInv, TypeOK, RequestType, None, Response
    <3> QED BY <3>1, <3>2, <3>3, <3>4 DEF TypeOK, PlaceType, FlagType, CountType, RequestType
  <2>2. PacketInv' /\ OneTimerPerSession' /\ StartInv'
    BY <1>25 DEF ReceiveResponse, TakePacket, NextIteration, CloseOnCommit, RestartTimer, CompleteCommand, IsExpected, listVars, signalVars, timerVars, appVars, requestVars, IInv, TypeOK, PacketInv, OneTimerPerSession, StartInv
  <2>3. AnsweredMeansAcked' /\ CommandInv' /\ ExpectedInv'
    BY <1>25 DEF ReceiveResponse, TakePacket, NextIteration, CloseOnCommit, RestartTimer, CompleteCommand, IsExpected, listVars, signalVars, timerVars, appVars, requestVars, IInv, TypeOK, StartInv, AnsweredMeansAcked, CommandInv, ExpectedInv, None, Response
  <2> QED BY <2>1, <2>2, <2>3 DEF IInv
<1>26. CASE UNCHANGED vars
  BY <1>26 DEF vars, listVars, signalVars, timerVars, appVars, requestVars, IInv, TypeOK, PacketInv, OneTimerPerSession, AnsweredMeansAcked, StartInv, CommandInv, ExpectedInv
<1> QED BY <1>1, <1>2, <1>3, <1>4, <1>5, <1>6, <1>7, <1>8, <1>9, <1>10, <1>11, <1>12, <1>13, <1>14, <1>15, <1>16, <1>17, <1>18, <1>19, <1>20, <1>21, <1>22, <1>23, <1>24, <1>25, <1>26 DEF Next, CWManageWTP, ReceivePacket, Others

(* The inductive invariant holds in every reachable state. *)
THEOREM Invariance == Spec => []IInv
<1> QED BY InitInv, NextInv, PTL DEF Spec

(* Type correctness. *)
THEOREM TypeCorrect == Spec => []TypeOK
<1>1. IInv => TypeOK
  BY DEF IInv
<1> QED BY <1>1, Invariance, PTL

(* A session never has two critical timers; it has none in the configure state *)
(* and leaves none in the queue when its thread is gone.                       *)
THEOREM OneTimer == Spec => []OneTimerPerSession
<1>1. IInv => OneTimerPerSession
  BY DEF IInv
<1> QED BY <1>1, Invariance, PTL

(* A command is reported as carried out only if its own request was acknowledged. *)
THEOREM AnswersAreAcknowledged == Spec => []AnsweredMeansAcked
<1>1. IInv => AnsweredMeansAcked
  BY DEF IInv
<1> QED BY <1>1, Invariance, PTL

-----------------------------------------------------------------------------
(* The abstract command has one of its three values: none is ever lost. *)
LEMMA CommandValues ==
  ASSUME IInv
  PROVE  /\ command \in {"none", "queued", "sent"}
         /\ command = "none" <=> app # "waiting"
         /\ command = "queued" <=> interfaceCommand
         /\ command = "sent" <=> interfaceCommandProgress
<1> QED BY DEF command, IInv, CommandInv, TypeOK

(* Every step of the session is a step of the service or a stutter. *)
LEMMA StepSimulation ==
  ASSUME IInv, [Next]_vars
  PROVE  [Service!Next]_(Service!vars)
<1>a. /\ command \in {"none", "queued", "sent"}
      /\ command = "none" <=> app # "waiting"
      /\ command = "queued" <=> interfaceCommand
      /\ command = "sent" <=> interfaceCommandProgress
  BY CommandValues
<1>b. IInv'
  BY NextInv
<1>c. /\ command' \in {"none", "queued", "sent"}
      /\ command' = "none" <=> app' # "waiting"
      /\ command' = "queued" <=> interfaceCommand'
      /\ command' = "sent" <=> interfaceCommandProgress'
  BY <1>b DEF command, IInv, CommandInv, TypeOK
<1>1. CASE AppendPacket
  BY <1>1, <1>a, <1>c DEF AppendPacket, Wake, listVars, signalVars, timerVars, appVars, requestVars, IInv, TypeOK, StartInv, CommandInv, phase, Service!Next, Service!vars, Service!Advance, Service!Submit, Service!Take, Service!Answer, Service!Close, Service!Open
<1>2. CASE SetValues
  BY <1>2, <1>a, <1>c DEF SetValues, Wake, Unlocked, listVars, signalVars, timerVars, appVars, requestVars, IInv, TypeOK, StartInv, CommandInv, phase, Service!Next, Service!vars, Service!Advance, Service!Submit, Service!Take, Service!Answer, Service!Close, Service!Open
<1>3. CASE Expire
  BY <1>3, <1>a, <1>c DEF Expire, listVars, signalVars, timerVars, appVars, requestVars, IInv, TypeOK, StartInv, CommandInv, phase, Service!Next, Service!vars, Service!Advance, Service!Submit, Service!Take, Service!Answer, Service!Close, Service!Open
<1>4. CASE Interrupt
  BY <1>4, <1>a, <1>c DEF Interrupt, Wake, listVars, signalVars, timerVars, appVars, requestVars, IInv, TypeOK, StartInv, CommandInv, phase, Service!Next, Service!vars, Service!Advance, Service!Submit, Service!Take, Service!Answer, Service!Close, Service!Open
<1>5. CASE SignalBlocked
  BY <1>5, <1>a, <1>c DEF SignalBlocked, listVars, signalVars, timerVars, appVars, requestVars, IInv, TypeOK, StartInv, CommandInv, phase, Service!Next, Service!vars, Service!Advance, Service!Submit, Service!Take, Service!Answer, Service!Close, Service!Open
<1>6. CASE StartSession
  BY <1>6, <1>a, <1>c DEF StartSession, RequestTimer, listVars, signalVars, timerVars, appVars, requestVars, IInv, TypeOK, StartInv, CommandInv, phase, Service!Next, Service!vars, Service!Advance, Service!Submit, Service!Take, Service!Answer, Service!Close, Service!Open
<1>7. CASE LoopTop
  BY <1>7, <1>a, <1>c DEF LoopTop, listVars, signalVars, timerVars, appVars, requestVars, IInv, TypeOK, StartInv, CommandInv, phase, Service!Next, Service!vars, Service!Advance, Service!Submit, Service!Take, Service!Answer, Service!Close, Service!Open
<1>8. CASE Sleep
  BY <1>8, <1>a, <1>c DEF Sleep, listVars, signalVars, timerVars, appVars, requestVars, IInv, TypeOK, StartInv, CommandInv, phase, Service!Next, Service!vars, Service!Advance, Service!Submit, Service!Take, Service!Answer, Service!Close, Service!Open
<1>9. CASE CheckClose
  BY <1>9, <1>a, <1>c DEF CheckClose, listVars, signalVars, timerVars, appVars, requestVars, IInv, TypeOK, StartInv, CommandInv, phase, Service!Next, Service!vars, Service!Advance, Service!Submit, Service!Take, Service!Answer, Service!Close, Service!Open
<1>10. CASE BlockSignals
  BY <1>10, <1>a, <1>c DEF BlockSignals, listVars, signalVars, timerVars, appVars, requestVars, IInv, TypeOK, StartInv, CommandInv, phase, Service!Next, Service!vars, Service!Advance, Service!Submit, Service!Take, Service!Answer, Service!Close, Service!Open
<1>11. CASE ReceiveFragment
  BY <1>11, <1>a, <1>c DEF ReceiveFragment, TakePacket, listVars, signalVars, timerVars, appVars, requestVars, IInv, TypeOK, StartInv, CommandInv, phase, Service!Next, Service!vars, Service!Advance, Service!Submit, Service!Take, Service!Answer, Service!Close, Service!Open
<1>12. CASE CriticalError
  BY <1>12, <1>a, <1>c DEF CriticalError, TakePacket, CancelTimer, RestartTimer, listVars, signalVars, timerVars, appVars, requestVars, IInv, TypeOK, StartInv, CommandInv, phase, Service!Next, Service!vars, Service!Advance, Service!Submit, Service!Take, Service!Answer, Service!Close, Service!Open
<1>13. CASE IgnoreMessage
  BY <1>13, <1>a, <1>c DEF IgnoreMessage, TakePacket, NextIteration, listVars, signalVars, timerVars, appVars, requestVars, IInv, TypeOK, StartInv, CommandInv, phase, Service!Next, Service!vars, Service!Advance, Service!Submit, Service!Take, Service!Answer, Service!Close, Service!Open
<1>14. CASE ACEnterJoin
  BY <1>14, <1>a, <1>c DEF ACEnterJoin, TakePacket, NextIteration, CancelTimer, listVars, signalVars, timerVars, appVars, requestVars, IInv, TypeOK, StartInv, CommandInv, phase, Service!Next, Service!vars, Service!Advance, Service!Submit, Service!Take, Service!Answer, Service!Close, Service!Open
<1>15. CASE ACEnterConfigure
  BY <1>15, <1>a, <1>c DEF ACEnterConfigure, TakePacket, NextIteration, RequestTimer, listVars, signalVars, timerVars, appVars, requestVars, IInv, TypeOK, StartInv, CommandInv, phase, Service!Next, Service!vars, Service!Advance, Service!Submit, Service!Take, Service!Answer, Service!Close, Service!Open
<1>16. CASE ACEnterDataCheck
  BY <1>16, <1>a, <1>c DEF ACEnterDataCheck, TakePacket, NextIteration, RestartTimer, listVars, signalVars, timerVars, appVars, requestVars, IInv, TypeOK, StartInv, CommandInv, phase, Service!Next, Service!vars, Service!Advance, Service!Submit, Service!Take, Service!Answer, Service!Close, Service!Open
<1>17. CASE IgnoreInDataCheck
  BY <1>17, <1>a, <1>c DEF IgnoreInDataCheck, TakePacket, LoseTimer, NextIteration, CancelTimer, listVars, signalVars, timerVars, appVars, requestVars, IInv, TypeOK, StartInv, CommandInv, phase, Service!Next, Service!vars, Service!Advance, Service!Submit, Service!Take, Service!Answer, Service!Close, Service!Open
<1>18. CASE IgnoreInRun
  BY <1>18, <1>a, <1>c DEF IgnoreInRun, TakePacket, LoseTimer, NextIteration, CancelTimer, listVars, signalVars, timerVars, appVars, requestVars, IInv, TypeOK, StartInv, CommandInv, phase, Service!Next, Service!vars, Service!Advance, Service!Submit, Service!Take, Service!Answer, Service!Close, Service!Open
<1>19. CASE ReceiveFrame
  BY <1>19, <1>a, <1>c DEF ReceiveFrame, TakePacket, LoseTimer, NextIteration, CancelTimer, SendAcknowledged, SendFailed, listVars, signalVars, timerVars, appVars, requestVars, IInv, TypeOK, StartInv, CommandInv, phase, Service!Next, Service!vars, Service!Advance, Service!Submit, Service!Take, Service!Answer, Service!Close, Service!Open
<1>20. CASE ReceiveRequest
  BY <1>20, <1>a, <1>c DEF ReceiveRequest, TakePacket, NextIteration, RestartTimer, listVars, signalVars, timerVars, appVars, requestVars, IInv, TypeOK, StartInv, CommandInv, phase, Service!Next, Service!vars, Service!Advance, Service!Submit, Service!Take, Service!Answer, Service!Close, Service!Open
<1>21. CASE SendCommand
  BY <1>21, <1>a, <1>c DEF SendCommand, SendAcknowledged, NextIteration, listVars, signalVars, timerVars, appVars, requestVars, IInv, TypeOK, StartInv, CommandInv, phase, Service!Next, Service!vars, Service!Advance, Service!Submit, Service!Take, Service!Answer, Service!Close, Service!Open
<1>22. CASE CommandFails
  BY <1>22, <1>a, <1>c DEF CommandFails, SendFailed, NextIteration, listVars, signalVars, timerVars, appVars, requestVars, IInv, TypeOK, StartInv, CommandInv, phase, Service!Next, Service!vars, Service!Advance, Service!Submit, Service!Take, Service!Answer, Service!Close, Service!Open
<1>23. CASE _CWCloseThread
  BY <1>23, <1>a, <1>c DEF _CWCloseThread, CancelTimer, listVars, signalVars, timerVars, appVars, requestVars, IInv, TypeOK, StartInv, CommandInv, phase, Service!Next, Service!vars, Service!Advance, Service!Submit, Service!Take, Service!Answer, Service!Close, Service!Open
<1>24. CASE FreeSlot
  BY <1>24, <1>a, <1>c DEF FreeSlot, listVars, signalVars, timerVars, appVars, requestVars, IInv, TypeOK, StartInv, CommandInv, phase, Service!Next, Service!vars, Service!Advance, Service!Submit, Service!Take, Service!Answer, Service!Close, Service!Open
<1>25. ASSUME NEW r \in Response, ReceiveResponse(r)
      PROVE  [Service!Next]_(Service!vars)
  BY <1>25, <1>a, <1>c DEF ReceiveResponse, TakePacket, NextIteration, CloseOnCommit, RestartTimer, CompleteCommand, IsExpected, listVars, signalVars, timerVars, appVars, requestVars, IInv, TypeOK, CommandInv, ExpectedInv, phase, Service!Next, Service!vars, Service!Advance, Service!Submit, Service!Take, Service!Answer, Service!Close, Service!Open
<1>26. CASE UNCHANGED vars
  BY <1>26 DEF vars, listVars, signalVars, timerVars, appVars, requestVars, phase, command, Service!vars
<1> QED BY <1>1, <1>2, <1>3, <1>4, <1>5, <1>6, <1>7, <1>8, <1>9, <1>10, <1>11, <1>12, <1>13, <1>14, <1>15, <1>16, <1>17, <1>18, <1>19, <1>20, <1>21, <1>22, <1>23, <1>24, <1>25, <1>26 DEF Next, CWManageWTP, ReceivePacket, Others

(* The safety part of ImplementsService: the session starts as the service    *)
(* does, and each of its steps is one of the service or changes nothing there. *)
THEOREM SessionImplementsService == Spec => Service!Init /\ [][Service!Next]_(Service!vars)
<1>1. Init => Service!Init
  BY DEF Init, Service!Init, phase, command
<1>2. IInv /\ [Next]_vars => [Service!Next]_(Service!vars)
  BY StepSimulation
<1> QED BY <1>1, <1>2, Invariance, PTL DEF Spec

-----------------------------------------------------------------------------
(* Two limits of the session: what it does not recover from by itself.         *)

(* A session that goes on without a critical timer: none is in the queue, no   *)
(* signal of one is on its way, and nobody asked it to close.  LoseTimer leads *)
(* there in the data check and the run state (ACDataCheckState.c:44,           *)
(* ACRunState.c:109), and the configure state starts so (ACJoinState.c:70).    *)
WithoutTimer ==
  /\ pc \in {"loop", "toWait", "waiting", "awake", "checked", "serve"}
  /\ timers = 0 /\ ~ inflight /\ ~ pendCrit /\ ~ isRequestClose

(* Nothing ends such a session but another packet of its WTP: if the WTP died, *)
(* the session keeps its thread and its slot for ever.                         *)
OnlyAPacketEndsIt ==
  [][ WithoutTimer /\ packets = 0 =>
        WithoutTimer' /\ (packets' = 0 \/ (packets' = 1 /\ arrived' = arrived + 1)) ]_vars

(* A session that ever is without a timer stays until its WTP speaks again.    *)
THEOREM SilentSessionStays == Spec => OnlyAPacketEndsIt
<1>1. ASSUME IInv, [Next]_vars, WithoutTimer, packets = 0
      PROVE  WithoutTimer' /\ (packets' = 0 \/ (packets' = 1 /\ arrived' = arrived + 1))
  <2>1. /\ pc \in {"loop", "toWait", "waiting", "awake", "checked", "serve"}
        /\ timers = 0 /\ ~ inflight /\ ~ pendCrit /\ ~ isRequestClose /\ packets = 0
    BY <1>1 DEF WithoutTimer
  <2>a. inflight = FALSE /\ pendCrit = FALSE /\ isRequestClose = FALSE
    BY <1>1, <2>1 DEF IInv, TypeOK
  <2>b. ASSUME pc' \in {"loop", "toWait", "waiting", "awake", "checked", "serve"},
               timers' = 0, inflight' = FALSE, pendCrit' = FALSE, isRequestClose' = FALSE
        PROVE  WithoutTimer'
    BY <2>b DEF WithoutTimer
  <2>2. ~ ReceivePacket
    BY <2>1 DEF ReceivePacket, ReceiveFragment, CriticalError, IgnoreMessage, ACEnterJoin,
       ACEnterConfigure, ACEnterDataCheck, IgnoreInDataCheck, IgnoreInRun, ReceiveFrame,
       ReceiveRequest, ReceiveResponse, TakePacket
  <2>3. CASE StartSession \/ LoopTop \/ Sleep \/ CheckClose \/ BlockSignals
    BY <2>1, <2>3, <2>a, <2>b DEF StartSession, LoopTop, Sleep, CheckClose, BlockSignals,
       listVars, signalVars, timerVars
  <2>4. CASE SendCommand \/ CommandFails
    BY <2>1, <2>4, <2>a, <2>b DEF SendCommand, CommandFails, NextIteration, listVars,
       timerVars
  <2>5. CASE _CWCloseThread \/ FreeSlot
    BY <2>1, <2>5 DEF _CWCloseThread, FreeSlot
  <2>6. CASE AppendPacket
    <3>1. /\ pc' \in {"loop", "toWait", "waiting", "awake", "checked", "serve"}
          /\ timers' = 0 /\ inflight' = FALSE /\ pendCrit' = FALSE /\ isRequestClose' = FALSE
      BY <2>1, <2>6, <2>a DEF AppendPacket, Wake, signalVars, timerVars
    <3>2. packets' = 1 /\ arrived' = arrived + 1
      BY <2>1, <2>6 DEF AppendPacket
    <3> QED BY <3>1, <3>2, <2>b
  <2>7. CASE SetValues
    BY <2>1, <2>7, <2>a, <2>b DEF SetValues, Wake, listVars, signalVars, timerVars
  <2>8. CASE Expire \/ Interrupt \/ SignalBlocked
    BY <2>1, <2>8 DEF Expire, Interrupt, SignalBlocked
  <2>9. CASE UNCHANGED vars
    BY <2>1, <2>9, <2>a, <2>b DEF vars, listVars, signalVars, timerVars
  <2> QED BY <1>1, <2>2, <2>3, <2>4, <2>5, <2>6, <2>7, <2>8, <2>9
          DEF Next, CWManageWTP, Others
<1>2. IInv /\ [Next]_vars =>
        [ WithoutTimer /\ packets = 0 =>
            WithoutTimer' /\ (packets' = 0 \/ (packets' = 1 /\ arrived' = arrived + 1)) ]_vars
  BY <1>1
<1> QED BY <1>2, Invariance, PTL DEF Spec, OnlyAPacketEndsIt

(* The command of an application is in progress, but its request is no longer  *)
(* the one whose response is awaited: a data frame of a station replaced it    *)
(* with a Station Configuration Request (ACRunState.c:130).                    *)
Replaced == app = "waiting" /\ interfaceCommandProgress /\ expected.type # "update"

(* Its response will be refused, and the application waits until the session   *)
(* closes: no packet, command or signal ends its wait before.                  *)
OnlyTheEndReleasesIt == [][ Replaced => Replaced' \/ pc = "closing" ]_vars

(* A command whose request was replaced is answered only by the session's end. *)
THEOREM ReplacedCommandWaits == Spec => OnlyTheEndReleasesIt
<1>1. ASSUME IInv, [Next]_vars, Replaced
      PROVE  Replaced' \/ pc = "closing"
  <2>1. /\ app = "waiting" /\ interfaceCommandProgress /\ ~ interfaceCommand
        /\ expected.type # "update" /\ pc # "start"
    BY <1>1 DEF Replaced, IInv, CommandInv, StartInv
  <2>2. None.type # "update"
    BY DEF None
  <2>3. ASSUME app' = app, interfaceCommandProgress' = interfaceCommandProgress,
               expected' \in {expected, None} \/ expected'.type = "station"
        PROVE  Replaced'
    BY <2>1, <2>2, <2>3 DEF Replaced
  <2>4. CASE StartSession \/ SendCommand \/ CommandFails \/ SetValues
    BY <2>1, <2>4 DEF StartSession, SendCommand, CommandFails, SetValues
  <2>5. CASE \/ LoopTop \/ Sleep \/ CheckClose \/ BlockSignals \/ FreeSlot
             \/ AppendPacket \/ Expire \/ Interrupt \/ SignalBlocked
    BY <2>3, <2>5 DEF LoopTop, Sleep, CheckClose, BlockSignals, FreeSlot, AppendPacket,
       Expire, Interrupt, SignalBlocked, appVars, requestVars
  <2>6. CASE \/ ReceiveFragment \/ CriticalError \/ IgnoreMessage \/ ACEnterJoin
             \/ ACEnterConfigure \/ ACEnterDataCheck \/ IgnoreInDataCheck \/ IgnoreInRun
             \/ ReceiveRequest
    BY <2>3, <2>6 DEF ReceiveFragment, CriticalError, IgnoreMessage, ACEnterJoin,
       ACEnterConfigure, ACEnterDataCheck, IgnoreInDataCheck, IgnoreInRun, ReceiveRequest,
       LoseTimer, appVars, requestVars
  <2>7. CASE ReceiveFrame
    BY <2>3, <2>7 DEF ReceiveFrame, LoseTimer, SendAcknowledged, SendFailed, appVars
  <2>8. ASSUME NEW r \in Response, ReceiveResponse(r)
        PROVE  Replaced'
    <3>1. r.type # "update"
      BY <2>1, <2>8 DEF ReceiveResponse, IsExpected
    <3>2. expected' = None /\ UNCHANGED appVars
      BY <2>8, <3>1 DEF ReceiveResponse
    <3> QED BY <2>3, <3>2 DEF appVars
  <2>9. CASE _CWCloseThread
    BY <2>9 DEF _CWCloseThread
  <2>10. CASE UNCHANGED vars
    BY <2>3, <2>10 DEF vars, appVars, requestVars
  <2> QED BY <1>1, <2>4, <2>5, <2>6, <2>7, <2>8, <2>9, <2>10
          DEF Next, CWManageWTP, ReceivePacket, Others
<1>2. IInv /\ [Next]_vars => [ Replaced => Replaced' \/ pc = "closing" ]_vars
  BY <1>1
<1> QED BY <1>2, Invariance, PTL DEF Spec, OnlyTheEndReleasesIt
=============================================================================
