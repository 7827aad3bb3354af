------------------------------ MODULE WTPProofs ------------------------------
(***************************************************************************)
(* Proofs about WTP, for any ACs, any limits of the code and any number of *)
(* packets, frames and heartbeats.                                         *)
(*                                                                         *)
(* The safety properties rest on one another less than on the place of the *)
(* main thread: what it has tested stays true until it has used it,        *)
(* whatever the ticker and the receive threads do in between.              *)
(***************************************************************************)
EXTENDS WTP, TLAPS

(* Each place belongs to the handlers that have it. *)
PlaceInv ==
  /\ state \in States /\ pc \in Places
  /\ pc \in {"send", "await", "waiting", "receive"} => state \in Requests
  /\ pc \in {"round", "listen"} => state = "discovery"
  /\ pc \in {"loop", "runWait", "runReceive", "frames"} \union Resetting => state = "run"

(* An AC is counted as received only when it was heard.  While answers are     *)
(* read, the stored AC is one of those heard: its use has cleared an older one. *)
DiscoveryInv ==
  /\ gACInfoPtr \in ACs \union {NoAC} /\ received \subseteq heard /\ heard \subseteq ACs
  /\ gCWDiscoveryCount \in 0 .. gCWMaxDiscoveries
  /\ pc = "listen" => gACInfoPtr \in heard \union {NoAC}
  /\ JoinsAnAnsweringAC

(* A transmission is waited for only if the limit allowed it. *)
RequestInv ==
  /\ gWTPRetransmissionCount \in 0 .. gCWMaxRetransmit
  /\ pc \in {"await", "waiting", "receive"} => gWTPRetransmissionCount < gCWMaxRetransmit

(* What is in a list has arrived. *)
ListInv ==
  /\ packets \in 0 .. arrived /\ arrived \in 0 .. MaxPackets
  /\ frames \in 0 .. captured /\ captured \in 0 .. MaxFrames
  /\ NeverSleepsOnWork

(* The flags. *)
FlagType ==
  /\ lastValid \in BOOLEAN /\ bReceiveBinding \in BOOLEAN
  /\ receiver \in BOOLEAN /\ socket \in BOOLEAN
  /\ gSuccessfulHandshake \in BOOLEAN /\ joinTimer \in BOOLEAN
  /\ hbCurrent \in BOOLEAN /\ beatLost \in BOOLEAN /\ gNeighborDeadTimerSet \in BOOLEAN

(* The stored heartbeat id names a timer of the queue: stopping it does not    *)
(* take what is not there.                                                     *)
BeatInv ==
  /\ heartbeats \in Nat /\ beats \in 0 .. MaxBeats
  /\ hbCurrent => heartbeats > 0
  /\ ticker \in Handlers
  /\ RunHasHeartbeat

(* The flag keeps the two threads apart: while it is set only the main thread   *)
(* stops the timer and clears it, while it is clear only the handler starts the *)
(* timer and sets it.  So the timer either thread tested for is as it was found. *)
DeadInv ==
  /\ dead \in 0 .. 1
  /\ pc \in {"stopDead", "clearDead"} => gNeighborDeadTimerSet
  /\ ticker \in {"startDead", "setDead"} => ~ gNeighborDeadTimerSet
  /\ pc = "clearDead" => dead = 0
  /\ ~ gNeighborDeadTimerSet /\ ticker # "setDead" => dead = 0

IInv ==
  /\ PlaceInv /\ DiscoveryInv /\ RequestInv /\ ListInv /\ FlagType
  /\ JoinTimerOnlyInJoin /\ BeatInv /\ DeadInv

USE WTPAssumption DEF WTPAssumption

-----------------------------------------------------------------------------
(* The initial states satisfy the inductive invariant. *)
LEMMA InitInv == Init => IInv
<1> SUFFICES ASSUME Init PROVE IInv
  OBVIOUS
<1>1. PlaceInv /\ DiscoveryInv /\ RequestInv
  BY DEF Init, PlaceInv, States, Places, Resetting, DiscoveryInv, JoinsAnAnsweringAC, At,
     RequestInv
<1>2. ListInv /\ BeatInv /\ DeadInv
  BY DEF Init, ListInv, NeverSleepsOnWork, BeatInv, RunHasHeartbeat, DeadInv, Handlers
<1>3. FlagType /\ JoinTimerOnlyInJoin
  BY DEF Init, FlagType, JoinTimerOnlyInJoin
<1> QED BY <1>1, <1>2, <1>3 DEF IInv

(* Every step of the main thread, the ticker and the threads that receive      *)
(* preserves the inductive invariant.                                          *)
LEMMA NextInv == IInv /\ [Next]_vars => IInv'
<1> SUFFICES ASSUME IInv, [Next]_vars PROVE IInv'
  OBVIOUS
<1> USE DEF IInv, At, Goto, ToDiscovery, Quit, place, discoveryVars, listVars, runVars,
            linkVars, joinVars, beatVars, deadVars, Resetting, Beating, Handlers,
            HeartbeatNotStarted
<1>1. CASE EnterDiscovery
  <2>1. PlaceInv' /\ RequestInv' /\ JoinTimerOnlyInJoin'
        BY <1>1 DEF EnterDiscovery, PlaceInv, RequestInv, JoinTimerOnlyInJoin, States,
        Places, Requests
  <2>2. DiscoveryInv' /\ ListInv'
        BY <1>1 DEF EnterDiscovery, DiscoveryInv, JoinsAnAnsweringAC, ListInv,
        NeverSleepsOnWork, PlaceInv, Requests
  <2>3. FlagType' /\ BeatInv' /\ DeadInv'
        BY <1>1 DEF EnterDiscovery, FlagType, BeatInv, RunHasHeartbeat, DeadInv,
        PlaceInv, Requests
  <2> QED BY <2>1, <2>2, <2>3
<1>2. CASE DiscoveryRound
  <2>1. PlaceInv' /\ RequestInv' /\ JoinTimerOnlyInJoin'
        BY <1>2 DEF DiscoveryRound, PlaceInv, RequestInv, JoinTimerOnlyInJoin, States,
        Places, Requests
  <2>2. DiscoveryInv' /\ ListInv'
        BY <1>2 DEF DiscoveryRound, DiscoveryInv, JoinsAnAnsweringAC, ListInv,
        NeverSleepsOnWork, PlaceInv, Requests
  <2>3. FlagType' /\ BeatInv' /\ DeadInv'
        BY <1>2 DEF DiscoveryRound, FlagType, BeatInv, RunHasHeartbeat, DeadInv,
        PlaceInv, Requests
  <2> QED BY <2>1, <2>2, <2>3
<1>3. CASE EndRound
  <2>1. PlaceInv' /\ RequestInv' /\ JoinTimerOnlyInJoin'
        BY <1>3 DEF EndRound, PlaceInv, RequestInv, JoinTimerOnlyInJoin, States, Places,
        Requests
  <2>2. DiscoveryInv' /\ ListInv'
        BY <1>3 DEF EndRound, DiscoveryInv, JoinsAnAnsweringAC, ListInv,
        NeverSleepsOnWork, PlaceInv, Requests
  <2>3. FlagType' /\ BeatInv' /\ DeadInv'
        BY <1>3 DEF EndRound, FlagType, BeatInv, RunHasHeartbeat, DeadInv,
        PlaceInv, Requests
  <2> QED BY <2>1, <2>2, <2>3
<1>4. CASE CWWTPEnterSulking
  <2>1. PlaceInv' /\ RequestInv' /\ JoinTimerOnlyInJoin'
        BY <1>4 DEF CWWTPEnterSulking, PlaceInv, RequestInv, JoinTimerOnlyInJoin,
        States, Places, Requests
  <2>2. DiscoveryInv' /\ ListInv'
        BY <1>4 DEF CWWTPEnterSulking, DiscoveryInv, JoinsAnAnsweringAC, ListInv,
        NeverSleepsOnWork, PlaceInv, Requests
  <2>3. FlagType' /\ BeatInv' /\ DeadInv'
        BY <1>4 DEF CWWTPEnterSulking, FlagType, BeatInv, RunHasHeartbeat, DeadInv,
        PlaceInv, Requests
  <2> QED BY <2>1, <2>2, <2>3
<1>5. CASE EnterJoin
  <2>1. PlaceInv' /\ RequestInv' /\ JoinTimerOnlyInJoin'
        BY <1>5 DEF EnterJoin, PlaceInv, RequestInv, JoinTimerOnlyInJoin, States,
        Places, Requests
  <2>2. DiscoveryInv' /\ ListInv'
        BY <1>5 DEF EnterJoin, DiscoveryInv, JoinsAnAnsweringAC, ListInv,
        NeverSleepsOnWork, PlaceInv, Requests
  <2>3. FlagType' /\ BeatInv' /\ DeadInv'
        BY <1>5 DEF EnterJoin, FlagType, BeatInv, RunHasHeartbeat, DeadInv,
        PlaceInv, Requests
  <2> QED BY <2>1, <2>2, <2>3
<1>6. CASE EnterConfigure
  <2>1. PlaceInv' /\ RequestInv' /\ JoinTimerOnlyInJoin'
        BY <1>6 DEF EnterConfigure, PlaceInv, RequestInv, JoinTimerOnlyInJoin, States,
        Places, Requests
  <2>2. DiscoveryInv' /\ ListInv'
        BY <1>6 DEF EnterConfigure, DiscoveryInv, JoinsAnAnsweringAC, ListInv,
        NeverSleepsOnWork, PlaceInv, Requests
  <2>3. FlagType' /\ BeatInv' /\ DeadInv'
        BY <1>6 DEF EnterConfigure, FlagType, BeatInv, RunHasHeartbeat, DeadInv,
        PlaceInv, Requests
  <2> QED BY <2>1, <2>2, <2>3
<1>7. CASE EnterDataCheck
  <2>1. PlaceInv' /\ RequestInv' /\ JoinTimerOnlyInJoin'
        BY <1>7 DEF EnterDataCheck, CWStartHeartbeatTimer, PlaceInv, RequestInv,
        JoinTimerOnlyInJoin, States, Places, Requests
  <2>2. DiscoveryInv' /\ ListInv'
        BY <1>7 DEF EnterDataCheck, CWStartHeartbeatTimer, DiscoveryInv,
        JoinsAnAnsweringAC, ListInv, NeverSleepsOnWork, PlaceInv, Requests
  <2>3. FlagType'
        BY <1>7 DEF EnterDataCheck, CWStartHeartbeatTimer, FlagType
  <2>4. BeatInv' /\ DeadInv'
        BY <1>7 DEF EnterDataCheck, CWStartHeartbeatTimer, BeatInv, RunHasHeartbeat,
        FlagType, DeadInv, PlaceInv, Requests
  <2> QED BY <2>1, <2>2, <2>3, <2>4
<1>8. CASE Transmit
  <2>1. PlaceInv' /\ RequestInv' /\ JoinTimerOnlyInJoin'
        BY <1>8 DEF Transmit, RequestFails, requestUnchanged, PlaceInv, RequestInv,
        JoinTimerOnlyInJoin, States, Places, Requests
  <2>2. DiscoveryInv' /\ ListInv'
        BY <1>8 DEF Transmit, RequestFails, requestUnchanged, DiscoveryInv,
        JoinsAnAnsweringAC, ListInv, NeverSleepsOnWork, PlaceInv, Requests
  <2>3. FlagType'
        BY <1>8 DEF Transmit, RequestFails, requestUnchanged, FlagType
  <2>4. BeatInv' /\ DeadInv'
        BY <1>8 DEF Transmit, RequestFails, requestUnchanged, BeatInv, RunHasHeartbeat,
        FlagType, DeadInv, PlaceInv, Requests
  <2> QED BY <2>1, <2>2, <2>3, <2>4
<1>9. CASE Await
  <2>1. PlaceInv' /\ RequestInv' /\ JoinTimerOnlyInJoin'
        BY <1>9 DEF Await, requestUnchanged, PlaceInv, RequestInv, JoinTimerOnlyInJoin,
        States, Places, Requests
  <2>2. DiscoveryInv' /\ ListInv'
        BY <1>9 DEF Await, requestUnchanged, DiscoveryInv, JoinsAnAnsweringAC, ListInv,
        NeverSleepsOnWork, PlaceInv, Requests
  <2>3. FlagType' /\ BeatInv' /\ DeadInv'
        BY <1>9 DEF Await, requestUnchanged, FlagType, BeatInv, RunHasHeartbeat,
        DeadInv, PlaceInv, Requests
  <2> QED BY <2>1, <2>2, <2>3
<1>10. CASE Timeout
  <2>1. PlaceInv' /\ RequestInv' /\ JoinTimerOnlyInJoin'
        BY <1>10 DEF Timeout, requestUnchanged, PlaceInv, RequestInv,
        JoinTimerOnlyInJoin, States, Places, Requests
  <2>2. DiscoveryInv' /\ ListInv'
        BY <1>10 DEF Timeout, requestUnchanged, DiscoveryInv, JoinsAnAnsweringAC,
        ListInv, NeverSleepsOnWork, PlaceInv, Requests
  <2>3. FlagType' /\ BeatInv' /\ DeadInv'
        BY <1>10 DEF Timeout, requestUnchanged, FlagType, BeatInv, RunHasHeartbeat,
        DeadInv, PlaceInv, Requests
  <2> QED BY <2>1, <2>2, <2>3
<1>11. CASE ReceiveInRequest
  <2>1. PlaceInv' /\ RequestInv' /\ JoinTimerOnlyInJoin'
        BY <1>11 DEF ReceiveInRequest, RequestFails, RequestSucceeds, requestUnchanged,
        CWStopHeartbeatTimer, PlaceInv, RequestInv, JoinTimerOnlyInJoin, States, Places,
        Requests
  <2>2. DiscoveryInv' /\ ListInv'
        BY <1>11 DEF ReceiveInRequest, RequestFails, RequestSucceeds, requestUnchanged,
        CWStopHeartbeatTimer, DiscoveryInv, JoinsAnAnsweringAC, ListInv,
        NeverSleepsOnWork, PlaceInv, Requests
  <2>3. FlagType'
        BY <1>11 DEF ReceiveInRequest, RequestFails, RequestSucceeds, requestUnchanged,
        CWStopHeartbeatTimer, FlagType
  <2>4. BeatInv' /\ DeadInv'
        BY <1>11 DEF ReceiveInRequest, RequestFails, RequestSucceeds, requestUnchanged,
        CWStopHeartbeatTimer, BeatInv, RunHasHeartbeat, FlagType, DeadInv,
        PlaceInv, Requests
  <2> QED BY <2>1, <2>2, <2>3, <2>4
<1>12. CASE FinishJoin
  <2>1. PlaceInv' /\ RequestInv' /\ JoinTimerOnlyInJoin'
        BY <1>12 DEF FinishJoin, PlaceInv, RequestInv, JoinTimerOnlyInJoin, States,
        Places, Requests
  <2>2. DiscoveryInv' /\ ListInv'
        BY <1>12 DEF FinishJoin, DiscoveryInv, JoinsAnAnsweringAC, ListInv,
        NeverSleepsOnWork, PlaceInv, Requests
  <2>3. FlagType' /\ BeatInv' /\ DeadInv'
        BY <1>12 DEF FinishJoin, FlagType, BeatInv, RunHasHeartbeat, DeadInv,
        PlaceInv, Requests
  <2> QED BY <2>1, <2>2, <2>3
<1>13. CASE EnterRun
  <2>1. PlaceInv' /\ RequestInv' /\ JoinTimerOnlyInJoin'
        BY <1>13 DEF EnterRun, CWStartHeartbeatTimer, PlaceInv, RequestInv,
        JoinTimerOnlyInJoin, States, Places, Requests
  <2>2. DiscoveryInv' /\ ListInv'
        BY <1>13 DEF EnterRun, CWStartHeartbeatTimer, DiscoveryInv, JoinsAnAnsweringAC,
        ListInv, NeverSleepsOnWork, PlaceInv, Requests
  <2>3. FlagType'
        BY <1>13 DEF EnterRun, CWStartHeartbeatTimer, FlagType
  <2>4. BeatInv' /\ DeadInv'
        BY <1>13 DEF EnterRun, CWStartHeartbeatTimer, BeatInv, RunHasHeartbeat,
        FlagType, DeadInv, PlaceInv, Requests
  <2> QED BY <2>1, <2>2, <2>3, <2>4
<1>14. CASE RunLoop
  <2>1. bReceiveBinding' \in BOOLEAN
    <3>1. UNCHANGED bReceiveBinding \/ bReceiveBinding' = (frames > 0)
      BY <1>14 DEF RunLoop, LookAtLists
    <3>2. bReceiveBinding \in BOOLEAN
      BY DEF FlagType
    <3>3. CASE UNCHANGED bReceiveBinding
      BY <3>2, <3>3, Zenon
    <3>4. CASE bReceiveBinding' = (frames > 0)
      BY <3>4, SMT
    <3> QED BY <3>1, <3>3, <3>4
  <2>2. PlaceInv' /\ RequestInv' /\ JoinTimerOnlyInJoin'
        BY <1>14 DEF RunLoop, LookAtLists, PlaceInv, RequestInv, JoinTimerOnlyInJoin,
        States, Places, Requests
  <2>3. DiscoveryInv' /\ ListInv'
        BY <1>14 DEF RunLoop, LookAtLists, DiscoveryInv, JoinsAnAnsweringAC, ListInv,
        NeverSleepsOnWork, PlaceInv, Requests
  <2>4. FlagType'
        BY <2>1, <1>14 DEF RunLoop, LookAtLists, FlagType
  <2>5. BeatInv' /\ DeadInv'
        BY <2>1, <1>14 DEF RunLoop, LookAtLists, BeatInv, RunHasHeartbeat, FlagType,
        DeadInv, PlaceInv, Requests
  <2> QED BY <2>2, <2>3, <2>4, <2>5
<1>15. CASE RunWaitTimeout
  <2>1. PlaceInv' /\ RequestInv' /\ JoinTimerOnlyInJoin'
        BY <1>15 DEF RunWaitTimeout, CWStopHeartbeatTimer, PlaceInv, RequestInv,
        JoinTimerOnlyInJoin, States, Places, Requests
  <2>2. DiscoveryInv' /\ ListInv'
        BY <1>15 DEF RunWaitTimeout, CWStopHeartbeatTimer, DiscoveryInv,
        JoinsAnAnsweringAC, ListInv, NeverSleepsOnWork, PlaceInv, Requests
  <2>3. FlagType'
        BY <1>15 DEF RunWaitTimeout, CWStopHeartbeatTimer, FlagType
  <2>4. BeatInv' /\ DeadInv'
        BY <1>15 DEF RunWaitTimeout, CWStopHeartbeatTimer, BeatInv, RunHasHeartbeat,
        FlagType, DeadInv, PlaceInv, Requests
  <2> QED BY <2>1, <2>2, <2>3, <2>4
<1>16. CASE ReceiveInRun
  <2>1. PlaceInv' /\ RequestInv' /\ JoinTimerOnlyInJoin'
        BY <1>16 DEF ReceiveInRun, ManageGenericRunMessage, AfterMessage, CWResetTimers,
        PlaceInv,
        RequestInv, JoinTimerOnlyInJoin, States, Places, Requests
  <2>2. DiscoveryInv' /\ ListInv'
        BY <1>16 DEF ReceiveInRun, ManageGenericRunMessage, AfterMessage, CWResetTimers,
        DiscoveryInv,
        JoinsAnAnsweringAC, ListInv, NeverSleepsOnWork, PlaceInv, Requests
  <2>3. FlagType'
        BY <1>16 DEF ReceiveInRun, ManageGenericRunMessage, AfterMessage, CWResetTimers,
        FlagType
  <2>4. BeatInv'
        BY <1>16 DEF ReceiveInRun, ManageGenericRunMessage, AfterMessage, CWResetTimers,
        BeatInv,
        RunHasHeartbeat, FlagType, PlaceInv, Requests
  <2>5. DeadInv'
        BY <1>16 DEF ReceiveInRun, ManageGenericRunMessage, AfterMessage, CWResetTimers,
        DeadInv,
        FlagType, PlaceInv, BeatInv
  <2> QED BY <2>1, <2>2, <2>3, <2>4, <2>5
<1>17. CASE CWWTPCheckForBindingFrame
  <2>1. PlaceInv' /\ RequestInv' /\ JoinTimerOnlyInJoin'
        BY <1>17 DEF CWWTPCheckForBindingFrame, PlaceInv, RequestInv,
        JoinTimerOnlyInJoin, States, Places, Requests
  <2>2. DiscoveryInv' /\ ListInv'
        BY <1>17 DEF CWWTPCheckForBindingFrame, DiscoveryInv, JoinsAnAnsweringAC,
        ListInv, NeverSleepsOnWork, PlaceInv, Requests
  <2>3. FlagType' /\ BeatInv' /\ DeadInv'
        BY <1>17 DEF CWWTPCheckForBindingFrame, FlagType, BeatInv, RunHasHeartbeat,
        DeadInv, PlaceInv, Requests
  <2> QED BY <2>1, <2>2, <2>3
<1>18. CASE ReceiveOther
  <2>1. PlaceInv' /\ RequestInv' /\ JoinTimerOnlyInJoin'
        BY <1>18 DEF ReceiveOther, PlaceInv, RequestInv, JoinTimerOnlyInJoin, States,
        Places, Requests
  <2>2. DiscoveryInv' /\ ListInv'
        BY <1>18 DEF ReceiveOther, DiscoveryInv, JoinsAnAnsweringAC, ListInv,
        NeverSleepsOnWork, PlaceInv, Requests
  <2>3. FlagType' /\ BeatInv' /\ DeadInv'
        BY <1>18 DEF ReceiveOther, FlagType, BeatInv, RunHasHeartbeat, DeadInv,
        PlaceInv, Requests
  <2> QED BY <2>1, <2>2, <2>3
<1>19. CASE CWWTPReceiveDtlsPacket
  <2>1. PlaceInv' /\ RequestInv' /\ JoinTimerOnlyInJoin'
        BY <1>19 DEF CWWTPReceiveDtlsPacket, Signal, PlaceInv, RequestInv,
        JoinTimerOnlyInJoin, States, Places, Requests
  <2>2. DiscoveryInv' /\ ListInv'
        BY <1>19 DEF CWWTPReceiveDtlsPacket, Signal, DiscoveryInv, JoinsAnAnsweringAC,
        ListInv, NeverSleepsOnWork, PlaceInv, Requests
  <2>3. FlagType' /\ BeatInv' /\ DeadInv'
        BY <1>19 DEF CWWTPReceiveDtlsPacket, Signal, FlagType, BeatInv, RunHasHeartbeat,
        DeadInv, PlaceInv, Requests
  <2> QED BY <2>1, <2>2, <2>3
<1>20. CASE CWWTPReceiveFrame
  <2>1. PlaceInv' /\ RequestInv' /\ JoinTimerOnlyInJoin'
        BY <1>20 DEF CWWTPReceiveFrame, Signal, PlaceInv, RequestInv,
        JoinTimerOnlyInJoin, States, Places, Requests
  <2>2. DiscoveryInv' /\ ListInv'
        BY <1>20 DEF CWWTPReceiveFrame, Signal, DiscoveryInv, JoinsAnAnsweringAC,
        ListInv, NeverSleepsOnWork, PlaceInv, Requests
  <2>3. FlagType' /\ BeatInv' /\ DeadInv'
        BY <1>20 DEF CWWTPReceiveFrame, Signal, FlagType, BeatInv, RunHasHeartbeat,
        DeadInv, PlaceInv, Requests
  <2> QED BY <2>1, <2>2, <2>3
<1>21. CASE TakeJoinTimer
  <2>1. PlaceInv' /\ RequestInv' /\ JoinTimerOnlyInJoin'
        BY <1>21 DEF TakeJoinTimer, PlaceInv, RequestInv, JoinTimerOnlyInJoin, States,
        Places, Requests
  <2>2. DiscoveryInv' /\ ListInv'
        BY <1>21 DEF TakeJoinTimer, DiscoveryInv, JoinsAnAnsweringAC, ListInv,
        NeverSleepsOnWork, PlaceInv, Requests
  <2>3. FlagType' /\ BeatInv' /\ DeadInv'
        BY <1>21 DEF TakeJoinTimer, FlagType, BeatInv, RunHasHeartbeat, DeadInv,
        PlaceInv, Requests
  <2> QED BY <2>1, <2>2, <2>3
<1>22. CASE CWWTPWaitJoinExpired
  <2>1. PlaceInv' /\ RequestInv' /\ JoinTimerOnlyInJoin'
        BY <1>22 DEF CWWTPWaitJoinExpired, PlaceInv, RequestInv, JoinTimerOnlyInJoin,
        States, Places, Requests
  <2>2. DiscoveryInv' /\ ListInv'
        BY <1>22 DEF CWWTPWaitJoinExpired, DiscoveryInv, JoinsAnAnsweringAC, ListInv,
        NeverSleepsOnWork, PlaceInv, Requests
  <2>3. FlagType' /\ BeatInv' /\ DeadInv'
        BY <1>22 DEF CWWTPWaitJoinExpired, FlagType, BeatInv, RunHasHeartbeat, DeadInv,
        PlaceInv, Requests
  <2> QED BY <2>1, <2>2, <2>3
<1>23. CASE TakeHeartbeat
  <2>1. hbCurrent' \in BOOLEAN /\ (hbCurrent' => heartbeats > 1)
    BY <1>23, Zenon DEF TakeHeartbeat, FlagType
  <2>2. PlaceInv' /\ RequestInv' /\ JoinTimerOnlyInJoin'
        BY <1>23 DEF TakeHeartbeat, PlaceInv, RequestInv, JoinTimerOnlyInJoin, States,
        Places, Requests
  <2>3. DiscoveryInv' /\ ListInv'
        BY <1>23 DEF TakeHeartbeat, DiscoveryInv, JoinsAnAnsweringAC, ListInv,
        NeverSleepsOnWork, PlaceInv, Requests
  <2>4. FlagType'
        BY <2>1, <1>23 DEF TakeHeartbeat, FlagType
  <2>5. BeatInv' /\ DeadInv'
        BY <2>1, <1>23 DEF TakeHeartbeat, BeatInv, RunHasHeartbeat, FlagType, DeadInv,
        PlaceInv, Requests
  <2> QED BY <2>2, <2>3, <2>4, <2>5
<1>24. CASE TestNeighborDead
  <2>1. PlaceInv' /\ RequestInv' /\ JoinTimerOnlyInJoin'
        BY <1>24 DEF TestNeighborDead, PlaceInv, RequestInv,
        JoinTimerOnlyInJoin, States, Places, Requests
  <2>2. DiscoveryInv' /\ ListInv'
        BY <1>24 DEF TestNeighborDead, DiscoveryInv, JoinsAnAnsweringAC,
        ListInv, NeverSleepsOnWork, PlaceInv, Requests
  <2>3. FlagType'
        BY <1>24 DEF TestNeighborDead, FlagType
  <2>4. BeatInv'
        BY <1>24 DEF TestNeighborDead, BeatInv, RunHasHeartbeat, FlagType,
        PlaceInv, Requests
  <2>5. DeadInv'
        BY <1>24 DEF TestNeighborDead, DeadInv, FlagType, PlaceInv, BeatInv
  <2> QED BY <2>1, <2>2, <2>3, <2>4, <2>5
<1>25. CASE SendEcho
  <2>1. PlaceInv' /\ RequestInv' /\ JoinTimerOnlyInJoin'
        BY <1>25 DEF SendEcho, CWStartHeartbeatTimer, PlaceInv, RequestInv,
        JoinTimerOnlyInJoin, States, Places, Requests
  <2>2. DiscoveryInv' /\ ListInv'
        BY <1>25 DEF SendEcho, CWStartHeartbeatTimer, DiscoveryInv,
        JoinsAnAnsweringAC, ListInv, NeverSleepsOnWork, PlaceInv, Requests
  <2>3. FlagType'
        BY <1>25 DEF SendEcho, CWStartHeartbeatTimer, FlagType
  <2>4. BeatInv'
        BY <1>25 DEF SendEcho, CWStartHeartbeatTimer, BeatInv, RunHasHeartbeat,
        FlagType, PlaceInv, Requests
  <2>5. DeadInv'
        BY <1>25 DEF SendEcho, CWStartHeartbeatTimer, DeadInv, FlagType,
        PlaceInv, BeatInv
  <2> QED BY <2>1, <2>2, <2>3, <2>4, <2>5
<1>26. CASE HeartbeatFails
  <2>1. /\ ticker' = "idle" /\ beatLost' = TRUE /\ UNCHANGED <<state, pc, beats>>
        /\ heartbeats' \in Nat /\ (hbCurrent' => heartbeats' > 0)
    <3>1. CASE ticker = "startDead"
      BY <1>26, <3>1 DEF HeartbeatFails, CWStopHeartbeatTimer, BeatInv
    <3>2. CASE ticker = "echo"
      <4>1. hbCurrent' \in {FALSE, hbCurrent} /\ UNCHANGED heartbeats
        BY <1>26, <3>2 DEF HeartbeatFails
      <4>2. hbCurrent' => hbCurrent
        BY ONLY <4>1, Zenon
      <4> QED BY <1>26, <4>1, <4>2 DEF HeartbeatFails, BeatInv
    <3> QED BY <1>26, <3>1, <3>2 DEF HeartbeatFails
  <2>2. PlaceInv' /\ RequestInv' /\ JoinTimerOnlyInJoin'
        BY <1>26 DEF HeartbeatFails, CWStopHeartbeatTimer, PlaceInv, RequestInv,
        JoinTimerOnlyInJoin, States, Places, Requests
  <2>3. DiscoveryInv' /\ ListInv'
        BY <1>26 DEF HeartbeatFails, CWStopHeartbeatTimer, DiscoveryInv,
        JoinsAnAnsweringAC, ListInv, NeverSleepsOnWork, PlaceInv, Requests
  <2>4. FlagType'
        BY <2>1, <1>26 DEF HeartbeatFails, CWStopHeartbeatTimer, FlagType
  <2>5. BeatInv'
        BY <2>1, <1>26 DEF BeatInv, RunHasHeartbeat, PlaceInv
  <2>6. DeadInv'
    <3>1. UNCHANGED dead /\ ticker \in {"startDead", "echo"}
          /\ gNeighborDeadTimerSet' = gNeighborDeadTimerSet
      <4>1. CASE ticker = "startDead"
        <5>1. gNeighborDeadTimerSet = FALSE
          BY <4>1 DEF DeadInv, FlagType
        <5> QED BY <1>26, <4>1, <5>1 DEF HeartbeatFails
      <4>2. CASE ticker = "echo"
        BY <1>26, <4>2 DEF HeartbeatFails
      <4> QED BY <1>26, <4>1, <4>2 DEF HeartbeatFails
    <3> QED BY <2>1, <3>1 DEF DeadInv
  <2> QED BY <2>2, <2>3, <2>4, <2>5, <2>6
<1>27. CASE NeighborDeadExpired
  <2>1. PlaceInv' /\ RequestInv' /\ JoinTimerOnlyInJoin'
        BY <1>27 DEF NeighborDeadExpired, PlaceInv, RequestInv, JoinTimerOnlyInJoin,
        States, Places, Requests
  <2>2. DiscoveryInv' /\ ListInv'
        BY <1>27 DEF NeighborDeadExpired, DiscoveryInv, JoinsAnAnsweringAC, ListInv,
        NeverSleepsOnWork, PlaceInv, Requests
  <2>3. FlagType' /\ BeatInv' /\ DeadInv'
        BY <1>27 DEF NeighborDeadExpired, FlagType, BeatInv, RunHasHeartbeat, DeadInv,
        PlaceInv, Requests
  <2> QED BY <2>1, <2>2, <2>3
<1>28. ASSUME NEW ac \in ACs, CWReceiveDiscoveryResponse(ac) PROVE IInv'
  <2>1. PlaceInv' /\ RequestInv' /\ JoinTimerOnlyInJoin'
        BY <1>28 DEF CWReceiveDiscoveryResponse, PlaceInv, RequestInv,
        JoinTimerOnlyInJoin, States, Places, Requests
  <2>2. DiscoveryInv' /\ ListInv'
        BY <1>28 DEF CWReceiveDiscoveryResponse, DiscoveryInv, JoinsAnAnsweringAC,
        ListInv, NeverSleepsOnWork, PlaceInv, Requests
  <2>3. FlagType' /\ BeatInv' /\ DeadInv'
        BY <1>28 DEF CWReceiveDiscoveryResponse, FlagType, BeatInv, RunHasHeartbeat,
        DeadInv, PlaceInv, Requests
  <2> QED BY <2>1, <2>2, <2>3
<1>29. CASE UNCHANGED vars
  <2>1. PlaceInv' /\ RequestInv' /\ JoinTimerOnlyInJoin'
        BY <1>29 DEF vars, PlaceInv, RequestInv, JoinTimerOnlyInJoin, States, Places,
        Requests
  <2>2. DiscoveryInv' /\ ListInv'
        BY <1>29 DEF vars, DiscoveryInv, JoinsAnAnsweringAC, ListInv, NeverSleepsOnWork,
        PlaceInv, Requests
  <2>3. FlagType' /\ BeatInv' /\ DeadInv'
        BY <1>29 DEF vars, FlagType, BeatInv, RunHasHeartbeat, DeadInv,
        PlaceInv, Requests
  <2> QED BY <2>1, <2>2, <2>3
<1>30. CASE CWStopNeighborDeadTimer
  <2>1. PlaceInv' /\ RequestInv' /\ JoinTimerOnlyInJoin'
        BY <1>30 DEF CWStopNeighborDeadTimer, PlaceInv, RequestInv,
        JoinTimerOnlyInJoin, States, Places, Requests
  <2>2. DiscoveryInv' /\ ListInv'
        BY <1>30 DEF CWStopNeighborDeadTimer, DiscoveryInv, JoinsAnAnsweringAC,
        ListInv, NeverSleepsOnWork, PlaceInv, Requests
  <2>3. FlagType'
        BY <1>30 DEF CWStopNeighborDeadTimer, FlagType
  <2>4. BeatInv'
        BY <1>30 DEF CWStopNeighborDeadTimer, BeatInv, RunHasHeartbeat,
        FlagType, PlaceInv, Requests
  <2>5. DeadInv'
        BY <1>30 DEF CWStopNeighborDeadTimer, DeadInv, FlagType, PlaceInv,
        BeatInv
  <2> QED BY <2>1, <2>2, <2>3, <2>4, <2>5
<1>31. CASE ClearNeighborDead
  <2>1. PlaceInv' /\ RequestInv' /\ JoinTimerOnlyInJoin'
        BY <1>31 DEF ClearNeighborDead, PlaceInv, RequestInv,
        JoinTimerOnlyInJoin, States, Places, Requests
  <2>2. DiscoveryInv' /\ ListInv'
        BY <1>31 DEF ClearNeighborDead, DiscoveryInv, JoinsAnAnsweringAC,
        ListInv, NeverSleepsOnWork, PlaceInv, Requests
  <2>3. FlagType'
        BY <1>31 DEF ClearNeighborDead, FlagType
  <2>4. BeatInv'
        BY <1>31 DEF ClearNeighborDead, BeatInv, RunHasHeartbeat, FlagType,
        PlaceInv, Requests
  <2>5. DeadInv'
        BY <1>31 DEF ClearNeighborDead, DeadInv, FlagType, PlaceInv, BeatInv
  <2> QED BY <2>1, <2>2, <2>3, <2>4, <2>5
<1>32. CASE ResetStopsHeartbeat
  <2>1. PlaceInv' /\ RequestInv' /\ JoinTimerOnlyInJoin'
        BY <1>32 DEF ResetStopsHeartbeat, CWStopHeartbeatTimer, PlaceInv,
        RequestInv, JoinTimerOnlyInJoin, States, Places, Requests
  <2>2. DiscoveryInv' /\ ListInv'
        BY <1>32 DEF ResetStopsHeartbeat, CWStopHeartbeatTimer, DiscoveryInv,
        JoinsAnAnsweringAC, ListInv, NeverSleepsOnWork, PlaceInv, Requests
  <2>3. FlagType'
        BY <1>32 DEF ResetStopsHeartbeat, CWStopHeartbeatTimer, FlagType
  <2>4. BeatInv'
        BY <1>32 DEF ResetStopsHeartbeat, CWStopHeartbeatTimer, BeatInv,
        RunHasHeartbeat, FlagType, PlaceInv, Requests
  <2>5. DeadInv'
        BY <1>32 DEF ResetStopsHeartbeat, CWStopHeartbeatTimer, DeadInv,
        FlagType, PlaceInv, BeatInv
  <2> QED BY <2>1, <2>2, <2>3, <2>4, <2>5
<1>33. CASE ResetStartsHeartbeat
  <2>1. PlaceInv' /\ RequestInv' /\ JoinTimerOnlyInJoin'
        BY <1>33 DEF ResetStartsHeartbeat, CWStartHeartbeatTimer, AfterMessage,
        PlaceInv, RequestInv, JoinTimerOnlyInJoin, States, Places, Requests
  <2>2. DiscoveryInv' /\ ListInv'
        BY <1>33 DEF ResetStartsHeartbeat, CWStartHeartbeatTimer, AfterMessage,
        DiscoveryInv, JoinsAnAnsweringAC, ListInv, NeverSleepsOnWork, PlaceInv,
        Requests
  <2>3. FlagType'
        BY <1>33 DEF ResetStartsHeartbeat, CWStartHeartbeatTimer, AfterMessage,
        FlagType
  <2>4. BeatInv'
        BY <1>33 DEF ResetStartsHeartbeat, CWStartHeartbeatTimer, AfterMessage,
        BeatInv, RunHasHeartbeat, FlagType, PlaceInv, Requests
  <2>5. DeadInv'
        BY <1>33 DEF ResetStartsHeartbeat, CWStartHeartbeatTimer, AfterMessage,
        DeadInv, FlagType, PlaceInv, BeatInv
  <2> QED BY <2>1, <2>2, <2>3, <2>4, <2>5
<1>34. CASE CWStartNeighborDeadTimer
  <2>1. PlaceInv' /\ RequestInv' /\ JoinTimerOnlyInJoin'
        BY <1>34 DEF CWStartNeighborDeadTimer, PlaceInv, RequestInv,
        JoinTimerOnlyInJoin, States, Places, Requests
  <2>2. DiscoveryInv' /\ ListInv'
        BY <1>34 DEF CWStartNeighborDeadTimer, DiscoveryInv, JoinsAnAnsweringAC,
        ListInv, NeverSleepsOnWork, PlaceInv, Requests
  <2>3. FlagType'
        BY <1>34 DEF CWStartNeighborDeadTimer, FlagType
  <2>4. BeatInv'
        BY <1>34 DEF CWStartNeighborDeadTimer, BeatInv, RunHasHeartbeat,
        FlagType, PlaceInv, Requests
  <2>5. DeadInv'
        BY <1>34 DEF CWStartNeighborDeadTimer, DeadInv, FlagType, PlaceInv,
        BeatInv
  <2> QED BY <2>1, <2>2, <2>3, <2>4, <2>5
<1>35. CASE SetNeighborDead
  <2>1. PlaceInv' /\ RequestInv' /\ JoinTimerOnlyInJoin'
        BY <1>35 DEF SetNeighborDead, PlaceInv, RequestInv, JoinTimerOnlyInJoin,
        States, Places, Requests
  <2>2. DiscoveryInv' /\ ListInv'
        BY <1>35 DEF SetNeighborDead, DiscoveryInv, JoinsAnAnsweringAC, ListInv,
        NeverSleepsOnWork, PlaceInv, Requests
  <2>3. FlagType'
        BY <1>35 DEF SetNeighborDead, FlagType
  <2>4. BeatInv'
        BY <1>35 DEF SetNeighborDead, BeatInv, RunHasHeartbeat, FlagType,
        PlaceInv, Requests
  <2>5. DeadInv'
        BY <1>35 DEF SetNeighborDead, DeadInv, FlagType, PlaceInv, BeatInv
  <2> QED BY <2>1, <2>2, <2>3, <2>4, <2>5
<1> QED
  BY <1>1, <1>2, <1>3, <1>4, <1>5, <1>6, <1>7, <1>8, <1>9, <1>10, <1>11, <1>12,
     <1>13, <1>14, <1>15, <1>16, <1>17, <1>18, <1>19, <1>20, <1>21, <1>22, <1>23, <1>24,
     <1>25, <1>26, <1>27, <1>28, <1>29, <1>30, <1>31, <1>32, <1>33, <1>34, <1>35
  DEF Next, Main, Network, Ticker

-----------------------------------------------------------------------------
(* The inductive invariant holds in every state of the WTP. *)
THEOREM Invariance == Spec => []IInv
BY InitInv, NextInv, PTL DEF Spec

(* The WTP keeps its types: no counter leaves the limit that the code sets, no *)
(* list holds what did not arrive, and no timer is stopped that is not there.  *)
THEOREM TypeCorrect == Spec => []TypeOK
<1>1. IInv => TypeOK
  <2> SUFFICES ASSUME IInv PROVE TypeOK
    OBVIOUS
  <2>1. /\ state \in States /\ pc \in Places
        /\ gACInfoPtr \in ACs \union {NoAC} /\ received \subseteq ACs /\ heard \subseteq ACs
        /\ gCWDiscoveryCount \in 0 .. gCWMaxDiscoveries
        /\ gWTPRetransmissionCount \in 0 .. gCWMaxRetransmit
    BY DEF IInv, PlaceInv, DiscoveryInv, RequestInv
  <2>2. /\ packets \in 0 .. MaxPackets /\ arrived \in 0 .. MaxPackets
        /\ frames \in 0 .. MaxFrames /\ captured \in 0 .. MaxFrames
    BY DEF IInv, ListInv
  <2>3. /\ heartbeats \in Nat /\ beats \in 0 .. MaxBeats /\ dead \in Nat
        /\ ticker \in Handlers
    BY DEF IInv, BeatInv, DeadInv
  <2> QED BY <2>1, <2>2, <2>3 DEF IInv, FlagType, TypeOK
<1> QED BY <1>1, Invariance, PTL

(* A join uses an AC that answered in the discovery before it, whatever late   *)
(* and refused answers came.                                                   *)
THEOREM JoinsAnsweringAC == Spec => []JoinsAnAnsweringAC
<1>1. IInv => JoinsAnAnsweringAC
  BY DEF IInv, DiscoveryInv
<1> QED BY <1>1, Invariance, PTL

(* The timers fit the state, wherever a step of the heartbeat handler falls     *)
(* among the steps of CWResetTimers: no join timer outside a join, no second    *)
(* NeighborDead timer nor one that cannot be stopped, no run state that has     *)
(* lost its heartbeat.                                                          *)
THEOREM TimersAlwaysFit == Spec => []TimersFitState
<1>1. IInv => TimersFitState
  BY DEF IInv, TimersFitState, OneNeighborDead, DeadInv, BeatInv
<1> QED BY <1>1, Invariance, PTL

(* No packet and no frame is left waiting by a sleeping main thread. *)
THEOREM NoLostWakeUp == Spec => []NeverSleepsOnWork
<1>1. IInv => NeverSleepsOnWork
  BY DEF IInv, ListInv
<1> QED BY <1>1, Invariance, PTL

-----------------------------------------------------------------------------
(* After one expiry of the join timer the WTP joins no more, whatever answers   *)
(* it gets: nothing sets gSuccessfulHandshake again (WTPJoinState.c:35, 196,     *)
(* 209), so the branch that the code calls "timer expired" is taken by every    *)
(* later join, until the daemon is started again.                               *)
ExpiredOnce == [][ ~ gSuccessfulHandshake =>
                     /\ ~ gSuccessfulHandshake'
                     /\ state' = "configure" => state = "configure" ]_vars

THEOREM ExpiredOnceNeverJoins == Spec => ExpiredOnce
<1> DEFINE Shut == ~ gSuccessfulHandshake'
           Same == state' = state
           Not == state' # "configure"
<1>1. ASSUME IInv, [Next]_vars, ~ gSuccessfulHandshake
      PROVE  Shut /\ (Same \/ Not)
  <2>1. CASE EnterDiscovery \/ DiscoveryRound \/ EndRound \/ CWWTPEnterSulking
    BY <1>1, <2>1 DEF EnterDiscovery, DiscoveryRound, EndRound, CWWTPEnterSulking,
       Goto, ToDiscovery, Quit, At, joinVars
  <2>2. CASE EnterJoin \/ EnterConfigure \/ EnterDataCheck
    BY <1>1, <2>2 DEF EnterJoin, EnterConfigure, EnterDataCheck, Goto, ToDiscovery, At,
       joinVars
  <2>3. CASE Transmit \/ Await \/ Timeout
    BY <1>1, <2>3 DEF Transmit, Await, Timeout, RequestFails, requestUnchanged, Goto,
       ToDiscovery, Quit
  <2>4. CASE ReceiveInRequest
    BY <1>1, <2>4 DEF ReceiveInRequest, RequestFails, RequestSucceeds, requestUnchanged,
       Goto, ToDiscovery, Quit
  <2>5. CASE FinishJoin
    BY <1>1, <2>5 DEF FinishJoin, Goto, ToDiscovery, joinVars
  <2>6. CASE EnterRun \/ RunLoop \/ RunWaitTimeout \/ CWWTPCheckForBindingFrame
    BY <1>1, <2>6 DEF EnterRun, RunLoop, LookAtLists, RunWaitTimeout,
       CWWTPCheckForBindingFrame, Goto, ToDiscovery, At, joinVars
  <2>7. CASE \/ ReceiveInRun \/ CWStopNeighborDeadTimer \/ ClearNeighborDead
             \/ ResetStopsHeartbeat \/ ResetStartsHeartbeat
    BY <1>1, <2>7 DEF ReceiveInRun, ManageGenericRunMessage, CWResetTimers, AfterMessage,
       CWStopNeighborDeadTimer,
       ClearNeighborDead, ResetStopsHeartbeat, ResetStartsHeartbeat, Goto, ToDiscovery,
       Quit, joinVars
  <2>8. CASE Network
    BY <1>1, <2>8 DEF Network, CWReceiveDiscoveryResponse, ReceiveOther,
       CWWTPReceiveDtlsPacket, CWWTPReceiveFrame, Signal, Goto, place, joinVars
  <2>9. CASE Ticker
    <3>1. UNCHANGED state
      BY <2>9, Zenon DEF Ticker, TakeJoinTimer, CWWTPWaitJoinExpired, TakeHeartbeat,
         TestNeighborDead, CWStartNeighborDeadTimer, SetNeighborDead, SendEcho,
         HeartbeatFails, NeighborDeadExpired, place
    <3>2. Shut
      <4>1. CASE CWWTPWaitJoinExpired
        BY <4>1 DEF CWWTPWaitJoinExpired
      <4>2. CASE ~ CWWTPWaitJoinExpired
        <5>1. UNCHANGED gSuccessfulHandshake
          BY <2>9, <4>2, Zenon DEF Ticker, TakeJoinTimer, TakeHeartbeat, TestNeighborDead,
             CWStartNeighborDeadTimer, SetNeighborDead, SendEcho, HeartbeatFails,
             NeighborDeadExpired, joinVars
        <5> QED BY <1>1, <5>1
      <4> QED BY <4>1, <4>2
    <3> QED BY <3>1, <3>2
  <2>10. CASE UNCHANGED vars
    BY <1>1, <2>10 DEF vars, place, joinVars
  <2> QED
    BY <1>1, <2>1, <2>2, <2>3, <2>4, <2>5, <2>6, <2>7, <2>8, <2>9, <2>10 DEF Next, Main
<1>2. IInv /\ [Next]_vars =>
        [ ~ gSuccessfulHandshake =>
            /\ ~ gSuccessfulHandshake'
            /\ state' = "configure" => state = "configure" ]_vars
  BY <1>1
<1> QED BY <1>2, Invariance, PTL DEF Spec, ExpiredOnce

-----------------------------------------------------------------------------
(* CWReceiveMessage waits for the next fragment without a timeout (WTP.c:114):  *)
(* once the main thread is there with no packet left, no timer of the WTP, no    *)
(* frame of a station and not even the socket that the join timer closes takes  *)
(* it on, only the next packet.  The retransmission that would ask for the lost  *)
(* fragment again is left to that thread.                                       *)
OnlyAPacketUnblocks == [][ blocked => blocked' \/ packets' = packets + 1 ]_vars

(* A main thread that waits for the rest of a message leaves only with a packet. *)
THEOREM BlockedUntilPacket == Spec => OnlyAPacketUnblocks
<1>1. ASSUME IInv, [Next]_vars, blocked
      PROVE  blocked' \/ packets' = packets + 1
  <2>1. pc \in {"receive", "runReceive"} /\ packets = 0
    BY <1>1 DEF blocked
  <2>2. ~ Main
    BY <2>1 DEF Main, EnterDiscovery, DiscoveryRound, EndRound, CWWTPEnterSulking,
       EnterJoin, EnterConfigure, EnterDataCheck, Transmit, Await, Timeout,
       ReceiveInRequest, FinishJoin, EnterRun, RunLoop, RunWaitTimeout, ReceiveInRun,
       CWWTPCheckForBindingFrame, CWStopNeighborDeadTimer, ClearNeighborDead,
       ResetStopsHeartbeat, ResetStartsHeartbeat, At
  <2>3. CASE Network
    <3>1. CASE CWWTPReceiveDtlsPacket
      BY <3>1 DEF CWWTPReceiveDtlsPacket
    <3>2. CASE CWWTPReceiveFrame
      BY <2>1, <3>2 DEF CWWTPReceiveFrame, Signal, place, blocked
    <3>3. ASSUME NEW ac \in ACs, CWReceiveDiscoveryResponse(ac)
          PROVE  blocked'
      BY <2>1, <3>3 DEF CWReceiveDiscoveryResponse, At
    <3>4. CASE ReceiveOther
      BY <2>1, <3>4 DEF ReceiveOther, At
    <3> QED BY <2>3, <3>1, <3>2, <3>3, <3>4 DEF Network
  <2>4. CASE Ticker
    <3>1. UNCHANGED <<pc, packets>>
      BY <2>4, Zenon DEF Ticker, TakeJoinTimer, CWWTPWaitJoinExpired, TakeHeartbeat,
         TestNeighborDead, CWStartNeighborDeadTimer, SetNeighborDead, SendEcho,
         HeartbeatFails, NeighborDeadExpired, place, listVars
    <3> QED BY <2>1, <3>1 DEF blocked
  <2>5. CASE UNCHANGED vars
    BY <2>1, <2>5 DEF vars, place, listVars, blocked
  <2> QED BY <1>1, <2>2, <2>3, <2>4, <2>5 DEF Next
<1>2. IInv /\ [Next]_vars => [ blocked => blocked' \/ packets' = packets + 1 ]_vars
  BY <1>1
<1> QED BY <1>2, Invariance, PTL DEF Spec, OnlyAPacketUnblocks
=============================================================================
