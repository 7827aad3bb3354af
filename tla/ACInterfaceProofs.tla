-------------------------- MODULE ACInterfaceProofs --------------------------
(***************************************************************************)
(* Proofs about ACInterface, for any number of applications, application   *)
(* sockets and WTPs.                                                       *)
(*                                                                         *)
(* CommandsAndWaiters is inductive only together with what keeps a wait    *)
(* and its command apart from all others: who waits for a session waits    *)
(* for no other, is alone there unless the session is contended, and its   *)
(* request is the outstanding one (WaitInv, OutstandingInv).               *)
(***************************************************************************)
EXTENDS ACInterface, FiniteSetTheorems, TLAPS

(* TypeOK but for the count of free slots, by who uses the variables. *)
TableType ==
  /\ interface \in Interface /\ newSlot \in Slots
  /\ isFree \in [Slots -> BOOLEAN]
  /\ appSocket \in [Slots -> Apps \union {None}]

ThreadType == thread \in [Apps -> Threads]

AppType ==
  /\ slot \in [Apps -> Slots] /\ target \in [Apps -> WTPs] /\ all \in [Apps -> BOOLEAN]

SessionType ==
  /\ session \in [WTPs -> Sessions]
  /\ interfaceCommand \in [WTPs -> Apps \union {None}]
  /\ interfaceCommandProgress \in [WTPs -> BOOLEAN]
  /\ applicationIndex \in [WTPs -> Slots]
  /\ waiters \in [WTPs -> SUBSET Apps]
  /\ outstanding \in [WTPs -> Apps \union {None}]
  /\ contended \in [WTPs -> BOOLEAN]

(* The count agrees with the table, which bounds it. *)
CountInv == numSocketFree \in Nat /\ SlotsAccounted

(* Between its claim and its thread, the slot belongs to the application whose *)
(* connection was accepted, which has no other.                                *)
StartingInv ==
  interface = "starting" =>
    ~ isFree[newSlot] /\ appSocket[newSlot] \in Apps /\ thread[appSocket[newSlot]] = "out"

(* Who waits for a session is in the wait of this one, and alone there unless  *)
(* the session is contended; then its own slot is the one to answer to.        *)
WaitInv ==
  \A w \in WTPs :
    /\ \A a \in waiters[w] : thread[a] = "waiting" /\ target[a] = w
    /\ ~ contended[w] =>
         \A a \in waiters[w] : waiters[w] = {a} /\ applicationIndex[w] = slot[a]

(* Only an open session has an outstanding request.  Without contention its    *)
(* application still waits, and no other command is queued.                    *)
OutstandingInv ==
  \A w \in WTPs : outstanding[w] # None =>
    /\ session[w] = "open"
    /\ ~ contended[w] => outstanding[w] \in waiters[w] /\ interfaceCommand[w] = None

IInv ==
  /\ TableType /\ ThreadType /\ AppType /\ SessionType
  /\ CountInv /\ StartingInv /\ OneApplicationPerSlot
  /\ WaitInv /\ OutstandingInv /\ CommandsAndWaiters

USE InterfaceAssumption DEF InterfaceAssumption

-----------------------------------------------------------------------------
(* There are finitely many free slots, no more than sockets. *)
LEMMA SlotsFinite ==
  /\ IsFiniteSet(Free) /\ Cardinality(Free) \in 0 .. MAX_APPS_CONNECTED_TO_AC
<1>1. IsFiniteSet(Slots) /\ Cardinality(Slots) = MAX_APPS_CONNECTED_TO_AC
  BY FS_Interval DEF Slots
<1>2. Free \subseteq Slots
  BY DEF Free
<1>3. IsFiniteSet(Free) /\ Cardinality(Free) <= Cardinality(Slots)
  BY <1>1, <1>2, FS_Subset
<1> QED BY <1>1, <1>3, FS_CardinalityType

(* The initial states satisfy the inductive invariant. *)
LEMMA InitInv == Init => IInv
<1> SUFFICES ASSUME Init PROVE IInv
  OBVIOUS
<1>1. 0 \in Slots /\ 0 \in WTPs
  BY DEF Slots, WTPs
<1>2. TableType /\ ThreadType /\ AppType
  BY <1>1 DEF Init, TableType, Interface, ThreadType, Threads, AppType
<1>3. SessionType
  BY <1>1 DEF Init, SessionType, Sessions
<1>4. CountInv
  <2>1. Free = Slots
    BY DEF Init, Free
  <2>2. Cardinality(Slots) = MAX_APPS_CONNECTED_TO_AC
    BY FS_Interval DEF Slots
  <2> QED BY <2>1, <2>2 DEF Init, CountInv, SlotsAccounted
<1>5. StartingInv /\ OneApplicationPerSlot
  BY DEF Init, StartingInv, OneApplicationPerSlot, Serves
<1>6. WaitInv /\ OutstandingInv /\ CommandsAndWaiters
  BY DEF Init, WaitInv, OutstandingInv, CommandsAndWaiters
<1> QED BY <1>2, <1>3, <1>4, <1>5, <1>6 DEF IInv

(* Every step of the accepting thread, the applications and the sessions       *)
(* preserves the inductive invariant.                                          *)
LEMMA NextInv == IInv /\ [Next]_vars => IInv'
<1> SUFFICES ASSUME IInv, [Next]_vars PROVE IInv'
  OBVIOUS
<1> USE DEF IInv, tableVars, appVars, sessionVars
<1>1. ASSUME NEW a \in Apps, Accept(a) PROVE IInv'
  <2>1. PICK s \in Free :
          /\ numSocketFree > 0 /\ thread[a] = "out" /\ interface = "accept"
          /\ interface' = "starting" /\ newSlot' = s
          /\ isFree' = [isFree EXCEPT ![s] = FALSE]
          /\ appSocket' = [appSocket EXCEPT ![s] = a]
          /\ numSocketFree' = numSocketFree - 1
          /\ UNCHANGED <<appVars, sessionVars>>
    BY <1>1 DEF Accept
  <2>2. s \in Slots /\ isFree[s]
    BY DEF Free
  <2>3. TableType' /\ ThreadType' /\ AppType'
    BY <2>1, <2>2 DEF TableType, Interface, ThreadType, AppType
  <2>4. CountInv'
    <3>1. Free' = Free \ {s}
      BY <2>1, <2>2 DEF Free, TableType
    <3>2. Cardinality(Free') = Cardinality(Free) - 1
      BY <3>1, SlotsFinite, FS_RemoveElement
    <3> QED BY <2>1, <3>2, SlotsFinite DEF CountInv, SlotsAccounted
  <2>5. StartingInv' /\ OneApplicationPerSlot'
    BY <2>1, <2>2 DEF StartingInv, OneApplicationPerSlot, Serves, TableType
  <2>6. SessionType' /\ WaitInv' /\ OutstandingInv' /\ CommandsAndWaiters'
    BY <2>1 DEF SessionType, WaitInv, OutstandingInv, CommandsAndWaiters
  <2> QED BY <2>3, <2>4, <2>5, <2>6
<1>2. CASE AcceptFails
  <2>1. TableType' /\ ThreadType' /\ AppType'
    BY <1>2 DEF AcceptFails, TableType, Interface, ThreadType, Threads, AppType, Slots,
       WTPs, SessionType
  <2>2. CountInv'
    BY <1>2 DEF AcceptFails, CountInv, SlotsAccounted, Free
  <2>3. StartingInv' /\ OneApplicationPerSlot'
    BY <1>2 DEF AcceptFails, StartingInv, OneApplicationPerSlot, Serves, TableType,
       ThreadType, AppType, Free, WaitInv, SessionType
  <2>4. SessionType' /\ WaitInv' /\ OutstandingInv' /\ CommandsAndWaiters'
    BY <1>2 DEF AcceptFails, OutstandingInv, CommandsAndWaiters, WaitInv, SessionType,
       ThreadType, AppType, StartingInv
  <2> QED BY <2>1, <2>2, <2>3, <2>4
<1>3. CASE CreateMutexFails
  <2>1. TableType' /\ ThreadType' /\ AppType'
    BY <1>3 DEF CreateMutexFails, TableType, Interface, ThreadType, Threads, AppType,
       Slots, WTPs, SessionType
  <2>2. CountInv'
    BY <1>3 DEF CreateMutexFails, CountInv, SlotsAccounted, Free
  <2>3. StartingInv' /\ OneApplicationPerSlot'
    BY <1>3 DEF CreateMutexFails, StartingInv, OneApplicationPerSlot, Serves, TableType,
       ThreadType, AppType, Free, WaitInv, SessionType
  <2>4. SessionType' /\ WaitInv' /\ OutstandingInv' /\ CommandsAndWaiters'
    BY <1>3 DEF CreateMutexFails, OutstandingInv, CommandsAndWaiters, WaitInv,
       SessionType, ThreadType, AppType, StartingInv
  <2> QED BY <2>1, <2>2, <2>3, <2>4
<1>4. CASE CreateThread
  <2>1. TableType' /\ ThreadType' /\ AppType'
    BY <1>4 DEF CreateThread, TableType, Interface, ThreadType, Threads, AppType, Slots,
       WTPs, SessionType
  <2>2. CountInv'
    BY <1>4 DEF CreateThread, CountInv, SlotsAccounted, Free
  <2>3. StartingInv' /\ OneApplicationPerSlot'
    BY <1>4 DEF CreateThread, StartingInv, OneApplicationPerSlot, Serves, TableType,
       ThreadType, AppType, Free, WaitInv, SessionType
  <2>4. SessionType' /\ WaitInv' /\ OutstandingInv' /\ CommandsAndWaiters'
    BY <1>4 DEF CreateThread, OutstandingInv, CommandsAndWaiters, WaitInv, SessionType,
       ThreadType, AppType, StartingInv
  <2> QED BY <2>1, <2>2, <2>3, <2>4
<1>5. CASE CreateThreadFails
  <2>1. TableType' /\ ThreadType' /\ AppType'
    BY <1>5 DEF CreateThreadFails, TableType, Interface, ThreadType, Threads, AppType,
       Slots, WTPs, SessionType
  <2>2. StartingInv' /\ OneApplicationPerSlot'
    BY <1>5 DEF CreateThreadFails, StartingInv, OneApplicationPerSlot, Serves,
       TableType, ThreadType, AppType, Free, WaitInv, SessionType
  <2>3. SessionType' /\ WaitInv' /\ OutstandingInv' /\ CommandsAndWaiters'
    BY <1>5 DEF CreateThreadFails, OutstandingInv, CommandsAndWaiters, WaitInv,
       SessionType, ThreadType, AppType, StartingInv
  <2>4. CountInv'
    <3>1. newSlot \in Slots /\ ~ isFree[newSlot] /\ interface = "starting"
      BY <1>5 DEF CreateThreadFails, TableType, StartingInv
    <3>2. Free' = Free \union {newSlot} /\ newSlot \notin Free
      BY <1>5, <3>1 DEF CreateThreadFails, Free, TableType
    <3>3. Cardinality(Free') = Cardinality(Free) + 1
      BY <3>2, SlotsFinite, FS_AddElement
    <3> QED BY <1>5, <3>1, <3>3, SlotsFinite DEF CreateThreadFails, CountInv, SlotsAccounted
  <2> QED BY <2>1, <2>2, <2>3, <2>4
<1>6. CASE Rollback
  <2>1. TableType' /\ ThreadType' /\ AppType'
    BY <1>6 DEF Rollback, TableType, Interface, ThreadType, Threads, AppType, Slots,
       WTPs, SessionType
  <2>2. CountInv'
    BY <1>6 DEF Rollback, CountInv, SlotsAccounted, Free
  <2>3. StartingInv' /\ OneApplicationPerSlot'
    BY <1>6 DEF Rollback, StartingInv, OneApplicationPerSlot, Serves, TableType,
       ThreadType, AppType, Free, WaitInv, SessionType
  <2>4. SessionType' /\ WaitInv' /\ OutstandingInv' /\ CommandsAndWaiters'
    BY <1>6 DEF Rollback, OutstandingInv, CommandsAndWaiters, WaitInv, SessionType,
       ThreadType, AppType, StartingInv
  <2> QED BY <2>1, <2>2, <2>3, <2>4
<1>7. ASSUME NEW a \in Apps, Greet(a) PROVE IInv'
  <2>1. TableType' /\ ThreadType' /\ AppType'
    BY <1>7 DEF Greet, TableType, Interface, ThreadType, Threads, AppType, Slots, WTPs,
       SessionType
  <2>2. CountInv'
    BY <1>7 DEF Greet, CountInv, SlotsAccounted, Free
  <2>3. StartingInv' /\ OneApplicationPerSlot'
    BY <1>7 DEF Greet, StartingInv, OneApplicationPerSlot, Serves, TableType,
       ThreadType, AppType, Free, WaitInv, SessionType
  <2>4. SessionType' /\ WaitInv' /\ OutstandingInv' /\ CommandsAndWaiters'
    BY <1>7 DEF Greet, OutstandingInv, CommandsAndWaiters, WaitInv, SessionType,
       ThreadType, AppType, StartingInv
  <2> QED BY <2>1, <2>2, <2>3, <2>4
<1>8. ASSUME NEW a \in Apps, Return(a) PROVE IInv'
  <2>1. TableType' /\ ThreadType' /\ AppType'
    BY <1>8 DEF Return, Ends, TableType, Interface, ThreadType, Threads, AppType, Slots,
       WTPs, SessionType
  <2>2. CountInv'
    BY <1>8 DEF Return, Ends, CountInv, SlotsAccounted, Free
  <2>3. StartingInv' /\ OneApplicationPerSlot'
    BY <1>8 DEF Return, Ends, StartingInv, OneApplicationPerSlot, Serves, TableType,
       ThreadType, AppType, Free, WaitInv, SessionType
  <2>4. SessionType' /\ WaitInv' /\ OutstandingInv' /\ CommandsAndWaiters'
    BY <1>8 DEF Return, Ends, OutstandingInv, CommandsAndWaiters, WaitInv, SessionType,
       ThreadType, AppType, StartingInv
  <2> QED BY <2>1, <2>2, <2>3, <2>4
<1>9. ASSUME NEW a \in Apps, QuitManage(a) PROVE IInv'
  <2>1. TableType' /\ ThreadType' /\ AppType'
    BY <1>9 DEF QuitManage, Ends, TableType, Interface, ThreadType, Threads, AppType,
       Slots, WTPs, SessionType
  <2>2. StartingInv' /\ OneApplicationPerSlot'
    BY <1>9 DEF QuitManage, Ends, StartingInv, OneApplicationPerSlot, Serves, TableType,
       ThreadType, AppType, Free, WaitInv, SessionType
  <2>3. SessionType' /\ WaitInv' /\ OutstandingInv' /\ CommandsAndWaiters'
    BY <1>9 DEF QuitManage, Ends, OutstandingInv, CommandsAndWaiters, WaitInv,
       SessionType, ThreadType, AppType, StartingInv
  <2>4. CountInv'
    <3>1. slot[a] \in Slots /\ ~ isFree[slot[a]]
      BY <1>9 DEF QuitManage, AppType, OneApplicationPerSlot, Serves
    <3>2. Free' = Free \union {slot[a]} /\ slot[a] \notin Free
      BY <1>9, <3>1 DEF QuitManage, Free, TableType
    <3>3. Cardinality(Free') = Cardinality(Free) + 1
      BY <3>2, SlotsFinite, FS_AddElement
    <3> QED BY <1>9, <3>3, SlotsFinite DEF QuitManage, CountInv, SlotsAccounted
  <2> QED BY <2>1, <2>2, <2>3, <2>4
<1>10. ASSUME NEW a \in Apps, EndCommand(a) PROVE IInv'
  <2>1. TableType' /\ ThreadType' /\ AppType'
    BY <1>10 DEF EndCommand, TableType, Interface, ThreadType, Threads, AppType, Slots,
       WTPs, SessionType
  <2>2. CountInv'
    BY <1>10 DEF EndCommand, CountInv, SlotsAccounted, Free
  <2>3. StartingInv' /\ OneApplicationPerSlot'
    BY <1>10 DEF EndCommand, StartingInv, OneApplicationPerSlot, Serves, TableType,
       ThreadType, AppType, Free, WaitInv, SessionType
  <2>4. SessionType' /\ WaitInv' /\ OutstandingInv' /\ CommandsAndWaiters'
    BY <1>10 DEF EndCommand, OutstandingInv, CommandsAndWaiters, WaitInv, SessionType,
       ThreadType, AppType, StartingInv
  <2> QED BY <2>1, <2>2, <2>3, <2>4
<1>s. ASSUME NEW a \in Apps, NEW w \in WTPs, thread[a] \in {"serving", "released"},
             all' \in [Apps -> BOOLEAN], SetValues(a, w), UNCHANGED <<tableVars, slot>>
      PROVE  IInv'
  <2>1. TableType' /\ ThreadType' /\ AppType' /\ CountInv'
    BY <1>s DEF SetValues, TableType, ThreadType, Threads, AppType, CountInv,
               SlotsAccounted, Free
  <2>2. SessionType'
    BY <1>s DEF SetValues, SessionType, AppType
  <2>3. StartingInv' /\ OneApplicationPerSlot'
    BY <1>s DEF SetValues, StartingInv, OneApplicationPerSlot, Serves, ThreadType
  <2>4. \A v \in WTPs : a \notin waiters[v]
    BY <1>s DEF WaitInv
  <2>5. /\ \A v \in WTPs \ {w} : UNCHANGED <<waiters[v], contended[v], applicationIndex[v],
                                           interfaceCommand[v], interfaceCommandProgress[v],
                                           session[v], outstanding[v]>>
        /\ UNCHANGED <<session, outstanding>>
        /\ waiters'[w] = waiters[w] \union {a} /\ applicationIndex'[w] = slot[a]
        /\ interfaceCommand'[w] = a
        /\ contended'[w] = (contended[w] \/ waiters[w] # {})
        /\ \A b \in Apps \ {a} : thread'[b] = thread[b] /\ target'[b] = target[b]
        /\ thread'[a] = "waiting" /\ target'[a] = w /\ slot' = slot
    BY <1>s DEF SetValues, SessionType, ThreadType, AppType
  <2>6. ~ contended'[w] => waiters'[w] = {a} /\ ~ contended[w] /\ outstanding[w] = None
    BY <2>5 DEF OutstandingInv
  <2>7. WaitInv'
    <3> SUFFICES ASSUME NEW v \in WTPs
                 PROVE  /\ \A b \in waiters'[v] : thread'[b] = "waiting" /\ target'[b] = v
                        /\ ~ contended'[v] =>
                             \A b \in waiters'[v] : waiters'[v] = {b} /\ applicationIndex'[v] = slot'[b]
      BY DEF WaitInv
    <3>1. CASE v = w
      BY <3>1, <2>5, <2>6 DEF WaitInv, SessionType
    <3>2. CASE v # w
      BY <3>2, <2>4, <2>5 DEF WaitInv, SessionType
    <3> QED BY <3>1, <3>2
  <2>8. OutstandingInv' /\ CommandsAndWaiters'
    <3> SUFFICES ASSUME NEW v \in WTPs
                 PROVE  /\ outstanding'[v] # None =>
                             /\ session'[v] = "open"
                             /\ ~ contended'[v] => outstanding'[v] \in waiters'[v]
                                                    /\ interfaceCommand'[v] = None
                        /\ session'[v] = "open" /\ ~ contended'[v] =>
                             /\ interfaceCommand'[v] # None => interfaceCommand'[v] \in waiters'[v]
                             /\ \A b \in waiters'[v] :
                                  interfaceCommand'[v] = b \/ interfaceCommandProgress'[v]
      BY DEF OutstandingInv, CommandsAndWaiters
    <3>1. CASE v = w
      BY <3>1, <2>5, <2>6 DEF OutstandingInv
    <3>2. CASE v # w
      BY <3>2, <2>5 DEF OutstandingInv, CommandsAndWaiters
    <3> QED BY <3>1, <3>2
  <2> QED BY <2>1, <2>2, <2>3, <2>7, <2>8
<1>11. ASSUME NEW a \in Apps, NEW w \in WTPs, CommandOne(a, w) PROVE IInv'
  BY <1>11, <1>s DEF CommandOne, AppType
<1>12. ASSUME NEW a \in Apps, NEW w \in WTPs, CommandAll(a, w) PROVE IInv'
  BY <1>12, <1>s DEF CommandAll, AppType
<1>13. ASSUME NEW w \in WTPs, ClaimSlot(w) PROVE IInv'
  <2>1. /\ TableType' /\ ThreadType' /\ AppType' /\ CountInv'
        /\ StartingInv' /\ OneApplicationPerSlot'
    BY <1>13 DEF ClaimSlot, TableType, ThreadType, Threads, AppType, CountInv,
       SlotsAccounted, Free, StartingInv, OneApplicationPerSlot, Serves
  <2>2. SessionType'
    BY <1>13 DEF ClaimSlot, SessionType, Sessions, AppType
  <2>3. WaitInv' /\ OutstandingInv' /\ CommandsAndWaiters'
    BY <1>13 DEF ClaimSlot, OutstandingInv, CommandsAndWaiters, WaitInv, SessionType,
       ThreadType, AppType, StartingInv
  <2> QED BY <2>1, <2>2, <2>3
<1>14. ASSUME NEW w \in WTPs, StartSession(w) PROVE IInv'
  <2>1. /\ TableType' /\ ThreadType' /\ AppType' /\ CountInv'
        /\ StartingInv' /\ OneApplicationPerSlot'
    BY <1>14 DEF StartSession, TableType, ThreadType, Threads, AppType, CountInv,
       SlotsAccounted, Free, StartingInv, OneApplicationPerSlot, Serves
  <2>2. SessionType'
    BY <1>14 DEF StartSession, SessionType, Sessions, AppType
  <2>3. WaitInv' /\ OutstandingInv' /\ CommandsAndWaiters'
    BY <1>14 DEF StartSession, OutstandingInv, CommandsAndWaiters, WaitInv, SessionType,
       ThreadType, AppType, StartingInv
  <2> QED BY <2>1, <2>2, <2>3
<1>15. ASSUME NEW w \in WTPs, TakeCommand(w) PROVE IInv'
  <2>1. /\ TableType' /\ ThreadType' /\ AppType' /\ CountInv'
        /\ StartingInv' /\ OneApplicationPerSlot'
    BY <1>15 DEF TakeCommand, TableType, ThreadType, Threads, AppType, CountInv,
       SlotsAccounted, Free, StartingInv, OneApplicationPerSlot, Serves
  <2>2. SessionType'
    BY <1>15 DEF TakeCommand, SessionType, Sessions, AppType
  <2>3. WaitInv' /\ OutstandingInv' /\ CommandsAndWaiters'
    BY <1>15 DEF TakeCommand, OutstandingInv, CommandsAndWaiters, WaitInv, SessionType,
       ThreadType, AppType, StartingInv
  <2> QED BY <2>1, <2>2, <2>3
<1>16. ASSUME NEW w \in WTPs, CommandFails(w) PROVE IInv'
  <2>1. TableType' /\ AppType' /\ CountInv'
    BY <1>16 DEF CommandFails, SignalComplete, TableType, AppType, CountInv,
       SlotsAccounted, Free
  <2>2. ThreadType'
    BY <1>16 DEF CommandFails, SignalComplete, ThreadType, Threads, SessionType
  <2>3. SessionType'
    BY <1>16 DEF CommandFails, SignalComplete, SessionType, Sessions, AppType
  <2>4. StartingInv' /\ OneApplicationPerSlot'
    BY <1>16 DEF CommandFails, SignalComplete, StartingInv, OneApplicationPerSlot,
       Serves, TableType, ThreadType, AppType, Free, WaitInv, SessionType
  <2>5. WaitInv'
    BY <1>16 DEF CommandFails, SignalComplete, WaitInv, ThreadType, AppType,
       SessionType, StartingInv
  <2>6. OutstandingInv' /\ CommandsAndWaiters'
    BY <1>16 DEF CommandFails, SignalComplete, OutstandingInv, CommandsAndWaiters,
       WaitInv, SessionType, ThreadType
  <2> QED BY <2>1, <2>2, <2>3, <2>4, <2>5, <2>6
<1>17. ASSUME NEW w \in WTPs, ReceiveResponse(w) PROVE IInv'
  <2>1. TableType' /\ AppType' /\ CountInv'
    BY <1>17 DEF ReceiveResponse, SignalComplete, TableType, AppType, CountInv,
       SlotsAccounted, Free
  <2>2. ThreadType'
    BY <1>17 DEF ReceiveResponse, SignalComplete, ThreadType, Threads, SessionType
  <2>3. SessionType'
    BY <1>17 DEF ReceiveResponse, SignalComplete, SessionType, Sessions, AppType
  <2>4. StartingInv' /\ OneApplicationPerSlot'
    BY <1>17 DEF ReceiveResponse, SignalComplete, StartingInv, OneApplicationPerSlot,
       Serves, TableType, ThreadType, AppType, Free, WaitInv, SessionType
  <2>5. WaitInv'
    BY <1>17 DEF ReceiveResponse, SignalComplete, WaitInv, ThreadType, AppType,
       SessionType, StartingInv
  <2>6. OutstandingInv' /\ CommandsAndWaiters'
    BY <1>17 DEF ReceiveResponse, SignalComplete, OutstandingInv, CommandsAndWaiters,
       WaitInv, SessionType, ThreadType
  <2> QED BY <2>1, <2>2, <2>3, <2>4, <2>5, <2>6
<1>18. ASSUME NEW w \in WTPs, ReplaceRequest(w) PROVE IInv'
  <2>1. /\ TableType' /\ ThreadType' /\ AppType' /\ CountInv'
        /\ StartingInv' /\ OneApplicationPerSlot'
    BY <1>18 DEF ReplaceRequest, TableType, ThreadType, Threads, AppType, CountInv,
       SlotsAccounted, Free, StartingInv, OneApplicationPerSlot, Serves
  <2>2. SessionType'
    BY <1>18 DEF ReplaceRequest, SessionType, Sessions, AppType
  <2>3. WaitInv' /\ OutstandingInv' /\ CommandsAndWaiters'
    BY <1>18 DEF ReplaceRequest, OutstandingInv, CommandsAndWaiters, WaitInv,
       SessionType, ThreadType, AppType, StartingInv
  <2> QED BY <2>1, <2>2, <2>3
<1>19. ASSUME NEW w \in WTPs, CloseSession(w) PROVE IInv'
  <2>1. TableType' /\ AppType' /\ CountInv'
    BY <1>19 DEF CloseSession, SignalComplete, TableType, AppType, CountInv,
       SlotsAccounted, Free
  <2>2. ThreadType'
    BY <1>19 DEF CloseSession, SignalComplete, ThreadType, Threads, SessionType
  <2>3. SessionType'
    BY <1>19 DEF CloseSession, SignalComplete, SessionType, Sessions, AppType
  <2>4. StartingInv' /\ OneApplicationPerSlot'
    BY <1>19 DEF CloseSession, SignalComplete, StartingInv, OneApplicationPerSlot,
       Serves, TableType, ThreadType, AppType, Free, WaitInv, SessionType
  <2>5. WaitInv'
    BY <1>19 DEF CloseSession, SignalComplete, WaitInv, ThreadType, AppType,
       SessionType, StartingInv
  <2>6. OutstandingInv' /\ CommandsAndWaiters'
    BY <1>19 DEF CloseSession, SignalComplete, OutstandingInv, CommandsAndWaiters,
       WaitInv, SessionType, ThreadType
  <2> QED BY <2>1, <2>2, <2>3, <2>4, <2>5, <2>6
<1>20. ASSUME NEW w \in WTPs, FreeSlot(w) PROVE IInv'
  <2>1. /\ TableType' /\ ThreadType' /\ AppType' /\ CountInv'
        /\ StartingInv' /\ OneApplicationPerSlot'
    BY <1>20 DEF FreeSlot, TableType, ThreadType, Threads, AppType, CountInv,
       SlotsAccounted, Free, StartingInv, OneApplicationPerSlot, Serves
  <2>2. SessionType'
    BY <1>20 DEF FreeSlot, SessionType, Sessions, AppType
  <2>3. WaitInv' /\ OutstandingInv' /\ CommandsAndWaiters'
    BY <1>20 DEF FreeSlot, OutstandingInv, CommandsAndWaiters, WaitInv, SessionType,
       ThreadType, AppType, StartingInv
  <2> QED BY <2>1, <2>2, <2>3
<1>21. CASE UNCHANGED vars
  <2>1. /\ TableType' /\ ThreadType' /\ AppType' /\ CountInv'
        /\ StartingInv' /\ OneApplicationPerSlot'
    BY <1>21 DEF vars, TableType, ThreadType, Threads, AppType, CountInv,
       SlotsAccounted, Free, StartingInv, OneApplicationPerSlot, Serves
  <2>2. SessionType' /\ WaitInv' /\ OutstandingInv' /\ CommandsAndWaiters'
    BY <1>21 DEF vars, OutstandingInv, CommandsAndWaiters, WaitInv, SessionType,
       ThreadType, AppType, StartingInv
  <2> QED BY <2>1, <2>2
<1> QED
  BY <1>1, <1>2, <1>3, <1>4, <1>5, <1>6, <1>7, <1>8, <1>9, <1>10, <1>11, <1>12, <1>13,
     <1>14, <1>15, <1>16, <1>17, <1>18, <1>19, <1>20, <1>21
  DEF Next, CWInterface, CWManageApplication, CWManageWTP

-----------------------------------------------------------------------------
(* The inductive invariant holds in every state of the interface. *)
THEOREM Invariance == Spec => []IInv
BY InitInv, NextInv, PTL DEF Spec

(* The interface keeps its types: the count of free slots stays within the     *)
(* table, and every thread uses a slot of it.                                  *)
THEOREM TypeCorrect == Spec => []TypeOK
<1>1. IInv => TypeOK
  <2> SUFFICES ASSUME IInv PROVE TypeOK
    OBVIOUS
  <2>1. numSocketFree \in 0 .. MAX_APPS_CONNECTED_TO_AC
    BY SlotsFinite DEF IInv, CountInv, SlotsAccounted
  <2> QED BY <2>1 DEF IInv, TableType, ThreadType, AppType, SessionType, TypeOK
<1> QED BY <1>1, Invariance, PTL

(* The count never promises a slot that the table does not have, so that the    *)
(* search of CWInterface finds one; and no slot is given to a second application *)
(* while the first one is served.                                               *)
THEOREM TableIsConsistent == Spec => []TableConsistent
<1>1. IInv => TableConsistent
  BY DEF IInv, CountInv, TableConsistent
<1> QED BY <1>1, Invariance, PTL

(* Without contention a queued command has an application that waits, and who   *)
(* waits has a command that is queued or in progress.                           *)
THEOREM WaitersAreOwed == Spec => []CommandsAndWaiters
<1>1. IInv => CommandsAndWaiters
  BY DEF IInv
<1> QED BY <1>1, Invariance, PTL

(* Without contention an answer is written to the socket of the application     *)
(* that gave the command and still waits for it.                                *)
THEOREM AnswersGoHome == Spec => AnswerGoesHome
<1> DEFINE Home(w) == /\ appSocket[applicationIndex[w]] = outstanding[w]
                      /\ thread[outstanding[w]] = "waiting"
<1>1. ASSUME IInv, NEW w \in WTPs, outstanding[w] # None, ~ contended[w] PROVE Home(w)
  <2>1. outstanding[w] \in waiters[w] /\ outstanding[w] \in Apps
    BY <1>1 DEF IInv, OutstandingInv, SessionType
  <2>2. applicationIndex[w] = slot[outstanding[w]] /\ thread[outstanding[w]] = "waiting"
    BY <1>1, <2>1 DEF IInv, WaitInv
  <2>3. appSocket[slot[outstanding[w]]] = outstanding[w]
    BY <2>1, <2>2, <1>1 DEF IInv, OneApplicationPerSlot, Serves
  <2> QED BY <2>2, <2>3
<1>2. IInv /\ [Next]_vars =>
        [\A w \in WTPs : ReceiveResponse(w) => contended[w] \/ Home(w)]_vars
  BY <1>1 DEF ReceiveResponse
<1> QED BY <1>2, Invariance, PTL DEF Spec, AnswerGoesHome

-----------------------------------------------------------------------------
(* An application is forgotten when the session it waits for does not run any  *)
(* more, or waits in a condition variable that a later session replaced.  A    *)
(* command that is set but not yet taken when the session closes leads there:  *)
(* _CWCloseThread ends only a command in progress (ACMainLoop.c:737), and      *)
(* StartSession destroys the condition.                                        *)
Forgotten(a) ==
  /\ thread[a] = "waiting"
  /\ \A w \in WTPs : a \in waiters[w] => session[w] # "open"

(* Nobody ever signals it: not the next session of the WTP, nor the sessions   *)
(* of other WTPs, and its thread and its slot of the table are lost.           *)
ForgottenForEver == [][ \A a \in Apps : Forgotten(a) => Forgotten(a)' ]_vars

(* An application whose command no open session holds any more waits for ever. *)
THEOREM UntakenCommandIsForgotten == Spec => ForgottenForEver
<1>1. ASSUME IInv, [Next]_vars, NEW a \in Apps, Forgotten(a)
      PROVE  Forgotten(a)'
  <2>1. /\ thread \in [Apps -> Threads] /\ session \in [WTPs -> Sessions]
        /\ waiters \in [WTPs -> SUBSET Apps] /\ StartingInv
        /\ thread[a] = "waiting" /\ \A w \in WTPs : a \in waiters[w] => session[w] # "open"
    BY <1>1 DEF IInv, ThreadType, SessionType, Forgotten
  <2>2. ASSUME NEW w \in WTPs, session[w] = "open",
               SignalComplete(w) \/ UNCHANGED <<waiters, thread>>
        PROVE  thread'[a] = "waiting" /\ \A v \in WTPs : a \in waiters'[v] => a \in waiters[v]
    <3>1. CASE UNCHANGED <<waiters, thread>>
      BY <2>1, <3>1
    <3>2. ASSUME NEW b \in waiters[w], waiters' = [waiters EXCEPT ![w] = @ \ {b}],
                 thread' = [thread EXCEPT ![b] = "released"]
          PROVE  thread'[a] = "waiting" /\ \A v \in WTPs : a \in waiters'[v] => a \in waiters[v]
      <4>1. b # a
        BY <2>1, <2>2
      <4> QED BY <2>1, <3>2, <4>1
    <3> QED BY <2>2, <3>1, <3>2 DEF SignalComplete
  <2>3. CASE AcceptFails \/ CreateMutexFails \/ CreateThreadFails \/ Rollback
    BY <2>1, <2>3 DEF AcceptFails, CreateMutexFails, CreateThreadFails, Rollback,
       appVars, sessionVars, Forgotten
  <2>4. ASSUME NEW b \in Apps, Accept(b) PROVE Forgotten(a)'
    BY <2>1, <2>4 DEF Accept, appVars, sessionVars, Forgotten
  <2>5. CASE CreateThread
    <3>1. appSocket[newSlot] # a
      BY <2>1, <2>5 DEF CreateThread, StartingInv
    <3>2. /\ thread' = [thread EXCEPT ![appSocket[newSlot]] = "new"]
          /\ UNCHANGED <<waiters, session>>
      BY <2>5 DEF CreateThread, sessionVars
    <3> QED BY <2>1, <3>1, <3>2 DEF Forgotten
  <2>6. ASSUME NEW b \in Apps, Greet(b) \/ Return(b) \/ QuitManage(b) \/ EndCommand(b)
        PROVE  Forgotten(a)'
    <3>1. b # a /\ \E t : thread' = [thread EXCEPT ![b] = t]
      BY <2>1, <2>6 DEF Greet, Return, QuitManage, EndCommand, Ends
    <3>2. UNCHANGED <<waiters, session>>
      BY <2>6 DEF Greet, Return, QuitManage, EndCommand, sessionVars
    <3> QED BY <2>1, <3>1, <3>2 DEF Forgotten
  <2>7. ASSUME NEW b \in Apps, NEW w \in WTPs, CommandOne(b, w) \/ CommandAll(b, w)
        PROVE  Forgotten(a)'
    <3>1. b # a
      BY <2>1, <2>7 DEF CommandOne, CommandAll
    <3>2. /\ waiters' = [waiters EXCEPT ![w] = @ \union {b}]
          /\ thread' = [thread EXCEPT ![b] = "waiting"] /\ session' = session
      BY <2>7 DEF CommandOne, CommandAll, SetValues
    <3> QED BY <2>1, <3>1, <3>2 DEF Forgotten
  <2>8. ASSUME NEW w \in WTPs, ClaimSlot(w) \/ FreeSlot(w) PROVE Forgotten(a)'
    <3>1. \E s : s # "open" /\ session' = [session EXCEPT ![w] = s]
      BY <2>8 DEF ClaimSlot, FreeSlot
    <3>2. UNCHANGED <<waiters, thread>>
      BY <2>8 DEF ClaimSlot, FreeSlot, appVars
    <3> QED BY <2>1, <3>1, <3>2 DEF Forgotten
  <2>9. ASSUME NEW w \in WTPs, StartSession(w) PROVE Forgotten(a)'
    <3>1. /\ session' = [session EXCEPT ![w] = "open"]
          /\ waiters' = [waiters EXCEPT ![w] = {}] /\ thread' = thread
      BY <2>9 DEF StartSession, appVars
    <3> QED BY <2>1, <3>1 DEF Forgotten
  <2>10. ASSUME NEW w \in WTPs, TakeCommand(w) \/ ReplaceRequest(w) PROVE Forgotten(a)'
    BY <2>1, <2>10 DEF TakeCommand, ReplaceRequest, appVars, Forgotten
  <2>11. ASSUME NEW w \in WTPs, CommandFails(w) \/ ReceiveResponse(w) PROVE Forgotten(a)'
    <3>1. /\ session[w] = "open" /\ session' = session
          /\ SignalComplete(w) \/ UNCHANGED <<waiters, thread>>
      BY <2>11 DEF CommandFails, ReceiveResponse
    <3>2. thread'[a] = "waiting" /\ \A v \in WTPs : a \in waiters'[v] => a \in waiters[v]
      BY <2>2, <3>1
    <3> QED BY <2>1, <3>1, <3>2 DEF Forgotten
  <2>12. ASSUME NEW w \in WTPs, CloseSession(w) PROVE Forgotten(a)'
    <3>1. /\ session[w] = "open" /\ session' = [session EXCEPT ![w] = "closing"]
          /\ SignalComplete(w) \/ UNCHANGED <<waiters, thread>>
      BY <2>12 DEF CloseSession
    <3>2. thread'[a] = "waiting" /\ \A v \in WTPs : a \in waiters'[v] => a \in waiters[v]
      BY <2>2, <3>1
    <3> QED BY <2>1, <3>1, <3>2 DEF Forgotten
  <2>13. CASE UNCHANGED vars
    BY <2>1, <2>13 DEF vars, appVars, sessionVars, Forgotten
  <2> QED BY <1>1, <2>3, <2>4, <2>5, <2>6, <2>7, <2>8, <2>9, <2>10, <2>11, <2>12, <2>13
          DEF Next, CWInterface, CWManageApplication, CWManageWTP
<1>2. IInv /\ [Next]_vars => [ \A a \in Apps : Forgotten(a) => Forgotten(a)' ]_vars
  BY <1>1
<1> QED BY <1>2, Invariance, PTL DEF Spec, ForgottenForEver
=============================================================================
