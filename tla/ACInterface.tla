---------------------------- MODULE ACInterface ----------------------------
(***************************************************************************)
(* The application interface of the AC (src/ACInterface.c): the accepting  *)
(* thread CWInterface with the table of application sockets, one thread    *)
(* CWManageApplication per application, and what the WTPs' sessions do     *)
(* with the commands: take them (ACMainLoop.c:598), forward the answer to  *)
(* an application and end its wait (ACRunState.c), release it when they    *)
(* close.                                                                  *)
(*                                                                         *)
(* A command is a call of CWOFDMSetValues, CWVendorSetValues or            *)
(* CWWumSetValues, which wait ONCE for interfaceComplete: whoever is       *)
(* signalled takes his command for done.  A command for all WTPs calls it  *)
(* for one WTP after the other.  Commands are submitted and served under   *)
(* interfaceMutex, each in one step: the session that unlocks this mutex   *)
(* without holding it (ACMainLoop.c:745) takes no command any more.        *)
(***************************************************************************)
EXTENDS Integers, FiniteSets

CONSTANTS
  Apps,          \* connections of applications
  None,          \* no application
  MAX_APPS_CONNECTED_TO_AC,
  CW_MAX_WTP

ASSUME InterfaceAssumption ==
  /\ None \notin Apps
  /\ MAX_APPS_CONNECTED_TO_AC \in Nat \ {0}
  /\ CW_MAX_WTP \in Nat \ {0}

Slots == 0 .. MAX_APPS_CONNECTED_TO_AC - 1
WTPs == 0 .. CW_MAX_WTP - 1

VARIABLES
  interface,      \* where CWInterface is
  newSlot,        \* the slot it claimed last, argPtr->index
  isFree, numSocketFree,
  appSocket,      \* the connection in a slot
  thread,         \* what the thread of an application does
  slot,           \* its socketIndex
  target, all,    \* the WTP of its command; it is for all WTPs
  session,        \* life of the slot of a WTP
  interfaceCommand,  \* the application whose command is queued, None for NO_CMD
  interfaceCommandProgress,
  applicationIndex,
  waiters,        \* applications in the wait for interfaceComplete
  outstanding,    \* history: whose request awaits its response
  contended       \* history: two applications commanded this session at once

tableVars == <<interface, newSlot, isFree, numSocketFree, appSocket>>
appVars == <<thread, slot, target, all>>
sessionVars == <<session, interfaceCommand, interfaceCommandProgress, applicationIndex,
                 waiters, outstanding, contended>>
vars == <<tableVars, appVars, sessionVars>>

\* accept; starting: a slot is claimed, its thread not yet created; rollback: the
\* thread could not be created; ended, endedLocked: CWInterface has returned (with
\* numSocketFreeMutex held).
Interface == {"accept", "starting", "rollback", "ended", "endedLocked"}

\* out: not connected; new: its thread runs; serving: reads commands; waiting:
\* in a command; released: signalled; gone: its thread returned with its slot.
Threads == {"out", "new", "serving", "waiting", "released", "gone"}

\* claimed: isNotFree is set, the session thread has not initialised the slot.
Sessions == {"free", "claimed", "open", "closing"}

Init ==
  /\ interface = "accept" /\ newSlot = 0
  /\ isFree = [s \in Slots |-> TRUE]
  /\ numSocketFree = MAX_APPS_CONNECTED_TO_AC
  /\ appSocket = [s \in Slots |-> None]
  /\ thread = [a \in Apps |-> "out"]
  /\ slot = [a \in Apps |-> 0]
  /\ target = [a \in Apps |-> 0] /\ all = [a \in Apps |-> FALSE]
  /\ session = [w \in WTPs |-> "free"]
  /\ interfaceCommand = [w \in WTPs |-> None]
  /\ interfaceCommandProgress = [w \in WTPs |-> FALSE]
  /\ applicationIndex = [w \in WTPs |-> 0]
  /\ waiters = [w \in WTPs |-> {}]
  /\ outstanding = [w \in WTPs |-> None]
  /\ contended = [w \in WTPs |-> FALSE]

-----------------------------------------------------------------------------
\* Definitions named <Operator>_<bug> are mutants of the operator that follows:
\* Next uses none of them.

isNotFree(w) == session[w] # "free"

Free == {s \in Slots : isFree[s]}

Accept_NotCounted(a) ==
  /\ interface = "accept"
  /\ thread[a] = "out"
  /\ numSocketFree > 0
  /\ \E s \in Free :
       /\ newSlot' = s
       /\ isFree' = [isFree EXCEPT ![s] = FALSE]
       /\ appSocket' = [appSocket EXCEPT ![s] = a]
  /\ interface' = "starting"
  /\ UNCHANGED <<numSocketFree, appVars, sessionVars>>

(* Accept: the first free slot is claimed for the connection. *)
Accept(a) ==
  /\ interface = "accept"
  /\ thread[a] = "out"
  /\ numSocketFree > 0
  /\ \E s \in Free :
       /\ \A r \in Free : s <= r
       /\ newSlot' = s
       /\ isFree' = [isFree EXCEPT ![s] = FALSE]
       /\ appSocket' = [appSocket EXCEPT ![s] = a]
  /\ numSocketFree' = numSocketFree - 1
  /\ interface' = "starting"
  /\ UNCHANGED <<appVars, sessionVars>>

(* Out of memory for the argument: CWInterface returns with the mutex held. *)
AcceptFails ==
  /\ interface = "accept"
  /\ numSocketFree > 0
  /\ interface' = "endedLocked"
  /\ UNCHANGED <<newSlot, isFree, numSocketFree, appSocket, appVars, sessionVars>>

(* The slot's mutex cannot be created: CWInterface returns. *)
CreateMutexFails ==
  /\ interface = "starting"
  /\ interface' = "ended"
  /\ UNCHANGED <<newSlot, isFree, numSocketFree, appSocket, appVars, sessionVars>>

CreateThread ==
  /\ interface = "starting"
  /\ interface' = "accept"
  /\ thread' = [thread EXCEPT ![appSocket[newSlot]] = "new"]
  /\ slot' = [slot EXCEPT ![appSocket[newSlot]] = newSlot]
  /\ UNCHANGED <<newSlot, isFree, numSocketFree, appSocket, target, all, sessionVars>>

(* The thread cannot be created: the slot is free before the count is. *)
CreateThreadFails ==
  /\ interface = "starting"
  /\ interface' = "rollback"
  /\ isFree' = [isFree EXCEPT ![newSlot] = TRUE]
  /\ UNCHANGED <<newSlot, numSocketFree, appSocket, appVars, sessionVars>>

Rollback_NotCounted ==
  /\ interface = "rollback"
  /\ interface' = "accept"
  /\ UNCHANGED <<newSlot, isFree, numSocketFree, appSocket, appVars, sessionVars>>

Rollback ==
  /\ interface = "rollback"
  /\ interface' = "accept"
  /\ numSocketFree' = numSocketFree + 1
  /\ UNCHANGED <<newSlot, isFree, appSocket, appVars, sessionVars>>

-----------------------------------------------------------------------------
(* CWManageApplication: CONNECTION_OK is written, or the thread returns. *)
Greet(a) ==
  /\ thread[a] = "new"
  /\ thread' = [thread EXCEPT ![a] = "serving"]
  /\ UNCHANGED <<tableVars, slot, target, all, sessionVars>>

(* The locals of a thread go with it. *)
Ends(a, t) ==
  /\ thread' = [thread EXCEPT ![a] = t]
  /\ slot' = [slot EXCEPT ![a] = 0]
  /\ target' = [target EXCEPT ![a] = 0]
  /\ all' = [all EXCEPT ![a] = FALSE]

(* The thread returns with its slot: CONNECTION_OK cannot be written, or it is *)
(* out of memory for a command.                                                *)
Return(a) ==
  /\ thread[a] \in {"new", "serving"}
  /\ Ends(a, "gone")
  /\ UNCHANGED <<tableVars, sessionVars>>

(* A quit, a read error, or an index that is not valid. *)
QuitManage(a) ==
  /\ thread[a] = "serving"
  /\ interface # "endedLocked"
  /\ isFree' = [isFree EXCEPT ![slot[a]] = TRUE]
  /\ numSocketFree' = numSocketFree + 1
  /\ Ends(a, "out")
  /\ UNCHANGED <<interface, newSlot, appSocket, sessionVars>>

(* CWOFDMSetValues, CWVendorSetValues, CWWumSetValues. *)
SetValues(a, w) ==
  /\ interfaceCommand' = [interfaceCommand EXCEPT ![w] = a]
  /\ applicationIndex' = [applicationIndex EXCEPT ![w] = slot[a]]
  /\ waiters' = [waiters EXCEPT ![w] = @ \union {a}]
  /\ contended' = [contended EXCEPT ![w] = @ \/ waiters[w] # {}]
  /\ thread' = [thread EXCEPT ![a] = "waiting"]
  /\ target' = [target EXCEPT ![a] = w]
  /\ UNCHANGED <<session, interfaceCommandProgress, outstanding>>

CommandOne(a, w) ==
  /\ thread[a] = "serving"
  /\ isNotFree(w)
  /\ all' = [all EXCEPT ![a] = FALSE]
  /\ SetValues(a, w)
  /\ UNCHANGED <<tableVars, slot>>

(* The loop over all WTPs, from its start or after the wait for one of them. *)
CommandAll(a, w) ==
  /\ \/ thread[a] = "serving" /\ \A v \in WTPs : v < w => ~ isNotFree(v)
     \/ /\ thread[a] = "released" /\ all[a] /\ w > target[a]
        /\ \A v \in target[a] + 1 .. w - 1 : ~ isNotFree(v)
  /\ isNotFree(w)
  /\ all' = [all EXCEPT ![a] = TRUE]
  /\ SetValues(a, w)
  /\ UNCHANGED <<tableVars, slot>>

EndCommand(a) ==
  /\ thread[a] = "released"
  /\ all[a] => \A v \in WTPs : v > target[a] => ~ isNotFree(v)
  /\ thread' = [thread EXCEPT ![a] = "serving"]
  /\ target' = [target EXCEPT ![a] = 0]
  /\ all' = [all EXCEPT ![a] = FALSE]
  /\ UNCHANGED <<tableVars, slot, sessionVars>>

-----------------------------------------------------------------------------
(* The session of a WTP.  A signal on interfaceComplete ends one wait. *)
SignalComplete(w) ==
  \/ waiters[w] = {} /\ UNCHANGED <<waiters, thread>>
  \/ \E a \in waiters[w] :
       /\ waiters' = [waiters EXCEPT ![w] = @ \ {a}]
       /\ thread' = [thread EXCEPT ![a] = "released"]

ClaimSlot(w) ==
  /\ session[w] = "free"
  /\ session' = [session EXCEPT ![w] = "claimed"]
  /\ UNCHANGED <<tableVars, appVars, interfaceCommand, interfaceCommandProgress,
                 applicationIndex, waiters, outstanding, contended>>

(* The session destroys and creates its mutex and its conditions: whoever still *)
(* waits for the old ones is not signalled any more.                            *)
StartSession(w) ==
  /\ session[w] = "claimed"
  /\ session' = [session EXCEPT ![w] = "open"]
  /\ interfaceCommand' = [interfaceCommand EXCEPT ![w] = None]
  /\ interfaceCommandProgress' = [interfaceCommandProgress EXCEPT ![w] = FALSE]
  /\ waiters' = [waiters EXCEPT ![w] = {}]
  /\ contended' = [contended EXCEPT ![w] = FALSE]
  /\ UNCHANGED <<tableVars, appVars, applicationIndex, outstanding>>

TakeCommand(w) ==
  /\ session[w] = "open"
  /\ interfaceCommand[w] # None
  /\ interfaceCommand' = [interfaceCommand EXCEPT ![w] = None]
  /\ interfaceCommandProgress' = [interfaceCommandProgress EXCEPT ![w] = TRUE]
  /\ outstanding' = [outstanding EXCEPT ![w] = interfaceCommand[w]]
  /\ UNCHANGED <<tableVars, appVars, session, applicationIndex, waiters, contended>>

(* Its request cannot be assembled or sent. *)
CommandFails_Silently(w) ==
  /\ session[w] = "open"
  /\ interfaceCommand[w] # None
  /\ interfaceCommand' = [interfaceCommand EXCEPT ![w] = None]
  /\ outstanding' = [outstanding EXCEPT ![w] = None]
  /\ UNCHANGED <<tableVars, appVars, session, interfaceCommandProgress, applicationIndex,
                 waiters, contended>>

CommandFails(w) ==
  /\ session[w] = "open"
  /\ interfaceCommand[w] # None
  /\ interfaceCommand' = [interfaceCommand EXCEPT ![w] = None]
  /\ \E o \in {outstanding[w], None} : outstanding' = [outstanding EXCEPT ![w] = o]
  /\ SignalComplete(w)
  /\ UNCHANGED <<tableVars, slot, target, all, session, interfaceCommandProgress,
                 applicationIndex, contended>>

(* The response of the outstanding request: the answer is written to the socket *)
(* of applicationIndex, then a wait is ended if a command is in progress.       *)
ReceiveResponse(w) ==
  /\ session[w] = "open"
  /\ outstanding[w] # None
  /\ outstanding' = [outstanding EXCEPT ![w] = None]
  /\ interfaceCommandProgress' = [interfaceCommandProgress EXCEPT ![w] = FALSE]
  /\ IF interfaceCommandProgress[w] THEN SignalComplete(w) ELSE UNCHANGED <<waiters, thread>>
  /\ UNCHANGED <<tableVars, slot, target, all, session, interfaceCommand, applicationIndex,
                 contended>>

(* A Station Configuration Request takes the place of the outstanding request. *)
ReplaceRequest(w) ==
  /\ session[w] = "open"
  /\ outstanding[w] # None
  /\ outstanding' = [outstanding EXCEPT ![w] = None]
  /\ UNCHANGED <<tableVars, appVars, session, interfaceCommand, interfaceCommandProgress,
                 applicationIndex, waiters, contended>>

CloseSession_KeepsRequest(w) ==
  /\ session[w] = "open"
  /\ session' = [session EXCEPT ![w] = "closing"]
  /\ interfaceCommandProgress' = [interfaceCommandProgress EXCEPT ![w] = FALSE]
  /\ IF interfaceCommandProgress[w] THEN SignalComplete(w) ELSE UNCHANGED <<waiters, thread>>
  /\ UNCHANGED <<tableVars, slot, target, all, interfaceCommand, applicationIndex,
                 outstanding, contended>>

(* _CWCloseThread: only a command in progress is ended. *)
CloseSession(w) ==
  /\ session[w] = "open"
  /\ session' = [session EXCEPT ![w] = "closing"]
  /\ outstanding' = [outstanding EXCEPT ![w] = None]
  /\ interfaceCommandProgress' = [interfaceCommandProgress EXCEPT ![w] = FALSE]
  /\ IF interfaceCommandProgress[w] THEN SignalComplete(w) ELSE UNCHANGED <<waiters, thread>>
  /\ UNCHANGED <<tableVars, slot, target, all, interfaceCommand, applicationIndex, contended>>

FreeSlot(w) ==
  /\ session[w] = "closing"
  /\ session' = [session EXCEPT ![w] = "free"]
  /\ UNCHANGED <<tableVars, appVars, interfaceCommand, interfaceCommandProgress,
                 applicationIndex, waiters, outstanding, contended>>

-----------------------------------------------------------------------------
CWInterface ==
  \/ \E a \in Apps : Accept(a)
  \/ AcceptFails \/ CreateMutexFails \/ CreateThread \/ CreateThreadFails \/ Rollback

CWManageApplication(a) ==
  \/ Greet(a) \/ Return(a) \/ QuitManage(a) \/ EndCommand(a)
  \/ \E w \in WTPs : CommandOne(a, w) \/ CommandAll(a, w)

CWManageWTP(w) ==
  \/ ClaimSlot(w) \/ StartSession(w) \/ TakeCommand(w) \/ CommandFails(w)
  \/ ReceiveResponse(w) \/ ReplaceRequest(w) \/ CloseSession(w) \/ FreeSlot(w)

Next ==
  \/ CWInterface
  \/ \E a \in Apps : CWManageApplication(a)
  \/ \E w \in WTPs : CWManageWTP(w)

Spec == Init /\ [][Next]_vars

-----------------------------------------------------------------------------
(* Every variable has its type. *)
TypeOK ==
  /\ interface \in Interface /\ newSlot \in Slots
  /\ isFree \in [Slots -> BOOLEAN]
  /\ numSocketFree \in 0 .. MAX_APPS_CONNECTED_TO_AC
  /\ appSocket \in [Slots -> Apps \union {None}]
  /\ thread \in [Apps -> Threads]
  /\ slot \in [Apps -> Slots] /\ target \in [Apps -> WTPs] /\ all \in [Apps -> BOOLEAN]
  /\ session \in [WTPs -> Sessions]
  /\ interfaceCommand \in [WTPs -> Apps \union {None}]
  /\ interfaceCommandProgress \in [WTPs -> BOOLEAN]
  /\ applicationIndex \in [WTPs -> Slots]
  /\ waiters \in [WTPs -> SUBSET Apps]
  /\ outstanding \in [WTPs -> Apps \union {None}]
  /\ contended \in [WTPs -> BOOLEAN]

(* The count and the table agree at every instant, but for the slot that a      *)
(* failed thread leaves free before it is counted.  It is what lets CWInterface *)
(* search a slot without testing that it found one: argPtr->index would be      *)
(* uninitialised.                                                               *)
SlotsAccounted ==
  Cardinality(Free) = numSocketFree + (IF interface = "rollback" THEN 1 ELSE 0)

(* The slot of an application that is served is taken, holds its own socket and *)
(* is no other application's: it is not given away while its thread runs.       *)
Serves(a) == thread[a] \in {"new", "serving", "waiting", "released"}

OneApplicationPerSlot ==
  \A a \in Apps : Serves(a) =>
    /\ ~ isFree[slot[a]] /\ appSocket[slot[a]] = a
    /\ \A b \in Apps : Serves(b) /\ slot[b] = slot[a] => b = a

(* The table that the accepting thread and the threads of the applications     *)
(* share is consistent, though they change its two halves under two mutexes.    *)
TableConsistent == SlotsAccounted /\ OneApplicationPerSlot

(* "Forward payload to correct application" (ACRunState.c:192, :768): an answer *)
(* is written to the socket of the application that gave the command, which     *)
(* still waits for it.  Two applications that command one WTP at once break     *)
(* this; nothing else does: not an application that quits while its slot is     *)
(* used again, nor a session that closes and is opened again.                   *)
AnswerGoesHome ==
  [][\A w \in WTPs : ReceiveResponse(w) =>
       contended[w] \/ /\ appSocket[applicationIndex[w]] = outstanding[w]
                       /\ thread[outstanding[w]] = "waiting"]_vars

(* In an open session that one application at a time commands, a queued command *)
(* belongs to an application that waits (the values it points to are not freed  *)
(* yet), and who waits has a command that is queued or in progress: somebody    *)
(* still owes it a signal.                                                      *)
CommandsAndWaiters ==
  \A w \in WTPs : session[w] = "open" /\ ~ contended[w] =>
    /\ interfaceCommand[w] # None => interfaceCommand[w] \in waiters[w]
    /\ \A a \in waiters[w] : interfaceCommand[w] = a \/ interfaceCommandProgress[w]
=============================================================================
