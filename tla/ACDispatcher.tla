---------------------------- MODULE ACDispatcher ----------------------------
(***************************************************************************)
(* The AC's main thread (CWACManageIncomingPacket, CWWTPByAddress) and the *)
(* session threads it creates (CWManageWTP, _CWCloseThread), seen from the *)
(* table gWTPs they share (src/ACMainLoop.c).                              *)
(*                                                                         *)
(* For each datagram the main thread looks for the session of its sender.  *)
(* It appends the datagram to that session's packet list, answers a        *)
(* Discovery Request, or claims a free slot, makes its list and creates a  *)
(* session thread.  What the session does with its packets is the module   *)
(* ACSession; here a session serves its list and closes at any time.       *)
(*                                                                         *)
(* A step is a critical section of gWTPsMutex, gActiveWTPsMutex or of the  *)
(* slot's interfaceMutex, or an access without a lock.                     *)
(***************************************************************************)
EXTENDS Integers, FiniteSets

CONSTANTS
  Addresses,        \* addresses and ports of the WTPs
  Sockets,          \* the sockets of the AC, one per interface
  Unset,            \* an address and a socket that none of them is
  CW_MAX_WTP,       \* number of slots in gWTPs
  gMaxWTPs,         \* AC_MAX_WTPS of config.ac
  MaxStartFailures  \* threads that fail to start (bound of the model)

ASSUME DispatcherAssumption ==
  /\ Unset \notin Addresses \union Sockets
  /\ CW_MAX_WTP \in Nat \ {0}
  /\ gMaxWTPs \in Nat
  /\ MaxStartFailures \in Nat

VARIABLES
  main,           \* where the main thread is
  sender,         \* sender of the datagram it has, and the socket it came by
  slot,           \* the slot it works on
  isNotFree,      \* gWTPs[i].isNotFree
  address,        \* gWTPs[i].address
  socket,         \* gWTPs[i].socket, which a new session inherits until it sets it
  hasList,        \* gWTPs[i].packetReceiveList is allocated
  packetsFrom,    \* senders of the packets in that list
  thread,         \* where the session thread of the slot is, "none" without one
  arg,            \* CWACThreadArg.sock of that thread
  gActiveWTPs,
  failures,       \* history: threads that failed to start
  crashed         \* undefined behaviour brought the AC down

mainVars == <<main, sender, slot>>
slotVars == <<isNotFree, address, socket>>
listVars == <<hasList, packetsFrom>>
threadVars == <<thread, arg>>
vars == <<mainVars, slotVars, listVars, threadVars, gActiveWTPs, failures, crashed>>

Slots == 1 .. CW_MAX_WTP
Senders == [address : Addresses, socket : Sockets]

\* known: a session serves the sender; unknown: none does; admitted: one may
\* be started; claimed: a slot is taken; listed: its list exists; created: its
\* thread exists.
MainPlaces == {"idle", "known", "unknown", "admitted", "claimed", "listed", "created"}
ThreadPlaces == {"none", "created", "counted", "serving", "closing", "uncounted", "released"}

Init ==
  /\ main = "idle"
  /\ sender \in Senders
  /\ slot = 1
  /\ isNotFree = [s \in Slots |-> FALSE]
  /\ address = [s \in Slots |-> Unset]
  /\ socket = [s \in Slots |-> Unset]
  /\ hasList = [s \in Slots |-> FALSE]
  /\ packetsFrom = [s \in Slots |-> {}]
  /\ thread = [s \in Slots |-> "none"]
  /\ arg = [s \in Slots |-> Unset]
  /\ gActiveWTPs = 0
  /\ failures = 0
  /\ crashed = FALSE

-----------------------------------------------------------------------------
\* Definitions named <Operator>_<bug> are mutants of the operator that follows:
\* Next uses none of them.
Serves_SocketOnly(s, w) == isNotFree[s] /\ socket[s] = w.socket

(* CWWTPByAddress: slot s belongs to sender w. *)
Serves(s, w) ==
  isNotFree[s] /\ address[s] = w.address /\ socket[s] = w.socket

(* A datagram arrives, and the first slot that serves its sender is looked up. *)
LookupKnown(w) ==
  /\ main = "idle"
  /\ \E s \in Slots :
       /\ Serves(s, w)
       /\ \A r \in 1 .. s - 1 : ~ Serves(r, w)
       /\ slot' = s
  /\ main' = "known"
  /\ sender' = w
  /\ UNCHANGED <<slotVars, listVars, threadVars, gActiveWTPs, failures, crashed>>

LookupUnknown(w) ==
  /\ main = "idle"
  /\ \A s \in Slots : ~ Serves(s, w)
  /\ main' = "unknown"
  /\ sender' = w
  /\ UNCHANGED <<slot, slotVars, listVars, threadVars, gActiveWTPs, failures, crashed>>

(* The datagram is appended to the slot's list; when its copy cannot be      *)
(* allocated it is dropped.  The session may have freed the list meanwhile:  *)
(* then the packet is lost, if the AC survives.                              *)
AppendPacket ==
  /\ main \in {"known", "created"}
  /\ main' = "idle"
  /\ IF hasList[slot]
     THEN /\ \/ packetsFrom' = [packetsFrom EXCEPT ![slot] = @ \union {sender.address}]
             \/ UNCHANGED packetsFrom
          /\ UNCHANGED crashed
     ELSE crashed' \in BOOLEAN /\ UNCHANGED packetsFrom
  /\ UNCHANGED <<sender, slot, slotVars, hasList, threadVars, gActiveWTPs, failures>>

(* Too many WTPs, or a Discovery Request, which is answered: no slot is taken. *)
NoSession ==
  /\ main = "unknown"
  /\ main' = "idle"
  /\ UNCHANGED <<sender, slot, slotVars, listVars, threadVars, gActiveWTPs, failures, crashed>>

(* Any other message of an unknown WTP starts a session, unless there are    *)
(* gMaxWTPs already.                                                         *)
Admit ==
  /\ main = "unknown"
  /\ gActiveWTPs < gMaxWTPs
  /\ main' = "admitted"
  /\ UNCHANGED <<sender, slot, slotVars, listVars, threadVars, gActiveWTPs, failures, crashed>>

Take(s) ==
  /\ main' = "claimed"
  /\ slot' = s
  /\ isNotFree' = [isNotFree EXCEPT ![s] = TRUE]
  /\ address' = [address EXCEPT ![s] = sender.address]
  /\ UNCHANGED <<sender, socket, listVars, threadVars, gActiveWTPs, failures>>

Claim_PastTheEnd ==
  /\ main = "admitted"
  /\ \E s \in 1 .. CW_MAX_WTP + 1 :
       /\ \A r \in 1 .. s - 1 : isNotFree[r]
       /\ s \in Slots => ~ isNotFree[s]
       /\ Take(s)
  /\ UNCHANGED crashed

Claim_AnySlot ==
  /\ main = "admitted"
  /\ \E s \in Slots : Take(s)
  /\ UNCHANGED crashed

(* The first free slot is claimed. *)
Claim ==
  /\ main = "admitted"
  /\ \E s \in Slots :
       /\ ~ isNotFree[s]
       /\ \A r \in 1 .. s - 1 : isNotFree[r]
       /\ Take(s)
  /\ UNCHANGED crashed

(* When none is free the code writes behind the end of gWTPs. *)
ClaimOverflow ==
  /\ main = "admitted"
  /\ \A s \in Slots : isNotFree[s]
  /\ crashed' = TRUE
  /\ UNCHANGED <<mainVars, slotVars, listVars, threadVars, gActiveWTPs, failures>>

CreateList ==
  /\ main = "claimed"
  /\ main' = "listed"
  /\ hasList' = [hasList EXCEPT ![slot] = TRUE]
  /\ packetsFrom' = [packetsFrom EXCEPT ![slot] = {}]
  /\ UNCHANGED <<sender, slot, slotVars, threadVars, gActiveWTPs, failures, crashed>>

(* Out of memory for the list: the slot is given back. *)
CreateListFails ==
  /\ main = "claimed"
  /\ main' = "idle"
  /\ isNotFree' = [isNotFree EXCEPT ![slot] = FALSE]
  /\ UNCHANGED <<sender, slot, address, socket, listVars, threadVars,
                 gActiveWTPs, failures, crashed>>

CreateThread ==
  /\ main = "listed"
  /\ main' = "created"
  /\ thread' = [thread EXCEPT ![slot] = "created"]
  /\ arg' = [arg EXCEPT ![slot] = sender.socket]
  /\ UNCHANGED <<sender, slot, slotVars, listVars, gActiveWTPs, failures, crashed>>

(* Out of memory for the thread's argument: the slot stays taken (l.247). *)
CreateArgFails ==
  /\ main = "listed"
  /\ main' = "idle"
  /\ UNCHANGED <<sender, slot, slotVars, listVars, threadVars, gActiveWTPs, failures, crashed>>

(* Without a thread the list should be freed, but the code frees the address *)
(* of the pointer to it (l.277).                                             *)
CreateThreadFails ==
  /\ main = "listed"
  /\ crashed' = TRUE
  /\ UNCHANGED <<mainVars, slotVars, listVars, threadVars, gActiveWTPs, failures>>

-----------------------------------------------------------------------------
(* The session thread of slot s. *)
Count(s) ==
  /\ thread[s] = "created"
  /\ thread' = [thread EXCEPT ![s] = "counted"]
  /\ gActiveWTPs' = gActiveWTPs + 1
  /\ UNCHANGED <<mainVars, slotVars, listVars, arg, failures, crashed>>

(* No thread data: the session closes before it was counted (l.345). *)
StartFails(s) ==
  /\ thread[s] = "created"
  /\ failures < MaxStartFailures
  /\ failures' = failures + 1
  /\ thread' = [thread EXCEPT ![s] = "closing"]
  /\ UNCHANGED <<mainVars, slotVars, listVars, arg, gActiveWTPs, crashed>>

(* From here on CWWTPByAddress finds the session. *)
SetSocket(s) ==
  /\ thread[s] = "counted"
  /\ thread' = [thread EXCEPT ![s] = "serving"]
  /\ socket' = [socket EXCEPT ![s] = arg[s]]
  /\ UNCHANGED <<mainVars, isNotFree, address, listVars, arg, gActiveWTPs, failures, crashed>>

(* The packets in the list are served. *)
ServePackets(s) ==
  /\ thread[s] = "serving"
  /\ packetsFrom' = [packetsFrom EXCEPT ![s] = {}]
  /\ UNCHANGED <<mainVars, slotVars, hasList, threadVars, gActiveWTPs, failures, crashed>>

(* The session is over, for one of the reasons ACSession gives. *)
EndSession(s) ==
  /\ thread[s] = "serving"
  /\ thread' = [thread EXCEPT ![s] = "closing"]
  /\ UNCHANGED <<mainVars, slotVars, listVars, arg, gActiveWTPs, failures, crashed>>

(* _CWCloseThread takes the session out of the count, then cleans up ... *)
Uncount_Forgotten(s) ==
  /\ thread[s] = "closing"
  /\ thread' = [thread EXCEPT ![s] = "uncounted"]
  /\ UNCHANGED <<mainVars, slotVars, listVars, arg, gActiveWTPs, failures, crashed>>

Uncount(s) ==
  /\ thread[s] = "closing"
  /\ thread' = [thread EXCEPT ![s] = "uncounted"]
  /\ gActiveWTPs' = gActiveWTPs - 1
  /\ UNCHANGED <<mainVars, slotVars, listVars, arg, failures, crashed>>

(* ... and frees the list with its packets ... *)
DestroyList(s) ==
  /\ thread[s] = "uncounted"
  /\ thread' = [thread EXCEPT ![s] = "released"]
  /\ hasList' = [hasList EXCEPT ![s] = FALSE]
  /\ packetsFrom' = [packetsFrom EXCEPT ![s] = {}]
  /\ UNCHANGED <<mainVars, slotVars, arg, gActiveWTPs, failures, crashed>>

(* ... before it gives the slot back. *)
FreeSlot(s) ==
  /\ thread[s] = "released"
  /\ thread' = [thread EXCEPT ![s] = "none"]
  /\ isNotFree' = [isNotFree EXCEPT ![s] = FALSE]
  /\ UNCHANGED <<mainVars, address, socket, listVars, arg, gActiveWTPs, failures, crashed>>

-----------------------------------------------------------------------------
CWACManageIncomingPacket ==
  \/ \E w \in Senders : LookupKnown(w) \/ LookupUnknown(w)
  \/ AppendPacket \/ NoSession
  \/ Admit \/ Claim \/ ClaimOverflow
  \/ CreateList \/ CreateListFails
  \/ CreateThread \/ CreateArgFails \/ CreateThreadFails

CWManageWTP(s) ==
  \/ Count(s) \/ StartFails(s) \/ SetSocket(s) \/ ServePackets(s)
  \/ EndSession(s) \/ Uncount(s) \/ DestroyList(s) \/ FreeSlot(s)

Next ==
  /\ ~ crashed
  /\ CWACManageIncomingPacket \/ \E s \in Slots : CWManageWTP(s)

Spec == Init /\ [][Next]_vars

-----------------------------------------------------------------------------
(* Every variable has its type. *)
TypeOK ==
  /\ main \in MainPlaces /\ sender \in Senders /\ slot \in Slots
  /\ isNotFree \in [Slots -> BOOLEAN]
  /\ address \in [Slots -> Addresses \union {Unset}]
  /\ socket \in [Slots -> Sockets \union {Unset}]
  /\ hasList \in [Slots -> BOOLEAN]
  /\ packetsFrom \in [Slots -> SUBSET Addresses]
  /\ thread \in [Slots -> ThreadPlaces]
  /\ arg \in [Slots -> Sockets \union {Unset}]
  /\ gActiveWTPs \in Int
  /\ failures \in 0 .. MaxStartFailures
  /\ crashed \in BOOLEAN

(* A slot that may be claimed has no thread and no list left from its last   *)
(* session; a session has its slot and its list until it frees them itself;  *)
(* and the main thread gives a slot only one thread.                         *)
SlotOwnership ==
  \A s \in Slots :
    /\ ~ isNotFree[s] => thread[s] = "none" /\ ~ hasList[s]
    /\ thread[s] # "none" => (hasList[s] <=> thread[s] # "released")
    /\ main \in {"claimed", "listed"} /\ slot = s =>
         isNotFree[s] /\ thread[s] = "none" /\ (hasList[s] <=> main = "listed")

(* gActiveWTPs never counts a session that is gone: slots and memory apart,  *)
(* no sequence of sessions makes the AC refuse WTPs for good.                *)
Counted == {s \in Slots : thread[s] \in {"counted", "serving", "closing"}}
NoGhostSessions == gActiveWTPs <= Cardinality(Counted)

(* A session is given packets of its own WTP only, though its slot, list and *)
(* socket field served others before.                                        *)
PacketsOfOneWTP ==
  \A s \in Slots : hasList[s] => packetsFrom[s] \subseteq {address[s]}

(* "see if we have a thread that is serving address *addressPtr" (l.297): a  *)
(* WTP is served by one thread.                                              *)
OneSessionPerWTP ==
  \A s, t \in Slots :
    thread[s] = "serving" /\ thread[t] = "serving" /\ arg[s] = arg[t]
      /\ address[s] = address[t] => s = t
=============================================================================
