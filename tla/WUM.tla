-------------------------------- MODULE WUM --------------------------------
(***************************************************************************)
(* The update of a WTP's software: the tool on the operator's side         *)
(* (src/wum/wumLib.c), the update state of the WTP                         *)
(* (CWWTPSaveWUMValues, src/CWVendorPayloadsWTP.c) and the update agent    *)
(* that replaces the installation once the WTP has ended (src/WUA.c).      *)
(*                                                                         *)
(* The tool's messages travel through the AC, which sends each of them     *)
(* once, in a Configuration Update Request with a number of its own, and   *)
(* accepts the response of the last one.  The network loses, repeats and   *)
(* delays them; the WTP serves every request it receives.  When the        *)
(* association is lost, what is under way is lost with it, but the update  *)
(* state of the WTP stays: it is a variable of the process.                *)
(*                                                                         *)
(* Left out: the version request, which changes nothing, and a commit      *)
(* whose acknowledgement cannot be sent.                                   *)
(***************************************************************************)
EXTENDS Integers

CONSTANTS
  MaxVersion,     \* versions of the software; 0 is installed at first
  Parts,          \* fragments of a package, total_fragments
  MaxRequests,    \* messages that the tool sends (bound of the model)
  MaxMisdelivered \* messages served twice or late (bound of the model)

ASSUME WUMAssumption ==
  /\ MaxVersion \in Nat \ {0} /\ Parts \in Nat \ {0} /\ MaxRequests \in Nat
  /\ MaxMisdelivered \in Nat

VARIABLES
  tool,           \* what the tool waits for
  package,        \* the version it installs
  sent,           \* number of messages sent so far, the number of the last one
  requests,       \* messages that may arrive
  answers,        \* responses to the last message that may arrive
  latest,         \* history: the highest number served
  misdelivered,   \* history: messages served twice, or after a newer one
  wtp,            \* the process
  state,          \* wumState.state
  received,       \* wumState.received_fragments
  file,           \* the package file: of which version each part is, None if absent
  agent,          \* the update agent
  unpacked,       \* the version it unpacked
  backup,         \* the version it keeps a copy of
  installed       \* the version in the WTP's directory, Mixed if it is not whole

toolVars == <<tool, package>>
netVars == <<sent, requests, answers, latest, misdelivered>>
wumVars == <<state, received, file>>
agentVars == <<agent, unpacked, backup, installed>>
vars == <<toolVars, netVars, wtp, wumVars, agentVars>>

None == -1
Mixed == -1
Versions == 0 .. MaxVersion
PartNumbers == 0 .. Parts - 1
NoFile == [i \in PartNumbers |-> None]

Requests ==
  [num : 1 .. MaxRequests, type : {"update", "fragment", "commit", "cancel"},
   version : Versions, seq : PartNumbers]

Init ==
  /\ tool = "idle" /\ package = 0
  /\ sent = 0 /\ requests = {} /\ answers = {} /\ latest = 0 /\ misdelivered = 0
  /\ wtp = "running"
  /\ state = "WAIT" /\ received = 0 /\ file = NoFile
  /\ agent = "none" /\ unpacked = 0 /\ backup = 0 /\ installed = 0

-----------------------------------------------------------------------------
\* Definitions named <Operator>_<bug> are mutants of the operator that follows:
\* Next uses none of them.

(* The tool sends a message and waits for its answer. *)
SendMessage(type, version, seq) ==
  /\ sent < MaxRequests
  /\ sent' = sent + 1
  /\ requests' = requests \union
       {[num |-> sent + 1, type |-> type, version |-> version, seq |-> seq]}
  /\ answers' = {}
  /\ tool' = type
  /\ UNCHANGED <<latest, misdelivered>>

Stop == tool' = "idle" /\ UNCHANGED netVars

(* WUMUpdate *)
StartUpdate(version) ==
  /\ tool = "idle"
  /\ package' = version
  /\ SendMessage("update", version, 0)
  /\ UNCHANGED <<wtp, wumVars, agentVars>>

(* WUMSendCancelRequest *)
StartCancel ==
  /\ tool = "idle"
  /\ SendMessage("cancel", 0, 0)
  /\ UNCHANGED <<package, wtp, wumVars, agentVars>>

(* The answer of the last message: the next one is sent, or the tool stops;    *)
(* an error stops it without a cancel.                                         *)
ReceiveAnswer ==
  /\ tool # "idle"
  /\ \E ok \in answers, r \in requests :
       /\ r.num = sent
       /\ CASE ~ ok \/ tool \in {"commit", "cancel"} -> Stop
            [] ok /\ tool = "update" -> SendMessage("fragment", package, 0)
            [] ok /\ tool = "fragment" ->
                 IF r.seq + 1 < Parts THEN SendMessage("fragment", package, r.seq + 1)
                                      ELSE SendMessage("commit", 0, 0)
  /\ UNCHANGED <<package, wtp, wumVars, agentVars>>

(* The user ends a tool that waits for an answer that never comes. *)
EndTool ==
  /\ tool # "idle"
  /\ Stop
  /\ UNCHANGED <<package, wtp, wumVars, agentVars>>

-----------------------------------------------------------------------------
(* The WTP serves a request and answers it; the AC ignores the answer if it    *)
(* has sent another request since.                                             *)
Serve(r, ok) ==
  /\ wtp = "running"
  /\ \/ r.num > latest /\ latest' = r.num /\ UNCHANGED misdelivered
     \/ /\ r.num <= latest /\ UNCHANGED latest
        /\ misdelivered < MaxMisdelivered /\ misdelivered' = misdelivered + 1
  /\ answers' = IF r.num = sent THEN answers \union {ok} ELSE answers
  /\ UNCHANGED <<sent, requests>>

WUMPrepareForUpdate_KeepsCount ==
  /\ state = "WAIT"
  /\ state' = "BUSY"
  /\ file' = NoFile
  /\ UNCHANGED received

WUMPrepareForUpdate ==
  /\ state = "WAIT"
  /\ state' = "BUSY"
  /\ received' = 0
  /\ file' = NoFile

(* A request for an update: refused if it is not newer, there is no space, the *)
(* file cannot be opened, or another update is not finished.                   *)
ReceiveUpdateRequest(r) ==
  /\ r.type = "update"
  /\ \/ r.version > installed /\ WUMPrepareForUpdate /\ Serve(r, TRUE)
     \/ UNCHANGED wumVars /\ Serve(r, FALSE)
  /\ UNCHANGED <<toolVars, wtp, agentVars>>

WUMStoreFragment_AnyState(r) ==
  /\ state \in {"BUSY", "READY"}
  /\ r.seq <= Parts
  /\ file' = [file EXCEPT ![r.seq] = r.version]
  /\ received' = received + 1

(* The fragment is written where it belongs, and counted. *)
WUMStoreFragment(r) ==
  /\ state = "BUSY"
  /\ r.seq <= Parts
  /\ file' = [file EXCEPT ![r.seq] = r.version]
  /\ received' = received + 1

(* A fragment; the last one that is counted makes the file ready.  Writing it  *)
(* may fail.                                                                   *)
ReceiveFragment(r) ==
  /\ r.type = "fragment"
  /\ \/ /\ WUMStoreFragment(r)
        /\ state' = IF received + 1 >= Parts THEN "READY" ELSE "BUSY"
        /\ Serve(r, TRUE)
     \/ UNCHANGED wumVars /\ Serve(r, FALSE)
  /\ UNCHANGED <<toolVars, wtp, agentVars>>

(* A commit, positive or not, starts the agent and ends the process once it is *)
(* answered.  The agent may fail to start.                                     *)
ReceiveCommit(r) ==
  /\ r.type = "commit"
  /\ Serve(r, state = "READY")
  /\ agent' \in {"waiting", "failed"}
  /\ wtp' = "ended"
  /\ UNCHANGED <<toolVars, wumVars, unpacked, backup, installed>>

ReceiveCancel(r) ==
  /\ r.type = "cancel"
  /\ Serve(r, TRUE)
  /\ state' = "WAIT"
  /\ file' = IF state = "WAIT" THEN file ELSE NoFile
  /\ UNCHANGED <<toolVars, received, wtp, agentVars>>

(* The WTP leaves the run state, or the AC closes the session. *)
LoseAssociation ==
  /\ requests # {} \/ answers # {}
  /\ requests' = {} /\ answers' = {}
  /\ UNCHANGED <<toolVars, sent, latest, misdelivered, wtp, wumVars, agentVars>>

-----------------------------------------------------------------------------
agentUnchanged == <<toolVars, netVars, state, received>>

(* The agent waits for the lock that the WTP holds while it runs.  Without its *)
(* log it does not wait, cleans up, and has no directory to start a WTP from.  *)
WaitForWTPTermination ==
  /\ agent = "waiting"
  /\ \/ wtp = "ended" /\ agent' = "stage1" /\ UNCHANGED file
     \/ agent' = "failed" /\ file' = NoFile
  /\ UNCHANGED <<agentUnchanged, wtp, unpacked, backup, installed>>

WUAStage1_GivesUp ==
  /\ agent = "stage1"
  /\ \/ \E v \in Versions :
          /\ \A i \in PartNumbers : file[i] = v
          /\ unpacked' = v /\ backup' = installed
          /\ agent' = "stage2"
     \/ agent' = "none" /\ UNCHANGED <<unpacked, backup>>
  /\ UNCHANGED <<agentUnchanged, file, wtp, installed>>

(* Only a whole archive can be unpacked; the installation is copied. *)
WUAStage1 ==
  /\ agent = "stage1"
  /\ \/ \E v \in Versions :
          /\ \A i \in PartNumbers : file[i] = v
          /\ unpacked' = v /\ backup' = installed
          /\ agent' = "stage2"
     \/ agent' = "final" /\ UNCHANGED <<unpacked, backup>>
  /\ UNCHANGED <<agentUnchanged, file, wtp, installed>>

WUAStage2_NoRestore ==
  /\ agent = "stage2"
  /\ \/ installed' = unpacked /\ agent' = "final"
     \/ installed' \in {installed, Mixed, unpacked} /\ agent' = "final"
  /\ UNCHANGED <<agentUnchanged, file, wtp, unpacked, backup>>

(* The scripts and the copy of the new files: either script may fail, and the  *)
(* copy with a part of the files.                                              *)
WUAStage2 ==
  /\ agent = "stage2"
  /\ \/ installed' = unpacked /\ agent' = "final"
     \/ installed' \in {installed, Mixed, unpacked} /\ agent' = "restore"
  /\ UNCHANGED <<agentUnchanged, file, wtp, unpacked, backup>>

(* If the copy cannot be restored the agent stops: no WTP is started. *)
RestoreBackupWTP ==
  /\ agent = "restore"
  /\ \/ installed' = backup /\ agent' = "final"
     \/ installed' \in {installed, Mixed} /\ agent' = "failed"
  /\ UNCHANGED <<agentUnchanged, file, wtp, unpacked, backup>>

(* CleanTmpFiles and StartWTP, which may fail.  The new process is in the WAIT *)
(* state and has a new association.                                            *)
FinalStage ==
  /\ agent = "final"
  /\ file' = NoFile
  /\ \/ /\ agent' = "none"
        /\ wtp' = "running"
        /\ state' = "WAIT" /\ received' = 0
        /\ requests' = {} /\ answers' = {}
     \/ /\ agent' = "failed"
        /\ UNCHANGED <<wtp, state, received, requests, answers>>
  /\ UNCHANGED <<toolVars, sent, latest, misdelivered, unpacked, backup, installed>>

-----------------------------------------------------------------------------
Agent == WaitForWTPTermination \/ WUAStage1 \/ WUAStage2 \/ RestoreBackupWTP \/ FinalStage

Next ==
  \/ \E v \in 1 .. MaxVersion : StartUpdate(v)
  \/ StartCancel \/ ReceiveAnswer \/ EndTool
  \/ \E r \in requests :
       ReceiveUpdateRequest(r) \/ ReceiveFragment(r) \/ ReceiveCommit(r) \/ ReceiveCancel(r)
  \/ LoseAssociation
  \/ Agent

(* The agent is a process that runs. *)
Spec == Init /\ [][Next]_vars /\ WF_vars(Agent)

-----------------------------------------------------------------------------
(* Every variable has its type. *)
TypeOK ==
  /\ tool \in {"idle", "update", "fragment", "commit", "cancel"} /\ package \in Versions
  /\ sent \in 0 .. MaxRequests /\ requests \subseteq Requests
  /\ answers \subseteq BOOLEAN
  /\ latest \in 0 .. MaxRequests /\ misdelivered \in 0 .. MaxMisdelivered
  /\ wtp \in {"running", "ended"}
  /\ state \in {"WAIT", "BUSY", "READY"} /\ received \in 0 .. Parts
  /\ file \in [PartNumbers -> Versions \union {None}]
  /\ agent \in {"none", "waiting", "stage1", "stage2", "restore", "final", "failed"}
  /\ unpacked \in Versions /\ backup \in Versions
  /\ installed \in Versions \union {Mixed}

(* "All fragments of an update have been received and reassembled"              *)
(* (CWVendorPayloadsWTP.c:232): in the READY state the file is one whole        *)
(* package, after any number of updates that were broken off, refused or        *)
(* cancelled, as long as the network neither repeated a message nor delivered   *)
(* one late.  The fragments are only counted, and name no update.               *)
ReadyMeansWhole ==
  state = "READY" /\ wtp = "running" /\ misdelivered = 0 =>
    \E v \in Versions : \A i \in PartNumbers : file[i] = v

(* Whatever is committed, and wherever the agent fails, the WTP that it starts  *)
(* is a whole installation, the old or the new one: never half of an update.    *)
RunningIsWhole == wtp = "running" => installed # Mixed

(* A WTP that ended to be updated is started again, by its successor or in its  *)
(* old version, unless the agent could not be started, could not start it or    *)
(* could not restore it.                                                        *)
CommitLeadsToRestart == wtp = "ended" ~> wtp = "running" \/ agent = "failed"
=============================================================================
