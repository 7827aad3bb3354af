------------------------------- MODULE WUMProofs -------------------------------
(***************************************************************************)
(* Proofs about WUM, for any number of versions, parts and messages.       *)
(*                                                                         *)
(* The WTP counts fragments and asks nothing about them, so what makes a   *)
(* package whole is the tool's order: it sends a part only after the       *)
(* answer for the one before.  FragmentInv and AnswerInv carry this order  *)
(* through updates that are broken off, refused, cancelled and begun       *)
(* again; both need a network that neither repeats nor delays.             *)
(***************************************************************************)
EXTENDS WUM, TLAPS

(* TypeOK, by who uses the variables. *)
ToolType ==
  /\ tool \in {"idle", "update", "fragment", "commit", "cancel"} /\ package \in Versions
  /\ sent \in 0 .. MaxRequests /\ requests \subseteq Requests /\ answers \subseteq BOOLEAN
  /\ latest \in 0 .. MaxRequests /\ misdelivered \in 0 .. MaxMisdelivered

UpdateType ==
  /\ wtp \in {"running", "ended"} /\ state \in {"WAIT", "BUSY", "READY"}
  /\ received \in 0 .. Parts /\ (state = "BUSY" => received < Parts)
  /\ file \in [PartNumbers -> Versions \union {None}]

AgentType ==
  /\ agent \in {"none", "waiting", "stage1", "stage2", "restore", "final", "failed"}
  /\ unpacked \in Versions /\ backup \in Versions /\ installed \in Versions \union {Mixed}

(* The agent works only while no WTP runs, and leaves half an installation only *)
(* before it restores the copy, or when it stops.                               *)
AgentInv ==
  /\ wtp = "running" => agent = "none"
  /\ installed = Mixed => agent \in {"restore", "failed"}

(* Numbers name messages.  An answer is one to the last message, and shows that *)
(* nothing was served after it.                                                 *)
NumberInv ==
  /\ latest <= sent
  /\ \A r \in requests : r.num <= sent
  /\ \A r, s \in requests : r.num = s.num => r = s
  /\ answers # {} => latest = sent

(* What the tool waits for is an answer to the last message. *)
LastInv ==
  \A r \in requests : r.num = sent /\ tool # "idle" =>
    r.type = tool /\ (tool \in {"update", "fragment"} => r.version = package)

Filled(v, n) == \A i \in PartNumbers : i < n => file[i] = v

(* A fragment that is still to be served is the next message and the next part  *)
(* of the package that is being received.                                       *)
FragmentInv ==
  \A r \in requests : r.type = "fragment" /\ r.num > latest =>
    /\ r.num = latest + 1
    /\ state = "BUSY" /\ r.seq = received /\ Filled(r.version, received)

(* A positive answer tells the tool what the WTP has received. *)
AnswerInv ==
  TRUE \in answers =>
    \A r \in requests : r.num = sent =>
      /\ tool = "update" => state = "BUSY" /\ received = 0
      /\ tool = "fragment" =>
           /\ received = r.seq + 1 /\ Filled(package, received)
           /\ received < Parts => state = "BUSY"

ReadyInv == state = "READY" => \E v \in Versions : Filled(v, Parts)

(* The protocol, as long as the network neither repeats nor delays. *)
OrderInv == misdelivered = 0 /\ wtp = "running" => FragmentInv /\ AnswerInv /\ ReadyInv

IInv ==
  /\ ToolType /\ UpdateType /\ AgentType
  /\ AgentInv /\ NumberInv /\ LastInv /\ OrderInv

USE WUMAssumption DEF WUMAssumption

-----------------------------------------------------------------------------
(* The initial states satisfy the inductive invariant. *)
LEMMA InitInv == Init => IInv
<1> SUFFICES ASSUME Init PROVE IInv
  OBVIOUS
<1>1. 0 \in Versions
  BY DEF Versions
<1>2. ToolType /\ UpdateType /\ AgentType
  BY <1>1 DEF Init, ToolType, UpdateType, NoFile, AgentType
<1>3. AgentInv /\ NumberInv /\ LastInv /\ OrderInv
  BY DEF Init, AgentInv, Mixed, NumberInv, LastInv, OrderInv, FragmentInv, AnswerInv, ReadyInv
<1> QED BY <1>2, <1>3 DEF IInv

(* Every step of the tool, the WTP, the network and the agent preserves the    *)
(* inductive invariant.                                                        *)
LEMMA NextInv == IInv /\ [Next]_vars => IInv'
<1> SUFFICES ASSUME IInv, [Next]_vars PROVE IInv'
  OBVIOUS
<1> USE DEF IInv, toolVars, netVars, wumVars, agentVars, agentUnchanged
<1>a. /\ sent \in Nat /\ latest \in Nat /\ misdelivered \in Nat
      /\ \A r \in requests : /\ r.num \in 1 .. MaxRequests /\ r.seq \in PartNumbers
                             /\ r.type \in {"update", "fragment", "commit", "cancel"}
                             /\ r.version \in Versions
  BY DEF ToolType, Requests
<1>b. ASSUME NEW type \in {"update", "fragment", "commit", "cancel"},
             NEW v \in Versions, NEW q \in PartNumbers, SendMessage(type, v, q),
             package' \in Versions, type \in {"update", "fragment"} => v = package',
             UNCHANGED <<wtp, wumVars, agentVars>>,
             type = "fragment" /\ misdelivered = 0 /\ wtp = "running" =>
               latest = sent /\ state = "BUSY" /\ q = received /\ Filled(v, received)
      PROVE  IInv'
  <2> DEFINE r == [num |-> sent + 1, type |-> type, version |-> v, seq |-> q]
  <2>1. /\ sent < MaxRequests /\ sent' = sent + 1 /\ requests' = requests \union {r}
        /\ answers' = {} /\ tool' = type /\ UNCHANGED <<latest, misdelivered>>
    BY <1>b DEF SendMessage
  <2>2. r \in Requests
    BY <2>1, <1>a DEF Requests
  <2>3. r.num = sent + 1 /\ r.type = type /\ r.version = v /\ r.seq = q
    OBVIOUS
  <2> HIDE DEF r
  <2>4. ToolType'
    BY <2>1, <2>2, <1>b DEF ToolType
  <2>5. UpdateType' /\ AgentType' /\ AgentInv'
    BY <1>b DEF UpdateType, AgentType, AgentInv
  <2>6. NumberInv'
    BY <2>1, <2>3, <1>a DEF NumberInv
  <2>7. LastInv'
    BY <2>1, <2>3, <1>a, <1>b DEF LastInv, NumberInv
  <2>8. OrderInv'
    <3> SUFFICES ASSUME misdelivered = 0, wtp = "running" PROVE FragmentInv' /\ ReadyInv'
      BY <2>1, <1>b DEF OrderInv, AnswerInv
    <3>1. FragmentInv /\ ReadyInv
      BY DEF OrderInv
    <3> QED BY <3>1, <2>1, <2>3, <1>a, <1>b DEF FragmentInv, ReadyInv, Filled
  <2> QED BY <2>4, <2>5, <2>6, <2>7, <2>8
<1>c. ASSUME NEW r \in requests, NEW ok \in BOOLEAN, Serve(r, ok), UNCHANGED toolVars
      PROVE  /\ ToolType' /\ NumberInv' /\ LastInv'
             /\ misdelivered' = 0 =>
                  /\ misdelivered = 0 /\ wtp = "running" /\ r.num > latest
                  /\ FragmentInv'
                  /\ TRUE \in answers' =>
                       ok /\ r.num = sent /\ \A s \in requests : s.num = sent => s = r
  <2>1. /\ wtp = "running" /\ UNCHANGED <<sent, requests>>
        /\ answers' = IF r.num = sent THEN answers \union {ok} ELSE answers
        /\ \/ r.num > latest /\ latest' = r.num /\ misdelivered' = misdelivered
           \/ /\ r.num <= latest /\ latest' = latest
              /\ misdelivered < MaxMisdelivered /\ misdelivered' = misdelivered + 1
    BY <1>c DEF Serve
  <2>2. ToolType'
    <3>1. answers' \subseteq BOOLEAN
      BY <2>1, Zenon DEF ToolType
    <3>2. latest' \in 0 .. MaxRequests /\ misdelivered' \in 0 .. MaxMisdelivered
      BY <2>1, <1>a DEF ToolType
    <3> QED BY <2>1, <3>1, <3>2, <1>c DEF ToolType
  <2>3. NumberInv'
    <3>1. r.num <= sent /\ r.num \in Nat
      BY <1>a DEF NumberInv
    <3>2. latest' <= sent /\ (answers' # {} => latest' = sent)
      BY <2>1, <3>1, <1>a DEF NumberInv
    <3> QED BY <2>1, <3>2 DEF NumberInv
  <2>4. LastInv'
    BY <2>1, <1>c DEF LastInv
  <2>5. ASSUME misdelivered' = 0
        PROVE  /\ misdelivered = 0 /\ r.num > latest /\ FragmentInv'
               /\ TRUE \in answers' =>
                    ok /\ r.num = sent /\ \A s \in requests : s.num = sent => s = r
    <3>1. misdelivered = 0 /\ r.num > latest /\ latest' = r.num
      BY <2>1, <2>5, <1>a
    <3>2. \A s \in requests : s.type = "fragment" => ~ s.num > r.num
      <4>1. \A s \in requests : s.type = "fragment" /\ s.num > latest => s.num = latest + 1
        BY <3>1, <2>1 DEF OrderInv, FragmentInv
      <4> QED BY <4>1, <3>1, <1>a
    <3>3. FragmentInv'
      BY <2>1, <3>1, <3>2 DEF FragmentInv
    <3>4. answers = {}
      BY <3>1, <1>a DEF NumberInv
    <3>5. TRUE \in answers' => r.num = sent /\ ok = TRUE
      BY <2>1, <3>4
    <3>6. r.num = sent => \A s \in requests : s.num = sent => s = r
      BY DEF NumberInv
    <3> QED BY <3>1, <3>3, <3>5, <3>6
  <2> QED BY <2>1, <2>2, <2>3, <2>4, <2>5
<1>d. ASSUME NEW r \in requests, Serve(r, FALSE), UNCHANGED <<toolVars, wtp, wumVars>>,
             AgentType', AgentInv'
      PROVE  IInv'
  <2>1. UpdateType'
    BY <1>d DEF UpdateType
  <2>2. ToolType' /\ NumberInv' /\ LastInv'
    BY <1>c, <1>d
  <2>3. OrderInv'
    BY <1>c, <1>d DEF OrderInv, AnswerInv, ReadyInv, Filled
  <2> QED BY <1>d, <2>1, <2>2, <2>3
<1>1. ASSUME NEW v \in 1 .. MaxVersion, StartUpdate(v) PROVE IInv'
  BY <1>1, <1>b DEF StartUpdate, Versions, PartNumbers
<1>2. CASE StartCancel
  BY <1>2, <1>b DEF StartCancel, Versions, PartNumbers, ToolType
<1>3. CASE ReceiveAnswer
  <2>1. PICK ok \in answers, r \in requests :
          /\ r.num = sent /\ tool # "idle"
          /\ \/ Stop
             \/ ok /\ tool = "update" /\ SendMessage("fragment", package, 0)
             \/ ok /\ tool = "fragment" /\ r.seq + 1 < Parts
                /\ SendMessage("fragment", package, r.seq + 1)
             \/ SendMessage("commit", 0, 0)
    <3>1. PICK ok \in answers, r \in requests :
            /\ r.num = sent
            /\ CASE ~ ok \/ tool \in {"commit", "cancel"} -> Stop
                 [] ok /\ tool = "update" -> SendMessage("fragment", package, 0)
                 [] ok /\ tool = "fragment" ->
                      IF r.seq + 1 < Parts THEN SendMessage("fragment", package, r.seq + 1)
                                           ELSE SendMessage("commit", 0, 0)
      BY <1>3 DEF ReceiveAnswer
    <3>2. tool # "idle" /\ tool \in {"update", "fragment", "commit", "cancel"}
      BY <1>3 DEF ReceiveAnswer, ToolType
    <3>3. CASE ~ ok \/ tool \in {"commit", "cancel"}
      BY <3>1, <3>2, <3>3
    <3>4. CASE ok /\ tool = "update"
      BY <3>1, <3>2, <3>4
    <3>5. CASE ok /\ tool = "fragment"
      BY <3>1, <3>2, <3>5
    <3> QED BY <3>2, <3>3, <3>4, <3>5
  <2>2. UNCHANGED <<package, wtp, wumVars, agentVars>> /\ package \in Versions
    BY <1>3 DEF ReceiveAnswer, ToolType
  <2>3. CASE Stop
    <3>1. ToolType' /\ UpdateType' /\ AgentType' /\ AgentInv'
      BY <2>2, <2>3 DEF Stop, ToolType, UpdateType, AgentType, AgentInv
    <3>2. NumberInv' /\ LastInv' /\ OrderInv'
      BY <2>2, <2>3 DEF Stop, NumberInv, LastInv, OrderInv, FragmentInv, AnswerInv, ReadyInv, Filled
    <3> QED BY <3>1, <3>2
  <2>4. CASE ok /\ tool = "update" /\ SendMessage("fragment", package, 0)
    <3>1. latest = sent /\ TRUE \in answers
      BY <2>4 DEF NumberInv, ToolType
    <3>2. misdelivered = 0 /\ wtp = "running" =>
            state = "BUSY" /\ received = 0 /\ Filled(package, received)
      BY <2>1, <2>4, <3>1 DEF OrderInv, AnswerInv, Filled, PartNumbers
    <3>3. 0 \in PartNumbers
      BY DEF PartNumbers
    <3> QED BY <2>2, <2>4, <3>1, <3>2, <3>3, <1>b
  <2>5. CASE /\ ok /\ tool = "fragment" /\ r.seq + 1 < Parts
             /\ SendMessage("fragment", package, r.seq + 1)
    <3>1. latest = sent /\ TRUE \in answers
      BY <2>5 DEF NumberInv, ToolType
    <3>2. misdelivered = 0 /\ wtp = "running" =>
            state = "BUSY" /\ received = r.seq + 1 /\ Filled(package, received)
      BY <2>1, <2>5, <3>1 DEF OrderInv, AnswerInv
    <3>3. r.seq + 1 \in PartNumbers
      BY <2>5, <1>a DEF PartNumbers
    <3> QED BY <2>2, <2>5, <3>1, <3>2, <3>3, <1>b
  <2>6. CASE SendMessage("commit", 0, 0)
    BY <2>2, <2>6, <1>b DEF Versions, PartNumbers
  <2> QED BY <2>1, <2>3, <2>4, <2>5, <2>6
<1>4. CASE EndTool
  <2>1. ToolType'
    BY <1>4 DEF EndTool, Stop, ToolType
  <2>2. UpdateType'
    BY <1>4 DEF EndTool, Stop, UpdateType, ToolType, NoFile, PartNumbers
  <2>3. AgentType' /\ AgentInv'
    BY <1>4 DEF EndTool, Stop, AgentType, AgentInv, UpdateType, Versions, Mixed
  <2>4. NumberInv'
    BY <1>4 DEF EndTool, Stop, NumberInv, ToolType
  <2>5. LastInv'
    BY <1>4 DEF EndTool, Stop, LastInv, NumberInv, ToolType
  <2>6. OrderInv'
    BY <1>4 DEF EndTool, Stop, OrderInv, FragmentInv, AnswerInv, ReadyInv, Filled,
       NumberInv, LastInv, ToolType, UpdateType
  <2> QED BY <2>1, <2>2, <2>3, <2>4, <2>5, <2>6
<1>5. ASSUME NEW r \in requests, ReceiveUpdateRequest(r) PROVE IInv'
  <2>1. r.type = "update" /\ UNCHANGED <<toolVars, wtp, agentVars>>
    BY <1>5 DEF ReceiveUpdateRequest
  <2>2. AgentType' /\ AgentInv'
    BY <2>1 DEF AgentType, AgentInv
  <2>3. CASE WUMPrepareForUpdate /\ Serve(r, TRUE)
    <3>1. state' = "BUSY" /\ received' = 0 /\ file' = NoFile
      BY <2>3 DEF WUMPrepareForUpdate
    <3>2. UpdateType'
      BY <2>1, <3>1 DEF UpdateType, NoFile
    <3>3. ToolType' /\ NumberInv' /\ LastInv'
      BY <2>1, <2>3, <1>c
    <3>4. OrderInv'
      BY <2>1, <2>3, <3>1, <1>c DEF OrderInv, AnswerInv, ReadyInv, LastInv, Serve
    <3> QED BY <2>2, <3>2, <3>3, <3>4
  <2>4. CASE UNCHANGED wumVars /\ Serve(r, FALSE)
    BY <2>1, <2>2, <2>4, <1>d
  <2> QED BY <1>5, <2>3, <2>4 DEF ReceiveUpdateRequest
<1>6. ASSUME NEW r \in requests, ReceiveFragment(r) PROVE IInv'
  <2>1. r.type = "fragment" /\ UNCHANGED <<toolVars, wtp, agentVars>>
    BY <1>6 DEF ReceiveFragment
  <2>2. AgentType' /\ AgentInv'
    BY <2>1 DEF AgentType, AgentInv
  <2>3. CASE /\ WUMStoreFragment(r) /\ Serve(r, TRUE)
             /\ state' = IF received + 1 >= Parts THEN "READY" ELSE "BUSY"
    <3>1. /\ state = "BUSY" /\ received' = received + 1
          /\ file' = [file EXCEPT ![r.seq] = r.version]
      BY <2>3 DEF WUMStoreFragment
    <3>2. UpdateType'
      BY <2>1, <2>3, <3>1, <1>a DEF UpdateType
    <3>3. ToolType' /\ NumberInv' /\ LastInv'
      BY <2>1, <2>3, <1>c
    <3>4. OrderInv'
      <4> SUFFICES ASSUME misdelivered' = 0 PROVE AnswerInv' /\ ReadyInv'
        BY <2>1, <2>3, <1>c DEF OrderInv
      <4>1. r.seq = received /\ Filled(r.version, received)
        BY <2>1, <2>3, <1>c DEF OrderInv, FragmentInv
      <4>2. \A i \in PartNumbers : i < received' => file'[i] = r.version
        BY <3>1, <4>1, <1>a DEF Filled, UpdateType, PartNumbers
      <4>3. AnswerInv'
        <5> SUFFICES ASSUME TRUE \in answers', NEW s \in requests, s.num = sent, tool # "idle"
                     PROVE  /\ tool = "fragment" /\ received' = s.seq + 1
                            /\ Filled(package, received)'
                            /\ received' < Parts => state' = "BUSY"
          BY <2>1, <2>3 DEF AnswerInv, Serve, toolVars
        <5>1. s = r /\ r.num = sent
          BY <1>c, <2>1, <2>3
        <5>2. tool = "fragment" /\ package = r.version
          BY <5>1, <2>1 DEF LastInv
        <5> QED BY <5>1, <5>2, <2>1, <2>3, <3>1, <4>1, <4>2, <1>a DEF Filled, UpdateType
      <4>4. ReadyInv'
        BY <2>3, <3>1, <4>2, <1>a DEF ReadyInv, Filled, UpdateType, PartNumbers
      <4> QED BY <4>3, <4>4
    <3> QED BY <2>2, <3>2, <3>3, <3>4
  <2>4. CASE UNCHANGED wumVars /\ Serve(r, FALSE)
    BY <2>1, <2>2, <2>4, <1>d
  <2> QED BY <1>6, <2>3, <2>4 DEF ReceiveFragment
<1>7. ASSUME NEW r \in requests, ReceiveCommit(r) PROVE IInv'
  <2>1. /\ Serve(r, state = "READY") /\ agent' \in {"waiting", "failed"} /\ wtp' = "ended"
        /\ UNCHANGED <<toolVars, wumVars, unpacked, backup, installed>> /\ wtp = "running"
    BY <1>7 DEF ReceiveCommit, Serve
  <2>2. UpdateType' /\ AgentType' /\ AgentInv' /\ OrderInv'
    BY <2>1 DEF UpdateType, AgentType, AgentInv, OrderInv
  <2>3. (state = "READY") \in BOOLEAN
    OBVIOUS
  <2>4. ToolType' /\ NumberInv' /\ LastInv'
    BY <2>1, <2>3, <1>c
  <2> QED BY <2>2, <2>4
<1>8. ASSUME NEW r \in requests, ReceiveCancel(r) PROVE IInv'
  <2>1. /\ r.type = "cancel" /\ Serve(r, TRUE) /\ state' = "WAIT"
        /\ file' = IF state = "WAIT" THEN file ELSE NoFile
        /\ UNCHANGED <<toolVars, received, wtp, agentVars>>
    BY <1>8 DEF ReceiveCancel
  <2>2. UpdateType' /\ AgentType' /\ AgentInv'
    BY <2>1 DEF UpdateType, AgentType, AgentInv, NoFile
  <2>3. ToolType' /\ NumberInv' /\ LastInv'
    BY <2>1, <1>c
  <2>4. OrderInv'
    BY <2>1, <1>c DEF OrderInv, AnswerInv, ReadyInv, LastInv, Serve
  <2> QED BY <2>2, <2>3, <2>4
<1>9. CASE LoseAssociation
  <2>1. ToolType'
    BY <1>9 DEF LoseAssociation, ToolType
  <2>2. UpdateType'
    BY <1>9 DEF LoseAssociation, UpdateType, ToolType, NoFile, PartNumbers
  <2>3. AgentType' /\ AgentInv'
    BY <1>9 DEF LoseAssociation, AgentType, AgentInv, UpdateType, Versions, Mixed
  <2>4. NumberInv'
    BY <1>9 DEF LoseAssociation, NumberInv, ToolType
  <2>5. LastInv'
    BY <1>9 DEF LoseAssociation, LastInv, NumberInv, ToolType
  <2>6. OrderInv'
    BY <1>9 DEF LoseAssociation, OrderInv, FragmentInv, AnswerInv, ReadyInv, Filled,
       NumberInv, LastInv, ToolType, UpdateType
  <2> QED BY <2>1, <2>2, <2>3, <2>4, <2>5, <2>6
<1>10. CASE WaitForWTPTermination
  <2>1. ToolType'
    BY <1>10 DEF WaitForWTPTermination, ToolType
  <2>2. UpdateType'
    BY <1>10 DEF WaitForWTPTermination, UpdateType, ToolType, NoFile, PartNumbers
  <2>3. AgentType' /\ AgentInv'
    BY <1>10 DEF WaitForWTPTermination, AgentType, AgentInv, UpdateType, Versions, Mixed
  <2>4. NumberInv'
    BY <1>10 DEF WaitForWTPTermination, NumberInv, ToolType
  <2>5. LastInv'
    BY <1>10 DEF WaitForWTPTermination, LastInv, NumberInv, ToolType
  <2>6. OrderInv'
    BY <1>10 DEF WaitForWTPTermination, AgentInv, UpdateType, OrderInv
  <2> QED BY <2>1, <2>2, <2>3, <2>4, <2>5, <2>6
<1>11. CASE WUAStage1
  <2>1. ToolType'
    BY <1>11 DEF WUAStage1, ToolType
  <2>2. UpdateType'
    BY <1>11 DEF WUAStage1, UpdateType, ToolType, NoFile, PartNumbers
  <2>3. AgentType' /\ AgentInv'
    BY <1>11 DEF WUAStage1, AgentType, AgentInv, UpdateType, Versions, Mixed
  <2>4. NumberInv'
    BY <1>11 DEF WUAStage1, NumberInv, ToolType
  <2>5. LastInv'
    BY <1>11 DEF WUAStage1, LastInv, NumberInv, ToolType
  <2>6. OrderInv'
    BY <1>11 DEF WUAStage1, OrderInv, FragmentInv, AnswerInv, ReadyInv, Filled,
       NumberInv, LastInv, ToolType, UpdateType
  <2> QED BY <2>1, <2>2, <2>3, <2>4, <2>5, <2>6
<1>12. CASE WUAStage2
  <2>1. ToolType'
    BY <1>12 DEF WUAStage2, ToolType
  <2>2. UpdateType'
    BY <1>12 DEF WUAStage2, UpdateType, ToolType, NoFile, PartNumbers
  <2>3. AgentType' /\ AgentInv'
    BY <1>12 DEF WUAStage2, AgentType, AgentInv, UpdateType, Versions, Mixed
  <2>4. NumberInv'
    BY <1>12 DEF WUAStage2, NumberInv, ToolType
  <2>5. LastInv'
    BY <1>12 DEF WUAStage2, LastInv, NumberInv, ToolType
  <2>6. OrderInv'
    BY <1>12 DEF WUAStage2, OrderInv, FragmentInv, AnswerInv, ReadyInv, Filled,
       NumberInv, LastInv, ToolType, UpdateType
  <2> QED BY <2>1, <2>2, <2>3, <2>4, <2>5, <2>6
<1>13. CASE RestoreBackupWTP
  <2>1. ToolType'
    BY <1>13 DEF RestoreBackupWTP, ToolType
  <2>2. UpdateType'
    BY <1>13 DEF RestoreBackupWTP, UpdateType, ToolType, NoFile, PartNumbers
  <2>3. AgentType' /\ AgentInv'
    BY <1>13 DEF RestoreBackupWTP, AgentType, AgentInv, UpdateType, Versions, Mixed
  <2>4. NumberInv'
    BY <1>13 DEF RestoreBackupWTP, NumberInv, ToolType
  <2>5. LastInv'
    BY <1>13 DEF RestoreBackupWTP, LastInv, NumberInv, ToolType
  <2>6. OrderInv'
    BY <1>13 DEF RestoreBackupWTP, OrderInv, FragmentInv, AnswerInv, ReadyInv, Filled,
       NumberInv, LastInv, ToolType, UpdateType
  <2> QED BY <2>1, <2>2, <2>3, <2>4, <2>5, <2>6
<1>14. CASE FinalStage
  <2>1. ToolType'
    BY <1>14 DEF FinalStage, ToolType
  <2>2. UpdateType'
    BY <1>14 DEF FinalStage, UpdateType, ToolType, NoFile, PartNumbers
  <2>3. AgentType' /\ AgentInv'
    BY <1>14 DEF FinalStage, AgentType, AgentInv, UpdateType, Versions, Mixed
  <2>4. NumberInv'
    BY <1>14 DEF FinalStage, NumberInv, ToolType
  <2>5. LastInv'
    BY <1>14 DEF FinalStage, LastInv, NumberInv, ToolType
  <2>6. OrderInv'
    BY <1>14 DEF FinalStage, AgentInv, UpdateType, OrderInv, FragmentInv, AnswerInv, ReadyInv
  <2> QED BY <2>1, <2>2, <2>3, <2>4, <2>5, <2>6
<1>15. CASE UNCHANGED vars
  <2>1. ToolType'
    BY <1>15 DEF vars, ToolType
  <2>2. UpdateType'
    BY <1>15 DEF vars, UpdateType, ToolType, NoFile, PartNumbers
  <2>3. AgentType' /\ AgentInv'
    BY <1>15 DEF vars, AgentType, AgentInv, UpdateType, Versions, Mixed
  <2>4. NumberInv'
    BY <1>15 DEF vars, NumberInv, ToolType
  <2>5. LastInv'
    BY <1>15 DEF vars, LastInv, NumberInv, ToolType
  <2>6. OrderInv'
    BY <1>15 DEF vars, OrderInv, FragmentInv, AnswerInv, ReadyInv, Filled, NumberInv,
       LastInv, ToolType, UpdateType
  <2> QED BY <2>1, <2>2, <2>3, <2>4, <2>5, <2>6
<1> QED
  BY <1>1, <1>2, <1>3, <1>4, <1>5, <1>6, <1>7, <1>8, <1>9, <1>10, <1>11, <1>12, <1>13,
     <1>14, <1>15
  DEF Next, Agent

-----------------------------------------------------------------------------
(* The inductive invariant holds in every state of an update. *)
THEOREM Invariance == Spec => []IInv
BY InitInv, NextInv, PTL DEF Spec

(* The tool, the WTP and the agent keep their types: no part is stored outside *)
(* the package, and no more fragments are counted than it has.                 *)
THEOREM TypeCorrect == Spec => []TypeOK
<1>1. IInv => TypeOK
  BY DEF IInv, ToolType, UpdateType, AgentType, TypeOK
<1> QED BY <1>1, Invariance, PTL

(* In the READY state the file is one whole package, whatever updates went     *)
(* before, unless the network repeated or delayed a message.                   *)
THEOREM ReadyIsWhole == Spec => []ReadyMeansWhole
<1>1. IInv => ReadyMeansWhole
  <2> SUFFICES ASSUME IInv, state = "READY", wtp = "running", misdelivered = 0
               PROVE  \E v \in Versions : \A i \in PartNumbers : file[i] = v
    BY DEF ReadyMeansWhole
  <2>1. PICK v \in Versions : Filled(v, Parts)
    BY DEF IInv, OrderInv, ReadyInv
  <2> QED BY <2>1 DEF Filled, PartNumbers
<1> QED BY <1>1, Invariance, PTL

(* Whatever is committed and wherever the agent fails, a WTP that runs is a    *)
(* whole installation.                                                         *)
THEOREM RunsWholeInstallation == Spec => []RunningIsWhole
<1>1. IInv => RunningIsWhole
  BY DEF IInv, AgentInv, RunningIsWhole
<1> QED BY <1>1, Invariance, PTL
=============================================================================
