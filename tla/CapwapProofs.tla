---------------------------- MODULE CapwapProofs ----------------------------
(***************************************************************************)
(* Proofs about Capwap, for any number of joins, retransmissions, echoes   *)
(* and faults: its type invariant, and that the WTP and the AC implement   *)
(* Association.                                                            *)
(*                                                                         *)
(* The heart is AwaitedInv: whatever is under way with the number that the *)
(* WTP waits for belongs to its current join and to its current phase, so  *)
(* that it may trust a response whose type and number fit without looking  *)
(* at where it comes from.                                                 *)
(***************************************************************************)
EXTENDS Capwap, SequenceTheorems, TLAPS

(* TypeOK, by the actions that disturb a part. *)
WTPType ==
  /\ phase \in Phases /\ era \in 0 .. MaxEras
  /\ seqNum \in 0 .. MaxSeqNum /\ awaited \in 0 .. seqNum
  /\ gWTPRetransmissionCount \in 0 .. gCWMaxRetransmit - 1

ListType == list \in Seq({m \in Messages : m.kind = "response"})

NetType == net \subseteq Messages

ACType ==
  /\ session \in [Eras -> {"none", "run"} \union Requests]
  /\ timer \in [Eras -> BOOLEAN]
  /\ reached \in [Eras -> {"run"} \union Requests]

CountType ==
  /\ echoes \in 0 .. MaxEchoes /\ losses \in 0 .. MaxLosses
  /\ repeats \in 0 .. MaxRepeats /\ breaks \in 0 .. MaxBreaks
  /\ hopeless \in BOOLEAN

(* An association takes three numbers, and every echo one; none of them is 0. *)
SeqInv ==
  /\ phase \in Requests => seqNum <= 3 * (era - 1) + Order[phase] + 1 + echoes
  /\ seqNum <= 3 * era + echoes
  /\ phase \in Requests \union {"run"} => era >= 1
  /\ phase \in Requests => awaited >= 1

(* What is under way, in the network or in the list of the WTP. *)
messages == net \union {list[i] : i \in DOMAIN list}

(* Nothing of the future is under way. *)
OldInv == \A m \in messages : m.era <= era /\ m.seqNum <= seqNum

(* What has the number that is waited for is of this join and this phase, and  *)
(* the AC has accepted a request that it has answered; requests of this join   *)
(* are not ahead of the WTP.                                                   *)
AwaitedInv ==
  phase \in Requests =>
    \A m \in messages :
      /\ m.seqNum = awaited =>
           /\ m.era = era /\ m.type = phase
           /\ m.kind = "response" => reached[era] = After[phase]
      /\ m.kind = "request" /\ m.era = era /\ m.type # "echo" =>
           Order[m.type] <= Order[phase]

(* The AC is at most one phase ahead of the WTP, and never behind. *)
ReachedInv ==
  /\ \A e \in Eras : e > era => reached[e] = "join"
  /\ phase \in Requests => reached[era] \in {phase, After[phase]}
  /\ phase = "run" => reached[era] = "run"

SessionInv == \A e \in Eras : session[e] # "none" => Order[session[e]] <= Order[reached[e]]

IInv ==
  /\ WTPType /\ ListType /\ NetType /\ ACType /\ CountType
  /\ SeqInv /\ OldInv /\ AwaitedInv /\ ReachedInv /\ SessionInv

USE CapwapAssumption DEF CapwapAssumption

-----------------------------------------------------------------------------
(* The phases of an association and their order, written out. *)
LEMMA PhaseOrder ==
  /\ Requests = {"join", "configure", "dataCheck"}
  /\ After["join"] = "configure" /\ After["configure"] = "dataCheck"
  /\ After["dataCheck"] = "run"
  /\ Order["join"] = 0 /\ Order["configure"] = 1 /\ Order["dataCheck"] = 2
  /\ Order["run"] = 3
BY DEF Requests, After, Order

(* The initial states satisfy the inductive invariant. *)
LEMMA InitInv == Init => IInv
<1> SUFFICES ASSUME Init PROVE IInv
  OBVIOUS
<1>1. WTPType
  <2>1. MaxSeqNum \in Nat
    BY DEF MaxSeqNum
  <2>2. gWTPRetransmissionCount \in 0 .. gCWMaxRetransmit - 1
    BY DEF Init
  <2> QED BY <2>1, <2>2 DEF Init, WTPType, Phases
<1>6. CountType
  <2>1. hopeless \in BOOLEAN
    BY Zenon DEF Init
  <2> QED BY <2>1 DEF Init, CountType
<1>2. ListType /\ NetType
  BY DEF Init, ListType, NetType
<1>3. ACType /\ SessionInv
  BY PhaseOrder DEF Init, ACType, SessionInv
<1>4. SeqInv /\ AwaitedInv /\ ReachedInv
  BY PhaseOrder DEF Init, SeqInv, AwaitedInv, ReachedInv, Eras
<1>5. OldInv
  BY DEF Init, OldInv, messages
<1> QED BY <1>1, <1>2, <1>3, <1>4, <1>5, <1>6 DEF IInv

(* What is under way is a message; what is in the list is a response. *)
LEMMA MessagesTyped ==
  ASSUME ListType, NetType
  PROVE  /\ messages \subseteq Messages
         /\ \A m \in messages : m.era \in Nat /\ m.seqNum \in Nat \ {0}
                                 /\ m.type \in Requests \union {"echo"}
<1>1. \A i \in DOMAIN list : list[i] \in Messages
  <2>1. list \in Seq({m \in Messages : m.kind = "response"})
    BY DEF ListType
  <2> QED BY <2>1
<1>2. messages \subseteq Messages
  BY <1>1 DEF NetType, messages
<1> QED BY <1>2 DEF Messages, Eras

(* A request that is sent is a message. *)
LEMMA RequestTyped ==
  ASSUME NEW type \in Requests \union {"echo"}, NEW e \in Eras,
         NEW num \in 1 .. MaxSeqNum, NEW copy \in 0 .. gCWMaxRetransmit
  PROVE  Request(type, e, num, copy) \in Messages
BY DEF Request, Messages

(* Taking the first packet out of the list adds nothing to what is under way. *)
LEMMA TailTyped ==
  ASSUME ListType, list # <<>>, list' = Tail(list)
  PROVE  /\ ListType'
         /\ Head(list) \in messages /\ Head(list).kind = "response"
         /\ \A i \in DOMAIN list' : list'[i] \in messages
<1> DEFINE S == {m \in Messages : m.kind = "response"}
<1>1. list \in Seq(S)
  BY DEF ListType
<1>2. Tail(list) \in Seq(S) /\ Len(Tail(list)) = Len(list) - 1 /\ Len(list) \in Nat \ {0}
      /\ \A i \in 1 .. Len(list) - 1 : Tail(list)[i] = list[i + 1]
  <2> HIDE DEF S
  <2> QED BY <1>1, HeadTailProperties
<1>3. Head(list) = list[1] /\ 1 \in DOMAIN list
  BY <1>1, <1>2
<1>4. \A i \in DOMAIN list' : i + 1 \in DOMAIN list /\ list'[i] = list[i + 1]
  BY <1>1, <1>2
<1>5. Head(list).kind = "response"
  BY <1>1, <1>3
<1> QED BY <1>2, <1>3, <1>4, <1>5 DEF ListType, messages

-----------------------------------------------------------------------------
(* Every step preserves the inductive invariant, action by action. *)
LEMMA NextInv == IInv /\ [Next]_vars => IInv'
<1> SUFFICES ASSUME IInv, [Next]_vars PROVE IInv'
  OBVIOUS
<1> USE DEF IInv
<1>a. /\ messages \subseteq Messages
      /\ \A m \in messages : m.era \in Nat /\ m.seqNum \in Nat \ {0}
                              /\ m.type \in Requests \union {"echo"}
  BY MessagesTyped
<1>b. era \in Nat /\ seqNum \in Nat /\ awaited \in Nat /\ awaited <= seqNum /\ echoes \in Nat
      /\ gWTPRetransmissionCount \in Nat /\ phase \in Phases /\ era <= MaxEras
  BY DEF WTPType, CountType
<1>c. phase \in Requests =>
        era \in Eras /\ 3 * (era - 1) >= 0 /\ Order[phase] \in 0 .. 2 /\ awaited >= 1
  BY <1>b, PhaseOrder DEF SeqInv, Eras
<1>1. CASE CWWTPEnterJoin
  <2> DEFINE r == Request("join", era + 1, seqNum + 1, 0)
  <2>1. /\ phase = "discovery" /\ phase' = "join" /\ era' = era + 1 /\ era + 1 \in Eras
        /\ seqNum' = seqNum + 1 /\ awaited' = seqNum + 1 /\ gWTPRetransmissionCount' = 0
        /\ net' = net \union {r} /\ list' = list
        /\ UNCHANGED <<acVars, echoes, faultVars>>
    BY <1>1, <1>b DEF CWWTPEnterJoin, SendRequest, Eras
  <2>2. seqNum + 1 \in 1 .. MaxSeqNum
    BY <2>1, <1>b DEF SeqInv, MaxSeqNum, Eras, CountType
  <2>3. WTPType'
    BY <2>1, <2>2, <1>b, PhaseOrder DEF WTPType, Phases, Eras
  <2>4. ListType' /\ ACType' /\ CountType' /\ SessionInv'
    BY <2>1 DEF ListType, ACType, CountType, SessionInv, acVars, faultVars
  <2>5. r \in Messages
    BY <2>1, <2>2, RequestTyped, PhaseOrder
  <2>6. NetType'
    BY <2>1, <2>5 DEF NetType
  <2>7. SeqInv'
    BY <2>1, <1>b, PhaseOrder DEF SeqInv
  <2>8. messages' = messages \union {r}
    BY <2>1 DEF messages
  <2>9. r.kind = "request" /\ r.era = era + 1 /\ r.seqNum = seqNum + 1 /\ r.type = "join"
    BY DEF Request
  <2> HIDE DEF r
  <2>10. OldInv'
    BY <2>1, <2>8, <2>9, <1>a, <1>b DEF OldInv
  <2>11. AwaitedInv'
    BY <2>1, <2>8, <2>9, <1>a, <1>b, PhaseOrder DEF AwaitedInv, OldInv
  <2>12. ReachedInv'
    BY <2>1, <1>b, PhaseOrder DEF ReachedInv, acVars, Eras
  <2> QED BY <2>3, <2>4, <2>6, <2>7, <2>10, <2>11, <2>12
<1>d. ASSUME Retransmit, phase \in Requests, era' = era, seqNum' = seqNum, awaited' = awaited,
             UNCHANGED <<acVars, echoes, faultVars>>, ListType',
             \A i \in DOMAIN list' : list'[i] \in messages
      PROVE  IInv'
  <2>1. ListType' /\ ACType' /\ CountType' /\ SessionInv'
    BY <1>d DEF ACType, CountType, SessionInv, acVars, faultVars
  <2>2. CASE RequestFails
    <3>1. /\ phase' \in {"ended", "discovery"} /\ phase' \notin Requests
          /\ gWTPRetransmissionCount' = gWTPRetransmissionCount /\ net' = net
      BY <2>2, PhaseOrder DEF RequestFails
    <3>2. WTPType' /\ NetType' /\ SeqInv' /\ AwaitedInv' /\ ReachedInv'
      BY <3>1, <1>d, <1>b, PhaseOrder
      DEF WTPType, NetType, SeqInv, AwaitedInv, ReachedInv, Phases, acVars
    <3>3. messages' \subseteq messages
      BY <3>1, <1>d DEF messages
    <3>4. OldInv'
      BY <3>3, <1>d DEF OldInv
    <3> QED BY <2>1, <3>2, <3>4
  <2>3. CASE ~ RequestFails
    <3> DEFINE r == Request(phase, era, awaited, gWTPRetransmissionCount + 1)
    <3>1. /\ gWTPRetransmissionCount + 1 < gCWMaxRetransmit
          /\ gWTPRetransmissionCount' = gWTPRetransmissionCount + 1
          /\ net' = net \union {r} /\ phase' = phase
      BY <2>3, <1>d DEF Retransmit
    <3>2. WTPType' /\ SeqInv' /\ ReachedInv'
      BY <3>1, <1>d, <1>b DEF WTPType, SeqInv, ReachedInv, acVars
    <3>3. r \in Messages
      <4>1. awaited \in 1 .. MaxSeqNum /\ gWTPRetransmissionCount + 1 \in 0 .. gCWMaxRetransmit
        BY <3>1, <1>b, <1>c, <1>d DEF WTPType, MaxSeqNum
      <4> QED BY <4>1, <1>c, <1>d, RequestTyped
    <3>4. NetType'
      BY <3>1, <3>3 DEF NetType
    <3>5. messages' \subseteq messages \union {r}
      BY <3>1, <1>d DEF messages
    <3>6. r.kind = "request" /\ r.era = era /\ r.seqNum = awaited /\ r.type = phase
      BY DEF Request
    <3> HIDE DEF r
    <3>7. OldInv'
      BY <3>5, <3>6, <1>b, <1>d DEF OldInv
    <3>8. AwaitedInv'
      BY <3>1, <3>5, <3>6, <1>c, <1>d DEF AwaitedInv, acVars
    <3> QED BY <2>1, <3>2, <3>4, <3>7, <3>8
  <2> QED BY <2>2, <2>3
<1>2. CASE Timeout
  <2>1. Retransmit /\ phase \in Requests /\ UNCHANGED <<era, seqNum, awaited, list, acVars, echoes, faultVars>>
    BY <1>2 DEF Timeout
  <2>2. \A i \in DOMAIN list' : list'[i] \in messages
    BY <2>1 DEF messages
  <2>3. ListType'
    BY <2>1 DEF ListType
  <2> QED BY <2>1, <2>2, <2>3, <1>d
<1>3. CASE ReceiveResponse
  <2>1. phase \in Requests /\ list # <<>> /\ list' = Tail(list) /\ UNCHANGED <<era, acVars, echoes, faultVars>>
    BY <1>3 DEF ReceiveResponse
  <2>2. /\ ListType' /\ Head(list) \in messages /\ Head(list).kind = "response"
        /\ \A i \in DOMAIN list' : list'[i] \in messages
    BY <2>1, TailTyped
  <2>3. CASE ~ IsAwaited(Head(list))
    <3>1. Retransmit /\ UNCHANGED <<seqNum, awaited>>
      BY <1>3, <2>3 DEF ReceiveResponse
    <3> QED BY <2>1, <2>2, <3>1, <1>d
  <2>4. CASE IsAwaited(Head(list))
    <3>1. reached[era] = After[phase]
      BY <2>1, <2>2, <2>4 DEF IsAwaited, AwaitedInv
    <3>2. ListType' /\ ACType' /\ CountType' /\ SessionInv'
      BY <2>1, <2>2 DEF ACType, CountType, SessionInv, acVars, faultVars
    <3>3. CASE phase = "dataCheck"
      <4>1. phase' = "run" /\ UNCHANGED <<seqNum, awaited, gWTPRetransmissionCount, net>>
        BY <1>3, <2>4, <3>3, PhaseOrder DEF ReceiveResponse
      <4>2. WTPType' /\ NetType' /\ SeqInv' /\ AwaitedInv' /\ ReachedInv'
        BY <4>1, <2>1, <3>1, <3>3, PhaseOrder
        DEF WTPType, NetType, SeqInv, AwaitedInv, ReachedInv, Phases, acVars
      <4>3. messages' \subseteq messages
        BY <4>1, <2>2 DEF messages
      <4>4. OldInv'
        BY <4>1, <4>3, <2>1 DEF OldInv
      <4> QED BY <3>2, <4>2, <4>4
    <3>4. CASE phase # "dataCheck"
      <4> DEFINE r == Request(After[phase], era, seqNum + 1, 0)
      <4>1. /\ After[phase] \in Requests /\ Order[After[phase]] = Order[phase] + 1
            /\ After[phase] # phase
        BY <2>1, <3>4, PhaseOrder
      <4>2. /\ phase' = After[phase]
            /\ seqNum' = seqNum + 1 /\ awaited' = seqNum + 1 /\ gWTPRetransmissionCount' = 0
            /\ net' = net \union {r}
        BY <1>3, <2>4, <4>1 DEF ReceiveResponse, SendRequest
      <4>3. Order[After[phase]] \in 0 .. 2
        BY <4>1, PhaseOrder
      <4>4. seqNum + 1 <= 3 * (era - 1) + Order[After[phase]] + 1 + echoes /\ seqNum + 1 <= 3 * era + echoes
        BY <4>1, <4>3, <2>1, <1>b, <1>c DEF SeqInv
      <4>5. seqNum + 1 \in 1 .. MaxSeqNum
        BY <4>4, <1>b DEF MaxSeqNum, CountType
      <4>6. WTPType'
        BY <4>1, <4>2, <4>5, <2>1 DEF WTPType, Phases
      <4>7. r \in Messages
        BY <4>1, <4>5, <2>1, <1>c, RequestTyped
      <4>8. NetType'
        BY <4>2, <4>7 DEF NetType
      <4>9. SeqInv'
        BY <4>2, <4>4, <2>1, <1>b, <1>c DEF SeqInv
      <4>10. messages' \subseteq messages \union {r}
        BY <4>2, <2>2 DEF messages
      <4>11. /\ r.kind = "request" /\ r.era = era /\ r.seqNum = seqNum + 1 /\ r.type = After[phase]
        BY DEF Request
      <4> HIDE DEF r
      <4>12. OldInv'
        BY <4>2, <4>10, <4>11, <2>1, <1>a, <1>b DEF OldInv
      <4>13. AwaitedInv'
        <5>1. SUFFICES ASSUME NEW m \in messages'
              PROVE  /\ m.seqNum = seqNum + 1 => m.era = era /\ m.type = After[phase] /\ m.kind = "request"
                     /\ m.kind = "request" /\ m.era = era /\ m.type # "echo" =>
                          Order[m.type] <= Order[After[phase]]
          BY <4>2, <2>1, PhaseOrder DEF AwaitedInv
        <5>2. CASE m = r
          BY <5>2, <4>11, <4>3
        <5>3. CASE m \in messages
          <6>1. m.seqNum # seqNum + 1
            BY <5>3, <1>a, <1>b DEF OldInv
          <6>2. m.kind = "request" /\ m.era = era /\ m.type # "echo" => Order[m.type] <= Order[phase]
            BY <5>3, <2>1 DEF AwaitedInv
          <6>3. m.type # "echo" => Order[m.type] \in 0 .. 2
            BY <5>3, <1>a, PhaseOrder
          <6> QED BY <6>1, <6>2, <6>3, <4>1, <2>1, <1>c
        <5> QED BY <4>10, <5>2, <5>3
      <4>14. ReachedInv'
        BY <4>1, <4>2, <3>1, <2>1, PhaseOrder DEF ReachedInv, acVars
      <4> QED BY <3>2, <4>6, <4>8, <4>9, <4>12, <4>13, <4>14
    <3> QED BY <3>3, <3>4
  <2> QED BY <2>3, <2>4
<1>e. ASSUME messages' \subseteq messages, UNCHANGED <<wtpVars, seqNum, reached>>
      PROVE  OldInv' /\ AwaitedInv' /\ ReachedInv'
  BY <1>e DEF OldInv, AwaitedInv, ReachedInv, wtpVars
<1>4. CASE ReceiveInRun
  <2>1. list # <<>> /\ list' = Tail(list) /\ UNCHANGED <<wtpVars, seqNum, acVars, net, echoes, faultVars>>
    BY <1>4 DEF ReceiveInRun
  <2>2. ListType' /\ \A i \in DOMAIN list' : list'[i] \in messages
    BY <2>1, TailTyped
  <2>3. messages' \subseteq messages
    BY <2>1, <2>2 DEF messages
  <2>4. OldInv' /\ AwaitedInv' /\ ReachedInv'
    BY <2>1, <2>3, <1>e DEF acVars
  <2> QED BY <2>1, <2>2, <2>4
    DEF WTPType, NetType, ACType, CountType, SeqInv, SessionInv, wtpVars, acVars, faultVars
<1>5. CASE LeaveRun
  <2>1. /\ phase' = "discovery"
        /\ UNCHANGED <<era, awaited, gWTPRetransmissionCount, seqNum, list, acVars, net, echoes, faultVars>>
    BY <1>5 DEF LeaveRun
  <2>2. WTPType' /\ SeqInv' /\ AwaitedInv' /\ ReachedInv'
    BY <2>1, PhaseOrder DEF WTPType, SeqInv, AwaitedInv, ReachedInv, Phases, acVars
  <2>3. ListType' /\ NetType' /\ ACType' /\ CountType' /\ SessionInv' /\ OldInv'
    BY <2>1 DEF ListType, NetType, ACType, CountType, SessionInv, OldInv, messages, acVars, faultVars
  <2> QED BY <2>2, <2>3
<1>6. CASE SendEcho
  <2> DEFINE r == Request("echo", era, seqNum + 1, 0)
  <2>1. /\ phase \in {"dataCheck", "run"} /\ echoes < MaxEchoes /\ echoes' = echoes + 1
        /\ seqNum' = seqNum + 1 /\ net' = net \union {r}
        /\ UNCHANGED <<wtpVars, list, acVars, faultVars>>
    BY <1>6 DEF SendEcho
  <2>2. era \in Eras
    BY <2>1, <1>b, PhaseOrder DEF SeqInv, Eras
  <2>3. SeqInv'
    BY <2>1, <1>b, <1>c DEF SeqInv, wtpVars
  <2>4. seqNum + 1 \in 1 .. MaxSeqNum
    BY <2>1, <1>b DEF SeqInv, MaxSeqNum, CountType
  <2>5. WTPType' /\ CountType'
    BY <2>1, <2>4, <1>b DEF WTPType, CountType, wtpVars, faultVars
  <2>6. ListType' /\ ACType' /\ SessionInv' /\ ReachedInv'
    BY <2>1 DEF ListType, ACType, SessionInv, ReachedInv, acVars, wtpVars
  <2>7. r \in Messages
    BY <2>2, <2>4, RequestTyped
  <2>8. NetType'
    BY <2>1, <2>7 DEF NetType
  <2>9. messages' = messages \union {r}
    BY <2>1 DEF messages
  <2>10. r.kind = "request" /\ r.type = "echo" /\ r.era = era /\ r.seqNum = seqNum + 1
    BY DEF Request
  <2> HIDE DEF r
  <2>11. OldInv'
    BY <2>1, <2>9, <2>10, <1>a, <1>b DEF OldInv, wtpVars
  <2>12. AwaitedInv'
    BY <2>1, <2>9, <2>10, <1>b DEF AwaitedInv, wtpVars, acVars
  <2> QED BY <2>3, <2>5, <2>6, <2>8, <2>11, <2>12
<1>7. ASSUME NEW m \in net, CWWTPReceiveDtlsPacket(m) PROVE IInv'
  <2>1. /\ m.kind = "response" /\ list' \in {list, Append(list, m)} /\ net' \subseteq net
        /\ repeats' \in 0 .. MaxRepeats
        /\ UNCHANGED <<wtpVars, seqNum, acVars, echoes, losses, breaks, hopeless>>
    BY <1>7 DEF CWWTPReceiveDtlsPacket, Arrives, CountType
  <2>2. ListType' /\ \A i \in DOMAIN list' : list'[i] \in messages
    <3> DEFINE S == {n \in Messages : n.kind = "response"}
    <3>1. m \in S /\ list \in Seq(S)
      BY <2>1 DEF NetType, ListType
    <3>2. /\ Append(list, m) \in Seq(S) /\ Len(Append(list, m)) = Len(list) + 1
          /\ \A i \in 1 .. Len(list) : Append(list, m)[i] = list[i]
          /\ Append(list, m)[Len(list) + 1] = m
      <4> HIDE DEF S
      <4> QED BY <3>1, AppendProperties
    <3>3. list' \in Seq(S)
      BY <2>1, <3>1, <3>2
    <3>4. \A i \in DOMAIN list' : list'[i] \in messages
      <4>1. CASE list' = list
        BY <4>1 DEF messages
      <4>2. CASE list' = Append(list, m)
        <5>1. DOMAIN list' = 1 .. Len(list) + 1 /\ DOMAIN list = 1 .. Len(list) /\ Len(list) \in Nat
          <6> HIDE DEF S
          <6> QED BY <3>1, <3>2, <4>2
        <5> QED BY <5>1, <3>2, <4>2 DEF messages
      <4> QED BY <4>1, <4>2, <2>1
    <3> QED BY <3>3, <3>4 DEF ListType
  <2>3. messages' \subseteq messages
    BY <2>1, <2>2 DEF messages
  <2>4. OldInv' /\ AwaitedInv' /\ ReachedInv'
    BY <2>1, <2>3, <1>e DEF acVars
  <2> QED BY <2>1, <2>2, <2>4
    DEF WTPType, NetType, ACType, CountType, SeqInv, SessionInv, wtpVars, acVars
<1>8. ASSUME NEW m \in net, ReceiveRequest(m) PROVE IInv'
  <2>1. /\ m.kind = "request" /\ m \in messages /\ m.era \in Eras /\ m.era <= era
        /\ m.type \in Requests \union {"echo"}
        /\ UNCHANGED <<wtpVars, seqNum, list, echoes, losses, breaks, hopeless>>
    BY <1>8, <1>a DEF ReceiveRequest, NetType, Messages, messages, OldInv
  <2>2. WTPType' /\ ListType' /\ SeqInv'
    BY <2>1 DEF WTPType, ListType, SeqInv, wtpVars
  <2>3. repeats' \in 0 .. MaxRepeats /\ net' \subseteq net \union {Answer(m)}
    BY <1>8 DEF ReceiveRequest, AcceptRequest, AnswerInRun, IgnoreRequest, Arrives, CountType
  <2>4. CountType'
    BY <2>1, <2>3 DEF CountType
  <2>5. /\ Answer(m) \in Messages /\ Answer(m).kind = "response" /\ Answer(m).type = m.type
        /\ Answer(m).era = m.era /\ Answer(m).seqNum = m.seqNum
    <3>1. m \in Messages
      BY <2>1, <1>a
    <3> QED BY <3>1 DEF Answer, Messages
  <2>6. NetType'
    BY <2>3, <2>5 DEF NetType
  <2>7. messages' \subseteq messages \union {Answer(m)}
    BY <2>1, <2>3 DEF messages
  <2>8. OldInv'
    BY <2>1, <2>5, <2>7 DEF OldInv, wtpVars
  <2>9. StateOf(m.era) \in Requests \union {"run"} /\ Order[StateOf(m.era)] <= Order[reached[m.era]]
    <3>1. Order[reached[m.era]] \in 0 .. 3 /\ session[m.era] \in {"none", "run"} \union Requests
      BY <2>1, PhaseOrder DEF ACType
    <3> QED BY <3>1, <2>1, PhaseOrder DEF StateOf, SessionInv
  <2>10. CASE AcceptRequest(m)
    <3>1. /\ m.type \in Requests /\ m.type = StateOf(m.era)
          /\ session' = [session EXCEPT ![m.era] = After[m.type]]
          /\ timer' = [timer EXCEPT ![m.era] = m.type # "join"]
          /\ reached' = [reached EXCEPT ![m.era] =
                           IF Order[After[m.type]] > Order[@] THEN After[m.type] ELSE @]
      BY <2>10, <2>1, <2>9, PhaseOrder DEF AcceptRequest
    <3>2. /\ After[m.type] \in {"run"} \union Requests
          /\ Order[After[m.type]] = Order[m.type] + 1 /\ Order[m.type] \in 0 .. 2
      BY <3>1, PhaseOrder
    <3>3. ACType'
      <4>1. timer' \in [Eras -> BOOLEAN]
        BY <3>1 DEF ACType
      <4>2. session' \in [Eras -> {"none", "run"} \union Requests]
        BY <3>1, <3>2 DEF ACType
      <4>3. reached' \in [Eras -> {"run"} \union Requests]
        BY <3>1, <3>2 DEF ACType
      <4> QED BY <4>1, <4>2, <4>3 DEF ACType
    <3>4. /\ \A e \in Eras : e # m.era => reached'[e] = reached[e] /\ session'[e] = session[e]
          /\ session'[m.era] = After[m.type]
          /\ reached'[m.era] =
               IF Order[After[m.type]] > Order[reached[m.era]] THEN After[m.type] ELSE reached[m.era]
      BY <3>1, <2>1 DEF ACType
    <3>5. SessionInv'
      <4> SUFFICES ASSUME NEW e \in Eras, session'[e] # "none"
                   PROVE  Order[session'[e]] <= Order[reached'[e]]
        BY DEF SessionInv
      <4>1. CASE e # m.era
        BY <4>1, <3>4 DEF SessionInv
      <4>2. CASE e = m.era
        <5>1. Order[reached[m.era]] \in 0 .. 3
          BY <2>1, PhaseOrder DEF ACType
        <5> QED BY <4>2, <5>1, <3>2, <3>4
      <4> QED BY <4>1, <4>2
    <3>6. phase \in Requests /\ m.era = era =>
            /\ reached'[era] \in {phase, After[phase]}
            /\ reached[era] = After[phase] => reached'[era] = After[phase]
            /\ m.type = phase => reached'[era] = After[phase]
      <4> SUFFICES ASSUME phase \in Requests, m.era = era
                   PROVE  /\ reached'[era] \in {phase, After[phase]}
                          /\ reached[era] = After[phase] => reached'[era] = After[phase]
                          /\ m.type = phase => reached'[era] = After[phase]
        OBVIOUS
      <4>1. Order[m.type] <= Order[phase] /\ reached[era] \in {phase, After[phase]}
        BY <2>1, <3>1, PhaseOrder DEF AwaitedInv, ReachedInv
      <4> QED BY <4>1, <3>1, <3>2, <3>4, PhaseOrder
    <3>7. ReachedInv'
      <4>1. \A e \in Eras : e > era' => reached'[e] = "join"
        BY <3>4, <2>1, <1>b DEF ReachedInv, wtpVars, Eras
      <4>2. phase' \in Requests => reached'[era'] \in {phase', After[phase']}
        BY <3>4, <3>6, <2>1, <1>c DEF ReachedInv, wtpVars
      <4>3. phase' = "run" => reached'[era'] = "run"
        <5> SUFFICES ASSUME phase = "run" PROVE reached'[era] = "run"
          BY <2>1 DEF wtpVars
        <5>1. era \in Eras /\ reached[era] = "run"
          BY <1>b DEF ReachedInv, SeqInv, Eras
        <5> QED BY <5>1, <3>2, <3>4, PhaseOrder
      <4> QED BY <4>1, <4>2, <4>3 DEF ReachedInv
    <3>8. AwaitedInv'
      <4> SUFFICES ASSUME phase \in Requests, NEW n \in messages'
                   PROVE  /\ n.seqNum = awaited =>
                               /\ n.era = era /\ n.type = phase
                               /\ n.kind = "response" => reached'[era] = After[phase]
                          /\ n.kind = "request" /\ n.era = era /\ n.type # "echo" =>
                               Order[n.type] <= Order[phase]
        BY <2>1 DEF AwaitedInv, wtpVars
      <4>1. CASE n \in messages
        <5>1. reached[era] = After[phase] => reached'[era] = After[phase]
          BY <3>4, <3>6, <1>c
        <5> QED BY <4>1, <5>1 DEF AwaitedInv
      <4>2. CASE n = Answer(m)
        BY <4>2, <2>1, <2>5, <3>6 DEF AwaitedInv
      <4> QED BY <4>1, <4>2, <2>7
    <3> QED BY <2>2, <2>4, <2>6, <2>8, <3>3, <3>5, <3>7, <3>8
  <2>11. CASE AnswerInRun(m)
    <3>1. /\ StateOf(m.era) = "run" /\ timer' = [timer EXCEPT ![m.era] = TRUE]
          /\ UNCHANGED <<session, reached>>
      BY <2>11 DEF AnswerInRun
    <3>2. ACType' /\ SessionInv' /\ ReachedInv'
      BY <3>1, <2>1 DEF ACType, SessionInv, ReachedInv, wtpVars
    <3>3. AwaitedInv'
      <4> SUFFICES ASSUME phase \in Requests, NEW n \in messages'
                   PROVE  /\ n.seqNum = awaited =>
                               /\ n.era = era /\ n.type = phase
                               /\ n.kind = "response" => reached[era] = After[phase]
                          /\ n.kind = "request" /\ n.era = era /\ n.type # "echo" =>
                               Order[n.type] <= Order[phase]
        BY <3>1, <2>1 DEF AwaitedInv, wtpVars
      <4>1. CASE n \in messages
        BY <4>1 DEF AwaitedInv
      <4>2. CASE n = Answer(m)
        <5>1. reached[m.era] = "run"
          BY <3>1, <2>1, <2>9, PhaseOrder DEF ACType
        <5>2. m.era = era => reached[era] = After[phase]
          BY <5>1, PhaseOrder DEF ReachedInv
        <5> QED BY <4>2, <5>2, <2>1, <2>5 DEF AwaitedInv
      <4> QED BY <4>1, <4>2, <2>7
    <3> QED BY <2>2, <2>4, <2>6, <2>8, <3>2, <3>3
  <2>12. CASE IgnoreRequest(m)
    <3>1. /\ session' = [session EXCEPT ![m.era] = StateOf(m.era)]
          /\ timer' = [timer EXCEPT ![m.era] = StateOf(m.era) # "dataCheck" /\ TimerOf(m.era)]
          /\ net' \subseteq net /\ UNCHANGED reached
      BY <2>12 DEF IgnoreRequest, Arrives
    <3>2. ACType'
      <4>1. timer' \in [Eras -> BOOLEAN]
        BY <3>1 DEF ACType
      <4> QED BY <4>1, <3>1, <2>9 DEF ACType
    <3>3. SessionInv'
      BY <3>1, <2>1, <2>9 DEF SessionInv, ACType
    <3>4. messages' \subseteq messages
      BY <3>1, <2>1 DEF messages
    <3>5. AwaitedInv' /\ ReachedInv'
      BY <3>1, <3>4, <2>1, <1>e
    <3> QED BY <2>2, <2>4, <2>6, <2>8, <3>2, <3>3, <3>5
  <2> QED BY <1>8, <2>10, <2>11, <2>12 DEF ReceiveRequest
<1>9. ASSUME NEW m \in net, Lose(m) PROVE IInv'
  <2>1. /\ losses < MaxLosses /\ losses' = losses + 1 /\ net' \subseteq net
        /\ UNCHANGED <<wtpVars, seqNum, list, acVars, echoes, repeats, breaks>>
    BY <1>9 DEF Lose
  <2>2. hopeless' \in BOOLEAN
    BY <1>9, Zenon DEF Lose
  <2>3. messages' \subseteq messages
    BY <2>1 DEF messages
  <2>4. OldInv' /\ AwaitedInv' /\ ReachedInv'
    BY <2>1, <2>3, <1>e DEF acVars
  <2>5. CountType'
    BY <2>1, <2>2 DEF CountType
  <2> QED BY <2>1, <2>4, <2>5
    DEF WTPType, ListType, NetType, ACType, SeqInv, SessionInv, wtpVars, acVars
<1>10. ASSUME NEW e \in Eras, CloseSession(e) PROVE IInv'
  <2>1. /\ session' = [session EXCEPT ![e] = "none"] /\ timer' = [timer EXCEPT ![e] = FALSE]
        /\ net' \subseteq net /\ breaks' \in 0 .. MaxBreaks
        /\ UNCHANGED <<wtpVars, seqNum, list, reached, echoes, losses, repeats>>
    BY <1>10 DEF CloseSession, CountType
  <2>2. hopeless' \in BOOLEAN
    <3>1. hopeless \in BOOLEAN
      BY DEF CountType
    <3> QED BY <1>10, <3>1, Zenon DEF CloseSession
  <2>3. messages' \subseteq messages
    BY <2>1 DEF messages
  <2>4. OldInv' /\ AwaitedInv' /\ ReachedInv'
    BY <2>1, <2>3, <1>e
  <2>5. CountType'
    BY <2>1, <2>2 DEF CountType
  <2>6. ACType' /\ SessionInv'
    BY <2>1 DEF ACType, SessionInv
  <2> QED BY <2>1, <2>4, <2>5, <2>6
    DEF WTPType, ListType, NetType, SeqInv, wtpVars
<1>11. CASE UNCHANGED vars
  BY <1>11 DEF vars, wtpVars, acVars, faultVars, WTPType, ListType, NetType, ACType, CountType,
               SeqInv, OldInv, messages, AwaitedInv, ReachedInv, SessionInv
<1> QED
  BY <1>1, <1>2, <1>3, <1>4, <1>5, <1>6, <1>7, <1>8, <1>9, <1>10, <1>11
  DEF Next, Main, Deliver

-----------------------------------------------------------------------------
(* The WTP and the AC keep their types: their numbers, counters and histories  *)
(* stay within what the constants allow, whatever the network does.            *)
THEOREM TypeCorrect == Spec => []TypeOK
<1>1. IInv => TypeOK
  BY DEF IInv, WTPType, ListType, NetType, ACType, CountType, TypeOK
<1> QED BY <1>1, InitInv, NextInv, PTL DEF Spec

(* A step of the WTP, the AC or the network is a step of the association, or   *)
(* leaves it alone.                                                            *)
LEMMA StepSimulation == IInv /\ [Next]_vars => [Agreement!Next]_(Agreement!vars)
<1> SUFFICES ASSUME IInv, [Next]_vars PROVE [Agreement!Next]_(Agreement!vars)
  OBVIOUS
<1> USE DEF IInv
<1> DEFINE idle == phase \in {"discovery", "ended"}
<1>a. ASSUME phase' = phase, era' = era, ~ idle => reached'[era] = reached[era]
      PROVE  UNCHANGED Agreement!vars
  BY <1>a DEF Agreement!vars
<1>b. \A m \in messages : m.type \in Requests \union {"echo"}
  BY MessagesTyped
<1>d. ASSUME Retransmit, phase \in Requests, era' = era, reached' = reached
      PROVE  [Agreement!Next]_(Agreement!vars)
  <2>1. CASE phase' = phase
    BY <2>1, <1>a, <1>d
  <2>2. CASE RequestFails
    <3>1. Agreement!GiveUp
      BY <2>2, <1>d, PhaseOrder DEF RequestFails, Agreement!GiveUp
    <3> QED BY <3>1 DEF Agreement!Next
  <2> QED BY <2>1, <2>2, <1>d DEF Retransmit
<1>1. CASE CWWTPEnterJoin
  <2>1. /\ phase = "discovery" /\ phase' = "join" /\ era' = era + 1 /\ era + 1 \in Eras
        /\ reached' = reached
    BY <1>1 DEF CWWTPEnterJoin, acVars, WTPType, Eras
  <2>2. reached'[era'] = "join"
    BY <2>1 DEF ReachedInv, WTPType
  <2>3. Agreement!Begin
    BY <2>1, <2>2 DEF Agreement!Begin
  <2> QED BY <2>3 DEF Agreement!Next
<1>2. CASE Timeout
  BY <1>2, <1>d DEF Timeout, acVars
<1>3. CASE ReceiveResponse
  <2>1. phase \in Requests /\ era' = era /\ reached' = reached
    BY <1>3 DEF ReceiveResponse, acVars
  <2>2. CASE ~ IsAwaited(Head(list))
    BY <1>3, <1>d, <2>1, <2>2 DEF ReceiveResponse
  <2>3. CASE IsAwaited(Head(list))
    <3>1. phase' = After[phase] /\ Head(list) \in messages /\ Head(list).kind = "response"
      BY <1>3, <2>3, TailTyped DEF ReceiveResponse
    <3>2. reached[era] = After[phase]
      BY <2>1, <2>3, <3>1 DEF IsAwaited, AwaitedInv
    <3>3. Agreement!Enter
      BY <2>1, <3>1, <3>2, PhaseOrder
      DEF Agreement!Enter, Agreement!Requests, Agreement!After, After, Requests
    <3> QED BY <3>3 DEF Agreement!Next
  <2> QED BY <2>2, <2>3
<1>4. CASE ReceiveInRun \/ SendEcho
  BY <1>4, <1>a DEF ReceiveInRun, SendEcho, wtpVars, acVars
<1>5. CASE LeaveRun
  <2>1. Agreement!GiveUp
    BY <1>5 DEF LeaveRun, Agreement!GiveUp
  <2> QED BY <2>1 DEF Agreement!Next
<1>6. ASSUME NEW m \in net, CWWTPReceiveDtlsPacket(m) \/ Lose(m)
      PROVE  [Agreement!Next]_(Agreement!vars)
  BY <1>6, <1>a DEF CWWTPReceiveDtlsPacket, Lose, wtpVars, acVars
<1>7. ASSUME NEW m \in net, ReceiveRequest(m) PROVE [Agreement!Next]_(Agreement!vars)
  <2>1. m \in messages /\ m.kind = "request" /\ phase' = phase /\ era' = era
    BY <1>7 DEF ReceiveRequest, wtpVars, messages
  <2>2. CASE reached' = reached
    BY <2>1, <2>2, <1>a
  <2>3. CASE AcceptRequest(m) /\ ~ idle /\ reached'[era] # reached[era]
    <3>1. /\ m.type \in Requests /\ m.era = era
          /\ Order[After[m.type]] > Order[reached[era]]
          /\ reached'[era] = After[m.type]
      <4>1. m.type = StateOf(m.era) /\ reached \in [Eras -> {"run"} \union Requests]
            /\ reached' = [reached EXCEPT ![m.era] =
                             IF Order[After[m.type]] > Order[@] THEN After[m.type] ELSE @]
        BY <2>3 DEF AcceptRequest, ACType
      <4>2. era \in Eras
        BY <2>3 DEF SeqInv, WTPType, Phases, Eras
      <4>3. m.type \in Requests
        <5>1. m \in Messages
          BY <1>7 DEF NetType
        <5>2. m.era \in Eras /\ m.type \in Requests \union {"echo"}
          BY <5>1 DEF Messages
        <5> QED BY <4>1, <5>2, PhaseOrder DEF StateOf, ACType
      <4> QED BY <2>3, <4>1, <4>2, <4>3
    <3>2. phase # "run"
      BY <3>1, PhaseOrder DEF ReachedInv
    <3>3. phase \in Requests
      BY <2>3, <3>2 DEF WTPType, Phases
    <3>4. Order[m.type] <= Order[phase] /\ reached[era] \in {phase, After[phase]}
      BY <2>1, <3>1, <3>3, PhaseOrder DEF AwaitedInv, ReachedInv
    <3>5. reached[era] = phase /\ m.type = phase
      BY <3>1, <3>3, <3>4, PhaseOrder
    <3>6. Agreement!Grant
      BY <2>1, <3>1, <3>3, <3>5, PhaseOrder
      DEF Agreement!Grant, Agreement!Requests, Agreement!After, After, Requests
    <3> QED BY <3>6 DEF Agreement!Next
  <2>4. CASE AcceptRequest(m) /\ (idle \/ reached'[era] = reached[era])
    BY <2>1, <2>4, <1>a
  <2> QED BY <1>7, <2>2, <2>3, <2>4 DEF ReceiveRequest, AnswerInRun, IgnoreRequest
<1>8. ASSUME NEW e \in Eras, CloseSession(e) PROVE [Agreement!Next]_(Agreement!vars)
  BY <1>8, <1>a DEF CloseSession, wtpVars
<1>9. CASE UNCHANGED vars
  BY <1>9, <1>a DEF vars, wtpVars, acVars
<1> QED
  BY <1>1, <1>2, <1>3, <1>4, <1>5, <1>6, <1>7, <1>8, <1>9 DEF Next, Main, Deliver

(* The refinement: for any number of joins, retransmissions, echoes, lost,     *)
(* repeated and reordered messages and broken sessions, a WTP enters a phase   *)
(* only when a session of this join has accepted its request for it, and the   *)
(* AC is never more than one phase ahead.                                      *)
THEOREM CapwapImplementsAssociation == Spec => ImplementsAssociation
<1>1. Init => Agreement!Init
  BY DEF Init, Agreement!Init
<1> QED BY <1>1, InitInv, NextInv, StepSimulation, PTL
  DEF Spec, ImplementsAssociation, Agreement!Spec
=============================================================================
