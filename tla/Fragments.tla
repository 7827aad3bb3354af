----------------------------- MODULE Fragments -----------------------------
(***************************************************************************)
(* Fragmentation and reassembly of CAPWAP messages (src/CWProtocol.c):     *)
(* CWAssembleMessage cuts a message into fragments of groups of 8 bytes,   *)
(* CWProtocolParseFragment collects them in a list (src/CWList.c).         *)
(*                                                                         *)
(* Between them is a network that loses, repeats and reorders packets:     *)
(* any packet sent so far may arrive, any number of times, in any order.   *)
(*                                                                         *)
(* There are two callers.  A session of the AC keeps its list from one     *)
(* packet to the next; CWReceiveMessage of the WTP has a list of its own   *)
(* for every message it returns.  The bytes of a message are abstracted to *)
(* which message they come from and where they start.  Allocation failures *)
(* are left out.                                                           *)
(***************************************************************************)
EXTENDS Integers, SequencesExt

CONSTANTS
  PMTUs,          \* path MTUs, without the headers
  Lengths,        \* lengths of messages, in bytes
  FragmentIDs,    \* identifiers the header can hold, CW_MAX_FRAGMENT_ID + 1
  MaxMessages     \* messages that are sent (bound of the model)

ASSUME FragmentsAssumption ==
  /\ PMTUs \subseteq Int
  /\ Lengths \subseteq Nat \ {0}
  /\ FragmentIDs \in Nat \ {0} /\ MaxMessages \in Nat

VARIABLES
  PMTU,
  receiver,       \* the caller, "AC" or "WTP"
  sent,           \* the messages sent so far: their length and identifier
  fragID,         \* the counter of CWGetFragmentID
  list,           \* the list of fragments, its head first
  result,         \* what the last call returned
  reassembled     \* the pieces of the message that it returned

fragmentsVars == <<PMTU, receiver, sent, fragID, list, result, reassembled>>

Results == {"none", "message", "needResource", "invalidFormat"}

FragmentsInit ==
  /\ PMTU \in PMTUs
  /\ receiver \in {"AC", "WTP"}
  /\ sent = <<>> /\ fragID = 0
  /\ list = <<>> /\ result = "none" /\ reassembled = <<>>

-----------------------------------------------------------------------------
\* Definitions named <Operator>_<bug> are mutants of the operator that follows:
\* FragmentsNext uses none of them.

(* The payload of a fragment: groups of 8 bytes. *)
Aligned == (PMTU \div 8) * 8

FragmentsNum_OneMore(length) ==
  IF PMTU < 8 THEN 1 ELSE length \div Aligned + 1

FragmentsNum(length) ==
  IF PMTU < 8 THEN 1 ELSE (length + Aligned - 1) \div Aligned

(* CWAssembleMessage: the fragments of the k-th message, in order. *)
CWAssembleMessage(k) ==
  LET length == sent[k].length
      n == FragmentsNum(length)
  IN [i \in 1 .. n |->
        [msg |-> k,
         isFragment |-> n > 1,
         fragmentID |-> sent[k].fragID % FragmentIDs,
         fragmentOffset |-> ((i - 1) * Aligned) \div 8,
         last |-> n > 1 /\ i = n,
         dataLen |-> IF i < n THEN Aligned ELSE length - (n - 1) * Aligned]]

Packets == UNION {ToSet(CWAssembleMessage(k)) : k \in DOMAIN sent}

CWCompareFragment(f, g) ==
  f.fragmentID = g.fragmentID /\ f.fragmentOffset = g.fragmentOffset

(* CWSearchInList *)
InList(f) == \E i \in DOMAIN list : CWCompareFragment(f, list[i])

(* The list after a fragment: it starts a new list if its identifier is not    *)
(* that of the head.                                                           *)
Collect_KeepsOthers(f) == <<f>> \o list

Collect(f) ==
  IF list # <<>> /\ Head(list).fragmentID # f.fragmentID THEN <<f>> ELSE <<f>> \o list

TotalSize_HeadOnly(l) ==
  IF Head(l).last THEN Head(l).fragmentOffset * 8 + Head(l).dataLen ELSE 0

(* The size that the last fragment announces, 0 without it. *)
TotalSize(l) ==
  LET ends == {i \in DOMAIN l : l[i].last}
  IN IF ends = {} THEN 0 ELSE l[Max(ends)].fragmentOffset * 8 + l[Max(ends)].dataLen

CurrentSize(l) ==
  LET size[i \in 0 .. Len(l)] == IF i = 0 THEN 0 ELSE size[i - 1] + l[i].dataLen
  IN size[Len(l)]

(* The pieces from offset 0 up to the last one, each where the one before ends; *)
(* <<>> where one is missing.  There is one such chain at most, as the list     *)
(* holds no two fragments of one offset (InList) and none that is empty.        *)
Chain(p) ==
  /\ p[1].fragmentOffset = 0
  /\ \A i \in 1 .. Len(p) - 1 :
       ~ p[i].last /\ p[i + 1].fragmentOffset = p[i].fragmentOffset + p[i].dataLen \div 8
  /\ p[Len(p)].last

Pieces(l) ==
  LET chains == {p \in UNION {[1 .. n -> ToSet(l)] : n \in 1 .. Len(l)} : Chain(p)}
  IN IF chains = {} THEN <<>> ELSE CHOOSE p \in chains : TRUE

(* CWReceiveMessage of the WTP returns with a message or an error: its list is *)
(* gone.  That of the AC's session stays.                                      *)
Returns(r, pieces, l) ==
  /\ result' = r
  /\ reassembled' = pieces
  /\ list' = IF receiver = "WTP" THEN <<>> ELSE l

NeedResource(l) ==
  /\ result' = "needResource"
  /\ reassembled' = <<>>
  /\ list' = l

-----------------------------------------------------------------------------
(* CWAssembleMessage and the send: a message of several fragments takes the    *)
(* next identifier.                                                            *)
Send(length) ==
  /\ Len(sent) < MaxMessages
  /\ sent' = Append(sent, [length |-> length, fragID |-> fragID])
  /\ fragID' = IF FragmentsNum(length) > 1 THEN fragID + 1 ELSE fragID
  /\ UNCHANGED <<PMTU, receiver, list, result, reassembled>>

(* CWProtocolParseFragment: a message that is not fragmented, *)
ReceiveMessage(f) ==
  /\ ~ f.isFragment
  /\ Returns("message", <<f>>, list)
  /\ UNCHANGED <<PMTU, receiver, sent, fragID>>

(* a copy of a fragment of the list, *)
ReceiveCopy(f) ==
  /\ f.isFragment
  /\ InList(f)
  /\ NeedResource(list)
  /\ UNCHANGED <<PMTU, receiver, sent, fragID>>

(* or a new fragment: the message is returned once the sizes agree.            *)
ReceiveFragment(f) ==
  /\ f.isFragment
  /\ ~ InList(f)
  /\ LET l == Collect(f)
         pieces == Pieces(l)
     IN IF TotalSize(l) = 0 \/ CurrentSize(l) # TotalSize(l)
        THEN NeedResource(l)
        ELSE IF pieces # <<>>
        THEN Returns("message", pieces, <<>>)
        ELSE Returns("invalidFormat", <<>>, <<>>)
  /\ UNCHANGED <<PMTU, receiver, sent, fragID>>

Receive(f) == ReceiveMessage(f) \/ ReceiveCopy(f) \/ ReceiveFragment(f)

FragmentsNext ==
  \/ \E length \in Lengths : Send(length)
  \/ \E f \in Packets : Receive(f)

FragmentsSpec == FragmentsInit /\ [][FragmentsNext]_fragmentsVars

-----------------------------------------------------------------------------
Fragment ==
  [msg : 1 .. MaxMessages, isFragment : BOOLEAN, fragmentID : 0 .. FragmentIDs - 1,
   fragmentOffset : Nat, last : BOOLEAN, dataLen : Nat \ {0}]

(* Every variable has its type. *)
FragmentsTypeOK ==
  /\ PMTU \in PMTUs /\ receiver \in {"AC", "WTP"}
  /\ sent \in Seq([length : Lengths, fragID : Nat]) /\ Len(sent) <= MaxMessages
  /\ fragID \in 0 .. MaxMessages
  /\ list \in Seq(Fragment) /\ result \in Results /\ reassembled \in Seq(Fragment)

(* The identifiers of the messages so far are all different. *)
NotWrapped == fragID <= FragmentIDs

(* Whatever the network does, a message that is returned is one that was sent,  *)
(* whole and in order, as long as the identifiers have not wrapped round.       *)
(* Nothing but the identifier and the sizes is tested: bytes of two messages,   *)
(* or of one piece twice, would be taken for a message.  Nor do the fragments   *)
(* of an honest sender ever make a bad message: "we should have all the         *)
(* fragment, but we haven't" (CWProtocol.c:651) does not happen.                *)
ReturnedWasSent == NotWrapped =>
  /\ result # "invalidFormat"
  /\ result = "message" => \E k \in DOMAIN sent : reassembled = CWAssembleMessage(k)

(* "If it is the last fragment we need or the only fragment, return the         *)
(* reassembled message" (CWProtocol.c:526): no message stays complete in the    *)
(* list, waiting for a packet that nobody will send.                            *)
CompleteIsReturned ==
  NotWrapped => \A k \in DOMAIN sent : ~ ToSet(CWAssembleMessage(k)) \subseteq ToSet(list)
=============================================================================
