-------------------------- MODULE CollectorProofs --------------------------
(***************************************************************************)
(* What the collector records and what it keeps track of, for any number   *)
(* of connections, any length of a report, any size of the control socket  *)
(* and peers that send without end: the rows are reports as they were      *)
(* sent, one per connection at most; a report that arrives in parts gives  *)
(* no row; the collector implements ReportService; while its thread works  *)
(* no connection is forgotten or released twice, and what arrived goes     *)
(* unannounced only behind a refused packet; and the thread blocks on the  *)
(* control socket that it alone reads only when too many are open at once. *)
(*                                                                         *)
(* The invariant relates the places where the program keeps a connection:  *)
(* the backlog holds the waiting ones, the list the held ones, once each,  *)
(* and the control socket releases only those that were dropped.  So a     *)
(* connection is decided once.  The first piece of buf is never written,   *)
(* which is why no report is put together there.                           *)
(***************************************************************************)
EXTENDS Collector, SequenceTheorems, FiniteSetTheorems, TLAPS

ConnType ==
  /\ conn \in [Conns -> Phases]
  /\ due \in [Conns -> Int] /\ avail \in [Conns -> Nat]

QueueInv ==
  /\ backlog \in Seq(Conns)
  /\ \A i \in 1 .. Len(backlog) : conn[backlog[i]] = "waiting"
  /\ \A i, j \in 1 .. Len(backlog) : backlog[i] = backlog[j] => i = j

Distinct(s) == \A i, j \in 1 .. Len(s) : s[i] = s[j] => i = j

ListInv ==
  /\ ls \in Seq(Conns)
  /\ \A i \in 1 .. Len(ls) : conn[ls[i]] = "held"
  /\ Distinct(ls)

PipeInv ==
  /\ pipe \in Seq({"A", "R"} \X Descriptors)
  /\ \A i \in 1 .. Len(pipe) : \A c \in Conns :
       pipe[i] = <<"R", c>> => conn[c] = "dropped"

BufferInv ==
  /\ rx \in [Conns -> [len : Nat, buf : [0 .. Room - 1 -> Int], idle : Nat]]
  /\ \A c \in Conns : rx[c].buf[0] = 0

Ended(c) == conn[c] \in {"dropped", "released"}

RowsInv ==
  /\ db \in Seq(Conns \X [1 .. Size -> 0 .. Size])
  /\ \A i \in 1 .. Len(db) :
       db[i][1] \notin Foreign /\ db[i][2] = Report /\ Ended(db[i][1])
  /\ \A i, j \in 1 .. Len(db) : db[i][1] = db[j][1] => i = j

Inv == ConnType /\ QueueInv /\ ListInv /\ PipeInv /\ BufferInv /\ RowsInv

-----------------------------------------------------------------------------
(* The first piece of buf is free, and stays free. *)
LEMMA EmptyBuffer ==
  /\ Fresh \in [len : Nat, buf : [0 .. Room - 1 -> Int], idle : Nat]
  /\ Fresh.buf[0] = 0
BY CollectorAssumption DEF Fresh, Empty

LEMMA CopyKeepsFirstFree ==
  ASSUME NEW c \in Conns, ConnType, BufferInv, avail[c] \in 1 .. Size - 1
  PROVE  Copied(c)[0] = 0
<1>1. /\ rx[c].len \in Nat /\ rx[c].buf[0] = 0 /\ 0 \in 0 .. Room - 1
      /\ avail[c] \in Nat \ {0}
  BY CollectorAssumption DEF BufferInv
<1>2. ~ (Offset(c) <= 0)
  BY <1>1 DEF Offset
<1> QED BY <1>1, <1>2 DEF Copied

LEMMA InitInv == Init => Inv
<1> SUFFICES ASSUME Init PROVE Inv
  OBVIOUS
<1>1. ConnType /\ QueueInv /\ ListInv
  BY CollectorAssumption DEF Init, ConnType, QueueInv, ListInv, Distinct, Phases
<1>2. PipeInv
  BY CollectorAssumption DEF Init, PipeInv, Descriptors
<1>3. BufferInv
  BY EmptyBuffer DEF Init, BufferInv
<1>4. RowsInv
  BY DEF Init, RowsInv
<1> QED BY <1>1, <1>2, <1>3, <1>4 DEF Inv

-----------------------------------------------------------------------------
(* Removing one element from a sequence, and from one without repetitions. *)
LEMMA Removal ==
  ASSUME NEW S, NEW s \in Seq(S), NEW k \in 1 .. Len(s)
  PROVE  /\ RemoveAt(s, k) \in Seq(S)
         /\ Len(RemoveAt(s, k)) = Len(s) - 1
         /\ \A i \in 1 .. Len(s) - 1 : i < k => RemoveAt(s, k)[i] = s[i]
         /\ \A i \in 1 .. Len(s) - 1 : ~ (i < k) => RemoveAt(s, k)[i] = s[i + 1]
<1> DEFINE a == SubSeq(s, 1, k - 1)
           b == SubSeq(s, k + 1, Len(s))
<1>1. /\ a \in Seq(S) /\ Len(a) = k - 1
      /\ \A i \in 1 .. k - 1 : a[i] = s[i]
  BY SubSeqProperties, ElementOfSeq, LenProperties
<1>2. /\ b \in Seq(S) /\ Len(b) = Len(s) - k
      /\ \A i \in 1 .. Len(s) - k : b[i] = s[k + i]
  <2>1. \A i \in k + 1 .. Len(s) : s[i] \in S
    BY ElementOfSeq
  <2>2. k + 1 \in Int /\ Len(s) \in Int
    BY LenProperties
  <2>3. /\ b \in Seq(S)
        /\ Len(b) = IF k + 1 <= Len(s) THEN Len(s) - (k + 1) + 1 ELSE 0
        /\ \A i \in 1 .. Len(s) - (k + 1) + 1 : b[i] = s[k + 1 + i - 1]
    BY <2>1, <2>2, SubSeqProperties
  <2> QED BY <2>2, <2>3
<1>3. RemoveAt(s, k) = a \o b
  BY DEF RemoveAt
<1> HIDE DEF a, b
<1>4. /\ a \o b \in Seq(S)
      /\ Len(a \o b) = Len(a) + Len(b)
      /\ \A i \in 1 .. Len(a) + Len(b) :
           (a \o b)[i] = IF i <= Len(a) THEN a[i] ELSE b[i - Len(a)]
  BY <1>1, <1>2, ConcatProperties
<1>5. ASSUME NEW i \in 1 .. Len(s) - 1, i < k
      PROVE  (a \o b)[i] = s[i]
  BY <1>1, <1>2, <1>4, <1>5
<1>6. ASSUME NEW i \in 1 .. Len(s) - 1, ~ (i < k)
      PROVE  (a \o b)[i] = s[i + 1]
  <2>1. Len(s) \in Nat /\ k \in Int /\ i \in Int /\ k <= i /\ i <= Len(s) - 1
    BY <1>6, LenProperties
  <2>2. i \in 1 .. Len(a) + Len(b) /\ ~ (i <= Len(a))
    BY <1>1, <1>2, <2>1
  <2>3. (a \o b)[i] = b[i - Len(a)]
    BY <1>4, <2>2
  <2>4. i - Len(a) = i - k + 1 /\ i - k + 1 \in 1 .. Len(s) - k
    BY <1>1, <2>1
  <2>5. b[i - k + 1] = s[k + (i - k + 1)] /\ k + (i - k + 1) = i + 1
    BY <1>2, <2>1, <2>4
  <2> QED BY <2>3, <2>4, <2>5
<1> QED BY <1>1, <1>2, <1>3, <1>4, <1>5, <1>6, LenProperties

LEMMA RemovalFromSet ==
  ASSUME NEW S, NEW s \in Seq(S), NEW k \in 1 .. Len(s),
         Distinct(s)
  PROVE  /\ RemoveAt(s, k) \in Seq(S)
         /\ \A i \in 1 .. Len(RemoveAt(s, k)) : \E j \in 1 .. Len(s) : j # k /\ RemoveAt(s, k)[i] = s[j]
         /\ Distinct(RemoveAt(s, k))
<1> DEFINE r == RemoveAt(s, k)
<1>1. /\ r \in Seq(S) /\ Len(s) \in Nat /\ k \in Nat /\ Len(r) = Len(s) - 1
      /\ \A i \in 1 .. Len(s) - 1 : i < k => r[i] = s[i]
      /\ \A i \in 1 .. Len(s) - 1 : ~ (i < k) => r[i] = s[i + 1]
  BY Removal, LenProperties
<1> HIDE DEF r
<1>2. ASSUME NEW i \in 1 .. Len(s) - 1
      PROVE  \E j \in 1 .. Len(s) : j # k /\ r[i] = s[j]
  <2>1. CASE i < k
    BY <1>1, <2>1
  <2>2. CASE ~ (i < k)
    <3>1. i + 1 \in 1 .. Len(s) /\ i + 1 # k
      BY <1>1, <2>2
    <3> QED BY <1>1, <2>2, <3>1
  <2> QED BY <2>1, <2>2
<1>3. ASSUME NEW i \in 1 .. Len(s) - 1, NEW j \in 1 .. Len(s) - 1,
             r[i] = r[j]
      PROVE  i = j
  <2>1. /\ i \in 1 .. Len(s) /\ i + 1 \in 1 .. Len(s)
        /\ j \in 1 .. Len(s) /\ j + 1 \in 1 .. Len(s)
    BY <1>1
  <2>2. CASE i < k /\ j < k
    BY <1>1, <1>3, <2>1, <2>2 DEF Distinct
  <2>3. CASE i < k /\ ~ (j < k)
    BY <1>1, <1>3, <2>1, <2>3 DEF Distinct
  <2>4. CASE ~ (i < k) /\ j < k
    BY <1>1, <1>3, <2>1, <2>4 DEF Distinct
  <2>5. CASE ~ (i < k) /\ ~ (j < k)
    BY <1>1, <1>3, <2>1, <2>5 DEF Distinct
  <2> QED BY <2>2, <2>3, <2>4, <2>5
<1>4. /\ r \in Seq(S) /\ Distinct(r)
      /\ \A i \in 1 .. Len(r) : \E j \in 1 .. Len(s) : j # k /\ r[i] = s[j]
  BY <1>1, <1>2, <1>3 DEF Distinct
<1> QED BY <1>4 DEF r

-----------------------------------------------------------------------------
(* What a call of em_fd_event_notify leaves in the control socket: the messages, or all
   that fits of them. *)
LEMMA Written ==
  ASSUME NEW T, pipe \in Seq(T), NEW msgs \in Seq(T),
         NEW next \in {"wait", "events", "accept"}, Notify(msgs, next)
  PROVE  \E w \in Seq(T) :
           /\ pipe' = pipe \o w
           /\ \A i \in 1 .. Len(w) : i \in 1 .. Len(msgs) /\ w[i] = msgs[i]
           /\ at' # "blocked" => w = msgs /\ at' = next
           /\ at' = "blocked" => Len(pipe) + Len(msgs) = PipeCap + 1
           /\ w = <<>> => ready' = ready
           /\ ready' = ready \/ ready' = ready \cup {Control}
           /\ w # <<>> /\ Control \in watched => Control \in ready'
<1>1. \A w \in Seq(T) : pipe \o w = pipe <=> w = <<>>
  <2>1. ASSUME NEW w \in Seq(T), pipe \o w = pipe PROVE w = <<>>
    <3>1. Len(pipe) + Len(w) = Len(pipe) /\ Len(pipe) \in Nat /\ Len(w) \in Nat
      BY <2>1, ConcatProperties, LenProperties
    <3> QED BY <3>1, EmptySeq
  <2> QED BY <2>1, ConcatEmptySeq
<1>2. CASE Len(pipe) + Len(msgs) <= PipeCap /\ pipe' = pipe \o msgs /\ at' = next
  <2>1. \A i \in 1 .. Len(msgs) : i \in 1 .. Len(msgs) /\ msgs[i] = msgs[i]
    OBVIOUS
  <2>2. /\ msgs = <<>> => ready' = ready
        /\ ready' = ready \/ ready' = ready \cup {Control}
        /\ msgs # <<>> /\ Control \in watched => Control \in ready'
    BY <1>1, <1>2 DEF Notify, Signal
  <2>3. next # "blocked"
    OBVIOUS
  <2> QED BY <1>2, <2>1, <2>2, <2>3
<1>3. CASE /\ Len(pipe) + Len(msgs) = PipeCap + 1
           /\ pipe' = pipe \o Front(msgs) /\ at' = "blocked"
  <2> DEFINE w == Front(msgs)
  <2>1. /\ w \in Seq(T) /\ Len(msgs) \in Nat
        /\ \A i \in 1 .. Len(w) : i \in 1 .. Len(msgs) /\ w[i] = msgs[i]
    <3>1. Len(msgs) \in Nat /\ \A i \in 1 .. Len(msgs) - 1 : msgs[i] \in T
      BY ElementOfSeq, LenProperties
    <3>2. /\ w \in Seq(T)
          /\ Len(w) = IF 1 <= Len(msgs) - 1 THEN Len(msgs) - 1 - 1 + 1 ELSE 0
          /\ \A i \in 1 .. Len(msgs) - 1 - 1 + 1 : w[i] = msgs[1 + i - 1]
      BY <3>1, SubSeqProperties DEF Front
    <3> HIDE DEF w
    <3> QED BY <3>1, <3>2
  <2> HIDE DEF w
  <2>2. pipe' = pipe \o w
    BY <1>3 DEF w
  <2>3. /\ w = <<>> => ready' = ready
        /\ ready' = ready \/ ready' = ready \cup {Control}
        /\ w # <<>> /\ Control \in watched => Control \in ready'
    BY <1>1, <2>1, <2>2 DEF Notify, Signal
  <2> QED BY <1>3, <2>1, <2>2, <2>3
<1> QED BY <1>2, <1>3 DEF Notify

LEMMA WrittenOne ==
  ASSUME PipeInv, NEW m \in {"A", "R"} \X Descriptors,
         NEW next \in {"wait", "events", "accept"}, Notify(<<m>>, next)
  PROVE  /\ \/ pipe' = pipe \o <<m>> /\ at' = next
            \/ pipe' = pipe /\ at' = "blocked" /\ Len(pipe) = PipeCap
         /\ ready' = ready \/ ready' = ready \cup {Control}
<1> DEFINE T == {"A", "R"} \X Descriptors
<1>1. /\ pipe \in Seq(T) /\ <<m>> \in Seq(T) /\ Len(<<m>>) = 1
      /\ Len(pipe) \in Nat /\ PipeCap \in Nat /\ Front(<<m>>) = <<>>
  BY CollectorAssumption, LenProperties DEF PipeInv, Front
<1> HIDE DEF T
<1>2. pipe \o <<>> = pipe
  BY <1>1, ConcatEmptySeq
<1>3. /\ \/ Len(pipe) + 1 <= PipeCap /\ pipe' = pipe \o <<m>> /\ at' = next
         \/ Len(pipe) + 1 = PipeCap + 1 /\ pipe' = pipe \o Front(<<m>>) /\ at' = "blocked"
      /\ ready' = ready \/ ready' = ready \cup {Control}
  BY <1>1 DEF Notify, Signal
<1>4. Len(pipe) + 1 = PipeCap + 1 => Len(pipe) = PipeCap
  BY <1>1
<1> QED BY <1>1, <1>2, <1>3, <1>4

-----------------------------------------------------------------------------
(* client_disc keeps the places of the connections apart. *)
LEMMA DiscPlaces ==
  ASSUME ConnType, QueueInv, ListInv, PipeInv, BufferInv,
         NEW c \in Conns, conn[c] = "held", client_disc(c),
         UNCHANGED <<backlog, due>>, avail' \in [Conns -> Nat]
  PROVE  ConnType' /\ QueueInv' /\ ListInv' /\ PipeInv' /\ BufferInv'
<1>1. conn' = [conn EXCEPT ![c] = "dropped"] /\ rx' = [rx EXCEPT ![c] = Fresh]
  BY DEF client_disc
<1>2. ConnType'
  BY <1>1 DEF ConnType, Phases
<1>3. QueueInv'
  <2>1. \A i \in 1 .. Len(backlog) : backlog[i] \in Conns /\ backlog[i] # c
    BY ElementOfSeq DEF QueueInv
  <2> QED BY <1>1, <2>1 DEF QueueInv, ConnType
<1>4. ListInv'
  <2>1. PICK k \in DOMAIN ls : ls[k] = c /\ ls' = RemoveAt(ls, k)
    BY DEF client_disc
  <2>2. ls \in Seq(Conns) /\ k \in 1 .. Len(ls) /\ Len(ls) \in Nat
    BY <2>1, LenProperties DEF ListInv
  <2>3. /\ ls' \in Seq(Conns)
        /\ \A i \in 1 .. Len(ls') : \E j \in 1 .. Len(ls) : j # k /\ ls'[i] = ls[j]
        /\ Distinct(ls)'
    <3>1. ls \in Seq(Conns) /\ Distinct(ls)
      BY DEF ListInv
    <3> DEFINE r == RemoveAt(ls, k)
    <3>2. /\ r \in Seq(Conns)
          /\ \A i \in 1 .. Len(r) : \E j \in 1 .. Len(ls) : j # k /\ r[i] = ls[j]
          /\ Distinct(r)
      BY <2>2, <3>1, RemovalFromSet
    <3>3. ls' = r
      BY <2>1
    <3> HIDE DEF r
    <3> QED BY <3>2, <3>3
  <2>4. ASSUME NEW i \in 1 .. Len(ls')
        PROVE  conn'[ls'[i]] = "held"
    <3>1. PICK j \in 1 .. Len(ls) : j # k /\ ls'[i] = ls[j]
      BY <2>3
    <3>2. ls[j] \in Conns /\ ls[j] # c /\ conn[ls[j]] = "held"
      BY <2>1, <2>2, <3>1, ElementOfSeq DEF ListInv, Distinct
    <3> QED BY <1>1, <3>1, <3>2 DEF ConnType
  <2> QED BY <2>3, <2>4 DEF ListInv
<1>5. PipeInv'
  <2>1. pipe' = pipe \o <<<<"R", c>>>> \/ pipe' = pipe
    BY WrittenOne DEF client_disc, Descriptors
  <2>2. CASE pipe' = pipe \o <<<<"R", c>>>>
    <3>1. /\ pipe' \in Seq({"A", "R"} \X Descriptors)
          /\ Len(pipe') = Len(pipe) + 1
          /\ \A i \in 1 .. Len(pipe) : pipe'[i] = pipe[i]
          /\ pipe'[Len(pipe) + 1] = <<"R", c>>
      BY <2>2 DEF PipeInv, Descriptors
    <3>2. ASSUME NEW i \in 1 .. Len(pipe'), NEW d \in Conns, pipe'[i] = <<"R", d>>
          PROVE  conn'[d] = "dropped"
      <4>1. CASE i \in 1 .. Len(pipe)
        BY <1>1, <3>1, <3>2, <4>1 DEF PipeInv, ConnType
      <4>2. CASE i = Len(pipe) + 1
        BY <1>1, <3>1, <3>2, <4>2 DEF ConnType
      <4> QED BY <3>1, <4>1, <4>2, LenProperties DEF PipeInv
    <3> QED BY <3>1, <3>2 DEF PipeInv
  <2>3. CASE pipe' = pipe
    BY <1>1, <2>3 DEF PipeInv, ConnType
  <2> QED BY <2>1, <2>2, <2>3
<1>6. BufferInv'
  BY <1>1, EmptyBuffer DEF BufferInv
<1> QED BY <1>2, <1>3, <1>4, <1>5, <1>6

(* A step that leaves the connections where they are. *)
LEMMA StayPlaces ==
  ASSUME ConnType, QueueInv, ListInv, PipeInv,
         UNCHANGED <<backlog, conn, ls, pipe>>,
         due' \in [Conns -> Int], avail' \in [Conns -> Nat]
  PROVE  ConnType' /\ QueueInv' /\ ListInv' /\ PipeInv'
BY DEF ConnType, QueueInv, ListInv, PipeInv

(* Rows stay as they are while no ended connection comes back. *)
LEMMA RowsStay ==
  ASSUME RowsInv, UNCHANGED db, \A c \in Conns : Ended(c) => Ended(c)'
  PROVE  RowsInv'
<1>1. \A i \in 1 .. Len(db) : db[i][1] \in Conns
  BY ElementOfSeq DEF RowsInv
<1> QED BY <1>1 DEF RowsInv

(* The row of a connection that ends with it. *)
LEMMA RowAdded ==
  ASSUME RowsInv, ConnType, NEW c \in Conns \ Foreign, conn[c] = "held",
         conn' = [conn EXCEPT ![c] = "dropped"], db' = Append(db, <<c, Report>>)
  PROVE  RowsInv'
<1>1. \A i \in 1 .. Len(db) : db[i][1] \in Conns /\ db[i][1] # c
  <2>1. \A i \in 1 .. Len(db) : db[i] \in Conns \X [1 .. Size -> 0 .. Size]
    BY ElementOfSeq DEF RowsInv
  <2>2. \A i \in 1 .. Len(db) : db[i][1] \in Conns
    BY <2>1
  <2>3. \A i \in 1 .. Len(db) : conn[db[i][1]] \in {"dropped", "released"}
    BY DEF RowsInv, Ended
  <2> QED BY <2>2, <2>3
<1>2. <<c, Report>> \in Conns \X [1 .. Size -> 0 .. Size]
  BY CollectorAssumption DEF Report
<1>3. /\ db' \in Seq(Conns \X [1 .. Size -> 0 .. Size])
      /\ Len(db') = Len(db) + 1 /\ Len(db) \in Nat
      /\ \A i \in 1 .. Len(db) : db'[i] = db[i]
      /\ db'[Len(db) + 1] = <<c, Report>>
  BY <1>2, AppendProperties, LenProperties DEF RowsInv
<1>4. \A i \in 1 .. Len(db') : i \in 1 .. Len(db) \/ i = Len(db) + 1
  BY <1>3
<1>5. ASSUME NEW i \in 1 .. Len(db')
      PROVE  /\ db'[i][1] \notin Foreign /\ db'[i][2] = Report
             /\ conn'[db'[i][1]] \in {"dropped", "released"}
  BY <1>1, <1>3, <1>4 DEF RowsInv, Ended, ConnType
<1>6. ASSUME NEW i \in 1 .. Len(db'), NEW j \in 1 .. Len(db'),
             db'[i][1] = db'[j][1]
      PROVE  i = j
  BY <1>1, <1>3, <1>4, <1>6 DEF RowsInv
<1> QED BY <1>3, <1>5, <1>6 DEF RowsInv, Ended

-----------------------------------------------------------------------------
(* What serving a connection does to it and to the rows. *)
Outcome(c) ==
  \/ UNCHANGED <<conn, db>>
  \/ /\ conn' = [conn EXCEPT ![c] = "dropped"]
     /\ \/ UNCHANGED db
        \/ c \notin Foreign /\ db' = Append(db, <<c, Report>>)

LEMMA KeepsBuffer ==
  ASSUME ConnType, BufferInv, NEW c \in Conns, avail[c] \in 1 .. Size - 1,
         NEW l \in Nat, rx' = [rx EXCEPT ![c] = [len |-> l, buf |-> Copied(c), idle |-> 0]]
  PROVE  BufferInv'
<1>1. Copied(c) \in [0 .. Room - 1 -> Int]
  <2>1. /\ Size \in Nat /\ Room \in Nat /\ due[c] \in Int /\ avail[c] \in Nat /\ rx[c].len \in Nat
        /\ rx[c].buf \in [0 .. Room - 1 -> Int]
    BY CollectorAssumption DEF ConnType, BufferInv
  <2>2. Got(c) \in Int /\ Offset(c) \in Int
    BY <2>1 DEF Got, Offset
  <2>3. ASSUME NEW i \in 0 .. Room - 1
        PROVE  Piece(c, 1 + i - Offset(c)) \in Int /\ rx[c].buf[i] \in Int
    <3>1. i \in Int
      BY <2>1
    <3>2. rx[c].buf[i] \in Int
      BY <2>1
    <3> QED BY <2>2, <3>1, <3>2 DEF Piece
  <2> QED BY <2>3 DEF Copied
<1>2. Copied(c)[0] = 0
  BY CopyKeepsFirstFree
<1> HIDE DEF Copied
<1> QED BY <1>1, <1>2 DEF BufferInv

LEMMA ServeStep ==
  ASSUME Inv, NEW c \in Conns, conn[c] = "held", client_in_nonblock_et(c),
         UNCHANGED <<backlog, due>>
  PROVE  Inv' /\ Outcome(c)
<1> USE DEF Inv
<1>1. avail' \in [Conns -> Nat]
  <2>1. avail[c] \in Nat /\ Size \in Nat /\ (avail[c] >= Size => avail[c] - Size \in Nat)
    BY CollectorAssumption DEF ConnType
  <2> QED BY <2>1
    DEF client_in_nonblock_et, ReadWhole, ReadPart, ReadNothing, ConnType
<1>2. CASE client_disc(c) /\ UNCHANGED db
  <2>1. conn' = [conn EXCEPT ![c] = "dropped"]
    BY <1>2 DEF client_disc
  <2>2. ConnType' /\ QueueInv' /\ ListInv' /\ PipeInv' /\ BufferInv'
    BY <1>1, <1>2, DiscPlaces
  <2>3. RowsInv'
    BY <1>2, <2>1, RowsStay DEF Ended, ConnType
  <2> QED BY <1>2, <2>1, <2>2, <2>3 DEF Outcome
<1>3. CASE client_disc(c) /\ c \notin Foreign /\ db' = Append(db, <<c, Report>>)
  <2>1. conn' = [conn EXCEPT ![c] = "dropped"]
    BY <1>3 DEF client_disc
  <2>2. ConnType' /\ QueueInv' /\ ListInv' /\ PipeInv' /\ BufferInv'
    BY <1>1, <1>3, DiscPlaces
  <2>3. RowsInv'
    BY <1>3, <2>1, RowAdded
  <2> QED BY <1>3, <2>1, <2>2, <2>3 DEF Outcome
<1>4. CASE UNCHANGED <<conn, ls, pipe, db>> /\ BufferInv'
  <2>1. ConnType' /\ QueueInv' /\ ListInv' /\ PipeInv'
    BY <1>1, <1>4, StayPlaces DEF ConnType
  <2>2. RowsInv'
    BY <1>4, RowsStay DEF Ended
  <2> QED BY <1>4, <2>1, <2>2 DEF Outcome
<1>5. CASE ReadWhole(c)
  <2>1. CASE MagicOk(c, 1)
    <3>1. c \notin Foreign /\ Insert(c, Report)
      BY <1>5, <2>1 DEF ReadWhole, MagicOk
    <3> QED BY <1>2, <1>3, <3>1 DEF Insert
  <2>2. CASE ~ MagicOk(c, 1)
    <3>1. /\ rx' = [rx EXCEPT ![c] = [rx[c] EXCEPT !.len = 0]]
          /\ UNCHANGED <<conn, ls, pipe, db>>
      BY <1>5, <2>2 DEF ReadWhole, Keep
    <3>2. BufferInv'
      BY <3>1 DEF BufferInv
    <3> QED BY <1>4, <3>1, <3>2
  <2> QED BY <2>1, <2>2
<1>6. CASE ReadPart(c)
  <2>1. avail[c] \in 1 .. Size - 1
    BY <1>6 DEF ReadPart
  <2>2. ~ MagicOk(c, Copied(c)[0])
    BY <2>1, CopyKeepsFirstFree DEF MagicOk
  <2>3. \/ client_disc(c) /\ UNCHANGED db
        \/ \E l \in {0} \union LenAfter(c) :
             /\ rx' = [rx EXCEPT ![c] = [len |-> l, buf |-> Copied(c), idle |-> 0]]
             /\ UNCHANGED <<conn, ls, pipe, db>>
    BY <1>6, <2>2 DEF ReadPart, Keep
  <2>4. LenAfter(c) \subseteq Nat
    BY <2>1, CollectorAssumption DEF LenAfter, BufferInv
  <2>5. CASE client_disc(c) /\ UNCHANGED db
    BY <1>2, <2>5
  <2>6. ASSUME NEW l \in {0} \union LenAfter(c),
               rx' = [rx EXCEPT ![c] = [len |-> l, buf |-> Copied(c), idle |-> 0]],
               UNCHANGED <<conn, ls, pipe, db>>
        PROVE  Inv' /\ Outcome(c)
    <3>1. l \in Nat
      BY <2>4
    <3>2. BufferInv'
      BY <2>1, <2>6, <3>1, KeepsBuffer
    <3> QED BY <1>4, <2>6, <3>2
  <2> QED BY <2>3, <2>5, <2>6
<1>7. CASE ReadNothing(c)
  <2>1. CASE fin[c]
    BY <1>2, <1>7, <2>1 DEF ReadNothing
  <2>2. CASE ~ fin[c]
    <3>1. UNCHANGED <<conn, ls, pipe, rx, db>>
      BY <1>7, <2>2 DEF ReadNothing, clientVars
    <3>2. BufferInv'
      BY <3>1 DEF BufferInv
    <3> QED BY <1>4, <3>1, <3>2
  <2> QED BY <2>1, <2>2
<1> QED BY <1>5, <1>6, <1>7 DEF client_in_nonblock_et

-----------------------------------------------------------------------------
(* A connection that is put on the list. *)
LEMMA AcceptPlaces ==
  ASSUME Inv, Accept, at' # "blocked"
  PROVE  Inv' /\ UNCHANGED db /\ conn' = [conn EXCEPT ![Head(backlog)] = "held"]
         /\ Head(backlog) \in Conns /\ conn[Head(backlog)] = "waiting"
<1> USE DEF Inv
<1> DEFINE c == Head(backlog)
<1>a. /\ backlog # <<>> /\ backlog \in Seq(Conns)
      /\ Notify(<<<<"A", c>>>>, "accept")
  BY DEF Accept, QueueInv
<1>b. <<"A", c>> \in {"A", "R"} \X Descriptors
  BY <1>a, HeadTailProperties DEF Descriptors
<1>c. pipe' = pipe \o <<<<"A", c>>>>
  BY <1>a, <1>b, WrittenOne
<1>1. /\ backlog # <<>> /\ backlog' = Tail(backlog) /\ ls' = Append(ls, c)
      /\ conn' = [conn EXCEPT ![c] = "held"] /\ rx' = [rx EXCEPT ![c] = Fresh]
      /\ pipe' = pipe \o <<<<"A", c>>>>
      /\ UNCHANGED <<due, avail, db>>
  BY <1>c DEF Accept, peerVars
<1>2. /\ c \in Conns /\ c = backlog[1] /\ Len(backlog) \in Nat \ {0}
      /\ backlog' \in Seq(Conns) /\ Len(backlog') = Len(backlog) - 1
      /\ \A i \in 1 .. Len(backlog') : backlog'[i] = backlog[i + 1]
  BY <1>1, HeadTailProperties, LenProperties, EmptySeq DEF QueueInv
<1>3. conn[c] = "waiting"
  BY <1>2 DEF QueueInv
<1> HIDE DEF c
<1>4. ConnType'
  BY <1>1, <1>2 DEF ConnType, Phases
<1>5. QueueInv'
  <2>1. \A i \in 1 .. Len(backlog') : /\ i + 1 \in 1 .. Len(backlog) /\ i + 1 # 1
                                      /\ backlog[i + 1] \in Conns
    BY <1>2, ElementOfSeq DEF QueueInv
  <2>2. \A i \in 1 .. Len(backlog') : backlog'[i] # c
    BY <1>2, <2>1 DEF QueueInv
  <2>3. \A i \in 1 .. Len(backlog') : conn'[backlog'[i]] = "waiting"
    BY <1>1, <1>2, <2>1, <2>2 DEF QueueInv, ConnType
  <2>4. ASSUME NEW i \in 1 .. Len(backlog'), NEW j \in 1 .. Len(backlog'),
               backlog'[i] = backlog'[j]
        PROVE  i = j
    <3>1. i + 1 = j + 1
      BY <1>2, <2>1, <2>4 DEF QueueInv
    <3> QED BY <1>2, <3>1
  <2> QED BY <1>2, <2>3, <2>4 DEF QueueInv
<1>6. ListInv'
  <2>1. /\ ls \in Seq(Conns) /\ Len(ls) \in Nat
        /\ ls' \in Seq(Conns) /\ Len(ls') = Len(ls) + 1
        /\ \A i \in 1 .. Len(ls) : ls'[i] = ls[i]
        /\ ls'[Len(ls) + 1] = c
    BY <1>1, <1>2, AppendProperties, LenProperties DEF ListInv
  <2>2. \A i \in 1 .. Len(ls) : ls[i] \in Conns /\ ls[i] # c
    BY <1>3, <2>1, ElementOfSeq DEF ListInv
  <2>3. \A i \in 1 .. Len(ls') : i \in 1 .. Len(ls) \/ i = Len(ls) + 1
    BY <2>1
  <2>4. \A i \in 1 .. Len(ls') : conn'[ls'[i]] = "held"
    BY <1>1, <1>2, <2>1, <2>2, <2>3 DEF ListInv, ConnType
  <2>5. Distinct(ls')
    BY <2>1, <2>2, <2>3 DEF ListInv, Distinct
  <2> QED BY <2>1, <2>4, <2>5 DEF ListInv
<1>7. PipeInv'
  <2>1. /\ pipe' \in Seq({"A", "R"} \X Descriptors)
        /\ Len(pipe') = Len(pipe) + 1
        /\ \A i \in 1 .. Len(pipe) : pipe'[i] = pipe[i]
        /\ pipe'[Len(pipe) + 1] = <<"A", c>>
    BY <1>1, <1>2 DEF PipeInv, Descriptors
  <2>2. ASSUME NEW i \in 1 .. Len(pipe'), NEW d \in Conns, pipe'[i] = <<"R", d>>
        PROVE  conn'[d] = "dropped"
    <3>1. CASE i \in 1 .. Len(pipe)
      <4>1. conn[d] = "dropped" /\ d # c
        BY <1>3, <2>1, <2>2, <3>1 DEF PipeInv
      <4> QED BY <1>1, <4>1 DEF ConnType
    <3>2. CASE i = Len(pipe) + 1
      BY <2>1, <2>2, <3>2
    <3> QED BY <2>1, <3>1, <3>2, LenProperties DEF PipeInv
  <2> QED BY <2>1, <2>2 DEF PipeInv
<1>8. BufferInv'
  BY <1>1, <1>2, EmptyBuffer DEF BufferInv
<1>9. RowsInv'
  BY <1>1, <1>3, RowsStay DEF Ended, ConnType
<1> QED BY <1>1, <1>2, <1>3, <1>4, <1>5, <1>6, <1>7, <1>8, <1>9 DEF c

(* A connection that the thread was about to put there when it blocked. *)
LEMMA AcceptBlocks ==
  ASSUME Inv, Accept, at' = "blocked"
  PROVE  Inv' /\ UNCHANGED <<conn, db>>
<1> USE DEF Inv
<1> DEFINE c == Head(backlog)
<1>1. /\ backlog # <<>> /\ backlog' = Tail(backlog) /\ backlog \in Seq(Conns)
      /\ Notify(<<<<"A", c>>>>, "accept") /\ UNCHANGED <<conn, rx, ls, due, avail, db>>
  BY DEF Accept, peerVars, clientVars, QueueInv
<1>2. /\ backlog' \in Seq(Conns) /\ Len(backlog) \in Nat \ {0}
      /\ Len(backlog') = Len(backlog) - 1 /\ c \in Conns
      /\ \A i \in 1 .. Len(backlog') : backlog'[i] = backlog[i + 1]
  BY <1>1, HeadTailProperties, LenProperties, EmptySeq
<1>3. UNCHANGED pipe
  BY <1>1, <1>2, WrittenOne DEF Descriptors
<1> HIDE DEF c
<1>4. QueueInv'
  <2>1. \A i \in 1 .. Len(backlog') : i + 1 \in 1 .. Len(backlog)
    BY <1>2
  <2>2. \A i \in 1 .. Len(backlog') : conn'[backlog'[i]] = "waiting"
    BY <1>1, <1>2, <2>1 DEF QueueInv
  <2>3. ASSUME NEW i \in 1 .. Len(backlog'), NEW j \in 1 .. Len(backlog'),
               backlog'[i] = backlog'[j]
        PROVE  i = j
    <3>1. i + 1 = j + 1
      BY <1>2, <2>1, <2>3 DEF QueueInv
    <3> QED BY <1>2, <3>1
  <2> QED BY <1>2, <2>2, <2>3 DEF QueueInv
<1>5. ConnType' /\ ListInv' /\ PipeInv' /\ BufferInv'
  BY <1>1, <1>3 DEF ConnType, ListInv, Distinct, PipeInv, BufferInv
<1>6. RowsInv'
  BY <1>1, RowsStay DEF Ended
<1> QED BY <1>1, <1>4, <1>5, <1>6

-----------------------------------------------------------------------------
(* The connections that cb_epoll_after expires. *)
LEMMA AfterPlaces ==
  ASSUME Inv, cb_epoll_after
  PROVE  /\ Inv' /\ UNCHANGED db
         /\ \E S \in SUBSET Conns :
              /\ \A c \in S : conn[c] = "held"
              /\ conn' = [c \in Conns |-> IF c \in S THEN "dropped" ELSE conn[c]]
<1> USE DEF Inv
<1>0. PICK n \in 0 .. Len(ls) :
        /\ conn' = [c \in Conns |-> IF \E i \in 1 .. n : ls[i] = c
                                     THEN "dropped" ELSE conn[c]]
        /\ rx' = [c \in Conns |-> IF \E i \in 1 .. n : ls[i] = c
                                   THEN Fresh ELSE rx[c]]
        /\ ls' = SubSeq(ls, n + 1, Len(ls))
        /\ Notify([i \in 1 .. n |-> <<"R", ls[i]>>], "wait")
  BY DEF cb_epoll_after
<1>1. /\ conn' = [c \in Conns |-> IF \E i \in 1 .. n : ls[i] = c
                                   THEN "dropped" ELSE conn[c]]
      /\ rx' = [c \in Conns |-> IF \E i \in 1 .. n : ls[i] = c
                                 THEN Fresh ELSE rx[c]]
      /\ ls' = SubSeq(ls, n + 1, Len(ls))
  BY <1>0
<1>2. UNCHANGED <<backlog, due, avail, db>>
  BY DEF cb_epoll_after, peerVars
<1> DEFINE S == {c \in Conns : \E i \in 1 .. n : ls[i] = c}
<1>3. ls \in Seq(Conns) /\ Len(ls) \in Nat /\ n \in Nat /\ n <= Len(ls)
  BY LenProperties DEF ListInv
<1>4. \A i \in 1 .. Len(ls) : ls[i] \in Conns /\ conn[ls[i]] = "held"
  BY <1>3, ElementOfSeq DEF ListInv
<1>5. /\ S \in SUBSET Conns /\ \A c \in S : conn[c] = "held"
      /\ conn' = [c \in Conns |-> IF c \in S THEN "dropped" ELSE conn[c]]
      /\ rx' = [c \in Conns |-> IF c \in S THEN Fresh ELSE rx[c]]
  BY <1>1, <1>3, <1>4
<1>a. \A i \in 1 .. n : ls[i] \in S
  BY <1>3, <1>4
<1>b. \A i \in n + 1 .. Len(ls) : ls[i] \in Conns \ S
  BY <1>3, <1>4 DEF ListInv, Distinct
<1> HIDE DEF S
<1>6. ConnType'
  BY <1>2, <1>5 DEF ConnType, Phases
<1>7. QueueInv'
  <2>1. \A i \in 1 .. Len(backlog) : backlog[i] \in Conns \ S
    BY <1>5, ElementOfSeq DEF QueueInv
  <2> QED BY <1>2, <1>5, <2>1 DEF QueueInv
<1>8. ListInv'
  <2>1. /\ ls' \in Seq(Conns)
        /\ Len(ls') = IF n + 1 <= Len(ls) THEN Len(ls) - (n + 1) + 1 ELSE 0
        /\ \A i \in 1 .. Len(ls) - (n + 1) + 1 : ls'[i] = ls[n + 1 + i - 1]
    BY <1>1, <1>3, <1>b, SubSeqProperties
  <2>2. Len(ls') = Len(ls) - n
    BY <1>3, <2>1
  <2>3. \A i \in 1 .. Len(ls') : n + i \in n + 1 .. Len(ls) /\ ls'[i] = ls[n + i]
    BY <1>3, <2>1, <2>2
  <2>4. \A i \in 1 .. Len(ls') : conn'[ls'[i]] = "held"
    <3>1. \A i \in 1 .. Len(ls') : n + i \in 1 .. Len(ls) /\ ls[n + i] \in Conns \ S
      BY <1>3, <1>b, <2>3
    <3> QED BY <1>4, <1>5, <2>3, <3>1
  <2>5. ASSUME NEW i \in 1 .. Len(ls'), NEW j \in 1 .. Len(ls'), ls'[i] = ls'[j]
        PROVE  i = j
    <3>1. n + i \in 1 .. Len(ls) /\ n + j \in 1 .. Len(ls) /\ ls[n + i] = ls[n + j]
      BY <1>3, <2>3, <2>5
    <3>2. n + i = n + j
      BY <3>1 DEF ListInv, Distinct
    <3> QED BY <1>3, <2>2, <3>2
  <2> QED BY <2>1, <2>4, <2>5 DEF ListInv, Distinct
<1>9. PipeInv'
  <2> DEFINE q == [i \in 1 .. n |-> <<"R", ls[i]>>]
  <2>1. /\ q \in Seq({"A", "R"} \X Descriptors) /\ Len(q) = n
        /\ \A i \in 1 .. n : q[i] = <<"R", ls[i]>>
    BY <1>3, <1>4, IsASeq DEF Descriptors
  <2> HIDE DEF q
  <2>2. Notify(q, "wait") /\ pipe \in Seq({"A", "R"} \X Descriptors)
    BY <1>0 DEF PipeInv, q
  <2>d. PICK w \in Seq({"A", "R"} \X Descriptors) :
          /\ pipe' = pipe \o w
          /\ \A i \in 1 .. Len(w) : i \in 1 .. Len(q) /\ w[i] = q[i]
    <3> DEFINE T == {"A", "R"} \X Descriptors
    <3>1. pipe \in Seq(T) /\ q \in Seq(T) /\ "wait" \in {"wait", "events", "accept"}
      BY <2>1, <2>2
    <3> HIDE DEF T
    <3>2. \E w \in Seq(T) :
            /\ pipe' = pipe \o w
            /\ \A i \in 1 .. Len(w) : i \in 1 .. Len(q) /\ w[i] = q[i]
            /\ at' # "blocked" => w = q /\ at' = "wait"
            /\ at' = "blocked" => Len(pipe) + Len(q) = PipeCap + 1
            /\ w = <<>> => ready' = ready
            /\ ready' = ready \/ ready' = ready \cup {Control}
            /\ w # <<>> /\ Control \in watched => Control \in ready'
      BY <2>2, <3>1, Written
    <3> QED BY <3>2 DEF T
  <2>c. \A T : \A s, t \in Seq(T) :
          /\ s \o t \in Seq(T) /\ Len(s) \in Nat /\ Len(t) \in Nat
          /\ Len(s \o t) = Len(s) + Len(t)
          /\ \A i \in 1 .. Len(s \o t) :
               (s \o t)[i] = IF i <= Len(s) THEN s[i] ELSE t[i - Len(s)]
    BY ConcatProperties, LenProperties
  <2>3. /\ pipe' \in Seq({"A", "R"} \X Descriptors)
        /\ Len(pipe) \in Nat /\ Len(w) \in Nat /\ Len(pipe') = Len(pipe) + Len(w)
        /\ \A i \in 1 .. Len(pipe') :
             pipe'[i] = IF i <= Len(pipe) THEN pipe[i] ELSE w[i - Len(pipe)]
    BY <2>2, <2>d, <2>c
  <2>4. ASSUME NEW i \in 1 .. Len(pipe'), NEW d \in Conns, pipe'[i] = <<"R", d>>
        PROVE  conn'[d] = "dropped"
    <3>1. CASE i <= Len(pipe)
      <4>1. i \in 1 .. Len(pipe) /\ pipe[i] = <<"R", d>>
        BY <1>3, <2>3, <2>4, <3>1
      <4>2. conn[d] = "dropped"
        BY <4>1 DEF PipeInv
      <4> QED BY <1>5, <4>2
    <3>2. CASE ~ (i <= Len(pipe))
      <4>0. i - Len(pipe) \in 1 .. Len(w) /\ w[i - Len(pipe)] = <<"R", d>>
        BY <2>3, <2>4, <3>2
      <4>1. i - Len(pipe) \in 1 .. n /\ q[i - Len(pipe)] = <<"R", d>>
        BY <2>1, <2>d, <4>0
      <4>2. d \in S
        BY <1>a, <2>1, <4>1
      <4> QED BY <1>5, <4>2
    <3> QED BY <3>1, <3>2
  <2> QED BY <2>3, <2>4 DEF PipeInv
<1>10. BufferInv'
  BY <1>5, EmptyBuffer DEF BufferInv
<1>11. RowsInv'
  BY <1>2, <1>5, RowsStay DEF Ended, ConnType
<1> QED BY <1>2, <1>5, <1>6, <1>7, <1>8, <1>9, <1>10, <1>11

-----------------------------------------------------------------------------
(* A connection that a peer opens. *)
LEMMA ConnectPlaces ==
  ASSUME Inv, NEW c \in Conns, Connect(c)
  PROVE  Inv' /\ UNCHANGED db /\ conn[c] = "none"
         /\ conn' = [conn EXCEPT ![c] = "waiting"]
<1> USE DEF Inv
<1>1. /\ conn[c] = "none" /\ conn' = [conn EXCEPT ![c] = "waiting"]
      /\ backlog' = Append(backlog, c)
      /\ UNCHANGED <<due, avail, rx, ls, pipe, db>>
  BY DEF Connect, peerVars
<1>2. ConnType' /\ BufferInv'
  BY <1>1 DEF ConnType, BufferInv, Phases
<1>3. QueueInv'
  <2>1. /\ backlog' \in Seq(Conns) /\ Len(backlog') = Len(backlog) + 1
        /\ Len(backlog) \in Nat
        /\ \A i \in 1 .. Len(backlog) : backlog'[i] = backlog[i]
        /\ backlog'[Len(backlog) + 1] = c
    BY <1>1, AppendProperties, LenProperties DEF QueueInv
  <2>2. \A i \in 1 .. Len(backlog) : backlog[i] \in Conns /\ backlog[i] # c
    BY <1>1, ElementOfSeq DEF QueueInv
  <2>3. \A i \in 1 .. Len(backlog') : i \in 1 .. Len(backlog) \/ i = Len(backlog) + 1
    BY <2>1
  <2>4. \A i \in 1 .. Len(backlog') : conn'[backlog'[i]] = "waiting"
    BY <1>1, <2>1, <2>2, <2>3 DEF QueueInv, ConnType
  <2>5. ASSUME NEW i \in 1 .. Len(backlog'), NEW j \in 1 .. Len(backlog'),
               backlog'[i] = backlog'[j]
        PROVE  i = j
    BY <2>1, <2>2, <2>3, <2>5 DEF QueueInv
  <2> QED BY <2>1, <2>4, <2>5 DEF QueueInv
<1>4. ListInv'
  <2>1. \A i \in 1 .. Len(ls) : ls[i] \in Conns /\ ls[i] # c
    BY <1>1, ElementOfSeq DEF ListInv
  <2> QED BY <1>1, <2>1 DEF ListInv, ConnType
<1>5. PipeInv'
  BY <1>1 DEF PipeInv, ConnType
<1>6. RowsInv'
  BY <1>1, RowsStay DEF Ended, ConnType
<1> QED BY <1>1, <1>2, <1>3, <1>4, <1>5, <1>6

(* A connection that is refused. *)
LEMMA RefusePlaces ==
  ASSUME Inv, AcceptFails
  PROVE  Inv' /\ UNCHANGED db
         /\ Head(backlog) \in Conns /\ conn[Head(backlog)] = "waiting"
         /\ conn' = [conn EXCEPT ![Head(backlog)] = "refused"]
<1> USE DEF Inv
<1> DEFINE c == Head(backlog)
<1>1. /\ backlog # <<>> /\ backlog' = Tail(backlog)
      /\ conn' = [conn EXCEPT ![c] = "refused"]
      /\ UNCHANGED <<due, avail, rx, ls, pipe, db>>
  BY DEF AcceptFails, peerVars
<1>2. /\ c \in Conns /\ c = backlog[1] /\ Len(backlog) \in Nat \ {0}
      /\ backlog' \in Seq(Conns) /\ Len(backlog') = Len(backlog) - 1
      /\ \A i \in 1 .. Len(backlog') : backlog'[i] = backlog[i + 1]
  BY <1>1, HeadTailProperties, LenProperties, EmptySeq DEF QueueInv
<1>3. conn[c] = "waiting"
  BY <1>2 DEF QueueInv
<1> HIDE DEF c
<1>4. ConnType' /\ BufferInv'
  BY <1>1, <1>2 DEF ConnType, BufferInv, Phases
<1>5. QueueInv'
  <2>1. \A i \in 1 .. Len(backlog') : /\ i + 1 \in 1 .. Len(backlog) /\ i + 1 # 1
                                      /\ backlog[i + 1] \in Conns
    BY <1>2, ElementOfSeq DEF QueueInv
  <2>2. \A i \in 1 .. Len(backlog') : backlog'[i] # c
    BY <1>2, <2>1 DEF QueueInv
  <2>3. \A i \in 1 .. Len(backlog') : conn'[backlog'[i]] = "waiting"
    BY <1>1, <1>2, <2>1, <2>2 DEF QueueInv, ConnType
  <2>4. ASSUME NEW i \in 1 .. Len(backlog'), NEW j \in 1 .. Len(backlog'),
               backlog'[i] = backlog'[j]
        PROVE  i = j
    <3>1. backlog[i + 1] = backlog[j + 1]
      BY <1>2, <2>4
    <3>2. i + 1 = j + 1
      BY <2>1, <3>1 DEF QueueInv
    <3> QED BY <1>2, <3>2
  <2> QED BY <1>2, <2>3, <2>4 DEF QueueInv
<1>6. ListInv'
  <2>1. \A i \in 1 .. Len(ls) : ls[i] \in Conns /\ ls[i] # c
    BY <1>3, ElementOfSeq DEF ListInv
  <2> QED BY <1>1, <2>1 DEF ListInv, ConnType
<1>7. PipeInv'
  BY <1>1, <1>3 DEF PipeInv, ConnType
<1>8. RowsInv'
  BY <1>1, <1>3, RowsStay DEF Ended, ConnType
<1> QED BY <1>1, <1>2, <1>3, <1>4, <1>5, <1>6, <1>7, <1>8 DEF c

(* The control socket releases only what was dropped. *)
LEMMA ControlPlaces ==
  ASSUME Inv, em_event_process
  PROVE  /\ Inv' /\ UNCHANGED db
         /\ \A c \in Conns : conn'[c] # conn[c] => conn[c] = "dropped" /\ conn'[c] = "released"
<1> USE DEF Inv
<1>1. /\ conn' = [c \in Conns |-> IF c \in Released THEN "released" ELSE conn[c]]
      /\ pipe' = <<>>
      /\ UNCHANGED <<backlog, due, avail, rx, ls, db>>
  BY DEF em_event_process, peerVars
<1>2. \A c \in Released : c \in Conns /\ conn[c] = "dropped"
  BY DEF Released, Contains, PipeInv
<1> HIDE DEF Released
<1>3. ConnType' /\ BufferInv'
  BY <1>1 DEF ConnType, BufferInv, Phases
<1>4. QueueInv'
  <2>1. \A i \in 1 .. Len(backlog) : backlog[i] \in Conns \ Released
    BY <1>2, ElementOfSeq DEF QueueInv
  <2> QED BY <1>1, <2>1 DEF QueueInv
<1>5. ListInv'
  <2>1. \A i \in 1 .. Len(ls) : ls[i] \in Conns \ Released
    BY <1>2, ElementOfSeq DEF ListInv
  <2> QED BY <1>1, <2>1 DEF ListInv
<1>6. PipeInv'
  BY <1>1 DEF PipeInv
<1>7. RowsInv'
  BY <1>1, RowsStay DEF Ended, ConnType
<1> QED BY <1>1, <1>2, <1>3, <1>4, <1>5, <1>6, <1>7 DEF ConnType

(* What the other steps leave alone. *)
LEMMA OtherSteps ==
  ASSUME Inv, \/ UNCHANGED vars \/ Tick \/ Wait \/ ServerEvent \/ AcceptEnds
              \/ \E c \in Conns : Arrive(c) \/ PeerCloses(c) \/ StaleEvent(c)
  PROVE  Inv' /\ UNCHANGED <<conn, db>>
<1> USE DEF Inv
<1>1. /\ UNCHANGED <<backlog, conn, ls, pipe, db>>
      /\ due' \in [Conns -> Int] /\ avail' \in [Conns -> Nat]
  <2>1. ASSUME NEW c \in Conns, Arrive(c)
        PROVE  due' \in [Conns -> Int] /\ avail' \in [Conns -> Nat]
    BY <2>1 DEF Arrive, ConnType
  <2> QED BY <2>1
    DEF vars, peerVars, clientVars, loopVars, Tick, Wait, ServerEvent, AcceptEnds,
        Arrive, PeerCloses, StaleEvent, ConnType
<1>2. BufferInv'
  <2>1. CASE Tick
    <3> DEFINE Row == [len : Nat, buf : [0 .. Room - 1 -> Int], idle : Nat]
    <3>1. ASSUME NEW c \in Conns, NEW r \in Row
          PROVE  [r EXCEPT !.idle = @ + 1] \in Row /\ [r EXCEPT !.idle = @ + 1].buf = r.buf
      OBVIOUS
    <3>2. rx \in [Conns -> Row]
      BY DEF BufferInv
    <3> HIDE DEF Row
    <3>3. \A c \in Conns : /\ [rx[c] EXCEPT !.idle = @ + 1] \in Row
                            /\ [rx[c] EXCEPT !.idle = @ + 1].buf = rx[c].buf
      BY <3>1, <3>2
    <3>4. rx' = [c \in Conns |->
              IF conn[c] = "held" /\ rx[c].idle < Timeout
              THEN [rx[c] EXCEPT !.idle = @ + 1] ELSE rx[c]]
      BY <2>1 DEF Tick
    <3>5. rx' \in [Conns -> Row] /\ \A c \in Conns : rx'[c].buf = rx[c].buf
      BY <3>2, <3>3, <3>4
    <3> QED BY <3>5 DEF BufferInv, Row
  <2>2. CASE UNCHANGED rx
    BY <2>2 DEF BufferInv
  <2> QED BY <2>1, <2>2
    DEF vars, clientVars, Wait, ServerEvent, AcceptEnds, Arrive, PeerCloses, StaleEvent
<1>3. ConnType' /\ QueueInv' /\ ListInv' /\ PipeInv'
  BY <1>1, StayPlaces
<1>4. RowsInv'
  BY <1>1, RowsStay DEF Ended
<1> QED BY <1>1, <1>2, <1>3, <1>4

-----------------------------------------------------------------------------
(* What a step does to the connections and the rows, seen from ReportService. *)
Decides ==
  \/ UNCHANGED <<conn, db>>
  \/ \E c \in Conns :
       /\ conn[c] = "none" /\ conn' = [conn EXCEPT ![c] = "waiting"] /\ UNCHANGED db
  \/ \E c \in Conns :
       /\ conn[c] = "waiting" /\ UNCHANGED db
       /\ \/ conn' = [conn EXCEPT ![c] = "held"]
          \/ conn' = [conn EXCEPT ![c] = "refused"]
  \/ \E c \in Conns \ Foreign :
       /\ conn[c] = "held" /\ conn' = [conn EXCEPT ![c] = "dropped"]
       /\ db' = Append(db, <<c, Report>>)
  \/ \E S \in SUBSET Conns :
       /\ \A c \in S : conn[c] = "held"
       /\ conn' = [c \in Conns |-> IF c \in S THEN "dropped" ELSE conn[c]]
       /\ UNCHANGED db
  \/ /\ \A c \in Conns : conn'[c] # conn[c] =>
          conn[c] = "dropped" /\ conn'[c] = "released"
     /\ UNCHANGED db

LEMMA OutcomeDecides ==
  ASSUME ConnType, NEW c \in Conns, conn[c] = "held", Outcome(c)
  PROVE  Decides
<1>1. CASE conn' = [conn EXCEPT ![c] = "dropped"] /\ UNCHANGED db
  <2>1. /\ {c} \in SUBSET Conns /\ \A d \in {c} : conn[d] = "held"
        /\ conn' = [d \in Conns |-> IF d \in {c} THEN "dropped" ELSE conn[d]]
    BY <1>1 DEF ConnType
  <2> QED BY <1>1, <2>1 DEF Decides
<1>2. CASE /\ conn' = [conn EXCEPT ![c] = "dropped"] /\ c \notin Foreign
           /\ db' = Append(db, <<c, Report>>)
  BY <1>2 DEF Decides
<1>3. CASE UNCHANGED <<conn, db>>
  BY <1>3 DEF Decides
<1> QED BY <1>1, <1>2, <1>3 DEF Outcome

LEMMA NextInv == Inv /\ [Next]_vars => Inv' /\ Decides
<1> SUFFICES ASSUME Inv, [Next]_vars PROVE Inv' /\ Decides
  OBVIOUS
<1>1. ASSUME NEW c \in Conns, Connect(c) PROVE Inv' /\ Decides
  BY <1>1, ConnectPlaces DEF Decides
<1>2. CASE Accept
  BY <1>2, AcceptPlaces, AcceptBlocks DEF Decides
<1>3. CASE AcceptFails
  BY <1>3, RefusePlaces DEF Decides
<1>4. CASE em_event_process
  BY <1>4, ControlPlaces DEF Decides
<1>5. CASE cb_epoll_after
  BY <1>5, AfterPlaces DEF Decides
<1>6. CASE \/ UNCHANGED vars \/ Tick \/ Wait \/ ServerEvent \/ AcceptEnds
           \/ \E c \in Conns : Arrive(c) \/ PeerCloses(c) \/ StaleEvent(c)
  BY <1>6, OtherSteps DEF Decides
<1>7. ASSUME NEW c \in Conns, conn[c] = "held", client_in_nonblock_et(c),
             UNCHANGED <<backlog, due>>
      PROVE  Inv' /\ Decides
  <2>1. Inv' /\ Outcome(c)
    BY <1>7, ServeStep
  <2> QED BY <1>7, <2>1, OutcomeDecides DEF Inv
<1>8. ASSUME UNCHANGED <<backlog, due, avail, clientVars, pipe, db>>
      PROVE  Inv' /\ Decides
  <2>1. Inv'
    BY <1>8 DEF Inv, clientVars, ConnType, QueueInv, ListInv, Distinct, PipeInv,
                BufferInv, RowsInv, Ended
  <2> QED BY <1>8, <2>1 DEF Decides, clientVars
<1>9. ASSUME NEW c \in Conns, ClientEvent(c) PROVE Inv' /\ Decides
  <2>1. UNCHANGED <<backlog, due>>
    BY <1>9 DEF ClientEvent
  <2>2. \/ conn[c] = "held" /\ client_in_nonblock_et(c)
        \/ UNCHANGED <<avail, clientVars, pipe, db>>
    BY <1>9 DEF ClientEvent
  <2> QED BY <1>7, <1>8, <2>1, <2>2
<1> QED BY <1>1, <1>2, <1>3, <1>4, <1>5, <1>6, <1>9 DEF Next, em_thread, Peers

-----------------------------------------------------------------------------
LEMMA InvRows == Inv => RowsAreReports
<1> SUFFICES ASSUME RowsInv PROVE RowsAreReports
  BY DEF Inv
<1>1. DOMAIN db = 1 .. Len(db)
  BY LenProperties DEF RowsInv
<1> QED BY <1>1 DEF RowsInv, RowsAreReports

(* Every row holds a report as it was sent, of a connection that sent one, and no
   connection gives two rows: whatever the order of the events, the number of
   connections, and the pieces in which a report arrives (client_in_nonblock_et). *)
THEOREM RowsAlwaysReports == Spec => []RowsAreReports
<1>1. Init => Inv
  BY InitInv
<1>2. Inv /\ [Next]_vars => Inv'
  BY NextInv
<1>3. Inv => RowsAreReports
  BY InvRows
<1> QED BY <1>1, <1>2, <1>3, PTL DEF Spec

(* The packet that is put together in buf never passes CHECK_DATA, as no copy reaches
   the first piece of buf: a report that arrives in parts is not recorded. *)
PartsDoNotPass == \A c \in Conns :
  avail[c] \in 1 .. Size - 1 => ~ MagicOk(c, Copied(c)[0])

THEOREM PartsNeverPass == Spec => []PartsDoNotPass
<1>1. Init => Inv
  BY InitInv
<1>2. Inv /\ [Next]_vars => Inv'
  BY NextInv
<1>3. Inv => PartsDoNotPass
  BY CopyKeepsFirstFree DEF Inv, PartsDoNotPass, MagicOk
<1> QED BY <1>1, <1>2, <1>3, PTL DEF Spec

-----------------------------------------------------------------------------
(* ReportService's view of a connection. *)
LEMMA Unrecorded ==
  ASSUME RowsInv, NEW c \in Conns, ~ Ended(c)
  PROVE  ~ Recorded(c)
<1>1. DOMAIN db = 1 .. Len(db)
  BY LenProperties DEF RowsInv
<1> QED BY <1>1 DEF RowsInv, Recorded

LEMMA ViewStays ==
  ASSUME NEW c \in Conns, conn'[c] = conn[c], Recorded(c)' = Recorded(c)
  PROVE  Status(c)' = Status(c)
BY DEF Status

LEMMA RecordedStays ==
  ASSUME UNCHANGED db, NEW c \in Conns
  PROVE  Recorded(c)' = Recorded(c)
BY DEF Recorded

LEMMA RecordedAfter ==
  ASSUME RowsInv, NEW c \in Conns, db' = Append(db, <<c, Report>>)
  PROVE  Recorded(c)' /\ \A d \in Conns \ {c} : Recorded(d)' = Recorded(d)
<1>1. <<c, Report>> \in Conns \X [1 .. Size -> 0 .. Size]
  BY CollectorAssumption DEF Report
<1>2. /\ Len(db) \in Nat /\ DOMAIN db = 1 .. Len(db)
      /\ DOMAIN db' = 1 .. Len(db) + 1
      /\ \A i \in 1 .. Len(db) : db'[i] = db[i]
      /\ db'[Len(db) + 1] = <<c, Report>>
  BY <1>1, AppendProperties, LenProperties DEF RowsInv
<1>3. \A i \in DOMAIN db' : i \in DOMAIN db \/ i = Len(db) + 1
  BY <1>2
<1>4. \A i \in DOMAIN db : i \in DOMAIN db' /\ db'[i] = db[i]
  BY <1>2
<1>5. Len(db) + 1 \in DOMAIN db'
  BY <1>2
<1>6. <<c, Report>>[1] = c
  OBVIOUS
<1> QED BY <1>2, <1>3, <1>4, <1>5, <1>6 DEF Recorded

(* Every step is one of ReportService's, or changes nothing in its view. *)
LEMMA StepSimulation ==
  ASSUME Inv, Decides
  PROVE  [Service!Next]_([c \in Conns |-> Status(c)])
<1> DEFINE view == [c \in Conns |-> Status(c)]
<1>0. conn \in [Conns -> Phases] /\ RowsInv
  BY DEF Inv, ConnType
<1>a. ASSUME \A c \in Conns : Status(c)' = Status(c)
      PROVE  view' = view
  BY <1>a
<1>1. CASE UNCHANGED <<conn, db>>
  BY <1>1, <1>a, ViewStays, RecordedStays
<1>2. ASSUME NEW c \in Conns, conn[c] = "none", UNCHANGED db,
             conn' = [conn EXCEPT ![c] = "waiting"]
      PROVE  Service!Open(c)
  <2>1. Status(c) = "none" /\ Status(c)' = "open"
    BY <1>0, <1>2 DEF Status
  <2>2. \A d \in Conns \ {c} : Status(d)' = Status(d)
    BY <1>0, <1>2, ViewStays, RecordedStays
  <2>3. view' = [view EXCEPT ![c] = "open"]
    BY <2>1, <2>2
  <2> QED BY <2>1, <2>3 DEF Service!Open
<1>3. ASSUME NEW c \in Conns, conn[c] = "waiting", UNCHANGED db,
             conn' = [conn EXCEPT ![c] = "held"]
      PROVE  view' = view
  <2>1. Status(c) = "open" /\ Status(c)' = "open"
    BY <1>0, <1>3 DEF Status
  <2>2. \A d \in Conns \ {c} : Status(d)' = Status(d)
    BY <1>0, <1>3, ViewStays, RecordedStays
  <2> QED BY <1>a, <2>1, <2>2
<1>4. ASSUME NEW S \in SUBSET Conns, NEW p \in {"dropped", "refused"},
             \A c \in S : conn[c] \in {"waiting", "held"}, UNCHANGED db,
             conn' = [c \in Conns |-> IF c \in S THEN p ELSE conn[c]]
      PROVE  Service!GiveUp(S)
  <2>1. ASSUME NEW c \in S PROVE Status(c) = "open" /\ Status(c)' = "lost"
    <3>1. ~ Recorded(c)
      BY <1>0, <1>4, Unrecorded DEF Ended
    <3>2. ~ Recorded(c)'
      BY <1>4, <3>1, RecordedStays
    <3> QED BY <1>4, <3>2 DEF Status
  <2>2. \A c \in Conns \ S : Status(c)' = Status(c)
    BY <1>0, <1>4, ViewStays, RecordedStays
  <2>3. view' = [c \in Conns |-> IF c \in S THEN "lost" ELSE view[c]]
    BY <2>1, <2>2
  <2> QED BY <2>1, <2>3 DEF Service!GiveUp
<1>5. ASSUME NEW c \in Conns \ Foreign, conn[c] = "held",
             conn' = [conn EXCEPT ![c] = "dropped"],
             db' = Append(db, <<c, Report>>)
      PROVE  Service!Take(c)
  <2>1. Recorded(c)' /\ \A d \in Conns \ {c} : Recorded(d)' = Recorded(d)
    BY <1>0, <1>5, RecordedAfter
  <2>2. Status(c) = "open" /\ Status(c)' = "taken"
    BY <1>0, <1>5, <2>1 DEF Status
  <2>3. \A d \in Conns \ {c} : Status(d)' = Status(d)
    BY <1>0, <1>5, <2>1, ViewStays
  <2>4. view' = [view EXCEPT ![c] = "taken"]
    BY <2>2, <2>3
  <2> QED BY <2>2, <2>4 DEF Service!Take
<1>6. ASSUME \A c \in Conns : conn'[c] # conn[c] =>
               conn[c] = "dropped" /\ conn'[c] = "released",
             UNCHANGED db
      PROVE  view' = view
  <2>1. \A c \in Conns : Recorded(c)' = Recorded(c)
    BY <1>6, RecordedStays
  <2>2. ASSUME NEW c \in Conns, conn'[c] # conn[c] PROVE Status(c)' = Status(c)
    BY <1>6, <2>1, <2>2 DEF Status
  <2> QED BY <1>a, <2>1, <2>2, ViewStays
<1>7. ASSUME NEW c \in Conns, conn[c] = "waiting", UNCHANGED db,
             conn' = [conn EXCEPT ![c] = "refused"]
      PROVE  \E S \in SUBSET Conns : Service!GiveUp(S)
  <2>1. conn' = [d \in Conns |-> IF d \in {c} THEN "refused" ELSE conn[d]]
    BY <1>0, <1>7
  <2> QED BY <1>4, <1>7, <2>1
<1>8. ASSUME NEW S \in SUBSET Conns, \A c \in S : conn[c] = "held", UNCHANGED db,
             conn' = [c \in Conns |-> IF c \in S THEN "dropped" ELSE conn[c]]
      PROVE  Service!GiveUp(S)
  BY <1>4, <1>8
<1> HIDE DEF view
<1>9. Service!Next \/ view' = view
  BY <1>1, <1>2, <1>3, <1>5, <1>6, <1>7, <1>8 DEF Decides, Service!Next
<1> QED BY <1>9 DEF view

(* For any connections and peers, the collector keeps the promises of ReportService: a
   connection is decided once, and a row is a genuine report that was still open
   (client_conn, client_in_nonblock_et, client_disc, cb_epoll_after). *)
THEOREM CollectorImplementsService == Spec => ImplementsService
<1>1. Init => Service!Init
  BY DEF Init, Service!Init, Status
<1>2. Inv /\ [Next]_vars => [Service!Next]_([c \in Conns |-> Status(c)])
  BY NextInv, StepSimulation
<1>3. Init => Inv
  BY InitInv
<1>4. Inv /\ [Next]_vars => Inv'
  BY NextInv
<1> QED BY <1>1, <1>2, <1>3, <1>4, PTL DEF Spec, ImplementsService, Service!Spec

-----------------------------------------------------------------------------
(* The bounds of what has arrived, of what is read, and of the loop's own lists. *)
ArrivalBounds ==
  /\ due \in [Conns -> 0 .. Size] /\ avail \in [Conns -> 0 .. Window]
  /\ fin \in [Conns -> BOOLEAN]
  /\ \A c \in Conns \ Foreign : due[c] + avail[c] <= Size

Rows == [len : 0 .. Size - 1, buf : [0 .. Room - 1 -> 0 .. Size], idle : 0 .. Timeout]
BufferBounds == rx \in [Conns -> Rows]

LoopBounds ==
  /\ watched \subseteq Descriptors /\ unadded \subseteq Descriptors
  /\ ready \subseteq Descriptors
  /\ batch \in Seq(Descriptors) /\ at \in {"wait", "events", "accept", "blocked"}
  /\ at = "wait" => batch = <<>>

Bounds == ArrivalBounds /\ BufferBounds /\ LoopBounds

LEMMA BoundsType == Inv /\ Bounds => TypeOK
BY DEF Inv, ConnType, QueueInv, ListInv, PipeInv, RowsInv, Bounds, ArrivalBounds,
       BufferBounds, Rows, LoopBounds, TypeOK

LEMMA FreshRow == Fresh \in Rows
BY CollectorAssumption DEF Fresh, Empty, Rows

LEMMA InitBounds == Init => Bounds
BY CollectorAssumption, FreshRow
DEF Init, Bounds, ArrivalBounds, BufferBounds, LoopBounds, Descriptors

LEMMA WithinReport ==
  ASSUME NEW o \in Int, NEW g \in Nat, NEW n \in Nat, NEW i \in Int,
         g + n <= Size, o <= i, i < o + n
  PROVE  g + (1 + i - o) \in 0 .. Size
BY CollectorAssumption

(* What is copied into buf are pieces of the report that have arrived. *)
LEMMA CopyBounds ==
  ASSUME NEW c \in Conns, ArrivalBounds, BufferBounds
  PROVE  Copied(c) \in [0 .. Room - 1 -> 0 .. Size]
<1>1. /\ Size \in Nat /\ Room \in Nat /\ due[c] \in 0 .. Size /\ avail[c] \in Nat
      /\ c \notin Foreign => due[c] + avail[c] <= Size
      /\ rx[c].len \in Nat /\ rx[c].buf \in [0 .. Room - 1 -> 0 .. Size]
  BY CollectorAssumption DEF ArrivalBounds, BufferBounds, Rows
<1>2. /\ Offset(c) = rx[c].len + avail[c]
      /\ Got(c) = Size - due[c] - avail[c]
  BY DEF Offset, Got
<1>3. ASSUME NEW i \in 0 .. Room - 1, Offset(c) <= i /\ i < Offset(c) + avail[c]
      PROVE  Piece(c, 1 + i - Offset(c)) \in 0 .. Size
  <2>1. CASE c \in Foreign
    BY <1>1, <2>1 DEF Piece
  <2>2. CASE c \notin Foreign
    <3>1. /\ Offset(c) \in Int /\ Got(c) \in Int /\ i \in Int
          /\ Got(c) >= 0 /\ Got(c) + avail[c] <= Size
      BY <1>1, <1>2, <2>2
    <3>2. Got(c) \in Nat
      BY <3>1
    <3>3. Got(c) + (1 + i - Offset(c)) \in 0 .. Size
      BY <1>1, <1>3, <3>1, <3>2, WithinReport
    <3> QED BY <2>2, <3>3 DEF Piece
  <2> QED BY <2>1, <2>2
<1>4. \A i \in 0 .. Room - 1 : rx[c].buf[i] \in 0 .. Size
  BY <1>1
<1> QED BY <1>3, <1>4 DEF Copied

LEMMA HeadOfBatch ==
  ASSUME NEW d, LoopBounds, Current(d)
  PROVE  /\ Len(batch) \in Nat \ {0} /\ batch[1] = d
         /\ Tail(batch) \in Seq(Descriptors) /\ Len(Tail(batch)) = Len(batch) - 1
         /\ \A i \in 1 .. Len(Tail(batch)) : Tail(batch)[i] = batch[i + 1]
BY HeadTailProperties, EmptySeq DEF LoopBounds, Current

(* What serving a connection does to its place and to the thread. *)
LEMMA Served ==
  ASSUME Inv, NEW c \in Conns, client_in_nonblock_et(c)
  PROVE  /\ Return \/ Again
         /\ \/ /\ client_disc(c) /\ at' \in {"events", "blocked"}
               /\ ready' = ready \/ ready' = ready \cup {Control}
            \/ UNCHANGED <<conn, ls, pipe, ready, at>>
<1>1. ASSUME client_disc(c)
      PROVE  /\ at' \in {"events", "blocked"}
             /\ ready' = ready \/ ready' = ready \cup {Control}
  BY <1>1 DEF client_disc, Notify, Signal
<1>2. client_disc(c) \/ UNCHANGED <<conn, ls, pipe, ready, at>>
  BY DEF client_in_nonblock_et, ReadWhole, ReadPart, ReadNothing, Insert, Keep, clientVars
<1>3. Return \/ Again
  BY DEF client_in_nonblock_et, ReadWhole, ReadPart, ReadNothing, Insert
<1> QED BY <1>1, <1>2, <1>3

LEMMA ServeBounds ==
  ASSUME NEW c \in Conns, Bounds, client_in_nonblock_et(c), UNCHANGED <<due, fin>>
  PROVE  ArrivalBounds' /\ BufferBounds'
<1> USE DEF Bounds
<1>1. ArrivalBounds'
  <2>1. \/ avail' = avail
        \/ avail' = [avail EXCEPT ![c] = 0]
        \/ avail[c] >= Size /\ avail' = [avail EXCEPT ![c] = avail[c] - Size]
    BY DEF client_in_nonblock_et, ReadWhole, ReadPart, ReadNothing
  <2>2. /\ Size \in Nat /\ Window \in Nat /\ \A d \in Conns : due[d] \in 0 .. Size
        /\ \A d \in Conns : avail[d] \in 0 .. Window
    BY CollectorAssumption DEF ArrivalBounds
  <2>3. CASE avail' = avail
    BY <2>3 DEF ArrivalBounds
  <2>4. ASSUME NEW n \in 0 .. Window, n <= avail[c], avail' = [avail EXCEPT ![c] = n]
        PROVE  ArrivalBounds'
    <3>1. avail' \in [Conns -> 0 .. Window]
      BY <2>4 DEF ArrivalBounds
    <3>2. ASSUME NEW d \in Conns \ Foreign PROVE due[d] + avail'[d] <= Size
      <4>1. due[d] + avail[d] <= Size
        BY DEF ArrivalBounds
      <4>2. avail'[d] = avail[d] \/ (d = c /\ avail'[d] = n)
        BY <2>4 DEF ArrivalBounds
      <4> QED BY <2>2, <2>4, <4>1, <4>2
    <3> QED BY <3>1, <3>2 DEF ArrivalBounds
  <2>5. 0 \in 0 .. Window /\ 0 <= avail[c]
    BY <2>2
  <2>6. avail[c] >= Size => avail[c] - Size \in 0 .. Window /\ avail[c] - Size <= avail[c]
    BY <2>2
  <2> QED BY <2>1, <2>3, <2>4, <2>5, <2>6
<1>2. rx' = [rx EXCEPT ![c] = Fresh] => BufferBounds'
  BY FreshRow DEF BufferBounds
<1>3. ASSUME client_disc(c) PROVE BufferBounds'
  BY <1>2, <1>3 DEF client_disc
<1>4. UNCHANGED rx => BufferBounds'
  BY DEF BufferBounds
<1>5. CASE ReadWhole(c)
  <2>1. client_disc(c) \/ rx' = [rx EXCEPT ![c] = [rx[c] EXCEPT !.len = 0]]
    BY <1>5 DEF ReadWhole, Insert, Keep
  <2>2. rx' = [rx EXCEPT ![c] = [rx[c] EXCEPT !.len = 0]] => BufferBounds'
    <3>1. rx[c] \in Rows /\ 0 \in 0 .. Size - 1
      BY CollectorAssumption DEF BufferBounds
    <3>2. [rx[c] EXCEPT !.len = 0] \in Rows
      BY <3>1 DEF Rows
    <3> QED BY <3>2 DEF BufferBounds
  <2> QED BY <1>1, <1>3, <2>1, <2>2
<1>6. CASE ReadPart(c)
  <2>1. \/ client_disc(c)
        \/ \E l \in 0 .. Size - 1 :
             rx' = [rx EXCEPT ![c] = [len |-> l, buf |-> Copied(c), idle |-> 0]]
    <3>1. LenAfter(c) \subseteq Nat /\ Size \in Nat \ {0} /\ 0 \in 0 .. Size - 1
      BY CollectorAssumption DEF LenAfter, BufferBounds, ArrivalBounds, Rows
    <3>2. \A len \in LenAfter(c) : len < Size => len \in 0 .. Size - 1
      BY <3>1
    <3> QED BY <1>6, <3>1, <3>2 DEF ReadPart, Insert, Keep
  <2>2. ASSUME NEW l \in 0 .. Size - 1,
               rx' = [rx EXCEPT ![c] = [len |-> l, buf |-> Copied(c), idle |-> 0]]
        PROVE  BufferBounds'
    <3>1. [len |-> l, buf |-> Copied(c), idle |-> 0] \in Rows
      BY CopyBounds, CollectorAssumption DEF Rows
    <3> QED BY <2>2, <3>1 DEF BufferBounds
  <2> QED BY <1>1, <1>3, <2>1, <2>2
<1>7. CASE ReadNothing(c)
  BY <1>1, <1>3, <1>4, <1>7 DEF ReadNothing, clientVars
<1> QED BY <1>5, <1>6, <1>7 DEF client_in_nonblock_et

LEMMA ClientBounds ==
  ASSUME NEW c \in Conns, Inv, Bounds, ClientEvent(c)
  PROVE  Bounds'
<1> USE DEF Bounds
<1>1. /\ Current(c) /\ at = "events" /\ UNCHANGED <<due, fin, watched, unadded>>
      /\ \/ client_in_nonblock_et(c)
         \/ Return /\ UNCHANGED <<avail, rx, ready, at>>
  BY DEF ClientEvent, Current, clientVars, setVars
<1>2. ArrivalBounds' /\ BufferBounds'
  <2>1. CASE client_in_nonblock_et(c)
    BY <1>1, <2>1, ServeBounds
  <2>2. CASE UNCHANGED <<avail, rx>>
    BY <1>1, <2>2 DEF ArrivalBounds, BufferBounds
  <2> QED BY <1>1, <2>1, <2>2
<1>3. /\ Return \/ Again
      /\ at' \in {"events", "blocked"}
      /\ ready' = ready \/ ready' = ready \cup {Control}
  BY <1>1, Served
<1>4. batch' \in Seq(Descriptors)
  BY <1>1, <1>3, HeadOfBatch DEF Return, Again, LoopBounds
<1>5. LoopBounds'
  BY <1>1, <1>3, <1>4 DEF LoopBounds, Descriptors
<1> QED BY <1>2, <1>5

LEMMA StaleBounds ==
  ASSUME NEW c \in Conns, Bounds, StaleEvent(c)
  PROVE  Bounds'
<1> USE DEF Bounds
<1>1. /\ Current(c) /\ at = "events"
      /\ UNCHANGED <<due, avail, fin, rx, watched, unadded, ready, at>>
      /\ Return \/ \E d \in Conns : batch' = <<d>> \o Tail(batch)
  BY DEF StaleEvent, Current, clientVars, peerVars, setVars
<1>2. batch' \in Seq(Descriptors)
  <2>1. Tail(batch) \in Seq(Descriptors)
    BY <1>1, HeadOfBatch
  <2>2. \A d \in Conns : <<d>> \in Seq(Descriptors)
    BY DEF Descriptors
  <2> QED BY <1>1, <2>1, <2>2, ConcatProperties DEF Return
<1> QED BY <1>1, <1>2 DEF ArrivalBounds, BufferBounds, LoopBounds

(* A set as a list: every element, and nothing else. *)
LEMMA Listing ==
  ASSUME NEW S, IsFiniteSet(S), NEW s \in SetToSeqs(S)
  PROVE  s \in Seq(S) /\ \A x \in S : Contains(s, x)
<1> DEFINE n == Cardinality(S)
<1>1. /\ n \in Nat /\ s \in [1 .. n -> S]
      /\ \A i, j \in 1 .. n : i # j => s[i] # s[j]
  BY FS_CardinalityType DEF SetToSeqs
<1>2. IsFiniteSet(1 .. n) /\ Cardinality(1 .. n) = n
  BY <1>1, FS_Interval
<1>3. s \in Injection(1 .. n, S)
  BY <1>1 DEF Injection, IsInjective
<1>4. s \in Surjection(1 .. n, S)
  BY <1>2, <1>3, FS_Injection
<1>5. s \in Seq(S) /\ Len(s) = n
  BY <1>1
<1> QED BY <1>4, <1>5 DEF Surjection, Contains

LEMMA FiniteDescriptors ==
  ASSUME NEW S \in SUBSET Descriptors
  PROVE  IsFiniteSet(S)
<1>1. IsFiniteSet(Conns \cup {Server})
  BY CollectorAssumption, FS_AddElement
<1>2. IsFiniteSet((Conns \cup {Server}) \cup {Control})
  BY <1>1, FS_AddElement
<1>3. S \subseteq (Conns \cup {Server}) \cup {Control}
  BY DEF Descriptors
<1> QED BY <1>2, <1>3, FS_Subset

LEMMA StepBounds == Inv /\ Bounds /\ [Next]_vars => Bounds'
<1> SUFFICES ASSUME Inv, Bounds, [Next]_vars PROVE Bounds'
  OBVIOUS
<1> USE DEF Bounds
<1>1. ASSUME NEW c \in Conns, Arrive(c) PROVE Bounds'
  <2>1. /\ avail' = [avail EXCEPT ![c] = avail[c] + 1] /\ avail[c] < Window
        /\ \/ c \in Foreign /\ UNCHANGED due
           \/ c \notin Foreign /\ due[c] > 0 /\ due' = [due EXCEPT ![c] = due[c] - 1]
        /\ UNCHANGED <<fin, rx, watched, unadded, batch, at>>
        /\ ready' = ready \/ ready' = ready \cup {c}
    BY <1>1 DEF Arrive, Signal, clientVars, setVars
  <2>2. /\ Size \in Nat /\ Window \in Nat
        /\ \A d \in Conns : due[d] \in 0 .. Size /\ avail[d] \in 0 .. Window
        /\ \A d \in Conns \ Foreign : due[d] + avail[d] <= Size
    BY CollectorAssumption DEF ArrivalBounds
  <2>3. (due[c] > 0 => due[c] - 1 \in 0 .. Size) /\ avail[c] + 1 \in 0 .. Window
    BY <2>1, <2>2
  <2>4. due' \in [Conns -> 0 .. Size] /\ avail' \in [Conns -> 0 .. Window]
    BY <2>1, <2>3 DEF ArrivalBounds
  <2>5. ASSUME NEW d \in Conns \ Foreign PROVE due'[d] + avail'[d] <= Size
    <3>1. CASE d = c
      <4>1. due'[d] = due[d] - 1 /\ avail'[d] = avail[d] + 1
        BY <2>1, <3>1 DEF ArrivalBounds
      <4> QED BY <2>2, <4>1
    <3>2. CASE d # c
      BY <2>1, <2>2, <3>2 DEF ArrivalBounds
    <3> QED BY <3>1, <3>2
  <2> QED BY <2>1, <2>4, <2>5 DEF ArrivalBounds, BufferBounds, LoopBounds, Descriptors
<1>2. ASSUME NEW c \in Conns, PeerCloses(c) PROVE Bounds'
  BY <1>2
  DEF PeerCloses, Signal, clientVars, setVars, ArrivalBounds, BufferBounds, LoopBounds, Descriptors
<1>3. ASSUME NEW c \in Conns, Connect(c) PROVE Bounds'
  BY <1>3
  DEF Connect, Signal, peerVars, setVars, ArrivalBounds, BufferBounds, LoopBounds, Descriptors
<1>4. CASE Tick
  <2>1. /\ UNCHANGED <<due, avail, fin, watched, unadded, ready, batch, at>>
        /\ rx' = [c \in Conns |->
              IF conn[c] = "held" /\ rx[c].idle < Timeout
              THEN [rx[c] EXCEPT !.idle = @ + 1] ELSE rx[c]]
    BY <1>4 DEF Tick, peerVars, loopVars, setVars
  <2>2. ASSUME NEW c \in Conns, rx[c].idle < Timeout
        PROVE  [rx[c] EXCEPT !.idle = @ + 1] \in Rows
    <3>1. rx[c] \in Rows /\ Timeout \in Nat /\ rx[c].idle \in 0 .. Timeout
      BY CollectorAssumption DEF BufferBounds, Rows
    <3>2. rx[c].idle + 1 \in 0 .. Timeout
      BY <2>2, <3>1
    <3> QED BY <3>1, <3>2 DEF Rows
  <2>3. BufferBounds'
    BY <2>1, <2>2 DEF BufferBounds
  <2> QED BY <2>1, <2>3 DEF ArrivalBounds, LoopBounds
<1>5. CASE Wait
  <2> DEFINE D == {d \in ready : Readable(d)}
  <2>1. D \in SUBSET Descriptors /\ batch' \in SetToSeqs(D) /\ ready' = {}
    BY <1>5 DEF Wait, LoopBounds
  <2>2. batch' \in Seq(D)
    BY <2>1, FiniteDescriptors, Listing
  <2>3. batch' \in Seq(Descriptors)
    BY <2>1, <2>2, SeqMonotonic
  <2> QED BY <1>5, <2>1, <2>3
    DEF Wait, peerVars, clientVars, setVars, ArrivalBounds, BufferBounds, LoopBounds
<1>6. CASE Accept
  <2>1. /\ rx' = [rx EXCEPT ![Head(backlog)] = Fresh] \/ UNCHANGED rx
        /\ at' \in {"accept", "blocked"}
        /\ UNCHANGED <<due, avail, fin, watched, unadded, batch>>
        /\ ready' = ready \/ ready' = ready \cup {Control}
    BY <1>6 DEF Accept, Notify, Signal, peerVars, clientVars, setVars
  <2>2. BufferBounds'
    BY <2>1, FreshRow DEF BufferBounds
  <2> QED BY <2>1, <2>2 DEF ArrivalBounds, LoopBounds, Descriptors
<1>7. CASE AcceptFails
  BY <1>7 DEF AcceptFails, peerVars, loopVars, setVars, ArrivalBounds, BufferBounds, LoopBounds
<1>8. CASE AcceptEnds
  BY <1>8 DEF AcceptEnds, peerVars, clientVars, setVars, ArrivalBounds, BufferBounds, LoopBounds
<1>9. CASE ServerEvent
  BY <1>9, HeadOfBatch
  DEF ServerEvent, Return, Current, peerVars, clientVars, setVars, ArrivalBounds, BufferBounds, LoopBounds
<1>10. CASE em_event_process
  <2>1. /\ Current(Control) /\ batch' = Tail(batch)
        /\ \E failed \in SUBSET Added :
             /\ ready' = (ready \cup {d \in Added \ failed : Readable(d)}) \ Released
             /\ watched' = (watched \cup (Added \ failed)) \ Released
             /\ unadded' = (unadded \cup failed) \ Released
        /\ UNCHANGED <<due, avail, fin, rx, at>>
    BY <1>10 DEF em_event_process, Return, peerVars
  <2>2. Added \subseteq Descriptors
    BY DEF Added
  <2>3. LoopBounds'
    BY <2>1, <2>2, HeadOfBatch DEF LoopBounds, Current
  <2> QED BY <2>1, <2>3 DEF ArrivalBounds, BufferBounds
<1>11. CASE cb_epoll_after
  <2>1. /\ UNCHANGED <<due, avail, fin, watched, unadded, batch>> /\ batch = <<>>
        /\ at' \in {"wait", "blocked"}
        /\ ready' = ready \/ ready' = ready \cup {Control}
        /\ \E n \in 0 .. Len(ls) :
             rx' = [c \in Conns |-> IF \E i \in 1 .. n : ls[i] = c THEN Fresh ELSE rx[c]]
    BY <1>11 DEF cb_epoll_after, Notify, Signal, peerVars, setVars
  <2>2. BufferBounds'
    BY <2>1, FreshRow DEF BufferBounds
  <2> QED BY <2>1, <2>2 DEF ArrivalBounds, LoopBounds, Descriptors
<1>12. CASE UNCHANGED vars
  BY <1>12
  DEF vars, peerVars, clientVars, loopVars, setVars, ArrivalBounds, BufferBounds, LoopBounds
<1> QED BY <1>1, <1>2, <1>3, <1>4, <1>5, <1>6, <1>7, <1>8, <1>9, <1>10, <1>11, <1>12,
           ClientBounds, StaleBounds DEF Next, em_thread, Peers

(* Every variable has its type, for any connections and any size of a report: no piece
   of a report is counted twice, and what lies in buf are such pieces
   (client_in_nonblock_et, em_event_process). *)
THEOREM TypeCorrect == Spec => []TypeOK
<1>1. Init => Inv /\ Bounds
  BY InitInv, InitBounds
<1>2. Inv /\ Bounds /\ [Next]_vars => Inv' /\ Bounds'
  BY NextInv, StepBounds
<1>3. Inv /\ Bounds => TypeOK
  BY BoundsType
<1> QED BY <1>1, <1>2, <1>3, PTL DEF Spec

-----------------------------------------------------------------------------
(* What is in a sequence after an element or several were added or removed. *)
LEMMA Joined ==
  ASSUME NEW S, NEW s \in Seq(S), NEW t \in Seq(S)
  PROVE  /\ \A x : Contains(s \o t, x) <=> Contains(s, x) \/ Contains(t, x)
         /\ (/\ Distinct(s) /\ Distinct(t)
             /\ \A x : ~ (Contains(s, x) /\ Contains(t, x))) => Distinct(s \o t)
<1> DEFINE u == s \o t
<1>1. /\ Len(s) \in Nat /\ Len(t) \in Nat /\ Len(u) = Len(s) + Len(t)
      /\ \A i \in 1 .. Len(u) : u[i] = IF i <= Len(s) THEN s[i] ELSE t[i - Len(s)]
  BY ConcatProperties, LenProperties
<1> HIDE DEF u
<1>2. /\ \A i \in 1 .. Len(s) : i \in 1 .. Len(u) /\ u[i] = s[i]
      /\ \A i \in 1 .. Len(t) : /\ i + Len(s) \in 1 .. Len(u)
                                /\ u[i + Len(s)] = t[i]
      /\ \A i \in 1 .. Len(u) : \/ i \in 1 .. Len(s)
                                \/ ~ (i <= Len(s)) /\ i - Len(s) \in 1 .. Len(t)
  BY <1>1, SMTT(30)
<1>3. ASSUME NEW x PROVE Contains(u, x) <=> Contains(s, x) \/ Contains(t, x)
  BY <1>1, <1>2 DEF Contains
<1>4. ASSUME Distinct(s), Distinct(t), \A x : ~ (Contains(s, x) /\ Contains(t, x)),
             NEW i \in 1 .. Len(u), NEW j \in 1 .. Len(u), u[i] = u[j]
      PROVE  i = j
  <2>1. CASE i \in 1 .. Len(s) /\ j \in 1 .. Len(s)
    BY <1>2, <1>4, <2>1 DEF Distinct
  <2>2. CASE /\ ~ (i <= Len(s)) /\ i - Len(s) \in 1 .. Len(t)
             /\ ~ (j <= Len(s)) /\ j - Len(s) \in 1 .. Len(t)
    <3>1. t[i - Len(s)] = t[j - Len(s)]
      BY <1>1, <1>4, <2>2
    <3>2. i - Len(s) = j - Len(s)
      BY <1>4, <2>2, <3>1 DEF Distinct
    <3> QED BY <1>1, <3>2
  <2>3. CASE /\ i \in 1 .. Len(s)
             /\ ~ (j <= Len(s)) /\ j - Len(s) \in 1 .. Len(t)
    <3>1. s[i] = u[i] /\ t[j - Len(s)] = u[i]
      BY <1>1, <1>2, <1>4, <2>3
    <3>2. Contains(s, u[i]) /\ Contains(t, u[i])
      BY <2>3, <3>1 DEF Contains
    <3> QED BY <1>4, <3>2
  <2>4. CASE /\ j \in 1 .. Len(s)
             /\ ~ (i <= Len(s)) /\ i - Len(s) \in 1 .. Len(t)
    <3>1. s[j] = u[j] /\ t[i - Len(s)] = u[j]
      BY <1>1, <1>2, <1>4, <2>4
    <3>2. Contains(s, u[j]) /\ Contains(t, u[j])
      BY <2>4, <3>1 DEF Contains
    <3> QED BY <1>4, <3>2
  <2> QED BY <1>2, <2>1, <2>2, <2>3, <2>4
<1> QED BY <1>3, <1>4 DEF u, Distinct

LEMMA Single ==
  ASSUME NEW x
  PROVE  Distinct(<<x>>) /\ \A y : Contains(<<x>>, y) <=> y = x
BY DEF Distinct, Contains

LEMMA Appended ==
  ASSUME NEW S, NEW s \in Seq(S), NEW x \in S
  PROVE  /\ \A y : Contains(Append(s, x), y) <=> Contains(s, y) \/ y = x
         /\ \A y : Contains(s \o <<x>>, y) <=> Contains(s, y) \/ y = x
         /\ Distinct(s) /\ ~ Contains(s, x) => Distinct(s \o <<x>>)
<1>1. <<x>> \in Seq(S) /\ Append(s, x) = s \o <<x>>
  BY AppendIsConcat
<1>2. \A y : Contains(s \o <<x>>, y) <=> Contains(s, y) \/ Contains(<<x>>, y)
  BY <1>1, Joined
<1>3. ASSUME Distinct(s), ~ Contains(s, x) PROVE Distinct(s \o <<x>>)
  <2>1. Distinct(<<x>>) /\ \A y : ~ (Contains(s, y) /\ Contains(<<x>>, y))
    BY <1>3, Single
  <2> QED BY <1>1, <1>3, <2>1, Joined
<1> QED BY <1>1, <1>2, <1>3, Single

LEMMA Removed ==
  ASSUME NEW S, NEW s \in Seq(S), NEW k \in 1 .. Len(s), NEW x,
         Contains(s, x), x # s[k]
  PROVE  Contains(RemoveAt(s, k), x)
<1> DEFINE r == RemoveAt(s, k)
<1>1. /\ r \in Seq(S) /\ Len(s) \in Nat /\ Len(r) = Len(s) - 1
      /\ \A i \in 1 .. Len(s) - 1 : i < k => r[i] = s[i]
      /\ \A i \in 1 .. Len(s) - 1 : ~ (i < k) => r[i] = s[i + 1]
  BY Removal, LenProperties
<1> HIDE DEF r
<1>2. PICK i \in 1 .. Len(s) : s[i] = x
  BY DEF Contains
<1>3. CASE i < k
  BY <1>1, <1>2, <1>3 DEF Contains, r
<1>4. CASE i > k
  <2>1. i - 1 \in 1 .. Len(s) - 1 /\ ~ (i - 1 < k) /\ (i - 1) + 1 = i
    BY <1>1, <1>4
  <2> QED BY <1>1, <1>2, <2>1 DEF Contains, r
<1> QED BY <1>2, <1>3, <1>4

(* In a sequence without repetitions an element is there once, or not at all. *)
LEMMA Once ==
  ASSUME NEW S, NEW s \in Seq(S), Distinct(s), NEW x
  PROVE  Times(x, s) = IF Contains(s, x) THEN 1 ELSE 0
<1> DEFINE I == {i \in DOMAIN s : s[i] = x}
<1>1. DOMAIN s = 1 .. Len(s)
  BY LenProperties
<1>2. CASE Contains(s, x)
  <2>1. PICK i \in 1 .. Len(s) : s[i] = x
    BY <1>2 DEF Contains
  <2>2. I = {i}
    BY <1>1, <2>1 DEF Distinct
  <2> QED BY <1>2, <2>2, FS_Singleton DEF Times
<1>3. CASE ~ Contains(s, x)
  <2>1. I = {}
    BY <1>1, <1>3 DEF Contains
  <2> QED BY <1>3, <2>1, FS_EmptySet DEF Times
<1> QED BY <1>2, <1>3

-----------------------------------------------------------------------------
(* Where a descriptor is: a connection is in the list while it is held, its release is
   in the control socket once it was dropped, and the epoll set holds no other. *)
PlacesInv ==
  /\ Distinct(pipe)
  /\ Control \in watched
  /\ \A c \in Conns :
       /\ conn[c] = "held" => Contains(ls, c)
       /\ conn[c] = "dropped" => Contains(pipe, <<"R", c>>)
       /\ Contains(pipe, <<"A", c>>) => conn[c] \in {"held", "dropped"}
       /\ c \in watched => conn[c] \in {"held", "dropped"}

Kept == PlacesInv /\ NoEdgeLost

(* All that is said of a thread that works: a blocked one keeps nothing. *)
KeptWhileWorking == at # "blocked" => Kept

LEMMA InitKept == Init => Kept
<1> SUFFICES ASSUME Init PROVE Kept
  OBVIOUS
<1>1. pipe = <<<<"A", Server>>>> /\ watched = {Control} /\ ready = {Control}
      /\ conn = [c \in Conns |-> "none"] /\ Conns \cap {Server, Control} = {}
  BY CollectorAssumption DEF Init
<1>2. Distinct(pipe) /\ \A c \in Conns : ~ Contains(pipe, <<"A", c>>)
  BY <1>1, Single
<1> QED BY <1>1, <1>2 DEF Kept, PlacesInv, NoEdgeLost, InPhase, Announced

LEMMA PipeReleases ==
  ASSUME PipeInv, NEW c \in Conns, Contains(pipe, <<"R", c>>)
  PROVE  conn[c] = "dropped"
BY DEF PipeInv, Contains

(* An event taken from the batch leaves the others there. *)
LEMMA OthersInBatch ==
  ASSUME NEW d, LoopBounds, Current(d), Return,
         NEW e, Contains(batch, e), e # d
  PROVE  Contains(batch', e)
<1>1. PICK i \in 1 .. Len(batch) : batch[i] = e
  BY DEF Contains
<1>2. i # 1 /\ Len(batch) \in Nat /\ i - 1 \in 1 .. Len(Tail(batch)) /\ (i - 1) + 1 = i
  BY <1>1, HeadOfBatch
<1> QED BY <1>1, <1>2, HeadOfBatch DEF Contains, Return

(* A message that was written is announced. *)
LEMMA Announces ==
  ASSUME PipeInv, PlacesInv, NEW m \in {"A", "R"} \X Descriptors,
         NEW next \in {"wait", "events", "accept"}, Notify(<<m>>, next),
         at' # "blocked"
  PROVE  pipe' = pipe \o <<m>> /\ Control \in ready' /\ ready \subseteq ready'
<1>1. pipe' = pipe \o <<m>>
  BY WrittenOne
<1>2. /\ pipe \in Seq({"A", "R"} \X Descriptors)
      /\ <<m>> \in Seq({"A", "R"} \X Descriptors) /\ Len(<<m>>) = 1
  BY DEF PipeInv
<1>3. Len(pipe') = Len(pipe) + 1 /\ Len(pipe) \in Nat
  BY <1>1, <1>2, ConcatProperties, LenProperties
<1>4. pipe' # pipe
  BY <1>3
<1>5. Signal(Control) /\ Control \in watched
  BY <1>4 DEF Notify, PlacesInv
<1> QED BY <1>1, <1>5 DEF Signal

(* client_disc takes a connection from the list and announces its release. *)
LEMMA DiscKept ==
  ASSUME Inv, Kept, NEW c \in Conns, conn[c] = "held", client_disc(c),
         UNCHANGED watched, at' # "blocked"
  PROVE  /\ PlacesInv'
         /\ Control \in ready' /\ ready \subseteq ready'
         /\ \A d \in Conns : Contains(pipe, <<"A", d>>) => Contains(pipe', <<"A", d>>)
         /\ conn' = [conn EXCEPT ![c] = "dropped"]
<1> USE DEF Inv, Kept
<1>1. /\ conn' = [conn EXCEPT ![c] = "dropped"] /\ Notify(<<<<"R", c>>>>, "events")
      /\ \E k \in DOMAIN ls : ls[k] = c /\ ls' = RemoveAt(ls, k)
  BY DEF client_disc
<1>2. pipe' = pipe \o <<<<"R", c>>>> /\ Control \in ready' /\ ready \subseteq ready'
  BY <1>1, Announces DEF Descriptors
<1>3. ~ Contains(pipe, <<"R", c>>)
  BY PipeReleases
<1>4. /\ \A y : Contains(pipe', y) <=> Contains(pipe, y) \/ y = <<"R", c>>
      /\ Distinct(pipe')
  <2>1. /\ pipe \in Seq({"A", "R"} \X Descriptors) /\ Distinct(pipe)
        /\ <<"R", c>> \in {"A", "R"} \X Descriptors
    BY DEF PipeInv, PlacesInv, Descriptors
  <2> QED BY <1>2, <1>3, <2>1, Appended
<1>5. ASSUME NEW d \in Conns, d # c, Contains(ls, d) PROVE Contains(ls', d)
  <2>1. PICK k \in DOMAIN ls : ls[k] = c /\ ls' = RemoveAt(ls, k)
    BY <1>1
  <2>2. ls \in Seq(Conns) /\ k \in 1 .. Len(ls)
    BY <2>1, LenProperties DEF ListInv
  <2> QED BY <1>5, <2>1, <2>2, Removed
<1>6. ASSUME NEW d \in Conns
      PROVE  /\ conn'[d] = "held" => Contains(ls', d)
             /\ conn'[d] = "dropped" => Contains(pipe', <<"R", d>>)
             /\ Contains(pipe', <<"A", d>>) => conn'[d] \in {"held", "dropped"}
             /\ d \in watched' => conn'[d] \in {"held", "dropped"}
  <2>1. conn'[d] = IF d = c THEN "dropped" ELSE conn[d]
    BY <1>1 DEF ConnType
  <2> QED BY <1>4, <1>5, <2>1 DEF PlacesInv
<1>7. Distinct(pipe)'
  BY <1>4 DEF Distinct
<1>8. PlacesInv'
  BY <1>6, <1>7 DEF PlacesInv, Contains
<1> QED BY <1>1, <1>2, <1>4, <1>8

LEMMA ServeKept ==
  ASSUME Inv, Bounds, Kept, NEW c \in Conns, ClientEvent(c),
         conn[c] = "held", client_in_nonblock_et(c), at' # "blocked"
  PROVE  Kept'
<1> USE DEF Inv, Kept
<1>0. Current(c) /\ UNCHANGED <<watched, unadded>> /\ (Return \/ Again)
  BY Served DEF ClientEvent, setVars
<1>1. /\ \A d \in Conns \ {c} : avail'[d] = avail[d] /\ rx'[d] = rx[d]
      /\ client_disc(c) \/ UNCHANGED <<conn, ls, pipe, ready>>
  BY Served
  DEF client_in_nonblock_et, ReadWhole, ReadPart, ReadNothing, Insert, Keep, client_disc,
      ConnType, BufferInv, clientVars
<1>2. client_disc(c) \/ avail'[c] = 0 \/ (c \in Foreign /\ rx'[c].len = 0)
  <2>1. CASE ReadWhole(c)
    BY <2>1 DEF ReadWhole, MagicOk, Insert, Keep, BufferInv
  <2>2. CASE ReadPart(c) \/ ReadNothing(c)
    BY <2>2 DEF ReadPart, ReadNothing, ConnType
  <2> QED BY <2>1, <2>2 DEF client_in_nonblock_et
<1>3. \A d \in {Control} \cup (Conns \ {c}) : Contains(batch, d) => Contains(batch', d)
  BY <1>0, OthersInBatch, CollectorAssumption DEF Bounds, Again, Contains
<1>4. /\ PlacesInv' /\ ready \subseteq ready'
      /\ \A d \in Conns : Contains(pipe, <<"A", d>>) => Contains(pipe', <<"A", d>>)
      /\ \A d \in Conns : conn'[d] = "held" => conn[d] = "held"
      /\ client_disc(c) => conn'[c] = "dropped"
      /\ pipe' # <<>> => Control \in ready' \/ pipe # <<>>
  <2>1. CASE client_disc(c)
    <3>1. /\ PlacesInv' /\ Control \in ready' /\ ready \subseteq ready'
          /\ \A d \in Conns : Contains(pipe, <<"A", d>>) => Contains(pipe', <<"A", d>>)
          /\ conn' = [conn EXCEPT ![c] = "dropped"]
      BY <1>0, <2>1, DiscKept
    <3>2. conn'[c] = "dropped" /\ \A d \in Conns : conn'[d] = "held" => conn[d] = "held"
      BY <3>1 DEF ConnType
    <3> QED BY <3>1, <3>2
  <2>2. CASE ~ client_disc(c) /\ UNCHANGED <<conn, ls, pipe, ready>>
    BY <1>0, <2>2 DEF PlacesInv, Distinct, Contains
  <2> QED BY <1>1, <2>1, <2>2
<1>5. ASSUME NEW d \in Conns, conn'[d] = "held", d \notin unadded
      PROVE  /\ avail'[d] > 0 => \/ d \in ready' \/ Contains(batch', d)
                                 \/ Contains(pipe', <<"A", d>>) \/ BehindRefused(d)'
             /\ d \in watched' \/ Contains(pipe', <<"A", d>>)
  <2>1. d \in InPhase("held")
    BY <1>4, <1>5 DEF InPhase
  <2>2. d \in watched \/ Contains(pipe, <<"A", d>>)
    BY <1>5, <2>1 DEF NoEdgeLost
  <2>3. CASE d = c
    BY <1>0, <1>2, <1>4, <1>5, <2>2, <2>3 DEF BehindRefused
  <2>4. CASE d # c
    <3>1. avail[d] > 0 => \/ d \in ready \/ Contains(batch, d)
                          \/ Contains(pipe, <<"A", d>>) \/ BehindRefused(d)
      BY <1>5, <2>1 DEF NoEdgeLost, Announced
    <3>2. avail'[d] = avail[d] /\ BehindRefused(d)' = BehindRefused(d)
      BY <1>1, <2>4 DEF BehindRefused
    <3> QED BY <1>0, <1>3, <1>4, <2>2, <2>4, <3>1, <3>2
  <2> QED BY <2>3, <2>4
<1>6. pipe' # <<>> => Control \in ready' \/ Contains(batch', Control)
  BY <1>3, <1>4 DEF NoEdgeLost, Announced
<1>7. NoEdgeLost'
  BY <1>0, <1>5, <1>6 DEF NoEdgeLost, InPhase, Announced, Contains
<1> QED BY <1>4, <1>7

(* A step that takes no message and no event, and may add to what is announced. *)
LEMMA OthersKept ==
  ASSUME Inv, Kept, UNCHANGED <<ls, pipe, watched, unadded>>,
         conn' \in [Conns -> Phases],
         \A c \in Conns : conn'[c] # conn[c] =>
           conn[c] \in {"none", "waiting"} /\ conn'[c] \in {"waiting", "refused"},
         ready \subseteq ready',
         \A d \in {Control} \cup InPhase("held") :
           Contains(batch, d) => Contains(batch', d),
         \A c \in InPhase("held") :
           /\ rx'[c].len = rx[c].len
           /\ avail'[c] = avail[c] \/ (c \in watched => c \in ready')
  PROVE  Kept'
<1> USE DEF Inv, Kept
<1>1. PlacesInv'
  <2>1. ASSUME NEW c \in Conns
        PROVE  /\ conn'[c] = "held" => conn[c] = "held"
               /\ conn'[c] = "dropped" => conn[c] = "dropped"
               /\ conn[c] \in {"held", "dropped"} => conn'[c] = conn[c]
    OBVIOUS
  <2>2. Distinct(pipe)' /\ \A x : Contains(pipe, x)' <=> Contains(pipe, x)
    BY DEF PlacesInv, Distinct, Contains
  <2>3. \A x : Contains(ls, x)' <=> Contains(ls, x)
    BY DEF Contains
  <2> QED BY <2>1, <2>2, <2>3 DEF PlacesInv
<1>2. ASSUME NEW d \in Conns, conn'[d] = "held", d \notin unadded
      PROVE  /\ avail'[d] > 0 => \/ d \in ready' \/ Contains(batch', d)
                                 \/ Contains(pipe, <<"A", d>>) \/ BehindRefused(d)'
             /\ d \in watched \/ Contains(pipe, <<"A", d>>)
  <2>1. d \in InPhase("held")
    BY <1>2 DEF InPhase
  <2>2. BehindRefused(d)' = BehindRefused(d)
    BY <2>1 DEF BehindRefused
  <2> QED BY <1>2, <2>1, <2>2 DEF NoEdgeLost, Announced
<1>3. pipe # <<>> => Control \in ready' \/ Contains(batch', Control)
  BY DEF NoEdgeLost, Announced
<1>4. NoEdgeLost'
  BY <1>2, <1>3 DEF NoEdgeLost, InPhase, Announced, Contains
<1> QED BY <1>1, <1>4

LEMMA AcceptKept ==
  ASSUME Inv, Kept, Accept, at' # "blocked"
  PROVE  Kept'
<1> USE DEF Inv, Kept
<1> DEFINE c == Head(backlog)
<1>1. /\ c \in Conns /\ conn[c] = "waiting" /\ conn' = [conn EXCEPT ![c] = "held"]
      /\ ls' = Append(ls, c) /\ Notify(<<<<"A", c>>>>, "accept")
      /\ rx' = [rx EXCEPT ![c] = Fresh]
      /\ UNCHANGED <<avail, watched, unadded, batch>>
  BY AcceptPlaces DEF Accept, peerVars, setVars
<1> HIDE DEF c
<1>2. pipe' = pipe \o <<<<"A", c>>>> /\ Control \in ready' /\ ready \subseteq ready'
  BY <1>1, Announces DEF Descriptors
<1>3. ~ Contains(pipe, <<"A", c>>)
  BY <1>1 DEF PlacesInv
<1>4. /\ \A y : Contains(pipe', y) <=> Contains(pipe, y) \/ y = <<"A", c>>
      /\ Distinct(pipe')
  <2>1. /\ pipe \in Seq({"A", "R"} \X Descriptors) /\ Distinct(pipe)
        /\ <<"A", c>> \in {"A", "R"} \X Descriptors
    BY <1>1 DEF PipeInv, PlacesInv, Descriptors
  <2>2. pipe' = pipe \o <<<<"A", c>>>>
    BY <1>2
  <2> DEFINE T == {"A", "R"} \X Descriptors
             m == <<"A", c>>
  <2>3. pipe \in Seq(T) /\ m \in T /\ Distinct(pipe) /\ ~ Contains(pipe, m)
    BY <1>3, <2>1
  <2> HIDE DEF T, m
  <2>4. /\ \A y : Contains(pipe \o <<m>>, y) <=> Contains(pipe, y) \/ y = m
        /\ Distinct(pipe \o <<m>>)
    BY <2>3, Appended
  <2> QED BY <2>2, <2>4 DEF m
<1>5. \A y : Contains(ls', y) <=> Contains(ls, y) \/ y = c
  BY <1>1, Appended DEF ListInv
<1>6. \A d \in Conns : conn'[d] = IF d = c THEN "held" ELSE conn[d]
  BY <1>1 DEF ConnType
<1>7. PlacesInv'
  <2>1. ASSUME NEW d \in Conns
        PROVE  /\ conn'[d] = "held" => Contains(ls', d)
               /\ conn'[d] = "dropped" => Contains(pipe', <<"R", d>>)
               /\ Contains(pipe', <<"A", d>>) => conn'[d] \in {"held", "dropped"}
               /\ d \in watched' => conn'[d] \in {"held", "dropped"}
    BY <1>1, <1>4, <1>5, <1>6 DEF PlacesInv
  <2>2. Distinct(pipe)'
    BY <1>4 DEF Distinct
  <2> QED BY <1>1, <2>1, <2>2 DEF PlacesInv, Contains
<1>8. ASSUME NEW d \in Conns, conn'[d] = "held", d \notin unadded
      PROVE  /\ avail'[d] > 0 => \/ d \in ready' \/ Contains(batch, d)
                                 \/ Contains(pipe', <<"A", d>>) \/ BehindRefused(d)'
             /\ d \in watched \/ Contains(pipe', <<"A", d>>)
  <2>1. CASE d = c
    BY <1>4, <2>1
  <2>2. CASE d # c
    <3>1. d \in InPhase("held")
      BY <1>6, <1>8, <2>2 DEF InPhase
    <3>2. BehindRefused(d)' = BehindRefused(d)
      BY <1>1, <2>2 DEF BehindRefused, BufferInv
    <3> QED BY <1>1, <1>2, <1>4, <1>8, <3>1, <3>2 DEF NoEdgeLost, Announced
  <2> QED BY <2>1, <2>2
<1>9. NoEdgeLost'
  BY <1>1, <1>2, <1>8 DEF NoEdgeLost, InPhase, Announced, Contains
<1> QED BY <1>7, <1>9

(* epoll_wait returns every descriptor that is ready and readable. *)
LEMMA WaitKept ==
  ASSUME Inv, Bounds, Kept, Wait
  PROVE  Kept'
<1> USE DEF Inv, Kept
<1> DEFINE D == {d \in ready : Readable(d)}
<1>1. /\ batch' \in SetToSeqs(D) /\ batch = <<>>
      /\ UNCHANGED <<conn, rx, avail, ls, pipe, watched, unadded>>
  BY DEF Wait, peerVars, clientVars, setVars, Bounds, LoopBounds
<1>2. \A d \in D : Contains(batch', d)
  <2>1. D \in SUBSET Descriptors
    BY DEF Bounds, LoopBounds
  <2> QED BY <1>1, <2>1, FiniteDescriptors, Listing
<1>3. \A d : ~ Contains(batch, d)
  BY <1>1 DEF Contains
<1>4. PlacesInv'
  BY <1>1 DEF PlacesInv, Distinct, Contains
<1>5. ASSUME NEW d \in Conns, conn'[d] = "held", d \notin unadded
      PROVE  /\ avail'[d] > 0 => \/ Contains(batch', d) \/ Contains(pipe, <<"A", d>>)
                                 \/ BehindRefused(d)'
             /\ d \in watched \/ Contains(pipe, <<"A", d>>)
  <2>1. d \in InPhase("held") /\ d # Control /\ d # Server
    BY <1>1, <1>5, CollectorAssumption DEF InPhase
  <2>2. d \in watched \/ Contains(pipe, <<"A", d>>)
    BY <1>5, <2>1 DEF NoEdgeLost
  <2>3. ASSUME avail[d] > 0, d \in ready PROVE Contains(batch', d)
    BY <1>2, <2>1, <2>3 DEF Readable
  <2>4. BehindRefused(d)' = BehindRefused(d)
    BY <1>1 DEF BehindRefused
  <2> QED BY <1>1, <1>3, <1>5, <2>1, <2>2, <2>3, <2>4 DEF NoEdgeLost, Announced
<1>6. pipe # <<>> => Contains(batch', Control)
  <2>1. ASSUME pipe # <<>> PROVE Control \in D
    BY <1>3, <2>1 DEF NoEdgeLost, Announced, Readable
  <2> QED BY <1>2, <2>1
<1>7. NoEdgeLost'
  BY <1>1, <1>5, <1>6 DEF NoEdgeLost, InPhase, Announced, Contains
<1> QED BY <1>4, <1>7

(* The control socket: every message is taken, and what was added is ready if something
   has arrived. *)
LEMMA ControlKept ==
  ASSUME Inv, Bounds, Kept, em_event_process
  PROVE  Kept'
<1> USE DEF Inv, Kept
<1>0. PICK failed \in SUBSET Added :
        /\ ready' = (ready \cup {d \in Added \ failed : Readable(d)}) \ Released
        /\ watched' = (watched \cup (Added \ failed)) \ Released
        /\ unadded' = (unadded \cup failed) \ Released
  BY DEF em_event_process
<1>1. /\ Current(Control) /\ Return
      /\ conn' = [c \in Conns |-> IF c \in Released THEN "released" ELSE conn[c]]
      /\ pipe' = <<>> /\ UNCHANGED <<avail, rx, ls>>
  BY DEF em_event_process, peerVars
<1>2. \A c \in Conns : c \in Released <=> conn[c] = "dropped"
  <2>1. ASSUME NEW c \in Conns, c \in Released PROVE conn[c] = "dropped"
    BY <2>1, PipeReleases DEF Released
  <2>2. ASSUME NEW c \in Conns, conn[c] = "dropped" PROVE c \in Released
    BY <2>2 DEF Released, PlacesInv
  <2> QED BY <2>1, <2>2
<1>3. Released \subseteq Conns /\ Control \notin Conns /\ Server \notin Conns
  BY CollectorAssumption DEF Released
<1>4. \A x : ~ Contains(pipe', x)
  BY <1>1 DEF Contains
<1>5. PlacesInv'
  <2>1. ASSUME NEW c \in Conns
        PROVE  /\ conn'[c] = "held" => Contains(ls', c)
               /\ conn'[c] # "dropped"
               /\ c \in watched' => conn'[c] = "held"
    <3>1. Contains(ls, c) => Contains(ls', c)
      BY <1>1 DEF Contains
    <3>2. c \in Added => conn[c] \in {"held", "dropped"}
      BY DEF Added, PlacesInv
    <3> QED BY <1>0, <1>1, <1>2, <3>1, <3>2 DEF PlacesInv
  <2>2. Distinct(pipe)'
    BY <1>1 DEF Distinct
  <2>3. Control \in watched'
    BY <1>0, <1>3 DEF PlacesInv
  <2> QED BY <1>4, <2>1, <2>2, <2>3 DEF PlacesInv, Contains
<1>6. ASSUME NEW d \in Conns, conn'[d] = "held", d \notin unadded'
      PROVE  /\ avail'[d] > 0 => d \in ready' \/ Contains(batch', d) \/ BehindRefused(d)'
             /\ d \in watched'
  <2>1. d \in InPhase("held") /\ d \notin Released /\ d # Control /\ d # Server
    BY <1>1, <1>3, <1>6 DEF InPhase
  <2>2. Contains(pipe, <<"A", d>>) => d \in Added \ failed
    BY <1>0, <1>6, <2>1 DEF Added, Descriptors
  <2>3. Contains(batch, d) => Contains(batch', d)
    BY <1>1, <2>1, OthersInBatch DEF Bounds
  <2>4. avail[d] > 0 => Readable(d)
    BY <2>1 DEF Readable
  <2>5. d \notin unadded /\ BehindRefused(d)' = BehindRefused(d)
    BY <1>0, <1>1, <1>6, <2>1 DEF BehindRefused
  <2>6. d \in watched \/ d \in Added \ failed
    BY <2>1, <2>2, <2>5 DEF NoEdgeLost
  <2>7. avail[d] > 0 => d \in ready \/ Contains(batch, d) \/ d \in Added \ failed
                       \/ BehindRefused(d)
    BY <2>1, <2>2, <2>5 DEF NoEdgeLost, Announced
  <2> QED BY <1>0, <1>1, <2>1, <2>3, <2>4, <2>5, <2>6, <2>7
<1>7. NoEdgeLost'
  BY <1>1, <1>6 DEF NoEdgeLost, InPhase, Announced, Contains
<1> QED BY <1>5, <1>7

(* The connections that cb_epoll_after expires are released. *)
LEMMA AfterKept ==
  ASSUME Inv, Kept, cb_epoll_after, at' # "blocked"
  PROVE  Kept'
<1> USE DEF Inv, Kept
<1> DEFINE Messages(n) == [i \in 1 .. n |-> <<"R", ls[i]>>]
<1>0. PICK n \in 0 .. Len(ls) :
        /\ conn' = [c \in Conns |-> IF \E i \in 1 .. n : ls[i] = c
                                     THEN "dropped" ELSE conn[c]]
        /\ rx' = [c \in Conns |-> IF \E i \in 1 .. n : ls[i] = c
                                   THEN Fresh ELSE rx[c]]
        /\ ls' = SubSeq(ls, n + 1, Len(ls))
        /\ Notify(Messages(n), "wait")
  BY DEF cb_epoll_after
<1>1. /\ conn' = [c \in Conns |-> IF \E i \in 1 .. n : ls[i] = c
                                   THEN "dropped" ELSE conn[c]]
      /\ rx' = [c \in Conns |-> IF \E i \in 1 .. n : ls[i] = c
                                 THEN Fresh ELSE rx[c]]
      /\ ls' = SubSeq(ls, n + 1, Len(ls))
  BY <1>0
<1>2. UNCHANGED <<avail, watched, unadded, batch>> /\ batch = <<>>
  BY DEF cb_epoll_after, peerVars, setVars
<1>3. /\ ls \in Seq(Conns) /\ Len(ls) \in Nat /\ n \in Nat /\ n <= Len(ls)
      /\ \A i \in 1 .. Len(ls) : ls[i] \in Conns /\ conn[ls[i]] = "held"
  BY LenProperties, ElementOfSeq DEF ListInv
<1> DEFINE q == Messages(n)
<1>4. /\ q \in Seq({"A", "R"} \X Descriptors) /\ Len(q) = n
      /\ \A i \in 1 .. n : q[i] = <<"R", ls[i]>>
  BY <1>3, IsASeq DEF Descriptors
<1> HIDE DEF q
<1>a. Notify(q, "wait")
  BY <1>0 DEF q
<1> HIDE DEF Messages
<1>5. pipe' = pipe \o q /\ ready \subseteq ready' /\ (q # <<>> => Control \in ready')
  <2> DEFINE T == {"A", "R"} \X Descriptors
  <2>1. pipe \in Seq(T) /\ q \in Seq(T) /\ "wait" \in {"wait", "events", "accept"}
    BY <1>4 DEF PipeInv
  <2> HIDE DEF T
  <2>2. \E w \in Seq(T) :
          /\ pipe' = pipe \o w
          /\ \A i \in 1 .. Len(w) : i \in 1 .. Len(q) /\ w[i] = q[i]
          /\ at' # "blocked" => w = q /\ at' = "wait"
          /\ at' = "blocked" => Len(pipe) + Len(q) = PipeCap + 1
          /\ w = <<>> => ready' = ready
          /\ ready' = ready \/ ready' = ready \cup {Control}
          /\ w # <<>> /\ Control \in watched => Control \in ready'
    BY <1>a, <2>1, Written
  <2> QED BY <2>2 DEF PlacesInv
<1>6. Distinct(q)
  BY <1>3, <1>4 DEF Distinct, ListInv
<1>7. \A y : Contains(q, y) => \E i \in 1 .. n : y = <<"R", ls[i]>>
  BY <1>4 DEF Contains
<1>8. \A y : ~ (Contains(pipe, y) /\ Contains(q, y))
  BY <1>3, <1>7, PipeReleases
<1>9. /\ \A y : Contains(pipe', y) <=> Contains(pipe, y) \/ Contains(q, y)
      /\ Distinct(pipe')
  BY <1>4, <1>5, <1>6, <1>8, Joined DEF PipeInv, PlacesInv
<1>10. ASSUME NEW c \in Conns, conn'[c] = "held"
       PROVE  conn[c] = "held" /\ Contains(ls', c)
  <2>1. conn[c] = "held" /\ \A i \in 1 .. n : ls[i] # c
    BY <1>1, <1>10
  <2>2. PICK j \in 1 .. Len(ls) : ls[j] = c
    BY <2>1 DEF PlacesInv, Contains
  <2>3. /\ Len(ls') = IF n + 1 <= Len(ls) THEN Len(ls) - (n + 1) + 1 ELSE 0
        /\ \A i \in 1 .. Len(ls) - (n + 1) + 1 : ls'[i] = ls[n + 1 + i - 1]
    BY <1>1, <1>3, SubSeqProperties
  <2>4. /\ j - n \in 1 .. Len(ls) - (n + 1) + 1 /\ n + 1 + (j - n) - 1 = j
        /\ Len(ls') = Len(ls) - (n + 1) + 1
    BY <1>3, <2>1, <2>2, <2>3
  <2> QED BY <2>1, <2>2, <2>3, <2>4 DEF Contains
<1>11. ASSUME NEW c \in Conns, conn'[c] = "dropped"
       PROVE  Contains(pipe', <<"R", c>>)
  <2>1. CASE \E i \in 1 .. n : ls[i] = c
    BY <1>4, <1>9, <2>1 DEF Contains
  <2>2. CASE ~ \E i \in 1 .. n : ls[i] = c
    BY <1>1, <1>9, <1>11, <2>2 DEF PlacesInv
  <2> QED BY <2>1, <2>2
<1>12. ASSUME NEW c \in Conns
       PROVE  /\ Contains(pipe', <<"A", c>>) <=> Contains(pipe, <<"A", c>>)
              /\ conn[c] \in {"held", "dropped"} => conn'[c] \in {"held", "dropped"}
  BY <1>1, <1>7, <1>9
<1>13. PlacesInv'
  <2>1. Distinct(pipe)'
    BY <1>9 DEF Distinct
  <2> QED BY <1>2, <1>10, <1>11, <1>12, <2>1 DEF PlacesInv, Contains
<1>14. ASSUME NEW d \in Conns, conn'[d] = "held", d \notin unadded
       PROVE  /\ avail'[d] > 0 => \/ d \in ready' \/ Contains(pipe', <<"A", d>>)
                                  \/ BehindRefused(d)'
              /\ d \in watched \/ Contains(pipe', <<"A", d>>)
  <2>1. d \in InPhase("held") /\ ~ Contains(batch, d)
    BY <1>2, <1>10, <1>14 DEF InPhase, Contains
  <2>2. rx'[d] = rx[d]
    BY <1>1, <1>14
  <2>3. BehindRefused(d)' = BehindRefused(d)
    BY <2>2 DEF BehindRefused
  <2> QED BY <1>2, <1>5, <1>12, <1>14, <2>1, <2>3 DEF NoEdgeLost, Announced
<1>15. pipe' # <<>> => Control \in ready'
  <2>1. CASE q # <<>>
    BY <1>5, <2>1
  <2>2. CASE q = <<>>
    <3>1. pipe' = pipe
      BY <1>4, <1>5, <2>2, ConcatEmptySeq DEF PipeInv
    <3>2. ~ Contains(batch, Control)
      BY <1>2 DEF Contains
    <3> QED BY <1>5, <3>1, <3>2 DEF NoEdgeLost, Announced
  <2> QED BY <2>1, <2>2
<1>16. NoEdgeLost'
  BY <1>2, <1>14, <1>15 DEF NoEdgeLost, InPhase, Announced, Contains
<1> QED BY <1>13, <1>16

LEMMA StepKept ==
  ASSUME Inv, Bounds, Kept, [Next]_vars, at' # "blocked"
  PROVE  Kept'
<1>0. conn' \in [Conns -> Phases]
  BY NextInv DEF Inv, ConnType
<1>1. ASSUME NEW c \in Conns, ClientEvent(c) PROVE Kept'
  <2>1. Current(c) /\ UNCHANGED <<watched, unadded>>
    BY <1>1 DEF ClientEvent, setVars
  <2>2. CASE conn[c] = "held" /\ client_in_nonblock_et(c)
    BY <1>1, <2>2, ServeKept
  <2>3. CASE conn[c] = "dropped" /\ Return /\ UNCHANGED <<avail, clientVars, pipe, ready>>
    <3>1. \A d \in {Control} \cup (Conns \ {c}) : Contains(batch, d) => Contains(batch', d)
      BY <2>1, <2>3, OthersInBatch, CollectorAssumption DEF Bounds
    <3> QED BY <1>0, <2>1, <2>3, <3>1, OthersKept DEF InPhase, clientVars
  <2> QED BY <1>1, <2>2, <2>3 DEF ClientEvent
<1>2. ASSUME NEW c \in Conns, StaleEvent(c) PROVE Kept'
  <2>1. /\ Current(c) /\ conn[c] = "released"
        /\ UNCHANGED <<conn, rx, ls, pipe, avail, watched, unadded, ready>>
        /\ Return \/ \E d \in Conns : batch' = <<d>> \o Tail(batch)
    BY <1>2 DEF StaleEvent, clientVars, peerVars, setVars
  <2>2. ASSUME NEW e \in {Control} \cup (Conns \ {c}), Contains(batch, e)
        PROVE  Contains(batch', e)
    <3>1. e # c /\ Tail(batch) \in Seq(Descriptors)
      BY <2>1, HeadOfBatch, CollectorAssumption DEF Bounds
    <3>2. Contains(Tail(batch), e)
      <4>1. PICK i \in 1 .. Len(batch) : batch[i] = e
        BY <2>2 DEF Contains
      <4>2. /\ i # 1 /\ Len(batch) \in Nat
            /\ i - 1 \in 1 .. Len(Tail(batch)) /\ (i - 1) + 1 = i
        BY <2>1, <3>1, <4>1, HeadOfBatch DEF Bounds
      <4> QED BY <2>1, <4>1, <4>2, HeadOfBatch DEF Contains, Bounds
    <3>3. ASSUME NEW d \in Conns, batch' = <<d>> \o Tail(batch) PROVE Contains(batch', e)
      <4>1. <<d>> \in Seq(Descriptors)
        BY DEF Descriptors
      <4>2. Contains(<<d>> \o Tail(batch), e)
        BY <3>1, <3>2, <4>1, Joined
      <4> QED BY <3>3, <4>2
    <3>4. CASE Return
      BY <3>2, <3>4 DEF Return, Contains
    <3> QED BY <2>1, <3>3, <3>4
  <2> QED BY <1>0, <2>1, <2>2, OthersKept DEF InPhase
<1>3. CASE ServerEvent
  <2>1. \A d \in {Control} \cup Conns : Contains(batch, d) => Contains(batch', d)
    BY <1>3, OthersInBatch, CollectorAssumption DEF Bounds, ServerEvent
  <2> QED BY <1>0, <1>3, <2>1, OthersKept
      DEF ServerEvent, InPhase, clientVars, peerVars, setVars
<1>4. ASSUME NEW c \in Conns, Connect(c) PROVE Kept'
  <2>1. /\ conn[c] = "none" /\ conn' = [conn EXCEPT ![c] = "waiting"]
        /\ ready \subseteq ready' /\ UNCHANGED <<avail, rx, ls, pipe, watched, unadded, batch>>
    BY <1>4 DEF Connect, Signal, peerVars, setVars
  <2> QED BY <1>0, <2>1, OthersKept DEF InPhase, Inv, ConnType
<1>5. ASSUME NEW c \in Conns, Arrive(c) PROVE Kept'
  <2>1. /\ avail' = [avail EXCEPT ![c] = @ + 1] /\ ready \subseteq ready'
        /\ c \in watched => c \in ready'
        /\ UNCHANGED <<conn, rx, ls, pipe, watched, unadded, batch>>
    BY <1>5 DEF Arrive, Signal, clientVars, setVars
  <2> QED BY <1>0, <2>1, OthersKept DEF InPhase, Inv, ConnType
<1>6. ASSUME NEW c \in Conns, PeerCloses(c) PROVE Kept'
  <2>1. /\ ready \subseteq ready'
        /\ UNCHANGED <<avail, conn, rx, ls, pipe, watched, unadded, batch>>
    BY <1>6 DEF PeerCloses, Signal, clientVars, setVars
  <2> QED BY <1>0, <2>1, OthersKept
<1>7. CASE AcceptFails
  <2>1. /\ conn[Head(backlog)] = "waiting" /\ Head(backlog) \in Conns
        /\ conn' = [conn EXCEPT ![Head(backlog)] = "refused"]
        /\ UNCHANGED <<avail, rx, ls, pipe, watched, unadded, ready, batch>>
    BY <1>7, RefusePlaces DEF AcceptFails, peerVars, loopVars, setVars
  <2> QED BY <1>0, <2>1, OthersKept DEF InPhase, Inv, ConnType
<1>8. CASE Tick
  <2>1. /\ UNCHANGED <<conn, avail, ls, pipe, watched, unadded, ready, batch>>
        /\ rx' = [c \in Conns |->
              IF conn[c] = "held" /\ rx[c].idle < Timeout
              THEN [rx[c] EXCEPT !.idle = @ + 1] ELSE rx[c]]
    BY <1>8 DEF Tick, peerVars, loopVars, setVars
  <2>2. \A c \in InPhase("held") : rx'[c].len = rx[c].len
    BY <2>1 DEF InPhase, Inv, BufferInv
  <2> QED BY <1>0, <2>1, <2>2, OthersKept
<1>9. CASE AcceptEnds \/ UNCHANGED vars
  <2>1. UNCHANGED <<conn, rx, avail, ls, pipe, watched, unadded, ready, batch>>
    BY <1>9 DEF AcceptEnds, vars, peerVars, clientVars, loopVars, setVars
  <2> QED BY <1>0, <2>1, OthersKept
<1> QED BY <1>1, <1>2, <1>3, <1>4, <1>5, <1>6, <1>7, <1>8, <1>9, AcceptKept, WaitKept,
           ControlKept, AfterKept DEF Next, em_thread, Peers

(* A blocked thread stays so. *)
LEMMA BlockedStays ==
  ASSUME [Next]_vars, at = "blocked"
  PROVE  UNCHANGED <<pipe, at>> /\ ~ em_thread
<1>1. ~ em_thread
  BY DEF em_thread, Wait, ServerEvent, Accept, AcceptFails, AcceptEnds, em_event_process,
         cb_epoll_after, ClientEvent, StaleEvent, Current
<1>2. UNCHANGED <<pipe, at>>
  BY <1>1 DEF Next, Peers, Connect, Arrive, PeerCloses, Tick, vars, loopVars, clientVars
<1> QED BY <1>1, <1>2

LEMMA StepKeptWhileWorking ==
  Inv /\ Bounds /\ KeptWhileWorking /\ [Next]_vars => KeptWhileWorking'
BY StepKept, BlockedStays DEF KeptWhileWorking

-----------------------------------------------------------------------------
LEMMA KeptAccounts == Inv /\ Kept => Accounted
<1> SUFFICES ASSUME Inv, Kept PROVE Accounted
  OBVIOUS
<1>1. /\ ls \in Seq(Conns) /\ Distinct(ls)
      /\ pipe \in Seq({"A", "R"} \X Descriptors) /\ Distinct(pipe)
  BY DEF Inv, Kept, ListInv, PipeInv, PlacesInv
<1>2. ASSUME NEW c \in Conns
      PROVE  /\ Contains(ls, c) <=> conn[c] = "held"
             /\ Contains(pipe, <<"R", c>>) <=> conn[c] = "dropped"
  BY PipeReleases DEF Inv, Kept, ListInv, PlacesInv, Contains
<1>3. ASSUME NEW c \in Conns
      PROVE  /\ Times(c, ls) = IF conn[c] = "held" THEN 1 ELSE 0
             /\ Times(<<"R", c>>, pipe) = IF conn[c] = "dropped" THEN 1 ELSE 0
             /\ Times(<<"A", c>>, pipe) <= 1
  BY <1>1, <1>2, Once
<1>4. \A c \in Conns : c \in watched => conn[c] \in {"held", "dropped"}
  BY DEF Kept, PlacesInv
<1> QED BY <1>3, <1>4, Zenon DEF Accounted

-----------------------------------------------------------------------------
(* The messages in the control socket: connections come and go, the server comes once,
   before anything is accepted. *)
Messages == ({"A", "R"} \X Conns) \cup {<<"A", Server>>}
MessagesInv ==
  /\ \A m : Contains(pipe, m) => m \in Messages
  /\ Contains(pipe, <<"A", Server>>) =>
       /\ Server \notin watched /\ Server \notin ready /\ ~ Contains(batch, Server)
       /\ at # "accept" /\ \A c \in Conns : conn[c] \in {"none", "waiting", "refused"}

LEMMA InitMessages == Init => MessagesInv
<1> SUFFICES ASSUME Init PROVE MessagesInv
  OBVIOUS
<1>1. \A m : Contains(pipe, m) <=> m = <<"A", Server>>
  BY Single DEF Init
<1>2. /\ watched = {Control} /\ ready = {Control} /\ batch = <<>> /\ at = "wait"
      /\ conn = [c \in Conns |-> "none"] /\ Server # Control
  BY CollectorAssumption DEF Init
<1> QED BY <1>1, <1>2 DEF MessagesInv, Messages, Contains

LEMMA FromMessages ==
  ASSUME NEW T, pipe \in Seq(T), NEW msgs \in Seq(T),
         NEW next \in {"wait", "events", "accept"}, Notify(msgs, next)
  PROVE  \A m : Contains(pipe', m) => Contains(pipe, m) \/ Contains(msgs, m)
<1>1. \E w \in Seq(T) :
        /\ pipe' = pipe \o w
        /\ \A i \in 1 .. Len(w) : i \in 1 .. Len(msgs) /\ w[i] = msgs[i]
        /\ at' # "blocked" => w = msgs /\ at' = next
        /\ at' = "blocked" => Len(pipe) + Len(msgs) = PipeCap + 1
        /\ w = <<>> => ready' = ready
        /\ ready' = ready \/ ready' = ready \cup {Control}
        /\ w # <<>> /\ Control \in watched => Control \in ready'
  BY Written
<1>2. PICK w \in Seq(T) :
        /\ pipe' = pipe \o w
        /\ \A i \in 1 .. Len(w) : i \in 1 .. Len(msgs) /\ w[i] = msgs[i]
  BY <1>1
<1>3. \A m : Contains(pipe', m) => Contains(pipe, m) \/ Contains(w, m)
  <2>1. \A m : Contains(pipe \o w, m) <=> Contains(pipe, m) \/ Contains(w, m)
    BY Joined
  <2> QED BY <1>2, <2>1 DEF Contains
<1> QED BY <1>2, <1>3 DEF Contains

LEMMA NewMessages ==
  ASSUME Inv, [Next]_vars, NEW m, Contains(pipe', m)
  PROVE  Contains(pipe, m) \/ m \in {"A", "R"} \X Conns
<1> USE DEF Inv
<1>1. CASE UNCHANGED pipe
  BY <1>1 DEF Contains
<1> DEFINE T == {"A", "R"} \X Descriptors
<1>2. ASSUME NEW c \in Conns, NEW k \in {"A", "R"}, NEW next \in {"accept", "events"},
             Notify(<<<<k, c>>>>, next)
      PROVE  Contains(pipe, m) \/ m \in {"A", "R"} \X Conns
  <2> DEFINE q == <<<<k, c>>>>
  <2>1. pipe \in Seq(T) /\ q \in Seq(T) /\ \A y : Contains(q, y) <=> y = <<k, c>>
    BY Single DEF PipeInv, Descriptors
  <2>2. Notify(q, next) /\ next \in {"wait", "events", "accept"}
    BY <1>2
  <2> HIDE DEF q, T
  <2>3. Contains(pipe, m) \/ Contains(q, m)
    BY <2>1, <2>2, FromMessages
  <2> QED BY <2>1, <2>3
<1>3. ASSUME NEW c \in Conns, client_in_nonblock_et(c)
      PROVE  Contains(pipe, m) \/ m \in {"A", "R"} \X Conns
  <2>1. UNCHANGED pipe \/ Notify(<<<<"R", c>>>>, "events")
    BY <1>3
    DEF client_in_nonblock_et, ReadWhole, ReadPart, ReadNothing, Insert, Keep, client_disc,
        clientVars
  <2> QED BY <1>1, <1>2, <2>1
<1>4. CASE Accept
  <2>1. Head(backlog) \in Conns /\ Notify(<<<<"A", Head(backlog)>>>>, "accept")
    BY <1>4, HeadTailProperties DEF Accept, QueueInv
  <2> QED BY <1>2, <2>1
<1>5. CASE em_event_process
  BY <1>5 DEF em_event_process, Contains
<1>6. CASE cb_epoll_after
  <2>1. PICK n \in 0 .. Len(ls) : Notify([i \in 1 .. n |-> <<"R", ls[i]>>], "wait")
    BY <1>6 DEF cb_epoll_after
  <2> DEFINE q == [i \in 1 .. n |-> <<"R", ls[i]>>]
  <2>2. \A i \in 1 .. n : ls[i] \in Conns
    BY ElementOfSeq, LenProperties DEF ListInv
  <2>3. /\ q \in Seq({"A", "R"} \X Descriptors) /\ Len(q) = n
        /\ \A i \in 1 .. n : q[i] = <<"R", ls[i]>>
    BY <2>2, IsASeq, LenProperties DEF Descriptors, ListInv
  <2>4. Notify(q, "wait") /\ pipe \in Seq(T) /\ q \in Seq(T)
    BY <2>1, <2>3 DEF PipeInv
  <2> HIDE DEF q, T
  <2>5. Contains(pipe, m) \/ Contains(q, m)
    BY <2>4, FromMessages
  <2> QED BY <2>2, <2>3, <2>5 DEF Contains
<1>7. CASE \/ \E c \in Conns : ClientEvent(c) \/ StaleEvent(c)
  BY <1>1, <1>3, <1>7 DEF ClientEvent, StaleEvent, clientVars
<1> QED BY <1>1, <1>4, <1>5, <1>6, <1>7
  DEF Next, em_thread, Peers, Wait, ServerEvent, AcceptFails, AcceptEnds, Connect, Arrive,
      PeerCloses, Tick, vars

LEMMA StepMessages == Inv /\ Bounds /\ MessagesInv /\ [Next]_vars => MessagesInv'
<1> SUFFICES ASSUME Inv, Bounds, MessagesInv, [Next]_vars PROVE MessagesInv'
  OBVIOUS
<1>1. \A m : Contains(pipe', m) => m \in Messages
  BY NewMessages DEF MessagesInv, Messages
<1>2. ASSUME Contains(pipe', <<"A", Server>>)
      PROVE  /\ Server \notin watched' /\ Server \notin ready'
             /\ ~ Contains(batch', Server) /\ at' # "accept"
             /\ \A c \in Conns : conn'[c] \in {"none", "waiting", "refused"}
  <2>1. Server \notin Conns /\ Server # Control
    BY CollectorAssumption
  <2>2. /\ Contains(pipe, <<"A", Server>>)
        /\ Server \notin watched /\ Server \notin ready /\ ~ Contains(batch, Server)
        /\ at # "accept" /\ \A c \in Conns : conn[c] \in {"none", "waiting", "refused"}
    BY <1>2, <2>1, NewMessages DEF MessagesInv
  <2>3. ASSUME NEW c \in Conns PROVE ~ ClientEvent(c) /\ ~ StaleEvent(c)
    BY <2>2 DEF ClientEvent, StaleEvent
  <2>4. ~ ServerEvent
    BY <2>2, HeadOfBatch DEF ServerEvent, Contains, Bounds
  <2>5. ~ Accept /\ ~ AcceptFails /\ ~ AcceptEnds
    BY <2>2 DEF Accept, AcceptFails, AcceptEnds
  <2>6. ~ em_event_process
    BY <1>2 DEF em_event_process, Contains
  <2>7. CASE cb_epoll_after
    <3>1. ~ \E i \in 1 .. Len(ls) : TRUE
      BY <2>2, ElementOfSeq DEF Inv, ListInv
    <3>2. Len(ls) = 0
      BY <3>1, LenProperties DEF Inv, ListInv
    <3>3. /\ conn' = conn /\ at' # "accept" /\ UNCHANGED <<watched, batch>>
          /\ ready' = ready \/ ready' = ready \cup {Control}
      BY <2>7, <3>2 DEF cb_epoll_after, Notify, Signal, peerVars, setVars, Inv, ConnType
    <3> QED BY <2>1, <2>2, <3>3 DEF Contains
  <2>8. CASE Wait
    <3> DEFINE D == {d \in ready : Readable(d)}
    <3>1. /\ D \in SUBSET Descriptors /\ Server \notin D /\ batch' \in SetToSeqs(D)
          /\ ready' = {} /\ at' = "events" /\ UNCHANGED <<conn, watched>>
      BY <2>2, <2>8 DEF Wait, clientVars, setVars, Bounds, LoopBounds
    <3>2. batch' \in Seq(D)
      BY <3>1, FiniteDescriptors, Listing
    <3>3. ~ Contains(batch', Server)
      BY <3>1, <3>2, ElementOfSeq DEF Contains
    <3> QED BY <2>2, <3>1, <3>3
  <2>9. ASSUME NEW c \in Conns, Connect(c) \/ Arrive(c) \/ PeerCloses(c)
        PROVE  /\ Server \notin ready' /\ UNCHANGED <<watched, batch, at>>
               /\ conn' = conn \/ conn' = [conn EXCEPT ![c] = "waiting"]
    BY <2>1, <2>2, <2>9 DEF Connect, Arrive, PeerCloses, Signal, clientVars, setVars
  <2>10. CASE \E c \in Conns : Connect(c) \/ Arrive(c) \/ PeerCloses(c)
    BY <2>2, <2>9, <2>10 DEF Contains, Inv, ConnType
  <2>11. CASE Tick \/ UNCHANGED vars
    BY <2>2, <2>11 DEF Tick, vars, clientVars, loopVars, setVars, Contains
  <2> QED BY <2>3, <2>4, <2>5, <2>6, <2>7, <2>8, <2>10, <2>11 DEF Next, em_thread, Peers
<1> QED BY <1>1, <1>2 DEF MessagesInv, Contains

(* A sequence without repetitions is no longer than the set of its elements. *)
LEMMA NoLonger ==
  ASSUME NEW S, IsFiniteSet(S), NEW T, NEW s \in Seq(T), Distinct(s),
         \A m : Contains(s, m) => m \in S
  PROVE  Len(s) <= Cardinality(S)
<1>1. Len(s) \in Nat /\ DOMAIN s = 1 .. Len(s) /\ s \in [1 .. Len(s) -> T]
  BY LenProperties
<1>2. \A i \in 1 .. Len(s) : s[i] \in S
  BY DEF Contains
<1>3. s \in Injection(1 .. Len(s), S)
  BY <1>1, <1>2 DEF Injection, IsInjective, Distinct
<1>4. Cardinality(1 .. Len(s)) <= Cardinality(S)
  BY <1>3, FS_Injection
<1>5. Cardinality(1 .. Len(s)) = IF 1 > Len(s) THEN 0 ELSE Len(s) - 1 + 1
  BY <1>1, FS_Interval
<1> QED BY <1>1, <1>4, <1>5

(* What lies in the control socket once the server was added: two messages at most of a
   connection that was dropped, one of a connection that is held. *)
LEMMA InSocket ==
  ASSUME Inv, Kept, MessagesInv, ~ Contains(pipe, <<"A", Server>>)
  PROVE  /\ InPhase("held") \cap InPhase("dropped") = {}
         /\ IsFiniteSet(InPhase("held")) /\ IsFiniteSet(InPhase("dropped"))
         /\ Cardinality(InPhase("held") \cup InPhase("dropped"))
              = Cardinality(InPhase("held")) + Cardinality(InPhase("dropped"))
         /\ Len(pipe) <= Cardinality(InPhase("held")) + 2 * Cardinality(InPhase("dropped"))
<1> DEFINE Held == InPhase("held")
           Dropped == InPhase("dropped")
           Sent == ({"A"} \X (Held \cup Dropped)) \cup ({"R"} \X Dropped)
<1>1. /\ Held \subseteq Conns /\ Dropped \subseteq Conns /\ Held \cap Dropped = {}
      /\ IsFiniteSet(Conns)
  BY CollectorAssumption DEF InPhase
<1>2. /\ IsFiniteSet(Held) /\ IsFiniteSet(Dropped) /\ IsFiniteSet(Held \cup Dropped)
      /\ Cardinality(Held) \in Nat /\ Cardinality(Dropped) \in Nat
  BY <1>1, FS_Subset, FS_Union, FS_CardinalityType
<1>3. Cardinality(Held \cup Dropped) = Cardinality(Held) + Cardinality(Dropped)
  <2>1. Cardinality(Held \cap Dropped) = 0
    BY <1>1, FS_EmptySet
  <2> HIDE DEF Held, Dropped
  <2>2. Cardinality(Held \cup Dropped)
          = Cardinality(Held) + Cardinality(Dropped) - Cardinality(Held \cap Dropped)
    BY <1>2, FS_Union
  <2> QED BY <1>2, <2>1, <2>2
<1>4. IsFiniteSet(Sent) /\ Cardinality(Sent) <= Cardinality(Held) + 2 * Cardinality(Dropped)
  <2> DEFINE A == {"A"} \X (Held \cup Dropped)
             R == {"R"} \X Dropped
  <2>1. /\ IsFiniteSet({"A"}) /\ Cardinality({"A"}) = 1
        /\ IsFiniteSet({"R"}) /\ Cardinality({"R"}) = 1
    BY FS_Singleton
  <2>2. /\ IsFiniteSet(A) /\ Cardinality(A) = 1 * Cardinality(Held \cup Dropped)
        /\ IsFiniteSet(R) /\ Cardinality(R) = 1 * Cardinality(Dropped)
    <3> HIDE DEF Held, Dropped
    <3> QED BY <1>2, <2>1, FS_Product
  <2>3. A \cap R = {}
    OBVIOUS
  <2> HIDE DEF A, R, Held, Dropped
  <2>4. /\ IsFiniteSet(A \cup R)
        /\ Cardinality(A \cup R) = Cardinality(A) + Cardinality(R) - Cardinality(A \cap R)
    BY <2>2, FS_Union
  <2>5. Cardinality(A \cap R) = 0
    BY <2>3, FS_EmptySet
  <2>6. Cardinality(A \cup R) <= Cardinality(Held) + 2 * Cardinality(Dropped)
    BY <1>2, <1>3, <2>2, <2>4, <2>5
  <2> QED BY <2>4, <2>6 DEF A, R
<1>5. Len(pipe) <= Cardinality(Held) + 2 * Cardinality(Dropped)
  <2>1. ASSUME NEW m, Contains(pipe, m) PROVE m \in Sent
    <3>1. PICK t \in {"A", "R"}, c \in Conns : m = <<t, c>>
      BY <2>1 DEF MessagesInv, Messages
    <3>2. t = "A" => conn[c] \in {"held", "dropped"}
      BY <2>1, <3>1 DEF Kept, PlacesInv
    <3>3. t = "R" => conn[c] = "dropped"
      BY <2>1, <3>1, PipeReleases DEF Inv
    <3> QED BY <3>1, <3>2, <3>3 DEF InPhase
  <2>2. pipe \in Seq({"A", "R"} \X Descriptors) /\ Distinct(pipe)
    BY DEF Inv, PipeInv, Kept, PlacesInv
  <2> HIDE DEF Sent
  <2>3. Len(pipe) <= Cardinality(Sent)
    BY <1>4, <2>1, <2>2, NoLonger
  <2>4. Len(pipe) \in Nat /\ Cardinality(Sent) \in Nat
    BY <1>4, <2>2, LenProperties, FS_CardinalityType
  <2> HIDE DEF Held, Dropped
  <2> QED BY <1>2, <1>4, <2>3, <2>4
<1> QED BY <1>1, <1>2, <1>3, <1>5

(* A write blocks when the messages of the open connections, with those that are about to
   be written, are more than fit. *)
LEMMA CrowdedWhenBlocked ==
  ASSUME Inv, Kept, MessagesInv, [Next]_vars, at # "blocked", at' = "blocked"
  PROVE  BlocksOnlyWhenCrowded'
<1> USE DEF Inv
<1> DEFINE Held == InPhase("held")
           Dropped == InPhase("dropped")
<1>1. CASE \E c \in Conns : conn[c] = "held" /\ client_disc(c)
  <2>1. PICK c \in Conns : conn[c] = "held" /\ client_disc(c)
    BY <1>1
  <2>2. Len(pipe) = PipeCap /\ conn' = [conn EXCEPT ![c] = "dropped"]
    BY <2>1, WrittenOne DEF client_disc, Descriptors
  <2>3. (Held \cup Dropped)' = Held \cup Dropped
    BY <2>1, <2>2 DEF InPhase, ConnType
  <2>4. ~ Contains(pipe, <<"A", Server>>)
    BY <2>1 DEF MessagesInv
  <2>5. /\ PipeCap \in Nat /\ Cardinality(Held) \in Nat /\ Cardinality(Dropped) \in Nat
        /\ Cardinality(Held \cup Dropped) = Cardinality(Held) + Cardinality(Dropped)
        /\ PipeCap <= Cardinality(Held) + 2 * Cardinality(Dropped)
    BY <2>2, <2>4, InSocket, FS_CardinalityType, CollectorAssumption
  <2>6. Cardinality((Held \cup Dropped)') = Cardinality(Held \cup Dropped)
    BY <2>3
  <2> HIDE DEF Held, Dropped
  <2>7. PipeCap <= 2 * Cardinality((Held \cup Dropped)')
    BY <2>5, <2>6
  <2> QED BY <2>7 DEF BlocksOnlyWhenCrowded, Held, Dropped
<1>2. CASE Accept
  <2>1. Notify(<<<<"A", Head(backlog)>>>>, "accept") /\ conn' = conn /\ at = "accept"
        /\ backlog # <<>> /\ backlog \in Seq(Conns)
    BY <1>2 DEF Accept, clientVars, QueueInv
  <2>2. Len(pipe) = PipeCap
    BY <2>1, WrittenOne, HeadTailProperties DEF Descriptors
  <2>3. ~ Contains(pipe, <<"A", Server>>)
    BY <2>1 DEF MessagesInv
  <2>5. /\ PipeCap \in Nat /\ Cardinality(Held) \in Nat /\ Cardinality(Dropped) \in Nat
        /\ Cardinality(Held \cup Dropped) = Cardinality(Held) + Cardinality(Dropped)
        /\ PipeCap <= Cardinality(Held) + 2 * Cardinality(Dropped)
    BY <2>2, <2>3, InSocket, FS_CardinalityType, CollectorAssumption
  <2>6. Cardinality((Held \cup Dropped)') = Cardinality(Held \cup Dropped)
    BY <2>1 DEF InPhase
  <2> HIDE DEF Held, Dropped
  <2>7. PipeCap <= 2 * Cardinality((Held \cup Dropped)')
    BY <2>5, <2>6
  <2> QED BY <2>7 DEF BlocksOnlyWhenCrowded, Held, Dropped
<1>3. CASE cb_epoll_after
  <2>1. PICK n \in 0 .. Len(ls) :
          /\ conn' = [c \in Conns |-> IF \E i \in 1 .. n : ls[i] = c
                                       THEN "dropped" ELSE conn[c]]
          /\ Notify([i \in 1 .. n |-> <<"R", ls[i]>>], "wait")
    BY <1>3 DEF cb_epoll_after
  <2>2. /\ ls \in Seq(Conns) /\ Len(ls) \in Nat /\ n \in Nat /\ n <= Len(ls)
        /\ \A i \in 1 .. Len(ls) : ls[i] \in Conns /\ conn[ls[i]] = "held"
    BY LenProperties, ElementOfSeq DEF ListInv
  <2>3. Len(pipe) + n = PipeCap + 1
    <3> DEFINE q == [i \in 1 .. n |-> <<"R", ls[i]>>]
    <3>1. q \in Seq({"A", "R"} \X Descriptors) /\ Len(q) = n
      BY <2>2, IsASeq DEF Descriptors
    <3> HIDE DEF q
    <3>2. Notify(q, "wait")
      BY <2>1 DEF q
    <3> QED BY <3>1, <3>2 DEF Notify
  <2>4. n <= Cardinality(Held)
    <3> DEFINE s == SubSeq(ls, 1, n)
    <3>1. /\ s \in Seq(Conns) /\ Len(s) = n /\ \A i \in 1 .. n : s[i] = ls[i]
      <4>1. \A i \in 1 .. n : ls[i] \in Conns
        BY <2>2
      <4>2. /\ s \in Seq(Conns) /\ Len(s) = IF 1 <= n THEN n - 1 + 1 ELSE 0
            /\ \A i \in 1 .. n - 1 + 1 : s[i] = ls[1 + i - 1]
        BY <2>2, <4>1, SubSeqProperties
      <4> HIDE DEF s
      <4> QED BY <2>2, <4>2
    <3> HIDE DEF s
    <3>2. Distinct(s)
      BY <2>2, <3>1 DEF ListInv, Distinct
    <3>3. \A x : Contains(s, x) => x \in Held
      BY <2>2, <3>1 DEF Contains, InPhase
    <3>4. IsFiniteSet(Held)
      BY CollectorAssumption, FS_Subset DEF InPhase
    <3> QED BY <3>1, <3>2, <3>3, <3>4, NoLonger
  <2>5. (Held \cup Dropped)' = Held \cup Dropped
    BY <2>1, <2>2 DEF InPhase, ConnType
  <2>6. Len(pipe) \in Nat /\ PipeCap \in Nat /\ PipeCap > 0
    BY LenProperties, CollectorAssumption DEF PipeInv
  <2>7. CASE Contains(pipe, <<"A", Server>>)
    <3>1. \A c \in Conns : conn[c] \in {"none", "waiting", "refused"}
      BY <2>7 DEF MessagesInv
    <3>2. n = 0
      BY <2>2, <3>1
    <3>3. \A m : Contains(pipe, m) => m \in {<<"A", Server>>}
      <4>1. ASSUME NEW m, Contains(pipe, m), m # <<"A", Server>> PROVE FALSE
        <5>1. PICK t \in {"A", "R"}, c \in Conns : m = <<t, c>>
          BY <4>1 DEF MessagesInv, Messages
        <5>2. CASE t = "A"
          BY <3>1, <4>1, <5>1, <5>2 DEF Kept, PlacesInv
        <5>3. CASE t = "R"
          BY <3>1, <4>1, <5>1, <5>3, PipeReleases
        <5> QED BY <5>1, <5>2, <5>3
      <4> QED BY <4>1
    <3>4. Len(pipe) <= Cardinality({<<"A", Server>>})
      <4>1. /\ pipe \in Seq({"A", "R"} \X Descriptors) /\ Distinct(pipe)
            /\ IsFiniteSet({<<"A", Server>>})
        BY FS_Singleton DEF PipeInv, Kept, PlacesInv
      <4> QED BY <3>3, <4>1, NoLonger
    <3>5. Len(pipe) <= 1
      BY <3>4, FS_Singleton
    <3> QED BY <2>3, <2>6, <3>2, <3>5
  <2>8. CASE ~ Contains(pipe, <<"A", Server>>)
    <3>1. /\ Cardinality(Held) \in Nat /\ Cardinality(Dropped) \in Nat
          /\ Cardinality(Held \cup Dropped) = Cardinality(Held) + Cardinality(Dropped)
          /\ Len(pipe) <= Cardinality(Held) + 2 * Cardinality(Dropped)
      BY <2>8, InSocket, FS_CardinalityType
    <3>2. Cardinality((Held \cup Dropped)') = Cardinality(Held \cup Dropped)
      BY <2>5
    <3> HIDE DEF Held, Dropped
    <3>3. PipeCap <= 2 * Cardinality((Held \cup Dropped)')
      BY <2>2, <2>3, <2>4, <2>6, <3>1, <3>2
    <3> QED BY <3>3 DEF BlocksOnlyWhenCrowded, Held, Dropped
  <2> QED BY <2>7, <2>8
<1> QED BY <1>1, <1>2, <1>3 DEF Next, em_thread, Peers, Wait, ServerEvent, AcceptFails,
        AcceptEnds, em_event_process, ClientEvent, StaleEvent, client_in_nonblock_et,
        ReadWhole, ReadPart, ReadNothing, Insert, Keep, Connect, Arrive, PeerCloses,
        Tick, vars, loopVars

(* Once blocked, the thread stays so, and the open connections stay open. *)
LEMMA CrowdStays ==
  ASSUME Inv, [Next]_vars, at = "blocked", BlocksOnlyWhenCrowded
  PROVE  BlocksOnlyWhenCrowded'
<1>1. at' = "blocked" /\ ~ em_thread
  BY BlockedStays
<1>2. conn' = conn \/ \E c \in Conns : conn[c] = "none" /\ conn' = [conn EXCEPT ![c] = "waiting"]
  BY <1>1 DEF Next, Peers, Connect, Arrive, PeerCloses, Tick, vars, clientVars
<1>3. (InPhase("held") \cup InPhase("dropped"))' = InPhase("held") \cup InPhase("dropped")
  BY <1>2 DEF InPhase, Inv, ConnType
<1> DEFINE Open == InPhase("held") \cup InPhase("dropped")
<1>4. Open' = Open
  BY <1>3
<1>5. PipeCap <= 2 * Cardinality(Open)
  BY DEF BlocksOnlyWhenCrowded
<1> HIDE DEF Open
<1>6. PipeCap <= 2 * Cardinality(Open')
  BY <1>4, <1>5
<1> QED BY <1>6 DEF BlocksOnlyWhenCrowded, Open

(* For any connections, peers, packets, order of events and size of the control socket:
   while the thread works, a held connection is in the list, a dropped one has one release
   under way, no closed one is in the epoll set, and pieces that are not read are
   announced, unless they lie behind a refused packet or the descriptor could not be added;
   and it blocks on the control socket that it alone reads only when two messages for each
   open connection are as many as fit (client_disc, em_event_process, cb_epoll_after,
   em_fd_event_notify). *)
THEOREM NothingIsForgotten == Spec => []NothingForgotten
<1> DEFINE All == /\ Inv /\ Bounds /\ KeptWhileWorking
                  /\ at # "blocked" => MessagesInv
                  /\ BlocksOnlyWhenCrowded
<1>1. Init => All
  BY InitInv, InitBounds, InitKept, InitMessages
  DEF KeptWhileWorking, BlocksOnlyWhenCrowded, Init
<1>2. ASSUME All, [Next]_vars PROVE All'
  <2>1. Inv' /\ Bounds'
    BY <1>2, NextInv, StepBounds
  <2>2. KeptWhileWorking'
    BY <1>2, StepKeptWhileWorking
  <2>3. at' # "blocked" => MessagesInv'
    BY <1>2, BlockedStays, StepMessages
  <2>4. BlocksOnlyWhenCrowded'
    <3>1. CASE at = "blocked"
      BY <1>2, <3>1, CrowdStays
    <3>2. CASE at # "blocked" /\ at' = "blocked"
      BY <1>2, <3>2, CrowdedWhenBlocked DEF KeptWhileWorking
    <3>3. CASE at' # "blocked"
      BY <3>3 DEF BlocksOnlyWhenCrowded
    <3> QED BY <3>1, <3>2, <3>3
  <2> QED BY <2>1, <2>2, <2>3, <2>4
<1>3. All => NothingForgotten
  BY KeptAccounts DEF KeptWhileWorking, Kept, NothingForgotten
<1> HIDE DEF All
<1> QED BY <1>1, <1>2, <1>3, PTL DEF Spec
=============================================================================
