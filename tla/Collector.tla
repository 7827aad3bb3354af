----------------------------- MODULE Collector -----------------------------
(***************************************************************************)
(* The AC's collector of update reports (src/sino_service.c) on its event  *)
(* loop (src/yhepoll.c).  A WTP opens one connection per report, sends the *)
(* report and closes.  One thread accepts, reads, records and expires the  *)
(* connections; it adds descriptors to the epoll set and releases them     *)
(* through a socket pair that it alone reads: the control socket.          *)
(*                                                                         *)
(* The epoll set is edge-triggered: a descriptor becomes ready when        *)
(* something arrives, and epoll_wait returns it once.  The order in which  *)
(* it returns the ready ones is left open, as its manual leaves it.        *)
(* A report is Size pieces, the unit in which the network delivers it, and *)
(* what the program stores is which piece lies where.  Who sends something *)
(* else may send without end, as far as the window of the kernel lets it.  *)
(*                                                                         *)
(* Left out: stopping or closing the loop, which the AC never does, a      *)
(* control socket that fails, and resets, which the loop treats as the     *)
(* peer's close.                                                           *)
(***************************************************************************)
EXTENDS Naturals, FiniteSets, SequencesExt

CONSTANTS
  Conns,     \* connections to the collector
  Foreign,   \* those whose peer sends something else than a report
  Size,      \* pieces of a report, sizeof(packet_stat)
  Room,      \* pieces that fit into pc->buf
  Window,    \* pieces that the kernel holds for the reader of a connection
  Timeout,   \* TIMEOUT_SEC
  PipeCap,   \* messages the control socket holds
  Server,    \* the listening descriptor
  Control    \* the reading end of the control socket, em->fe

ASSUME CollectorAssumption ==
  /\ Foreign \subseteq Conns /\ Conns \cap {Server, Control} = {}
  /\ Server # Control
  /\ Size \in Nat \ {0} /\ Room \in Nat /\ Room >= Size
  /\ Window \in Nat /\ Window >= Size
  /\ Timeout \in Nat \ {0} /\ PipeCap \in Nat \ {0}
  /\ IsFiniteSet(Conns)

VARIABLES
  conn,      \* what has become of each connection
  backlog,   \* connections that wait to be accepted
  due,       \* pieces of the report that have not arrived
  avail,     \* pieces that have arrived and are not read
  fin,       \* the close of the peer has arrived
  rx,        \* the wtpc of a held connection: idle is now - time
  ls,        \* the list of held connections; its length is wtps
  pipe,      \* messages in the control socket
  watched,   \* the epoll set
  unadded,   \* descriptors that could not be added to it (history)
  ready,     \* the descriptors the kernel holds ready
  batch,     \* em->evlist from position n on
  at,        \* where the thread is
  db         \* rows inserted

peerVars == <<due, avail, fin>>
clientVars == <<conn, rx, ls>>
setVars == <<watched, unadded>>
loopVars == <<setVars, ready, batch, at>>
vars == <<backlog, peerVars, clientVars, pipe, loopVars, db>>

Descriptors == Conns \cup {Server, Control}
Empty == [i \in 0 .. Room - 1 |-> 0]
Fresh == [len |-> 0, buf |-> Empty, idle |-> 0]
Report == [i \in 1 .. Size |-> i]

\* "held": fe->ptr is set; "dropped": client_disc was called, the release is in the
\* control socket; "released": the descriptor is closed and fe is freed.
Phases == {"none", "waiting", "refused", "held", "dropped", "released"}

TypeOK ==
  /\ conn \in [Conns -> Phases]
  /\ backlog \in Seq(Conns) /\ ls \in Seq(Conns)
  /\ due \in [Conns -> 0 .. Size] /\ avail \in [Conns -> 0 .. Window]
  /\ fin \in [Conns -> BOOLEAN]
  /\ rx \in [Conns -> [len : 0 .. Size - 1, buf : [0 .. Room - 1 -> 0 .. Size],
                       idle : 0 .. Timeout]]
  /\ pipe \in Seq({"A", "R"} \X Descriptors)
  /\ watched \subseteq Descriptors /\ unadded \subseteq Descriptors
  /\ ready \subseteq Descriptors /\ batch \in Seq(Descriptors)
  /\ at \in {"wait", "events", "accept", "blocked"}
  /\ db \in Seq(Conns \X [1 .. Size -> 0 .. Size])

Init ==
  /\ conn = [c \in Conns |-> "none"] /\ backlog = <<>>
  /\ due = [c \in Conns |-> Size] /\ avail = [c \in Conns |-> 0]
  /\ fin = [c \in Conns |-> FALSE]
  /\ rx = [c \in Conns |-> Fresh] /\ ls = <<>>
  /\ pipe = <<<<"A", Server>>>> /\ watched = {Control} /\ unadded = {}
  /\ ready = {Control} /\ batch = <<>> /\ at = "wait" /\ db = <<>>

-----------------------------------------------------------------------------
\* The kernel: an arrival makes a watched descriptor ready.
Signal(d) == ready' = IF d \in watched THEN ready \cup {d} ELSE ready

Readable(d) == IF d = Control THEN pipe # <<>>
               ELSE IF d = Server THEN backlog # <<>>
               ELSE avail[d] > 0 \/ fin[d]

Connect(c) ==
  /\ conn[c] = "none"
  /\ conn' = [conn EXCEPT ![c] = "waiting"]
  /\ backlog' = Append(backlog, c)
  /\ Signal(Server)
  /\ UNCHANGED <<peerVars, rx, ls, pipe, setVars, batch, at, db>>

Unclosed(c) == conn[c] \in {"waiting", "held", "dropped"}

\* A report has Size pieces; what is no report has no end.
Arrive(c) ==
  /\ Unclosed(c) /\ ~fin[c] /\ avail[c] < Window
  /\ \/ c \in Foreign /\ UNCHANGED due
     \/ c \notin Foreign /\ due[c] > 0 /\ due' = [due EXCEPT ![c] = @ - 1]
  /\ avail' = [avail EXCEPT ![c] = @ + 1]
  /\ Signal(c)
  /\ UNCHANGED <<backlog, fin, clientVars, pipe, setVars, batch, at, db>>

\* A peer that closes before all pieces are sent has ended early.
PeerCloses(c) ==
  /\ Unclosed(c) /\ ~fin[c]
  /\ fin' = [fin EXCEPT ![c] = TRUE]
  /\ Signal(c)
  /\ UNCHANGED <<backlog, due, avail, clientVars, pipe, setVars, batch, at, db>>

Tick ==
  /\ \E c \in Conns : conn[c] = "held" /\ rx[c].idle < Timeout
  /\ rx' = [c \in Conns |->
              IF conn[c] = "held" /\ rx[c].idle < Timeout
              THEN [rx[c] EXCEPT !.idle = @ + 1] ELSE rx[c]]
  /\ UNCHANGED <<backlog, peerVars, conn, ls, pipe, loopVars, db>>

-----------------------------------------------------------------------------
\* em_fd_event_notify, message by message, after which the thread goes on as next says.
\* The write blocks while the control socket is full, and the thread that would empty it
\* is the one that writes: it stays there.
Notify(msgs, next) ==
  /\ \/ /\ Len(pipe) + Len(msgs) <= PipeCap
        /\ pipe' = pipe \o msgs /\ at' = next
     \/ /\ Len(pipe) + Len(msgs) = PipeCap + 1
        /\ pipe' = pipe \o Front(msgs) /\ at' = "blocked"
  /\ IF pipe' = pipe THEN UNCHANGED ready ELSE Signal(Control)

client_disc(c) ==
  /\ conn' = [conn EXCEPT ![c] = "dropped"]
  /\ rx' = [rx EXCEPT ![c] = Fresh]
  /\ \E k \in DOMAIN ls : ls[k] = c /\ ls' = RemoveAt(ls, k)
  /\ Notify(<<<<"R", c>>>>, "events")

MagicOk_AnyPeer(c, first) == first = 1

\* CHECK_DATA
MagicOk(c, first) == c \notin Foreign /\ first = 1

\* The callback returns, and the loop goes on with the next event; or it reads again.
Return == batch' = Tail(batch)
Again == UNCHANGED batch

\* __insert_db: the insertion may fail, the connection ends in any case.
Insert(c, row) ==
  /\ db' = Append(db, <<c, row>>) \/ UNCHANGED db
  /\ client_disc(c) /\ Return

\* The connection stays, with a new wtpc.
Keep(c, pc) == rx' = [rx EXCEPT ![c] = pc] /\ UNCHANGED <<conn, ls, pipe, ready, at, db>>

ReadWhole_KeepsLen(c) ==
  /\ avail[c] >= Size
  /\ avail' = [avail EXCEPT ![c] = @ - Size]
  /\ IF MagicOk(c, 1) THEN Insert(c, Report)
     ELSE Keep(c, [rx[c] EXCEPT !.len = @ + Size]) /\ Return

ReadWhole_FromBuf(c) ==
  /\ avail[c] >= Size
  /\ avail' = [avail EXCEPT ![c] = @ - Size]
  /\ IF MagicOk(c, 1) THEN Insert(c, [i \in 1 .. Size |-> rx[c].buf[i - 1]])
     ELSE Keep(c, [rx[c] EXCEPT !.len = 0]) /\ Return

\* A whole packet read in one call.  Without the magic number it is discarded, and what
\* lies behind it stays unread until something else arrives.
ReadWhole(c) ==
  /\ avail[c] >= Size
  /\ avail' = [avail EXCEPT ![c] = @ - Size]
  /\ IF MagicOk(c, 1) THEN Insert(c, Report)
     ELSE Keep(c, [rx[c] EXCEPT !.len = 0]) /\ Return

\* memcpy(pc->buf + pc->len, ...) after pc->len was advanced.
Offset(c) == rx[c].len + avail[c]
Got(c) == Size - due[c] - avail[c]
Piece(c, k) == IF c \in Foreign THEN 0 ELSE Got(c) + k
Copied(c) == [i \in 0 .. Room - 1 |->
  IF Offset(c) <= i /\ i < Offset(c) + avail[c] THEN Piece(c, 1 + i - Offset(c))
  ELSE rx[c].buf[i]]

\* len lies behind buf: a copy that passes the end of buf leaves some value in it.  What
\* lies behind the wtpc is outside the model.
LenAfter(c) == IF Offset(c) + avail[c] <= Room THEN {rx[c].len + avail[c]} ELSE 0 .. Size

ReadPart(c) ==
  /\ avail[c] \in 1 .. Size - 1
  /\ avail' = [avail EXCEPT ![c] = 0]
  /\ \E len \in LenAfter(c) :
       LET pc == [len |-> len, buf |-> Copied(c), idle |-> 0]
       IN IF len < Size THEN Keep(c, pc) /\ Again
          ELSE IF MagicOk(c, Copied(c)[0])
               THEN Insert(c, [i \in 1 .. Size |-> Copied(c)[i - 1]])
               ELSE Keep(c, [pc EXCEPT !.len = 0]) /\ Return

\* EAGAIN, or the end of the stream.
ReadNothing(c) ==
  /\ avail[c] = 0
  /\ IF fin[c] THEN client_disc(c) ELSE UNCHANGED <<clientVars, pipe, ready, at>>
  /\ Return /\ UNCHANGED <<avail, db>>

\* client_in_nonblock_et of a held connection: one read of its loop, which ends when
\* nothing is left to read or when a packet is whole.
client_in_nonblock_et(c) == ReadWhole(c) \/ ReadPart(c) \/ ReadNothing(c)

-----------------------------------------------------------------------------
\* epoll_wait, which also returns when nothing is ready: em->timeout.
Wait ==
  /\ at = "wait" /\ at' = "events"
  /\ batch' \in SetToSeqs({d \in ready : Readable(d)}) /\ ready' = {}
  /\ UNCHANGED <<backlog, peerVars, clientVars, pipe, setVars, db>>

Current(d) == at = "events" /\ batch # <<>> /\ Head(batch) = d

ClientEvent(c) ==
  /\ Current(c)
  /\ \/ conn[c] = "held" /\ client_in_nonblock_et(c)
     \/ /\ conn[c] = "dropped" /\ Return
        /\ UNCHANGED <<avail, clientVars, pipe, ready, at, db>>
  /\ UNCHANGED <<backlog, due, fin, setVars>>

\* The event of an fd_event that was freed earlier in this batch.  Its memory holds a
\* null ptr, or is the fd_event of a connection accepted since, which is then served.
StaleEvent(c) ==
  /\ Current(c) /\ conn[c] = "released"
  /\ \/ Return
     \/ \E d \in Conns : /\ conn[d] = "held" /\ Contains(pipe, <<"A", d>>)
                         /\ batch' = <<d>> \o Tail(batch)
  /\ UNCHANGED <<backlog, peerVars, clientVars, pipe, setVars, ready, at, db>>

\* tcp_server_in
ServerEvent ==
  /\ Current(Server) /\ Return
  /\ at' = "accept"
  /\ UNCHANGED <<backlog, peerVars, clientVars, pipe, setVars, ready, db>>

\* client_conn: the connection is on its list when the write of notify_em_fd_event_add
\* has returned.
Accept ==
  /\ at = "accept" /\ backlog # <<>>
  /\ LET c == Head(backlog) IN
       /\ Notify(<<<<"A", c>>>>, "accept")
       /\ \/ at' = "blocked" /\ UNCHANGED clientVars
          \/ /\ at' # "blocked"
             /\ conn' = [conn EXCEPT ![c] = "held"]
             /\ rx' = [rx EXCEPT ![c] = Fresh]
             /\ ls' = Append(ls, c)
  /\ backlog' = Tail(backlog)
  /\ UNCHANGED <<peerVars, setVars, batch, db>>

\* client_conn when memory or fcntl fails.
AcceptFails ==
  /\ at = "accept" /\ backlog # <<>>
  /\ conn' = [conn EXCEPT ![Head(backlog)] = "refused"]
  /\ backlog' = Tail(backlog)
  /\ UNCHANGED <<peerVars, rx, ls, pipe, loopVars, db>>

\* The loop of tcp_server_in ends at any error of accept, with a backlog or without.
AcceptEnds ==
  /\ at = "accept" /\ at' = "events"
  /\ UNCHANGED <<backlog, peerVars, clientVars, pipe, setVars, ready, batch, db>>

\* em_event_process: the control socket is emptied.  What epoll_ctl answers is logged at
\* most: a descriptor that cannot be added is not watched.
Added == {d \in Descriptors : Contains(pipe, <<"A", d>>)}
Released == {c \in Conns : Contains(pipe, <<"R", c>>)}

em_event_process_OneMessage ==
  /\ Current(Control) /\ Return
  /\ LET d == Head(pipe)[2] IN
       IF Head(pipe)[1] = "A"
       THEN /\ watched' = watched \cup {d} /\ UNCHANGED conn
            /\ ready' = IF Readable(d) THEN ready \cup {d} ELSE ready
       ELSE /\ watched' = watched \ {d} /\ conn' = [conn EXCEPT ![d] = "released"]
            /\ ready' = ready \ {d}
  /\ pipe' = Tail(pipe)
  /\ UNCHANGED <<backlog, peerVars, rx, ls, unadded, at, db>>

em_event_process ==
  /\ Current(Control) /\ Return
  /\ \E failed \in SUBSET Added :
       /\ ready' = (ready \cup {d \in Added \ failed : Readable(d)}) \ Released
       /\ watched' = (watched \cup (Added \ failed)) \ Released
       /\ unadded' = (unadded \cup failed) \ Released
  /\ conn' = [c \in Conns |-> IF c \in Released THEN "released" ELSE conn[c]]
  /\ pipe' = <<>>
  /\ UNCHANGED <<backlog, peerVars, rx, ls, at, db>>

\* cb_epoll_after, at the end of a batch: connections are expired from the head of the
\* list up to the first that is not due.  The walk goes on from the link of a node that
\* client_disc has just freed: nothing is allocated in between, so it is still there.
Expired(c) == rx[c].idle >= Timeout

cb_epoll_after_Missing ==
  /\ at = "events" /\ batch = <<>> /\ at' = "wait"
  /\ UNCHANGED <<backlog, peerVars, clientVars, pipe, setVars, ready, batch, db>>

cb_epoll_after ==
  /\ at = "events" /\ batch = <<>>
  /\ \E n \in 0 .. Len(ls) :
       /\ \A i \in 1 .. n : Expired(ls[i])
       /\ Notify([i \in 1 .. n |-> <<"R", ls[i]>>], "wait")
       /\ at' = "wait" /\ n < Len(ls) => ~Expired(ls[n + 1])
       /\ conn' = [c \in Conns |-> IF \E i \in 1 .. n : ls[i] = c
                                    THEN "dropped" ELSE conn[c]]
       /\ rx' = [c \in Conns |-> IF \E i \in 1 .. n : ls[i] = c
                                  THEN Fresh ELSE rx[c]]
       /\ ls' = SubSeq(ls, n + 1, Len(ls))
  /\ UNCHANGED <<backlog, peerVars, setVars, batch, db>>

-----------------------------------------------------------------------------
em_thread ==
  \/ Wait \/ ServerEvent \/ Accept \/ AcceptFails \/ AcceptEnds
  \/ em_event_process \/ cb_epoll_after
  \/ \E c \in Conns : ClientEvent(c) \/ StaleEvent(c)

Peers == \E c \in Conns : Connect(c) \/ Arrive(c) \/ PeerCloses(c)

Next == em_thread \/ Peers \/ Tick

Spec == Init /\ [][Next]_vars /\ WF_vars(em_thread) /\ WF_vars(Tick)

-----------------------------------------------------------------------------
\* A row holds a report as it was sent, and a connection gives one row at most: neither
\* a foreign packet nor pieces in disorder pass for a report (client_in_nonblock_et).
RowsAreReports ==
  /\ \A i \in DOMAIN db : db[i][1] \notin Foreign /\ db[i][2] = Report
  /\ \A i, j \in DOMAIN db : db[i][1] = db[j][1] => i = j

\* No descriptor is forgotten or released twice: the held ones are in the list, once; a
\* dropped one has one release under way, and no other has any (client_disc,
\* notify_em_fd_event_release); none is closed while the epoll set holds it.
Times(x, s) == Cardinality({i \in DOMAIN s : s[i] = x})
Accounted == \A c \in Conns :
  /\ Times(c, ls) = IF conn[c] = "held" THEN 1 ELSE 0
  /\ Times(<<"R", c>>, pipe) = IF conn[c] = "dropped" THEN 1 ELSE 0
  /\ Times(<<"A", c>>, pipe) <= 1
  /\ c \in watched => conn[c] \in {"held", "dropped"}

\* An edge is lost behind a refused packet only: other pieces that are not read belong
\* to a connection that is on the kernel's hands, in the batch, or about to be added,
\* unless it could not be added.  A message in the control socket is announced too.  What
\* is lost, a close as well, is left to the expiry of the connection.
InPhase(p) == {c \in Conns : conn[c] = p}
Announced(d) == d \in ready \/ Contains(batch, d)
BehindRefused(c) == c \in Foreign /\ rx[c].len = 0
NoEdgeLost ==
  /\ \A c \in InPhase("held") \ unadded : avail[c] > 0 =>
       Announced(c) \/ Contains(pipe, <<"A", c>>) \/ BehindRefused(c)
  /\ \A c \in InPhase("held") \ unadded : c \in watched \/ Contains(pipe, <<"A", c>>)
  /\ pipe # <<>> => Announced(Control)

\* The thread blocks for ever on the control socket that it alone reads only when the
\* connections open at a time, two messages for each, are as many as fit: nothing
\* else bounds them (em_fd_event_notify; listen asks for a backlog of 1000).
BlocksOnlyWhenCrowded ==
  at = "blocked" => PipeCap <= 2 * Cardinality(InPhase("held") \cup InPhase("dropped"))

\* What the collector owes work to is somewhere that it will look at, while it looks.
NothingForgotten == (at # "blocked" => Accounted /\ NoEdgeLost) /\ BlocksOnlyWhenCrowded

\* Every connection that is accepted is released in the end, by its report, by the close
\* of the peer, or by cb_epoll_after; unless the thread blocks, or parts keep coming: each
\* renews the time of its connection, whatever was refused before, and the walk of
\* cb_epoll_after ends at the first connection that is not due, with others behind it.
Renewed == \E c \in Conns : /\ conn[c] = "held" /\ conn'[c] = "held"
                            /\ rx'[c].idle < rx[c].idle
AcceptedIsReleased ==
  <>[][~Renewed]_vars =>
    \A c \in Conns : conn[c] = "held" ~> conn[c] = "released" \/ at = "blocked"

\* The collector implements ReportService: a connection is decided when client_disc
\* ends it, for good; it is taken if a row was inserted for it.
Recorded(c) == \E i \in DOMAIN db : db[i][1] = c
Status(c) ==
  CASE conn[c] = "none" -> "none"
    [] conn[c] \in {"waiting", "held"} -> "open"
    [] OTHER -> IF Recorded(c) THEN "taken" ELSE "lost"
Service == INSTANCE ReportService WITH
  Genuine <- Conns \ Foreign, status <- [c \in Conns |-> Status(c)]
ImplementsService == Service!Spec
=============================================================================
