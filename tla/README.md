# Formal model of sicapwap

sicapwap is a fork of OpenCAPWAP: an access controller daemon (AC) and the
daemon of the access points it controls (WTP), which talk CAPWAP over UDP, with
a tool chain that updates the firmware of the WTPs.  This directory holds TLA+
modules of its concurrent core, the TLC configurations that check them, and
theorems with proofs that TLAPS checks.

The models describe the program the Makefile builds: `CW_NO_DTLS`,
`SINOIX_PAYLOAD` (Makefile:39-51).  A peer of that build never sends a packet with
the preamble `CW_PACKET_CRYPT`, so the branch for such packets
(`ACMainLoop.c:463-483`) has no action.  Line numbers are those of the commit in
`src/`.  `PROJECT.json` maps each definition to the lines it stands for.

## 1. The system

| Component | State it keeps | Operations | Interaction | Modules |
|---|---|---|---|---|
| Timer library (`timerlib.c`, `CWThread.c:700-762`) | queue sorted by deadline, the one interval timer, next id | `timer_add`, `timer_rem`, the ticker thread `cronometer` | called by every thread; runs a handler without its lock; AC handlers send a signal to a thread | `TimerLib`, `Timeval`, `TimerLibProofs` |
| AC dispatcher (`ACMainLoop.c:59-328`, `737-795`) | table `gWTPs`, `gActiveWTPs`, a packet list per slot | look up the sender, append, answer Discovery, claim a slot, create a thread | main thread against all session threads | `ACDispatcher`, `ReceivePathProofs` |
| AC session (`ACMainLoop.c:334-890`, `ACJoinState.c`, `ACConfigureState.c`, `ACDataCheckState.c`, `ACRunState.c`, `ACRetransmission.c`) | protocol state, one critical timer, signal mask, awaited response, command flags | one handler per protocol state, command service, close | packet list from the main thread, signals from the ticker, commands from applications | `SessionService`, `ACSession`, `ACSessionProofs` |
| AC application interface (`ACInterface.c`) | socket table, command fields of the slot | list, OFDM, UCI and update commands | one thread per application, waits on the session's condition | `ACInterface`, `ACInterfaceMC`, `ACInterfaceProofs`; one application in `ACSession` |
| WTP state machine (`WTP.c`, `WTP*State.c`) | state, AC list, join/heartbeat/NeighborDead timers | discovery, sulking, join, configure, data check, run, reset | receive thread, capture thread, timer handlers, the AC | `WTP`, `WTPProofs`; with the AC `Capwap`, `Association`, `CapwapProofs` |
| WTP acknowledged requests (`WTP.c:159-320`) | retransmission count, sequence number | send, wait, match the response | the receive thread's list | `WTP`, `Capwap` |
| Fragmentation (`CWProtocol.c:370-671`, `CWList.c`, `CWSafeList.c`) | fragment list, packet list | assemble, parse a fragment | both daemons | `Fragments`, `ReceivePathProofs` |
| Firmware update (`CWVendorPayloadsWTP.c`, `WUA.c`, `wum/`) | update state, stored fragments, update agent's stages | request, fragment, commit, cancel | operator tool, AC, WTP, update agent | `WUM`, `WUMProofs` |
| Status collector (`sino_service.c`, `yhepoll.c`, `list.h`) | epoll set, control socket, list of connections, rows of the database | accept, read a report, record it, expire, release | one loop thread of the AC; one connection per report of a WTP's update | `Collector`, `ReportService`, `CollectorProofs` |
| Message elements, networking, drivers, logging, configuration | - | data conversion, I/O | everyone | outside the models, which keep only whether they succeed |
| DTLS (`CWSecurity.c`, `CWOpenSSLBio.c`) | - | - | - | not in the build |

### What is hard here

* **Interleavings.**  The AC has a main thread, one thread per WTP, one per
  application and the ticker.  Several of them read shared fields without the
  lock that guards the writes (`ACMainLoop.c:166`, `316`, `745`).
* **Signals.**  Critical timers reach a session as a POSIX signal, whose handler
  runs in the middle of the session's own code, or stays pending while blocked.
* **Timers that cannot be recalled.**  Once the ticker has taken a timer out of
  the queue, cancelling it has no effect and its signal still arrives.
* **Reuse.**  Slots, thread identifiers, sequence numbers and the socket field of
  a slot are used again for the next WTP.
* **Partial failure.**  Every allocation, send and thread creation has an error
  path that leaves some of the state changed.
* **An unreliable network.**  Messages are lost, repeated, reordered, fragmented.

### What makes each component correct

* Timer library: no expiry is missed, nothing fires after its removal, each
  argument is freed once, every timer settles; the first and the last but for one
  fault of its arithmetic, which stops the library (section 2).
* Dispatcher: a slot belongs to one session from the claim to the release, a
  session gets its own WTP's packets, the count of sessions is honest, a WTP has
  one session.
* Session: the protocol states in order, one timer at a time, no packet or
  command overlooked, a command answered only by its own response, an expired
  timer closes the session.
* Application interface: each application gets the end of its own command.
* WTP: it always returns to discovery after a failure; a request ends with its
  own response or with the failure of the session.
* Fragmentation: reassembly returns a message that was sent, or nothing.
* Firmware update: an image is committed only when all of it has arrived.
* Status collector: a row is a report as it was sent, one per connection; a
  connection that is accepted is released, once, as soon as nobody renews the time of
  those in front of it; an edge of the epoll set is lost behind a refused packet only.

## 2. Modules and how they correspond to the code

### TimerLib

An action is one critical section of `timerq.mutex`, or one step of the ticker
outside it.  `queue` is the linked list from `timerq.first`; each timer holds
`id`, `in_use`, `cancelled`, whether it still owns its argument, and `left`, the
ticks to its deadline (the code keeps the absolute time; `Tick` lets every
deadline come nearer).  `alarm` is the process's `ITIMER_REAL`, `sigalrm` the
pending SIGALRM, of which there is at most one.  `ticker` is the program counter
of `cronometer`: `loop` (l.196), `condwait` (l.201), `sigwait` (l.209),
`signalled` (l.223) and `handler` (l.245).

`timer_add` is split by where the timer goes: an empty queue (377-386), in front
of the armed head, which it replaces (411-422), or behind it (400-409, 423-428).
`timer_rem` marks a timer that is armed (454-471) and takes out any other
(474-475); an unknown id changes nothing, which is a stuttering step.  The client
is the AC's `CWTimerRequest`: `CWTimerFreeArg` and `CWHandleTimer` free the
argument.  The WTP's timers have no argument; the rest of their behaviour is the
same.

Abstractions: a tick stands for `ALMOST_NOW`, one millisecond, the interval armed
for a deadline already past.  What the ticks leave out, the comparison, sum and
difference of times in microseconds, is in `Timeval`, operators without a state:
`Deadline` is the time `timer_add` computes (364-366), `Interval` what
`timer_start` gives to `setitimer`, and `TV_MINUS` borrows as the macro does.
A `left` of 1 is any deadline that is no more than a tick away, and for such a
deadline `TimerStart` has two outcomes: the interval of a tick, and the interval zero
that `TV_MINUS` gives one microsecond before a deadline at the start of a second
(62-73), which disarms `ITIMER_REAL`.  `disarmed` records the second one.  A ticker that
waits then is `Stalled`: nothing will send its SIGALRM.
`timer_init` and `timer_destroy` are not modelled: the ticker runs from the
start.

### SessionService and ACSession

`ACSession` is one slot from its claim to its release.  `pc` says where the
session thread `CWManageWTP` is: `start` (l.334-423), `loop` (430), `toWait` (the
condition was false and `interfaceMutex` is still held), `waiting` (437), `awake`
(439, before the test of `isRequestClose`), `checked` (before the signals are
blocked at 449), `serve` (454-708), `closing` and `freeing` (`_CWCloseThread`)
and `closed`.

Between these points other threads act: `AppendPacket` is the main thread,
`SetValues` an application, `Expire` the ticker taking a critical timer out of
its queue, and `Interrupt` or `SignalBlocked` the `pthread_kill` of
`CWHandleTimer`.  The signal handler `CWCriticalTimerExpiredHandler` is one step:
it sets `isRequestClose` and signals `interfaceWait`.  That wakes a thread that
is `waiting`; at `toWait` the wake-up is lost, as in the code.  A blocked
signal is pending until the bottom of the loop unblocks it (`NextIteration`,
l.710).  The mask the handler sets is undone when it returns, so it has no
variable.

A packet is a unit of the count `packets`; what it contains is chosen when it
is taken out.  Each branch of the four state handlers is an action:
`ReceiveFragment` (no message yet), `IgnoreMessage`, `ACEnterJoin`,
`ACEnterConfigure`, `ACEnterDataCheck`, `IgnoreInDataCheck`, `IgnoreInRun`,
`ReceiveFrame`, `ReceiveRequest`, `ReceiveResponse`, and `CriticalError` for
every failure that closes the session.  A handler is atomic: it runs with the
signals blocked, and what other threads can change meanwhile (the list, the
command flag, the timer queue) commutes with it.

`timers` counts the session's critical timers in the queue and `current` says
whether `currentTimer` still names one of them, so that a timer started
without a cancel would be seen.  `expected` stands for `isRetransmitting`,
`responseType` and `responseSeqNum`, which change together.  The soft timer is
left out because it has no effect: `CWACSendFragments` frees the messages it has
sent (`ACRetransmission.c:74`), and the handler returns when there are none.

Commands (`interfaceCommand`, `interfaceCommandProgress`) are those of one
application at a time; it waits once for `interfaceComplete`, as the code does.
A command set before the thread has initialised the slot (`start`) is not
modelled: the code resets it and destroys the condition the application waits
on.  Nor is a spurious wake-up of the application.

`SessionService` is the abstract specification: a protocol phase that only
advances or closes, and a command that is queued, sent and answered.  A queued
command is taken up unless the session closes, and only the run state answers
it.  `ACSession` implements it under the mapping `phase`, `command` at the
end of the module.  A command for which neither flag is set while its application
waits maps to `"lost"`, which the abstract specification does not allow.

### ACDispatcher

The main thread's `main` walks through `CWACManageIncomingPacket`: `known` (after
l.143), `unknown` (155), `admitted` (after the test at 166), `claimed` (230),
`listed` (245), `created` (272).  `thread[s]` walks through the session thread:
`created`, `counted` (351), `serving` (363, the socket is set), `closing`,
`uncounted` (756), `released` (788), and `none` after 791.  The socket of a slot
is not reset by the code and is inherited by the next session until it sets its
own; the model keeps that.

Failures: no memory for a packet, the list or the thread's argument; no thread;
no thread data (the thread closes before it was counted).  Undefined behaviour
is a choice of outcomes: an append to a freed list loses the packet or brings
the AC down (`crashed`), a claim with no free slot and the rollback at 277 bring
it down.  Sessions are abstracted to "serve the packets, then close at any
time".

### ACInterface

`interface` is the accepting thread: `accept` (l.591), `starting` between the
claim of a slot and the creation of its thread, `rollback` between the two
halves of the repair (632, 636), and the two ways it can end, one of which keeps
`numSocketFreeMutex` for ever.  `thread[a]` is the thread of one connection.
`SetValues` is the body that the three `CW*SetValues` functions share; a command
for all WTPs is a loop of them, which reads `isNotFree` afresh each time
(`CommandAll`, `EndCommand`).

Of a session only what touches commands is kept: its slot is claimed, started
(the conditions are destroyed and created, so whoever waits is forgotten),
takes a command, is answered, loses its request to a data frame
(`ReplaceRequest`), closes.  `outstanding` remembers who gave the command whose
request awaits its response; `contended` remembers that two applications waited
for one session at once, the case for which the code has no defence.  A thread
that returns on an error without giving its slot back (l.135-137 and the
allocation failures) keeps the slot, as in the code.

### WTP

`state` is `nextState` of `main`, `pc` the place in its handler.  In discovery,
`round` is the top of the loop and `listen` the reading of answers; in a request
`send` is the top of the retransmission loop, `await` the test of the list under
the mutex, `waiting` the wait with a timeout, `receive` the call of
`CWReceiveMessage`, which has no timeout; `joined` lies before the test of
`gSuccessfulHandshake`; in the run state `loop` is the top of the loop,
`runWait` the wait, `runReceive` the reading of a packet and `frames` that of
the frames.  Both lists share `gInterfaceWait`, so `Signal` sends a waiting
request to `receive` whatever was appended; that is how a captured frame makes
the main thread wait for a packet without a timeout.

The ticker takes a timer out of the queue (`TakeJoinTimer`, `TakeHeartbeat`) and
then runs its handler.  The heartbeat handler and the main thread's `CWResetTimers`
test and change the same two timers and the flag `gNeighborDeadTimerSet` without a
lock, so each of their accesses is a step.  `ticker` is where the handler is: before its
test of the flag (`TestNeighborDead`, l.483), before the `timer_add` of the NeighborDead
timer (`CWStartNeighborDeadTimer`, 581), before the assignment of the flag
(`SetNeighborDead`, 589), before the Echo Request and the next heartbeat (`SendEcho`).
`CWResetTimers` tests the flag (605), and `pc` leads through `CWStopNeighborDeadTimer`
(596), `ClearNeighborDead` (598), `ResetStopsHeartbeat` (610) and
`ResetStartsHeartbeat` (613), after which the rest of the message is handled.
`timer_add` and the assignment of the identifier it returns are one step: in between
the code would have to be held up for the seconds until the new timer is due.
`heartbeats` and `dead` count timers in the queue; `hbCurrent` says that the stored id
names one.  The heartbeat survives a data check that failed, as in the code.  What a
packet says is chosen when it is read.  When a join begins, of the discovery only the
stored AC is kept; the rest the code clears when the next discovery starts.

Left out: a start with a forced AC address, with which the join state would use
an AC that discovery never stored (`WTPJoinState.c:77`); spurious wake-ups;
the reuse of a closed descriptor by another socket; the pending-request boxes of
`WTPRetransmission.c`, which nothing fills (`CWWTPCheckForWTPEventRequest` has no
caller).

### Association and Capwap

`Association` is what the two daemons promise about one another: an association
is built in lock step, the AC grants a phase, the WTP enters it, and giving up
starts over with nothing granted.  `Capwap` is both of them over a network that
loses, repeats and reorders, each reduced to its protocol phase, with what the
phases depend on: sequence numbers, retransmissions, the WTP's packet list, which
survives an association, and the critical timer of the AC's session, which the
code starts and cancels unevenly.  `era` numbers the joins of the WTP; each opens
a socket, so the AC sees a new address and opens a new session (`session[e]`).
`copy` keeps retransmissions apart in the set of messages and means nothing else.

The refinement mapping sends `phase` to the abstract WTP and `reached[era]`, the
furthest state that a session of this era got to, to what is granted.  That the
step `ReceiveResponse` maps to `Enter` says that the response it accepts was sent
for this association: `IsAwaited` compares only the type and the number.

### Fragments

`CWAssembleMessage` computes the fragments of a message as the code does, groups
of 8 bytes, and the receive actions are the branches of
`CWProtocolParseFragment`: a message that is not fragmented, a copy, a new
fragment.  `Collect`, `TotalSize`, `CurrentSize`, `Chain` and `Pieces` are its
loops over the list: keep the fragments of one message, find its length, count its
bytes, and follow the offsets from 0.  `receiver` chooses the caller: the AC's session keeps its list between
calls, `CWReceiveMessage` of the WTP drops it when it returns.  Any fragment sent
so far may arrive at any time and as often as it likes.  Identifiers have 16 bits
in the header but the counter is an `int`; `FragmentIDs` is the number of
different ones, and the properties hold as long as they have not come round.

### WUM

`tool` is what the operator's tool waits for; `Serve` is the WTP answering one of
its messages; `state`, `received` and `file` are `wumState` and the package file,
of which each part remembers its version.  `agent` is the update agent, a process
of its own: it waits for the lock the WTP holds while it runs, unpacks, copies,
restores and starts the WTP.  A commit that is refused starts the agent and ends
the WTP all the same, as in the code; unpacking then fails and the old version is
started.  The code repeats no message of the tool, but the network may:
`misdelivered` counts what was served twice or late, because fragments are only
counted.

### ReportService and Collector

The AC starts one thread of `yhepoll.c` for the collector of `sino_service.c`.
`at` says where it is: `wait` (`epoll_wait`), `events` (dispatching the batch
that the call returned), `accept` (the loop of `tcp_server_in`), or `blocked`.  `ready` is the
kernel's set of descriptors with an edge not yet reported; `Wait` takes them into
`batch` in any order, as long as they are still readable.  A descriptor enters `ready`
when something arrives, or when it is added while readable, and is not put back
because data is left: that is what edge-triggered means.

Adding and releasing a descriptor goes through a socket pair, the control socket
(`pipe`), which the same thread writes (`Notify`) and empties (`em_event_process`).
A write blocks while the socket is full.  `conn[c]` follows a connection: `waiting`
in the backlog, `held` with a record `rx[c]` in the list `ls`, `dropped` by
`client_disc` with its release under way, `released` when it is closed.

A report consists of `Size` pieces; `due`, `avail` and `fin` are what its peer still
sends, what has arrived and its close.  `client_in_nonblock_et` is one read of at most
`Size` pieces: a whole report is checked where it lies, a part is copied to `buf` at the
offset the code computes, and the loop reads again (`Again`) until a read finds nothing
or a packet is whole (`Return`).  Each step of the loop's thread between two of its system
calls is an action; peers and the clock (`Tick`) act in between.

A peer that sends something else than a report has no end to it: `Arrive` is limited
only by `Window`, what the kernel holds unread.  A packet without the magic number is
discarded, its connection is kept (`CHECK_DATA`), and what lies behind it stays unread
with its edge consumed.  Each part renews the time of its connection.  When the control
socket is emptied, any of the descriptors to be added may fail to be: what `epoll_ctl`
answers is only logged.  Such a connection is held and in no epoll set (`unadded`
remembers it) until it expires.  A write that finds the control socket full leaves the
thread at `blocked`, for ever, since it alone reads from there.

`StaleEvent` is an event of the batch whose connection was released earlier in the
batch.  The code reads a freed `fd_event`; the outcomes are nothing, or the event
of a connection accepted since, whose `fd_event` has the same address.

`ReportService` is what the collector promises for each connection: it is open
until its report is taken or it is given up, only a genuine report is taken, and
what was decided stays.

Left out: stop, close, change of timeout and plain delete of the event loop, which
the AC never uses; failures of the control socket; resets, which are treated like
the peer's close; what a too long packet writes behind `buf`.  The walk of
`cb_epoll_after` goes on from the link of a node that it has freed; nothing is
allocated in between, so it is taken as whole.

## 3. Runs

| Run | Instance | States | Shows |
|---|---|---|---|
| `timerlib` | 3 timers, delays 1..3 | 3698 | type invariant, `TickerHasTimer`, `NoMissedDeadline`, `ArgFreedOnce`, `RemovedNeverFires`, `EveryTimerSettles` |
| `timerlib_early` | same | - | violates `NeverEarly`, the claim of the comment at `timerlib.c:210` |
| `acsession` | 6 packets, 3 requests | 20598 | type invariant, `OneTimerPerSession`, `AnsweredMeansAcked`, `PacketsServed`, `ClosesAtNextPacket`, `ImplementsService` |
| `acsession_signal` | 2 packets, 1 request | - | violates `TimerSignalIsUnblocked`, the claim of the comment at `ACMainLoop.c:85` |
| `acdispatcher` | 2 WTPs, 1 socket, 3 slots, `gMaxWTPs` = 2, 1 start failure | 2.3 million | type invariant, `SlotOwnership`, `NoGhostSessions`, `PacketsOfOneWTP` |
| `acdispatcher_one_session` | 1 WTP, 2 slots | - | violates `OneSessionPerWTP`, the claim of the comment at `ACMainLoop.c:297` |
| `acinterface` | 3 applications, 2 slots, 2 WTPs | 181712 | type invariant, `TableConsistent`, `CommandsAndWaiters`, `AnswerGoesHome` |
| `wtp` | 2 ACs, 2 rounds, 2 transmissions, 4 packets, 1 frame, 2 heartbeat handlers | 1.4 million | type invariant, `JoinsAnAnsweringAC`, `TimersFitState`, `NeverSleepsOnWork`, `StatesEnd` |
| `capwap` | 3 joins, 3 transmissions, 1 loss, 1 repetition, 1 broken session, 1 echo | 2.9 million | type invariant, `ImplementsAssociation`, `ReachesRun` |
| `fragments` | MTUs 4, 12, 20, messages of 5 to 32 bytes, 4 messages | 152514 | type invariant, `ReturnedWasSent`, `CompleteIsReturned` |
| `wum` | 2 new versions of 2 parts, 7 messages, 1 served twice or late | 727486 | type invariant, `ReadyMeansWhole`, `RunningIsWhole`, `CommitLeadsToRestart` |
| `collector` | a report and a stranger without end, 2 pieces, 3 held by the kernel, time-out 2, control socket of 3 messages | 187617 | type invariant, `RowsAreReports`, `NothingForgotten`, `AcceptedIsReleased`, `ImplementsService` |

Bounds.  `MaxTimers` caps `cur_id`; three timers with three delays give every
position of an insertion (in front, between, equal, behind) with a head that is
armed, cancelled or past.  `MaxPackets` caps the packets a WTP sends: three lead
to the run state, three more allow a frame, a response and its repetition, and
two packets can be in the list at once.  `MaxRequests` caps the sequence numbers:
three allow a command whose request is replaced by a frame's, followed by
another command.  The real sequence number wraps at 256; a response that is 256
requests late is outside the model.  In `ACDispatcher` the third slot is needed
for the claims that overtake the count, and `MaxStartFailures` keeps
`gActiveWTPs` from falling for ever.  The proofs hold for all values of these
constants.

Three applications on two slots, of which two may already be taken, give a
connection that waits for a slot and one that leaves while its answer is under
way; two WTPs give commands for all with a session that closes in between.
`WTP`: four packets serve the three requests of an association and leave one for
the run state or for a late arrival, two transmissions one retry, and two heartbeats
let a handler start the NeighborDead timer while one of an earlier handler is queued,
stopped or about to be.  `Capwap`: with
three transmissions and three joins, one loss, one repetition and one broken
session never use up the bound, so what makes the WTP fail is the protocol.
`Fragments`: an MTU too small to fragment, one whose groups do not divide it, one
with several groups; lengths below, at and above the multiples; three
identifiers, so that the fourth fragmented message meets the first one's.  `WUM`:
two parts, so that the second may come first or twice; seven messages hold an
update that is broken off, a cancel and another update.  `Collector`: two
connections let one be released while an event of the other, or its own, is in the
same batch; two pieces give a report at once and in parts; a time-out of two ticks
lets a part renew the time of one connection and not of the other.  `Window` is one
piece more than a packet, so that something can lie behind a refused one.  `PipeCap` is
one less than two messages for each connection: the thread can block on its own control
socket, and TLC reaches the state in 14 steps.

Deadlock is checked where the configuration does not say otherwise.  Elsewhere
the system may really stop: a closed session, a crashed AC, an ended WTP,
a WTP that ended for an update whose agent failed.

Fairness.  `TimerLib`: weak fairness of `Tick` (the clock runs) and of
`cronometer` (the ticker is scheduled); each of its steps is enabled until taken.
`ACSession`: weak fairness of `CWManageWTP`, the session thread, whose choice
among the contents of a packet stays free.  Nothing is assumed of the WTP, of
applications or of the ticker.  Commands are served only when the packet list is
empty; the cap on packets stands for a WTP that pauses some time, and without it
a WTP that never does would starve the commands. `WTP`: weak fairness of `Main`,
the main thread, whose waits with a timeout end; nothing of the network or the
ticker, so every packet may fail to come.  Its two liveness properties have a
premise: `CWReceiveMessage` has no timeout, and a lost fragment holds the thread
there for ever.  `Capwap`: weak fairness of `Main` and of `Deliver`, one of the
messages in flight; the AC's sessions are served with the delivery.  A
retransmission happens only when no copy is under way, since the interval is far
longer than a round trip.  `WUM`: weak fairness of `Agent`, a process that runs.
`Collector`: weak fairness of `em_thread`, its one thread, whose `epoll_wait`
returns after its timeout at the latest, and of `Tick`, the clock; nothing of the
peers.  `AcceptedIsReleased` has a premise, that from some time on no part renews a
connection (`Renewed`), and an exception, a blocked thread.  `ACInterface` and `Fragments` state no liveness: an application may wait
for ever (hazard at `ACMainLoop.c:737`), and a network that loses owes nothing.

### What the violations say

* `timerlib_early`: a timer added in front of the queue while a handler runs
  programs the interval timer; its SIGALRM arrives, and the ticker programs the
  timer again before it waits.  The pending signal fires the first timer, the
  second setting fires the next one, up to its whole delay early.
* `acsession_signal`: the session thread starts with both timer signals blocked
  and unblocks the critical one only after a complete iteration.  The paths that
  `continue` at l.481 and l.503 skip that.  A first packet that is one fragment of
  a Join Request leaves the thread waiting with the WaitJoin signal pending.
* `acdispatcher_one_session`: `CWWTPByAddress` compares the slot's socket, which
  the session thread sets some time after the main thread created it.

### What the passing runs say besides

* `timerlib`: a zero interval stalls the ticker, and with it every timer of the
  process, for good (`StallIsForGood`).  `NoMissedDeadline` and `EveryTimerSettles` name
  this as the only exception.
* `wtp`: `gSuccessfulHandshake` is initialised once and cleared by the join timer's
  handler.  A WTP whose join timer expired once rejects every later Join Response,
  until it is started again (`WTPJoinState.c:196`); `ExpiredOnceNeverJoins` proves it.
* `capwap`: `ReachesRun` needs its disjunct `hopeless`.  One lost Configure
  Response is enough: the AC has moved on to the data check, ignores the repeated
  Configure Request, and cancels its only timer for it; the WTP runs out of
  retransmissions, and `CWWTPEnterConfigure` returns `CW_QUIT`, which ends the
  process where the other states go back to discovery.  The AC's session stays.
* `acinterface`: two applications that command one WTP at once may get each
  other's answer or none; the properties say that nothing else goes wrong.
* `wum`: a repeated fragment makes the count reach its end with a part missing,
  so `READY` has a hole; the archive then does not unpack, and `RunningIsWhole`
  holds nevertheless.
* `collector`: `pc->len` is advanced before a part is copied to `pc->buf + pc->len`
  (`sino_service.c:118-122`), so the first bytes of `buf` stay zero and a report that
  comes in parts is never recorded; `PartsNeverPass` proves it for every length.
* `collector`: a part renews a connection's time and not its place in the list
  (`sino_service.c:120`), so the list is not sorted by time and "later all no
  timeout" (246) is not so.  A connection behind one that is not due is expired
  late.  A peer that goes on sending parts, whatever they hold, is not expired at all,
  nor is anything behind it in the list: without its premise TLC refutes
  `AcceptedIsReleased`.
* `collector`: what is lost with an edge, behind a refused packet or with a descriptor
  that could not be added, is left to the timeout; `NoEdgeLost` says that nothing else is.
* `collector`: the thread blocks on its control socket only when two messages for each
  open connection are as many as fit (`BlocksOnlyWhenCrowded`).  The code bounds the
  connections by nothing; a Unix socket pair of the usual size holds hundreds of them.
* `collector`: a release in the middle of a batch leaves an event for a freed
  `fd_event` (`yhepoll.c:374`), where the comment at 343 expects no further event;
  `RowsAreReports` and `ImplementsService` hold in spite of `StaleEvent`.

## 4. Proofs

TLAPS checks every theorem for all values of the constants.

`TimerLibProofs`.  The four safety invariants are not inductive one by one:
`NoMissedDeadline` needs that the queue is sorted, that the head is `in_use` just
when the ticker has armed it or a handler's addition has, and that only the
interval timer covers the head, unless the last `timer_start` disarmed it.  `IInv` is the conjunction of `TypeOK` with
`QueueInv` (sorted by deadline, distinct ids below `cur_id`, only the head armed
or cancelled), `FateInv` (which timers are in the queue, and which still own
their argument) and `ArmedInv` (what is armed while the ticker waits).
`Invariance` proves `Spec => []IInv` from `InitInv` and `NextInv`, which has a
lemma per action.  `TypeCorrect`, `TickerAlwaysHasTimer`, `NoDeadlineMissed` and
`ArgumentFreedOnce` follow, and `RemovedStaysRemoved` is an action property from
the same invariant.  `StallIsForGood` is one too: in a stalled state only the ticker
could arm the interval timer, since an addition in front of the head cannot come before
a deadline that is at most a tick away.  The assumption is `TimerAssumption`: at least one tick of
delay, any number of timers.

`ACSessionProofs`.  `OneTimerPerSession` and `AnsweredMeansAcked` rest on what
ties the control state to the rest: before the thread has started no timer runs
and no command is set (`StartInv`), an application waits just as long as one of
the two command flags is set and never both are (`CommandInv`), and a
Configuration Update Response is awaited only for the command in progress, with
the number of its request (`ExpectedInv`, which also says that a closed session
has none in progress).  `PacketInv` keeps the packet counter in its range.
`IInv` is their conjunction with `TypeOK`; `NextInv` has one case per action.
`TypeCorrect`, `OneTimer` and `AnswersAreAcknowledged` follow.
`SessionImplementsService` is the safety part of `ImplementsService`: the initial
states map to initial states of `SessionService`, and under `IInv` every step maps
to a step of it or to a stutter (`StepSimulation`).  The assumption is
`SessionAssumption`: any number of packets and requests.

`TimerLibProofs` also has the arithmetic of `Timeval`, for all times.  The code
is wrong by one microsecond, and the theorems say by how much and when:
`DeadlineIsExact` for `timer_add`; `DifferenceIsShort` for `TV_MINUS`, which loses
one microsecond just when it borrows; `DisarmedByOneMicrosecond` for `timer_start`,
whose interval is zero, which disarms the timer, in one case only: it is called in
the last microsecond of a second for a deadline at the start of the next.

`ReceivePathProofs`, the dispatcher.  `SlotOwnership` is inductive with the types.
`PacketsOfOneWTP` also needs `SlotOfSender`: between the lookup, or the claim, and
the append no one but the main thread writes the address of its slot.
`NoGhostSessions` follows the set `Counted` with the cardinality theorems of the
library: `Count` adds one session and one to the counter, `Uncount` takes one of
each, and a session that fails before it is counted makes the counter too small,
never too large.  The assumption is `DispatcherAssumption`: at least one slot,
any limit, any number of WTPs and sockets.

`ReceivePathProofs`, the fragments.  The code recognises a complete message by a
count: the bytes collected equal the end of the last fragment.  That the count
means what it should is arithmetic over all lengths and all orders of arrival.
The fragments of a message start at the multiples of a group size and their bytes
are those of the message (`Aligned`, `BytesOfFragments`).  `SentInv` says that a
message of several fragments has an identifier of its own; `ListInv` says that the list holds distinct fragments of one
message and never all of them, as long as fragment IDs have not come round.
`SizeOfLoop` and `SizeCountsBytes` show that the loop of `CurrentSize` counts the
bytes of the fragments held, so it gives the length of the message only when none
is missing, and then `Chain` finds them all (`OneMessage`, `CompletePieces`).
`MessagesAreWhole`, `NoMessageIsHeldBack` and `FragmentsTypeCorrect` follow.  The
library's induction theorems cannot be used; where a loop asks for induction the
proof takes the least number at which the claim fails (`LeastNumber`).  The
assumption is `FragmentsAssumption`: positive lengths, any MTU, at least one
identifier.

`CapwapProofs`.  The refinement: `CapwapImplementsAssociation` proves
`Spec => ImplementsAssociation`, and `TypeCorrect` the types.  Its heart is
`AwaitedInv`: whatever is under way with the number that the WTP waits for, in the
network or in its list, belongs to this join and to this phase, and if it is a
response, a session of this join has accepted the request.  That is why `IsAwaited`
may compare type and number only.  It needs `OldInv` (nothing of a later join or
with a number not yet used is under way), `ReachedInv` (the AC is at most one phase
ahead and never behind) and `SessionInv` (a session that was opened again by an
old request is not ahead of what its era reached).  `SeqInv` bounds the numbers by
what the model allows.  `StepSimulation` maps each action: `CWWTPEnterJoin` to
`Begin`, `AcceptRequest` to `Grant` or a stutter (a replayed request), the accepted
response to `Enter`, running out of retransmissions and leaving the run state to
`GiveUp`, all others to a stutter.  The assumption is `CapwapAssumption`; that
numbers do not come round is part of the model, as in the run.

`WTPProofs`.  All safety invariants of the run, and the types, which are not
obvious either: that `CWStopHeartbeatTimer` never takes a timer that is not in the
queue needs that the stored id names one (`BeatInv`), and the retransmission count
its tie to the place of the main thread (`RequestInv`).  `JoinsAnAnsweringAC` rests
on `DiscoveryInv`: an AC counted as received was heard, and the pointer is cleared
before it can survive a round.  `TimersFitState` rests on `DeadInv`, which says why
the unlocked steps do no harm: while the flag is set only the main thread stops the
timer and clears the flag, while it is clear only the handler starts the timer and sets
it, so what either thread tested for is as it was found.  The assumption is
`WTPAssumption`: at least one AC,
at least one discovery and one transmission.  `ExpiredOnceNeverJoins` is an action
property of the code as it is: no step sets `gSuccessfulHandshake` again.

`ACInterfaceProofs`.  `TableConsistent` has two halves.  `SlotsAccounted` follows
the set of free slots with the cardinality theorems of the library and bounds the
count (`SlotsFinite`); `OneApplicationPerSlot` needs that a claimed slot belongs
to a connection without a thread (`StartingInv`).  `AnswersGoHome`, an action
property, and `WaitersAreOwed` rest on `WaitInv` and `OutstandingInv`: who waits
for a session waits for no other, is alone there unless it is contended, and its
request is the outstanding one.  The assumption is `InterfaceAssumption`: at
least one socket and one WTP.

`WUMProofs`.  `ReadyIsWhole` carries the tool's order through the network:
`FragmentInv` says that a fragment still to be served is the next message and the
next part of the package, `AnswerInv` that a positive answer tells the tool what the
WTP has, `NumberInv` and `LastInv` that an answer is one to the last message.
`RunsWholeInstallation` follows from `AgentInv`: half an installation exists only
between the copy and its repair, or after the agent has stopped.  The assumption is
`WUMAssumption`.

`CollectorProofs`.  `Inv` relates the places where the program keeps a
connection: the backlog holds the waiting ones (`QueueInv`), the list the held
ones, once each (`ListInv`), the control socket releases only those that were
dropped (`PipeInv`), and a row belongs to a connection that has ended
(`RowsInv`).  So a connection is decided once, by its report, its peer or the
timeout: `RowsAlwaysReports` is `Spec => []RowsAreReports`.  `BufferInv` says
that the first piece of `buf` is never written, from which `PartsNeverPass`
follows.  `TypeCorrect` needs the ranges of counters and buffers (`Bounds`).
`NothingIsForgotten` rests on `Kept`: no message is twice in the control socket,
every held connection is in the list, every dropped one has its release in the
socket, only those two kinds are in the epoll set, and an edge is kept for whatever
the thread has not read (`NoEdgeLost`).  `Kept` holds while the thread works; one that
is blocked stays so (`BlockedStays`).  With `MessagesInv`, which says which messages
there can be at all, counting them gives the last conjunct, `BlocksOnlyWhenCrowded`:
before the server was added there is one message, afterwards at most one for each held
and two for each dropped connection, with those about to be written two for each open one
(`CrowdedWhenBlocked`).
`CollectorImplementsService` proves the refinement: every action is one
of the kinds that `Decides` lists (a connection is opened, taken, a set of them
given up, or nothing is decided), and `StepSimulation` maps each kind to a step
of `ReportService` or a stutter.  The assumption is `CollectorAssumption`:
finitely many connections, a buffer that holds a report, a kernel that holds one for
the reader, a control socket of any size.

What the code does not promise.  Five places leave somebody waiting, and no run
could state the opposite.  Theorems state how far the limit goes, as properties of
every step:

* `BlockedUntilPacket` (`WTP.c:114`): a WTP that waits for the rest of a message
  leaves only with a packet, so its retransmissions stop;
* `SilentSessionStays` (`ACDataCheckState.c:44`): a session left without a timer
  stays until its WTP sends again;
* `ReplacedCommandWaits` (`ACRunState.c:130`): a command whose request was replaced
  by a Station Configuration Request is released by the session's end only;
* `UntakenCommandIsForgotten` (`ACMainLoop.c:737`): a command not taken before the
  session closed is answered by no later session;
* `ExpiredOnceNeverJoins` (`WTPJoinState.c:196`), above.

TLC reaches the state each of them is about; none holds for want of it.

Only model-checked: liveness (`EveryTimerSettles`, `PacketsServed`,
`ClosesAtNextPacket`, `StatesEnd`, `ReachesRun`, `CommitLeadsToRestart`,
`AcceptedIsReleased`, and the fairness part of the session's
`ImplementsService`), which the prover cannot treat because it needs ENABLED.
Every safety invariant and action property of the passing runs is a theorem.
RECURSIVE operators are out of the prover's reach as well; no module declares one.

## 5. Plan and what is not modelled

Next: `timer_init` and `timer_destroy`; the download below.

Not modelled, and why:

* Message elements (`ACProtocol.c`, `WTPProtocol.c`, `CWBinding.c` and their
  neighbours), most of the code by size: they convert data and keep no state
  between calls.  Whether they succeed is a choice in the models that call them.
* `include/openssl`, the user interface of the update tool, static files and
  documents: vendored code or input and output.
* DTLS: not part of the build.
* Networking, drivers, frame capture, logging, configuration files: input and
  output, present in the models as events and failures.
* The firmware download that a Configure Response starts (`WTPProtocol.c:884-1095`,
  `WTP.c:364-480`, `AC.c:342-415`): a child process that fetches an image with tftp,
  checks it and reports to the collector.  It shares no state with the update of
  `WUM`.  A model has to allow what the code does not test: the exit status of tftp,
  a `fclose` that fails, an image overwritten after its description was written.
* Unsynchronised increments of `CWGetSeqNum` (`WTP.c:652`) by the main thread and
  the ticker, which could give two requests one number: `Capwap` takes the call
  as one step.
* The wrap-round of sequence numbers and fragment identifiers.
