------------------------------ MODULE TimerLib ------------------------------
(***************************************************************************)
(* The timer library shared by the AC and the WTP (src/timerlib.c) with    *)
(* the client the AC puts on it (CWTimerRequest, CWTimerCancel and         *)
(* CWHandleTimer of src/CWThread.c).                                       *)
(*                                                                         *)
(* One detached "ticker" thread (cronometer) serves a queue of timers that *)
(* is sorted by deadline.  It programs the single interval timer of the    *)
(* process for the head of the queue, waits for SIGALRM, takes the head    *)
(* out and runs its handler without the lock.  Any thread, a handler       *)
(* included, may add or remove timers meanwhile.                           *)
(*                                                                         *)
(* An action is one critical section of timerq.mutex, or one step outside  *)
(* of it.  Time is relative: a timer knows the ticks left to its deadline, *)
(* 0 for every deadline that has passed.                                   *)
(***************************************************************************)
EXTENDS Integers, SequencesExt

CONSTANTS
  MaxDelay,     \* longest delay a caller asks for, in ticks (bound of the model)
  MaxTimers     \* number of timer_add calls (bounds the unbounded cur_id)

ASSUME TimerAssumption == MaxDelay \in Nat \ {0} /\ MaxTimers \in Nat

VARIABLES
  queue,        \* timerq.first .. timerq.last, in list order
  cur_id,       \* timerq.cur_id
  alarm,        \* ticks to the expiry of ITIMER_REAL, 0 when disarmed
  sigalrm,      \* SIGALRM is pending for the process (it does not queue)
  ticker,       \* where the ticker thread is
  running,      \* id of the timer whose handler runs, or None
  disarmed,     \* history: the last timer_start computed a zero interval
  fate,         \* history: what became of each timer
  freed         \* history: how often each timer's argument was freed

vars == <<queue, cur_id, alarm, sigalrm, ticker, running, disarmed, fate, freed>>

None == -1
Ids == 0 .. MaxTimers - 1
Delays == 1 .. MaxDelay

\* struct timer; "arg" tells whether handler_arg still points to an argument.
Timer == [id : Ids, left : 0 .. MaxDelay, in_use : BOOLEAN,
          cancelled : BOOLEAN, arg : BOOLEAN]

\* loop: about to lock and look at the queue; condwait: in pthread_cond_wait;
\* sigwait: in sigwait; signalled: back from sigwait, before the lock.
TickerStates == {"loop", "condwait", "sigwait", "signalled", "handler"}

Init ==
  /\ queue = <<>>
  /\ cur_id = 0
  /\ alarm = 0
  /\ sigalrm = FALSE
  /\ ticker = "loop"
  /\ running = None
  /\ disarmed = FALSE
  /\ fate = [i \in Ids |-> "unused"]
  /\ freed = [i \in Ids |-> 0]

-----------------------------------------------------------------------------
\* Definitions named <Operator>_<bug> are mutants of the operator that follows:
\* Next uses none of them.
TimerStart_PastNotClamped(t) ==
  \/ alarm' = t.left /\ disarmed' = FALSE
  \/ t.left = 1 /\ alarm' = 0 /\ disarmed' = TRUE

(* timer_start: setitimer to the deadline, or to ALMOST_NOW (one tick) when it *)
(* is past.  It replaces the previous setting; a pending SIGALRM stays.  Of a  *)
(* deadline less than a tick ahead TV_MINUS may leave a zero interval, which   *)
(* disarms the interval timer (Timeval, DisarmedByOneMicrosecond).             *)
TimerStart(t) ==
  \/ alarm' = (IF t.left > 0 THEN t.left ELSE 1) /\ disarmed' = FALSE
  \/ t.left = 1 /\ alarm' = 0 /\ disarmed' = TRUE

NewTimer_PreIncrement(d) ==
  [id |-> cur_id + 1, left |-> d, in_use |-> FALSE, cancelled |-> FALSE, arg |-> TRUE]

(* The node timer_add allocates. *)
NewTimer(d) == [id |-> cur_id, left |-> d, in_use |-> FALSE,
                cancelled |-> FALSE, arg |-> TRUE]

Register(t) ==
  /\ cur_id < MaxTimers
  /\ cur_id' = cur_id + 1
  /\ fate' = [fate EXCEPT ![t.id] = "pending"]

AddToEmpty_NoSignal(d) ==
  /\ queue = <<>>
  /\ Register(NewTimer(d))
  /\ queue' = <<NewTimer(d)>>
  /\ UNCHANGED <<alarm, sigalrm, ticker, running, disarmed, freed>>

(* timer_add on an empty queue wakes the ticker and arms nothing. *)
AddToEmpty(d) ==
  /\ queue = <<>>
  /\ Register(NewTimer(d))
  /\ queue' = <<NewTimer(d)>>
  /\ ticker' = IF ticker = "condwait" THEN "loop" ELSE ticker
  /\ UNCHANGED <<alarm, sigalrm, running, disarmed, freed>>

(* A timer that expires before the head takes over the interval timer, even *)
(* while the ticker runs a handler.                                         *)
AddAsHead(d) ==
  /\ queue # <<>>
  /\ d < queue[1].left
  /\ Register(NewTimer(d))
  /\ queue' = <<[NewTimer(d) EXCEPT !.in_use = TRUE]>>
              \o [queue EXCEPT ![1].in_use = FALSE]
  /\ TimerStart(NewTimer(d))
  /\ UNCHANGED <<sigalrm, ticker, running, freed>>

(* Any other timer goes before the first one that expires after it, so that *)
(* timers with the same deadline stay in the order they were added.         *)
AddBehind(d) ==
  /\ queue # <<>>
  /\ d >= queue[1].left
  /\ Register(NewTimer(d))
  /\ \E k \in 2 .. Len(queue) + 1 :
       /\ \A j \in 1 .. k - 1 : queue[j].left <= d
       /\ k <= Len(queue) => d < queue[k].left
       /\ queue' = InsertAt(queue, k, NewTimer(d))
  /\ UNCHANGED <<alarm, sigalrm, ticker, running, disarmed, freed>>

(* CWTimerFreeArg: ignores NULL. *)
FreeArg(t) ==
  freed' = IF t.arg THEN [freed EXCEPT ![t.id] = @ + 1] ELSE freed

RemoveInUse_Dequeues(k) ==
  /\ queue[k].in_use
  /\ FreeArg(queue[k])
  /\ queue' = RemoveAt(queue, k)
  /\ fate' = [fate EXCEPT ![queue[k].id] = "removed"]
  /\ UNCHANGED <<cur_id, alarm, sigalrm, ticker, running, disarmed>>

RemoveInUse_KeepsArg(k) ==
  /\ queue[k].in_use
  /\ FreeArg(queue[k])
  /\ queue' = [queue EXCEPT ![k].cancelled = TRUE]
  /\ fate' = [fate EXCEPT ![queue[k].id] = "removed"]
  /\ UNCHANGED <<cur_id, alarm, sigalrm, ticker, running, disarmed>>

(* timer_rem of the timer that is armed: it is only marked, the ticker drops *)
(* it when its time comes.                                                   *)
RemoveInUse(k) ==
  /\ queue[k].in_use
  /\ FreeArg(queue[k])
  /\ queue' = [queue EXCEPT ![k].cancelled = TRUE, ![k].arg = FALSE]
  /\ fate' = [fate EXCEPT ![queue[k].id] = "removed"]
  /\ UNCHANGED <<cur_id, alarm, sigalrm, ticker, running, disarmed>>

(* timer_rem of a timer that is not armed takes it out at once.  An id that *)
(* is not in the queue changes nothing.                                     *)
RemoveQueued(k) ==
  /\ ~ queue[k].in_use
  /\ FreeArg(queue[k])
  /\ queue' = RemoveAt(queue, k)
  /\ fate' = [fate EXCEPT ![queue[k].id] = "removed"]
  /\ UNCHANGED <<cur_id, alarm, sigalrm, ticker, running, disarmed>>

-----------------------------------------------------------------------------
(* The ticker, at the top of its loop with an empty queue. *)
TickerSleep ==
  /\ ticker = "loop"
  /\ queue = <<>>
  /\ ticker' = "condwait"
  /\ UNCHANGED <<queue, cur_id, alarm, sigalrm, running, disarmed, fate, freed>>

(* With a timer in the queue it arms the head and releases the lock. *)
TickerArm ==
  /\ ticker = "loop"
  /\ queue # <<>>
  /\ TimerStart(queue[1])
  /\ queue' = [queue EXCEPT ![1].in_use = TRUE]
  /\ ticker' = "sigwait"
  /\ UNCHANGED <<cur_id, sigalrm, running, fate, freed>>

SigWait ==
  /\ ticker = "sigwait"
  /\ sigalrm
  /\ sigalrm' = FALSE
  /\ ticker' = "signalled"
  /\ UNCHANGED <<queue, cur_id, alarm, running, disarmed, fate, freed>>

(* The head was cancelled while it was armed: drop it and go on. *)
DropCancelled ==
  /\ ticker = "signalled"
  /\ queue[1].cancelled
  /\ queue' = RemoveAt(queue, 1)
  /\ ticker' = "loop"
  /\ UNCHANGED <<cur_id, alarm, sigalrm, running, disarmed, fate, freed>>

StartHandler_IgnoresCancelled ==
  /\ ticker = "signalled"
  /\ queue' = RemoveAt(queue, 1)
  /\ ticker' = "handler"
  /\ running' = queue[1].id
  /\ fate' = [fate EXCEPT ![queue[1].id] = "fired"]
  /\ UNCHANGED <<cur_id, alarm, sigalrm, disarmed, freed>>

(* Whatever timer is the head now is the one whose handler runs. *)
StartHandler ==
  /\ ticker = "signalled"
  /\ ~ queue[1].cancelled
  /\ queue' = RemoveAt(queue, 1)
  /\ ticker' = "handler"
  /\ running' = queue[1].id
  /\ fate' = [fate EXCEPT ![queue[1].id] = "fired"]
  /\ UNCHANGED <<cur_id, alarm, sigalrm, disarmed, freed>>

(* CWHandleTimer sends its signal and frees its argument. *)
EndHandler ==
  /\ ticker = "handler"
  /\ freed' = [freed EXCEPT ![running] = @ + 1]
  /\ ticker' = "loop"
  /\ running' = None
  /\ UNCHANGED <<queue, cur_id, alarm, sigalrm, disarmed, fate>>

(* One tick of time passes; the interval timer that runs out posts SIGALRM. *)
Before(n) == IF n > 0 THEN n - 1 ELSE 0

Tick ==
  /\ queue' = [i \in DOMAIN queue |->
                 [queue[i] EXCEPT !.left = Before(queue[i].left)]]
  /\ alarm' = Before(alarm)
  /\ sigalrm' = (sigalrm \/ alarm = 1)
  /\ UNCHANGED <<cur_id, ticker, running, disarmed, fate, freed>>

-----------------------------------------------------------------------------
timer_add == \E d \in Delays : AddToEmpty(d) \/ AddAsHead(d) \/ AddBehind(d)

timer_rem == \E k \in DOMAIN queue : RemoveInUse(k) \/ RemoveQueued(k)

cronometer ==
  \/ TickerSleep
  \/ TickerArm
  \/ SigWait
  \/ DropCancelled
  \/ StartHandler
  \/ EndHandler

Next == timer_add \/ timer_rem \/ cronometer \/ Tick

(* The clock runs, and the ticker thread is scheduled; nobody has to add or *)
(* remove a timer.                                                          *)
Fairness == WF_vars(Tick) /\ WF_vars(cronometer)

Spec == Init /\ [][Next]_vars /\ Fairness

-----------------------------------------------------------------------------
(* Every variable has its type. *)
TypeOK ==
  /\ queue \in Seq(Timer)
  /\ cur_id \in 0 .. MaxTimers
  /\ alarm \in 0 .. MaxDelay
  /\ sigalrm \in BOOLEAN
  /\ ticker \in TickerStates
  /\ running \in Ids \union {None}
  /\ disarmed \in BOOLEAN
  /\ (ticker = "handler") => (running \in Ids)
  /\ fate \in [Ids -> {"unused", "pending", "removed", "fired"}]
  /\ freed \in [Ids -> Nat]

(* cronometer reads timerq.first->cancelled after sigwait without a look at *)
(* the pointer (l.225): whatever was added and removed while it waited, the *)
(* queue still has a head, and it is the armed timer.                       *)
TickerHasTimer ==
  ticker \in {"sigwait", "signalled"} => queue # <<>> /\ queue[1].in_use

(* While the ticker waits for SIGALRM, the signal is pending or the interval *)
(* timer expires no later than the earliest deadline of all queued timers    *)
(* (one tick later for a deadline already past): no expiry is ever missed    *)
(* but by the zero interval of timer_start (l.62), and that one is computed  *)
(* only for a head less than a tick from its deadline.                       *)
NoMissedDeadline ==
  ticker = "sigwait" =>
    \/ sigalrm
    \/ disarmed /\ queue[1].left <= 1
    \/ /\ alarm > 0
       /\ \A k \in DOMAIN queue : alarm <= queue[k].left \/ alarm = 1

(* The ticker waits for a signal that nothing will send: no timer fires any  *)
(* more.                                                                     *)
Stalled == ticker = "sigwait" /\ disarmed /\ ~ sigalrm

(* The argument of a timer is freed once and only once (LE-03-02-2010.01):  *)
(* never while its handler uses it, never twice by timer_rem and the        *)
(* handler, and no settled timer leaks it.                                  *)
ArgFreedOnce ==
  \A i \in Ids :
    freed[i] = CASE fate[i] \in {"unused", "pending"} -> 0
                 [] fate[i] = "removed" -> 1
                 [] fate[i] = "fired" -> IF running = i THEN 0 ELSE 1

(* After timer_rem found a timer in the queue, its handler never runs, and a *)
(* handler runs at most once for a timer.                                    *)
RemovedNeverFires ==
  [][\A i \in Ids :
       /\ fate[i] \in {"removed", "fired"} => fate'[i] = fate[i]
       /\ running # i /\ running' = i => fate[i] = "pending"]_vars

(* Every timer fires or is removed.  The one way not to is a ticker that     *)
(* sleeps on a disarmed interval timer: an empty queue, past deadlines,      *)
(* cancelled heads, handlers and early signals never stall it.               *)
EveryTimerSettles ==
  \A i \in Ids : (fate[i] = "pending") ~> (fate[i] # "pending" \/ Stalled)

(* What the comment in cronometer (l.210-222) says: a timer never expires   *)
(* before its time, so that after sigwait the head of the queue is the      *)
(* timer the signal was sent for.                                           *)
NeverEarly == ticker = "signalled" => queue[1].left = 0
=============================================================================
