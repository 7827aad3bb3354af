------------------------------ MODULE Timeval ------------------------------
(***************************************************************************)
(* The time arithmetic of the timer library (src/timerlib.c): deadlines    *)
(* and intervals in seconds and microseconds.  TimerLib counts ticks of    *)
(* ALMOST_NOW instead.  Seconds are unbounded.                             *)
(***************************************************************************)
EXTENDS Integers

MICRO_PER_SEC == 1000000
MAX_USEC == 999999
ALMOST_NOW == 1000

timeval == [tv_sec : Nat, tv_usec : 0 .. MAX_USEC]

TV_LESS_THAN(t1, t2) ==
  \/ t1.tv_sec < t2.tv_sec
  \/ t1.tv_sec = t2.tv_sec /\ t1.tv_usec < t2.tv_usec

(* The macro borrows MAX_USEC, not MICRO_PER_SEC. *)
TV_MINUS(t1, t2) ==
  IF t1.tv_usec >= t2.tv_usec
  THEN [tv_sec |-> t1.tv_sec - t2.tv_sec, tv_usec |-> t1.tv_usec - t2.tv_usec]
  ELSE [tv_sec |-> t1.tv_sec - t2.tv_sec - 1,
        tv_usec |-> t1.tv_usec + (MAX_USEC - t2.tv_usec)]

(* timer_add: the absolute time of a timer that is asked for now. *)
Deadline(now, sec, usec) ==
  [tv_sec |-> now.tv_sec + sec + (now.tv_usec + usec) \div MICRO_PER_SEC,
   tv_usec |-> (now.tv_usec + usec) % MICRO_PER_SEC]

(* timer_start: what the interval timer is set to.  A zero interval disarms it. *)
Interval(to, now) ==
  IF TV_LESS_THAN(now, to) THEN TV_MINUS(to, now)
  ELSE [tv_sec |-> 0, tv_usec |-> ALMOST_NOW]

Disarms(interval) == interval.tv_sec = 0 /\ interval.tv_usec = 0
=============================================================================
