--------------------------- MODULE TimerLibProofs ---------------------------
(***************************************************************************)
(* Proofs about the timer library, for every number of timers and every    *)
(* delay: the safety properties TimerLib.cfg checks on a small instance.   *)
(***************************************************************************)
EXTENDS TimerLib, Timeval, SequenceTheorems, TLAPS

-----------------------------------------------------------------------------
(* What the two list operations do to a sequence. *)
LEMMA InsertAtProperties ==
  ASSUME NEW S, NEW s \in Seq(S), NEW k \in 1 .. Len(s) + 1, NEW e \in S
  PROVE  /\ InsertAt(s, k, e) \in Seq(S)
         /\ Len(InsertAt(s, k, e)) = Len(s) + 1
         /\ \A i \in 1 .. Len(s) + 1 : InsertAt(s, k, e)[i] =
              IF i < k THEN s[i] ELSE IF i = k THEN e ELSE s[i - 1]
<1> DEFINE before == SubSeq(s, 1, k - 1)
           after  == SubSeq(s, k, Len(s))
<1>1. /\ before \in Seq(S)
      /\ Len(before) = k - 1
      /\ \A i \in 1 .. k - 1 : before[i] = s[i]
  BY SubSeqProperties, LenProperties, ElementOfSeq
<1>2. /\ after \in Seq(S)
      /\ Len(after) = Len(s) - k + 1
      /\ \A i \in 1 .. Len(s) - k + 1 : after[i] = s[k + i - 1]
  BY SubSeqProperties, LenProperties, ElementOfSeq
<1>3. <<e>> \in Seq(S) /\ Len(<<e>>) = 1 /\ <<e>>[1] = e
  OBVIOUS
<1> HIDE DEF before, after
<1>4. /\ before \o <<e>> \in Seq(S)
      /\ Len(before \o <<e>>) = k
      /\ \A i \in 1 .. k : (before \o <<e>>)[i] = IF i < k THEN s[i] ELSE e
  BY <1>1, <1>3, ConcatProperties
<1>5. /\ (before \o <<e>>) \o after \in Seq(S)
      /\ Len((before \o <<e>>) \o after) = Len(s) + 1
      /\ \A i \in 1 .. Len(s) + 1 : ((before \o <<e>>) \o after)[i] =
            IF i <= k THEN (before \o <<e>>)[i] ELSE after[i - k]
  <2> DEFINE front == before \o <<e>>
  <2>1. front \in Seq(S) /\ Len(front) = k
    BY <1>4
  <2> HIDE DEF front
  <2>2. /\ front \o after \in Seq(S)
        /\ Len(front \o after) = Len(front) + Len(after)
        /\ \A i \in 1 .. Len(front) + Len(after) : (front \o after)[i] =
             IF i <= Len(front) THEN front[i] ELSE after[i - Len(front)]
    BY <1>2, <2>1, ConcatProperties
  <2>3. Len(front) + Len(after) = Len(s) + 1
    BY <1>2, <2>1, LenProperties
  <2> QED BY <2>1, <2>2, <2>3 DEF front
<1>6. \A i \in 1 .. Len(s) + 1 : ((before \o <<e>>) \o after)[i] =
         IF i < k THEN s[i] ELSE IF i = k THEN e ELSE s[i - 1]
  BY <1>2, <1>4, <1>5
<1> QED BY <1>5, <1>6 DEF InsertAt, before, after

(* The elements after InsertAt, one at a time. *)
LEMMA InsertAtElement ==
  ASSUME NEW S, NEW s \in Seq(S), NEW k \in 1 .. Len(s) + 1, NEW e \in S,
         NEW i \in 1 .. Len(s) + 1
  PROVE  InsertAt(s, k, e)[i] = IF i < k THEN s[i] ELSE IF i = k THEN e ELSE s[i - 1]
<1> QED BY InsertAtProperties

(* RemoveAt shortens the sequence by one and keeps the other elements. *)
LEMMA RemoveAtProperties ==
  ASSUME NEW S, NEW s \in Seq(S), NEW k \in 1 .. Len(s)
  PROVE  /\ RemoveAt(s, k) \in Seq(S)
         /\ Len(RemoveAt(s, k)) = Len(s) - 1
         /\ \A i \in 1 .. Len(s) - 1 :
              RemoveAt(s, k)[i] = IF i < k THEN s[i] ELSE s[i + 1]
<1> DEFINE before == SubSeq(s, 1, k - 1)
           after  == SubSeq(s, k + 1, Len(s))
<1>1. /\ before \in Seq(S)
      /\ Len(before) = k - 1
      /\ \A i \in 1 .. k - 1 : before[i] = s[i]
  BY SubSeqProperties, LenProperties, ElementOfSeq
<1>2. /\ after \in Seq(S)
      /\ Len(after) = Len(s) - k
      /\ \A i \in 1 .. Len(s) - k : after[i] = s[k + i]
  BY SubSeqProperties, LenProperties, ElementOfSeq
<1> HIDE DEF before, after
<1>3. /\ before \o after \in Seq(S)
      /\ Len(before \o after) = Len(s) - 1
      /\ \A i \in 1 .. Len(s) - 1 : (before \o after)[i] =
            IF i <= k - 1 THEN before[i] ELSE after[i - (k - 1)]
  <2>1. /\ before \o after \in Seq(S)
        /\ Len(before \o after) = Len(before) + Len(after)
        /\ \A i \in 1 .. Len(before) + Len(after) : (before \o after)[i] =
             IF i <= Len(before) THEN before[i] ELSE after[i - Len(before)]
    BY <1>1, <1>2, ConcatProperties
  <2>2. Len(before) + Len(after) = Len(s) - 1
    BY <1>1, <1>2, LenProperties
  <2> QED BY <1>1, <2>1, <2>2
<1>4. \A i \in 1 .. Len(s) - 1 :
         (before \o after)[i] = IF i < k THEN s[i] ELSE s[i + 1]
  <2> TAKE i \in 1 .. Len(s) - 1
  <2>1. CASE i < k
    BY <1>1, <1>3, <2>1, LenProperties
  <2>2. CASE i >= k
    <3>1. (before \o after)[i] = after[i - (k - 1)]
      BY <1>3, <2>2, LenProperties
    <3>2. i - (k - 1) \in 1 .. Len(s) - k /\ k + (i - (k - 1)) = i + 1
      BY <2>2, LenProperties
    <3> QED BY <1>2, <2>2, <3>1, <3>2
  <2>3. i < k \/ i >= k
    OBVIOUS
  <2> QED BY <2>1, <2>2, <2>3, Zenon
<1> QED BY <1>3, <1>4 DEF RemoveAt, before, after
-----------------------------------------------------------------------------
(* The inductive invariant. *)

(* The queue is sorted by deadline, holds a timer once, and only its head is *)
(* ever armed.                                                               *)
QueueInv ==
  /\ \A j, k \in 1 .. Len(queue) :
       j < k => queue[j].left <= queue[k].left /\ queue[j].id # queue[k].id
  /\ \A k \in 1 .. Len(queue) : queue[k].in_use => k = 1

(* What the history says of a timer is what the queue and the ticker show. *)
FateInv ==
  /\ \A k \in 1 .. Len(queue) :
       /\ queue[k].id < cur_id
       /\ fate[queue[k].id] = IF queue[k].cancelled THEN "removed" ELSE "pending"
       /\ queue[k].arg <=> ~ queue[k].cancelled
  /\ \A i \in Ids : fate[i] = "unused" <=> i >= cur_id
  /\ running # None <=> ticker = "handler"
  /\ running # None => fate[running] = "fired"

(* The interval timer is set for the head; as the queue is sorted, no other *)
(* timer is due before.  If it was disarmed, the head is less than a tick   *)
(* from its deadline, so that no timer_add can come before it and rearm.    *)
ArmedInv ==
  /\ disarmed => alarm = 0
  /\ ticker = "sigwait" =>
       \/ sigalrm
       \/ disarmed /\ queue[1].left <= 1
       \/ alarm > 0 /\ (alarm <= queue[1].left \/ alarm = 1)

IInv ==
  /\ TypeOK
  /\ TickerHasTimer
  /\ QueueInv
  /\ FateInv
  /\ ArmedInv
  /\ ArgFreedOnce

-----------------------------------------------------------------------------
(* The invariant holds initially. *)
LEMMA InitInv == Init => IInv
<1> SUFFICES ASSUME Init PROVE IInv
  OBVIOUS
<1> USE DEF Init, None, Ids
<1>1. queue \in Seq(Timer) /\ Len(queue) = 0
  OBVIOUS
<1>2. TypeOK
  <2>1. fate \in [Ids -> {"unused", "pending", "removed", "fired"}]
    OBVIOUS
  <2>2. freed \in [Ids -> Nat]
    OBVIOUS
  <2>3. cur_id \in 0 .. MaxTimers /\ alarm \in 0 .. MaxDelay
    BY TimerAssumption
  <2>4. /\ sigalrm \in BOOLEAN /\ disarmed \in BOOLEAN
        /\ ticker \in TickerStates /\ ticker # "handler"
        /\ running \in Ids \union {None}
    BY DEF TickerStates
  <2> QED BY <1>1, <2>1, <2>2, <2>3, <2>4 DEF TypeOK
<1>3. QueueInv /\ FateInv
  BY <1>1, TimerAssumption DEF QueueInv, FateInv
<1>4. TickerHasTimer /\ ArmedInv /\ ArgFreedOnce
  BY DEF TickerHasTimer, ArmedInv, ArgFreedOnce
<1> QED BY <1>2, <1>3, <1>4 DEF IInv

(* The node timer_add links in, and what it registers. *)
LEMMA NewTimerType ==
  ASSUME TypeOK, cur_id < MaxTimers, NEW d \in Delays
  PROVE  /\ NewTimer(d) \in Timer
         /\ [NewTimer(d) EXCEPT !.in_use = TRUE] \in Timer
         /\ cur_id \in Ids
<1>1. cur_id \in Ids
  BY TimerAssumption DEF TypeOK, Ids
<1>2. d \in 0 .. MaxDelay
  BY TimerAssumption DEF Delays
<1> QED BY <1>1, <1>2 DEF NewTimer, Timer

(* timer_add keeps the invariant. *)
LEMMA AddToEmptyInv ==
  ASSUME IInv, NEW d \in Delays, AddToEmpty(d)
  PROVE  IInv'
<1> USE DEF IInv
<1>1. cur_id < MaxTimers /\ cur_id \in Ids /\ NewTimer(d) \in Timer
  BY NewTimerType DEF AddToEmpty, Register
<1>2. queue' = <<NewTimer(d)>> /\ queue' \in Seq(Timer) /\ Len(queue') = 1
      /\ queue'[1] = NewTimer(d) /\ queue' # <<>>
  BY <1>1 DEF AddToEmpty
<1>3. TypeOK'
  BY <1>1, <1>2, TimerAssumption
  DEF TypeOK, AddToEmpty, Register, NewTimer, TickerStates, Ids
<1>4. TickerHasTimer'
  BY <1>2 DEF TickerHasTimer, AddToEmpty
<1>5. QueueInv'
  BY <1>2 DEF QueueInv, NewTimer
<1>6. FateInv'
  BY <1>1, <1>2 DEF FateInv, TypeOK, AddToEmpty, Register, NewTimer, Ids, None
<1>7. ArmedInv'
  BY DEF ArmedInv, TickerHasTimer, AddToEmpty
<1>8. ArgFreedOnce'
  BY <1>1 DEF ArgFreedOnce, FateInv, TypeOK, AddToEmpty, Register, NewTimer, Ids
<1> QED BY <1>3, <1>4, <1>5, <1>6, <1>7, <1>8

(* The new timer expires first: it becomes the head. *)
LEMMA AddAsHeadInv ==
  ASSUME IInv, NEW d \in Delays, AddAsHead(d)
  PROVE  IInv'
<1> USE DEF IInv
<1> DEFINE head == [NewTimer(d) EXCEPT !.in_use = TRUE]
           rest == [queue EXCEPT ![1].in_use = FALSE]
<1>1. cur_id < MaxTimers /\ cur_id \in Ids /\ d \in 1 .. MaxDelay
  BY NewTimerType DEF AddAsHead, Register, Delays
<1>2. /\ head \in Timer /\ head.id = cur_id /\ head.left = d /\ head.in_use
      /\ ~ head.cancelled /\ head.arg
  BY <1>1, NewTimerType DEF NewTimer
<1>3. queue \in Seq(Timer) /\ Len(queue) \in Nat \ {0} /\ queue[1] \in Timer
  BY EmptySeq, ElementOfSeq DEF TypeOK, AddAsHead
<1>4. /\ rest \in Seq(Timer)
      /\ Len(rest) = Len(queue)
      /\ \A j \in 1 .. Len(queue) :
           rest[j] = IF j = 1 THEN [queue[1] EXCEPT !.in_use = FALSE] ELSE queue[j]
  <2>1. [queue[1] EXCEPT !.in_use = FALSE] \in Timer
    BY <1>3 DEF Timer
  <2> QED BY <1>3, <2>1, ExceptSeq
<1>5. <<head>> \in Seq(Timer) /\ Len(<<head>>) = 1 /\ <<head>>[1] = head
  BY <1>2
<1>6. queue' = <<head>> \o rest
  BY DEF AddAsHead
<1> HIDE DEF head, rest
<1>7. /\ queue' \in Seq(Timer)
      /\ Len(queue') = Len(queue) + 1
      /\ \A j \in 1 .. Len(queue) + 1 :
           queue'[j] = IF j = 1 THEN head ELSE rest[j - 1]
  <2>1. /\ <<head>> \o rest \in Seq(Timer)
        /\ Len(<<head>> \o rest) = 1 + Len(queue)
        /\ \A j \in 1 .. 1 + Len(queue) : (<<head>> \o rest)[j] =
             IF j <= 1 THEN <<head>>[j] ELSE rest[j - 1]
    BY <1>4, <1>5, ConcatProperties
  <2> QED BY <1>3, <1>5, <1>6, <2>1
<1>8. /\ queue' # <<>>
      /\ queue'[1] = head
      /\ \A j \in 2 .. Len(queue') :
           /\ j - 1 \in 1 .. Len(queue)
           /\ queue[j - 1] \in Timer
           /\ queue'[j].id = queue[j - 1].id
           /\ queue'[j].left = queue[j - 1].left
           /\ queue'[j].cancelled = queue[j - 1].cancelled
           /\ queue'[j].arg = queue[j - 1].arg
           /\ queue'[j].in_use => FALSE
  <2>1. queue' # <<>> /\ queue'[1] = head
    BY <1>3, <1>7, EmptySeq
  <2> SUFFICES ASSUME NEW j \in 2 .. Len(queue')
               PROVE  /\ j - 1 \in 1 .. Len(queue)
                      /\ queue[j - 1] \in Timer
                      /\ queue'[j].id = queue[j - 1].id
                      /\ queue'[j].left = queue[j - 1].left
                      /\ queue'[j].cancelled = queue[j - 1].cancelled
                      /\ queue'[j].arg = queue[j - 1].arg
                      /\ queue'[j].in_use => FALSE
    BY <2>1
  <2>2. j - 1 \in 1 .. Len(queue) /\ queue'[j] = rest[j - 1]
    BY <1>3, <1>7
  <2>3. queue[j - 1] \in Timer
    BY <1>3, <2>2, ElementOfSeq
  <2>5. CASE j = 2
    <3>1. j - 1 = 1
      BY <2>5
    <3>2. queue'[j] = [queue[1] EXCEPT !.in_use = FALSE]
      BY <1>3, <1>4, <2>2, <3>1
    <3>3. queue[j - 1] = queue[1]
      BY <3>1
    <3> QED BY <1>3, <2>2, <3>2, <3>3 DEF Timer
  <2>6. CASE j # 2
    <3>1. queue'[j] = queue[j - 1] /\ j - 1 # 1
      BY <1>4, <2>2, <2>6
    <3>2. queue[j - 1].in_use => FALSE
      BY <2>2, <3>1 DEF QueueInv
    <3> QED BY <2>2, <2>3, <3>1, <3>2
  <2> QED BY <2>5, <2>6
<1>9. TypeOK'
  <2>1. alarm' \in 0 .. MaxDelay
    BY <1>1, TimerAssumption DEF AddAsHead, TimerStart, NewTimer
  <2>2. disarmed' \in BOOLEAN
    <3>1. disarmed' = FALSE \/ disarmed' = TRUE
      BY Zenon DEF AddAsHead, TimerStart
    <3> QED BY <3>1, Zenon
  <2> QED BY <1>1, <1>2, <1>7, <2>1, <2>2, TimerAssumption
  DEF TypeOK, AddAsHead, Register, NewTimer, TickerStates, Ids
<1>10. TickerHasTimer'
  BY <1>2, <1>8 DEF TickerHasTimer
<1>11. QueueInv'
  <2>1. \A k \in 2 .. Len(queue') : d <= queue'[k].left /\ queue'[k].id # cur_id
    <3> SUFFICES ASSUME NEW k \in 2 .. Len(queue')
                 PROVE  d <= queue'[k].left /\ queue'[k].id # cur_id
      OBVIOUS
    <3>1. queue[1].left <= queue[k - 1].left
      BY <1>3, <1>8 DEF QueueInv, Timer
    <3>2. d < queue[1].left /\ queue[1].left \in Int /\ queue[k - 1].left \in Int
      BY <1>3, <1>8 DEF AddAsHead, Timer
    <3>3. queue[k - 1].id \in Int /\ queue[k - 1].id < cur_id /\ cur_id \in Int
      BY <1>1, <1>8 DEF FateInv, Timer, Ids
    <3> QED BY <1>1, <1>8, <3>1, <3>2, <3>3
  <2>2. \A j, k \in 1 .. Len(queue') :
          j < k => queue'[j].left <= queue'[k].left /\ queue'[j].id # queue'[k].id
    <3> SUFFICES ASSUME NEW j \in 1 .. Len(queue'), NEW k \in 1 .. Len(queue'), j < k
                 PROVE  queue'[j].left <= queue'[k].left /\ queue'[j].id # queue'[k].id
      OBVIOUS
    <3>1. k \in 2 .. Len(queue')
      BY <1>3, <1>7
    <3>2. CASE j = 1
      BY <1>2, <1>8, <2>1, <3>1, <3>2
    <3>3. CASE j # 1
      <4>1. j \in 2 .. Len(queue') /\ j - 1 < k - 1
        BY <1>3, <1>7, <3>3
      <4>2. queue[j - 1].left <= queue[k - 1].left /\ queue[j - 1].id # queue[k - 1].id
        BY <1>8, <3>1, <4>1 DEF QueueInv
      <4> QED BY <1>8, <3>1, <4>1, <4>2
    <3> QED BY <3>2, <3>3
  <2>3. \A k \in 1 .. Len(queue') : queue'[k].in_use => k = 1
    BY <1>7, <1>8
  <2> QED BY <2>2, <2>3 DEF QueueInv
<1>12. FateInv'
  <2>1. fate' = [fate EXCEPT ![cur_id] = "pending"] /\ cur_id' = cur_id + 1
    BY DEF AddAsHead, Register, NewTimer
  <2>2. ASSUME NEW k \in 1 .. Len(queue')
        PROVE  /\ queue'[k].id < cur_id'
               /\ fate'[queue'[k].id] =
                    IF queue'[k].cancelled THEN "removed" ELSE "pending"
               /\ queue'[k].arg <=> ~ queue'[k].cancelled
    <3>1. CASE k = 1
      BY <1>1, <1>2, <1>8, <2>1, <3>1 DEF Ids, TypeOK
    <3>2. CASE k # 1
      <4>1. k \in 2 .. Len(queue')
        BY <1>3, <1>7, <3>2
      <4>2. /\ queue[k - 1].id < cur_id
            /\ queue[k - 1].id \in Ids
            /\ fate[queue[k - 1].id] =
                 IF queue[k - 1].cancelled THEN "removed" ELSE "pending"
            /\ queue[k - 1].arg <=> ~ queue[k - 1].cancelled
        BY <1>8, <4>1 DEF FateInv, Timer
      <4> QED BY <1>1, <1>8, <2>1, <4>1, <4>2 DEF Ids, TypeOK
    <3> QED BY <3>1, <3>2
  <2>3. \A i \in Ids : fate'[i] = "unused" <=> i >= cur_id'
    BY <1>1, <2>1 DEF FateInv, TypeOK, Ids
  <2>4. /\ running' # None <=> ticker' = "handler"
        /\ running' # None => fate'[running'] = "fired"
    BY <1>1, <2>1 DEF FateInv, TypeOK, AddAsHead, Ids, None
  <2> QED BY <2>2, <2>3, <2>4 DEF FateInv
<1>13. ArmedInv'
  <2>1. \/ alarm' = d /\ ~ disarmed'
        \/ d = 1 /\ alarm' = 0 /\ disarmed'
    BY <1>1 DEF AddAsHead, TimerStart, NewTimer
  <2>2. queue'[1].left = d
    BY <1>2, <1>8
  <2> QED BY <1>1, <2>1, <2>2 DEF ArmedInv
<1>14. ArgFreedOnce'
  BY <1>1 DEF ArgFreedOnce, FateInv, TypeOK, AddAsHead, Register, NewTimer, Ids
<1> QED BY <1>9, <1>10, <1>11, <1>12, <1>13, <1>14

(* The new timer goes behind another one. *)
LEMMA AddBehindInv ==
  ASSUME IInv, NEW d \in Delays, AddBehind(d)
  PROVE  IInv'
<1> USE DEF IInv
<1> DEFINE t == NewTimer(d)
<1>1. /\ cur_id < MaxTimers /\ cur_id \in Ids /\ d \in 1 .. MaxDelay /\ t \in Timer
      /\ t.id = cur_id /\ t.left = d /\ ~ t.in_use /\ ~ t.cancelled /\ t.arg
  BY NewTimerType DEF AddBehind, Register, Delays, NewTimer
<1>2. PICK p \in 2 .. Len(queue) + 1 :
        /\ \A j \in 1 .. p - 1 : queue[j].left <= d
        /\ p <= Len(queue) => d < queue[p].left
        /\ queue' = InsertAt(queue, p, t)
  BY DEF AddBehind
<1>3. queue \in Seq(Timer) /\ Len(queue) \in Nat \ {0} /\ p \in 1 .. Len(queue) + 1
  BY EmptySeq, <1>2 DEF TypeOK, AddBehind
<1> HIDE DEF t
<1>4. /\ queue' \in Seq(Timer)
      /\ Len(queue') = Len(queue) + 1
      /\ \A j \in 1 .. Len(queue) + 1 :
           queue'[j] = IF j < p THEN queue[j] ELSE IF j = p THEN t ELSE queue[j - 1]
  <2>1. /\ InsertAt(queue, p, t) \in Seq(Timer)
        /\ Len(InsertAt(queue, p, t)) = Len(queue) + 1
        /\ \A j \in 1 .. Len(queue) + 1 : InsertAt(queue, p, t)[j] =
             IF j < p THEN queue[j] ELSE IF j = p THEN t ELSE queue[j - 1]
    <3>1. t \in Timer /\ queue \in Seq(Timer) /\ p \in 1 .. Len(queue) + 1
      BY <1>1, <1>3
    <3>2. InsertAt(queue, p, t) \in Seq(Timer)
      BY ONLY <3>1, InsertAtProperties, SMT
    <3>3. Len(InsertAt(queue, p, t)) = Len(queue) + 1
      BY ONLY <3>1, InsertAtProperties, SMT
    <3>4. ASSUME NEW j \in 1 .. Len(queue) + 1
          PROVE  InsertAt(queue, p, t)[j] =
                   IF j < p THEN queue[j] ELSE IF j = p THEN t ELSE queue[j - 1]
      BY ONLY <3>1, InsertAtElement, SMT
    <3> QED BY <3>2, <3>3, <3>4
  <2>2. queue' = InsertAt(queue, p, t)
    BY <1>2 DEF t
  <2> QED BY <2>1, <2>2
<1>5. \A j \in 1 .. Len(queue) :
         /\ queue[j] \in Timer /\ queue[j].left \in Int /\ queue[j].id \in Ids
         /\ queue[j].id < cur_id
         /\ j < p => queue[j].left <= d
         /\ j >= p => d < queue[j].left
  <2> SUFFICES ASSUME NEW j \in 1 .. Len(queue)
               PROVE  /\ queue[j] \in Timer /\ queue[j].left \in Int /\ queue[j].id \in Ids
                      /\ queue[j].id < cur_id
                      /\ j < p => queue[j].left <= d
                      /\ j >= p => d < queue[j].left
    OBVIOUS
  <2>1. queue[j] \in Timer /\ queue[j].left \in Int /\ queue[j].id \in Ids
    <3>1. queue[j] \in Timer
      BY <1>3, ElementOfSeq
    <3> QED BY <3>1, TimerAssumption DEF Timer
  <2>2. queue[j].id < cur_id
    BY DEF FateInv
  <2>3. j < p => queue[j].left <= d
    BY <1>2
  <2>4. ASSUME j >= p PROVE d < queue[j].left
    <3>1. p \in 1 .. Len(queue) /\ d < queue[p].left
      BY <1>2, <1>3, <2>4
    <3>2. j = p \/ queue[p].left <= queue[j].left
      BY <2>4, <3>1 DEF QueueInv
    <3>3. queue[p].left \in Int
      <4>1. queue[p] \in Timer
        BY <1>3, <3>1, ElementOfSeq
      <4> QED BY <4>1, TimerAssumption DEF Timer
    <3> QED BY <1>1, <2>1, <3>1, <3>2, <3>3
  <2> QED BY <2>1, <2>2, <2>3, <2>4
<1>6. queue'[1] = queue[1] /\ queue' # <<>>
  <2>1. 1 < p /\ 1 \in 1 .. Len(queue) + 1
    BY <1>2, <1>3
  <2> QED BY <1>3, <1>4, <2>1, EmptySeq
<1>7. TypeOK'
  BY <1>1, <1>4, TimerAssumption
  DEF TypeOK, AddBehind, Register, NewTimer, TickerStates, Ids
<1>8. TickerHasTimer'
  BY <1>6 DEF TickerHasTimer, AddBehind
<1>9. QueueInv'
  <2>1. ASSUME NEW j \in 1 .. Len(queue'), NEW k \in 1 .. Len(queue'), j < k
        PROVE  queue'[j].left <= queue'[k].left /\ queue'[j].id # queue'[k].id
    <3>1. CASE j = p
      <4>1. /\ k - 1 \in 1 .. Len(queue) /\ k - 1 >= p
            /\ queue'[j] = t /\ queue'[k] = queue[k - 1]
        BY <1>3, <1>4, <2>1, <3>1
      <4> QED BY <1>1, <1>5, <4>1 DEF Ids
    <3>2. CASE k = p
      <4>1. /\ j \in 1 .. Len(queue) /\ j < p
            /\ queue'[j] = queue[j] /\ queue'[k] = t
        BY <1>3, <1>4, <2>1, <3>2
      <4> QED BY <1>1, <1>5, <4>1 DEF Ids
    <3>3. CASE j # p /\ k # p
      <4>1. PICK m \in 1 .. Len(queue), n \in 1 .. Len(queue) :
              m < n /\ queue'[j] = queue[m] /\ queue'[k] = queue[n]
        <5>1. CASE k < p
          BY <1>3, <1>4, <2>1, <5>1
        <5>2. CASE j < p /\ k > p
          <6>1. /\ j \in 1 .. Len(queue) /\ k - 1 \in 1 .. Len(queue) /\ j < k - 1
                /\ queue'[j] = queue[j] /\ queue'[k] = queue[k - 1]
            BY <1>3, <1>4, <2>1, <5>2
          <6> QED BY <6>1
        <5>3. CASE j > p
          <6>1. /\ j - 1 \in 1 .. Len(queue) /\ k - 1 \in 1 .. Len(queue) /\ j - 1 < k - 1
                /\ queue'[j] = queue[j - 1] /\ queue'[k] = queue[k - 1]
            BY <1>3, <1>4, <2>1, <5>3
          <6> QED BY <6>1
        <5>4. k < p \/ (j < p /\ k > p) \/ j > p
          BY <1>3, <1>4, <3>3
        <5> QED BY <5>1, <5>2, <5>3, <5>4, Zenon
      <4> QED BY <4>1 DEF QueueInv
    <3> QED BY <3>1, <3>2, <3>3
  <2>2. ASSUME NEW k \in 1 .. Len(queue'), queue'[k].in_use
        PROVE  k = 1
    <3>1. k # p
      BY <1>1, <1>3, <1>4, <2>2
    <3>2. CASE k < p
      BY <1>3, <1>4, <2>2, <3>2 DEF QueueInv
    <3>3. CASE k > p
      <4>1. k - 1 \in 1 .. Len(queue) /\ queue[k - 1].in_use /\ k - 1 # 1
        BY <1>2, <1>3, <1>4, <2>2, <3>3
      <4> QED BY <4>1 DEF QueueInv
    <3> QED BY <1>3, <1>4, <3>1, <3>2, <3>3
  <2> QED BY <2>1, <2>2 DEF QueueInv
<1>10. FateInv'
  <2>1. fate' = [fate EXCEPT ![cur_id] = "pending"] /\ cur_id' = cur_id + 1
    BY DEF AddBehind, Register, NewTimer
  <2>2. ASSUME NEW k \in 1 .. Len(queue')
        PROVE  /\ queue'[k].id < cur_id'
               /\ fate'[queue'[k].id] =
                    IF queue'[k].cancelled THEN "removed" ELSE "pending"
               /\ queue'[k].arg <=> ~ queue'[k].cancelled
    <3>1. CASE k = p
      <4>1. queue'[k] = t
        BY <1>3, <1>4, <3>1
      <4> QED BY <1>1, <2>1, <4>1 DEF Ids, TypeOK
    <3>2. CASE k # p
      <4>1. PICK m \in 1 .. Len(queue) : queue'[k] = queue[m]
        <5>1. CASE k < p
          BY <1>3, <1>4, <5>1
        <5>2. CASE k > p
          <6>1. k - 1 \in 1 .. Len(queue) /\ queue'[k] = queue[k - 1]
            BY <1>3, <1>4, <5>2
          <6> QED BY <6>1
        <5>3. k < p \/ k > p
          BY <1>3, <1>4, <3>2
        <5> QED BY <5>1, <5>2, <5>3, Zenon
      <4>2. /\ queue[m].id < cur_id /\ queue[m].id \in Ids
            /\ fate[queue[m].id] = IF queue[m].cancelled THEN "removed" ELSE "pending"
            /\ queue[m].arg <=> ~ queue[m].cancelled
        BY <1>5 DEF FateInv
      <4> QED BY <1>1, <2>1, <4>1, <4>2 DEF Ids, TypeOK
    <3> QED BY <3>1, <3>2
  <2>3. \A i \in Ids : fate'[i] = "unused" <=> i >= cur_id'
    BY <1>1, <2>1 DEF FateInv, TypeOK, Ids
  <2>4. /\ running' # None <=> ticker' = "handler"
        /\ running' # None => fate'[running'] = "fired"
    BY <1>1, <2>1 DEF FateInv, TypeOK, AddBehind, Ids, None
  <2> QED BY <2>2, <2>3, <2>4 DEF FateInv
<1>11. ArmedInv'
  BY <1>6 DEF ArmedInv, AddBehind
<1>12. ArgFreedOnce'
  BY <1>1 DEF ArgFreedOnce, FateInv, TypeOK, AddBehind, Register, NewTimer, Ids
<1> QED BY <1>7, <1>8, <1>9, <1>10, <1>11, <1>12

(* timer_rem keeps the invariant. *)
LEMMA RemoveInUseInv ==
  ASSUME IInv, NEW k \in DOMAIN queue, RemoveInUse(k)
  PROVE  IInv'
<1> USE DEF IInv
<1>1. /\ queue \in Seq(Timer) /\ k \in 1 .. Len(queue) /\ queue[k] \in Timer
      /\ queue[k].id \in Ids
  <2>1. queue \in Seq(Timer) /\ k \in 1 .. Len(queue)
    BY LenProperties DEF TypeOK
  <2>2. queue[k] \in Timer
    BY <2>1, ElementOfSeq
  <2> QED BY <2>1, <2>2 DEF Timer
<1> DEFINE t == [queue[k] EXCEPT !.cancelled = TRUE, !.arg = FALSE]
<1>2. /\ t \in Timer /\ t.cancelled /\ ~ t.arg /\ t.id = queue[k].id
      /\ t.left = queue[k].left /\ t.in_use = queue[k].in_use
  BY <1>1 DEF Timer
<1>3. queue' = [queue EXCEPT ![k] = t]
  BY DEF RemoveInUse
<1> HIDE DEF t
<1>4. /\ queue' \in Seq(Timer)
      /\ Len(queue') = Len(queue)
      /\ \A j \in 1 .. Len(queue) : queue'[j] = IF j = k THEN t ELSE queue[j]
  BY <1>1, <1>2, <1>3, ExceptSeq
<1>5. \A j \in 1 .. Len(queue') :
         /\ queue'[j].id = queue[j].id
         /\ queue'[j].left = queue[j].left
         /\ queue'[j].in_use = queue[j].in_use
  BY <1>2, <1>4
<1>6. /\ fate' = [fate EXCEPT ![queue[k].id] = "removed"]
      /\ freed' = IF queue[k].arg
                   THEN [freed EXCEPT ![queue[k].id] = freed[queue[k].id] + 1]
                   ELSE freed
      /\ UNCHANGED <<cur_id, alarm, sigalrm, ticker, running, disarmed>>
  BY DEF RemoveInUse, FreeArg
<1>7. TypeOK'
  BY <1>1, <1>4, <1>6 DEF TypeOK
<1>8. TickerHasTimer'
  <2>1. 1 \in 1 .. Len(queue) /\ queue' # <<>>
    BY <1>1, <1>4, EmptySeq
  <2> QED BY <1>4, <1>5, <1>6, <2>1 DEF TickerHasTimer
<1>9. QueueInv'
  BY <1>4, <1>5 DEF QueueInv
<1>10. \A j \in 1 .. Len(queue) : j # k => queue[j].id # queue[k].id
  BY <1>1 DEF QueueInv
<1>11. FateInv'
  <2>1. ASSUME NEW j \in 1 .. Len(queue')
        PROVE  /\ queue'[j].id < cur_id'
               /\ fate'[queue'[j].id] =
                    IF queue'[j].cancelled THEN "removed" ELSE "pending"
               /\ queue'[j].arg <=> ~ queue'[j].cancelled
    <3>1. CASE j = k
      BY <1>1, <1>2, <1>4, <1>6, <3>1 DEF FateInv, TypeOK
    <3>2. CASE j # k
      BY <1>1, <1>4, <1>6, <1>10, <3>2 DEF FateInv, TypeOK
    <3> QED BY <3>1, <3>2
  <2>2. fate[queue[k].id] \in {"pending", "removed"}
    BY <1>1 DEF FateInv
  <2>3. \A i \in Ids : fate'[i] = "unused" <=> i >= cur_id'
    BY <1>1, <1>6, <2>2 DEF FateInv, TypeOK
  <2>4. /\ running' # None <=> ticker' = "handler"
        /\ running' # None => fate'[running'] = "fired"
    BY <1>1, <1>6, <2>2 DEF FateInv, TypeOK
  <2> QED BY <2>1, <2>3, <2>4 DEF FateInv
<1>12. ArmedInv'
  <2>1. 1 \in 1 .. Len(queue')
    BY <1>1, <1>4
  <2> QED BY <1>5, <1>6, <2>1 DEF ArmedInv
<1>13. ArgFreedOnce'
  <2>1. CASE queue[k].arg
    <3>1. fate[queue[k].id] = "pending"
      BY <1>1, <2>1 DEF FateInv
    <3> QED BY <1>1, <1>6, <2>1, <3>1 DEF ArgFreedOnce, TypeOK
  <2>2. CASE ~ queue[k].arg
    <3>1. fate[queue[k].id] = "removed"
      BY <1>1, <2>2 DEF FateInv
    <3>2. fate' = fate /\ freed' = freed /\ running' = running
      BY <1>1, <1>6, <2>2, <3>1 DEF TypeOK
    <3> QED BY <3>2 DEF ArgFreedOnce
  <2> QED BY <2>1, <2>2
<1> QED BY <1>7, <1>8, <1>9, <1>11, <1>12, <1>13

(* Taking one timer out keeps the others in order. *)
LEMMA DequeueKeepsOrder ==
  ASSUME TypeOK, QueueInv, NEW k \in 1 .. Len(queue), queue' = RemoveAt(queue, k)
  PROVE  /\ queue' \in Seq(Timer)
         /\ QueueInv'
         /\ \A j \in 1 .. Len(queue') :
              \E m \in 1 .. Len(queue) : m # k /\ queue'[j] = queue[m]
         /\ k # 1 => queue' # <<>> /\ queue'[1] = queue[1]
<1>1. /\ queue' \in Seq(Timer) /\ Len(queue) \in Nat
      /\ Len(queue') = Len(queue) - 1
      /\ \A j \in 1 .. Len(queue) - 1 :
           queue'[j] = IF j < k THEN queue[j] ELSE queue[j + 1]
  BY RemoveAtProperties, LenProperties DEF TypeOK
<1>2. \A j \in 1 .. Len(queue') :
         \E m \in 1 .. Len(queue) : m # k /\ queue'[j] = queue[m]
  <2> TAKE j \in 1 .. Len(queue')
  <2>1. CASE j < k
    <3>1. j \in 1 .. Len(queue) /\ j # k /\ queue'[j] = queue[j]
      BY <1>1, <2>1
    <3> QED BY <3>1
  <2>2. CASE j >= k
    <3>1. j + 1 \in 1 .. Len(queue) /\ j + 1 # k /\ queue'[j] = queue[j + 1]
      BY <1>1, <2>2
    <3> QED BY <3>1
  <2>3. j < k \/ j >= k
    BY <1>1
  <2> QED BY <2>1, <2>2, <2>3, Zenon
<1>3. ASSUME NEW i \in 1 .. Len(queue'), NEW j \in 1 .. Len(queue'), i < j
      PROVE  queue'[i].left <= queue'[j].left /\ queue'[i].id # queue'[j].id
  <2>1. PICK m \in 1 .. Len(queue), n \in 1 .. Len(queue) :
          m < n /\ queue'[i] = queue[m] /\ queue'[j] = queue[n]
    <3>1. CASE j < k
      <4>1. /\ i \in 1 .. Len(queue) /\ j \in 1 .. Len(queue)
            /\ queue'[i] = queue[i] /\ queue'[j] = queue[j]
        BY <1>1, <1>3, <3>1
      <4> QED BY <1>3, <4>1
    <3>2. CASE i < k /\ j >= k
      <4>1. /\ i \in 1 .. Len(queue) /\ j + 1 \in 1 .. Len(queue) /\ i < j + 1
            /\ queue'[i] = queue[i] /\ queue'[j] = queue[j + 1]
        BY <1>1, <1>3, <3>2
      <4> QED BY <4>1
    <3>3. CASE i >= k
      <4>1. /\ i + 1 \in 1 .. Len(queue) /\ j + 1 \in 1 .. Len(queue) /\ i + 1 < j + 1
            /\ queue'[i] = queue[i + 1] /\ queue'[j] = queue[j + 1]
        BY <1>1, <1>3, <3>3
      <4> QED BY <4>1
    <3>4. j < k \/ (i < k /\ j >= k) \/ i >= k
      BY <1>1
    <3> QED BY <3>1, <3>2, <3>3, <3>4, Zenon
  <2> QED BY <2>1 DEF QueueInv
<1>4. ASSUME NEW j \in 1 .. Len(queue'), queue'[j].in_use
      PROVE  j = 1
  <2>1. CASE j < k
    BY <1>1, <1>4, <2>1 DEF QueueInv
  <2>2. CASE j >= k
    <3>1. j + 1 \in 1 .. Len(queue) /\ queue[j + 1].in_use /\ j + 1 # 1
      BY <1>1, <1>4, <2>2
    <3> QED BY <3>1 DEF QueueInv
  <2>3. j < k \/ j >= k
    BY <1>1
  <2> QED BY <2>1, <2>2, <2>3, Zenon
<1>5. k # 1 => queue' # <<>> /\ queue'[1] = queue[1]
  BY <1>1, EmptySeq
<1> QED BY <1>1, <1>2, <1>3, <1>4, <1>5 DEF QueueInv

(* timer_rem takes a timer out of the queue. *)
LEMMA RemoveQueuedInv ==
  ASSUME IInv, NEW k \in DOMAIN queue, RemoveQueued(k)
  PROVE  IInv'
<1> USE DEF IInv
<1>1. /\ queue \in Seq(Timer) /\ k \in 1 .. Len(queue) /\ queue[k] \in Timer
      /\ queue[k].id \in Ids
  <2>1. queue \in Seq(Timer) /\ k \in 1 .. Len(queue)
    BY LenProperties DEF TypeOK
  <2>2. queue[k] \in Timer
    BY <2>1, ElementOfSeq
  <2> QED BY <2>1, <2>2 DEF Timer
<1>2. /\ queue' \in Seq(Timer)
      /\ QueueInv'
      /\ \A j \in 1 .. Len(queue') :
           \E m \in 1 .. Len(queue) : m # k /\ queue'[j] = queue[m]
      /\ k # 1 => queue' # <<>> /\ queue'[1] = queue[1]
  BY <1>1, DequeueKeepsOrder DEF RemoveQueued
<1>3. /\ fate' = [fate EXCEPT ![queue[k].id] = "removed"]
      /\ freed' = IF queue[k].arg
                   THEN [freed EXCEPT ![queue[k].id] = freed[queue[k].id] + 1]
                   ELSE freed
      /\ UNCHANGED <<cur_id, alarm, sigalrm, ticker, running, disarmed>>
  BY DEF RemoveQueued, FreeArg
<1>4. ticker \in {"sigwait", "signalled"} => k # 1
  BY DEF TickerHasTimer, RemoveQueued
<1>5. TypeOK'
  BY <1>1, <1>2, <1>3 DEF TypeOK
<1>6. TickerHasTimer' /\ ArmedInv'
  BY <1>2, <1>3, <1>4 DEF TickerHasTimer, ArmedInv
<1>7. fate[queue[k].id] \in {"pending", "removed"}
  BY <1>1 DEF FateInv
<1>8. FateInv'
  <2>1. ASSUME NEW j \in 1 .. Len(queue')
        PROVE  /\ queue'[j].id < cur_id'
               /\ fate'[queue'[j].id] =
                    IF queue'[j].cancelled THEN "removed" ELSE "pending"
               /\ queue'[j].arg <=> ~ queue'[j].cancelled
    <3>1. PICK m \in 1 .. Len(queue) : m # k /\ queue'[j] = queue[m]
      BY <1>2
    <3>2. queue[m].id # queue[k].id
      BY <1>1, <3>1 DEF QueueInv
    <3> QED BY <1>1, <1>3, <3>1, <3>2 DEF FateInv, TypeOK
  <2>2. \A i \in Ids : fate'[i] = "unused" <=> i >= cur_id'
    BY <1>1, <1>3, <1>7 DEF FateInv, TypeOK
  <2>3. /\ running' # None <=> ticker' = "handler"
        /\ running' # None => fate'[running'] = "fired"
    BY <1>1, <1>3, <1>7 DEF FateInv, TypeOK
  <2> QED BY <2>1, <2>2, <2>3 DEF FateInv
<1>9. ArgFreedOnce'
  <2>1. CASE queue[k].arg
    <3>1. fate[queue[k].id] = "pending"
      BY <1>1, <2>1 DEF FateInv
    <3> QED BY <1>1, <1>3, <2>1, <3>1 DEF ArgFreedOnce, TypeOK
  <2>2. CASE ~ queue[k].arg
    <3>1. fate[queue[k].id] = "removed"
      BY <1>1, <2>2 DEF FateInv
    <3>2. fate' = fate /\ freed' = freed /\ running' = running
      BY <1>1, <1>3, <2>2, <3>1 DEF TypeOK
    <3> QED BY <3>2 DEF ArgFreedOnce
  <2> QED BY <2>1, <2>2
<1> QED BY <1>2, <1>5, <1>6, <1>8, <1>9

-----------------------------------------------------------------------------
(* The ticker keeps the invariant. *)
LEMMA TickerSleepInv ==
  ASSUME IInv, TickerSleep
  PROVE  IInv'
<1>0. UNCHANGED <<queue, cur_id, alarm, sigalrm, running, disarmed, fate, freed>>
  BY DEF TickerSleep
<1> USE DEF IInv
<1>1. TypeOK'
  BY DEF TypeOK, TickerStates, TickerSleep
<1>2. TickerHasTimer' /\ ArmedInv'
  BY DEF TickerHasTimer, ArmedInv, TickerSleep
<1>3. QueueInv' /\ ArgFreedOnce'
  <2>1. QueueInv' <=> QueueInv
    BY <1>0 DEF QueueInv
  <2>2. ArgFreedOnce'
    BY <1>0 DEF ArgFreedOnce
  <2> QED BY <2>1, <2>2
<1>4. FateInv'
  BY DEF FateInv, TickerSleep
<1> QED BY <1>1, <1>2, <1>3, <1>4

(* cronometer arms the interval timer for the head of the queue. *)
LEMMA TickerArmInv ==
  ASSUME IInv, TickerArm
  PROVE  IInv'
<1> USE DEF IInv
<1> DEFINE t == [queue[1] EXCEPT !.in_use = TRUE]
<1>1. queue \in Seq(Timer) /\ 1 \in 1 .. Len(queue)
  BY EmptySeq DEF TypeOK, TickerArm
<1>2. queue[1] \in Timer
  BY <1>1, ElementOfSeq
<1>3. /\ t \in Timer /\ t.id = queue[1].id /\ t.left = queue[1].left /\ t.in_use
      /\ t.cancelled = queue[1].cancelled /\ t.arg = queue[1].arg
      /\ queue[1].left \in 0 .. MaxDelay
  BY <1>2 DEF Timer
<1>4. queue' = [queue EXCEPT ![1] = t]
  BY DEF TickerArm
<1> HIDE DEF t
<1>5. /\ queue' \in Seq(Timer)
      /\ Len(queue') = Len(queue)
      /\ \A j \in 1 .. Len(queue) : queue'[j] = IF j = 1 THEN t ELSE queue[j]
  BY <1>1, <1>3, <1>4, ExceptSeq
<1>6. /\ queue' # <<>> /\ queue'[1] = t
      /\ \A j \in 1 .. Len(queue') :
           /\ queue'[j].id = queue[j].id
           /\ queue'[j].left = queue[j].left
           /\ queue'[j].cancelled = queue[j].cancelled
           /\ queue'[j].arg = queue[j].arg
           /\ j # 1 => queue'[j].in_use = queue[j].in_use
  BY <1>1, <1>3, <1>5, EmptySeq
<1>7. /\ ticker = "loop" /\ ticker' = "sigwait"
      /\ \/ alarm' = (IF queue[1].left > 0 THEN queue[1].left ELSE 1) /\ ~ disarmed'
         \/ queue[1].left = 1 /\ alarm' = 0 /\ disarmed'
      /\ disarmed' \in BOOLEAN
      /\ UNCHANGED <<cur_id, sigalrm, running, fate, freed>>
  BY DEF TickerArm, TimerStart
<1>8. TypeOK'
  BY <1>3, <1>5, <1>7, TimerAssumption DEF TypeOK, TickerStates
<1>9. TickerHasTimer' /\ QueueInv'
  BY <1>3, <1>5, <1>6 DEF TickerHasTimer, QueueInv
<1>10. FateInv'
  BY <1>5, <1>6, <1>7 DEF FateInv
<1>11. ArmedInv'
  BY <1>3, <1>6, <1>7 DEF ArmedInv
<1>12. ArgFreedOnce'
  BY <1>7 DEF ArgFreedOnce
<1> QED BY <1>8, <1>9, <1>10, <1>11, <1>12

(* sigwait takes the pending SIGALRM. *)
LEMMA SigWaitInv ==
  ASSUME IInv, SigWait
  PROVE  IInv'
<1> USE DEF IInv, SigWait
<1>1. TypeOK'
  BY DEF TypeOK, TickerStates
<1>2. TickerHasTimer' /\ ArmedInv'
  BY DEF TickerHasTimer, ArmedInv
<1>3. QueueInv' /\ ArgFreedOnce'
  BY DEF QueueInv, ArgFreedOnce
<1>4. FateInv'
  BY DEF FateInv
<1> QED BY <1>1, <1>2, <1>3, <1>4

(* The ticker frees a head that was cancelled. *)
LEMMA DropCancelledInv ==
  ASSUME IInv, DropCancelled
  PROVE  IInv'
<1> USE DEF IInv
<1>1. queue \in Seq(Timer) /\ 1 \in 1 .. Len(queue)
  BY EmptySeq DEF TypeOK, TickerHasTimer, DropCancelled
<1>2. /\ queue' \in Seq(Timer)
      /\ QueueInv'
      /\ \A j \in 1 .. Len(queue') :
           \E m \in 1 .. Len(queue) : m # 1 /\ queue'[j] = queue[m]
  BY <1>1, DequeueKeepsOrder DEF DropCancelled
<1>3. /\ ticker = "signalled" /\ ticker' = "loop"
      /\ UNCHANGED <<cur_id, alarm, sigalrm, running, disarmed, fate, freed>>
  BY DEF DropCancelled
<1>4. TypeOK'
  BY <1>2, <1>3 DEF TypeOK, TickerStates
<1>5. TickerHasTimer' /\ ArmedInv' /\ ArgFreedOnce'
  BY <1>3 DEF TickerHasTimer, ArmedInv, ArgFreedOnce
<1>6. FateInv'
  BY <1>2, <1>3 DEF FateInv
<1> QED BY <1>2, <1>4, <1>5, <1>6

(* The ticker takes the expired head and calls its handler. *)
LEMMA StartHandlerInv ==
  ASSUME IInv, StartHandler
  PROVE  IInv'
<1> USE DEF IInv
<1>1. queue \in Seq(Timer) /\ 1 \in 1 .. Len(queue)
  BY EmptySeq DEF TypeOK, TickerHasTimer, StartHandler
<1>2. queue[1] \in Timer
  BY <1>1, ElementOfSeq
<1>3. queue[1].id \in Ids /\ fate[queue[1].id] = "pending" /\ queue[1].id < cur_id
  BY <1>1, <1>2 DEF FateInv, StartHandler, Timer
<1>4. /\ queue' \in Seq(Timer)
      /\ QueueInv'
      /\ \A j \in 1 .. Len(queue') :
           \E m \in 1 .. Len(queue) : m # 1 /\ queue'[j] = queue[m]
  BY <1>1, DequeueKeepsOrder DEF StartHandler
<1>5. /\ ticker = "signalled" /\ ticker' = "handler" /\ running' = queue[1].id
      /\ fate' = [fate EXCEPT ![queue[1].id] = "fired"]
      /\ UNCHANGED <<cur_id, alarm, sigalrm, disarmed, freed>>
  BY DEF StartHandler
<1>6. running = None
  BY <1>5 DEF FateInv
<1>7. TypeOK'
  BY <1>3, <1>4, <1>5 DEF TypeOK, TickerStates
<1>8. TickerHasTimer' /\ ArmedInv'
  BY <1>5 DEF TickerHasTimer, ArmedInv
<1>9. FateInv'
  <2>1. ASSUME NEW j \in 1 .. Len(queue')
        PROVE  /\ queue'[j].id < cur_id'
               /\ fate'[queue'[j].id] =
                    IF queue'[j].cancelled THEN "removed" ELSE "pending"
               /\ queue'[j].arg <=> ~ queue'[j].cancelled
    <3>1. PICK m \in 1 .. Len(queue) : m # 1 /\ queue'[j] = queue[m]
      BY <1>4
    <3>2. queue[m].id # queue[1].id
      BY <1>1, <3>1 DEF QueueInv
    <3> QED BY <1>3, <1>5, <3>1, <3>2 DEF FateInv, TypeOK
  <2>2. \A i \in Ids : fate'[i] = "unused" <=> i >= cur_id'
    BY <1>3, <1>5 DEF FateInv, TypeOK
  <2>3. running' # None /\ fate'[running'] = "fired"
    BY <1>3, <1>5 DEF TypeOK, Ids, None
  <2> QED BY <1>5, <2>1, <2>2, <2>3 DEF FateInv
<1>10. ArgFreedOnce'
  BY <1>3, <1>5, <1>6 DEF ArgFreedOnce, TypeOK, Ids, None
<1> QED BY <1>4, <1>7, <1>8, <1>9, <1>10

(* The handler returns and its timer is freed. *)
LEMMA EndHandlerInv ==
  ASSUME IInv, EndHandler
  PROVE  IInv'
<1> USE DEF IInv, EndHandler
<1>1. running \in Ids /\ running # None /\ fate[running] = "fired"
  BY DEF TypeOK, FateInv
<1>2. TypeOK'
  BY <1>1 DEF TypeOK, TickerStates
<1>3. TickerHasTimer' /\ QueueInv' /\ ArmedInv'
  BY DEF TickerHasTimer, QueueInv, ArmedInv
<1>4. FateInv'
  BY DEF FateInv
<1>5. ArgFreedOnce'
  BY <1>1 DEF ArgFreedOnce, TypeOK, Ids, None
<1> QED BY <1>2, <1>3, <1>4, <1>5

(* So does the clock. *)
LEMMA TickInv ==
  ASSUME IInv, Tick
  PROVE  IInv'
<1> USE DEF IInv
<1>1. queue \in Seq(Timer) /\ DOMAIN queue = 1 .. Len(queue) /\ Len(queue) \in Nat
  BY LenProperties DEF TypeOK
<1> DEFINE t(j) == [queue[j] EXCEPT !.left = Before(queue[j].left)]
<1>2. \A j \in 1 .. Len(queue) :
        /\ queue[j] \in Timer /\ queue[j].left \in 0 .. MaxDelay
        /\ t(j) \in Timer /\ t(j).left = Before(queue[j].left)
        /\ t(j).id = queue[j].id /\ t(j).in_use = queue[j].in_use
        /\ t(j).cancelled = queue[j].cancelled /\ t(j).arg = queue[j].arg
  <2> TAKE j \in 1 .. Len(queue)
  <2>1. queue[j] \in Timer
    BY <1>1, ElementOfSeq
  <2>2. queue[j].left \in 0 .. MaxDelay /\ Before(queue[j].left) \in 0 .. MaxDelay
    BY <2>1, TimerAssumption DEF Timer, Before
  <2> QED BY <2>1, <2>2 DEF Timer
<1>3. queue' = [j \in 1 .. Len(queue) |-> t(j)]
  BY <1>1 DEF Tick
<1> HIDE DEF t
<1>4. /\ queue' \in Seq(Timer)
      /\ Len(queue') = Len(queue)
      /\ \A j \in 1 .. Len(queue) : queue'[j] = t(j)
  <2>1. queue' \in [1 .. Len(queue) -> Timer]
    BY <1>2, <1>3
  <2>2. queue' \in Seq(Timer)
    BY <1>1, <2>1
  <2>3. 1 .. Len(queue') = 1 .. Len(queue) /\ Len(queue') \in Nat
    BY <2>1, <2>2, LenProperties
  <2>4. Len(queue') = Len(queue)
    BY <1>1, <2>3
  <2> QED BY <1>3, <2>2, <2>4
<1>5. \A j \in 1 .. Len(queue') :
         /\ queue'[j].left = Before(queue[j].left)
         /\ queue[j].left \in 0 .. MaxDelay
         /\ queue'[j].id = queue[j].id /\ queue'[j].in_use = queue[j].in_use
         /\ queue'[j].cancelled = queue[j].cancelled /\ queue'[j].arg = queue[j].arg
  BY <1>2, <1>4
<1>6. /\ alarm' = Before(alarm)
      /\ sigalrm' = (sigalrm \/ alarm = 1)
      /\ UNCHANGED <<cur_id, ticker, running, disarmed, fate, freed>>
  BY DEF Tick
<1>7. TypeOK'
  BY <1>4, <1>6, TimerAssumption DEF TypeOK, Before
<1>8. ticker \in {"sigwait", "signalled"} => queue' # <<>> /\ 1 \in 1 .. Len(queue')
  BY <1>1, <1>4, EmptySeq DEF TickerHasTimer
<1>9. TickerHasTimer'
  BY <1>5, <1>6, <1>8 DEF TickerHasTimer
<1>10. QueueInv'
  BY <1>4, <1>5, TimerAssumption DEF QueueInv, Before
<1>11. FateInv'
  BY <1>4, <1>5, <1>6 DEF FateInv
<1>12. ArmedInv'
  <2>1. disarmed' => alarm' = 0
    BY <1>6 DEF ArmedInv, Before
  <2> SUFFICES ASSUME ticker = "sigwait", ~ sigalrm, alarm # 1
               PROVE  \/ disarmed' /\ queue'[1].left <= 1
                      \/ alarm' > 0 /\ (alarm' <= queue'[1].left \/ alarm' = 1)
    BY <1>6, <2>1 DEF ArmedInv
  <2>2. queue'[1].left = Before(queue[1].left) /\ queue[1].left \in Nat /\ alarm \in Nat
    BY <1>5, <1>8, TimerAssumption DEF TypeOK
  <2>3. CASE disarmed /\ queue[1].left <= 1
    BY <1>6, <2>2, <2>3 DEF Before
  <2>4. CASE alarm > 1 /\ alarm <= queue[1].left
    BY <1>6, <2>2, <2>4 DEF Before
  <2>5. \/ disarmed /\ queue[1].left <= 1
        \/ alarm > 1 /\ alarm <= queue[1].left
    BY <2>2 DEF ArmedInv
  <2> QED BY <2>3, <2>4, <2>5
<1>13. ArgFreedOnce'
  BY <1>6 DEF ArgFreedOnce
<1> QED BY <1>7, <1>9, <1>10, <1>11, <1>12, <1>13

-----------------------------------------------------------------------------
(* No step leaves the invariant. *)
LEMMA NextInv == IInv /\ [Next]_vars => IInv'
<1> SUFFICES ASSUME IInv, [Next]_vars PROVE IInv'
  OBVIOUS
<1>1. CASE timer_add
  BY <1>1, AddToEmptyInv, AddAsHeadInv, AddBehindInv DEF timer_add
<1>2. CASE timer_rem
  BY <1>2, RemoveInUseInv, RemoveQueuedInv DEF timer_rem
<1>3. CASE cronometer
  BY <1>3, TickerSleepInv, TickerArmInv, SigWaitInv, DropCancelledInv,
     StartHandlerInv, EndHandlerInv DEF cronometer
<1>4. CASE Tick
  BY <1>4, TickInv
<1>5. CASE UNCHANGED vars
  BY <1>5 DEF vars, IInv, TypeOK, TickerHasTimer, QueueInv, FateInv, ArmedInv,
              ArgFreedOnce
<1> QED BY <1>1, <1>2, <1>3, <1>4, <1>5 DEF Next

(* The inductive invariant holds in every reachable state. *)
THEOREM Invariance == Spec => []IInv
<1>1. Init => IInv
  BY InitInv
<1>2. IInv /\ [Next]_vars => IInv'
  BY NextInv
<1> QED BY <1>1, <1>2, PTL DEF Spec

(* Every variable of the timer library keeps its type. *)
THEOREM TypeCorrect == Spec => []TypeOK
<1>1. IInv => TypeOK
  BY DEF IInv
<1> QED BY <1>1, Invariance, PTL

(* cronometer never reads through a null timerq.first after sigwait: no     *)
(* sequence of timer_add and timer_rem empties the queue under the ticker.  *)
THEOREM TickerAlwaysHasTimer == Spec => []TickerHasTimer
<1>1. IInv => TickerHasTimer
  BY DEF IInv
<1> QED BY <1>1, Invariance, PTL

(* While the ticker waits, SIGALRM is pending or the interval timer is set  *)
(* for the earliest deadline of the whole queue, unless timer_start         *)
(* computed a zero interval for a head less than a tick from its deadline.  *)
THEOREM NoDeadlineMissed == Spec => []NoMissedDeadline
<1>1. IInv => NoMissedDeadline
  <2> SUFFICES ASSUME IInv, ticker = "sigwait", ~ sigalrm, alarm # 1,
                      ~ (disarmed /\ queue[1].left <= 1),
                      NEW k \in DOMAIN queue
               PROVE  alarm > 0 /\ alarm <= queue[k].left
    BY DEF NoMissedDeadline, IInv, ArmedInv
  <2>1. alarm > 0 /\ alarm <= queue[1].left /\ alarm \in Nat
    BY TimerAssumption DEF IInv, ArmedInv, TypeOK
  <2>2. queue \in Seq(Timer) /\ k \in 1 .. Len(queue) /\ 1 \in 1 .. Len(queue)
    BY LenProperties DEF IInv, TypeOK
  <2>3. queue[1] \in Timer /\ queue[k] \in Timer
    BY <2>2, ElementOfSeq
  <2>4. queue[1].left \in Int /\ queue[k].left \in Int
    BY <2>3, TimerAssumption DEF Timer
  <2>5. k = 1 \/ queue[1].left <= queue[k].left
    BY <2>2 DEF IInv, QueueInv
  <2> QED BY <2>1, <2>4, <2>5
<1> QED BY <1>1, Invariance, PTL

(* The zero interval of timer_start stops the timer library for good: once  *)
(* the ticker waits on the disarmed interval timer, no later timer_add or   *)
(* timer_rem rearms it, and no timer fires any more.                        *)
THEOREM StallIsForGood == Spec => [][Stalled => Stalled' /\ running' = running]_vars
<1> DEFINE Stays == Stalled => Stalled' /\ running' = running
<1>1. IInv /\ [Next]_vars => [Stays]_vars
  <2> SUFFICES ASSUME IInv, Next, Stalled PROVE Stalled' /\ running' = running
    OBVIOUS
  <2>1. alarm = 0 /\ queue # <<>> /\ queue[1].left <= 1 /\ queue[1].left \in Int
    <3>1. queue # <<>> /\ queue \in Seq(Timer) /\ 1 \in 1 .. Len(queue)
      BY EmptySeq DEF IInv, TypeOK, TickerHasTimer, Stalled
    <3>2. queue[1] \in Timer
      BY <3>1, ElementOfSeq
    <3>3. queue[1].left \in Int
      BY <3>2, TimerAssumption DEF Timer
    <3> QED BY <3>1, <3>3 DEF IInv, ArmedInv, Stalled
  <2>2. CASE timer_add
    <3>1. PICK d \in Delays : AddToEmpty(d) \/ AddAsHead(d) \/ AddBehind(d)
      BY <2>2 DEF timer_add
    <3>2. ~ AddToEmpty(d) /\ ~ AddAsHead(d)
      BY <2>1, TimerAssumption DEF AddToEmpty, AddAsHead, Delays
    <3>3. UNCHANGED <<sigalrm, ticker, running, disarmed>>
      BY <3>1, <3>2, Zenon DEF AddBehind
    <3> QED BY <3>3, Zenon DEF Stalled
  <2>3. CASE timer_rem
    <3>1. UNCHANGED <<sigalrm, ticker, running, disarmed>>
      BY <2>3, Zenon DEF timer_rem, RemoveInUse, RemoveQueued
    <3> QED BY <3>1, Zenon DEF Stalled
  <2>4. CASE cronometer
    BY <2>4 DEF cronometer, TickerSleep, TickerArm, SigWait, DropCancelled,
                StartHandler, EndHandler, Stalled
  <2>5. CASE Tick
    <3>1. UNCHANGED <<ticker, running, disarmed>> /\ sigalrm' = (sigalrm \/ alarm = 1)
      BY <2>5, Zenon DEF Tick
    <3>2. alarm # 1
      BY <2>1
    <3> QED BY <3>1, <3>2, Zenon DEF Stalled
  <2> QED BY <2>2, <2>3, <2>4, <2>5 DEF Next
<1> QED BY <1>1, Invariance, PTL DEF Spec

(* The argument of a timer is freed exactly once, by timer_rem or by the *)
(* handler, however they interleave.                                     *)
THEOREM ArgumentFreedOnce == Spec => []ArgFreedOnce
<1>1. IInv => ArgFreedOnce
  BY DEF IInv
<1> QED BY <1>1, Invariance, PTL

(* A removed timer never fires, and no timer fires twice. *)
THEOREM RemovedStaysRemoved == Spec => RemovedNeverFires
<1> DEFINE Settled ==
      \A i \in Ids :
        /\ fate[i] \in {"removed", "fired"} => fate'[i] = fate[i]
        /\ running # i /\ running' = i => fate[i] = "pending"
<1>1. IInv /\ [Next]_vars => [Settled]_vars
  <2> SUFFICES ASSUME IInv, Next PROVE Settled
    OBVIOUS
  <2>1. CASE timer_add
    <3>1. /\ cur_id \in Ids /\ fate' = [fate EXCEPT ![cur_id] = "pending"]
          /\ running' = running
      BY <2>1, TimerAssumption
      DEF timer_add, AddToEmpty, AddAsHead, AddBehind, Register, NewTimer, IInv,
          TypeOK, Ids
    <3>2. fate[cur_id] = "unused"
      BY <3>1 DEF IInv, FateInv, Ids
    <3> QED BY <3>1, <3>2 DEF IInv, TypeOK
  <2>2. CASE timer_rem
    <3>1. PICK k \in DOMAIN queue : RemoveInUse(k) \/ RemoveQueued(k)
      BY <2>2 DEF timer_rem
    <3>2. k \in 1 .. Len(queue) /\ queue \in Seq(Timer)
      BY LenProperties DEF IInv, TypeOK
    <3>3. fate[queue[k].id] \in {"pending", "removed"}
      BY <3>2 DEF IInv, FateInv
    <3>4. fate' = [fate EXCEPT ![queue[k].id] = "removed"] /\ running' = running
      BY <3>1 DEF RemoveInUse, RemoveQueued
    <3> QED BY <3>3, <3>4 DEF IInv, TypeOK
  <2>3. CASE StartHandler
    <3>1. queue \in Seq(Timer) /\ 1 \in 1 .. Len(queue)
      BY <2>3, EmptySeq DEF IInv, TypeOK, TickerHasTimer, StartHandler
    <3>2. fate[queue[1].id] = "pending"
      BY <2>3, <3>1 DEF IInv, FateInv, StartHandler
    <3> QED BY <2>3, <3>2 DEF StartHandler, IInv, TypeOK
  <2>4. CASE TickerSleep \/ TickerArm \/ SigWait \/ DropCancelled \/ Tick
    BY <2>4 DEF TickerSleep, TickerArm, SigWait, DropCancelled, Tick
  <2>5. CASE EndHandler
    BY <2>5 DEF EndHandler, Ids, None
  <2> QED BY <2>1, <2>2, <2>3, <2>4, <2>5 DEF Next, cronometer
<1> QED BY <1>1, Invariance, PTL DEF Spec, RemovedNeverFires

-----------------------------------------------------------------------------
(* The arithmetic behind the ticks of TimerLib.  Micros is what a timeval      *)
(* stands for.                                                                 *)
Micros(t) == t.tv_sec * MICRO_PER_SEC + t.tv_usec

(* All that the proofs use of the two units: the largest number of             *)
(* microseconds is one less than a second.                                     *)
LEMMA Units ==
  /\ MICRO_PER_SEC \in Nat /\ MICRO_PER_SEC > 1
  /\ MAX_USEC \in Nat /\ MAX_USEC = MICRO_PER_SEC - 1
  BY DEF MICRO_PER_SEC, MAX_USEC

LEMMA Fields ==
  ASSUME NEW t \in timeval
  PROVE  /\ t.tv_sec \in Nat /\ t.tv_usec \in Nat /\ t.tv_usec < MICRO_PER_SEC
         /\ t = [tv_sec |-> t.tv_sec, tv_usec |-> t.tv_usec]
  BY Units DEF timeval

(* Multiples of M: of sums, and of a larger number. *)
LEMMA Multiples ==
  ASSUME NEW M \in Nat, NEW a \in Nat, NEW b \in Nat
  PROVE  /\ a * M \in Nat /\ b * M \in Nat
         /\ (a + b) * M = a * M + b * M
         /\ a < b => a * M + M <= b * M
<1>1. a * M \in Nat /\ b * M \in Nat /\ (a + b) * M = a * M + b * M
  OBVIOUS
<1>2. ASSUME a < b PROVE a * M + M <= b * M
  <2>1. PICK d \in Nat : b = a + 1 + d
    <3>1. b - a - 1 \in Nat /\ b = a + 1 + (b - a - 1)
      BY <1>2
    <3> QED BY <3>1
  <2>2. b * M = a * M + M + d * M /\ d * M \in Nat
    BY <2>1
  <2> QED BY <1>1, <2>2
<1> QED BY <1>1, <1>2

(* The comparison of the queue is that of the times. *)
LEMMA LessThanIsBefore ==
  ASSUME NEW s \in timeval, NEW t \in timeval
  PROVE  TV_LESS_THAN(s, t) <=> Micros(s) < Micros(t)
<1> DEFINE M == MICRO_PER_SEC
<1>1. /\ s.tv_sec \in Nat /\ s.tv_usec \in Nat /\ s.tv_usec < M
      /\ t.tv_sec \in Nat /\ t.tv_usec \in Nat /\ t.tv_usec < M
      /\ M \in Nat
  BY Fields, Units
<1>2. Micros(s) = s.tv_sec * M + s.tv_usec /\ Micros(t) = t.tv_sec * M + t.tv_usec
  BY DEF Micros
<1> HIDE DEF M
<1>3. /\ s.tv_sec * M \in Nat /\ t.tv_sec * M \in Nat
      /\ s.tv_sec < t.tv_sec => s.tv_sec * M + M <= t.tv_sec * M
      /\ t.tv_sec < s.tv_sec => t.tv_sec * M + M <= s.tv_sec * M
  BY <1>1, Multiples
<1>4. CASE s.tv_sec = t.tv_sec
  BY <1>1, <1>2, <1>3, <1>4 DEF TV_LESS_THAN
<1>5. CASE s.tv_sec < t.tv_sec
  BY <1>1, <1>2, <1>3, <1>5 DEF TV_LESS_THAN
<1>6. CASE t.tv_sec < s.tv_sec
  BY <1>1, <1>2, <1>3, <1>6 DEF TV_LESS_THAN
<1> QED BY <1>1, <1>4, <1>5, <1>6

(* A deadline is a proper timeval, exactly as far away as the caller asked. *)
THEOREM DeadlineIsExact ==
  ASSUME NEW now \in timeval, NEW sec \in Nat, NEW usec \in Nat
  PROVE  /\ Deadline(now, sec, usec) \in timeval
         /\ Micros(Deadline(now, sec, usec)) = Micros(now) + sec * MICRO_PER_SEC + usec
<1> DEFINE M == MICRO_PER_SEC
           u == now.tv_usec + usec
           q == u \div M
           r == u % M
<1>1. /\ now.tv_sec \in Nat /\ now.tv_usec \in Nat /\ u \in Nat
      /\ M \in Nat /\ M > 0 /\ MAX_USEC = M - 1
  BY Fields, Units
<1>2. q \in Nat /\ r \in Nat /\ r < M /\ u = q * M + r
  <2> HIDE DEF u, M
  <2> QED BY <1>1
<1>3. Deadline(now, sec, usec) = [tv_sec |-> now.tv_sec + sec + q, tv_usec |-> r]
  BY DEF Deadline
<1>4. Micros(Deadline(now, sec, usec)) = (now.tv_sec + sec + q) * M + r
  BY <1>3 DEF Micros
<1> DEFINE n == now.tv_usec
<1>5. Micros(now) = now.tv_sec * M + n /\ u = n + usec /\ n \in Nat
  BY <1>1 DEF Micros
<1> HIDE DEF M, u, q, r, n
<1>6. Deadline(now, sec, usec) \in timeval
  BY <1>1, <1>2, <1>3 DEF timeval
<1>7. (now.tv_sec + sec + q) * M = now.tv_sec * M + sec * M + q * M
  <2>1. /\ (now.tv_sec + sec + q) * M = (now.tv_sec + sec) * M + q * M
        /\ (now.tv_sec + sec) * M = now.tv_sec * M + sec * M
    BY <1>1, <1>2, Multiples
  <2> QED BY <2>1
<1>8. /\ now.tv_sec * M \in Nat /\ sec * M \in Nat /\ q * M \in Nat
  BY <1>1, <1>2, Multiples
<1>9. Micros(Deadline(now, sec, usec)) = Micros(now) + sec * M + usec
  <2>1. PICK a \in Nat, b \in Nat, c \in Nat :
          a = now.tv_sec * M /\ b = sec * M /\ c = q * M
    BY <1>8
  <2>2. Micros(Deadline(now, sec, usec)) = a + b + c + r
    BY <1>4, <1>7, <2>1
  <2>3. Micros(now) = a + n /\ n + usec = c + r
    BY <1>2, <1>5, <2>1
  <2>4. a + b + c + r = a + n + b + usec
    BY <1>2, <1>5, <2>3
  <2> QED BY <1>5, <2>1, <2>2, <2>3, <2>4
<1> QED BY <1>6, <1>9 DEF M

(* The difference that TV_MINUS computes is a proper timeval, and one           *)
(* microsecond short whenever it borrows (timerlib.c:62).  So "a timer never     *)
(* expires before its time" (timerlib.c:211) is true but for one microsecond.   *)
THEOREM DifferenceIsShort ==
  ASSUME NEW now \in timeval, NEW to \in timeval, TV_LESS_THAN(now, to)
  PROVE  /\ TV_MINUS(to, now) \in timeval
         /\ Micros(TV_MINUS(to, now)) =
              Micros(to) - Micros(now) - (IF to.tv_usec < now.tv_usec THEN 1 ELSE 0)
<1> DEFINE M == MICRO_PER_SEC
           s == to.tv_sec - now.tv_sec
<1>1. /\ now.tv_sec \in Nat /\ now.tv_usec \in Nat /\ now.tv_usec < M
      /\ to.tv_sec \in Nat /\ to.tv_usec \in Nat /\ to.tv_usec < M
      /\ M \in Nat /\ M > 1 /\ MAX_USEC = M - 1
  BY Fields, Units
<1>2. /\ Micros(now) = now.tv_sec * M + now.tv_usec
      /\ Micros(to) = to.tv_sec * M + to.tv_usec
  BY DEF Micros
<1>3. s \in Nat /\ (to.tv_usec < now.tv_usec => s > 0)
  BY <1>1 DEF TV_LESS_THAN
<1>4. /\ now.tv_sec * M \in Nat /\ s * M \in Nat
      /\ to.tv_sec * M = now.tv_sec * M + s * M
  <2>1. to.tv_sec = now.tv_sec + s
    BY <1>1
  <2> HIDE DEF M, s
  <2> QED BY <1>1, <1>3, <2>1, Multiples
<1>5. CASE ~ (to.tv_usec < now.tv_usec)
  <2>1. TV_MINUS(to, now) = [tv_sec |-> s, tv_usec |-> to.tv_usec - now.tv_usec]
    BY <1>1, <1>5 DEF TV_MINUS
  <2>2. Micros(TV_MINUS(to, now)) = s * M + (to.tv_usec - now.tv_usec)
    BY <2>1 DEF Micros
  <2> HIDE DEF M, s
  <2>3. TV_MINUS(to, now) \in timeval
    BY <1>1, <1>3, <1>5, <2>1 DEF timeval
  <2> QED BY <1>1, <1>2, <1>4, <1>5, <2>2, <2>3
<1>6. CASE to.tv_usec < now.tv_usec
  <2>1. TV_MINUS(to, now) =
          [tv_sec |-> s - 1, tv_usec |-> to.tv_usec + (MAX_USEC - now.tv_usec)]
    BY <1>1, <1>6 DEF TV_MINUS
  <2>2. Micros(TV_MINUS(to, now)) = (s - 1) * M + (to.tv_usec + (MAX_USEC - now.tv_usec))
    BY <2>1 DEF Micros
  <2> HIDE DEF M, s
  <2>3. s - 1 \in Nat
    BY <1>3, <1>6
  <2>4. TV_MINUS(to, now) \in timeval
    BY <1>1, <1>6, <2>1, <2>3 DEF timeval
  <2>5. s * M = (s - 1) * M + M /\ (s - 1) * M \in Nat
    <3>1. PICK d \in Nat : d = s - 1 /\ s = d + 1
      BY <1>3, <2>3
    <3>2. (d + 1) * M = d * M + 1 * M /\ d * M \in Nat /\ 1 * M = M
      BY <1>1, Multiples
    <3> QED BY <3>1, <3>2
  <2> DEFINE n == now.tv_usec
             k == to.tv_usec
             a == now.tv_sec * M
             b == (s - 1) * M
  <2>6. n \in Nat /\ k \in Nat /\ a \in Nat /\ b \in Nat /\ n < M
    BY <1>1, <1>4, <2>5
  <2>7. /\ Micros(TV_MINUS(to, now)) = b + (k + (MAX_USEC - n))
        /\ Micros(now) = a + n /\ Micros(to) = to.tv_sec * M + k
    BY <1>2, <2>2
  <2>8. to.tv_sec * M = a + (b + M)
    BY <1>4, <2>5
  <2> HIDE DEF n, k, a, b
  <2>9. b + (k + (MAX_USEC - n)) = (a + (b + M) + k) - (a + n) - 1
    BY <1>1, <2>6
  <2>10. Micros(TV_MINUS(to, now)) = Micros(to) - Micros(now) - 1
    BY <2>7, <2>8, <2>9
  <2> QED BY <1>6, <2>4, <2>10
<1> QED BY <1>5, <1>6

(* timer_start arms the interval timer, but in one case: it is called in the    *)
(* last microsecond of a second, for a deadline at the very start of the next.  *)
(* Then the interval is zero, which disarms the timer (timerlib.c:62): the      *)
(* second case of TimerStart, after which StallIsForGood holds.                 *)
THEOREM DisarmedByOneMicrosecond ==
  ASSUME NEW now \in timeval, NEW to \in timeval
  PROVE  Disarms(Interval(to, now)) <=>
           to.tv_sec = now.tv_sec + 1 /\ to.tv_usec = 0 /\ now.tv_usec = MAX_USEC
<1>1. /\ now.tv_sec \in Nat /\ now.tv_usec \in Nat /\ now.tv_usec <= MAX_USEC
      /\ to.tv_sec \in Nat /\ to.tv_usec \in Nat /\ to.tv_usec <= MAX_USEC
      /\ MAX_USEC \in Nat /\ MAX_USEC > 0
  BY Fields, Units
<1>2. CASE ~ TV_LESS_THAN(now, to)
  <2>1. Interval(to, now).tv_usec = ALMOST_NOW /\ ALMOST_NOW # 0
    BY <1>2 DEF Interval, ALMOST_NOW
  <2>2. ~ (to.tv_sec = now.tv_sec + 1)
    BY <1>1, <1>2 DEF TV_LESS_THAN
  <2> QED BY <2>1, <2>2 DEF Disarms
<1>3. CASE TV_LESS_THAN(now, to)
  <2>1. Interval(to, now) = TV_MINUS(to, now)
    BY <1>3 DEF Interval
  <2>2. CASE to.tv_usec >= now.tv_usec
    BY <1>1, <1>3, <2>1, <2>2 DEF TV_MINUS, TV_LESS_THAN, Disarms
  <2>3. CASE ~ (to.tv_usec >= now.tv_usec)
    <3>1. /\ Interval(to, now).tv_sec = to.tv_sec - now.tv_sec - 1
          /\ Interval(to, now).tv_usec = to.tv_usec + (MAX_USEC - now.tv_usec)
      BY <2>1, <2>3 DEF TV_MINUS
    <3>2. to.tv_usec + (MAX_USEC - now.tv_usec) = 0
            <=> to.tv_usec = 0 /\ now.tv_usec = MAX_USEC
      <4> DEFINE n == now.tv_usec
                 k == to.tv_usec
      <4>1. n \in Nat /\ k \in Nat /\ n <= MAX_USEC /\ MAX_USEC \in Nat
        BY <1>1
      <4> HIDE DEF n, k
      <4>2. k + (MAX_USEC - n) = 0 <=> k = 0 /\ n = MAX_USEC
        BY <4>1
      <4> QED BY <4>2 DEF n, k
    <3>3. to.tv_sec - now.tv_sec - 1 = 0 <=> to.tv_sec = now.tv_sec + 1
      BY <1>1
    <3> QED BY <3>1, <3>2, <3>3 DEF Disarms
  <2> QED BY <2>2, <2>3
<1> QED BY <1>2, <1>3
=============================================================================
