----------------------------- MODULE TimerProofs -----------------------------
(***************************************************************************)
(* Proofs about the timers and the message slots they deliver, for every   *)
(* size of the pools and of the task queue, every set of delays and every  *)
(* bound on the time.                                                      *)
(***************************************************************************)
EXTENDS Timer, SequenceTheorems, FiniteSetTheorems, TLAPS

-----------------------------------------------------------------------------
(* What the operators of the model return.                                 *)

LEMMA InsertAtProperties ==
  ASSUME NEW S, NEW s \in Seq(S), NEW i \in 1 .. Len(s) + 1, NEW e \in S
  PROVE  /\ InsertAt(s, i, e) \in Seq(S)
         /\ Len(InsertAt(s, i, e)) = Len(s) + 1
         /\ \A j \in 1 .. Len(s) + 1 :
              InsertAt(s, i, e)[j] =
                IF j < i THEN s[j] ELSE IF j = i THEN e ELSE s[j - 1]
  <1> DEFINE n == Len(s)
             a == SubSeq(s, 1, i - 1)
             c == SubSeq(s, i, n)
             ab == a \o <<e>>
             t == ab \o c
  <1>1. n \in Nat /\ (\A j \in 1 .. n : s[j] \in S) /\ i \in Nat /\ i <= n + 1
    BY ElementOfSeq, LenProperties
  <1>2. InsertAt(s, i, e) = t
    BY DEF InsertAt
  <1> HIDE DEF n
  <1>3. /\ a \in Seq(S) /\ Len(a) = i - 1
        /\ \A j \in 1 .. i - 1 : a[j] = s[j]
    BY <1>1, SubSeqProperties
  <1>4. /\ c \in Seq(S) /\ Len(c) = n - i + 1
        /\ \A j \in 1 .. n - i + 1 : c[j] = s[i + j - 1]
    BY <1>1, SubSeqProperties
  <1> HIDE DEF a, c
  <1>5. <<e>> \in Seq(S) /\ Len(<<e>>) = 1 /\ <<e>>[1] = e
    OBVIOUS
  <1>6. /\ ab \in Seq(S) /\ Len(ab) = i
        /\ \A j \in 1 .. i : ab[j] = IF j <= i - 1 THEN a[j] ELSE <<e>>[j - (i - 1)]
    BY <1>1, <1>3, <1>5, ConcatProperties
  <1>7. (\A j \in 1 .. i - 1 : ab[j] = s[j]) /\ ab[i] = e
    BY <1>1, <1>3, <1>5, <1>6
  <1> HIDE DEF ab
  <1>8. /\ t \in Seq(S) /\ Len(t) = n + 1
        /\ \A j \in 1 .. n + 1 : t[j] = IF j <= i THEN ab[j] ELSE c[j - i]
    <2>1. /\ t \in Seq(S) /\ Len(t) = Len(ab) + Len(c)
          /\ \A j \in 1 .. Len(ab) + Len(c) :
               t[j] = IF j <= Len(ab) THEN ab[j] ELSE c[j - Len(ab)]
      BY <1>4, <1>6, ConcatProperties
    <2>2. Len(ab) + Len(c) = n + 1
      BY <1>1, <1>4, <1>6
    <2> QED
      BY <1>6, <2>1, <2>2
  <1> HIDE DEF t
  <1>9. ASSUME NEW j \in 1 .. n + 1
        PROVE  t[j] = IF j < i THEN s[j] ELSE IF j = i THEN e ELSE s[j - 1]
    <2>1. CASE j <= i
      BY <1>1, <1>7, <1>8, <2>1
    <2>2. CASE j > i
      <3>1. j - i \in 1 .. n - i + 1 /\ i + (j - i) - 1 = j - 1
        BY <1>1, <2>2
      <3>2. t[j] = c[j - i]
        BY <1>1, <1>8, <2>2
      <3>3. c[j - i] = s[i + (j - i) - 1]
        BY <1>4, <3>1
      <3> QED
        BY <1>1, <2>2, <3>1, <3>2, <3>3
    <2> QED
      BY <1>1, <2>1, <2>2
  <1> QED
    BY <1>2, <1>8, <1>9 DEF n

(* A write of the timer leaves both registers in their range.              *)
LEMMA TimeoutType ==
  ASSUME now \in Nat, NEW ticks \in Int, core_timer_set_timeout_ticks(ticks)
  PROVE  now' \in Nat /\ cval' \in Nat
  <1>1. SignExtend(ticks) \in Int
    BY RangeAssumption DEF SignExtend
  <1>2. PICK late \in 0 .. MaxLatency :
          now' = now + late /\ cval' = (now' + SignExtend(ticks)) % CounterRange
    BY DEF core_timer_set_timeout_ticks
  <1>3. now' \in Nat
    BY <1>2, TimeAssumption
  <1>4. now' + SignExtend(ticks) \in Int
    BY <1>1, <1>3
  <1> QED
    BY <1>2, <1>3, <1>4, RangeAssumption

(* add_timer's loop, on a sorted queue, finds a place between the events   *)
(* that are not later and those that are not earlier.                      *)
LEMMA PositionProperties ==
  ASSUME TypeOK, QueueSorted, NEW t \in Nat,
         NEW at \in 1 .. Len(timer_queue) + 1, Position(at, t)
  PROVE  /\ \A i \in 1 .. Len(timer_queue) :
              i < at => expire_time(timer_queue[i]) <= t
         /\ \A i \in 1 .. Len(timer_queue) :
              i >= at => t <= expire_time(timer_queue[i])
  <1> DEFINE n == Len(timer_queue)
             x(i) == expire_time(timer_queue[i])
  <1>1. n \in Nat /\ \A i \in 1 .. n : x(i) \in Nat
    BY ElementOfSeq, LenProperties DEF TypeOK, expire_time
  <1>2. \A i, j \in 1 .. n : i < j => x(i) <= x(j)
    BY DEF QueueSorted
  <1>3. timer_queue = <<>> <=> n = 0
    BY EmptySeq DEF TypeOK
  <1>4. CASE Earliest(t)
    <2>1. at = 1 /\ (n # 0 => t < x(1))
      BY <1>3, <1>4 DEF Position, Earliest
    <2> HIDE DEF n, x
    <2> QED
      BY <1>1, <1>2, <2>1 DEF n, x
  <1>5. CASE ~Earliest(t)
    <2>1. /\ n # 0 /\ ~(t < x(1)) /\ at > 1
          /\ at - 1 < n => x((at - 1) + 1) >= t
          /\ \A i \in 1 .. at - 2 : i < n /\ ~(x(i + 1) >= t)
      BY <1>3, <1>5 DEF Position, Earliest
    <2> HIDE DEF n, x
    <2>2. ASSUME NEW i \in 1 .. n, i < at
          PROVE  x(i) <= t
      <3>1. CASE i = 1
        BY <1>1, <2>1, <3>1
      <3>2. CASE i > 1
        <4>1. i - 1 \in 1 .. at - 2 /\ (i - 1) + 1 = i
          BY <1>1, <2>2, <3>2
        <4>2. ~(x((i - 1) + 1) >= t)
          BY <2>1, <4>1
        <4>3. x((i - 1) + 1) = x(i)
          BY <4>1
        <4> QED
          BY <1>1, <4>2, <4>3
      <3> QED
        BY <3>1, <3>2
    <2>3. ASSUME NEW i \in 1 .. n, i >= at
          PROVE  t <= x(i)
      <3>1. at \in 1 .. n /\ x(at) >= t
        BY <1>1, <2>1, <2>3 DEF n
      <3> QED
        BY <1>1, <1>2, <2>3, <3>1
    <2> QED
      BY <2>2, <2>3 DEF n, x
  <1> QED
    BY <1>4, <1>5

-----------------------------------------------------------------------------
(* The pool of timers and its queue.                                       *)

PoolInv ==
  /\ timer_pool \in [Event -> [expire_time : Nat, data : Task]]
  /\ timer_pool_used \in [Event -> BOOLEAN]
  /\ timer_queue \in Seq(Event)
  /\ SlotsAreQueued
  /\ QueueSorted

LEMMA AddEventKeepsPool ==
  ASSUME TypeOK, PoolInv, NEW e \in Event,
         NEW at \in 1 .. Len(timer_queue) + 1,
         NEW expire \in Nat, NEW data \in Task, AddEvent(e, at, expire, data)
  PROVE  PoolInv'
  <1> DEFINE q == timer_queue  n == Len(timer_queue)
  <1>1. /\ timer_pool' \in [Event -> [expire_time : Nat, data : Task]]
        /\ timer_pool_used' \in [Event -> BOOLEAN]
        /\ ~timer_pool_used[e]
    BY DEF AddEvent, FirstFree, PoolInv
  <1>2. /\ timer_queue' \in Seq(Event)
        /\ Len(timer_queue') = n + 1
        /\ \A j \in 1 .. n + 1 :
             timer_queue'[j] = IF j < at THEN q[j] ELSE IF j = at THEN e ELSE q[j - 1]
    <2>1. /\ timer_queue' = InsertAt(q, at, e)
          /\ q \in Seq(Event) /\ at \in 1 .. Len(q) + 1
      BY DEF AddEvent, PoolInv
    <2> HIDE DEF q
    <2>2. /\ InsertAt(q, at, e) \in Seq(Event)
          /\ Len(InsertAt(q, at, e)) = Len(q) + 1
          /\ \A j \in 1 .. Len(q) + 1 : InsertAt(q, at, e)[j] =
               IF j < at THEN q[j] ELSE IF j = at THEN e ELSE q[j - 1]
      BY <2>1, InsertAtProperties, SMTT(60)
    <2> QED
      BY <2>1, <2>2 DEF q
  <1>3. n \in Nat /\ \A i \in 1 .. n : q[i] \in Event
    BY ElementOfSeq, LenProperties DEF PoolInv
  <1>4. \A i \in 1 .. n : q[i] # e
    BY <1>1 DEF PoolInv, SlotsAreQueued
  <1>5. /\ timer_pool'[e].expire_time = expire
        /\ \A f \in Event :
             f # e => timer_pool'[f].expire_time = expire_time(f)
    BY DEF AddEvent, PoolInv, expire_time
  <1>6. /\ \A i \in 1 .. n : i < at => expire_time(q[i]) <= expire
        /\ \A i \in 1 .. n : i >= at => expire <= expire_time(q[i])
    BY PositionProperties DEF AddEvent, PoolInv
  <1> DEFINE r == timer_queue'
  <1> HIDE DEF q, n, r
  <1>7. SlotsAreQueued'
    <2>1. ASSUME NEW i \in 1 .. n + 1, NEW j \in 1 .. n + 1, r[i] = r[j]
          PROVE  i = j
      <3>1. \A k, l \in 1 .. n : q[k] = q[l] => k = l
        BY DEF PoolInv, SlotsAreQueued, q, n
      <3>2. CASE i = at \/ j = at
        BY <1>2, <1>3, <1>4, <2>1, <3>2 DEF r
      <3>3. CASE i # at /\ j # at
        <4> DEFINE k == IF i < at THEN i ELSE i - 1
                   l == IF j < at THEN j ELSE j - 1
        <4>1. k \in 1 .. n /\ l \in 1 .. n
          BY <1>3, <3>3 DEF n, q
        <4>2. r[i] = q[k] /\ r[j] = q[l]
          BY <1>2, <3>3 DEF r
        <4>3. k = l
          BY <2>1, <3>1, <4>1, <4>2
        <4> QED
          BY <1>3, <3>3, <4>3 DEF n
      <3> QED
        BY <3>2, <3>3
    <2>2. ASSUME NEW f \in Event
          PROVE  timer_pool_used'[f] <=> \E i \in 1 .. n + 1 : r[i] = f
      <3>1. CASE f = e
        <4>1. timer_pool_used'[e]
          BY DEF AddEvent, PoolInv
        <4>2. at \in 1 .. n + 1
          BY DEF n
        <4>3. r[at] = e
          BY <1>2, <1>3, <4>2 DEF r
        <4> QED
          BY <3>1, <4>1, <4>2, <4>3
      <3>2. CASE f # e
        <4>1. timer_pool_used'[f] <=> \E i \in 1 .. n : q[i] = f
          BY <3>2 DEF AddEvent, PoolInv, SlotsAreQueued, q, n
        <4>2. ASSUME NEW i \in 1 .. n, q[i] = f
              PROVE  \E j \in 1 .. n + 1 : r[j] = f
          <5>1. CASE i < at
            <6>1. i \in 1 .. n + 1 /\ r[i] = q[i]
              BY <1>2, <1>3, <5>1 DEF r
            <6> QED
              BY <4>2, <6>1
          <5>2. CASE i >= at
            <6>1. i + 1 \in 1 .. n + 1 /\ ~(i + 1 < at) /\ i + 1 # at
                  /\ (i + 1) - 1 = i
              BY <1>3, <5>2
            <6>2. r[i + 1] = q[i]
              BY <1>2, <6>1 DEF r
            <6> QED
              BY <4>2, <6>1, <6>2
          <5> QED
            BY <1>3, <5>1, <5>2
        <4>3. ASSUME NEW j \in 1 .. n + 1, r[j] = f
              PROVE  \E i \in 1 .. n : q[i] = f
          <5>1. j # at
            BY <1>2, <3>2, <4>3 DEF r
          <5>2. CASE j < at
            <6>1. j \in 1 .. n /\ r[j] = q[j]
              BY <1>2, <1>3, <5>2 DEF r, n, q
            <6> QED
              BY <4>3, <6>1
          <5>3. CASE j > at
            <6>1. j - 1 \in 1 .. n /\ r[j] = q[j - 1]
              BY <1>2, <1>3, <5>3 DEF r, n, q
            <6> QED
              BY <4>3, <6>1
          <5> QED
            BY <1>3, <5>1, <5>2, <5>3
        <4> QED
          BY <4>1, <4>2, <4>3
      <3> QED
        BY <3>1, <3>2
    <2> QED
      BY <1>2, <2>1, <2>2 DEF SlotsAreQueued, r
  <1>8. QueueSorted'
    <2>1. ASSUME NEW i \in 1 .. n + 1, NEW j \in 1 .. n + 1, i < j
          PROVE  timer_pool'[r[i]].expire_time <= timer_pool'[r[j]].expire_time
      <3>1. \A k, l \in 1 .. n : k < l => expire_time(q[k]) <= expire_time(q[l])
        BY DEF PoolInv, QueueSorted, q, n
      <3>2. \A k \in 1 .. n : timer_pool'[q[k]].expire_time = expire_time(q[k])
        BY <1>3, <1>4, <1>5
      <3>3. CASE i = at
        <4>1. r[i] = e /\ j - 1 \in 1 .. n /\ j - 1 >= at /\ r[j] = q[j - 1]
          BY <1>2, <1>3, <2>1, <3>3 DEF r
        <4> QED
          BY <1>5, <1>6, <3>2, <4>1
      <3>4. CASE j = at
        <4>1. r[j] = e /\ i \in 1 .. n /\ i < at /\ r[i] = q[i]
          BY <1>2, <1>3, <2>1, <3>4 DEF r, n, q
        <4> QED
          BY <1>5, <1>6, <3>2, <4>1
      <3>5. CASE i # at /\ j # at
        <4> DEFINE k == IF i < at THEN i ELSE i - 1
                   l == IF j < at THEN j ELSE j - 1
        <4>1. k \in 1 .. n /\ l \in 1 .. n /\ k < l
          BY <1>3, <2>1, <3>5 DEF n, q
        <4>2. r[i] = q[k] /\ r[j] = q[l]
          BY <1>2, <3>5 DEF r
        <4> HIDE DEF k, l
        <4> QED
          BY <3>1, <3>2, <4>1, <4>2
      <3> QED
        BY <3>3, <3>4, <3>5
    <2> QED
      BY <1>2, <2>1 DEF QueueSorted, expire_time, r
  <1> QED
    BY <1>1, <1>2, <1>7, <1>8 DEF PoolInv, r

LEMMA ExpireKeepsPool ==
  ASSUME PoolInv, ExpireEvent
  PROVE  PoolInv'
  <1> DEFINE q == timer_queue  n == Len(timer_queue)  r == timer_queue'
  <1>1. /\ q \in Seq(Event) /\ q # <<>> /\ r = Tail(q)
        /\ timer_pool' = timer_pool
        /\ timer_pool_used' = [timer_pool_used EXCEPT ![q[1]] = FALSE]
    BY DEF PoolInv, ExpireEvent, Expired
  <1>2. /\ n \in Nat /\ n >= 1
        /\ \A i \in 1 .. n : q[i] \in Event
    BY <1>1, ElementOfSeq, LenProperties, EmptySeq
  <1>3. /\ r \in Seq(Event) /\ Len(r) = n - 1
        /\ \A i \in 1 .. n - 1 : r[i] = q[i + 1]
    BY <1>1, HeadTailProperties
  <1>4. /\ \A i, j \in 1 .. n : q[i] = q[j] => i = j
        /\ \A i, j \in 1 .. n : i < j => expire_time(q[i]) <= expire_time(q[j])
        /\ \A f \in Event : timer_pool_used[f] <=> \E i \in 1 .. n : q[i] = f
        /\ timer_pool_used \in [Event -> BOOLEAN]
    BY DEF PoolInv, SlotsAreQueued, QueueSorted
  <1>5. timer_pool_used' \in [Event -> BOOLEAN]
    BY <1>1, <1>4
  <1> HIDE DEF q, n, r
  <1>6. \A i, j \in 1 .. n - 1 : r[i] = r[j] => i = j
    BY <1>2, <1>3, <1>4, SMTT(60)
  <1>7. \A i, j \in 1 .. n - 1 : i < j => expire_time(r[i]) <= expire_time(r[j])
    BY <1>2, <1>3, <1>4
  <1>8. ASSUME NEW f \in Event
        PROVE  timer_pool_used'[f] <=> \E i \in 1 .. n - 1 : r[i] = f
    <2>1. CASE f = q[1]
      <3>1. ~timer_pool_used'[f]
        BY <1>1, <1>4, <2>1
      <3>2. \A i \in 1 .. n - 1 : r[i] # q[1]
        BY <1>2, <1>3, <1>4
      <3> QED
        BY <2>1, <3>1, <3>2
    <2>2. CASE f # q[1]
      <3>1. timer_pool_used'[f] <=> \E i \in 1 .. n : q[i] = f
        BY <1>1, <1>4, <2>2
      <3>2. ASSUME NEW i \in 1 .. n, q[i] = f
            PROVE  \E j \in 1 .. n - 1 : r[j] = f
        <4>1. i - 1 \in 1 .. n - 1 /\ (i - 1) + 1 = i
          BY <1>2, <2>2, <3>2
        <4>2. r[i - 1] = q[(i - 1) + 1]
          BY <1>3, <4>1
        <4> QED
          BY <3>2, <4>1, <4>2
      <3>3. ASSUME NEW j \in 1 .. n - 1, r[j] = f
            PROVE  \E i \in 1 .. n : q[i] = f
        BY <1>2, <1>3, <3>3
      <3> QED
        BY <3>1, <3>2, <3>3
    <2> QED
      BY <2>1, <2>2
  <1>9. SlotsAreQueued'
    BY <1>3, <1>6, <1>8 DEF SlotsAreQueued, r
  <1>10. QueueSorted'
    BY <1>1, <1>3, <1>7 DEF QueueSorted, expire_time, r
  <1> QED
    BY <1>1, <1>3, <1>5, <1>9, <1>10 DEF PoolInv, r

-----------------------------------------------------------------------------
(* The inductive invariant: the types, and the pool with its queue.        *)

IInv == TypeOK /\ PoolInv

LEMMA AddTimerStep ==
  ASSUME IInv, NEW data \in Task, NEW secs \in Nat, add_timer(data, secs)
  PROVE  PoolInv' /\ now' \in Nat /\ cval' \in Nat /\ irq_masked' \in BOOLEAN
  <1>1. now \in Nat /\ cval \in Nat /\ timer_queue \in Seq(Event)
    BY DEF IInv, TypeOK
  <1>2. CASE NoTimerSlot
    BY <1>1, <1>2 DEF NoTimerSlot, pool, clock, IInv, PoolInv, SlotsAreQueued,
                      QueueSorted, expire_time
  <1>3. CASE QueueTimer(data, secs)
    <2> DEFINE expire == now + secs * FRQ
    <2>1. expire \in Nat /\ expire - now \in Int
      BY <1>1, TimeAssumption
    <2> HIDE DEF expire
    <2>2. PICK e \in Event, at \in 1 .. Len(timer_queue) + 1 :
            /\ AddEvent(e, at, expire, data)
            /\ IF at = 1 THEN core_timer_set_timeout_ticks(expire - now)
                         ELSE UNCHANGED clock
      BY <1>3 DEF QueueTimer, expire
    <2>3. PoolInv'
      BY <2>1, <2>2, AddEventKeepsPool DEF IInv
    <2>4. now' \in Nat /\ cval' \in Nat
      BY <1>1, <2>1, <2>2, TimeoutType DEF clock
    <2>5. irq_masked' = FALSE
      BY <1>3 DEF QueueTimer
    <2> QED
      BY <2>3, <2>4, <2>5
  <1> QED
    BY <1>2, <1>3 DEF add_timer

LEMMA PoolUnchanged ==
  ASSUME PoolInv, UNCHANGED pool
  PROVE  PoolInv'
  BY DEF PoolInv, pool, SlotsAreQueued, QueueSorted, expire_time

LEMMA ShellStep ==
  ASSUME IInv,
         alloc_msg_slot \/ set_message_timer \/ set_btime_timer \/ LoadProgram
  PROVE  IInv'
  <1> USE DEF IInv
  <1>1. CASE alloc_msg_slot
    <2>1. PICK m \in Msg :
            msg_slot' = m /\ msg_pool_used' = [msg_pool_used EXCEPT ![m] = TRUE]
      BY <1>1 DEF alloc_msg_slot
    <2>2. PoolInv'
      BY <1>1, PoolUnchanged DEF alloc_msg_slot
    <2> QED
      BY <1>1, <2>1, <2>2
      DEF alloc_msg_slot, TypeOK, pool, tasks, clock, Main, Task
  <1>2. CASE set_message_timer
    <2>1. PICK secs \in Delays : add_timer(msg_slot, secs)
      BY <1>2 DEF set_message_timer
    <2>2. secs \in Nat /\ msg_slot \in Task
      BY TimeAssumption DEF TypeOK
    <2>3. PoolInv' /\ now' \in Nat /\ cval' \in Nat /\ irq_masked' \in BOOLEAN
      BY <2>1, <2>2, AddTimerStep
    <2> QED
      BY <1>2, <2>3 DEF set_message_timer, PoolInv, TypeOK, tasks, Main, Task
  <1>3. CASE set_btime_timer
    <2>1. PoolInv' /\ now' \in Nat /\ cval' \in Nat /\ irq_masked' \in BOOLEAN
      BY <1>3, AddTimerStep DEF set_btime_timer, Task
    <2> QED
      BY <1>3, <2>1 DEF set_btime_timer, PoolInv, TypeOK, tasks, Main
  <1>4. CASE LoadProgram
    <2>1. PoolInv'
      BY <1>4, PoolUnchanged DEF LoadProgram
    <2> QED
      BY <1>4, <2>1 DEF LoadProgram, TypeOK, pool, tasks, clock, Main
  <1> QED
    BY <1>1, <1>2, <1>3, <1>4

LEMMA DispatcherStep ==
  ASSUME IInv, dispatcher
  PROVE  IInv'
  <1> USE DEF IInv
  <1>1. PoolInv'
    BY PoolUnchanged DEF dispatcher, TakeTask, print_msg_callback, print_boot_time
  <1>2. CASE TakeTask
    <2>1. /\ Head(waiting) \in Task /\ Tail(waiting) \in Seq(Task)
          /\ Len(Tail(waiting)) = Len(waiting) - 1 /\ Len(waiting) \in Nat
      BY <1>2, HeadTailProperties, LenProperties DEF TakeTask, TypeOK
    <2>2. Len(waiting) < TASK_QUEUE_SIZE
      BY DEF TypeOK
    <2>3. waiting' \in Seq(Task) /\ Len(waiting') < TASK_QUEUE_SIZE
      BY <1>2, <2>1, <2>2, QueueAssumption DEF TakeTask
    <2>4. running' \in Seq(Task) /\ Len(running') <= 1
      BY <1>2, <2>1 DEF TakeTask
    <2> QED
      BY <1>1, <1>2, <2>3, <2>4 DEF TakeTask, TypeOK, pool, clock
  <1>0. <<>> \in Seq(Task) /\ Len(<<>>) = 0
    BY EmptySeq
  <1>3. CASE print_msg_callback
    <2>1. msg_pool_used' \in [Msg -> BOOLEAN]
      BY <1>3 DEF print_msg_callback, TypeOK
    <2>2. /\ UNCHANGED <<pool, waiting, pc, msg_slot, irq_masked, clock,
                        cur_ticks>>
          /\ running' = <<>>
      BY <1>3 DEF print_msg_callback
    <2> QED
      BY <1>0, <1>1, <2>1, <2>2 DEF TypeOK, pool, clock
  <1>4. CASE print_boot_time
    BY <1>0, <1>1, <1>4 DEF print_boot_time, TypeOK, pool, clock
  <1> QED
    BY <1>2, <1>3, <1>4 DEF dispatcher

LEMMA InterruptStep ==
  ASSUME IInv, TimerIrq \/ ExpireEvent \/ Rearm \/ DispatchDone
  PROVE  IInv'
  <1> USE DEF IInv
  <1>1. CASE TimerIrq
    <2>1. PoolInv'
      BY <1>1, PoolUnchanged DEF TimerIrq
    <2> QED
      BY <1>1, <2>1 DEF TimerIrq, TypeOK, pool, tasks, clock
  <1>2. CASE ExpireEvent
    <2>1. PoolInv'
      BY <1>2, ExpireKeepsPool
    <2>2. timer_pool[timer_queue[1]].data \in Task
      <3>1. timer_queue[1] \in Event
        BY <1>2, ElementOfSeq, LenProperties, EmptySeq
        DEF ExpireEvent, Expired, TypeOK
      <3> QED
        BY <3>1 DEF TypeOK
    <2>3. waiting' \in Seq(Task) /\ Len(waiting') < TASK_QUEUE_SIZE
      BY <1>2, <2>2, LenProperties, AppendProperties, QueueAssumption
      DEF ExpireEvent, enqueue_task, TypeOK
    <2> QED
      BY <1>2, <2>1, <2>3 DEF ExpireEvent, PoolInv, TypeOK, clock
  <1>3. CASE Rearm
    <2>1. PoolInv'
      BY <1>3, PoolUnchanged DEF Rearm
    <2>2. now' \in Nat /\ cval' \in Nat
      <3>1. timer_queue # <<>> => timer_queue[1] \in Event
        BY ElementOfSeq, LenProperties, EmptySeq DEF TypeOK
      <3>2. timer_queue # <<>> => expire_time(timer_queue[1]) - cur_ticks \in Int
        BY <3>1 DEF TypeOK, expire_time
      <3>3. now \in Nat /\ FRQ * 1 \in Int
        BY TimeAssumption DEF TypeOK
      <3> QED
        BY <1>3, <3>2, <3>3, TimeoutType
        DEF Rearm, SetNextTimeout, core_timer_set_timeout
    <2> QED
      BY <1>3, <2>1, <2>2 DEF Rearm, TypeOK, pool, tasks
  <1>4. CASE DispatchDone
    <2>1. PoolInv'
      BY <1>4, PoolUnchanged DEF DispatchDone
    <2> QED
      BY <1>4, <2>1 DEF DispatchDone, TypeOK, pool, tasks, clock
  <1> QED
    BY <1>1, <1>2, <1>3, <1>4

LEMMA InitIInv ==
  ASSUME Init
  PROVE  IInv
  <1>1. /\ <<>> \in Seq(Event) /\ <<>> \in Seq(Task)
        /\ Len(<<>>) = 0 /\ 1 .. 0 = {}
    BY EmptySeq
  <1>2. TypeOK
    <2>1. /\ timer_pool \in [Event -> [expire_time : Nat, data : Task]]
          /\ timer_pool_used \in [Event -> BOOLEAN]
          /\ msg_pool_used \in [Msg -> BOOLEAN]
          /\ msg_slot \in Task
      BY DEF Init, Task
    <2>2. /\ timer_queue = <<>> /\ waiting = <<>> /\ running = <<>>
          /\ pc = [main |-> "shell", irq |-> "off"] /\ irq_masked = FALSE
          /\ now = 0 /\ cval = FRQ /\ cur_ticks = 0
      BY DEF Init
    <2>3. Len(waiting) < TASK_QUEUE_SIZE /\ Len(running) <= 1
      BY <1>1, <2>2, QueueAssumption
    <2> QED
      BY <1>1, <2>1, <2>2, <2>3, TimeAssumption DEF TypeOK
  <1>3. SlotsAreQueued /\ QueueSorted
    BY <1>1 DEF Init, SlotsAreQueued, QueueSorted
  <1> QED
    BY <1>2, <1>3 DEF IInv, PoolInv, TypeOK

(* The strengthened invariant holds in every reachable state: types, marks *)
(* of the event pool and order of the queue.                               *)
THEOREM Inductive == Spec => []IInv
  <1>1. Init => IInv
    BY InitIInv
  <1>2. IInv /\ [Next]_vars => IInv'
    <2>1. ASSUME IInv, Tick
          PROVE  IInv'
      <3>1. PoolInv'
        BY <2>1, PoolUnchanged DEF Tick, IInv
      <3> QED
        BY <2>1, <3>1 DEF Tick, IInv, TypeOK, pool, tasks
    <2>2. ASSUME IInv, UNCHANGED vars
          PROVE  IInv'
      <3>1. PoolInv'
        BY <2>2, PoolUnchanged DEF vars, IInv
      <3> QED
        BY <2>2, <3>1 DEF vars, IInv, TypeOK, pool, tasks, clock
    <2> QED
      BY <2>1, <2>2, ShellStep, DispatcherStep, InterruptStep DEF Next
  <1> QED
    BY <1>1, <1>2, PTL DEF Spec

(* Types: the registers of the core timer stay in range, the ring of tasks *)
(* is never longer than it can be, and no index leaves its pool.           *)
THEOREM TypeCorrect == Spec => []TypeOK
  BY Inductive, PTL DEF IInv

(* The marks of timer_pool are exact: the events marked as used are those  *)
(* in the queue, each once.  add_timer never reuses a queued slot, and the *)
(* handler gives every expired one back.                                   *)
THEOREM PoolExact == Spec => []SlotsAreQueued
  <1>1. IInv => SlotsAreQueued
    BY DEF IInv, PoolInv
  <1> QED
    BY <1>1, Inductive, PTL

(* The queue stays sorted by expiry time, whatever the order of requests   *)
(* and expiries.                                                           *)
THEOREM Sorted == Spec => []QueueSorted
  <1>1. IInv => QueueSorted
    BY DEF IInv, PoolInv
  <1> QED
    BY <1>1, Inductive, PTL

(* Both: every pending event is queued once, the earliest first.           *)
THEOREM QueueAlwaysExact == Spec => []QueueExact
  BY PoolExact, Sorted, PTL DEF QueueExact

-----------------------------------------------------------------------------
(* The message slots: the four kinds of holders of a message.              *)
EventHolds(e, m) == timer_pool_used[e] /\ timer_pool[e].data = m
HasEvent(m) == \E e \in Event : EventHolds(e, m)
HasTask(m) == \E i \in 1 .. Len(waiting) : waiting[i] = m
HasCallback(m) == running = <<m>>
HasShell(m) == msg_slot = m

Held(m) == HasEvent(m) \/ HasTask(m) \/ HasCallback(m) \/ HasShell(m)

OneEvent(m) ==
  \A e, f \in Event : EventHolds(e, m) /\ EventHolds(f, m) => e = f

OneTask(m) ==
  \A i, j \in 1 .. Len(waiting) : waiting[i] = m /\ waiting[j] = m => i = j

OneKind(m) ==
  /\ HasEvent(m) => ~HasTask(m) /\ ~HasCallback(m) /\ ~HasShell(m)
  /\ HasTask(m) => ~HasCallback(m) /\ ~HasShell(m)
  /\ HasCallback(m) => ~HasShell(m)

HeldOnce(m) ==
  /\ OneEvent(m) /\ OneTask(m) /\ OneKind(m)
  /\ Held(m) => msg_pool_used[m]

(* Between two commands the shell holds none.                              *)
ShellFree == pc.main # "message" => msg_slot = NULL

MsgInv == ShellFree /\ \A m \in Msg : HeldOnce(m)

LEMMA HoldersAreHeld ==
  ASSUME NEW m \in Msg
  PROVE  Holders(m) # {} <=> Held(m)
  BY DEF Holders, Held, HasEvent, HasTask, HasCallback, HasShell, EventHolds

LEMMA HeldOnceCardinality ==
  ASSUME NEW m \in Msg, HeldOnce(m)
  PROVE  Cardinality(Holders(m)) <= 1
  <1>1. \A h, g \in Holders(m) : h = g
    BY DEF Holders, HeldOnce, OneEvent, OneTask, OneKind, HasEvent, HasTask,
           HasCallback, HasShell, EventHolds
  <1>2. CASE Holders(m) = {}
    BY <1>2, FS_EmptySet
  <1>3. CASE Holders(m) # {}
    <2>1. PICK h : h \in Holders(m)
      BY <1>3
    <2>2. Holders(m) = {h}
      BY <1>1, <2>1
    <2> QED
      BY <2>2, FS_Singleton
  <1> QED
    BY <1>2, <1>3

-----------------------------------------------------------------------------
(* What each step does to the holders.                                     *)

LEMMA SameHolders ==
  ASSUME NEW m \in Msg, HeldOnce(m),
         UNCHANGED <<timer_pool, timer_pool_used, waiting, running, msg_slot,
                     msg_pool_used>>
  PROVE  HeldOnce(m)'
  BY DEF HeldOnce, OneEvent, OneTask, OneKind, Held, HasEvent, HasTask,
         HasCallback, HasShell, EventHolds

\* The shell lets go of its message without passing it on.
LEMMA ShellDrops ==
  ASSUME NEW m \in Msg, HeldOnce(m), msg_slot' = NULL,
         UNCHANGED <<timer_pool, timer_pool_used, waiting, running, msg_pool_used>>
  PROVE  HeldOnce(m)'
  BY DEF HeldOnce, OneEvent, OneTask, OneKind, Held, HasEvent, HasTask,
         HasCallback, HasShell, EventHolds, NULL, Msg

LEMMA AllocHolders ==
  ASSUME TypeOK, NEW m \in Msg, HeldOnce(m), alloc_msg_slot
  PROVE  HeldOnce(m)'
  <1>1. PICK n \in Msg :
          /\ ~msg_pool_used[n] /\ msg_slot' = n
          /\ msg_pool_used' = [msg_pool_used EXCEPT ![n] = TRUE]
    BY DEF alloc_msg_slot, FirstFree
  <1>2. UNCHANGED <<timer_pool, timer_pool_used, waiting, running>>
    BY DEF alloc_msg_slot, pool, tasks
  <1>3. CASE m = n
    <2>1. ~Held(m)
      BY <1>1, <1>3 DEF HeldOnce
    <2>2. msg_pool_used'[m]
      BY <1>1, <1>3 DEF TypeOK
    <2> QED
      BY <1>2, <2>1, <2>2
      DEF HeldOnce, OneEvent, OneTask, OneKind, Held, HasEvent, HasTask,
          HasCallback, HasShell, EventHolds
  <1>4. CASE m # n
    <2>1. msg_pool_used'[m] = msg_pool_used[m] /\ msg_slot' # m
      BY <1>1, <1>4 DEF TypeOK
    <2> QED
      BY <1>2, <2>1
      DEF HeldOnce, OneEvent, OneTask, OneKind, Held, HasEvent, HasTask,
          HasCallback, HasShell, EventHolds
  <1> QED
    BY <1>3, <1>4

\* An unused event takes over what the shell holds, or no message.
LEMMA EventTakesOver ==
  ASSUME TypeOK, NEW m \in Msg, HeldOnce(m), msg_slot' = NULL,
         NEW e \in Event, NEW at \in 1 .. Len(timer_queue) + 1, NEW t,
         AddEvent(e, at, t, msg_slot),
         UNCHANGED <<waiting, running, msg_pool_used>>
  PROVE  HeldOnce(m)' /\ (Held(m) => Held(m)')
  <1>1. ~timer_pool_used[e]
    BY DEF AddEvent, FirstFree
  <1>2. /\ timer_pool_used'[e] /\ timer_pool'[e].data = msg_slot
        /\ \A f \in Event : f # e => /\ timer_pool_used'[f] = timer_pool_used[f]
                                     /\ timer_pool'[f] = timer_pool[f]
    BY DEF AddEvent, TypeOK
  <1>3. \A f \in Event : EventHolds(f, m)' <=> EventHolds(f, m) \/ (f = e /\ HasShell(m))
    BY <1>1, <1>2 DEF EventHolds, HasShell
  <1>4. HasEvent(m)' <=> HasEvent(m) \/ HasShell(m)
    BY <1>3 DEF HasEvent
  <1>5. ~HasShell(m)'
    BY DEF HasShell, NULL, Msg
  <1>6. /\ (HasTask(m)' <=> HasTask(m)) /\ (HasCallback(m)' <=> HasCallback(m))
        /\ (OneTask(m)' <=> OneTask(m))
    BY DEF HasTask, HasCallback, OneTask
  <1>7. OneEvent(m)'
    <2>1. HasShell(m) => \A f \in Event : ~EventHolds(f, m)
      BY DEF HeldOnce, OneKind, HasEvent
    <2> QED
      BY <1>3, <2>1 DEF HeldOnce, OneEvent
  <1>8. OneKind(m)' /\ (Held(m)' <=> Held(m))
    BY <1>4, <1>5, <1>6 DEF HeldOnce, OneKind, Held
  <1> QED
    BY <1>6, <1>7, <1>8 DEF HeldOnce

LEMMA TakeTaskHolders ==
  ASSUME TypeOK, NEW m \in Msg, HeldOnce(m), TakeTask
  PROVE  HeldOnce(m)' /\ (Held(m) => Held(m)')
  <1> DEFINE n == Len(waiting)
  <1>1. /\ n \in Nat /\ n >= 1 /\ Len(waiting') = n - 1
        /\ \A i \in 1 .. n - 1 : waiting'[i] = waiting[i + 1]
        /\ running = <<>> /\ running' = <<waiting[1]>>
        /\ UNCHANGED <<timer_pool, timer_pool_used, msg_slot, msg_pool_used>>
    BY HeadTailProperties, LenProperties, EmptySeq DEF TakeTask, TypeOK, pool
  <1> HIDE DEF n
  <1>2. HasCallback(m)' <=> waiting[1] = m
    BY <1>1 DEF HasCallback
  <1>3. ~HasCallback(m)
    BY <1>1 DEF HasCallback
  <1>4. HasTask(m)' <=> \E i \in 2 .. n : waiting[i] = m
    <2>1. ASSUME NEW i \in 2 .. n, waiting[i] = m
          PROVE  HasTask(m)'
      <3>1. i - 1 \in 1 .. n - 1 /\ (i - 1) + 1 = i
        BY <1>1, <2>1
      <3> QED
        BY <1>1, <2>1, <3>1 DEF HasTask
    <2>2. ASSUME NEW i \in 1 .. n - 1, waiting'[i] = m
          PROVE  \E j \in 2 .. n : waiting[j] = m
      <3>1. i + 1 \in 2 .. n
        BY <1>1
      <3> QED
        BY <1>1, <2>2, <3>1
    <2> QED
      BY <1>1, <2>1, <2>2 DEF HasTask
  <1>5. HasTask(m) <=> (\E i \in 2 .. n : waiting[i] = m) \/ waiting[1] = m
    BY <1>1 DEF HasTask, n
  <1>6. waiting[1] = m => ~\E i \in 2 .. n : waiting[i] = m
    BY <1>1 DEF HeldOnce, OneTask, n
  <1>7. OneTask(m)'
    <2>1. ASSUME NEW i \in 1 .. n - 1, NEW j \in 1 .. n - 1,
                 waiting'[i] = m, waiting'[j] = m
          PROVE  i = j
      <3>1. i + 1 \in 1 .. n /\ j + 1 \in 1 .. n
        BY <1>1
      <3>2. i + 1 = j + 1
        BY <1>1, <2>1, <3>1 DEF HeldOnce, OneTask, n
      <3> QED
        BY <3>2
    <2> QED
      BY <1>1, <2>1 DEF OneTask
  <1>8. /\ (HasEvent(m)' <=> HasEvent(m)) /\ (OneEvent(m)' <=> OneEvent(m))
        /\ (HasShell(m)' <=> HasShell(m))
    BY <1>1 DEF HasEvent, OneEvent, EventHolds, HasShell
  <1>9. OneKind(m)' /\ (Held(m)' <=> Held(m))
    BY <1>2, <1>3, <1>4, <1>5, <1>6, <1>8 DEF HeldOnce, OneKind, Held
  <1> QED
    BY <1>1, <1>7, <1>8, <1>9 DEF HeldOnce

\* The callback that runs, when it is not print_boot_time's.
LEMMA RunningMessage ==
  ASSUME TypeOK, running # <<>>, running # <<NULL>>
  PROVE  running[1] \in Msg /\ running = <<running[1]>>
  <1>0. running \in Seq(Task) /\ Len(running) <= 1
    BY DEF TypeOK
  <1>1. Len(running) = 1
    <2> DEFINE n == Len(running)
    <2>1. n \in Nat \ {0} /\ n <= 1
      BY <1>0, EmptySeq
    <2> HIDE DEF n
    <2>2. n = 1
      BY <2>1
    <2> QED
      BY <2>2 DEF n
  <1>2. running[1] \in Task
    BY <1>1, ElementOfSeq DEF TypeOK
  <1>3. running = <<running[1]>>
    BY <1>1, LenProperties DEF TypeOK
  <1> QED
    BY <1>2, <1>3 DEF Task

LEMMA CallbackHolders ==
  ASSUME TypeOK, NEW m \in Msg, HeldOnce(m), print_msg_callback
  PROVE  HeldOnce(m)' /\ (Held(m) => Held(m)' \/ ~msg_pool_used'[m])
  <1>1. running[1] \in Msg /\ running = <<running[1]>>
    BY RunningMessage DEF print_msg_callback
  <1>2. /\ UNCHANGED <<timer_pool, timer_pool_used, waiting, msg_slot>>
        /\ running' = <<>>
        /\ msg_pool_used' = [msg_pool_used EXCEPT ![running[1]] = FALSE]
    BY DEF print_msg_callback, pool
  <1>3. HasCallback(m) <=> m = running[1]
    BY <1>1 DEF HasCallback
  <1>4. ~HasCallback(m)'
    BY <1>2 DEF HasCallback
  <1>5. /\ (HasEvent(m)' <=> HasEvent(m)) /\ (OneEvent(m)' <=> OneEvent(m))
        /\ (HasTask(m)' <=> HasTask(m)) /\ (OneTask(m)' <=> OneTask(m))
        /\ (HasShell(m)' <=> HasShell(m))
    BY <1>2 DEF HasEvent, OneEvent, EventHolds, HasTask, OneTask, HasShell
  <1>6. CASE m = running[1]
    <2>1. ~Held(m)'
      BY <1>3, <1>4, <1>5, <1>6 DEF HeldOnce, OneKind, Held
    <2>2. ~msg_pool_used'[m]
      BY <1>2, <1>6 DEF TypeOK
    <2> QED
      BY <1>4, <1>5, <2>1, <2>2 DEF HeldOnce, OneKind
  <1>7. CASE m # running[1]
    <2>1. msg_pool_used'[m] = msg_pool_used[m]
      BY <1>1, <1>2, <1>7 DEF TypeOK
    <2> QED
      BY <1>3, <1>4, <1>5, <1>7, <2>1 DEF HeldOnce, OneKind, Held
  <1> QED
    BY <1>6, <1>7

LEMMA BootTimeHolders ==
  ASSUME NEW m \in Msg, HeldOnce(m), print_boot_time
  PROVE  HeldOnce(m)' /\ (Held(m) => Held(m)')
  <1>1. ~HasCallback(m)
    BY DEF print_boot_time, HasCallback, NULL, Msg
  <1>2. ~HasCallback(m)'
    BY DEF print_boot_time, HasCallback
  <1> QED
    BY <1>1, <1>2
    DEF print_boot_time, pool, HeldOnce, OneEvent, OneTask, OneKind, Held,
        HasEvent, HasTask, HasShell, EventHolds

\* The first event of the queue becomes a task, unless the ring is full.
LEMMA ExpireHolders ==
  ASSUME IInv, NEW m \in Msg, HeldOnce(m), ExpireEvent
  PROVE  /\ HeldOnce(m)'
         /\ Held(m) => Held(m)' \/ Len(waiting) = TASK_QUEUE_SIZE - 1
  <1> DEFINE e == timer_queue[1]  n == Len(waiting)
  <1>1. e \in Event /\ timer_pool_used[e]
    <2>1. 1 \in 1 .. Len(timer_queue)
      BY EmptySeq, LenProperties DEF ExpireEvent, Expired, IInv, TypeOK
    <2> QED
      BY <2>1, ElementOfSeq DEF IInv, PoolInv, SlotsAreQueued, TypeOK
  <1>2. /\ timer_pool_used' = [timer_pool_used EXCEPT ![e] = FALSE]
        /\ enqueue_task(timer_pool[e].data)
        /\ UNCHANGED <<timer_pool, running, msg_slot, msg_pool_used>>
    BY DEF ExpireEvent
  <1> HIDE DEF e
  <1>3. /\ ~timer_pool_used'[e]
        /\ \A f \in Event : f # e => timer_pool_used'[f] = timer_pool_used[f]
    BY <1>1, <1>2 DEF IInv, TypeOK
  <1>4. \A f \in Event : EventHolds(f, m)' <=> EventHolds(f, m) /\ f # e
    BY <1>2, <1>3 DEF EventHolds
  <1>5. EventHolds(e, m) <=> timer_pool[e].data = m
    BY <1>1 DEF EventHolds
  <1>6. OneEvent(m)'
    BY <1>4 DEF HeldOnce, OneEvent
  <1>7. HasEvent(m)' => HasEvent(m)
    BY <1>4 DEF HasEvent
  <1>8. EventHolds(e, m) => HasEvent(m) /\ ~HasEvent(m)'
    BY <1>1, <1>4 DEF HeldOnce, OneEvent, HasEvent
  <1>9. ~EventHolds(e, m) => (HasEvent(m)' <=> HasEvent(m))
    BY <1>4 DEF HasEvent
  <1>10. /\ (HasCallback(m)' <=> HasCallback(m)) /\ (HasShell(m)' <=> HasShell(m))
         /\ msg_pool_used'[m] = msg_pool_used[m]
    BY <1>2 DEF HasCallback, HasShell
  <1>11. CASE n < TASK_QUEUE_SIZE - 1
    <2>1. /\ n \in Nat /\ Len(waiting') = n + 1
          /\ \A i \in 1 .. n : waiting'[i] = waiting[i]
          /\ waiting'[n + 1] = timer_pool[e].data
      <3>1. waiting' = Append(waiting, timer_pool[e].data)
        BY <1>2, <1>11 DEF enqueue_task
      <3>2. timer_pool[e].data \in Task /\ waiting \in Seq(Task)
        BY <1>1 DEF IInv, TypeOK
      <3> QED
        BY <3>1, <3>2, AppendProperties, LenProperties
    <2>2. \A i \in 1 .. n + 1 : i \in 1 .. n \/ i = n + 1
      BY <2>1
    <2>3. n + 1 \in 1 .. n + 1 /\ \A i \in 1 .. n : i \in 1 .. n + 1
      BY <2>1
    <2>4. HasTask(m)' <=> HasTask(m) \/ EventHolds(e, m)
      BY <1>5, <2>1, <2>2, <2>3 DEF HasTask
    <2>5. OneTask(m)'
      <3>1. EventHolds(e, m) => \A i \in 1 .. n : waiting[i] # m
        BY <1>8 DEF HeldOnce, OneKind, HasTask
      <3> QED
        BY <1>5, <2>1, <2>2, <3>1 DEF HeldOnce, OneTask
    <2>6. OneKind(m)' /\ (Held(m)' <=> Held(m))
      BY <1>7, <1>8, <1>9, <1>10, <2>4 DEF HeldOnce, OneKind, Held
    <2> QED
      BY <1>6, <1>10, <2>5, <2>6 DEF HeldOnce
  <1>12. CASE ~(n < TASK_QUEUE_SIZE - 1)
    <2>1. waiting' = waiting
      BY <1>2, <1>12 DEF enqueue_task
    <2>2. n = TASK_QUEUE_SIZE - 1
      <3>1. n \in Nat /\ n < TASK_QUEUE_SIZE /\ TASK_QUEUE_SIZE \in Nat
        BY LenProperties, QueueAssumption DEF IInv, TypeOK
      <3> QED
        BY <1>12, <3>1
    <2>3. (HasTask(m)' <=> HasTask(m)) /\ (OneTask(m)' <=> OneTask(m))
      BY <2>1 DEF HasTask, OneTask
    <2>4. OneKind(m)' /\ (Held(m)' => Held(m))
      BY <1>7, <1>10, <2>3 DEF HeldOnce, OneKind, Held
    <2> QED
      BY <1>6, <1>10, <2>2, <2>3, <2>4 DEF HeldOnce
  <1> QED
    BY <1>11, <1>12

-----------------------------------------------------------------------------
\* How a message may lose its last holder in a step.
KeptOrEnded(m) ==
  Held(m) => \/ Held(m)'
             \/ ~msg_pool_used'[m]
             \/ Len(waiting) = TASK_QUEUE_SIZE - 1
             \/ \A e \in Event : timer_pool_used[e]

LEMMA AddTimerHolders ==
  ASSUME TypeOK, NEW m \in Msg, HeldOnce(m), NEW secs,
         add_timer(msg_slot, secs), msg_slot' = NULL,
         UNCHANGED <<waiting, running, msg_pool_used>>
  PROVE  HeldOnce(m)' /\ KeptOrEnded(m)
  <1>1. CASE NoTimerSlot
    BY <1>1, ShellDrops DEF NoTimerSlot, pool, KeptOrEnded
  <1>2. CASE QueueTimer(msg_slot, secs)
    <2>1. PICK e \in Event, at \in 1 .. Len(timer_queue) + 1 :
            AddEvent(e, at, now + secs * FRQ, msg_slot)
      BY <1>2 DEF QueueTimer
    <2> QED
      BY <2>1, EventTakesOver DEF KeptOrEnded
  <1> QED
    BY <1>1, <1>2 DEF add_timer

LEMMA ShellHolders ==
  ASSUME IInv, MsgInv, NEW m \in Msg,
         alloc_msg_slot \/ set_message_timer \/ set_btime_timer \/ LoadProgram
  PROVE  HeldOnce(m)' /\ KeptOrEnded(m)
  <1>1. HeldOnce(m) /\ TypeOK
    BY DEF MsgInv, IInv
  <1>2. CASE alloc_msg_slot
    <2>1. msg_slot = NULL
      BY <1>2 DEF alloc_msg_slot, Main, MsgInv, ShellFree
    <2>2. ~HasShell(m) /\ UNCHANGED <<timer_pool, timer_pool_used, waiting, running>>
      BY <1>2, <2>1 DEF alloc_msg_slot, pool, tasks, HasShell, NULL, Msg
    <2>3. KeptOrEnded(m)
      BY <2>2 DEF KeptOrEnded, Held, HasEvent, EventHolds, HasTask, HasCallback
    <2> QED
      BY <1>1, <1>2, <2>3, AllocHolders
  <1>3. CASE set_message_timer
    <2>1. PICK secs \in Delays : add_timer(msg_slot, secs)
      BY <1>3 DEF set_message_timer
    <2>2. msg_slot' = NULL /\ UNCHANGED <<waiting, running, msg_pool_used>>
      BY <1>3 DEF set_message_timer, tasks
    <2> QED
      BY <1>1, <2>1, <2>2, AddTimerHolders
  <1>4. CASE set_btime_timer
    <2>1. msg_slot = NULL /\ msg_slot' = NULL
      BY <1>4 DEF set_btime_timer, Main, MsgInv, ShellFree
    <2>2. add_timer(msg_slot, 1) /\ UNCHANGED <<waiting, running, msg_pool_used>>
      BY <1>4, <2>1 DEF set_btime_timer, tasks
    <2> QED
      BY <1>1, <2>1, <2>2, AddTimerHolders
  <1>5. CASE LoadProgram
    <2>1. UNCHANGED <<timer_pool, timer_pool_used, waiting, running, msg_slot,
                      msg_pool_used>>
      BY <1>5 DEF LoadProgram, pool, tasks
    <2>2. KeptOrEnded(m)
      BY <2>1 DEF KeptOrEnded, Held, HasEvent, EventHolds, HasTask, HasCallback, HasShell
    <2> QED
      BY <1>1, <2>1, <2>2, SameHolders
  <1> QED
    BY <1>2, <1>3, <1>4, <1>5

LEMMA OtherHolders ==
  ASSUME IInv, MsgInv, NEW m \in Msg,
         \/ Tick \/ dispatcher \/ TimerIrq \/ ExpireEvent \/ Rearm \/ DispatchDone
         \/ UNCHANGED vars
  PROVE  HeldOnce(m)' /\ KeptOrEnded(m)
  <1>1. HeldOnce(m) /\ TypeOK
    BY DEF MsgInv, IInv
  <1>2. CASE Tick \/ TimerIrq \/ Rearm \/ DispatchDone \/ UNCHANGED vars
    <2>1. UNCHANGED <<timer_pool, timer_pool_used, waiting, running, msg_slot,
                      msg_pool_used>>
      BY <1>2 DEF Tick, TimerIrq, Rearm, DispatchDone, vars, pool, tasks
    <2>2. KeptOrEnded(m)
      BY <2>1 DEF KeptOrEnded, Held, HasEvent, EventHolds, HasTask, HasCallback, HasShell
    <2> QED
      BY <1>1, <2>1, <2>2, SameHolders
  <1>3. CASE dispatcher
    BY <1>1, <1>3, TakeTaskHolders, CallbackHolders, BootTimeHolders
    DEF dispatcher, KeptOrEnded
  <1>4. CASE ExpireEvent
    BY <1>1, <1>4, ExpireHolders DEF KeptOrEnded
  <1> QED
    BY <1>2, <1>3, <1>4

LEMMA StepHolders ==
  ASSUME IInv, MsgInv, [Next]_vars
  PROVE  MsgInv' /\ \A m \in Msg : KeptOrEnded(m)
  <1>1. \A m \in Msg : HeldOnce(m)' /\ KeptOrEnded(m)
    BY ShellHolders, OtherHolders DEF Next
  <1>2. ShellFree'
    <2>1. CASE alloc_msg_slot
      <3>1. pc'.main = "message"
        BY <2>1 DEF alloc_msg_slot, Main, IInv, TypeOK
      <3> QED
        BY <3>1 DEF ShellFree
    <2>2. CASE set_message_timer
      BY <2>2 DEF set_message_timer, ShellFree
    <2>3. CASE set_btime_timer \/ LoadProgram
      BY <2>3 DEF set_btime_timer, LoadProgram, Main, MsgInv, ShellFree
    <2>4. CASE \/ Tick \/ dispatcher \/ TimerIrq \/ ExpireEvent \/ Rearm
               \/ DispatchDone \/ UNCHANGED vars
      <3>1. msg_slot' = msg_slot /\ pc'.main = pc.main
        BY <2>4
        DEF Tick, dispatcher, TakeTask, print_msg_callback, print_boot_time,
            TimerIrq, ExpireEvent, Rearm, DispatchDone, vars, IInv, TypeOK
      <3> QED
        BY <3>1 DEF MsgInv, ShellFree
    <2> QED
      BY <2>1, <2>2, <2>3, <2>4 DEF Next
  <1> QED
    BY <1>1, <1>2 DEF MsgInv

LEMMA InitHolders ==
  ASSUME Init
  PROVE  MsgInv
  <1>1. Len(waiting) = 0 /\ 1 .. 0 = {}
    BY EmptySeq DEF Init
  <1>2. /\ waiting = <<>> /\ running = <<>> /\ msg_slot = NULL
        /\ \A e \in Event : ~timer_pool_used[e]
    BY DEF Init
  <1>3. ASSUME NEW m \in Msg PROVE HeldOnce(m)
    <2>1. ~HasShell(m) /\ ~HasCallback(m) /\ ~HasTask(m) /\ OneTask(m)
      BY <1>1, <1>2 DEF HasShell, HasCallback, HasTask, OneTask, NULL, Msg
    <2>2. ~HasEvent(m) /\ OneEvent(m)
      BY <1>2 DEF HasEvent, OneEvent, EventHolds
    <2> QED
      BY <2>1, <2>2 DEF HeldOnce, OneKind, Held
  <1> QED
    BY <1>2, <1>3 DEF MsgInv, ShellFree

(* A message slot has one holder at any time, among the shell, the events, *)
(* the ring and the callback, and is not given out again before its text   *)
(* is printed.                                                             *)
THEOREM MessagesHeldOnce == Spec => []MessageHeldOnce
  <1>1. Init => MsgInv
    BY InitHolders
  <1>2. IInv /\ MsgInv /\ [Next]_vars => MsgInv'
    BY StepHolders
  <1>3. MsgInv => MessageHeldOnce
    BY HoldersAreHeld, HeldOnceCardinality DEF MsgInv, MessageHeldOnce, HeldOnce
  <1> QED
    BY <1>1, <1>2, <1>3, Inductive, PTL DEF Spec

(* The last holder of a message goes away only by printing it, by a full   *)
(* ring or by a full pool of timers.                                       *)
THEOREM MessagesLostWhenFull == Spec => LostOnlyWhenFull
  <1>1. Init => MsgInv
    BY InitHolders
  <1>2. IInv /\ MsgInv /\ [Next]_vars => MsgInv'
    BY StepHolders
  <1> DEFINE A == \A m \in Msg :
                    Holders(m) # {} /\ Holders(m)' = {} =>
                      \/ ~msg_pool_used'[m]
                      \/ Len(waiting) = TASK_QUEUE_SIZE - 1
                      \/ \A e \in Event : timer_pool_used[e]
  <1>3. IInv /\ MsgInv /\ [Next]_vars => [A]_vars
    <2> SUFFICES ASSUME IInv, MsgInv, [Next]_vars PROVE A
      OBVIOUS
    <2>1. \A m \in Msg : Holders(m) # {} <=> Held(m)
      BY HoldersAreHeld
    <2>2. \A m \in Msg : Holders(m)' # {} <=> Held(m)'
      BY DEF Holders, Held, HasEvent, HasTask, HasCallback, HasShell, EventHolds
    <2> QED
      BY <2>1, <2>2, StepHolders DEF KeptOrEnded
  <1> QED
    BY <1>1, <1>2, <1>3, Inductive, PTL DEF Spec, LostOnlyWhenFull

-----------------------------------------------------------------------------
(* The hardware timer.  It can only be right for delays that CNTP_TVAL     *)
(* holds, 32 bits and signed, and as long as the 64-bit counter is not     *)
(* about to wrap.                                                          *)

Asked == Delays \cup {1}
DelaysFit == \A d \in Asked : 2 * (d * FRQ) < TvalRange
CounterFits == \A d \in Asked : now + d * FRQ < CounterRange

(* No event is due later than its delay from now, and the handler's        *)
(* reading of the counter is fresh.                                        *)
Soon ==
  \A i \in 1 .. Len(timer_queue) :
    \E d \in Asked : expire_time(timer_queue[i]) <= now + d * FRQ

FreshTicks == pc.irq = "expire" => cur_ticks = now

ArmInv == Soon /\ FreshTicks /\ ArmedForFirst

LEMMA AskedTicks ==
  ASSUME NEW d \in Asked
  PROVE  d \in Nat /\ d * FRQ \in Nat
  <1>1. d \in Nat /\ FRQ \in Nat
    BY TimeAssumption DEF Asked
  <1> QED
    BY <1>1

(* The timer is armed for the time that is asked for.                      *)
LEMMA TimeoutArms ==
  ASSUME DelaysFit, now \in Nat, CounterFits', NEW d \in Asked, NEW ticks \in Nat,
         ticks <= d * FRQ, core_timer_set_timeout_ticks(ticks)
  PROVE  \E late \in 0 .. MaxLatency : now' = now + late /\ cval' = now + late + ticks
  <1>1. PICK late \in 0 .. MaxLatency :
          now' = now + late /\ cval' = (now' + SignExtend(ticks)) % CounterRange
    BY DEF core_timer_set_timeout_ticks
  <1> DEFINE w == d * FRQ
  <1>2. w \in Nat /\ ticks <= w /\ 2 * w < TvalRange /\ now' + w < CounterRange
    BY AskedTicks DEF DelaysFit, CounterFits
  <1> HIDE DEF w
  <1>3. SignExtend(ticks) = ticks
    <2>1. ticks \in 0 .. TvalRange - 1 /\ 2 * ticks < TvalRange
      BY <1>2, RangeAssumption
    <2>2. ticks % TvalRange = ticks
      BY <2>1, RangeAssumption
    <2> QED
      BY <2>1, <2>2 DEF SignExtend
  <1>4. now' + ticks \in 0 .. CounterRange - 1
    BY <1>1, <1>2, TimeAssumption, RangeAssumption
  <1>5. (now' + ticks) % CounterRange = now' + ticks
    BY <1>4, RangeAssumption
  <1> QED
    BY <1>1, <1>3, <1>5

LEMMA AddTimerArms ==
  ASSUME DelaysFit, IInv, ArmInv, CounterFits', pc.irq = "off",
         NEW data \in Task, NEW secs \in Asked, add_timer(data, secs)
  PROVE  Soon' /\ (timer_queue' # <<>> =>
           cval' \in timer_pool'[timer_queue'[1]].expire_time ..
                     timer_pool'[timer_queue'[1]].expire_time + MaxLatency)
  <1>1. now \in Nat /\ timer_queue \in Seq(Event) /\ MaxLatency \in Nat
    BY TimeAssumption DEF IInv, TypeOK
  <1>2. timer_queue # <<>> =>
          cval \in timer_pool[timer_queue[1]].expire_time ..
                   timer_pool[timer_queue[1]].expire_time + MaxLatency
    BY DEF ArmInv, ArmedForFirst, expire_time
  <1>3. CASE NoTimerSlot
    BY <1>2, <1>3 DEF NoTimerSlot, pool, clock, ArmInv, Soon, expire_time
  <1>4. CASE QueueTimer(data, secs)
    <2> DEFINE ticks == secs * FRQ
               due == now + ticks
               n == Len(timer_queue)
    <2>1. ticks \in Nat /\ due \in Nat /\ due - now = ticks /\ n \in Nat
      BY <1>1, AskedTicks
    <2>2. PICK e \in Event, at \in 1 .. n + 1 :
            /\ AddEvent(e, at, due, data)
            /\ IF at = 1 THEN core_timer_set_timeout_ticks(due - now)
                         ELSE UNCHANGED clock
      BY <1>4 DEF QueueTimer
    <2>3. \E late \in 0 .. MaxLatency :
            /\ now' = now + late
            /\ at = 1 => cval' = now + late + ticks
            /\ at # 1 => cval' = cval
      <3>1. CASE at = 1
        <4>1. core_timer_set_timeout_ticks(ticks)
          BY <2>1, <2>2, <3>1
        <4>2. ticks <= secs * FRQ
          BY <2>1
        <4> HIDE DEF ticks
        <4> QED
          BY <1>1, <2>1, <3>1, <4>1, <4>2, TimeoutArms
      <3>2. CASE at # 1
        BY <1>1, <2>2, <3>2, TimeAssumption DEF clock
      <3> QED
        BY <3>1, <3>2
    <2>4. /\ timer_queue' = InsertAt(timer_queue, at, e)
          /\ timer_pool' = [timer_pool EXCEPT ![e] = [expire_time |-> due, data |-> data]]
          /\ ~ timer_pool_used[e]
      BY <2>2 DEF AddEvent, FirstFree
    <2>5. /\ Len(timer_queue') = n + 1
          /\ \A j \in 1 .. n + 1 :
               timer_queue'[j] = IF j < at THEN timer_queue[j]
                                 ELSE IF j = at THEN e ELSE timer_queue[j - 1]
      BY <1>1, <2>4, InsertAtProperties
    <2>6. timer_pool'[e].expire_time = due
      BY <2>4 DEF IInv, TypeOK
    <2>7. ASSUME NEW j \in 1 .. n
          PROVE  timer_pool'[timer_queue[j]].expire_time = timer_pool[timer_queue[j]].expire_time
      <3>1. timer_queue[j] \in Event /\ timer_pool_used[timer_queue[j]]
        BY <1>1 DEF IInv, PoolInv, SlotsAreQueued
      <3>2. timer_queue[j] # e
        BY <2>4, <3>1
      <3> QED
        BY <2>4, <3>1, <3>2 DEF IInv, TypeOK
    <2>8. \A j \in 1 .. n : timer_pool[timer_queue[j]].expire_time \in Nat
      <3>1. \A j \in 1 .. n : timer_queue[j] \in Event
        BY <1>1
      <3> QED
        BY <3>1 DEF IInv, TypeOK
    <2>9. now' \in Nat /\ now' >= now
      BY <1>1, <2>3
    <2>10. ASSUME NEW j \in 1 .. n + 1
           PROVE  \E d \in Asked : timer_pool'[timer_queue'[j]].expire_time <= now' + d * FRQ
      <3>1. CASE j = at
        <4>1. timer_pool'[timer_queue'[j]].expire_time = due /\ due <= now' + ticks
          BY <1>1, <2>1, <2>5, <2>6, <2>9, <3>1
        <4> QED
          BY <4>1
      <3>2. CASE j # at
        <4>1. PICK i \in 1 .. n : timer_queue'[j] = timer_queue[i]
          <5>1. CASE j < at
            <6>1. j \in 1 .. n
              BY <2>1, <5>1
            <6> QED
              BY <2>5, <5>1, <6>1
          <5>2. CASE j > at
            <6>1. j - 1 \in 1 .. n
              BY <2>1, <5>2
            <6> QED
              BY <2>1, <2>5, <5>2, <6>1
          <5> QED
            BY <3>2, <5>1, <5>2
        <4>2. PICK d \in Asked : timer_pool[timer_queue[i]].expire_time <= now + d * FRQ
          BY DEF ArmInv, Soon, expire_time
        <4>3. d * FRQ \in Nat /\ timer_pool[timer_queue[i]].expire_time \in Nat
          BY <2>8, AskedTicks
        <4>4. timer_pool[timer_queue[i]].expire_time <= now' + d * FRQ
          BY <1>1, <2>9, <4>2, <4>3
        <4> QED
          BY <2>7, <4>1, <4>4
      <3> QED
        BY <3>1, <3>2
    <2>11. Soon'
      BY <2>5, <2>10 DEF Soon, expire_time
    <2>12. cval' \in timer_pool'[timer_queue'[1]].expire_time ..
                     timer_pool'[timer_queue'[1]].expire_time + MaxLatency
      <3>1. CASE at = 1
        <4>1. timer_queue'[1] = e
          BY <2>1, <2>5, <3>1
        <4>2. PICK late \in 0 .. MaxLatency : cval' = now + late + ticks
          BY <2>3, <3>1
        <4>3. cval' \in due .. due + MaxLatency
          <5> HIDE DEF ticks
          <5> QED
            BY <1>1, <2>1, <4>2
        <4> QED
          BY <2>6, <4>1, <4>3
      <3>2. CASE at # 1
        <4>1. 1 \in 1 .. n /\ timer_queue'[1] = timer_queue[1] /\ timer_queue # <<>>
          BY <1>1, <2>1, <2>5, <3>2
        <4> QED
          BY <1>2, <2>3, <2>7, <3>2, <4>1
      <3> QED
        BY <3>1, <3>2
    <2> QED
      BY <2>11, <2>12
  <1> QED
    BY <1>3, <1>4 DEF add_timer

(* Steps that leave the queue and the timer alone.                         *)
LEMMA ArmUnchanged ==
  ASSUME ArmInv, UNCHANGED <<pool, cval>>, IInv, now' \in Nat, now' >= now,
         pc.irq = "expire" => pc'.irq = "expire"
  PROVE  Soon' /\ ArmedForFirst'
  <1>1. UNCHANGED <<timer_pool, timer_pool_used, timer_queue>>
    BY DEF pool
  <1>2. Soon'
    <2> SUFFICES ASSUME NEW i \in 1 .. Len(timer_queue)
                 PROVE  \E d \in Asked : timer_pool[timer_queue[i]].expire_time <= now' + d * FRQ
      BY <1>1 DEF Soon, expire_time
    <2>1. PICK d \in Asked : timer_pool[timer_queue[i]].expire_time <= now + d * FRQ
      BY DEF ArmInv, Soon, expire_time
    <2>2. d * FRQ \in Nat /\ now \in Nat
      BY AskedTicks DEF IInv, TypeOK
    <2>3. timer_pool[timer_queue[i]].expire_time \in Nat
      <3>1. timer_queue[i] \in Event
        BY DEF IInv, TypeOK
      <3> QED
        BY <3>1 DEF IInv, TypeOK
    <2>4. timer_pool[timer_queue[i]].expire_time <= now' + d * FRQ
      BY <2>1, <2>2, <2>3
    <2> QED
      BY <2>4
  <1>3. ArmedForFirst'
    BY <1>1 DEF ArmInv, ArmedForFirst, expire_time
  <1> QED
    BY <1>2, <1>3

LEMMA RearmArms ==
  ASSUME DelaysFit, IInv, ArmInv, CounterFits', Rearm
  PROVE  ArmInv'
  <1>1. /\ pc.irq = "expire" /\ ~ Expired /\ SetNextTimeout
        /\ pc'.irq \in {"dispatch", "off"}
        /\ UNCHANGED <<timer_pool, timer_queue, cur_ticks>>
    BY DEF Rearm, pool, IInv, TypeOK
  <1>2. now \in Nat /\ cur_ticks = now /\ timer_queue \in Seq(Event)
    BY <1>1 DEF IInv, TypeOK, ArmInv, FreshTicks
  <1>3. CASE timer_queue = <<>>
    <2>1. Len(timer_queue) = 0
      BY <1>3
    <2> QED
      BY <1>1, <1>3, <2>1 DEF ArmInv, Soon, FreshTicks, ArmedForFirst
  <1>4. CASE timer_queue # <<>>
    <2> DEFINE due == timer_pool[timer_queue[1]].expire_time
    <2>1. 1 \in 1 .. Len(timer_queue) /\ timer_queue[1] \in Event
      BY <1>2, <1>4
    <2>2. due \in Nat /\ due > now
      BY <1>1, <1>2, <1>4, <2>1 DEF IInv, TypeOK, Expired, expire_time
    <2>3. PICK d \in Asked : due <= now + d * FRQ
      BY <2>1 DEF ArmInv, Soon, expire_time
    <2>4. core_timer_set_timeout_ticks(due - now)
      BY <1>1, <1>2, <1>4, <2>2 DEF SetNextTimeout, expire_time
    <2> HIDE DEF due
    <2>5. due - now \in Nat /\ due - now <= d * FRQ
      BY <1>2, <2>2, <2>3, AskedTicks
    <2>6. PICK late \in 0 .. MaxLatency :
            now' = now + late /\ cval' = now + late + (due - now)
      BY <1>2, <2>4, <2>5, TimeoutArms
    <2>7. cval' \in due .. due + MaxLatency /\ now' \in Nat /\ now' >= now
      BY <1>2, <2>2, <2>6, TimeAssumption
    <2>8. ArmedForFirst'
      BY <1>1, <2>7 DEF ArmedForFirst, expire_time, due
    <2>9. FreshTicks'
      BY <1>1 DEF FreshTicks
    <2>10. Soon'
      <3> SUFFICES ASSUME NEW i \in 1 .. Len(timer_queue)
                   PROVE  \E a \in Asked : timer_pool[timer_queue[i]].expire_time <= now' + a * FRQ
        BY <1>1 DEF Soon, expire_time
      <3>1. PICK a \in Asked : timer_pool[timer_queue[i]].expire_time <= now + a * FRQ
        BY DEF ArmInv, Soon, expire_time
      <3>2. a * FRQ \in Nat /\ timer_pool[timer_queue[i]].expire_time \in Nat
        <4>1. timer_queue[i] \in Event
          BY <1>2
        <4> QED
          BY <4>1, AskedTicks DEF IInv, TypeOK
      <3>3. timer_pool[timer_queue[i]].expire_time <= now' + a * FRQ
        BY <1>2, <2>7, <3>1, <3>2
      <3> QED
        BY <3>3
    <2> QED
      BY <2>8, <2>9, <2>10 DEF ArmInv
  <1> QED
    BY <1>3, <1>4

LEMMA StepArms ==
  ASSUME DelaysFit, IInv, ArmInv, CounterFits', [Next]_vars
  PROVE  ArmInv'
  <1>1. now \in Nat /\ timer_queue \in Seq(Event)
        /\ pc \in [main : {"shell", "message", "user"}, irq : {"off", "expire", "dispatch"}]
    BY DEF IInv, TypeOK
  <1>2. CASE Tick
    <2>1. pc' = pc /\ pc.irq = "off" /\ now' = now + 1 /\ UNCHANGED <<pool, cval>>
      BY <1>2 DEF Tick
    <2> QED
      BY <1>1, <2>1, ArmUnchanged DEF ArmInv, FreshTicks
  <1>3. CASE alloc_msg_slot \/ LoadProgram
    <2>1. pc'.irq = "off" /\ pc.irq = "off" /\ now' = now /\ UNCHANGED <<pool, cval>>
      BY <1>1, <1>3 DEF alloc_msg_slot, LoadProgram, Main, clock
    <2> QED
      BY <1>1, <2>1, ArmUnchanged DEF ArmInv, FreshTicks
  <1>4. CASE set_message_timer \/ set_btime_timer
    <2>1. pc'.irq = "off" /\ pc.irq = "off"
      BY <1>1, <1>4 DEF set_message_timer, set_btime_timer, Main
    <2>2. \E data \in Task, secs \in Asked : add_timer(data, secs)
      <3>1. msg_slot \in Task /\ NULL \in Task /\ 1 \in Asked /\ \A secs \in Delays : secs \in Asked
        BY DEF IInv, TypeOK, Task, Asked
      <3> QED
        BY <1>4, <3>1 DEF set_message_timer, set_btime_timer
    <2>3. Soon' /\ (timer_queue' # <<>> =>
            cval' \in timer_pool'[timer_queue'[1]].expire_time ..
                      timer_pool'[timer_queue'[1]].expire_time + MaxLatency)
      BY <2>1, <2>2, AddTimerArms
    <2> QED
      BY <2>1, <2>3 DEF ArmInv, FreshTicks, ArmedForFirst, expire_time
  <1>5. CASE dispatcher \/ DispatchDone
    <2>1. /\ pc.irq = "expire" => pc'.irq = "expire"
          /\ pc'.irq = "expire" => pc.irq = "expire"
          /\ now' = now /\ cur_ticks' = cur_ticks /\ UNCHANGED <<pool, cval>>
      BY <1>1, <1>5 DEF dispatcher, TakeTask, print_msg_callback, print_boot_time,
                        DispatchDone, clock
    <2> QED
      BY <1>1, <2>1, ArmUnchanged DEF ArmInv, FreshTicks
  <1>6. CASE TimerIrq
    <2>1. pc'.irq = "expire" /\ now' = now /\ cur_ticks' = now /\ UNCHANGED <<pool, cval>>
      BY <1>1, <1>6 DEF TimerIrq, clock
    <2> QED
      BY <1>1, <2>1, ArmUnchanged DEF ArmInv, FreshTicks
  <1>7. CASE ExpireEvent
    <2>1. /\ pc' = pc /\ pc.irq = "expire" /\ now' = now /\ cur_ticks' = cur_ticks
          /\ timer_pool' = timer_pool /\ timer_queue' = Tail(timer_queue) /\ timer_queue # <<>>
      BY <1>7 DEF ExpireEvent, Expired, clock
    <2>2. \A i \in 1 .. Len(Tail(timer_queue)) :
            i + 1 \in 1 .. Len(timer_queue) /\ Tail(timer_queue)[i] = timer_queue[i + 1]
      BY <1>1, <2>1
    <2>3. Soon'
      BY <2>1, <2>2 DEF ArmInv, Soon, expire_time
    <2> QED
      BY <2>1, <2>3 DEF ArmInv, FreshTicks, ArmedForFirst
  <1>8. CASE UNCHANGED vars
    <2>1. pc' = pc /\ now' = now /\ cur_ticks' = cur_ticks /\ UNCHANGED <<pool, cval>>
      BY <1>8 DEF vars, clock
    <2> QED
      BY <1>1, <2>1, ArmUnchanged DEF ArmInv, FreshTicks
  <1> QED
    BY <1>2, <1>3, <1>4, <1>5, <1>6, <1>7, <1>8, RearmArms DEF Next

(* The one hardware timer is armed for the first event of the queue, never *)
(* before it is due and late only by the time between reading the counter  *)
(* and writing the timer, whatever requests and interrupts come, as long   *)
(* as the delays fit CNTP_TVAL and the counter does not wrap.              *)
THEOREM ArmsForFirst ==
  DelaysFit => (Spec /\ []CounterFits => []ArmedForFirst)
  <1> SUFFICES ASSUME DelaysFit
               PROVE  Spec /\ []CounterFits => []ArmedForFirst
    OBVIOUS
  <1>1. Init => ArmInv
    <2> SUFFICES ASSUME Init PROVE ArmInv
      OBVIOUS
    <2>1. timer_queue = <<>> /\ Len(<<>>) = 0 /\ pc.irq = "off"
      BY DEF Init
    <2> QED
      BY <2>1 DEF ArmInv, Soon, FreshTicks, ArmedForFirst
  <1>2. IInv /\ ArmInv /\ CounterFits' /\ [Next]_vars => ArmInv'
    BY StepArms
  <1>3. ArmInv => ArmedForFirst
    BY DEF ArmInv
  <1> QED
    BY <1>1, <1>2, <1>3, Inductive, PTL DEF Spec

=============================================================================
