--------------------------- MODULE TaskQueueProofs ---------------------------
(***************************************************************************)
(* Proofs about the task queue, for every size of the rings and every      *)
(* number of tasks, whether or not the UART interrupt stays on after       *)
(* async_uart.                                                             *)
(***************************************************************************)
EXTENDS TaskQueue, SequenceTheorems, TLAPS

-----------------------------------------------------------------------------
(* The ring of one level: q its slots, h and t its head and tail, f how    *)
(* many tasks were taken out of it, a how many were put into it.           *)

RingHolds(q, h, t, f, a) ==
  /\ a = f + Distance(h, t)
  /\ \A k \in Slot : Distance(h, k) < Distance(h, t) =>
                       q[k] = f + 1 + Distance(h, k)

(* The taken tasks of the timer's level: the finished ones and the one     *)
(* that is running.                                                        *)
Fetched ==
  executed[TimerLevel]
    + (IF Runs("main", TimerLevel) \/ Runs("irq", TimerLevel) THEN 1 ELSE 0)

TimerRingHolds ==
  RingHolds(task_queue[TimerLevel], head[TimerLevel], tail[TimerLevel],
            Fetched, accepted[TimerLevel])

(* Inside the loop of the dispatcher, at a level.                          *)
InLoop == Dispatching \ {"loop"}

LevelInRange ==
  \A c \in Context : pc[c] \in InLoop => prior_level[c] <= TASK_MAX_PRIORITY

(* While main is in the kernel the handler dispatches the UART's level     *)
(* only: the timer's level has one consumer at a time.                     *)
OneConsumer ==
  pc["main"] # "user" /\ pc["irq"] \in Dispatching
    => prior_level["irq"] >= AuxLevel

(* What the consumer of the timer's level knows at each control point.     *)
ConsumerKnows(c) ==
  LET h == head[TimerLevel]  t == tail[TimerLevel] IN
  prior_level[c] = TimerLevel =>
    /\ pc[c] = "tail" => cur_lev_head[c] = h
    /\ pc[c] = "head" => h # t
    /\ pc[c] \in {"slot", "advance"} => cur_lev_head[c] = h /\ h # t
    /\ pc[c] = "advance" => task[c] = executed[TimerLevel] + 1
    /\ pc[c] = "run" => task[c] = executed[TimerLevel] + 1

IInv ==
  /\ TypeOK
  /\ LevelInRange
  /\ OneConsumer
  /\ TimerRingHolds
  /\ \A c \in Context : ConsumerKnows(c)

-----------------------------------------------------------------------------
LEMMA NextIndex ==
  ASSUME NEW i \in Slot
  PROVE  /\ next_index(i) \in Slot
         /\ next_index(i) = IF i = TASK_QUEUE_SIZE - 1 THEN 0 ELSE i + 1
  <1>1. CASE i = TASK_QUEUE_SIZE - 1
    BY <1>1, SizeAssumption DEF next_index, Slot
  <1>2. CASE i # TASK_QUEUE_SIZE - 1
    <2>1. i + 1 \in 0 .. TASK_QUEUE_SIZE - 1
      BY <1>2, SizeAssumption DEF Slot
    <2> QED
      BY <2>1, <1>2, SizeAssumption DEF next_index, Slot
  <1> QED
    BY <1>1, <1>2

LEMMA DistanceType ==
  ASSUME NEW i \in Slot, NEW j \in Slot
  PROVE  Distance(i, j) \in Nat /\ Distance(i, j) < TASK_QUEUE_SIZE
  BY SizeAssumption DEF Distance, Slot

(* Putting a task into a ring that is not full.                            *)
LEMMA PutKeepsRing ==
  ASSUME NEW q \in [Slot -> Nat], NEW h \in Slot, NEW t \in Slot,
         NEW f \in Nat, NEW a \in Nat,
         RingHolds(q, h, t, f, a), next_index(t) # h
  PROVE  /\ RingHolds([q EXCEPT ![t] = a + 1], h, next_index(t), f, a + 1)
         /\ h # next_index(t)
  <1>0. /\ next_index(t) \in Slot
        /\ next_index(t) = IF t = TASK_QUEUE_SIZE - 1 THEN 0 ELSE t + 1
    BY NextIndex
  <1>1. Distance(h, next_index(t)) = Distance(h, t) + 1
    BY <1>0, SizeAssumption DEF Distance, Slot
  <1>2. a + 1 = f + Distance(h, next_index(t))
    BY <1>1, DistanceType DEF RingHolds
  <1>3. ASSUME NEW k \in Slot, Distance(h, k) < Distance(h, next_index(t))
        PROVE  [q EXCEPT ![t] = a + 1][k] = f + 1 + Distance(h, k)
    <2>1. CASE k = t
      BY <2>1, <1>2, <1>1, SizeAssumption DEF RingHolds, Distance, Slot
    <2>2. CASE k # t
      <3>1. Distance(h, k) < Distance(h, t)
        BY <2>2, <1>3, <1>1, SizeAssumption DEF Distance, Slot
      <3> QED
        BY <2>2, <3>1 DEF RingHolds
    <2> QED
      BY <2>1, <2>2
  <1> QED
    BY <1>2, <1>3 DEF RingHolds

(* Taking the oldest task out of a ring that is not empty.                 *)
LEMMA TakeKeepsRing ==
  ASSUME NEW q \in [Slot -> Nat], NEW h \in Slot, NEW t \in Slot,
         NEW f \in Nat, NEW a \in Nat,
         RingHolds(q, h, t, f, a), h # t
  PROVE  /\ q[h] = f + 1
         /\ RingHolds(q, next_index(h), t, f + 1, a)
  <1>0. /\ next_index(h) \in Slot
        /\ next_index(h) = IF h = TASK_QUEUE_SIZE - 1 THEN 0 ELSE h + 1
    BY NextIndex
  <1>1. Distance(h, h) = 0 /\ Distance(h, t) > 0
    BY SizeAssumption DEF Distance, Slot
  <1>2. q[h] = f + 1
    BY <1>1 DEF RingHolds
  <1>3. Distance(next_index(h), t) = Distance(h, t) - 1
    BY <1>0, SizeAssumption DEF Distance, Slot
  <1>4. a = (f + 1) + Distance(next_index(h), t)
    BY <1>3, DistanceType DEF RingHolds
  <1>5. ASSUME NEW k \in Slot,
               Distance(next_index(h), k) < Distance(next_index(h), t)
        PROVE  q[k] = (f + 1) + 1 + Distance(next_index(h), k)
    <2>1. k # h
      BY <1>5, <1>0, SizeAssumption DEF Distance, Slot
    <2>2. Distance(next_index(h), k) = Distance(h, k) - 1
      BY <2>1, <1>0, SizeAssumption DEF Distance, Slot
    <2>3. Distance(h, k) < Distance(h, t)
      BY <2>2, <1>3, <1>5, SizeAssumption DEF Distance, Slot
    <2> QED
      BY <2>2, <2>3, DistanceType DEF RingHolds
  <1> QED
    BY <1>2, <1>4, <1>5 DEF RingHolds

-----------------------------------------------------------------------------
(* Every step keeps the types.                                             *)

LEMMA EnqueueType ==
  ASSUME TypeOK, NEW level \in Level, enqueue_task(level)
  PROVE  /\ task_queue' \in [Level -> [Slot -> Nat]]
         /\ head' \in [Level -> Slot]
         /\ tail' \in [Level -> Slot]
         /\ accepted' \in [Level -> Nat]
         /\ dropped' \in [Level -> Nat]
         /\ executed' \in [Level -> Nat]
  <1>1. next_index(tail[level]) \in Slot
    BY NextIndex DEF TypeOK
  <1>2. UNCHANGED <<head, executed>>
    BY DEF enqueue_task
  <1>3. CASE next_index(tail[level]) = head[level]
    <2>1. /\ UNCHANGED <<task_queue, tail, accepted>>
          /\ dropped' = [dropped EXCEPT ![level] = dropped[level] + 1]
      BY <1>3 DEF enqueue_task
    <2> QED
      BY <1>2, <2>1 DEF TypeOK
  <1>4. CASE next_index(tail[level]) # head[level]
    <2>1. /\ task_queue' =
               [task_queue EXCEPT ![level][tail[level]] = accepted[level] + 1]
          /\ tail' = [tail EXCEPT ![level] = next_index(tail[level])]
          /\ accepted' = [accepted EXCEPT ![level] = accepted[level] + 1]
          /\ dropped' = dropped
      BY <1>4 DEF enqueue_task
    <2>2. task_queue' \in [Level -> [Slot -> Nat]]
      BY <2>1 DEF TypeOK
    <2> QED
      BY <1>1, <1>2, <2>1, <2>2 DEF TypeOK
  <1> QED
    BY <1>3, <1>4

LEMMA DispatcherType ==
  ASSUME TypeOK, LevelInRange, NEW c \in Context, task_dispatcher(c)
  PROVE  TypeOK' /\ LevelInRange'
  <1> USE DEF TypeOK, LevelInRange, GoTo, Context, ControlPoint, Dispatching,
              InLoop, Level, TASK_MAX_PRIORITY, ring, locals, counts
  <1>1. CASE LoadHead(c)
    BY <1>1 DEF LoadHead
  <1>2. CASE LevelEmpty(c)
    BY <1>2 DEF LevelEmpty
  <1>3. CASE LevelNotEmpty(c)
    BY <1>3 DEF LevelNotEmpty
  <1>4. CASE ReloadHead(c)
    BY <1>4 DEF ReloadHead
  <1>5. CASE LoadTask(c)
    BY <1>5 DEF LoadTask
  <1>6. CASE StoreHead(c)
    <2>1. next_index(cur_lev_head[c]) \in Slot
      BY NextIndex
    <2> QED
      BY <1>6, <2>1 DEF StoreHead
  <1>7. CASE CallTask(c)
    BY <1>7 DEF CallTask
  <1>8. CASE Return(c)
    BY <1>8 DEF Return, Caller
  <1> QED
    BY <1>1, <1>2, <1>3, <1>4, <1>5, <1>6, <1>7, <1>8
    DEF task_dispatcher

LEMMA HandlerType ==
  ASSUME TypeOK, LevelInRange, ShellDispatch \/ test_asycn_mini_uart \/ LoadProgram \/ irq_handler
  PROVE  TypeOK' /\ LevelInRange'
  <1> USE DEF TypeOK, LevelInRange, GoTo, Enter, Context, ControlPoint,
              Dispatching, InLoop, TASK_MAX_PRIORITY, ring, locals, counts
  <1>1. CASE ShellDispatch
    BY <1>1 DEF ShellDispatch
  <1>2. CASE LoadProgram
    BY <1>2 DEF LoadProgram
  <1>3. CASE TimerIrq
    BY <1>3 DEF TimerIrq
  <1>4. CASE TimerExpired
    <2>1. TimerLevel \in Level
      BY DEF TimerLevel, Level
    <2> QED
      BY <1>4, <2>1, EnqueueType DEF TimerExpired
  <1>5. CASE TimerDoneEl1
    BY <1>5 DEF TimerDoneEl1
  <1>6. CASE TimerDoneEl0
    BY <1>6 DEF TimerDoneEl0
  <1>7. AuxLevel \in Level
    BY DEF AuxLevel, Level
  <1>8. CASE AuxIrqEl1
    BY <1>7, <1>8, EnqueueType DEF AuxIrqEl1
  <1>9. CASE AuxIrqEl0
    BY <1>7, <1>9, EnqueueType DEF AuxIrqEl0
  <1>10. CASE test_asycn_mini_uart
    BY <1>10 DEF test_asycn_mini_uart, StartAsyncUart, EndAsyncUart
  <1> QED
    BY <1>1, <1>2, <1>3, <1>4, <1>5, <1>6, <1>8, <1>9, <1>10 DEF irq_handler

-----------------------------------------------------------------------------
(* The timer's level has one consumer.                                     *)

LEMMA Alone ==
  ASSUME TypeOK, OneConsumer, NEW c \in Context, NEW d \in Context, d # c,
         pc[c] \in Dispatching, prior_level[c] = TimerLevel
  PROVE  ~(pc[d] \in Dispatching /\ prior_level[d] = TimerLevel)
  BY DEF TypeOK, OneConsumer, Context, ControlPoint, Dispatching,
         TimerLevel, AuxLevel, TASK_MAX_PRIORITY

LEMMA FetchedNat ==
  ASSUME TypeOK
  PROVE  Fetched \in Nat
  BY DEF TypeOK, Fetched, TimerLevel, Level, TASK_MAX_PRIORITY

(* A step of the dispatcher.                                               *)
LEMMA DispatcherStep ==
  ASSUME IInv, NEW c \in Context, task_dispatcher(c)
  PROVE  IInv'
  <1> USE DEF Context
  <1>1. TypeOK /\ LevelInRange /\ TypeOK' /\ LevelInRange'
    BY DispatcherType DEF IInv
  <1>2. OneConsumer'
    <2>1. pc["main"] = "user" <=> pc'["main"] = "user"
      BY <1>1 DEF task_dispatcher, LoadHead, LevelEmpty, LevelNotEmpty,
                  ReloadHead, LoadTask, StoreHead, CallTask, Return,
                  GoTo, Caller, TypeOK
    <2>2. pc[c] \in Dispatching
      BY DEF task_dispatcher, LoadHead, LevelEmpty, LevelNotEmpty,
                  ReloadHead, LoadTask, StoreHead, CallTask, Return,
                  GoTo, Dispatching
    <2>3. \A d \in Context : pc'[d] # pc[d] => d = c
      BY <1>1 DEF task_dispatcher, LoadHead, LevelEmpty, LevelNotEmpty,
                  ReloadHead, LoadTask, StoreHead, CallTask, Return,
                  GoTo, TypeOK
    <2>4. \/ prior_level' = prior_level
          \/ prior_level' = [prior_level EXCEPT ![c] = prior_level[c] + 1]
      BY DEF task_dispatcher, LoadHead, LevelEmpty, LevelNotEmpty,
             ReloadHead, LoadTask, StoreHead, CallTask, Return, locals
    <2>5. prior_level'["irq"] >= prior_level["irq"]
      BY <1>1, <2>4 DEF TypeOK
    <2> QED
      BY <1>1, <2>1, <2>2, <2>3, <2>5
      DEF IInv, OneConsumer, TypeOK, AuxLevel, TASK_MAX_PRIORITY
  <1>3. TimerLevel \in Level /\ Fetched \in Nat
    BY <1>1, FetchedNat DEF TimerLevel, Level, TASK_MAX_PRIORITY
  <1>4. \A d \in Context : d # c =>
            /\ pc'[d] = pc[d] /\ prior_level'[d] = prior_level[d]
            /\ cur_lev_head'[d] = cur_lev_head[d] /\ task'[d] = task[d]
    BY <1>1 DEF task_dispatcher, LoadHead, LevelEmpty, LevelNotEmpty,
                ReloadHead, LoadTask, StoreHead, CallTask, Return,
                GoTo, TypeOK, locals
  <1>5. pc[c] \in Dispatching
    BY DEF task_dispatcher, LoadHead, LevelEmpty, LevelNotEmpty, ReloadHead,
           LoadTask, StoreHead, CallTask, Return, GoTo, Dispatching
  <1>6. CASE prior_level[c] # TimerLevel
    <2>1. /\ task_queue'[TimerLevel] = task_queue[TimerLevel]
          /\ head'[TimerLevel] = head[TimerLevel]
          /\ tail'[TimerLevel] = tail[TimerLevel]
          /\ accepted'[TimerLevel] = accepted[TimerLevel]
          /\ executed'[TimerLevel] = executed[TimerLevel]
      BY <1>1, <1>3, <1>6
      DEF task_dispatcher, LoadHead, LevelEmpty, LevelNotEmpty, ReloadHead,
          LoadTask, StoreHead, CallTask, Return, TypeOK, ring, counts
    <2>2. prior_level'[c] = TimerLevel => pc'[c] = "loop"
      BY <1>1, <1>6
      DEF task_dispatcher, LoadHead, LevelEmpty, LevelNotEmpty, ReloadHead,
          LoadTask, StoreHead, CallTask, Return, TypeOK, locals, GoTo
    <2>3. \A d \in Context : Runs(d, TimerLevel)' <=> Runs(d, TimerLevel)
      BY <1>4, <1>6, <2>2 DEF Runs
    <2>4. Fetched' = Fetched
      BY <2>1, <2>3 DEF Fetched
    <2>5. TimerRingHolds'
      BY <2>1, <2>4 DEF IInv, TimerRingHolds
    <2>6. ASSUME NEW d \in Context PROVE ConsumerKnows(d)'
      <3>1. CASE d = c
        BY <3>1, <2>2 DEF ConsumerKnows
      <3>2. CASE d # c
        BY <3>2, <2>1, <1>4 DEF IInv, ConsumerKnows
      <3> QED
        BY <3>1, <3>2
    <2> QED
      BY <1>1, <1>2, <2>5, <2>6 DEF IInv
  <1>7. CASE prior_level[c] = TimerLevel
    <2>1. ASSUME NEW d \in Context, d # c
          PROVE  /\ ~Runs(d, TimerLevel) /\ ~Runs(d, TimerLevel)'
                 /\ ConsumerKnows(d)'
      BY <1>1, <1>4, <1>5, <1>7, <2>1, Alone
      DEF IInv, Runs, ConsumerKnows, Dispatching
    <2>2. /\ Fetched = executed[TimerLevel] + (IF pc[c] = "run" THEN 1 ELSE 0)
          /\ Fetched' = executed'[TimerLevel]
                          + (IF Runs(c, TimerLevel)' THEN 1 ELSE 0)
      BY <1>7, <2>1 DEF Fetched, Runs
    <2>3. ConsumerKnows(c) /\ TimerRingHolds
      BY DEF IInv
    <2>4. SUFFICES TimerRingHolds' /\ ConsumerKnows(c)'
      BY <1>1, <1>2, <2>1 DEF IInv
    <2>5. ASSUME UNCHANGED <<ring, counts>>, pc[c] # "run", pc'[c] # "run"
          PROVE  TimerRingHolds'
      BY <2>2, <2>3, <2>5 DEF TimerRingHolds, Runs, ring, counts
    <2>6. CASE LoadHead(c)
      BY <1>1, <2>5, <2>6
      DEF LoadHead, GoTo, TypeOK, ConsumerKnows, ring, counts
    <2>7. CASE LevelEmpty(c)
      BY <1>1, <2>5, <2>7
      DEF LevelEmpty, GoTo, TypeOK, ConsumerKnows, ring, counts
    <2>8. CASE LevelNotEmpty(c)
      BY <1>1, <1>7, <2>3, <2>5, <2>8
      DEF LevelNotEmpty, GoTo, TypeOK, ConsumerKnows, ring, locals, counts
    <2>9. CASE ReloadHead(c)
      BY <1>1, <1>7, <2>3, <2>5, <2>9
      DEF ReloadHead, GoTo, TypeOK, ConsumerKnows, ring, counts
    <2>10. CASE LoadTask(c)
      <3>1. TimerRingHolds'
        BY <1>1, <2>5, <2>10 DEF LoadTask, GoTo, TypeOK
      <3>2. task_queue[TimerLevel][head[TimerLevel]] = executed[TimerLevel] + 1
        <4>1. head[TimerLevel] # tail[TimerLevel] /\ pc[c] = "slot"
          BY <1>7, <2>3, <2>10 DEF LoadTask, GoTo, ConsumerKnows
        <4>2. task_queue[TimerLevel][head[TimerLevel]] = Fetched + 1
          BY <1>1, <1>3, <2>3, <4>1, TakeKeepsRing, ZenonT(60) DEF TimerRingHolds, TypeOK
        <4> QED
          BY <1>1, <1>3, <2>2, <4>1, <4>2 DEF TypeOK
      <3>3. ConsumerKnows(c)'
        BY <1>1, <1>7, <2>3, <2>10, <3>2
        DEF LoadTask, GoTo, TypeOK, ConsumerKnows, ring, counts
      <3> QED
        BY <3>1, <3>3
    <2>11. CASE StoreHead(c)
      <3> DEFINE h == head[TimerLevel]  t == tail[TimerLevel]
                 q == task_queue[TimerLevel]
      <3>1. cur_lev_head[c] = h /\ h # t /\ pc[c] = "advance"
            /\ task[c] = executed[TimerLevel] + 1
        BY <1>7, <2>3, <2>11 DEF StoreHead, GoTo, ConsumerKnows
      <3>2. /\ head'[TimerLevel] = next_index(h)
            /\ pc'[c] = "run"
            /\ UNCHANGED <<task_queue, tail, locals, counts>>
        BY <1>1, <1>3, <1>7, <2>11, <3>1 DEF StoreHead, GoTo, TypeOK
      <3>3. RingHolds(q, next_index(h), t, Fetched + 1, accepted[TimerLevel])
        BY <1>1, <1>3, <2>3, <3>1, TakeKeepsRing, ZenonT(60) DEF TimerRingHolds, TypeOK
      <3>4. Fetched' = Fetched + 1
        BY <1>1, <1>3, <1>7, <2>2, <3>1, <3>2 DEF Runs, locals, counts, TypeOK
      <3>5. TimerRingHolds'
        BY <3>2, <3>3, <3>4 DEF TimerRingHolds, counts
      <3> QED
        BY <1>7, <3>1, <3>2, <3>5 DEF ConsumerKnows, locals, counts
    <2>12. CASE CallTask(c)
      <3>1. /\ pc[c] = "run" /\ pc'[c] = "loop"
            /\ executed'[TimerLevel] = executed[TimerLevel] + 1
            /\ UNCHANGED <<ring, accepted>>
        BY <1>1, <1>3, <1>7, <2>12 DEF CallTask, GoTo, TypeOK
      <3>2. Fetched' = Fetched
        BY <1>1, <1>3, <2>2, <3>1 DEF Runs, TypeOK
      <3> QED
        BY <2>3, <3>1, <3>2 DEF TimerRingHolds, ConsumerKnows, ring
    <2>13. CASE Return(c)
      BY <1>1, <1>7, <2>13
      DEF Return, TimerLevel, TASK_MAX_PRIORITY
    <2> QED
      BY <2>6, <2>7, <2>8, <2>9, <2>10, <2>11, <2>12, <2>13
      DEF task_dispatcher
  <1> QED
    BY <1>6, <1>7

(* The shell and the interrupt handlers: only TimerExpired touches the     *)
(* timer's ring, at its tail.                                              *)
LEMMA HandlerStep ==
  ASSUME IInv, ShellDispatch \/ test_asycn_mini_uart \/ LoadProgram \/ irq_handler
  PROVE  IInv'
  <1> USE DEF Context
  <1>1. TypeOK /\ LevelInRange /\ TypeOK' /\ LevelInRange'
    BY HandlerType DEF IInv
  <1>2. TimerLevel \in Level /\ AuxLevel \in Level /\ TimerLevel # AuxLevel
    BY DEF TimerLevel, AuxLevel, Level, TASK_MAX_PRIORITY
  <1>3. OneConsumer'
    BY <1>1 DEF IInv, OneConsumer, TypeOK, ControlPoint, Dispatching, AuxLevel,
                TASK_MAX_PRIORITY, Enter, GoTo, Running, InKernel, ShellDispatch,
                test_asycn_mini_uart, StartAsyncUart, EndAsyncUart, LoadProgram, irq_handler, TimerIrq, TimerExpired, TimerDoneEl1,
                TimerDoneEl0, AuxIrqEl1, AuxIrqEl0, locals
  <1>4. \A c \in Context :
          \/ /\ pc'[c] = pc[c] /\ prior_level'[c] = prior_level[c]
             /\ cur_lev_head'[c] = cur_lev_head[c] /\ task'[c] = task[c]
          \/ pc[c] \notin InLoop /\ pc'[c] \notin InLoop
    BY <1>1 DEF InLoop, TypeOK, ControlPoint, Dispatching, Enter, GoTo,
                ShellDispatch, test_asycn_mini_uart, StartAsyncUart, EndAsyncUart,
                LoadProgram, irq_handler, TimerIrq, TimerExpired,
                TimerDoneEl1, TimerDoneEl0, AuxIrqEl1, AuxIrqEl0, locals
  <1>5. \A c \in Context : Runs(c, TimerLevel)' <=> Runs(c, TimerLevel)
    BY <1>4 DEF Runs, InLoop, Dispatching
  <1>6. head' = head /\ executed' = executed
    BY DEF ShellDispatch, test_asycn_mini_uart, StartAsyncUart, EndAsyncUart,
           LoadProgram, irq_handler, TimerIrq, TimerExpired,
           TimerDoneEl1, TimerDoneEl0, AuxIrqEl1, AuxIrqEl0, enqueue_task,
           ring, counts
  <1>7. Fetched' = Fetched /\ Fetched \in Nat
    BY <1>1, <1>5, <1>6, FetchedNat DEF Fetched
  <1>8. /\ TimerRingHolds'
        /\ head[TimerLevel] # tail[TimerLevel]
             => head'[TimerLevel] # tail'[TimerLevel]
    <2>1. CASE /\ task_queue'[TimerLevel] = task_queue[TimerLevel]
               /\ tail'[TimerLevel] = tail[TimerLevel]
               /\ accepted'[TimerLevel] = accepted[TimerLevel]
      BY <1>6, <1>7, <2>1 DEF IInv, TimerRingHolds
    <2>2. CASE /\ task_queue' = [task_queue EXCEPT
                    ![TimerLevel][tail[TimerLevel]] = accepted[TimerLevel] + 1]
               /\ tail' = [tail EXCEPT ![TimerLevel] = next_index(tail[TimerLevel])]
               /\ accepted' =
                    [accepted EXCEPT ![TimerLevel] = accepted[TimerLevel] + 1]
               /\ next_index(tail[TimerLevel]) # head[TimerLevel]
      <3> DEFINE h == head[TimerLevel]  t == tail[TimerLevel]
                 q == task_queue[TimerLevel]  a == accepted[TimerLevel]
      <3>1. q \in [Slot -> Nat] /\ h \in Slot /\ t \in Slot /\ a \in Nat
        BY <1>1, <1>2 DEF TypeOK
      <3>2. RingHolds(q, h, t, Fetched, a)
        BY DEF IInv, TimerRingHolds
      <3>3. /\ RingHolds([q EXCEPT ![t] = a + 1], h, next_index(t),
                         Fetched, a + 1)
            /\ h # next_index(t)
        <4> HIDE DEF h, t, q, a
        <4> QED
          BY <1>7, <2>2, <3>1, <3>2, PutKeepsRing DEF h, t
      <3>4. /\ task_queue'[TimerLevel] = [q EXCEPT ![t] = a + 1]
            /\ tail'[TimerLevel] = next_index(t)
            /\ accepted'[TimerLevel] = a + 1
        BY <1>1, <1>2, <2>2 DEF TypeOK
      <3> QED
        BY <1>6, <1>7, <3>3, <3>4 DEF TimerRingHolds
    <2>3. CASE enqueue_task(TimerLevel)
      BY <2>1, <2>2, <2>3 DEF enqueue_task
    <2>4. CASE enqueue_task(AuxLevel)
      BY <1>1, <1>2, <2>1, <2>4 DEF enqueue_task, TypeOK
    <2>5. CASE UNCHANGED <<ring, counts>>
      BY <2>1, <2>5 DEF ring, counts
    <2> QED
      BY <2>3, <2>4, <2>5
      DEF ShellDispatch, test_asycn_mini_uart, StartAsyncUart, EndAsyncUart,
          LoadProgram, irq_handler, TimerIrq, TimerExpired,
          TimerDoneEl1, TimerDoneEl0, AuxIrqEl1, AuxIrqEl0
  <1>9. ASSUME NEW c \in Context PROVE ConsumerKnows(c)'
    BY <1>4, <1>6, <1>8 DEF IInv, ConsumerKnows, InLoop, Dispatching
  <1> QED
    BY <1>1, <1>3, <1>8, <1>9 DEF IInv

-----------------------------------------------------------------------------
LEMMA InitIInv ==
  ASSUME Init
  PROVE  IInv
  <1>1. 0 \in Slot /\ TimerLevel \in Level
    BY SizeAssumption DEF Slot, Level, TimerLevel, TASK_MAX_PRIORITY
  <1>2. TypeOK
    BY <1>1 DEF Init, TypeOK, Context, ControlPoint, Dispatching, Caller,
                TASK_MAX_PRIORITY
  <1>3. \A c \in Context : pc[c] \notin Dispatching
    BY DEF Init, Context, Caller, Dispatching
  <1>4. LevelInRange /\ OneConsumer /\ \A c \in Context : ConsumerKnows(c)
    BY <1>3 DEF LevelInRange, OneConsumer, ConsumerKnows, InLoop, Dispatching,
                Context
  <1>5. Fetched = 0
    BY <1>1, <1>3 DEF Init, Fetched, Runs, Dispatching, Context
  <1>6. ASSUME NEW k \in Slot
        PROVE  ~(Distance(0, k) < Distance(0, 0))
    BY <1>6, SizeAssumption DEF Distance, Slot
  <1>7. TimerRingHolds
    BY <1>1, <1>5, <1>6 DEF Init, TimerRingHolds, RingHolds, Distance
  <1> QED
    BY <1>2, <1>4, <1>7 DEF IInv

(* A state that only stutters keeps every part of the invariant.           *)
LEMMA StutterStep ==
  ASSUME IInv, UNCHANGED vars
  PROVE  IInv'
  BY DEF IInv, vars, ring, locals, counts, TypeOK, LevelInRange, OneConsumer,
         TimerRingHolds, Fetched, Runs, ConsumerKnows

(* The strengthened invariant holds in every reachable state: types, one   *)
(* consumer per ring and what it knows about the task it has fetched.      *)
THEOREM Inductive == Spec => []IInv
  <1>1. Init => IInv
    BY InitIInv
  <1>2. IInv /\ [Next]_vars => IInv'
    BY DispatcherStep, HandlerStep, StutterStep DEF Next
  <1> QED
    BY <1>1, <1>2, PTL DEF Spec

(* The variables of the task queue keep their types: every index stays in  *)
(* its ring, and the dispatcher's level in the range of the three rings.   *)
THEOREM TypeCorrect == Spec => []TypeOK
  <1>1. IInv => TypeOK
    BY DEF IInv
  <1> QED
    BY <1>1, Inductive, PTL

(* Timer callbacks are called in the order the interrupts queued them,     *)
(* each once and none but those queued, however the interrupts fall        *)
(* between the loads and stores of the shell's dispatcher.                 *)
THEOREM CallbacksInOrder == Spec => []TimerTasksInOrder
  <1>1. IInv => TimerTasksInOrder
    BY DEF IInv, TimerTasksInOrder, ConsumerKnows, Runs
  <1> QED
    BY <1>1, Inductive, PTL

-----------------------------------------------------------------------------
(* The level of the UART.  While none of its interrupts arrives where main *)
(* dispatches, main finds that level empty; the interrupt that fills it    *)
(* leaves the dispatcher only when it is empty again.                      *)

AuxInv ==
  /\ pc["main"] \in Dispatching => pc["irq"] \in {"off", "timer"}
  /\ pc["irq"] \in {"off", "timer"} => task_queue_empty(AuxLevel)
  /\ pc["irq"] = "loop" /\ prior_level["irq"] > AuxLevel
       => task_queue_empty(AuxLevel)
  /\ \A c \in Context : pc[c] = "tail" /\ prior_level[c] = AuxLevel
                          => cur_lev_head[c] = head[AuxLevel]
  /\ pc["main"] \in InLoop \ {"tail"} => prior_level["main"] # AuxLevel

LEMMA AuxDispatcherStep ==
  ASSUME IInv, AuxInv, NEW c \in Context, task_dispatcher(c)
  PROVE  AuxInv'
  <1> USE DEF Context
  <1>1. /\ TypeOK /\ LevelInRange /\ TypeOK' /\ LevelInRange'
        /\ AuxLevel \in Level
    BY DispatcherType DEF IInv, AuxLevel, Level, TASK_MAX_PRIORITY
  <1> USE DEF AuxInv, TypeOK, ControlPoint, Dispatching, InLoop, GoTo, Running,
              task_queue_empty, ring, locals, counts
  <1>2. CASE LoadHead(c)
    BY <1>1, <1>2 DEF LoadHead, AuxLevel
  <1>3. CASE LevelEmpty(c)
    BY <1>1, <1>3 DEF LevelEmpty, AuxLevel, TASK_MAX_PRIORITY
  <1>4. CASE LevelNotEmpty(c)
    BY <1>1, <1>4 DEF LevelNotEmpty
  <1>5. CASE ReloadHead(c)
    BY <1>1, <1>5 DEF ReloadHead
  <1>6. CASE LoadTask(c)
    BY <1>1, <1>6 DEF LoadTask
  <1>7. CASE StoreHead(c)
    <2>1. CASE prior_level[c] = AuxLevel
      <3>1. c = "irq" /\ pc'["irq"] = "run" /\ pc'["main"] = pc["main"]
        BY <1>1, <1>7, <2>1 DEF StoreHead
      <3>2. pc["main"] \notin Dispatching
        BY <1>7, <3>1 DEF StoreHead
      <3> QED
        BY <1>1, <1>7, <3>1, <3>2 DEF StoreHead
    <2>2. CASE prior_level[c] # AuxLevel
      <3>1. head'[AuxLevel] = head[AuxLevel]
        BY <1>1, <1>7, <2>2 DEF StoreHead
      <3> QED
        BY <1>1, <1>7, <2>2, <3>1 DEF StoreHead
    <2> QED
      BY <2>1, <2>2
  <1>8. CASE CallTask(c)
    BY <1>1, <1>8 DEF CallTask, LevelInRange, AuxLevel, TASK_MAX_PRIORITY
  <1>9. CASE Return(c)
    BY <1>1, <1>9 DEF Return, Caller, AuxLevel
  <1> QED
    BY <1>2, <1>3, <1>4, <1>5, <1>6, <1>7, <1>8, <1>9
    DEF task_dispatcher

LEMMA AuxHandlerStep ==
  ASSUME IInv, AuxInv, ~LateAuxIrq,
         ShellDispatch \/ test_asycn_mini_uart \/ LoadProgram \/ irq_handler
  PROVE  AuxInv'
  <1> USE DEF Context
  <1>1. /\ TypeOK /\ LevelInRange /\ TypeOK' /\ LevelInRange'
        /\ AuxLevel \in Level /\ TimerLevel \in Level /\ TimerLevel # AuxLevel
    BY HandlerType
    DEF IInv, AuxLevel, TimerLevel, Level, TASK_MAX_PRIORITY
  <1> USE DEF AuxInv, TypeOK, ControlPoint, Dispatching, InLoop, GoTo, Running,
              InKernel, Enter, task_queue_empty, ring, locals, counts
  <1>2. CASE ShellDispatch
    BY <1>1, <1>2 DEF ShellDispatch
  <1>3. CASE LoadProgram
    BY <1>1, <1>3 DEF LoadProgram
  <1>4. CASE TimerIrq
    BY <1>1, <1>4 DEF TimerIrq
  <1>5. CASE TimerExpired
    <2>1. tail'[AuxLevel] = tail[AuxLevel] /\ head' = head
      BY <1>1, <1>5 DEF TimerExpired, enqueue_task
    <2> QED
      BY <1>1, <1>5, <2>1 DEF TimerExpired
  <1>6. CASE TimerDoneEl1
    BY <1>1, <1>6 DEF TimerDoneEl1
  <1>7. CASE TimerDoneEl0
    BY <1>1, <1>7 DEF TimerDoneEl0, AuxLevel, TASK_MAX_PRIORITY
  <1>8. CASE AuxIrqEl1
    <2>1. head' = head
      BY <1>8 DEF AuxIrqEl1, enqueue_task
    <2> QED
      BY <1>1, <1>8, <2>1 DEF AuxIrqEl1, AuxLevel, TASK_MAX_PRIORITY
  <1>9. CASE AuxIrqEl0
    <2>1. head' = head
      BY <1>9 DEF AuxIrqEl0, enqueue_task
    <2> QED
      BY <1>1, <1>9, <2>1 DEF AuxIrqEl0, AuxLevel, TASK_MAX_PRIORITY
  <1>10. CASE test_asycn_mini_uart
    BY <1>1, <1>10 DEF test_asycn_mini_uart, StartAsyncUart, EndAsyncUart
  <1> QED
    BY <1>2, <1>3, <1>4, <1>5, <1>6, <1>7, <1>8, <1>9, <1>10 DEF irq_handler

(* As long as no UART interrupt arrives while main dispatches (one may     *)
(* once async_uart has left the interrupt on), main never runs the UART    *)
(* handler, and that handler's ring is empty whenever no interrupt is      *)
(* being handled.                                                          *)
THEOREM AuxHandlerSafe ==
  ASSUME ~LateAuxIrq
  PROVE  Spec => []AuxHandlerAtOnce
  <1>1. Init => AuxInv
    BY DEF Init, AuxInv, Context, Caller, Dispatching, InLoop, task_queue_empty,
           Level, AuxLevel, TASK_MAX_PRIORITY
  <1>2. IInv /\ AuxInv /\ [Next]_vars => AuxInv'
    <2>1. ASSUME AuxInv, UNCHANGED vars
          PROVE  AuxInv'
      BY <2>1 DEF AuxInv, vars, ring, locals, task_queue_empty
    <2> QED
      BY <2>1, AuxDispatcherStep, AuxHandlerStep DEF Next
  <1>3. AuxInv => AuxHandlerAtOnce
    BY DEF AuxInv, AuxHandlerAtOnce, AuxRingDrained, Runs, InLoop, Dispatching
  <1> QED
    BY <1>1, <1>2, <1>3, Inductive, PTL DEF Spec

-----------------------------------------------------------------------------
(***************************************************************************)
(* The timer's ring implements TaskFifo: by the inductive invariant the    *)
(* state of the queue is four numbers - tasks fetched, accepted, dropped   *)
(* and executed - and each step moves at most one of them.                 *)
(***************************************************************************)

(* The state of the queue.                                                 *)

Full == TASK_QUEUE_SIZE - 1

(* The tasks that follow the first f, up to the n-th.                      *)
After(f, n) == [i \in 1 .. n - f |-> f + i]

(* The expressions TimerFifo puts for waiting and running.                 *)
RingTasks ==
  [i \in 1 .. Waiting(TimerLevel) |->
      task_queue[TimerLevel][(head[TimerLevel] + i - 1) % TASK_QUEUE_SIZE]]

SomeoneRuns == \E c \in Context : Runs(c, TimerLevel)

Runner ==
  IF SomeoneRuns THEN task[CHOOSE c \in Context : Runs(c, TimerLevel)] ELSE 0

Accepted == accepted[TimerLevel]
Dropped == dropped[TimerLevel]
Executed == executed[TimerLevel]

(* One more task is accepted, dropped, fetched or executed, or none.       *)
Accepts ==
  /\ Accepted - Fetched < Full /\ Accepted' = Accepted + 1
  /\ UNCHANGED <<Fetched, Dropped, Executed>>

Drops ==
  /\ Accepted - Fetched = Full /\ Dropped' = Dropped + 1
  /\ UNCHANGED <<Fetched, Accepted, Executed>>

Fetches ==
  /\ Fetched = Executed /\ Fetched < Accepted /\ Fetched' = Fetched + 1
  /\ UNCHANGED <<Accepted, Dropped, Executed>>

Executes ==
  /\ Fetched = Executed + 1 /\ Executed' = Executed + 1
  /\ UNCHANGED <<Fetched, Accepted, Dropped>>

Stays == UNCHANGED <<Fetched, Accepted, Dropped, Executed>>

-----------------------------------------------------------------------------
(* Consecutive tasks as a sequence.                                        *)

LEMMA AfterType ==
  ASSUME NEW f \in Nat, NEW n \in Nat, f <= n
  PROVE  After(f, n) \in Seq(Nat) /\ Len(After(f, n)) = n - f
  <1>1. n - f \in Nat
    OBVIOUS
  <1>2. \A i \in 1 .. n - f : f + i \in Nat
    OBVIOUS
  <1> QED
    BY <1>1, <1>2 DEF After

LEMMA AfterAppend ==
  ASSUME NEW f \in Nat, NEW n \in Nat, f <= n
  PROVE  Append(After(f, n), n + 1) = After(f, n + 1)
  <1> DEFINE s == After(f, n)  len == n - f
  <1>1. s \in Seq(Nat) /\ Len(s) = len /\ len \in Nat
    BY AfterType
  <1>2. /\ Append(s, n + 1) \in Seq(Nat)
        /\ Len(Append(s, n + 1)) = len + 1
        /\ \A i \in 1 .. len + 1 :
             Append(s, n + 1)[i] = IF i <= len THEN s[i] ELSE n + 1
    <2> HIDE DEF s, len
    <2> QED
      BY <1>1
  <1>3. \A i \in 1 .. len : s[i] = f + i
    BY DEF After
  <1>4. (n + 1) - f = len + 1 /\ n + 1 = f + (len + 1)
    OBVIOUS
  <1>5. \A i \in 1 .. len + 1 : Append(s, n + 1)[i] = f + i
    <2> HIDE DEF s
    <2> QED
      BY <1>2, <1>3, <1>4
  <1>6. /\ After(f, n + 1) \in Seq(Nat) /\ Len(After(f, n + 1)) = len + 1
        /\ \A i \in 1 .. len + 1 : After(f, n + 1)[i] = f + i
    BY <1>4, AfterType DEF After
  <1> HIDE DEF s, len
  <1> DEFINE u == Append(s, n + 1)  v == After(f, n + 1)
  <1>7. /\ u \in Seq(Nat) /\ v \in Seq(Nat) /\ Len(u) = Len(v)
        /\ \A i \in 1 .. Len(u) : u[i] = v[i]
    BY <1>1, <1>2, <1>5, <1>6
  <1>8. u = v
    <2> HIDE DEF u, v
    <2> QED
      BY <1>7, SeqEqual
  <1> QED
    BY <1>8 DEF s

LEMMA AfterTail ==
  ASSUME NEW f \in Nat, NEW n \in Nat, f < n
  PROVE  /\ After(f, n) # <<>>
         /\ Head(After(f, n)) = f + 1
         /\ Tail(After(f, n)) = After(f + 1, n)
  <1> DEFINE s == After(f, n)  len == n - f
  <1>1. s \in Seq(Nat) /\ Len(s) = len /\ len \in Nat /\ len > 0
    BY AfterType
  <1>2. /\ s # <<>> /\ Head(s) = s[1]
        /\ Tail(s) \in Seq(Nat) /\ Len(Tail(s)) = len - 1
        /\ \A i \in 1 .. len - 1 : Tail(s)[i] = s[i + 1]
    <2> HIDE DEF s, len
    <2> QED
      BY <1>1
  <1>3. \A i \in 1 .. len : s[i] = f + i
    BY DEF After
  <1>4. n - (f + 1) = len - 1
    OBVIOUS
  <1>5. /\ After(f + 1, n) \in Seq(Nat) /\ Len(After(f + 1, n)) = len - 1
        /\ \A i \in 1 .. len - 1 : After(f + 1, n)[i] = (f + 1) + i
    BY <1>4, AfterType DEF After
  <1> HIDE DEF s, len
  <1> DEFINE u == Tail(s)  v == After(f + 1, n)
  <1>6. \A i \in 1 .. len - 1 : u[i] = v[i]
    BY <1>1, <1>2, <1>3, <1>5
  <1>7. /\ u \in Seq(Nat) /\ v \in Seq(Nat) /\ Len(u) = Len(v)
        /\ \A i \in 1 .. Len(u) : u[i] = v[i]
    BY <1>1, <1>2, <1>5, <1>6
  <1>8. u = v
    <2> HIDE DEF u, v
    <2> QED
      BY <1>7, SeqEqual
  <1>9. Head(s) = f + 1
    BY <1>1, <1>2, <1>3
  <1> QED
    BY <1>2, <1>8, <1>9 DEF s

-----------------------------------------------------------------------------
(* What the invariant says of the mapped variables.                        *)

LEMMA Numbers ==
  ASSUME IInv
  PROVE  /\ Fetched \in Nat /\ Accepted \in Nat /\ Dropped \in Nat
         /\ Executed \in Nat
         /\ Fetched <= Accepted /\ Accepted - Fetched <= Full
         /\ Accepted - Fetched = Distance(head[TimerLevel], tail[TimerLevel])
         /\ Fetched = IF SomeoneRuns THEN Executed + 1 ELSE Executed
  <1>1. TypeOK /\ TimerLevel \in Level
    BY DEF IInv, TimerLevel, Level, TASK_MAX_PRIORITY
  <1>2. head[TimerLevel] \in Slot /\ tail[TimerLevel] \in Slot
    BY <1>1 DEF TypeOK
  <1>3. /\ Fetched \in Nat /\ Accepted \in Nat /\ Dropped \in Nat
        /\ Executed \in Nat
    BY <1>1, FetchedNat DEF TypeOK, Accepted, Dropped, Executed
  <1>4. Accepted = Fetched + Distance(head[TimerLevel], tail[TimerLevel])
    BY DEF IInv, TimerRingHolds, RingHolds, Accepted
  <1>5. SomeoneRuns <=> Runs("main", TimerLevel) \/ Runs("irq", TimerLevel)
    BY DEF SomeoneRuns, Context
  <1>6. Fetched = IF SomeoneRuns THEN Executed + 1 ELSE Executed
    BY <1>3, <1>5 DEF Fetched, Executed
  <1> QED
    BY <1>2, <1>3, <1>4, <1>6, DistanceType, SizeAssumption DEF Full

LEMMA RingTasksAfter ==
  ASSUME IInv
  PROVE  RingTasks = After(Fetched, Accepted)
  <1> DEFINE h == head[TimerLevel]  t == tail[TimerLevel]
             q == task_queue[TimerLevel]  len == Distance(h, t)
  <1>1. TypeOK /\ TimerLevel \in Level
    BY DEF IInv, TimerLevel, Level, TASK_MAX_PRIORITY
  <1>2. h \in Slot /\ t \in Slot
    BY <1>1 DEF TypeOK
  <1>3. len \in Nat /\ len < TASK_QUEUE_SIZE
    BY <1>2, DistanceType
  <1>4. Accepted - Fetched = len
    BY Numbers
  <1>5. \A k \in Slot : Distance(h, k) < len
          => q[k] = Fetched + 1 + Distance(h, k)
    BY DEF IInv, TimerRingHolds, RingHolds
  <1> HIDE DEF h, t, q, len
  <1>6. ASSUME NEW i \in 1 .. len
        PROVE  q[(h + i - 1) % TASK_QUEUE_SIZE] = Fetched + i
    <2> DEFINE k == (h + i - 1) % TASK_QUEUE_SIZE
    <2>1. k = IF h + i - 1 < TASK_QUEUE_SIZE THEN h + i - 1
                                              ELSE h + i - 1 - TASK_QUEUE_SIZE
      <3>1. CASE h + i - 1 < TASK_QUEUE_SIZE
        <4>1. h + i - 1 \in 0 .. TASK_QUEUE_SIZE - 1
          BY <1>2, <1>3, <3>1, SizeAssumption DEF Slot
        <4> QED
          BY <3>1, <4>1, SizeAssumption
      <3>2. CASE ~(h + i - 1 < TASK_QUEUE_SIZE)
        <4> DEFINE r == h + i - 1 - TASK_QUEUE_SIZE
        <4>1. r \in 0 .. TASK_QUEUE_SIZE - 1 /\ h + i - 1 = r + TASK_QUEUE_SIZE
          BY <1>2, <1>3, <3>2, SizeAssumption DEF Slot
        <4>2. (r + TASK_QUEUE_SIZE) % TASK_QUEUE_SIZE = r
          <5> HIDE DEF r
          <5> QED
            BY <4>1, SizeAssumption
        <4> QED
          BY <3>2, <4>1, <4>2
      <3> QED
        BY <3>1, <3>2
    <2> HIDE DEF k
    <2>2. k \in Slot /\ Distance(h, k) = i - 1
      BY <1>2, <1>3, <2>1, SizeAssumption DEF Distance, Slot
    <2>3. q[k] = Fetched + 1 + (i - 1)
      BY <1>3, <1>5, <2>2
    <2>4. Fetched + 1 + (i - 1) = Fetched + i
      BY Numbers
    <2> QED
      BY <2>3, <2>4 DEF k
  <1>7. RingTasks = [i \in 1 .. len |-> q[(h + i - 1) % TASK_QUEUE_SIZE]]
    BY DEF RingTasks, Waiting, h, t, q, len
  <1> QED
    BY <1>4, <1>6, <1>7 DEF After

LEMMA RunnerIs ==
  ASSUME IInv
  PROVE  Runner = IF Fetched = Executed THEN 0 ELSE Fetched
  <1>1. CASE SomeoneRuns
    <2> DEFINE c == CHOOSE c \in Context : Runs(c, TimerLevel)
    <2>1. c \in Context /\ Runs(c, TimerLevel)
      BY <1>1 DEF SomeoneRuns
    <2>2. task[c] = Executed + 1
      BY <2>1 DEF IInv, ConsumerKnows, Runs, Executed
    <2> QED
      BY <1>1, <2>2, Numbers DEF Runner
  <1>2. CASE ~SomeoneRuns
    BY <1>2, Numbers DEF Runner
  <1> QED
    BY <1>1, <1>2

-----------------------------------------------------------------------------
(* Each step moves at most one of the four numbers.                        *)

LEMMA DispatcherCounts ==
  ASSUME IInv, NEW c \in Context, task_dispatcher(c)
  PROVE  Fetches \/ Executes \/ Stays
  <1> USE DEF Context
  <1>1. TypeOK /\ TypeOK' /\ IInv' /\ TimerLevel \in Level
    BY DispatcherStep DEF IInv, TimerLevel, Level, TASK_MAX_PRIORITY
  <1>2. \A b \in Context : b # c =>
          pc'[b] = pc[b] /\ prior_level'[b] = prior_level[b]
    BY <1>1 DEF task_dispatcher, LoadHead, LevelEmpty, LevelNotEmpty,
                ReloadHead, LoadTask, StoreHead, CallTask, Return,
                GoTo, TypeOK, locals
  <1>3. UNCHANGED <<Accepted, Dropped>>
    BY DEF task_dispatcher, LoadHead, LevelEmpty, LevelNotEmpty, ReloadHead,
           LoadTask, StoreHead, CallTask, Return, counts, Accepted, Dropped
  <1>4. pc[c] \in Dispatching
    BY DEF task_dispatcher, LoadHead, LevelEmpty, LevelNotEmpty, ReloadHead,
           LoadTask, StoreHead, CallTask, Return, GoTo, Dispatching
  <1>5. ASSUME prior_level[c] = TimerLevel, NEW b \in Context, b # c
        PROVE  ~Runs(b, TimerLevel) /\ ~Runs(b, TimerLevel)'
    BY <1>1, <1>2, <1>4, <1>5, Alone DEF IInv, Runs, Dispatching
  <1>6. CASE StoreHead(c) /\ prior_level[c] = TimerLevel
    <2>1. /\ pc[c] = "advance" /\ pc'[c] = "run" /\ prior_level' = prior_level
          /\ executed' = executed
      BY <1>1, <1>6 DEF StoreHead, GoTo, locals, counts, TypeOK
    <2>2. head[TimerLevel] # tail[TimerLevel]
      BY <1>6, <2>1 DEF IInv, ConsumerKnows
    <2>3. ~SomeoneRuns /\ SomeoneRuns'
      BY <1>5, <1>6, <2>1 DEF SomeoneRuns, Runs
    <2>4. Distance(head[TimerLevel], tail[TimerLevel]) > 0
      <3>1. head[TimerLevel] \in Slot /\ tail[TimerLevel] \in Slot
        BY <1>1 DEF TypeOK
      <3> QED
        BY <2>2, <3>1, SizeAssumption DEF Distance, Slot
    <2>5. Fetched = Executed /\ Accepted > Fetched
      BY <2>3, <2>4, Numbers
    <2>6. Executed' = Executed
      BY <2>1 DEF Executed
    <2>7. Fetched' = Executed' + 1
      <3>1. /\ Fetched = executed[TimerLevel]
                 + (IF Runs("main", TimerLevel) \/ Runs("irq", TimerLevel)
                    THEN 1 ELSE 0)
        BY DEF Fetched
      <3>2. (Runs("main", TimerLevel) \/ Runs("irq", TimerLevel))'
        BY <2>3 DEF SomeoneRuns
      <3> QED
        BY <1>1, <3>2 DEF Fetched, Executed, TypeOK
    <2> QED
      BY <1>3, <2>5, <2>6, <2>7 DEF Fetches
  <1>7. CASE CallTask(c) /\ prior_level[c] = TimerLevel
    <2>1. /\ pc[c] = "run" /\ pc'[c] = "loop"
          /\ executed'[TimerLevel] = executed[TimerLevel] + 1
      BY <1>1, <1>7 DEF CallTask, GoTo, TypeOK
    <2>2. SomeoneRuns
      BY <1>7, <2>1 DEF SomeoneRuns, Runs
    <2>3. ~Runs("main", TimerLevel)' /\ ~Runs("irq", TimerLevel)'
      BY <1>5, <1>7, <2>1 DEF Runs
    <2>4. Fetched' = executed'[TimerLevel]
      BY <1>1, <2>3 DEF Fetched, TypeOK
    <2> QED
      BY <1>3, <2>1, <2>2, <2>4, Numbers DEF Executes, Executed
  <1>8. CASE ~(StoreHead(c) /\ prior_level[c] = TimerLevel)
             /\ ~(CallTask(c) /\ prior_level[c] = TimerLevel)
    <2>1. executed'[TimerLevel] = executed[TimerLevel]
      BY <1>1, <1>8 DEF task_dispatcher, LoadHead, LevelEmpty, LevelNotEmpty,
         ReloadHead, LoadTask, StoreHead, CallTask, Return, counts, TypeOK
    <2>2. Runs(c, TimerLevel)' <=> Runs(c, TimerLevel)
      <3>1. CASE StoreHead(c) \/ CallTask(c)
        BY <1>1, <1>8, <3>1 DEF StoreHead, CallTask, Runs, locals, TypeOK
      <3>2. CASE ~(StoreHead(c) \/ CallTask(c))
        BY <1>1, <3>2 DEF task_dispatcher, LoadHead, LevelEmpty,
           LevelNotEmpty, ReloadHead, LoadTask, Return, GoTo, Caller, Runs,
           locals, TypeOK
      <3> QED
        BY <3>1, <3>2
    <2>3. \A b \in Context : Runs(b, TimerLevel)' <=> Runs(b, TimerLevel)
      BY <1>2, <2>2 DEF Runs
    <2>4. Fetched' = Fetched
      BY <2>1, <2>3 DEF Fetched
    <2> QED
      BY <1>3, <2>1, <2>4 DEF Stays, Executed
  <1> QED
    BY <1>6, <1>7, <1>8

LEMMA HandlerCounts ==
  ASSUME IInv, ShellDispatch \/ test_asycn_mini_uart \/ LoadProgram \/ irq_handler
  PROVE  Accepts \/ Drops \/ Stays
  <1> USE DEF Context
  <1>1. TypeOK /\ TimerLevel \in Level /\ AuxLevel # TimerLevel
    BY DEF IInv, TimerLevel, AuxLevel, Level, TASK_MAX_PRIORITY
  <1>2. \A c \in Context :
          \/ pc'[c] = pc[c] /\ prior_level'[c] = prior_level[c]
          \/ pc[c] # "run" /\ pc'[c] # "run"
    BY <1>1 DEF TypeOK, ControlPoint, Dispatching, Enter, GoTo,
                ShellDispatch, test_asycn_mini_uart, StartAsyncUart, EndAsyncUart,
                LoadProgram, irq_handler, TimerIrq, TimerExpired,
                TimerDoneEl1, TimerDoneEl0, AuxIrqEl1, AuxIrqEl0, locals
  <1>3. \A c \in Context : Runs(c, TimerLevel)' <=> Runs(c, TimerLevel)
    BY <1>2 DEF Runs
  <1>4. executed' = executed
    BY DEF ShellDispatch, test_asycn_mini_uart, StartAsyncUart, EndAsyncUart,
           LoadProgram, irq_handler, TimerIrq, TimerExpired,
           TimerDoneEl1, TimerDoneEl0, AuxIrqEl1, AuxIrqEl0, enqueue_task,
           counts
  <1>5. UNCHANGED <<Fetched, Executed>>
    BY <1>3, <1>4 DEF Fetched, Executed
  <1>6. CASE enqueue_task(TimerLevel)
    <2> DEFINE h == head[TimerLevel]  t == tail[TimerLevel]
    <2>1. h \in Slot /\ t \in Slot /\ Distance(h, t) = Accepted - Fetched
      BY <1>1, Numbers DEF TypeOK
    <2>2. next_index(t) = h <=> Distance(h, t) = Full
      <3> HIDE DEF h, t
      <3>1. next_index(t) = IF t = TASK_QUEUE_SIZE - 1 THEN 0 ELSE t + 1
        BY <2>1, NextIndex
      <3> QED
        BY <2>1, <3>1, SizeAssumption DEF Distance, Slot, Full
    <2>3. CASE next_index(t) = h
      <3>1. /\ dropped'[TimerLevel] = dropped[TimerLevel] + 1
            /\ accepted' = accepted
        BY <1>1, <1>6, <2>3 DEF enqueue_task, TypeOK
      <3> QED
        BY <1>5, <2>1, <2>2, <2>3, <3>1 DEF Drops, Accepted, Dropped
    <2>4. CASE next_index(t) # h
      <3>1. /\ accepted'[TimerLevel] = accepted[TimerLevel] + 1
            /\ dropped' = dropped
        BY <1>1, <1>6, <2>4 DEF enqueue_task, TypeOK
      <3>2. Accepted - Fetched < Full
        <4> HIDE DEF h, t
        <4> QED
          BY <2>1, <2>2, <2>4, Numbers, SizeAssumption DEF Full
      <3> QED
        BY <1>5, <3>1, <3>2 DEF Accepts, Accepted, Dropped
    <2> QED
      BY <2>3, <2>4
  <1>7. CASE enqueue_task(AuxLevel)
    <2>1. accepted'[TimerLevel] = accepted[TimerLevel]
          /\ dropped'[TimerLevel] = dropped[TimerLevel]
      BY <1>1, <1>7 DEF enqueue_task, TypeOK
    <2> QED
      BY <1>5, <2>1 DEF Stays, Accepted, Dropped
  <1>8. CASE UNCHANGED counts
    BY <1>5, <1>8 DEF Stays, counts, Accepted, Dropped
  <1> QED
    BY <1>6, <1>7, <1>8
    DEF ShellDispatch, test_asycn_mini_uart, StartAsyncUart, EndAsyncUart,
        LoadProgram, irq_handler, TimerIrq, TimerExpired,
        TimerDoneEl1, TimerDoneEl0, AuxIrqEl1, AuxIrqEl0, counts

-----------------------------------------------------------------------------
(* Each of these moves is a step of the queue.                             *)

Mapped ==
  /\ Fetched \in Nat /\ Accepted \in Nat /\ Dropped \in Nat /\ Executed \in Nat
  /\ Fetched <= Accepted /\ Accepted - Fetched <= Full
  /\ Fetched = Executed \/ Fetched = Executed + 1
  /\ RingTasks = After(Fetched, Accepted)
  /\ Runner = IF Fetched = Executed THEN 0 ELSE Fetched

LEMMA IsMapped ==
  ASSUME IInv
  PROVE  Mapped
  BY Numbers, RingTasksAfter, RunnerIs DEF Mapped

LEMMA CountsAreQueue ==
  ASSUME Mapped, Mapped',
         Accepts \/ Drops \/ Fetches \/ Executes \/ Stays
  PROVE  [TimerFifo!Next]_(TimerFifo!vars)
  <1>1. CASE Accepts
    <2>1. RingTasks' = Append(RingTasks, Accepted + 1) /\ Runner' = Runner
          /\ Len(RingTasks) < Full /\ Accepted' = Accepted + 1
          /\ UNCHANGED <<Dropped, Executed>>
      BY <1>1, AfterType, AfterAppend DEF Mapped, Accepts
    <2>2. TimerFifo!Take
      BY <2>1 DEF TimerFifo!Take, RingTasks, Runner, SomeoneRuns, Full,
         Accepted, Dropped, Executed
    <2> QED
      BY <2>2 DEF TimerFifo!Next
  <1>2. CASE Drops
    <2>1. RingTasks' = RingTasks /\ Runner' = Runner
          /\ Len(RingTasks) = Full /\ Dropped' = Dropped + 1
          /\ UNCHANGED <<Accepted, Executed>>
      BY <1>2, AfterType DEF Mapped, Drops
    <2>2. TimerFifo!Refuse
      BY <2>1 DEF TimerFifo!Refuse, RingTasks, Runner, SomeoneRuns, Full,
         Accepted, Dropped, Executed
    <2> QED
      BY <2>2 DEF TimerFifo!Next
  <1>3. CASE Fetches
    <2>1. /\ RingTasks # <<>> /\ Head(RingTasks) = Fetched + 1
          /\ RingTasks' = Tail(RingTasks)
      BY <1>3, AfterTail DEF Mapped, Fetches
    <2>2. /\ Runner = 0 /\ Runner' = Fetched + 1
          /\ UNCHANGED <<Accepted, Dropped, Executed>>
      BY <1>3 DEF Mapped, Fetches
    <2>3. TimerFifo!Start
      BY <2>1, <2>2 DEF TimerFifo!Start, RingTasks, Runner, SomeoneRuns,
         Accepted, Dropped, Executed
    <2> QED
      BY <2>3 DEF TimerFifo!Next
  <1>4. CASE Executes
    <2>1. /\ RingTasks' = RingTasks /\ Runner # 0 /\ Runner' = 0
          /\ Executed' = Executed + 1 /\ UNCHANGED <<Accepted, Dropped>>
      BY <1>4 DEF Mapped, Executes
    <2>2. TimerFifo!Finish
      BY <2>1 DEF TimerFifo!Finish, RingTasks, Runner, SomeoneRuns, Accepted,
         Dropped, Executed
    <2> QED
      BY <2>2 DEF TimerFifo!Next
  <1>5. CASE Stays
    <2>1. UNCHANGED <<RingTasks, Runner, Accepted, Dropped, Executed>>
      BY <1>5 DEF Mapped, Stays
    <2> QED
      BY <2>1 DEF TimerFifo!vars, RingTasks, Runner, SomeoneRuns, Accepted,
         Dropped, Executed
  <1> QED
    BY <1>1, <1>2, <1>3, <1>4, <1>5

(* The timer's ring is a bounded first-in first-out queue: it accepts as   *)
(* long as it has room, drops only when it is full, and runs each task it  *)
(* accepted once, in turn and one at a time.                               *)
THEOREM RingIsFifo ==
  Spec => TimerFifo!Init /\ [][TimerFifo!Next]_(TimerFifo!vars)
  <1>1. Init => TimerFifo!Init
    <2> SUFFICES ASSUME Init PROVE TimerFifo!Init
      OBVIOUS
    <2>1. Mapped
      BY InitIInv, IsMapped
    <2>2. Accepted = 0 /\ Dropped = 0 /\ Executed = 0
      BY DEF Init, Accepted, Dropped, Executed, Level, TimerLevel,
         TASK_MAX_PRIORITY
    <2>3. Fetched = 0
      BY <2>1, <2>2 DEF Mapped
    <2>4. RingTasks = <<>> /\ Runner = 0
      BY <2>1, <2>2, <2>3 DEF Mapped, After
    <2> QED
      BY <2>2, <2>4
      DEF TimerFifo!Init, RingTasks, Runner, SomeoneRuns, Accepted, Dropped,
         Executed
  <1>2. IInv => Mapped
    BY IsMapped
  <1>3. IInv /\ Mapped /\ Mapped' /\ [Next]_vars
          => [TimerFifo!Next]_(TimerFifo!vars)
    <2> SUFFICES ASSUME IInv, Mapped, Mapped', [Next]_vars
                 PROVE  [TimerFifo!Next]_(TimerFifo!vars)
      OBVIOUS
    <2>1. CASE UNCHANGED vars
      <3>1. Stays
        BY <2>1 DEF Stays, Fetched, Runs, vars, locals, counts, Accepted,
           Dropped, Executed
      <3> QED
        BY <3>1, CountsAreQueue
    <2>2. CASE Next
      BY <2>2, DispatcherCounts, HandlerCounts, CountsAreQueue DEF Next
    <2> QED
      BY <2>1, <2>2
  <1> QED
    BY <1>1, <1>2, <1>3, Inductive, PTL DEF Spec

===============================================================================
