-------------------------------- MODULE Timer --------------------------------
(***************************************************************************)
(* Software timers multiplexed on the core timer (lab5/src/timer.c), from  *)
(* the shell command that asks for a message to the callback that prints   *)
(* it.                                                                     *)
(*                                                                         *)
(*   shell        takes a slot of msg_pool for the text, then a slot of    *)
(*                timer_pool with add_timer, which queues it by expiry     *)
(*                time and arms the core timer for the first one;          *)
(*   interrupt    core_timer_irq_handler moves every expired event to the  *)
(*                task queue and arms the timer for the next one;          *)
(*   dispatcher   calls the callback, which prints the message and gives   *)
(*                its slot back: in the shell, or in the interrupt handler *)
(*                once the shell has been left for a user program.         *)
(*                                                                         *)
(* The interrupt may come between any two steps of the shell.  add_timer   *)
(* and the handler run with interrupts masked, so no step of theirs is     *)
(* interrupted, but the counter goes on counting: between the moment they  *)
(* read it and the moment they write the timer up to MaxLatency ticks      *)
(* pass.  The linked list of events is a sequence of slots; the task queue *)
(* is the bounded first-in first-out queue that TaskQueue implements.      *)
(***************************************************************************)
EXTENDS Integers, FiniteSets, Sequences, SequencesExt

CONSTANTS
  MAX_TIMER_EVENTS, \* slots of timer_pool (32)
  MAX_MESSAGES,     \* slots of msg_pool (32)
  TASK_QUEUE_SIZE,  \* slots of a ring of the task queue (32)
  FRQ,              \* ticks of the counter in a second
  TvalRange,        \* 2^32: values of CNTP_TVAL
  CounterRange,     \* 2^64: values of CNTPCT and CNTP_CVAL
  Delays,           \* bound: the delays a user asks for, in seconds
  MaxNow,           \* bound: requests come before this time
  MaxLatency        \* bound: ticks from reading the counter to arming

ASSUME PoolAssumption ==
  MAX_TIMER_EVENTS \in Nat \ {0} /\ MAX_MESSAGES \in Nat \ {0}
ASSUME QueueAssumption == TASK_QUEUE_SIZE \in Nat \ {0, 1}
ASSUME TimeAssumption ==
  /\ FRQ \in Nat \ {0}
  /\ Delays \subseteq Nat
  /\ MaxNow \in Nat
  /\ MaxLatency \in Nat
ASSUME RangeAssumption ==
  TvalRange \in Nat \ {0} /\ CounterRange \in Nat \ {0}

NULL == -1
Event == 0 .. MAX_TIMER_EVENTS - 1
Msg == 0 .. MAX_MESSAGES - 1
Task == Msg \cup {NULL}   \* NULL: print_boot_time, which has no message

VARIABLES
  timer_pool,       \* [Event -> [expire_time, data]]
  timer_pool_used,  \* [Event -> BOOLEAN]
  timer_queue,      \* Seq(Event), in the order of the linked list
  msg_pool_used,    \* [Msg -> BOOLEAN]
  waiting,          \* Seq(Task): the timer's level of the task queue
  running,          \* <<>> or <<t>>: the task whose callback runs
  pc,               \* control point of "main" and of "irq"
  msg_slot,         \* main's local: the slot of the message being set
  irq_masked,       \* DAIF.I of main
  now,              \* CNTPCT
  cval,             \* CNTP_CVAL: the timer interrupts once now >= cval
  cur_ticks         \* the handler's local

pool == <<timer_pool, timer_pool_used, timer_queue>>
tasks == <<waiting, running>>
clock == <<now, cval>>
vars == <<pool, msg_pool_used, tasks, pc, msg_slot, irq_masked, clock, cur_ticks>>

expire_time(e) == timer_pool[e].expire_time

TypeOK ==
  /\ timer_pool \in [Event -> [expire_time : Nat, data : Task]]
  /\ timer_pool_used \in [Event -> BOOLEAN]
  /\ timer_queue \in Seq(Event)
  /\ msg_pool_used \in [Msg -> BOOLEAN]
  /\ waiting \in Seq(Task) /\ Len(waiting) < TASK_QUEUE_SIZE
  /\ running \in Seq(Task) /\ Len(running) <= 1
  /\ pc \in [main : {"shell", "message", "user"},
             irq  : {"off", "expire", "dispatch"}]
  /\ msg_slot \in Task
  /\ irq_masked \in BOOLEAN
  /\ now \in Nat /\ cval \in Nat /\ cur_ticks \in Nat

-----------------------------------------------------------------------------
(* The core timer.                                                         *)

(* CNTP_TVAL is 32 bits wide and signed.                                   *)
SignExtend(x) ==
  LET t == x % TvalRange IN IF 2 * t < TvalRange THEN t ELSE t - TvalRange

(* A write of the register when up to MaxLatency ticks have passed since   *)
(* the counter was read.                                                   *)
core_timer_set_timeout_ticks(ticks) ==
  \E late \in 0 .. MaxLatency :
    /\ now' = now + late
    /\ cval' = (now' + SignExtend(ticks)) % CounterRange

core_timer_set_timeout(sec) == core_timer_set_timeout_ticks(FRQ * sec)

(* Time passes: in a run, up to the last interrupt there is work for.      *)
Tick ==
  /\ pc.irq = "off"
  /\ \/ now < MaxNow
     \/ now < cval /\ timer_queue # <<>>
     \/ now < cval /\ waiting # <<>> /\ pc.main = "user"
  /\ now' = now + 1
  /\ UNCHANGED <<pool, msg_pool_used, tasks, pc, msg_slot, irq_masked, cval,
                 cur_ticks>>

-----------------------------------------------------------------------------
(* The shell.                                                              *)

Main(from, to) ==
  /\ pc.irq = "off"
  /\ pc.main = from
  /\ pc' = [pc EXCEPT !.main = to]

FirstFree(used, s) == ~used[s] /\ \A r \in DOMAIN used : r < s => used[r]

(* [mutant of alloc_msg_slot] the slot is not marked as used *)
AllocUnmarked ==
  /\ now < MaxNow
  /\ running = <<>>
  /\ Main("shell", "message")
  /\ \E m \in Msg : FirstFree(msg_pool_used, m) /\ msg_slot' = m
  /\ UNCHANGED <<pool, msg_pool_used, tasks, irq_masked, clock, cur_ticks>>

(* set_message_timer, first half.  When no slot is left the command only   *)
(* says so.                                                                *)
alloc_msg_slot ==
  /\ now < MaxNow
  /\ running = <<>>
  /\ Main("shell", "message")
  /\ \E m \in Msg :
       /\ FirstFree(msg_pool_used, m)
       /\ msg_slot' = m
       /\ msg_pool_used' = [msg_pool_used EXCEPT ![m] = TRUE]
  /\ UNCHANGED <<pool, tasks, irq_masked, clock, cur_ticks>>

Earliest(t) == timer_queue # <<>> => t < expire_time(timer_queue[1])

(* [mutant of Position] an event that is not the earliest goes to the end *)
FrontOrBack(at, t) ==
  at = IF Earliest(t) THEN 1 ELSE Len(timer_queue) + 1

(* Where add_timer puts an event due at time t: in front when it is the    *)
(* earliest; else its loop stops behind the first event whose successor is *)
(* not earlier than t.                                                     *)
Position(at, t) ==
  IF Earliest(t) THEN at = 1
  ELSE LET Stop(i) == i < Len(timer_queue)
                        => expire_time(timer_queue[i + 1]) >= t
       IN at > 1 /\ Stop(at - 1) /\ \A i \in 1 .. at - 2 : ~Stop(i)

(* No slot: the function returns with interrupts still masked.             *)
NoTimerSlot ==
  /\ \A e \in Event : timer_pool_used[e]
  /\ irq_masked' = TRUE
  /\ UNCHANGED <<pool, clock>>

AddEvent(e, at, expire, data) ==
  /\ FirstFree(timer_pool_used, e)
  /\ Position(at, expire)
  /\ timer_pool_used' = [timer_pool_used EXCEPT ![e] = TRUE]
  /\ timer_pool' =
       [timer_pool EXCEPT ![e] = [expire_time |-> expire, data |-> data]]
  /\ timer_queue' = InsertAt(timer_queue, at, e)

(* [mutant of QueueTimer] the timer is armed for the first event only *)
ArmWhenEmpty(data, delay_secs) ==
  LET expire == now + delay_secs * FRQ IN
  /\ \E e \in Event, at \in 1 .. Len(timer_queue) + 1 :
       /\ AddEvent(e, at, expire, data)
       /\ IF timer_queue = <<>> THEN core_timer_set_timeout_ticks(expire - now)
                                ELSE UNCHANGED clock
  /\ irq_masked' = FALSE

QueueTimer(data, delay_secs) ==
  LET expire == now + delay_secs * FRQ IN
  /\ \E e \in Event, at \in 1 .. Len(timer_queue) + 1 :
       /\ AddEvent(e, at, expire, data)
       /\ IF at = 1 THEN core_timer_set_timeout_ticks(expire - now)
                    ELSE UNCHANGED clock
  /\ irq_masked' = FALSE

add_timer(data, delay_secs) ==
  NoTimerSlot \/ QueueTimer(data, delay_secs)

(* set_message_timer, second half.                                         *)
set_message_timer ==
  /\ Main("message", "shell")
  /\ \E secs \in Delays : add_timer(msg_slot, secs)
  /\ msg_slot' = NULL
  /\ UNCHANGED <<msg_pool_used, tasks, cur_ticks>>

set_btime_timer ==
  /\ now < MaxNow
  /\ running = <<>>
  /\ Main("shell", "shell")
  /\ add_timer(NULL, 1)
  /\ UNCHANGED <<msg_pool_used, tasks, msg_slot, cur_ticks>>

(* load_program: SPSR_EL1 = 0x340 unmasks interrupts in the program.       *)
LoadProgram ==
  /\ running = <<>>
  /\ Main("shell", "user")
  /\ irq_masked' = FALSE
  /\ UNCHANGED <<pool, msg_pool_used, tasks, msg_slot, clock, cur_ticks>>

-----------------------------------------------------------------------------
(* The dispatcher, in the shell or in the handler.                         *)

(* [mutant of Dispatches] the handler leaves the tasks to the shell *)
DispatchesInShell == pc.irq = "off" /\ pc.main = "shell"

Dispatches ==
  \/ pc.irq = "off" /\ pc.main = "shell"
  \/ pc.irq = "dispatch"

TakeTask ==
  /\ Dispatches
  /\ running = <<>> /\ waiting # <<>>
  /\ running' = <<Head(waiting)>>
  /\ waiting' = Tail(waiting)
  /\ UNCHANGED <<pool, msg_pool_used, pc, msg_slot, irq_masked, clock,
                 cur_ticks>>

print_msg_callback ==
  /\ Dispatches
  /\ running # <<>> /\ running # <<NULL>>
  /\ msg_pool_used' = [msg_pool_used EXCEPT ![running[1]] = FALSE]
  /\ running' = <<>>
  /\ UNCHANGED <<pool, waiting, pc, msg_slot, irq_masked, clock, cur_ticks>>

print_boot_time ==
  /\ Dispatches
  /\ running = <<NULL>>
  /\ running' = <<>>
  /\ UNCHANGED <<pool, msg_pool_used, waiting, pc, msg_slot, irq_masked, clock,
                 cur_ticks>>

dispatcher == TakeTask \/ print_msg_callback \/ print_boot_time

-----------------------------------------------------------------------------
(* The interrupt.                                                          *)

TimerIrq ==
  /\ pc.irq = "off" /\ ~irq_masked /\ now >= cval
  /\ pc' = [pc EXCEPT !.irq = "expire"]
  /\ cur_ticks' = now
  /\ UNCHANGED <<pool, msg_pool_used, tasks, msg_slot, irq_masked, clock>>

Expired == timer_queue # <<>> /\ expire_time(timer_queue[1]) <= cur_ticks

(* [mutant of enqueue_task] no check for a full ring *)
EnqueueUnchecked(t) == waiting' = Append(waiting, t)

(* [mutant of enqueue_task] one more slot is kept empty *)
EnqueueShort(t) ==
  waiting' = IF Len(waiting) < TASK_QUEUE_SIZE - 2 THEN Append(waiting, t)
                                                   ELSE waiting

(* A full ring drops the task.                                             *)
enqueue_task(t) ==
  waiting' = IF Len(waiting) < TASK_QUEUE_SIZE - 1 THEN Append(waiting, t)
                                                   ELSE waiting

ExpireEvent ==
  /\ pc.irq = "expire" /\ Expired
  /\ enqueue_task(timer_pool[timer_queue[1]].data)
  /\ timer_pool_used' = [timer_pool_used EXCEPT ![timer_queue[1]] = FALSE]
  /\ timer_queue' = Tail(timer_queue)
  /\ UNCHANGED <<timer_pool, msg_pool_used, running, pc, msg_slot, irq_masked,
                 clock, cur_ticks>>

SetNextTimeout ==
  IF timer_queue = <<>> THEN core_timer_set_timeout(1)
  ELSE LET delay == expire_time(timer_queue[1]) - cur_ticks
       IN core_timer_set_timeout_ticks(IF delay <= 0 THEN 10 ELSE delay)

(* The handler arms the timer; the one of EL1 returns, the one of EL0 goes *)
(* on to the dispatcher.                                                   *)
Rearm ==
  /\ pc.irq = "expire" /\ ~Expired
  /\ SetNextTimeout
  /\ pc' = [pc EXCEPT !.irq = IF pc.main = "user" THEN "dispatch" ELSE "off"]
  /\ UNCHANGED <<pool, msg_pool_used, tasks, msg_slot, irq_masked, cur_ticks>>

DispatchDone ==
  /\ pc.irq = "dispatch" /\ waiting = <<>> /\ running = <<>>
  /\ pc' = [pc EXCEPT !.irq = "off"]
  /\ UNCHANGED <<pool, msg_pool_used, tasks, msg_slot, irq_masked, clock,
                 cur_ticks>>

-----------------------------------------------------------------------------
(* irq_init has armed the timer for one second.                            *)
Init ==
  /\ timer_pool = [e \in Event |-> [expire_time |-> 0, data |-> NULL]]
  /\ timer_pool_used = [e \in Event |-> FALSE]
  /\ timer_queue = <<>>
  /\ msg_pool_used = [m \in Msg |-> FALSE]
  /\ waiting = <<>> /\ running = <<>>
  /\ pc = [main |-> "shell", irq |-> "off"]
  /\ msg_slot = NULL
  /\ irq_masked = FALSE
  /\ now = 0 /\ cval = FRQ /\ cur_ticks = 0

Next ==
  \/ Tick
  \/ alloc_msg_slot \/ set_message_timer \/ set_btime_timer \/ LoadProgram
  \/ dispatcher
  \/ TimerIrq \/ ExpireEvent \/ Rearm \/ DispatchDone

(* Time passes.  A pending interrupt is taken, and a handler runs to its   *)
(* end.  The shell finishes the command it is in, and dispatches.          *)
Fairness ==
  /\ SF_vars(Tick)
  /\ WF_vars(TimerIrq)
  /\ WF_vars(ExpireEvent) /\ WF_vars(Rearm) /\ WF_vars(DispatchDone)
  /\ SF_vars(set_message_timer)
  /\ SF_vars(dispatcher)

Spec == Init /\ [][Next]_vars /\ Fairness

-----------------------------------------------------------------------------
(* Properties.                                                             *)

(* timer_pool_used and the queue agree: a slot is in use if and only if    *)
(* its event is queued, and it is queued once.  (An event taken off the    *)
(* list and not freed, or freed and still listed, breaks it.)              *)
SlotsAreQueued ==
  /\ \A i, j \in 1 .. Len(timer_queue) :
       timer_queue[i] = timer_queue[j] => i = j
  /\ \A e \in Event :
       timer_pool_used[e] <=> \E i \in 1 .. Len(timer_queue) : timer_queue[i] = e

(* The queue is sorted, so that the handler may stop at the first event    *)
(* that is not due.                                                        *)
QueueSorted ==
  \A i, j \in 1 .. Len(timer_queue) :
    i < j => expire_time(timer_queue[i]) <= expire_time(timer_queue[j])

(* The queue holds every pending event once, the earliest first.           *)
QueueExact == SlotsAreQueued /\ QueueSorted

(* Outside the handler the one hardware timer is armed for the first event *)
(* of the queue: never before it is due, and late only by the time that    *)
(* passes between reading the counter and writing the timer.               *)
ArmedForFirst ==
  pc.irq # "expire" /\ timer_queue # <<>> =>
    LET due == expire_time(timer_queue[1]) IN cval \in due .. due + MaxLatency

(* Who holds a message: the shell about to call add_timer, an event, a     *)
(* task in the ring, or the callback that runs.                            *)
Holders(m) ==
  {<<"event", e>> : e \in {e \in Event :
      timer_pool_used[e] /\ timer_pool[e].data = m}}
  \cup {<<"task", i>> : i \in {i \in 1 .. Len(waiting) : waiting[i] = m}}
  \cup (IF running = <<m>> THEN {<<"callback", 0>>} ELSE {})
  \cup (IF msg_slot = m THEN {<<"shell", 0>>} ELSE {})

(* A message slot has one holder, and is not given out again before its    *)
(* text is printed.                                                        *)
MessageHeldOnce ==
  \A m \in Msg : /\ Cardinality(Holders(m)) <= 1
                 /\ Holders(m) # {} => msg_pool_used[m]

(* A message that is not printed has met a full ring or a full timer_pool: *)
(* nothing else makes its last holder go away.                             *)
LostOnlyWhenFull ==
  [][\A m \in Msg :
       Holders(m) # {} /\ Holders(m)' = {} =>
         \/ ~msg_pool_used'[m]
         \/ Len(waiting) = TASK_QUEUE_SIZE - 1
         \/ \A e \in Event : timer_pool_used[e]]_vars

(* Every message somebody holds comes to its end (LostOnlyWhenFull says    *)
(* which ends there are), in the shell and when a program runs, unless     *)
(* add_timer has left interrupts masked.                                   *)
MessagesEnd ==
  \A m \in Msg : Holders(m) # {} ~> Holders(m) = {} \/ irq_masked

=============================================================================
