------------------------------ MODULE TaskQueue ------------------------------
(***************************************************************************)
(* The multi-level task queue of the kernel (lab5/src/exception.c): the    *)
(* interrupt handlers put deferred work into three ring buffers with       *)
(* enqueue_task, and task_dispatcher takes it out again.                   *)
(*                                                                         *)
(* One CPU runs two contexts.  "main" is the shell: interrupts are on, and *)
(* an interrupt may arrive between any two of its memory accesses, so its  *)
(* run of task_dispatcher is cut into one step per load and store (the     *)
(* kernel is built without optimisation, each access of ML_task_queue is   *)
(* its own instruction).  "irq" is the interrupt handler: it masks         *)
(* interrupts, so main makes no step until it is back.  Both contexts run  *)
(* the same task_dispatcher, which is why it is written once, for a        *)
(* context c.                                                              *)
(*                                                                         *)
(* The tasks of a level are numbered 1, 2, 3 ... in the order enqueue_task *)
(* accepts them; 0 is the null function pointer of a slot never written.   *)
(***************************************************************************)
EXTENDS Integers

CONSTANTS
  TASK_QUEUE_SIZE,  \* slots of one ring (32 in the code)
  MaxTasks,         \* bound: calls of enqueue_task per level
  LateAuxIrq        \* may a UART interrupt arrive while main dispatches?

ASSUME SizeAssumption == TASK_QUEUE_SIZE \in Nat \ {0, 1}
ASSUME BoundAssumption == MaxTasks \in Nat
ASSUME LateAssumption == LateAuxIrq \in BOOLEAN

TASK_MAX_PRIORITY == 2
Level == 0 .. TASK_MAX_PRIORITY
TimerLevel == TASK_MAX_PRIORITY - 1    \* core_timer_irq_handler
AuxLevel == TASK_MAX_PRIORITY          \* mini_uart_irq_handler
Slot == 0 .. TASK_QUEUE_SIZE - 1
Context == {"main", "irq"}

VARIABLES
  task_queue,   \* [Level -> [Slot -> Nat]]: the task in each slot
  head, tail,   \* [Level -> Slot]
  pc,           \* [Context -> control point]
  prior_level,  \* [Context -> Nat]: the dispatcher's level
  cur_lev_head, \* [Context -> Slot]: the head it loaded last
  task,         \* [Context -> Nat]: the task it loaded last
  accepted,     \* [Level -> Nat]: tasks written to a ring so far
  dropped,      \* [Level -> Nat]: calls of enqueue_task that found it full
  executed,     \* [Level -> Nat]: tasks whose function was called
  aux_irq       \* 0 or 1: bit 29 of ENB_IRQs1, the UART's interrupt

ring == <<task_queue, head, tail>>
locals == <<prior_level, cur_lev_head, task>>
counts == <<accepted, dropped, executed>>
vars == <<ring, pc, locals, counts, aux_irq>>

(* Control points.  Outside the dispatcher main is in the "shell" (any     *)
(* other kernel code), in the command async_uart or in a "user" program at *)
(* EL0; the handler is "off", or in the loop of the "timer" handler.       *)
Dispatching == {"loop", "tail", "head", "slot", "advance", "run"}
ControlPoint == [main |-> Dispatching \cup {"shell", "async", "user"},
                 irq  |-> Dispatching \cup {"off", "timer"}]

TypeOK ==
  /\ task_queue \in [Level -> [Slot -> Nat]]
  /\ head \in [Level -> Slot]
  /\ tail \in [Level -> Slot]
  /\ pc \in [Context -> ControlPoint.main \cup ControlPoint.irq]
  /\ \A c \in Context : pc[c] \in ControlPoint[c]
  /\ prior_level \in [Context -> 0 .. TASK_MAX_PRIORITY + 1]
  /\ cur_lev_head \in [Context -> Slot]
  /\ task \in [Context -> Nat]
  /\ accepted \in [Level -> Nat]
  /\ dropped \in [Level -> Nat]
  /\ executed \in [Level -> Nat]
  /\ aux_irq \in {0, 1}

-----------------------------------------------------------------------------
(* The ring operations.                                                    *)

next_index(i) == (i + 1) % TASK_QUEUE_SIZE

task_queue_empty(level) == head[level] = tail[level]

(* [mutant of enqueue_task] no check for a full ring *)
EnqueueUnchecked(level) ==
  /\ accepted[level] + dropped[level] < MaxTasks
  /\ task_queue' =
       [task_queue EXCEPT ![level][tail[level]] = accepted[level] + 1]
  /\ tail' = [tail EXCEPT ![level] = next_index(@)]
  /\ accepted' = [accepted EXCEPT ![level] = @ + 1]
  /\ UNCHANGED <<head, dropped, executed>>

(* A full ring drops the task without telling its caller.                  *)
enqueue_task(level) ==
  /\ accepted[level] + dropped[level] < MaxTasks
  /\ \/ /\ next_index(tail[level]) = head[level]
        /\ dropped' = [dropped EXCEPT ![level] = @ + 1]
        /\ UNCHANGED <<task_queue, tail, accepted>>
     \/ /\ next_index(tail[level]) # head[level]
        /\ task_queue' =
             [task_queue EXCEPT ![level][tail[level]] = accepted[level] + 1]
        /\ tail' = [tail EXCEPT ![level] = next_index(@)]
        /\ accepted' = [accepted EXCEPT ![level] = @ + 1]
        /\ UNCHANGED dropped
  /\ UNCHANGED <<head, executed>>

-----------------------------------------------------------------------------
(* task_dispatcher(level), run by context c.                               *)

(* main makes a step only while no interrupt is being handled.             *)
Running(c) == c = "main" => pc["irq"] = "off"

(* Where the dispatcher returns to.                                        *)
Caller == [main |-> "shell", irq |-> "off"]

GoTo(c, from, to) ==
  /\ Running(c)
  /\ pc[c] = from
  /\ pc' = [pc EXCEPT ![c] = to]

(* head[level] is loaded first, tail[level] by the next instruction.       *)
LoadHead(c) ==
  /\ prior_level[c] <= TASK_MAX_PRIORITY
  /\ GoTo(c, "loop", "tail")
  /\ cur_lev_head' = [cur_lev_head EXCEPT ![c] = head[prior_level[c]]]
  /\ UNCHANGED <<ring, prior_level, task, counts, aux_irq>>

(* [mutant of LevelEmpty] an empty level ends the search *)
StopAtEmpty(c) ==
  /\ GoTo(c, "tail", "loop")
  /\ cur_lev_head[c] = tail[prior_level[c]]
  /\ prior_level' = [prior_level EXCEPT ![c] = TASK_MAX_PRIORITY + 1]
  /\ UNCHANGED <<ring, cur_lev_head, task, counts, aux_irq>>

LevelEmpty(c) ==
  /\ GoTo(c, "tail", "loop")
  /\ cur_lev_head[c] = tail[prior_level[c]]
  /\ prior_level' = [prior_level EXCEPT ![c] = @ + 1]
  /\ UNCHANGED <<ring, cur_lev_head, task, counts, aux_irq>>

LevelNotEmpty(c) ==
  /\ GoTo(c, "tail", "head")
  /\ cur_lev_head[c] # tail[prior_level[c]]
  /\ UNCHANGED <<ring, locals, counts, aux_irq>>

(* head[level] is loaded again for the body of the loop.                   *)
ReloadHead(c) ==
  /\ GoTo(c, "head", "slot")
  /\ cur_lev_head' = [cur_lev_head EXCEPT ![c] = head[prior_level[c]]]
  /\ UNCHANGED <<ring, prior_level, task, counts, aux_irq>>

LoadTask(c) ==
  /\ GoTo(c, "slot", "advance")
  /\ task' = [task EXCEPT ![c] = task_queue[prior_level[c]][cur_lev_head[c]]]
  /\ UNCHANGED <<ring, prior_level, cur_lev_head, counts, aux_irq>>

StoreHead(c) ==
  /\ GoTo(c, "advance", "run")
  /\ head' = [head EXCEPT ![prior_level[c]] = next_index(cur_lev_head[c])]
  /\ UNCHANGED <<task_queue, tail, locals, counts, aux_irq>>

(* task.func(task.arg): the callback runs and returns to the loop.  A slot *)
(* never written holds a null pointer, and who calls it stays there.       *)
CallTask(c) ==
  /\ GoTo(c, "run", "loop")
  /\ task[c] # 0
  /\ executed' = [executed EXCEPT ![prior_level[c]] = @ + 1]
  /\ UNCHANGED <<ring, locals, accepted, dropped, aux_irq>>

Return(c) ==
  /\ prior_level[c] > TASK_MAX_PRIORITY
  /\ GoTo(c, "loop", Caller[c])
  /\ UNCHANGED <<ring, locals, counts, aux_irq>>

task_dispatcher(c) ==
  \/ LoadHead(c) \/ LevelEmpty(c) \/ LevelNotEmpty(c) \/ ReloadHead(c)
  \/ LoadTask(c) \/ StoreHead(c) \/ CallTask(c) \/ Return(c)

-----------------------------------------------------------------------------
(* The shell, and the interrupt handlers.                                  *)

Enter(c, level) ==
  prior_level' = [prior_level EXCEPT ![c] = level]

(* The shell calls task_dispatcher(0) before a command and while it waits  *)
(* for a key.                                                              *)
ShellDispatch ==
  /\ GoTo("main", "shell", "loop")
  /\ Enter("main", 0)
  /\ UNCHANGED <<ring, cur_lev_head, task, counts, aux_irq>>

(* async_uart enables the UART interrupt, and exchanges a line through it. *)
StartAsyncUart ==
  /\ GoTo("main", "shell", "async")
  /\ aux_irq' = 1
  /\ UNCHANGED <<ring, locals, counts>>

(* Its end names aux_irq_disable and does not call it: the interrupt stays *)
(* on.                                                                     *)
EndAsyncUart ==
  /\ GoTo("main", "async", "shell")
  /\ UNCHANGED <<ring, locals, counts, aux_irq>>

test_asycn_mini_uart == StartAsyncUart \/ EndAsyncUart

(* load_program: the shell is left for the program, and never entered      *)
(* again.                                                                  *)
LoadProgram ==
  /\ GoTo("main", "shell", "user")
  /\ UNCHANGED <<ring, locals, counts, aux_irq>>

InKernel == pc["main"] # "user"

TimerIrq ==
  /\ GoTo("irq", "off", "timer")
  /\ UNCHANGED <<ring, locals, counts, aux_irq>>

(* core_timer_irq_handler, one round: an expired event becomes a task.     *)
TimerExpired ==
  /\ pc["irq"] = "timer"
  /\ enqueue_task(TimerLevel)
  /\ UNCHANGED <<pc, locals, aux_irq>>

(* [mutant of AuxIrqEl1] "priority > level" for "priority >= level" *)
AuxIrqAbove ==
  /\ InKernel
  /\ aux_irq = 1
  /\ pc["main"] \in Dispatching => LateAuxIrq
  /\ GoTo("irq", "off", "loop")
  /\ enqueue_task(AuxLevel)
  /\ Enter("irq", TASK_MAX_PRIORITY + 1)
  /\ UNCHANGED <<cur_lev_head, task, aux_irq>>

(* A UART interrupt.  The handler of the current exception level (EL1)     *)
(* dispatches only the level of its own task.                              *)
AuxIrqEl1 ==
  /\ InKernel
  /\ aux_irq = 1
  /\ pc["main"] \in Dispatching => LateAuxIrq
  /\ GoTo("irq", "off", "loop")
  /\ enqueue_task(AuxLevel)
  /\ Enter("irq", TASK_MAX_PRIORITY)
  /\ UNCHANGED <<cur_lev_head, task, aux_irq>>

(* [mutant of TimerDoneEl1] the handler dispatches its own tasks *)
TimerDispatchesEl1 ==
  /\ InKernel
  /\ GoTo("irq", "timer", "loop")
  /\ Enter("irq", TimerLevel)
  /\ UNCHANGED <<ring, cur_lev_head, task, counts, aux_irq>>

(* el_curr_el_spx_irq_c returns after the timer handler, dispatching       *)
(* nothing.                                                                *)
TimerDoneEl1 ==
  /\ InKernel
  /\ GoTo("irq", "timer", "off")
  /\ UNCHANGED <<ring, locals, counts, aux_irq>>

(* lower_el_aarch64_irq_c looks at the UART after the timer, and then      *)
(* dispatches every level, as the shell is gone.                           *)
AuxIrqEl0 ==
  /\ ~InKernel
  /\ aux_irq = 1
  /\ pc["irq"] \in {"off", "timer"}
  /\ pc' = [pc EXCEPT !["irq"] = "loop"]
  /\ enqueue_task(AuxLevel)
  /\ Enter("irq", 0)
  /\ UNCHANGED <<cur_lev_head, task, aux_irq>>

TimerDoneEl0 ==
  /\ ~InKernel
  /\ GoTo("irq", "timer", "loop")
  /\ Enter("irq", 0)
  /\ UNCHANGED <<ring, cur_lev_head, task, counts, aux_irq>>

irq_handler ==
  \/ TimerIrq \/ TimerExpired \/ TimerDoneEl1 \/ TimerDoneEl0
  \/ AuxIrqEl1 \/ AuxIrqEl0

-----------------------------------------------------------------------------
(* init_task_queue, on a zeroed .bss; main comes to the shell.             *)
Init ==
  /\ task_queue = [l \in Level |-> [s \in Slot |-> 0]]
  /\ head = [l \in Level |-> 0]
  /\ tail = [l \in Level |-> 0]
  /\ pc = Caller
  /\ prior_level = [c \in Context |-> 0]
  /\ cur_lev_head = [c \in Context |-> 0]
  /\ task = [c \in Context |-> 0]
  /\ accepted = [l \in Level |-> 0]
  /\ dropped = [l \in Level |-> 0]
  /\ executed = [l \in Level |-> 0]
  /\ aux_irq = 0

Next ==
  \/ \E c \in Context : task_dispatcher(c)
  \/ ShellDispatch \/ test_asycn_mini_uart \/ LoadProgram
  \/ irq_handler

(* A handler runs to its end (it cannot be interrupted).  The interrupted  *)
(* code gets on between two interrupts, however many there are: strong     *)
(* fairness, as each interrupt disables it for a while.  The shell comes   *)
(* back to its loop, also from async_uart, for which somebody must type a  *)
(* line; and the timer, always re-armed, keeps interrupting.               *)
Fairness ==
  /\ WF_vars(task_dispatcher("irq"))
  /\ WF_vars(TimerDoneEl1 \/ TimerDoneEl0)
  /\ WF_vars(TimerIrq)
  /\ SF_vars(task_dispatcher("main"))
  /\ SF_vars(EndAsyncUart)
  /\ SF_vars(ShellDispatch)

Spec == Init /\ [][Next]_vars /\ Fairness

-----------------------------------------------------------------------------
(* Properties.                                                             *)

(* How many slots lie between a and b, going round the ring.               *)
Distance(a, b) == IF a <= b THEN b - a ELSE b - a + TASK_QUEUE_SIZE

Waiting(level) == Distance(head[level], tail[level])

Runs(c, level) == pc[c] = "run" /\ prior_level[c] = level

(* A timer callback is called in its turn and once: whatever the           *)
(* interrupts did since the dispatcher looked at the ring, the callback it *)
(* is about to call is the oldest one not called yet.                      *)
TimerTasksInOrder ==
  \A c \in Context : Runs(c, TimerLevel) => task[c] = executed[TimerLevel] + 1

(* The timer's ring as a bounded queue that keeps its promises: TaskFifo,  *)
(* with one slot of the ring always empty.                                 *)
TimerFifo == INSTANCE TaskFifo WITH
  Capacity <- TASK_QUEUE_SIZE - 1,
  waiting <- [i \in 1 .. Waiting(TimerLevel) |->
      task_queue[TimerLevel][(head[TimerLevel] + i - 1) % TASK_QUEUE_SIZE]],
  running <- IF \E c \in Context : Runs(c, TimerLevel)
             THEN task[CHOOSE c \in Context : Runs(c, TimerLevel)] ELSE 0,
  taken <- accepted[TimerLevel],
  refused <- dropped[TimerLevel],
  done <- executed[TimerLevel]

TimerRingIsFifo == TimerFifo!Spec

(* The UART handler touches the transmit ring and must not be interrupted  *)
(* (mini_uart.c): main, which runs with interrupts on, never calls it from *)
(* a slot it finds in the ring.                                            *)
AuxHandlerUninterruptible == Runs("main", AuxLevel) => task["main"] = 0

(* Every UART task is run by the interrupt that queued it: the ring is     *)
(* empty again whenever the handler is back.                               *)
AuxRingDrained == pc["irq"] = "off" => task_queue_empty(AuxLevel)

(* A UART task is run at once, by its interrupt and by nobody else: main   *)
(* takes nothing from that ring, not even a null pointer.                  *)
AuxHandlerAtOnce == ~Runs("main", AuxLevel) /\ AuxRingDrained

(* Every timer callback that got into the ring is called in the end, by    *)
(* the shell or, when a program runs, by the handler.                      *)
TimerTasksRun ==
  \A n \in 1 .. MaxTasks :
    accepted[TimerLevel] = n ~> executed[TimerLevel] >= n

=============================================================================
