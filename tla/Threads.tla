-------------------------------- MODULE Threads --------------------------------
(***************************************************************************)
(* The kernel threads of lab5 (src/thread.c, src/thread_asm.s) under the   *)
(* client main and foo are (kernel_main.c, its loop being commented out):  *)
(* the thread main set up creates threads and becomes the idle thread;     *)
(* the others yield as often as they like and exit.                        *)
(*                                                                         *)
(* Scheduling is cooperative: no interrupt handler calls schedule, so each *)
(* call is one step.  The run queue is the linked list of the code.  Of    *)
(* the processor's registers the model keeps lr (here: the place in the    *)
(* thread's code), sp (here: whose stack it points into) and one callee-   *)
(* saved register, in which foo keeps t.                                   *)
(***************************************************************************)
EXTENDS Naturals, Sequences, FiniteSets

CONSTANTS MaxThreads  \* bound: threads created, next to main's (id 0)

ASSUME MaxThreadsAssumption == MaxThreads \in Nat

Thread == 0 .. MaxThreads  \* a thread is its id
NULL == MaxThreads + 1
Node == Thread \cup {NULL}  \* NULL closes a walk: its link is itself
None == MaxThreads + 2     \* what a register holds that nobody set

VARIABLES
  run_queue,      \* the head of the list
  next,           \* the link of each thread
  state,          \* READY or DEAD; THREAD_RUNNING is never set
  context,        \* the registers saved by switch_to; sp lies in the field stack
  cpu,            \* the registers
  current,        \* TPIDR_EL1
  next_thread_id,
  memory          \* the thread_t and stacks allocated and not freed

vars == <<run_queue, next, state, context, cpu, current, next_thread_id, memory>>

Pc == {"main", "idle", "foo", "loop", "exited"}
Registers == [lr : Pc, sp : Thread, x19 : Thread \cup {None}]

\* main: set_current(&dummy); the dummy's context is not initialised.
Init ==
  /\ run_queue = NULL /\ next = [t \in Node |-> NULL]
  /\ state = [t \in Thread |-> "READY"]
  /\ context = [t \in Thread |-> [lr |-> "main", sp |-> 0, x19 |-> None]]
  /\ cpu = [lr |-> "main", sp |-> 0, x19 |-> None]
  /\ current = 0 /\ next_thread_id = 1 /\ memory = {}

-----------------------------------------------------------------------------
(***************************************************************************)
(* The list.  A queue is a record of head and links; Chain is the sequence *)
(* of the threads a walk from its head meets, as long as it meets none     *)
(* twice.                                                                  *)
(***************************************************************************)
Queue == [head |-> run_queue, link |-> next]

Walk(q) ==
  LET node[k \in Thread] == IF k = 0 THEN q.head ELSE q.link[node[k - 1]]
  IN  node

Chain(q) ==
  [k \in 1 .. Cardinality({k \in Thread : Walk(q)[k] # NULL}) |-> Walk(q)[k - 1]]

Queued(q) == LET chain == Chain(q) IN {chain[k] : k \in DOMAIN chain}

\* [mutant of enqueue_thread] the thread's own link is not cleared
EnqueueLinked(q, t) ==
  LET chain == Chain(q)
  IN  IF q.head = NULL
        THEN [q EXCEPT !.head = t]
        ELSE [q EXCEPT !.link[chain[Len(chain)]] = t]

\* [mutant of enqueue_thread] put at the front
EnqueueFirst(q, t) == [head |-> t, link |-> [q.link EXCEPT ![t] = q.head]]

\* enqueue_thread walks to the thread without a successor.
enqueue_thread(q, t) ==
  LET link == [q.link EXCEPT ![t] = NULL]
      chain == Chain([q EXCEPT !.link = link])
  IN  IF q.head = NULL
        THEN [head |-> t, link |-> link]
        ELSE [q EXCEPT !.link = [link EXCEPT ![chain[Len(chain)]] = t]]

remove_thread(q, t) ==
  IF q.head = t
    THEN [q EXCEPT !.head = q.link[t]]
    ELSE LET before == {p \in Queued(q) : q.link[p] = t}
         IN  [q EXCEPT !.link =
               [p \in Node |-> q.link[IF p \in before THEN t ELSE p]]]

\* kill_zombies: the dead are unlinked, the others keep their order.
Living(q, behind) ==
  LET chain == Chain(q)
      places == {k \in DOMAIN chain : k > behind /\ state[chain[k]] # "DEAD"}
  IN  IF places = {} THEN NULL
      ELSE chain[CHOOSE k \in places : \A j \in places : k <= j]

kill_zombies(q) ==
  LET chain == Chain(q)
      Place(t) == CHOOSE k \in DOMAIN chain : chain[k] = t
  IN  [head |-> Living(q, 0),
       link |-> [t \in Node |->
         IF t \in Queued(q) /\ state[t] # "DEAD" THEN Living(q, Place(t)) ELSE q.link[t]]]

-----------------------------------------------------------------------------
\* [mutant of switch_to] sp is neither saved nor loaded
SwitchWithoutSp(regs, to) ==
  /\ context' = [context EXCEPT ![current] = regs]
  /\ cpu' = [context[to] EXCEPT !.sp = cpu.sp]
  /\ current' = to

\* switch_to: save the registers, load the other thread's, set TPIDR_EL1.
switch_to(regs, to) ==
  /\ context' = [context EXCEPT ![current] = regs]
  /\ cpu' = context[to]
  /\ current' = to

\* schedule, called by the running thread, which is READY or not, with
\* registers regs, on queue q.
schedule(q, regs, alive) ==
  IF q.head \in {NULL, current}
    THEN /\ run_queue' = q.head /\ next' = q.link
         /\ cpu' = regs
         /\ UNCHANGED <<context, current>>
    ELSE \E out \in {remove_thread(q, current)} :
         \E line \in {IF alive THEN enqueue_thread(out, current) ELSE q} :
         \E rest \in {remove_thread(line, line.head)} :
           /\ run_queue' = rest.head /\ next' = rest.link
           /\ IF line.head # current
                THEN switch_to(regs, line.head)
                ELSE cpu' = regs /\ UNCHANGED <<context, current>>

\* thread_create, by any thread; both malloc calls succeed.
thread_create ==
  LET t == next_thread_id
      q == enqueue_thread(Queue, t)
  IN  /\ cpu.lr \in {"main", "loop"} /\ next_thread_id <= MaxThreads
      /\ context' = [context EXCEPT ![t] = [lr |-> "foo", sp |-> t, x19 |-> None]]
      /\ next_thread_id' = t + 1
      /\ state' = [state EXCEPT ![t] = "READY"]
      /\ memory' = memory \cup {t}
      /\ run_queue' = q.head /\ next' = q.link
      /\ UNCHANGED <<cpu, current>>

\* idle: the first call follows main's loop, the others the one before.
idle ==
  /\ cpu.lr \in {"main", "idle"}
  /\ UNCHANGED <<state, next_thread_id>>
  /\ memory' = memory \ {t \in Queued(Queue) : state[t] = "DEAD"}
  /\ \E q \in {kill_zombies(Queue)} : schedule(q, [cpu EXCEPT !.lr = "idle"], TRUE)

\* foo: thread_t* t = get_current();
foo ==
  /\ cpu.lr = "foo"
  /\ cpu' = [cpu EXCEPT !.lr = "loop", !.x19 = current]
  /\ UNCHANGED <<run_queue, next, state, context, current, next_thread_id, memory>>

\* One iteration of its loop.
Yield ==
  /\ cpu.lr = "loop"
  /\ UNCHANGED <<state, next_thread_id, memory>>
  /\ schedule(Queue, cpu, TRUE)

thread_exit ==
  /\ cpu.lr = "loop"
  /\ state' = [state EXCEPT ![current] = "DEAD"]
  /\ UNCHANGED <<next_thread_id, memory>>
  /\ schedule(Queue, [cpu EXCEPT !.lr = "exited"], FALSE)

Next == thread_create \/ idle \/ foo \/ Yield \/ thread_exit

\* Every call returns, foo calls schedule in each of its ten iterations.
Spec ==
  /\ Init /\ [][Next]_vars
  /\ WF_vars(idle) /\ WF_vars(foo) /\ WF_vars(Yield \/ thread_exit)

-----------------------------------------------------------------------------
TypeOK ==
  /\ run_queue \in Node
  /\ next \in [Node -> Node] /\ next[NULL] = NULL
  /\ state \in [Thread -> {"READY", "DEAD"}]
  /\ context \in [Thread -> Registers] /\ cpu \in Registers
  /\ current \in Thread
  /\ next_thread_id \in 1 .. MaxThreads + 1
  /\ memory \subseteq Thread

Created == 0 .. next_thread_id - 1

\* The list meets each waiting thread once and nothing else: no thread is
\* lost or queued twice, and no dead one is in it, so that kill_zombies,
\* which looks there, finds none and frees nothing.  A thread that exits
\* never runs again (thread.c:120 "Should never return").
QueueExact ==
  /\ TypeOK
  /\ \A i, j \in DOMAIN Chain(Queue) : Chain(Queue)[i] = Chain(Queue)[j] => i = j
  /\ Queued(Queue) = {t \in Created : state[t] = "READY"} \ {current}
  /\ state[current] = "READY" /\ cpu.lr # "exited"
  /\ memory = Created \ {0}

\* A thread runs on its own stack and with the registers it left, although
\* sp is saved beyond the end of context, in the field stack.
OwnContext ==
  /\ cpu.sp = current
  /\ cpu.lr = "loop" => cpu.x19 = current

\* The linked list is a first-in first-out line of threads.
Order == INSTANCE RoundRobin WITH
  Threads <- Thread, running <- current, ready <- Chain(Queue),
  gone <- {t \in Thread : state[t] = "DEAD"}

RoundRobinOrder == Order!Spec

\* Every thread that waits gets its turn.
EveryThreadRuns ==
  \A t \in Thread : t \in Queued(Queue) ~> current = t

==============================================================================
