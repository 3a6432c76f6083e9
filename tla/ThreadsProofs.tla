----------------------------- MODULE ThreadsProofs -----------------------------
(***************************************************************************)
(* The run queue of lab5 is a round robin, for every number of threads:    *)
(* the linked list never loses or doubles a thread (QueueExact), every     *)
(* thread finds its own stack and registers again (OwnContext), and the    *)
(* order is first-in first-out (the safety part of RoundRobinOrder).       *)
(*                                                                         *)
(* First the list: Listed(q, s) says that the links of q spell s, and each *)
(* operation of thread.c is shown to do to s what it means.  Then the      *)
(* steps: each of them appends to, rotates or shortens the line.           *)
(***************************************************************************)
EXTENDS Threads, FiniteSetTheorems, SequenceTheorems, WellFoundedInduction, TLAPS

QueueType == [head : Node, link : [Node -> Node]]

(* The thread that follows the i-th of s, or NULL.                         *)
After(s, i) == IF i < Len(s) THEN s[i + 1] ELSE NULL

(* The links of q spell s, which has no thread twice.                      *)
Listed(q, s) ==
  /\ s \in Seq(Thread)
  /\ \A i, j \in 1 .. Len(s) : s[i] = s[j] => i = j
  /\ q.head = After(s, 0)
  /\ \A i \in 1 .. Len(s) : q.link[s[i]] = After(s, i)
  /\ q.link[NULL] = NULL

-----------------------------------------------------------------------------
(* The list.                                                               *)

(* No thread is NULL.                                                      *)
LEMMA NullIsNoThread == NULL \notin Thread /\ Thread \subseteq Nat /\ 0 \in Thread
  BY MaxThreadsAssumption DEF NULL, Thread

LEMMA LineIsShort ==
  ASSUME NEW s \in Seq(Thread), \A i, j \in 1 .. Len(s) : s[i] = s[j] => i = j
  PROVE  Len(s) \in Nat /\ Len(s) <= MaxThreads + 1
  <1>1. Len(s) \in Nat /\ s \in [1 .. Len(s) -> Thread]
    OBVIOUS
  <1>2. s \in Injection(1 .. Len(s), Thread)
    BY <1>1 DEF Injection, IsInjective
  <1>3. IsFiniteSet(Thread) /\ Cardinality(Thread) = MaxThreads + 1
    BY FS_Interval, MaxThreadsAssumption, SMTT(30) DEF Thread
  <1>4. Cardinality(1 .. Len(s)) = Len(s)
    BY <1>1, FS_Interval, SMTT(30)
  <1> QED
    BY <1>1, <1>2, <1>3, <1>4, FS_Injection

(* The walk follows the links.                                             *)
LEMMA WalkOfList ==
  ASSUME NEW q, NEW s, Listed(q, s)
  PROVE  Walk(q) = [k \in Thread |-> After(s, k)]
  <1> DEFINE f == [k \in Thread |-> After(s, k)]
             Step(g) == [k \in Thread |-> IF k = 0 THEN q.head ELSE q.link[g[k - 1]]]
             w == Walk(q)
  <1>1. \A k \in Thread : k # 0 => k - 1 \in Thread
    BY MaxThreadsAssumption DEF Thread
  <1>2. f = Step(f)
    <2>1. ASSUME NEW k \in Thread
          PROVE  f[k] = IF k = 0 THEN q.head ELSE q.link[f[k - 1]]
      <3>1. CASE k = 0
        BY <3>1 DEF Listed
      <3>2. CASE k # 0
        <4>1. f[k - 1] = After(s, k - 1) /\ k \in Nat
          BY <1>1, <3>2, NullIsNoThread
        <4>2. q.link[After(s, k - 1)] = After(s, k)
          BY <4>1, <3>2 DEF Listed, After
        <4> QED
          BY <4>1, <4>2, <3>2
      <3> QED
        BY <3>1, <3>2
    <2> QED
      BY <2>1
  <1>3. w = Step(w)
    BY <1>2 DEF Walk
  <1> DEFINE Wrong == {k \in Thread : w[k] # f[k]}
  <1>4. Wrong = {}
    <2> SUFFICES ASSUME Wrong # {} PROVE FALSE
      OBVIOUS
    <2>1. Wrong \subseteq Nat
      BY NullIsNoThread
    <2>2. PICK k \in Wrong : \A j \in Wrong : ~ (<<j, k>> \in OpToRel(<, Nat))
      BY <2>1, WFMin, NatLessThanWellFounded
    <2>3. \A j \in Wrong : ~ (j < k)
      BY <2>1, <2>2 DEF OpToRel
    <2>4. CASE k = 0
      BY <1>2, <1>3, <2>4
    <2>5. CASE k # 0
      <3>1. k - 1 \in Thread /\ k - 1 < k
        BY <1>1, <2>1, <2>5
      <3>2. w[k - 1] = f[k - 1]
        BY <2>3, <3>1
      <3>3. w[k] = q.link[w[k - 1]] /\ f[k] = q.link[f[k - 1]]
        BY <1>2, <1>3, <2>5
      <3> QED
        BY <3>2, <3>3
    <2> QED
      BY <2>4, <2>5
  <1> QED
    BY <1>2, <1>3, <1>4

(* Chain recovers the line that the links spell.                           *)
LEMMA ChainOfList ==
  ASSUME NEW q, NEW s, Listed(q, s)
  PROVE  Chain(q) = s
  <1> DEFINE n == Len(s)
  <1>1. n \in Nat /\ n <= MaxThreads + 1 /\ s \in [1 .. n -> Thread]
    BY LineIsShort DEF Listed
  <1>2. Walk(q) = [k \in Thread |-> After(s, k)]
    BY WalkOfList
  <1>3. {k \in Thread : Walk(q)[k] # NULL} = 0 .. n - 1
    <2>1. \A k \in Thread : After(s, k) # NULL <=> k < n
      BY <1>1, NullIsNoThread DEF After
    <2> QED
      BY <1>1, <1>2, <2>1, MaxThreadsAssumption DEF Thread
  <1>4. Cardinality(0 .. n - 1) = n
    BY <1>1, FS_Interval, SMTT(30)
  <1>5. \A k \in 1 .. n : k - 1 \in Thread /\ After(s, k - 1) = s[k]
    BY <1>1, MaxThreadsAssumption DEF Thread, After
  <1>6. Chain(q) = [k \in 1 .. n |-> Walk(q)[k - 1]]
    BY <1>3, <1>4 DEF Chain
  <1> HIDE DEF n
  <1> QED
    BY <1>1, <1>2, <1>5, <1>6

(* enqueue_thread appends.                                                 *)
LEMMA EnqueueAppends ==
  ASSUME NEW q \in QueueType, NEW s, Listed(q, s), NEW t \in Thread,
         \A i \in 1 .. Len(s) : s[i] # t
  PROVE  /\ enqueue_thread(q, t) \in QueueType
         /\ Listed(enqueue_thread(q, t), Append(s, t))
  <1> DEFINE n == Len(s)
             link == [q.link EXCEPT ![t] = NULL]
             cleared == [q EXCEPT !.link = link]
             last == s[n]
             u == Append(s, t)
             e == enqueue_thread(q, t)
  <1>1. n \in Nat /\ s \in Seq(Thread) /\ \A i \in 1 .. n : s[i] \in Thread
    BY DEF Listed
  <1>2. link \in [Node -> Node] /\ t # NULL /\ NULL \in Node /\ Thread \subseteq Node
    BY NullIsNoThread DEF QueueType, Node
  <1>3. link[t] = NULL /\ \A p \in Node : p # t => link[p] = q.link[p]
    BY <1>2 DEF QueueType
  <1>4. u \in Seq(Thread) /\ Len(u) = n + 1 /\ u[n + 1] = t
        /\ \A i \in 1 .. n : u[i] = s[i]
    BY <1>1
  <1>5. \A i, j \in 1 .. Len(u) : u[i] = u[j] => i = j
    BY <1>1, <1>4 DEF Listed
  <1>6. q.head = NULL <=> n = 0
    BY <1>1, NullIsNoThread DEF Listed, After
  <1>7. CASE n = 0
    <2>1. e = [head |-> t, link |-> link]
      BY <1>6, <1>7 DEF enqueue_thread
    <2>2. e \in QueueType
      BY <1>2, <2>1 DEF QueueType
    <2>3. e.head = After(u, 0)
      BY <1>4, <1>7, <2>1 DEF After
    <2>4. \A i \in 1 .. Len(u) : e.link[u[i]] = After(u, i)
      BY <1>3, <1>4, <1>7, <2>1 DEF After
    <2>5. e.link[NULL] = NULL
      BY <1>2, <1>3, <2>1 DEF Listed
    <2> QED
      BY <1>4, <1>5, <2>2, <2>3, <2>4, <2>5 DEF Listed
  <1>8. CASE n # 0
    <2>1. Listed(cleared, s)
      <3>1. cleared.head = q.head /\ cleared.link = link
        BY DEF QueueType
      <3>2. \A i \in 1 .. n : link[s[i]] = q.link[s[i]]
        BY <1>1, <1>2, <1>3
      <3>3. link[NULL] = q.link[NULL]
        BY <1>2, <1>3
      <3> QED
        BY <3>1, <3>2, <3>3 DEF Listed
    <2>2. Chain(cleared) = s
      BY <2>1, ChainOfList
    <2>3. e = [q EXCEPT !.link = [link EXCEPT ![last] = t]]
      BY <1>6, <1>8, <2>2 DEF enqueue_thread
    <2>4. last \in Thread /\ last # t /\ last # NULL
      BY <1>1, <1>8, NullIsNoThread
    <2>5. e.head = q.head /\ e.link = [link EXCEPT ![last] = t]
      BY <2>3 DEF QueueType
    <2>6. e \in QueueType
      BY <1>2, <2>3, <2>4 DEF QueueType
    <2>7. e.link[last] = t /\ \A p \in Node : p # last => e.link[p] = link[p]
      BY <1>2, <2>4, <2>5
    <2>8. e.head = After(u, 0)
      BY <1>1, <1>4, <1>8, <2>5 DEF Listed, After
    <2>9. ASSUME NEW i \in 1 .. Len(u) PROVE e.link[u[i]] = After(u, i)
      <3>1. CASE i = n + 1
        BY <1>2, <1>3, <1>4, <2>4, <2>7, <3>1 DEF After
      <3>2. CASE i = n
        BY <1>1, <1>4, <1>8, <2>7, <3>2 DEF After
      <3>3. CASE i < n
        <4>1. i \in 1 .. n /\ n \in 1 .. n /\ i # n
          BY <1>1, <1>4, <3>3
        <4>2. u[i] = s[i] /\ s[i] # last /\ s[i] \in Node /\ s[i] # t
          BY <1>1, <1>2, <1>4, <4>1 DEF Listed
        <4>3. e.link[u[i]] = q.link[s[i]]
          BY <1>3, <2>7, <4>2
        <4>4. q.link[s[i]] = After(s, i)
          BY <4>1 DEF Listed
        <4>5. After(s, i) = After(u, i)
          BY <1>1, <1>4, <3>3, <4>1 DEF After
        <4> QED
          BY <4>3, <4>4, <4>5
      <3> QED
        BY <1>1, <1>4, <3>1, <3>2, <3>3
    <2>10. e.link[NULL] = NULL
      BY <1>2, <1>3, <2>4, <2>7 DEF Listed
    <2> QED
      BY <1>4, <1>5, <2>6, <2>8, <2>9, <2>10 DEF Listed
  <1> QED
    BY <1>7, <1>8

(* remove_thread of the head shortens the line,                            *)
LEMMA RemoveHead ==
  ASSUME NEW q \in QueueType, NEW s, Listed(q, s), s # <<>>
  PROVE  /\ q.head = Head(s) /\ remove_thread(q, q.head) \in QueueType
         /\ Listed(remove_thread(q, q.head), Tail(s))
  <1> DEFINE n == Len(s)
             u == Tail(s)
             r == remove_thread(q, q.head)
  <1>1. n \in Nat /\ n > 0 /\ s \in Seq(Thread) /\ s[1] = Head(s) /\ s[1] \in Thread
    BY DEF Listed
  <1>2. u \in Seq(Thread) /\ Len(u) = n - 1 /\ \A i \in 1 .. n - 1 : u[i] = s[i + 1]
    BY <1>1
  <1>3. q.head = s[1]
    BY <1>1 DEF Listed, After
  <1>4. r = [q EXCEPT !.head = q.link[q.head]]
    BY DEF remove_thread
  <1>5. r.head = q.link[s[1]] /\ r.link = q.link
    BY <1>3, <1>4 DEF QueueType
  <1>6. r \in QueueType
    BY <1>1, <1>3, <1>4 DEF QueueType, Node
  <1>7. r.head = After(u, 0)
    BY <1>1, <1>2, <1>5 DEF Listed, After
  <1>8. \A i \in 1 .. Len(u) : r.link[u[i]] = After(u, i)
    <2> SUFFICES ASSUME NEW i \in 1 .. Len(u) PROVE r.link[u[i]] = After(u, i)
      OBVIOUS
    <2>1. i + 1 \in 1 .. n /\ u[i] = s[i + 1]
      BY <1>1, <1>2
    <2>2. q.link[s[i + 1]] = After(s, i + 1)
      BY <2>1 DEF Listed
    <2>3. After(s, i + 1) = After(u, i)
      BY <1>1, <1>2, <2>1 DEF After
    <2> QED
      BY <1>5, <2>1, <2>2, <2>3
  <1>9. \A i, j \in 1 .. Len(u) : u[i] = u[j] => i = j
    <2> SUFFICES ASSUME NEW i \in 1 .. Len(u), NEW j \in 1 .. Len(u), u[i] = u[j]
                 PROVE  i = j
      OBVIOUS
    <2>1. i + 1 \in 1 .. n /\ j + 1 \in 1 .. n /\ s[i + 1] = s[j + 1]
      BY <1>1, <1>2
    <2>2. i + 1 = j + 1
      BY <2>1 DEF Listed
    <2> QED
      BY <1>1, <1>2, <2>2
  <1> QED
    BY <1>1, <1>2, <1>3, <1>5, <1>6, <1>7, <1>8, <1>9 DEF Listed

(* and of a thread that is in no line changes nothing.                     *)
LEMMA RemoveAbsent ==
  ASSUME NEW q \in QueueType, NEW s, Listed(q, s), NEW t \in Thread,
         \A i \in 1 .. Len(s) : s[i] # t
  PROVE  remove_thread(q, t) = q
  <1>1. q.head # t
    BY NullIsNoThread DEF Listed, After
  <1>2. Queued(q) = {s[i] : i \in 1 .. Len(s)}
    BY ChainOfList DEF Queued, Listed
  <1>3. {p \in Queued(q) : q.link[p] = t} = {}
    <2> SUFFICES ASSUME NEW i \in 1 .. Len(s), q.link[s[i]] = t PROVE FALSE
      BY <1>2
    <2>1. After(s, i) = t
      BY DEF Listed
    <2> QED
      BY <2>1, NullIsNoThread DEF Listed, After
  <1>4. remove_thread(q, t) = [q EXCEPT !.link = [p \in Node |-> q.link[p]]]
    BY <1>1, <1>3 DEF remove_thread
  <1>5. [p \in Node |-> q.link[p]] = q.link
    BY DEF QueueType
  <1> QED
    BY <1>4, <1>5 DEF QueueType

(* kill_zombies, where it meets no dead thread.                            *)
LEMMA NobodyKilled ==
  ASSUME NEW q \in QueueType, NEW s, Listed(q, s),
         \A i \in 1 .. Len(s) : state[s[i]] # "DEAD"
  PROVE  kill_zombies(q) = q
  <1> DEFINE n == Len(s)
             Places(b) == {k \in 1 .. n : k > b /\ state[s[k]] # "DEAD"}
             Place(t) == CHOOSE k \in 1 .. n : s[k] = t
  <1>1. n \in Nat /\ s \in [1 .. n -> Thread]
    BY DEF Listed
  <1>2. Chain(q) = s /\ DOMAIN s = 1 .. n
    BY <1>1, ChainOfList
  <1>3. ASSUME NEW b \in 0 .. n PROVE Living(q, b) = After(s, b)
    <2>1. Places(b) = b + 1 .. n
      BY <1>1
    <2>2. Living(q, b) = IF Places(b) = {} THEN NULL
                         ELSE s[CHOOSE k \in Places(b) : \A j \in Places(b) : k <= j]
      BY <1>2 DEF Living
    <2>3. CASE b = n
      <3>1. Places(b) = {}
        BY <1>1, <2>1, <2>3
      <3> QED
        BY <1>1, <2>2, <2>3, <3>1 DEF After
    <2>4. CASE b < n
      <3>1. b + 1 \in b + 1 .. n /\ \A j \in b + 1 .. n : b + 1 <= j
        BY <1>1, <2>4
      <3>2. (CHOOSE k \in b + 1 .. n : \A j \in b + 1 .. n : k <= j) = b + 1
        BY <1>1, <3>1
      <3> QED
        BY <2>1, <2>2, <2>4, <3>1, <3>2 DEF After
    <2>5. b = n \/ b < n
      <3> HIDE DEF n
      <3> QED
        BY <1>1
    <2> QED
      BY <2>3, <2>4, <2>5
  <1>4. ASSUME NEW t \in Node
        PROVE  (IF t \in Queued(q) /\ state[t] # "DEAD"
                 THEN Living(q, Place(t)) ELSE q.link[t]) = q.link[t]
    <2>1. Queued(q) = {s[i] : i \in 1 .. n}
      BY <1>2 DEF Queued
    <2>2. CASE t \in Queued(q)
      <3>1. PICK i \in 1 .. n : s[i] = t
        BY <2>1, <2>2
      <3>2. Place(t) = i
        BY <3>1 DEF Listed
      <3>3. Living(q, i) = After(s, i)
        BY <1>1, <1>3
      <3>4. q.link[t] = After(s, i)
        BY <3>1 DEF Listed
      <3> QED
        BY <3>2, <3>3, <3>4
    <2> QED
      BY <2>2
  <1>5. kill_zombies(q) =
          [head |-> Living(q, 0),
           link |-> [t \in Node |-> IF t \in Queued(q) /\ state[t] # "DEAD"
                                      THEN Living(q, Place(t)) ELSE q.link[t]]]
    BY <1>2 DEF kill_zombies
  <1>6. Living(q, 0) = q.head
    BY <1>1, <1>3 DEF Listed
  <1>7. kill_zombies(q) = [head |-> q.head, link |-> [t \in Node |-> q.link[t]]]
    BY <1>4, <1>5, <1>6
  <1> QED
    BY <1>7 DEF QueueType

-----------------------------------------------------------------------------
(* The invariant.                                                          *)

Line == Chain(Queue)

Waiting(t) == \E i \in 1 .. Len(Line) : Line[i] = t

(* The links spell the line.                                               *)
Ordered == Listed(Queue, Line)

(* In line are the living threads but the one that runs.                   *)
WaitInLine == \A t \in Thread :
  Waiting(t) <=> t \in Created /\ state[t] = "READY" /\ t # current

(* Only created threads have run; the first one, which idles, never exits. *)
Lives ==
  /\ current \in Created /\ 0 \in Created /\ memory = Created \ {0}
  /\ state[current] = "READY" /\ state[0] = "READY"
  /\ \A t \in Thread \ Created : state[t] = "READY"

(* Registers that thread t may run with.                                   *)
Own(regs, t) ==
  /\ regs \in Registers
  /\ regs.sp = t /\ (regs.lr = "loop" => regs.x19 = t)
  /\ regs.lr # "exited"
  /\ regs.lr \in {"main", "idle"} <=> t = 0

Kept == Own(cpu, current) /\ \A t \in Thread : Waiting(t) => Own(context[t], t)

IInv == TypeOK /\ Ordered /\ WaitInLine /\ Lives /\ Kept

LEMMA QueueTyped == TypeOK <=> TypeOK /\ Queue \in QueueType
  BY DEF TypeOK, Queue, QueueType

LEMMA LineTyped ==
  ASSUME Ordered
  PROVE  /\ Line \in Seq(Thread) /\ Len(Line) \in Nat /\ DOMAIN Line = 1 .. Len(Line)
         /\ \A i \in 1 .. Len(Line) : Line[i] \in Thread
         /\ \A i, j \in 1 .. Len(Line) : Line[i] = Line[j] => i = j
         /\ \A t : t \in Queued(Queue) <=> Waiting(t)
  BY DEF Ordered, Listed, Queued, Line, Waiting

-----------------------------------------------------------------------------
(* The scheduler.                                                          *)

(* The line moves on: the first one in it runs, the one that ran goes to   *)
(* the end of the line if it is alive.                                     *)
Turn(regs, alive) ==
  /\ Line # <<>>
  /\ Line' = IF alive THEN Append(Tail(Line), current) ELSE Tail(Line)
  /\ context' = [context EXCEPT ![current] = regs]
  /\ cpu' = context[Head(Line)] /\ current' = Head(Line)

(* Nobody waits: the same thread goes on.                                  *)
NoTurn(regs) ==
  /\ Line = <<>> /\ Line' = Line
  /\ cpu' = regs /\ UNCHANGED <<context, current>>

(* A new queue that spells u is in order.                                  *)
LEMMA NowListed ==
  ASSUME NEW q, NEW u, Listed(q, u), run_queue' = q.head, next' = q.link
  PROVE  Ordered' /\ Line' = u
  <1>1. Queue' = [head |-> q.head, link |-> q.link]
    BY DEF Queue
  <1>2. Listed(Queue', u)
    BY <1>1 DEF Listed
  <1>3. Chain(Queue') = u
    BY <1>2, ChainOfList
  <1>4. Line' = Chain(Queue')
    BY DEF Line, Chain, Walk, Queue
  <1> QED
    BY <1>2, <1>3, <1>4 DEF Ordered, Listed, Queue

LEMMA ScheduleTurns ==
  ASSUME IInv, NEW regs, NEW alive \in BOOLEAN, schedule(Queue, regs, alive)
  PROVE  /\ Ordered' /\ run_queue' \in Node /\ next' \in [Node -> Node]
         /\ next'[NULL] = NULL
         /\ Turn(regs, alive) \/ NoTurn(regs)
  <1> DEFINE u == IF alive THEN Append(Line, current) ELSE Line
             v == IF alive THEN Append(Tail(Line), current) ELSE Tail(Line)
             line == IF alive THEN enqueue_thread(Queue, current) ELSE Queue
             rest == remove_thread(line, line.head)
  <1>1. Queue \in QueueType /\ Listed(Queue, Line) /\ current \in Thread
    BY QueueTyped DEF IInv, Ordered, TypeOK
  <1>2. \A i \in 1 .. Len(Line) : Line[i] \in Thread /\ Line[i] # current
    BY <1>1, LineTyped DEF IInv, WaitInLine, Waiting
  <1>3. Line \in Seq(Thread) /\ Len(Line) \in Nat
    BY LineTyped DEF IInv
  <1>4. Queue.head = After(Line, 0)
    BY <1>1 DEF Listed
  <1>5. CASE Line = <<>>
    <2>1. Queue.head = NULL
      BY <1>4, <1>5 DEF After
    <2>2. run_queue' = Queue.head /\ next' = Queue.link /\ cpu' = regs
          /\ UNCHANGED <<context, current>>
      BY <2>1 DEF schedule
    <2>3. Ordered' /\ Line' = Line
      BY <1>1, <2>2, NowListed
    <2> QED
      BY <1>1, <1>5, <2>2, <2>3 DEF NoTurn, QueueType, Listed
  <1>6. CASE Line # <<>>
    <2>1. Queue.head = Line[1] /\ Line[1] = Head(Line) /\ 1 \in 1 .. Len(Line)
      BY <1>3, <1>4, <1>6 DEF After
    <2>2. Queue.head \notin {NULL, current}
      BY <1>2, <2>1, NullIsNoThread
    <2>3. remove_thread(Queue, current) = Queue
      BY <1>1, <1>2, RemoveAbsent
    <2>4. /\ run_queue' = rest.head /\ next' = rest.link
          /\ IF line.head # current
               THEN switch_to(regs, line.head)
               ELSE cpu' = regs /\ UNCHANGED <<context, current>>
      BY <2>2, <2>3 DEF schedule
    <2>5. line \in QueueType /\ Listed(line, u)
      BY <1>1, <1>2, EnqueueAppends
    <2>6. u # <<>> /\ Head(u) = Head(Line) /\ Tail(u) = v
      <3>1. Append(Line, current) # <<>>
        BY <1>1, <1>3
      <3>2. /\ Head(Append(Line, current)) = Head(Line)
            /\ Tail(Append(Line, current)) = Append(Tail(Line), current)
        BY <1>3, <1>6, HeadTailAppend
      <3>3. CASE alive
        BY <3>1, <3>2, <3>3
      <3>4. CASE ~alive
        BY <1>6, <3>4
      <3> QED
        BY <3>3, <3>4
    <2>7. line.head = Head(Line) /\ rest \in QueueType /\ Listed(rest, v)
      BY <2>5, <2>6, RemoveHead
    <2>8. Ordered' /\ Line' = v
      BY <2>4, <2>7, NowListed
    <2>9. switch_to(regs, Head(Line))
      BY <2>1, <2>2, <2>4, <2>7
    <2> QED
      BY <1>6, <2>4, <2>7, <2>8, <2>9 DEF Turn, switch_to, QueueType, Listed
  <1> QED
    BY <1>5, <1>6

(* Who waits after the turn: all that waited but the one whose turn it is, *)
(* and the one that ran, if it is alive.                                   *)
LEMMA TurnWaits ==
  ASSUME IInv, NEW regs, NEW alive \in BOOLEAN, Turn(regs, alive)
  PROVE  /\ Head(Line) \in Thread /\ Waiting(Head(Line))
         /\ \A t : Waiting(t)' <=>
              (Waiting(t) /\ t # Head(Line)) \/ (alive /\ t = current)
  <1> DEFINE n == Len(Line)
  <1>1. Line \in Seq(Thread) /\ n \in Nat /\ n > 0 /\ Head(Line) = Line[1]
    BY LineTyped DEF IInv, Turn
  <1>2. \A i, j \in 1 .. n : Line[i] = Line[j] => i = j
    BY LineTyped DEF IInv
  <1>3. Line[1] \in Thread /\ Waiting(Line[1])
    BY <1>1 DEF Waiting
  <1>4. \A t : (\E i \in 1 .. n - 1 : Tail(Line)[i] = t) <=> Waiting(t) /\ t # Line[1]
    <2>1. \A i \in 1 .. n - 1 : Tail(Line)[i] = Line[i + 1] /\ i + 1 \in 1 .. n /\ i + 1 # 1
      BY <1>1
    <2>2. ASSUME NEW i \in 1 .. n, i # 1
          PROVE  i - 1 \in 1 .. n - 1 /\ Tail(Line)[i - 1] = Line[i]
      BY <1>1, <2>2
    <2>3. 1 \in 1 .. n
      BY <1>1
    <2> HIDE DEF n
    <2>4. \A t : Waiting(t) <=> \E i \in 1 .. n : Line[i] = t
      BY DEF Waiting, n
    <2>5. ASSUME NEW i \in 1 .. n - 1 PROVE Waiting(Tail(Line)[i]) /\ Tail(Line)[i] # Line[1]
      BY <1>2, <2>1, <2>3, <2>4
    <2>6. ASSUME NEW t, Waiting(t), t # Line[1] PROVE \E i \in 1 .. n - 1 : Tail(Line)[i] = t
      <3>1. PICK i \in 1 .. n : Line[i] = t
        BY <2>4, <2>6
      <3>2. i # 1
        BY <2>6, <3>1
      <3> QED
        BY <2>2, <3>1, <3>2
    <2> QED
      BY <2>5, <2>6
  <1>5. Len(Tail(Line)) = n - 1 /\ Tail(Line) \in Seq(Thread) /\ n - 1 \in Nat
    BY <1>1
  <1>6. current \in Thread
    BY DEF IInv, TypeOK
  <1>7. CASE alive
    <2>1. Line' = Append(Tail(Line), current)
      BY <1>7 DEF Turn
    <2>2. Len(Line') = n /\ Line'[n] = current
          /\ \A i \in 1 .. n - 1 : Line'[i] = Tail(Line)[i]
      BY <1>1, <1>5, <1>6, <2>1
    <2>3. \A t : Waiting(t)' <=> \E i \in 1 .. n : Line'[i] = t
      BY <2>2 DEF Waiting
    <2>4. \A i : i \in 1 .. n <=> i \in 1 .. n - 1 \/ i = n
      BY <1>1
    <2> HIDE DEF n
    <2>5. ASSUME NEW t
          PROVE  (\E i \in 1 .. n : Line'[i] = t)
                   <=> (\E i \in 1 .. n - 1 : Tail(Line)[i] = t) \/ t = current
      BY <2>2, <2>4
    <2> QED
      BY <1>1, <1>3, <1>4, <1>7, <2>3, <2>5
  <1>8. CASE ~alive
    <2>1. Line' = Tail(Line)
      BY <1>8 DEF Turn
    <2>2. \A t : Waiting(t)' <=> \E i \in 1 .. n - 1 : Tail(Line)[i] = t
      BY <1>5, <2>1 DEF Waiting
    <2> QED
      BY <1>1, <1>3, <1>4, <1>8, <2>2
  <1> QED
    BY <1>7, <1>8

(* The thread that ran leaves good registers, or dies.                     *)
Ends(regs, alive) ==
  /\ regs \in Registers
  /\ IF alive
       THEN state' = state /\ Own(regs, current)
       ELSE state' = [state EXCEPT ![current] = "DEAD"] /\ current # 0
  /\ memory' = memory /\ next_thread_id' = next_thread_id

LEMMA ScheduleKeeps ==
  ASSUME IInv, NEW regs, NEW alive \in BOOLEAN, schedule(Queue, regs, alive),
         Ends(regs, alive)
  PROVE  IInv' /\ (alive \/ Turn(regs, alive))
  <1>1. /\ Ordered' /\ run_queue' \in Node /\ next' \in [Node -> Node]
        /\ next'[NULL] = NULL
        /\ Turn(regs, alive) \/ NoTurn(regs)
    BY ScheduleTurns
  <1>2. Created' = Created /\ Created \subseteq Thread
    <2>1. next_thread_id \in 1 .. MaxThreads + 1
      BY DEF IInv, TypeOK
    <2> QED
      BY <2>1, MaxThreadsAssumption DEF Ends, Created, Thread
  <1>3. current \in Thread /\ context \in [Thread -> Registers] /\ cpu \in Registers
        /\ state \in [Thread -> {"READY", "DEAD"}]
    BY DEF IInv, TypeOK
  <1>4. state' \in [Thread -> {"READY", "DEAD"}]
    BY <1>3 DEF Ends
  <1>5. CASE Turn(regs, alive)
    <2> DEFINE h == Head(Line)
    <2>1. /\ h \in Thread /\ Waiting(h)
          /\ \A t : Waiting(t)' <=> (Waiting(t) /\ t # h) \/ (alive /\ t = current)
      BY <1>5, TurnWaits
    <2>2. context' = [context EXCEPT ![current] = regs] /\ cpu' = context[h] /\ current' = h
      BY <1>5 DEF Turn
    <2> HIDE DEF h
    <2>3. h \in Created /\ state[h] = "READY" /\ h # current /\ Own(context[h], h)
      BY <2>1 DEF IInv, WaitInLine, Kept
    <2>4. TypeOK'
      BY <1>1, <1>3, <1>4, <2>1, <2>2 DEF TypeOK, Ends, IInv
    <2>5. state'[h] = "READY" /\ state'[0] = "READY"
          /\ \A t \in Thread \ Created : state'[t] = "READY"
      BY <1>2, <1>3, <2>1, <2>3, NullIsNoThread DEF Ends, IInv, Lives
    <2>6. Lives'
      BY <1>2, <2>2, <2>3, <2>5 DEF Lives, Ends, IInv
    <2>7. \A t \in Thread : t # current => state'[t] = state[t]
      BY <1>3 DEF Ends
    <2>8. state'[current] = "READY" <=> alive
      BY <1>3 DEF Ends, IInv, Lives
    <2>9. WaitInLine'
      <3> SUFFICES ASSUME NEW t \in Thread
                   PROVE  Waiting(t)' <=> t \in Created /\ state'[t] = "READY" /\ t # h
        BY <1>2, <2>2 DEF WaitInLine
      <3>1. Waiting(t) <=> t \in Created /\ state[t] = "READY" /\ t # current
        BY DEF IInv, WaitInLine
      <3>2. current \in Created
        BY DEF IInv, Lives
      <3> QED
        BY <2>1, <2>3, <2>7, <2>8, <3>1, <3>2
    <2>10. Kept'
      <3>1. Own(cpu', current')
        BY <2>2, <2>3
      <3>2. ASSUME NEW t \in Thread, Waiting(t)' PROVE Own(context'[t], t)
        <4>1. CASE t = current
          <5>1. alive
            BY <2>1, <3>2, <4>1 DEF IInv, WaitInLine
          <5>2. context'[t] = regs
            BY <1>3, <2>2, <4>1
          <5> QED
            BY <4>1, <5>1, <5>2 DEF Ends
        <4>2. CASE t # current
          <5>1. context'[t] = context[t]
            BY <1>3, <2>2, <4>2
          <5>2. Waiting(t)
            BY <2>1, <3>2, <4>2
          <5> QED
            BY <5>1, <5>2 DEF IInv, Kept
        <4> QED
          BY <4>1, <4>2
      <3> QED
        BY <3>1, <3>2 DEF Kept, Own
    <2> QED
      BY <1>1, <1>5, <2>4, <2>6, <2>9, <2>10 DEF IInv
  <1>6. CASE NoTurn(regs)
    <2>1. Line' = Line /\ cpu' = regs /\ context' = context /\ current' = current
      BY <1>6 DEF NoTurn
    <2>2. \A t : Waiting(t)' <=> Waiting(t)
      BY <2>1 DEF Waiting
    <2>3. alive
      <3> SUFFICES ASSUME ~alive PROVE FALSE
        OBVIOUS
      <3>1. Waiting(0)
        BY NullIsNoThread DEF Ends, IInv, Lives, WaitInLine
      <3> QED
        BY <1>6, <3>1 DEF NoTurn, Waiting
    <2>4. TypeOK'
      BY <1>1, <1>3, <1>4, <2>1 DEF TypeOK, Ends, IInv
    <2>5. Lives' /\ WaitInLine'
      BY <1>2, <2>1, <2>2, <2>3 DEF Lives, WaitInLine, Ends, IInv
    <2>6. Kept'
      BY <2>1, <2>2, <2>3 DEF Kept, Ends, IInv, Own
    <2> QED
      BY <1>1, <2>3, <2>4, <2>5, <2>6 DEF IInv
  <1> QED
    BY <1>1, <1>5, <1>6

(* thread_create adds the thread at the end of the line.                   *)
LEMMA CreateKeeps ==
  ASSUME IInv, thread_create
  PROVE  /\ IInv' /\ next_thread_id \in Thread \ Created
         /\ Line' = Append(Line, next_thread_id)
  <1> DEFINE new == next_thread_id
             fresh == [lr |-> "foo", sp |-> new, x19 |-> None]
  <1>1. new \in Thread \ Created /\ new # 0 /\ Created' = Created \cup {new}
        /\ new + 1 \in 1 .. MaxThreads + 1
    <2>1. new \in 1 .. MaxThreads + 1 /\ new <= MaxThreads /\ next_thread_id' = new + 1
      BY DEF IInv, TypeOK, thread_create
    <2> QED
      BY <2>1, MaxThreadsAssumption DEF Created, Thread
  <1>2. Queue \in QueueType /\ Listed(Queue, Line)
    BY QueueTyped DEF IInv, Ordered
  <1>3. ~ Waiting(new) /\ \A i \in 1 .. Len(Line) : Line[i] # new
    BY <1>1 DEF IInv, WaitInLine, Waiting
  <1>4. run_queue' = enqueue_thread(Queue, new).head
        /\ next' = enqueue_thread(Queue, new).link
    BY DEF thread_create
  <1>5. enqueue_thread(Queue, new) \in QueueType
        /\ Listed(enqueue_thread(Queue, new), Append(Line, new))
    BY <1>1, <1>2, <1>3, EnqueueAppends
  <1>6. Ordered' /\ Line' = Append(Line, new)
    BY <1>4, <1>5, NowListed
  <1>7. run_queue' \in Node /\ next' \in [Node -> Node] /\ next'[NULL] = NULL
    BY <1>4, <1>5 DEF QueueType, Listed
  <1>8. \A t : Waiting(t)' <=> Waiting(t) \/ t = new
    <2> DEFINE n == Len(Line)
    <2>1. Line \in Seq(Thread) /\ n \in Nat
      BY LineTyped DEF IInv
    <2>2. Len(Line') = n + 1 /\ Line'[n + 1] = new /\ \A i \in 1 .. n : Line'[i] = Line[i]
      BY <1>1, <1>6, <2>1
    <2>3. \A i : i \in 1 .. n + 1 <=> i \in 1 .. n \/ i = n + 1
      BY <2>1
    <2>4. \A t : Waiting(t)' <=> \E i \in 1 .. n + 1 : Line'[i] = t
      BY <2>2 DEF Waiting
    <2>5. \A t : Waiting(t) <=> \E i \in 1 .. n : Line[i] = t
      BY DEF Waiting
    <2> HIDE DEF n
    <2> QED
      BY <2>2, <2>3, <2>4, <2>5
  <1>9. /\ context' = [context EXCEPT ![new] = fresh] /\ cpu' = cpu /\ current' = current
        /\ state' = [state EXCEPT ![new] = "READY"] /\ memory' = memory \cup {new}
        /\ next_thread_id' = new + 1
    BY DEF thread_create
  <1>10. fresh \in Registers /\ Own(fresh, new)
    BY <1>1 DEF Registers, Pc, Own
  <1>11. state \in [Thread -> {"READY", "DEAD"}] /\ context \in [Thread -> Registers]
         /\ memory \subseteq Thread
    BY DEF IInv, TypeOK
  <1> HIDE DEF new, fresh
  <1>12. TypeOK'
    BY <1>1, <1>7, <1>9, <1>10, <1>11 DEF TypeOK, IInv
  <1>13. state' = state
    BY <1>1, <1>9, <1>11 DEF IInv, Lives
  <1>14. Lives'
    BY <1>1, <1>9, <1>13 DEF Lives, IInv
  <1>15. WaitInLine'
    BY <1>1, <1>8, <1>9, <1>13 DEF WaitInLine, Lives, IInv
  <1>16. Kept'
    <2>1. ASSUME NEW t \in Thread, Waiting(t)' PROVE Own(context'[t], t)
      <3>1. CASE t = new
        BY <1>9, <1>10, <1>11, <3>1
      <3>2. CASE t # new
        <4>1. context'[t] = context[t] /\ Waiting(t)
          BY <1>8, <1>9, <1>11, <2>1, <3>2
        <4> QED
          BY <4>1 DEF IInv, Kept
      <3> QED
        BY <3>1, <3>2
    <2>2. Own(cpu', current')
      BY <1>9 DEF IInv, Kept
    <2> QED
      BY <2>1, <2>2 DEF Kept, Own
  <1> QED
    BY <1>1, <1>6, <1>12, <1>14, <1>15, <1>16 DEF IInv, new

-----------------------------------------------------------------------------
(* The steps.                                                              *)

(* A step leaves the line and the dead alone, appends a new thread to the  *)
(* line, or is a turn.                                                     *)
Dead == {t \in Thread : state[t] = "DEAD"}

Rotates ==
  /\ Line # <<>> /\ current' = Head(Line)
  /\ \/ Line' = Append(Tail(Line), current) /\ Dead' = Dead
     \/ Line' = Tail(Line) /\ Dead' = Dead \cup {current}

Creates ==
  /\ next_thread_id \in Thread \ Created
  /\ Line' = Append(Line, next_thread_id) /\ Dead' = Dead /\ current' = current

Rests == Line' = Line /\ Dead' = Dead /\ current' = current

LEMMA IdleKeeps ==
  ASSUME IInv, idle
  PROVE  IInv' /\ (Rotates \/ Rests)
  <1> DEFINE regs == [cpu EXCEPT !.lr = "idle"]
  <1>1. Queue \in QueueType /\ Listed(Queue, Line)
    BY QueueTyped DEF IInv, Ordered
  <1>2. \A i \in 1 .. Len(Line) : state[Line[i]] # "DEAD"
    BY LineTyped DEF IInv, WaitInLine, Waiting
  <1>3. kill_zombies(Queue) = Queue
    BY <1>1, <1>2, NobodyKilled
  <1>4. schedule(Queue, regs, TRUE)
    BY <1>3 DEF idle
  <1>5. \A t \in Queued(Queue) : state[t] # "DEAD"
    BY <1>2, LineTyped DEF IInv, Waiting
  <1>6. memory' = memory
    BY <1>5 DEF idle
  <1>7. current = 0 /\ cpu \in Registers
    BY DEF idle, IInv, Kept, Own
  <1>8. regs \in Registers /\ Own(regs, current)
    BY <1>7 DEF Registers, Pc, Own, IInv, Kept
  <1>9. Ends(regs, TRUE)
    BY <1>6, <1>8 DEF Ends, idle
  <1> HIDE DEF regs
  <1>10. IInv' /\ (Turn(regs, TRUE) \/ NoTurn(regs))
    BY <1>4, <1>9, ScheduleKeeps, ScheduleTurns
  <1> QED
    BY <1>9, <1>10 DEF Ends, Turn, NoTurn, Rotates, Rests, Dead

LEMMA YieldKeeps ==
  ASSUME IInv, Yield
  PROVE  IInv' /\ (Rotates \/ Rests)
  <1>1. schedule(Queue, cpu, TRUE) /\ Ends(cpu, TRUE)
    BY DEF Yield, Ends, IInv, Kept, Own
  <1>2. IInv' /\ (Turn(cpu, TRUE) \/ NoTurn(cpu))
    BY <1>1, ScheduleKeeps, ScheduleTurns
  <1> QED
    BY <1>1, <1>2 DEF Ends, Turn, NoTurn, Rotates, Rests, Dead

LEMMA ExitKeeps ==
  ASSUME IInv, thread_exit
  PROVE  IInv' /\ Rotates
  <1> DEFINE regs == [cpu EXCEPT !.lr = "exited"]
  <1>1. cpu \in Registers /\ current # 0 /\ current \in Thread
    BY DEF thread_exit, IInv, Kept, Own, TypeOK
  <1>2. regs \in Registers
    BY <1>1 DEF Registers, Pc
  <1>3. schedule(Queue, regs, FALSE) /\ Ends(regs, FALSE)
    BY <1>1, <1>2 DEF thread_exit, Ends
  <1> HIDE DEF regs
  <1>4. IInv' /\ Turn(regs, FALSE)
    BY <1>3, ScheduleKeeps
  <1>5. Dead' = Dead \cup {current}
    BY <1>1 DEF thread_exit, Dead, IInv, TypeOK
  <1> QED
    BY <1>4, <1>5 DEF Turn, Rotates

LEMMA LineStays ==
  ASSUME IInv, UNCHANGED <<run_queue, next>>
  PROVE  Line' = Line /\ Ordered' /\ \A t : Waiting(t)' <=> Waiting(t)
  <1>1. Listed(Queue, Line) /\ run_queue' = Queue.head /\ next' = Queue.link
    BY DEF IInv, Ordered, Queue
  <1>2. Line' = Line /\ Ordered'
    BY <1>1, NowListed
  <1> QED
    BY <1>2 DEF Waiting

LEMMA FooKeeps ==
  ASSUME IInv, foo
  PROVE  IInv' /\ Rests
  <1>1. /\ Line' = Line /\ Ordered'
        /\ \A t : Waiting(t)' <=> Waiting(t)
    BY LineStays DEF foo
  <1>2. current \in Thread /\ cpu \in Registers /\ current # 0 /\ cpu.lr = "foo"
    BY DEF foo, IInv, TypeOK, Kept, Own
  <1>3. cpu' = [cpu EXCEPT !.lr = "loop", !.x19 = current]
    BY DEF foo
  <1>4. cpu' \in Registers /\ cpu'.lr = "loop" /\ cpu'.x19 = current /\ cpu'.sp = cpu.sp
    BY <1>2, <1>3 DEF Registers, Pc
  <1>5. Own(cpu, current) /\ current' = current /\ context' = context /\ state' = state
        /\ memory' = memory /\ next_thread_id' = next_thread_id
    BY DEF foo, IInv, Kept
  <1>6. Own(cpu', current')
    BY <1>2, <1>4, <1>5 DEF Own
  <1>7. TypeOK'
    BY <1>4 DEF foo, TypeOK, IInv
  <1>8. Created' = Created
    BY <1>5 DEF Created
  <1>9. WaitInLine' /\ Lives' /\ Kept'
    BY <1>1, <1>5, <1>6, <1>8 DEF WaitInLine, Lives, Kept, IInv, Own
  <1> QED
    BY <1>1, <1>5, <1>7, <1>9 DEF IInv, Rests, Dead

LEMMA InitKeeps ==
  ASSUME Init
  PROVE  IInv /\ Line = <<>> /\ Dead = {}
  <1>1. Queue = [head |-> NULL, link |-> [t \in Node |-> NULL]]
    BY DEF Init, Queue
  <1>2. Listed(Queue, <<>>)
    BY <1>1 DEF Listed, After, Node
  <1>3. Line = <<>>
    BY <1>2, ChainOfList DEF Line
  <1>4. Created = {0}
    BY DEF Init, Created
  <1>5. TypeOK
    BY NullIsNoThread, MaxThreadsAssumption DEF Init, TypeOK, Node, Registers, Pc
  <1>6. \A t : ~ Waiting(t)
    BY <1>3 DEF Waiting
  <1>7. WaitInLine /\ Lives
    BY <1>4, <1>6, NullIsNoThread DEF Init, WaitInLine, Lives
  <1>8. Kept
    BY <1>5, <1>6 DEF Init, Kept, Own, TypeOK
  <1>9. Dead = {}
    BY DEF Init, Dead
  <1> QED
    BY <1>2, <1>3, <1>5, <1>7, <1>8, <1>9 DEF IInv, Ordered

LEMMA NextKeeps ==
  ASSUME IInv, [Next]_vars
  PROVE  IInv' /\ (Creates \/ Rotates \/ Rests)
  <1>1. CASE thread_create
    <2>1. state' = state /\ current' = current
      BY <1>1, CreateKeeps DEF thread_create, IInv, TypeOK, Lives
    <2> QED
      BY <1>1, <2>1, CreateKeeps DEF Creates, Dead
  <1>2. CASE UNCHANGED vars
    <2>1. /\ UNCHANGED <<state, context, cpu, current, next_thread_id, memory>>
          /\ Line' = Line /\ Ordered' /\ \A t : Waiting(t)' <=> Waiting(t)
      BY <1>2, LineStays DEF vars
    <2>2. TypeOK' /\ Created' = Created
      BY <1>2 DEF vars, IInv, TypeOK, Created
    <2>3. WaitInLine' /\ Lives'
      BY <2>1, <2>2 DEF IInv, WaitInLine, Lives
    <2>4. Kept'
      BY <2>1 DEF IInv, Kept, Own
    <2> QED
      BY <2>1, <2>2, <2>3, <2>4 DEF IInv, Rests, Dead
  <1> QED
    BY <1>1, <1>2, IdleKeeps, FooKeeps, YieldKeeps, ExitKeeps DEF Next

LEMMA Inductive == Spec => []IInv
  <1>1. Init => IInv
    BY InitKeeps
  <1>2. IInv /\ [Next]_vars => IInv'
    BY NextKeeps
  <1> QED
    BY <1>1, <1>2, PTL DEF Spec

-----------------------------------------------------------------------------
(* The list meets each waiting thread once and nothing else, however many  *)
(* threads are created, yield and exit (enqueue_thread, remove_thread,     *)
(* kill_zombies): nobody is lost, a dead thread never runs again, and what *)
(* kill_zombies looks for is never in the queue.                           *)
THEOREM NobodyLost == Spec => []QueueExact
  <1>1. IInv => QueueExact
    <2> SUFFICES ASSUME IInv PROVE QueueExact
      OBVIOUS
    <2>1. Chain(Queue) = Line
      BY DEF Line
    <2>2. Created \subseteq Thread
      <3>1. next_thread_id \in 1 .. MaxThreads + 1
        BY DEF IInv, TypeOK
      <3> QED
        BY <3>1, MaxThreadsAssumption DEF Created, Thread
    <2>3. \A t : t \in Queued(Queue) => t \in Thread
      BY LineTyped DEF IInv, Waiting
    <2>4. Queued(Queue) = {t \in Created : state[t] = "READY"} \ {current}
      BY <2>2, <2>3, LineTyped DEF IInv, WaitInLine
    <2>5. \A i, j \in DOMAIN Chain(Queue) : Chain(Queue)[i] = Chain(Queue)[j] => i = j
      BY <2>1, LineTyped DEF IInv
    <2> QED
      BY <2>4, <2>5 DEF QueueExact, IInv, Lives, Kept, Own
  <1> QED
    BY <1>1, Inductive, PTL

(* switch_to gives each thread its own stack and registers back, whatever  *)
(* the others did in between.                                              *)
THEOREM EachItsOwn == Spec => []OwnContext
  <1>1. IInv => OwnContext
    BY DEF IInv, Kept, Own, OwnContext
  <1> QED
    BY <1>1, Inductive, PTL

(* The scheduler with its linked list implements a round robin.            *)
THEOREM TakesTurns == Spec => RoundRobinOrder
  <1> DEFINE OrderVars == <<current, Chain(Queue), {t \in Thread : state[t] = "DEAD"}>>
  <1>1. Init => Order!Init
    BY InitKeeps DEF Order!Init, Line, Dead
  <1>2. IInv /\ [Next]_vars => [Order!Next]_OrderVars
    <2> SUFFICES ASSUME IInv, [Next]_vars PROVE [Order!Next]_OrderVars
      OBVIOUS
    <2>1. /\ Line = Chain(Queue) /\ Dead = {t \in Thread : state[t] = "DEAD"}
          /\ Line' = Chain(Queue)' /\ Dead' = {t \in Thread : state[t] = "DEAD"}'
      BY DEF Line, Dead
    <2>2. CASE Creates
      <3> DEFINE new == next_thread_id
      <3>1. new \in Thread \ Created /\ new # current /\ new \notin Dead
        BY <2>2 DEF Creates, Dead, IInv, Lives
      <3>2. \A i \in DOMAIN Line : Line[i] # new
        BY <3>1, LineTyped DEF IInv, WaitInLine, Waiting
      <3>3. Order!Create(new)
        BY <2>1, <2>2, <3>1, <3>2 DEF Creates, Order!Create, Order!New
      <3> QED
        BY <3>1, <3>3 DEF Order!Next
    <2>3. CASE Rotates
      <3>1. Order!Yield \/ Order!Exit
        BY <2>1, <2>3 DEF Rotates, Order!Yield, Order!Exit
      <3> QED
        BY <3>1 DEF Order!Next
    <2>4. CASE Rests
      BY <2>1, <2>4 DEF Rests
    <2> QED
      BY <2>2, <2>3, <2>4, NextKeeps
  <1> QED
    BY <1>1, <1>2, Inductive, PTL DEF Spec, RoundRobinOrder, Order!Spec

===============================================================================
