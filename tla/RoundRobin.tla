------------------------------ MODULE RoundRobin ------------------------------
(***************************************************************************)
(* What a cooperative scheduler promises: one thread runs, the others wait *)
(* in a first-in first-out line, a thread that yields goes to the end of   *)
(* it and one that exits leaves it for good.                               *)
(***************************************************************************)
EXTENDS Naturals, Sequences

CONSTANT Threads \* those that may be created

VARIABLES
  running, \* the thread that runs
  ready,   \* Seq: the threads that wait, the next one first
  gone     \* those that exited

New(t) == t # running /\ t \notin gone /\ \A i \in DOMAIN ready : ready[i] # t

Create(t) ==
  /\ New(t)
  /\ ready' = Append(ready, t)
  /\ UNCHANGED <<running, gone>>

Yield ==
  /\ ready # <<>>
  /\ running' = Head(ready)
  /\ ready' = Append(Tail(ready), running)
  /\ UNCHANGED gone

Exit ==
  /\ ready # <<>>
  /\ running' = Head(ready)
  /\ ready' = Tail(ready)
  /\ gone' = gone \cup {running}

Init == ready = <<>> /\ gone = {}
Next == (\E t \in Threads : Create(t)) \/ Yield \/ Exit

Spec == Init /\ [][Next]_<<running, ready, gone>>

==============================================================================
