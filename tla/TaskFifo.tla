------------------------------ MODULE TaskFifo ------------------------------
(***************************************************************************)
(* What one level of the task queue promises the interrupt handler that    *)
(* fills it: a bounded first-in first-out queue.  A task it takes is run   *)
(* once, in its turn, and one at a time; it is turned away only when       *)
(* Capacity tasks are already waiting.                                     *)
(***************************************************************************)
EXTENDS Integers, Sequences

CONSTANT Capacity

VARIABLES
  waiting,  \* the tasks taken and not yet started, oldest first
  running,  \* the task being run, 0 when there is none
  taken,    \* how many tasks were taken; the next one gets the next number
  refused,  \* how many were turned away
  done      \* how many were run

vars == <<waiting, running, taken, refused, done>>

Init == waiting = <<>> /\ running = 0 /\ taken = 0 /\ refused = 0 /\ done = 0

Take ==
  /\ Len(waiting) < Capacity
  /\ waiting' = Append(waiting, taken + 1)
  /\ taken' = taken + 1
  /\ UNCHANGED <<running, refused, done>>

Refuse ==
  /\ Len(waiting) = Capacity
  /\ refused' = refused + 1
  /\ UNCHANGED <<waiting, running, taken, done>>

Start ==
  /\ running = 0 /\ waiting # <<>>
  /\ running' = Head(waiting)
  /\ waiting' = Tail(waiting)
  /\ UNCHANGED <<taken, refused, done>>

Finish ==
  /\ running # 0
  /\ running' = 0
  /\ done' = done + 1
  /\ UNCHANGED <<waiting, taken, refused>>

Next == Take \/ Refuse \/ Start \/ Finish

Spec == Init /\ [][Next]_vars /\ WF_vars(Start) /\ WF_vars(Finish)

=============================================================================
