------------------------------ MODULE Channel -------------------------------
(***************************************************************************)
(* What the kernel expects of a direction of the serial line: a queue that *)
(* loses, repeats and reorders nothing, and delivers all it was given.     *)
(* The characters are numbered 1, 2, 3 ... as they are put in.             *)
(***************************************************************************)
EXTENDS Integers, Sequences

VARIABLES
  queue,  \* the characters on their way, oldest first
  put,    \* how many were put in
  last    \* the character delivered last, 0 before the first

vars == <<queue, put, last>>

Init == queue = <<>> /\ put = 0 /\ last = 0

Put ==
  /\ put' = put + 1
  /\ queue' = Append(queue, put')
  /\ UNCHANGED last

Get ==
  /\ queue # <<>>
  /\ last' = Head(queue)
  /\ queue' = Tail(queue)
  /\ UNCHANGED put

Spec == Init /\ [][Put \/ Get]_vars /\ WF_vars(Get)

=============================================================================
