-------------------------------- MODULE MCHeap --------------------------------
(***************************************************************************)
(* Heap for model checking: two pools, with 4 and 2 chunks to a page.      *)
(***************************************************************************)
EXTENDS Heap, TLC

MCClasses == <<2, 4>>

BlockSymmetry == Permutations(Block)

=============================================================================
