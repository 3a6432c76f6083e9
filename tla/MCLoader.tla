------------------------------- MODULE MCLoader -------------------------------
(***************************************************************************)
(* Loader for model checking.  Among the bytes of the image are 10 and 13, *)
(* with which a line of text ends, and a digit.                            *)
(***************************************************************************)
EXTENDS Loader

MCImage == <<10, 49, 0, 13, 14, 255, 16, 17, 18, 19>>

==============================================================================
