-------------------------------- MODULE MCShell --------------------------------
(***************************************************************************)
(* Shell for model checking: archives of no, one and two files, whose      *)
(* names and bytes need padding or need none.                              *)
(***************************************************************************)
EXTENDS Shell

File(name, data) == [name |-> name, data |-> data]

MCArchives == {<<>>, <<File(<<Letter>>, <<1, 2>>)>>}
  \cup {<<File(n, d), File(<<Letter, Letter>>, <<6>>)>> :
          n \in {<<Letter>>, <<Letter, Letter, Letter>>}, d \in {<<1, 2, 3, 4>>, <<5>>}}

==============================================================================
