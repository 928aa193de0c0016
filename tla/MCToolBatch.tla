---------------------------- MODULE MCToolBatch ----------------------------
(***************************************************************************)
(* Two files; an absolute and a relative spelling of the first, an absolute*)
(* one of the second.                                                      *)
(***************************************************************************)
EXTENDS ToolBatch

CONSTANTS f1, f2, abs1, rel1, abs2

\* the agent's working directory is the process's
Here == [n \in Names |-> IF n = abs2 THEN f2 ELSE f1]

\* it is not: the relative name opens another file than the guard looks at
Elsewhere == [n \in Names |-> IF n = abs1 THEN f1 ELSE f2]

\* the two files and their absolute names may be swapped
Swap == [x \in {f1, f2, abs1, abs2} |->
            CASE x = f1 -> f2 [] x = f2 -> f1 [] x = abs1 -> abs2 [] x = abs2 -> abs1]
Symmetry == {Swap}
=============================================================================
