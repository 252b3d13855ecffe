------------------------------- MODULE MCTask -------------------------------
(***************************************************************************)
(* Task for TLC: two deployments of one project, the case in which a task  *)
(* finds files of its own names in the directory of another.               *)
(***************************************************************************)
EXTENDS Task, TLC

CONSTANT p1

SameProject == [t \in Tasks |-> p1]
Symmetry == Permutations(Tasks)

=============================================================================
