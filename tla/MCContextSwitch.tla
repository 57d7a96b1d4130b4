-------------------------- MODULE MCContextSwitch --------------------------
(* Three tasks, so that a switch can go from one old task to another while  *)
(* a third one has never run.                                               *)
EXTENDS ContextSwitch, TLC

CONSTANTS a, b, c

MC_Tasks == {a, b, c}
MC_Symmetry == Permutations(MC_Tasks)

=============================================================================
