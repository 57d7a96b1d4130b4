------------------------- MODULE MCSchedulerBudget -------------------------
(* A DAL-B task whose budget is not a multiple of a tick and whose period is *)
(* longer than its budget, and a native DAL-D task of lower priority.        *)
EXTENDS SchedulerBudget, TLC

MC_Priority == 0 :> 4 @@ 1 :> 6
MC_Dal == 0 :> 1 @@ 1 :> 3
MC_Budget == 0 :> 3 @@ 1 :> 4
MC_Period == 0 :> 3 @@ 1 :> 2

=============================================================================
