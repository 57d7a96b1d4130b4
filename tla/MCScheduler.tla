---------------------------- MODULE MCScheduler ----------------------------
(***************************************************************************)
(* Small instances of Scheduler.  All keep the shape of the task set that *)
(* boot.rs creates: legacy tasks, the first of DAL-B, and a native DAL-D   *)
(* task.                                                                   *)
(***************************************************************************)
EXTENDS SchedulerLoops

\* Three tasks: DAL-B, DAL-C and a native DAL-D task that ties with the second.
Three_Priority == 0 :> 4 @@ 1 :> 6 @@ 2 :> 6
Three_Dal == 0 :> 1 @@ 1 :> 2 @@ 2 :> 3
Three_Budget == 0 :> 1 @@ 1 :> 2 @@ 2 :> 1
Three_Period == 0 :> 2 @@ 1 :> 2 @@ 2 :> 1

\* Two tasks: DAL-B and a native DAL-D task, of different periods.
Two_Priority == 0 :> 4 @@ 1 :> 6
Two_Dal == 0 :> 1 @@ 1 :> 3
Two_Budget == 0 :> 2 @@ 1 :> 2
Two_Period == 0 :> 2 @@ 1 :> 3

\* The same two tasks, the DAL-B task with a budget of one tick in every two.
Short_Budget == 0 :> 1 @@ 1 :> 4
Short_Period == 0 :> 2 @@ 1 :> 4

=============================================================================
