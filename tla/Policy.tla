------------------------------ MODULE Policy ------------------------------
(***************************************************************************)
(* The failure policy's decision table (src/kernel/policy/mod.rs): a pure  *)
(* function from an event, the number of restarts the task already had and *)
(* the task's DAL (0 = A ... 3 = D) to a failure mode.  The lockstep of    *)
(* apply_policy evaluates it twice on equal arguments; the two results are *)
(* the same value here, so the mismatch branch (a bit flip between the two *)
(* calls) has no counterpart.                                              *)
(***************************************************************************)
EXTENDS Naturals

\* Budget exhaustion is answered by one restart, then by degradation.
MAX_RESTART_BUDGET   == 1
\* Stack overflows and task faults are answered by three restarts.
MAX_RESTART_FAULT    == 3
\* A watchdog timeout of a task that was restarted before degrades.
MAX_RESTART_WATCHDOG == 1

PolicyEvent == {"BudgetExhausted", "StackOverflow", "TaskFault", "CapViolation",
                "IopmpViolation", "PmpIntegrityFail", "WatchdogTimeout",
                "DeadlineMiss", "MultiModuleCrash"}

FailureMode == {"Restart", "Isolate", "Degrade", "Failover", "Alert", "Shutdown"}

DAL == 0 .. 3

\* Variant: one restart too many.
decide_action_lenient(event, restart_count, dal) ==
    CASE event = "BudgetExhausted" ->
            IF restart_count < MAX_RESTART_BUDGET THEN "Restart" ELSE "Degrade"
      [] event \in {"StackOverflow", "TaskFault"} ->
            IF restart_count <= MAX_RESTART_FAULT THEN "Restart" ELSE "Isolate"
      [] event = "WatchdogTimeout" ->
            IF restart_count < MAX_RESTART_WATCHDOG THEN "Failover" ELSE "Degrade"
      [] OTHER -> "Isolate"

decide_action(event, restart_count, dal) ==
    CASE event = "BudgetExhausted" ->
            IF restart_count < MAX_RESTART_BUDGET THEN "Restart" ELSE "Degrade"
      [] event \in {"StackOverflow", "TaskFault"} ->
            IF restart_count < MAX_RESTART_FAULT THEN "Restart" ELSE "Isolate"
      [] event = "WatchdogTimeout" ->
            IF restart_count < MAX_RESTART_WATCHDOG THEN "Failover" ELSE "Degrade"
      [] event = "DeadlineMiss" ->
            CASE dal = 0 -> "Failover" [] dal \in {1, 2} -> "Alert" [] OTHER -> "Isolate"
      [] event \in {"PmpIntegrityFail", "MultiModuleCrash"} -> "Shutdown"
      [] OTHER -> "Isolate"

=============================================================================
