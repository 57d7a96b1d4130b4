--------------------------- MODULE SchedulerLoops ---------------------------
(***************************************************************************)
(* The two loops of the scheduler whose outcome depends on the order of    *)
(* the slots, written as the code runs them, to compare with the closed    *)
(* forms in Scheduler.                                                     *)
(***************************************************************************)
EXTENDS Scheduler, SequencesExt

SlotsInOrder(s) == [i \in 1 .. s.count |-> i - 1]

\* Variant: equal priorities replace the best.
SelectLoop_last(s) ==
    LET step(acc, i) ==
            IF is_selectable_by_scheduler(s.state[i]) /\ Priority[i] <= acc.best_prio
            THEN [best |-> i, best_prio |-> Priority[i]] ELSE acc
    IN FoldLeft(step, [best |-> NoTask, best_prio |-> 255], SlotsInOrder(s)).best

\* best and best_prio of select_highest_priority after each slot.
SelectLoop(s) ==
    LET step(acc, i) ==
            IF is_selectable_by_scheduler(s.state[i]) /\ Priority[i] < acc.best_prio
            THEN [best |-> i, best_prio |-> Priority[i]] ELSE acc
    IN FoldLeft(step, [best |-> NoTask, best_prio |-> 255], SlotsInOrder(s)).best

\* Variant: the rate is reset after the timeout was answered.
WatchdogStep_late_reset(s, w) ==
    LET counted == [s EXCEPT !.watchdog[w] = @ + 1]
        done == IF s.state[w] # "Running" THEN s
                ELSE IF ~should_watchdog_timeout(counted.watchdog[w]) THEN counted
                ELSE [apply_policy(counted, w, "WatchdogTimeout") EXCEPT !.watchdog[w] = 0]
    IN IF done.state[w] \in {"Running", "Ready"} THEN [done EXCEPT !.sends[w] = 0] ELSE done

\* Phase 1.5 for one slot: rate reset, watchdog count, timeout.
WatchdogStep(s, w) ==
    LET st == s.state[w]
        reset == IF st \in {"Running", "Ready"} THEN [s EXCEPT !.sends[w] = 0] ELSE s
        counted == [reset EXCEPT !.watchdog[w] = @ + 1]
    IN IF st # "Running" THEN reset
       ELSE IF ~should_watchdog_timeout(counted.watchdog[w]) THEN counted
       ELSE [apply_policy(counted, w, "WatchdogTimeout") EXCEPT !.watchdog[w] = 0]

WatchdogLoop(s) == FoldLeft(WatchdogStep, s, SlotsInOrder(s))

\* What the timer tick hands to Phase 1.5.
BeforeWatchdog(s) == try_recover_from_degrade(PeriodPhase(advance_tick(s)))

\* The search loop of select_highest_priority returns the minimum that the
\* closed form names, in every reachable table.
SelectLoopFindsMinimum ==
    select_highest_priority(sys) = SelectLoop(sys)

\* The index-ordered loop of Phase 1.5, in which a timeout changes the states
\* of slots not yet visited, does what the closed form says, from every table
\* a tick can bring to it.
WatchdogLoopMatches ==
    Up(sys) => LET s == BeforeWatchdog(sys) IN WatchdogPhase(s) = WatchdogLoop(s)

=============================================================================
