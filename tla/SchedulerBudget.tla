-------------------------- MODULE SchedulerBudget --------------------------
(***************************************************************************)
(* Scheduler with two counters that only observe it: for each task, in how *)
(* many ticks of its current period it was interrupted as the Running task *)
(* (ran), counted up to RAN_CAP; and the ticks since a budget was last     *)
(* halved (quiet), counted up to the cooldown.                             *)
(***************************************************************************)
EXTENDS Scheduler

CONSTANT RAN_CAP

ASSUME RanCapAssumption == RAN_CAP \in Nat

VARIABLES ran, quiet

budgetVars == <<sys, ran, quiet>>

BudgetInit ==
    /\ Init
    /\ ran = [t \in Slots |-> 0]
    /\ quiet = DEGRADE_COOLDOWN_TICKS

\* The tick that ends a period refills the budget before it charges it, so it
\* is the first tick of the new period.
PeriodEnds(t) == PeriodTicks[t] > 0 /\ sys.state[t] # "Dead" /\ sys'.period[t] = 0

Charged(t) == t = sys.cur /\ Running(sys, t)

Counted(t) ==
    LET before == IF PeriodEnds(t) THEN 0 ELSE ran[t]
    IN IF Charged(t) /\ before < RAN_CAP THEN before + 1 ELSE before

\* Only a degradation makes a task's budget smaller.
Halved == \E t \in Slots : sys'.budget[t] < sys.budget[t]

CountedTick ==
    /\ Tick
    /\ ran' = IF Up(sys') THEN [t \in Slots |-> Counted(t)] ELSE ran
    /\ quiet' = IF Halved THEN 0
                ELSE IF quiet < DEGRADE_COOLDOWN_TICKS THEN quiet + 1 ELSE quiet

BudgetNext ==
    \/ CountedTick
    \/ /\ create_task \/ (\E id \in NativeIds : native_create_task(id)) \/ start_first_task
             \/ Syscall \/ Fault \/ parked
       /\ quiet' = IF Halved THEN 0 ELSE quiet
       /\ UNCHANGED ran

BudgetSpec == BudgetInit /\ [][BudgetNext]_budgetVars /\ Fairness

\* The ticks a budget pays for.
TicksOf(budget) == (budget + CYCLES_PER_TICK - 1) \div CYCLES_PER_TICK

\* In one period a DAL-A/B task is Running for at most the ticks its budget
\* pays for, whatever preemptions, yields, degradations and restarts happen.
RunsWithinBudget ==
    \A t \in Slots : Dal[t] < 2 => ran[t] <= TicksOf(OriginalBudget[t])

\* The system recovers only after DEGRADE_COOLDOWN_TICKS ticks in which no budget
\* was halved: a further degradation of a degraded system, by a tick or by an
\* early kick, starts the cooldown of try_recover_from_degrade again.
CooldownRespected ==
    [][sys.degraded /\ ~sys'.degraded => quiet' = DEGRADE_COOLDOWN_TICKS]_budgetVars

=============================================================================
