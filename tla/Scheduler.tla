----------------------------- MODULE Scheduler -----------------------------
(***************************************************************************)
(* The task scheduler and the handlers that drive it, as the trap handler  *)
(* reaches them: the timer interrupt, the faults and the system calls      *)
(* (src/kernel/scheduler/mod.rs, src/arch/trap.rs, src/kernel/syscall).    *)
(*                                                                         *)
(* One hart runs the kernel with interrupts disabled (MIE = 0), so every   *)
(* handler is one step.  What interleaves is the order in which the timer, *)
(* the faults and the system calls of the running task arrive.             *)
(*                                                                         *)
(* The kernel's statics are the fields of the record sys.  Every Rust      *)
(* function that updates them is an operator from such a record to the     *)
(* next one, under the function's own name; a handler composes them in the *)
(* order of the code.  A function that diverges (shutdown_system,          *)
(* halt_system) leaves mode other than "run" and nothing runs after it.    *)
(***************************************************************************)
EXTENDS Policy, Integers, FiniteSets

CONSTANTS
    MAX_TASKS,              \* task slots
    CYCLES_PER_TICK,        \* budget charged to the running task per tick
    WATCHDOG_LIMIT,         \* ticks without a kick before a timeout
    WATCHDOG_WINDOW_MIN,    \* a legacy task may not kick earlier than this
    MAX_SENDS_PER_TICK,     \* IPC sends a task may make per tick
    CAP_FAIL_LIMIT,         \* consecutive denials that make a CapViolation
    DEGRADE_COOLDOWN_TICKS, \* ticks between degrade and recovery
    GRACE_TICKS,            \* first ticks whose deadline misses are ignored
    LegacyTasks,            \* number of create_task calls the boot makes
    NativeIds,              \* slots the boot creates with native_create_task
    Priority, Dal, OriginalBudget, PeriodTicks, \* the task configurations
    Enrolled,               \* tasks with a token in the capability cache
    LocallyCapable          \* tasks granted something by LOCAL_CAP_TABLE

Slots == 0 .. MAX_TASKS - 1

ASSUME LimitsAssumption ==
    /\ MAX_TASKS \in Nat \ {0}
    /\ CYCLES_PER_TICK \in Nat \ {0}
    /\ WATCHDOG_LIMIT \in Nat \ {0}
    /\ WATCHDOG_WINDOW_MIN \in Nat
    /\ MAX_SENDS_PER_TICK \in Nat
    /\ CAP_FAIL_LIMIT \in Nat \ {0}
    /\ DEGRADE_COOLDOWN_TICKS \in Nat
    /\ GRACE_TICKS \in Nat

ASSUME TasksAssumption ==
    /\ LegacyTasks \in 1 .. MAX_TASKS
    /\ NativeIds \subseteq LegacyTasks .. MAX_TASKS - 1
    /\ Priority \in [Slots -> 0 .. 255]
    /\ Dal \in [Slots -> DAL]
    /\ OriginalBudget \in [Slots -> Nat]
    /\ PeriodTicks \in [Slots -> Nat]
    /\ Enrolled \subseteq Slots
    /\ LocallyCapable \subseteq Slots

VARIABLE sys

TaskState == {"Dead", "Ready", "Running", "Suspended", "Isolated"}
Mode == {"boot", "run", "shutdown", "halt"}

\* The fields of Task that change, one function of the slots each; the restart
\* and denial counters; the owners of cached tokens; the scheduler's scalars.
\* ctx says what the stored context resumes, period, watchdog and sends are the
\* counters of those names, age and ticks stand for DEGRADE_TICK and TICK_COUNT.
Statics ==
    [state : [Slots -> TaskState], ctx : [Slots -> {"entry", "saved"}],
     budget : [Slots -> Nat], remaining : [Slots -> Nat], period : [Slots -> Nat],
     watchdog : [Slots -> 0 .. WATCHDOG_LIMIT - 1],
     sends : [Slots -> 0 .. MAX_SENDS_PER_TICK],
     restarts : [Slots -> 0 .. MAX_RESTART_FAULT],
     capFails : [Slots -> 0 .. CAP_FAIL_LIMIT - 1],
     caps : SUBSET Slots, cur : Slots, count : 0 .. MAX_TASKS,
     degraded : BOOLEAN, age : 0 .. DEGRADE_COOLDOWN_TICKS,
     ticks : 0 .. GRACE_TICKS + 1, mode : Mode]

\* watchdog_window_min: native tasks have the window check disabled.
watchdog_window_min(t) == IF t \in NativeIds THEN 0 ELSE WATCHDOG_WINDOW_MIN

Running(s, t) == s.state[t] = "Running"
Isolated(s, t) == s.state[t] = "Isolated"
Up(s) == s.mode = "run"

(***************************************************************************)
(* Policy actions.                                                         *)
(***************************************************************************)
shutdown_system(s) == [s EXCEPT !.mode = "shutdown"]

halt_system(s) == [s EXCEPT !.mode = "halt"]

\* A kernel event (id 0xFF, no restart count): only Shutdown has an effect.
SystemEvent(s, event) ==
    IF decide_action(event, 0, 0) = "Shutdown" THEN shutdown_system(s) ELSE s

\* The stored context is set to the entry point; the state is left alone.
restart_task(s, t) == [s EXCEPT !.ctx[t] = "entry"]

\* Variant: the DAL boundary is off by one.
degrade_system_from_dal_b(s) ==
    LET low(t) == Dal[t] >= 1 /\ s.state[t] \notin {"Dead", "Isolated"}
    IN [s EXCEPT !.degraded = TRUE,
                 !.age = 0,
                 !.state = [t \in Slots |-> IF low(t) THEN "Suspended" ELSE s.state[t]],
                 !.budget = [t \in Slots |-> IF low(t) THEN s.budget[t] \div 2
                                                       ELSE s.budget[t]]]

\* Variant: a system that is already degraded keeps its DEGRADE_TICK.
degrade_system_keeps_clock(s) ==
    LET low(t) == Dal[t] >= 2 /\ s.state[t] \notin {"Dead", "Isolated"}
    IN [s EXCEPT !.degraded = TRUE,
                 !.age = IF s.degraded THEN s.age ELSE 0,
                 !.state = [t \in Slots |-> IF low(t) THEN "Suspended" ELSE s.state[t]],
                 !.budget = [t \in Slots |-> IF low(t) THEN s.budget[t] \div 2
                                                       ELSE s.budget[t]]]

\* age counts the ticks since DEGRADE_TICK, the only use of that timestamp.
degrade_system(s) ==
    LET low(t) == Dal[t] >= 2 /\ s.state[t] \notin {"Dead", "Isolated"}
    IN [s EXCEPT !.degraded = TRUE,
                 !.age = 0,
                 !.state = [t \in Slots |-> IF low(t) THEN "Suspended" ELSE s.state[t]],
                 !.budget = [t \in Slots |-> IF low(t) THEN s.budget[t] \div 2
                                                       ELSE s.budget[t]]]

\* Variant: the crash check is left out.
isolate_task_unchecked(s, t) == [s EXCEPT !.state[t] = "Isolated", !.caps = s.caps \ {t}]

isolate_task(s, t) ==
    LET i == [s EXCEPT !.state[t] = "Isolated", !.caps = s.caps \ {t}]
    IN IF \E a, b \in Slots : a # b /\ Isolated(i, a) /\ Isolated(i, b)
       THEN SystemEvent(i, "MultiModuleCrash")
       ELSE i

apply_action(s, t, action) ==
    CASE action = "Restart" -> restart_task(s, t)
      [] action = "Isolate" -> isolate_task(s, t)
      [] action \in {"Degrade", "Failover"} -> degrade_system(s)
      [] action = "Alert" -> s
      [] action = "Shutdown" -> shutdown_system(s)

\* apply_policy followed by apply_action, the two always come together.
apply_policy(s, t, event) ==
    LET action == decide_action(event, s.restarts[t], Dal[t])
        counted == IF action = "Restart" THEN [s EXCEPT !.restarts[t] = @ + 1] ELSE s
    IN apply_action(counted, t, action)

(***************************************************************************)
(* The scheduling decision, shared by the timer tick and by yield.         *)
(***************************************************************************)
NoTask == MAX_TASKS

is_selectable_by_scheduler(state) == state \in {"Ready", "Running"}

\* The search starts from priority u8::MAX and takes strictly better ones, so a
\* task of priority 255 is never chosen and the lowest index wins a tie.
Candidates(s) == {t \in Slots : is_selectable_by_scheduler(s.state[t]) /\ Priority[t] < 255}

Precedes(a, b) == Priority[a] < Priority[b] \/ (Priority[a] = Priority[b] /\ a <= b)

\* Variant: the search replaces its best on equal priority.
select_highest_priority_last(s) ==
    IF Candidates(s) = {} THEN NoTask
    ELSE CHOOSE t \in Candidates(s) :
             \A u \in Candidates(s) :
                 Priority[t] < Priority[u] \/ (Priority[t] = Priority[u] /\ t >= u)

select_highest_priority(s) ==
    IF Candidates(s) = {} THEN NoTask
    ELSE CHOOSE t \in Candidates(s) : \A u \in Candidates(s) : Precedes(t, u)

Switched(s, next, old_state) ==
    [s EXCEPT !.state = [t \in Slots |-> IF t = next THEN "Running"
                                         ELSE IF t = s.cur THEN old_state
                                         ELSE s.state[t]],
              !.cur = next,
              !.ctx[s.cur] = "saved"]

\* Variants: the old task keeps its Running mark; the early return for an
\* unchanged choice ignores the task's state; a stopped task is not switched from.
switch_without_demotion(s) ==
    LET next == select_highest_priority(s)
    IN IF s.count < 2 \/ next = NoTask \/ (next = s.cur /\ Running(s, s.cur)) THEN s
       ELSE Switched(s, next, s.state[s.cur])

switch_only_to_another(s) ==
    LET next == select_highest_priority(s)
    IN IF s.count < 2 \/ next \in {NoTask, s.cur} THEN s
       ELSE Switched(s, next, IF Running(s, s.cur) THEN "Ready" ELSE s.state[s.cur])

switch_only_from_running(s) ==
    LET next == select_highest_priority(s)
    IN IF s.count < 2 \/ next \in {NoTask, s.cur} \/ ~Running(s, s.cur) THEN s
       ELSE Switched(s, next, "Ready")

\* switch_context stores the interrupted registers in the old task's context,
\* over whatever restart_task put there.  With no task to select, the code
\* returns to the interrupted task, whatever its state is.
do_priority_select_and_switch(s) ==
    LET old == s.cur
        next == select_highest_priority(s)
    IN IF s.count < 2 \/ next = NoTask \/ (next = old /\ Running(s, old))
       THEN s
       ELSE [s EXCEPT !.state = [t \in Slots |->
                            IF t = next THEN "Running"
                            ELSE IF t = old /\ Running(s, old) THEN "Ready"
                            ELSE s.state[t]],
                      !.cur = next,
                      !.ctx[old] = "saved"]

(***************************************************************************)
(* The phases of schedule_timer_tick.                                      *)
(***************************************************************************)
\* Variants: isolated tasks are woken; no task is.
is_period_reset_eligible_isolated(state) == state \in {"Suspended", "Isolated"}
is_period_reset_eligible_never(state) == FALSE

is_period_reset_eligible(state) == state = "Suspended"

\* Phase 1: the periods advance; a period that ends refills the budget.  A slot
\* that was never created is Dead and has period_ticks 0.
PeriodPhase(s) ==
    LET live(t) == s.state[t] # "Dead" /\ PeriodTicks[t] > 0
        ends(t) == live(t) /\ s.period[t] + 1 >= PeriodTicks[t]
    IN [s EXCEPT !.period = [t \in Slots |-> IF ends(t) THEN 0
                                             ELSE IF live(t) THEN s.period[t] + 1
                                             ELSE s.period[t]],
                 !.remaining = [t \in Slots |-> IF ends(t) THEN s.budget[t]
                                                ELSE s.remaining[t]],
                 !.state = [t \in Slots |->
                     IF ends(t) /\ is_period_reset_eligible(s.state[t]) THEN "Ready"
                     ELSE s.state[t]]]

\* Variant: the health check is left out.
try_recover_unchecked(s) ==
    LET back(t) == Dal[t] >= 2 /\ s.state[t] = "Suspended"
    IN IF s.degraded /\ s.age >= DEGRADE_COOLDOWN_TICKS
       THEN [s EXCEPT !.degraded = FALSE, !.age = 0,
                      !.state = [t \in Slots |-> IF back(t) THEN "Ready" ELSE s.state[t]]]
       ELSE s

\* Variant: the cooldown is compared with > instead of >=.
try_recover_late(s) ==
    LET healthy == \A t \in Slots : Dal[t] < 2 => ~Isolated(s, t)
        back(t) == Dal[t] >= 2 /\ s.state[t] = "Suspended"
    IN IF s.degraded /\ s.age > DEGRADE_COOLDOWN_TICKS /\ healthy
       THEN [s EXCEPT !.degraded = FALSE, !.age = 0,
                      !.state = [t \in Slots |-> IF back(t) THEN "Ready" ELSE s.state[t]]]
       ELSE s

\* Only tasks that are still Suspended get their original budget back.
try_recover_from_degrade(s) ==
    LET healthy == \A t \in Slots : Dal[t] < 2 => ~Isolated(s, t)
        back(t) == Dal[t] >= 2 /\ s.state[t] = "Suspended"
    IN IF s.degraded /\ s.age >= DEGRADE_COOLDOWN_TICKS /\ healthy
       THEN [s EXCEPT !.degraded = FALSE,
                      !.age = 0,
                      !.budget = [t \in Slots |-> IF back(t) THEN OriginalBudget[t]
                                                  ELSE s.budget[t]],
                      !.remaining = [t \in Slots |-> IF back(t) THEN OriginalBudget[t]
                                                     ELSE s.remaining[t]],
                      !.state = [t \in Slots |-> IF back(t) THEN "Ready" ELSE s.state[t]]]
       ELSE s

\* Variant: off by one.
should_watchdog_timeout_late(counter) == counter > WATCHDOG_LIMIT

should_watchdog_timeout(counter) == counter >= WATCHDOG_LIMIT

\* Phase 1.5, a loop over the slots in index order that reads each state when
\* its turn comes.  The only slot that can be Running is the current one
\* (RunningIsCurrent), so the states change once, at that slot: the slots up
\* to it are read before the policy acts and the later ones after it.
WatchdogPhase(s) ==
    LET counter == s.watchdog[s.cur] + 1
        fires == Running(s, s.cur) /\ should_watchdog_timeout(counter)
        p == IF fires THEN apply_policy(s, s.cur, "WatchdogTimeout") ELSE s
        seen(t) == IF t <= s.cur THEN s.state[t] ELSE p.state[t]
    IN [p EXCEPT !.sends = [t \in Slots |->
                     IF is_selectable_by_scheduler(seen(t)) THEN 0 ELSE s.sends[t]],
                 !.watchdog[s.cur] = IF fires THEN 0
                                     ELSE IF Running(s, s.cur) THEN counter
                                     ELSE s.watchdog[s.cur]]

saturating_sub(a, b) == IF a > b THEN a - b ELSE 0

\* Variant: an exhausted task is reported and goes on running.
BudgetPhase_without_stop(s) ==
    LET t == s.cur
        left == saturating_sub(s.remaining[t], CYCLES_PER_TICK)
        paid == [s EXCEPT !.remaining[t] = left]
    IN IF s.budget[t] = 0 \/ ~Running(s, t) THEN s
       ELSE IF left > 0 THEN paid
       ELSE apply_policy(paid, t, "BudgetExhausted")

\* Phase 2: the current task pays for the tick.  budget = 0 means unlimited.
BudgetPhase(s) ==
    LET t == s.cur
        left == saturating_sub(s.remaining[t], CYCLES_PER_TICK)
        paid == [s EXCEPT !.remaining[t] = left]
    IN IF s.budget[t] = 0 \/ ~Running(s, t) THEN s
       ELSE IF left > 0 THEN paid
       ELSE apply_policy([paid EXCEPT !.state[t] = "Suspended"], t, "BudgetExhausted")

\* advance_tick of the flight recorder, reduced to the age of the degradation.
\* Recovery is tried on every tick, so ages above the cooldown are not told
\* apart.
advance_tick(s) ==
    IF s.degraded /\ s.age < DEGRADE_COOLDOWN_TICKS THEN [s EXCEPT !.age = @ + 1] ELSE s

schedule_timer_tick(s, pmp_ok) ==
    IF ~pmp_ok THEN SystemEvent(advance_tick(s), "PmpIntegrityFail")
    ELSE do_priority_select_and_switch(
             BudgetPhase(WatchdogPhase(try_recover_from_degrade(PeriodPhase(advance_tick(s))))))

(***************************************************************************)
(* The boot sequence, with interrupts off: the legacy tasks, the native    *)
(* tasks, then the first dispatch.                                         *)
(***************************************************************************)
Boot == sys.mode = "boot"

Created(s, t) ==
    [s EXCEPT !.state[t] = "Ready", !.ctx[t] = "entry", !.budget[t] = OriginalBudget[t],
              !.remaining[t] = OriginalBudget[t], !.period[t] = 0, !.watchdog[t] = 0]

\* A task that cannot be created (budget 0) halts the boot.
create_task ==
    /\ Boot /\ sys.count < LegacyTasks
    /\ sys' = IF OriginalBudget[sys.count] = 0 THEN halt_system(sys)
              ELSE [Created(sys, sys.count) EXCEPT !.count = @ + 1]

\* The slots of NativeIds have a non-empty PMP profile.
native_create_task(id) ==
    /\ Boot /\ sys.count >= LegacyTasks
    /\ OriginalBudget[id] > 0 /\ ~is_selectable_by_scheduler(sys.state[id])
    /\ sys' = [Created(sys, id) EXCEPT !.count = IF id >= @ THEN id + 1 ELSE @]

start_first_task ==
    /\ Boot /\ sys.count >= LegacyTasks
    /\ \A id \in NativeIds : OriginalBudget[id] > 0 => sys.state[id] = "Ready"
    /\ LET best == select_highest_priority(sys)
       IN sys' = IF best = NoTask THEN halt_system(sys)
                 ELSE [sys EXCEPT !.state[best] = "Running", !.cur = best, !.mode = "run"]

(***************************************************************************)
(* The handlers.  The code that runs between two of them is always the     *)
(* current task's, also when its state is Suspended or Isolated.           *)
(***************************************************************************)
\* Timer interrupt.  overrun: the next deadline had already passed when it was
\* programmed.  pmp_ok: the PMP registers agree with their shadow.
timer_interrupt(overrun, pmp_ok) ==
    /\ Up(sys)
    /\ LET ticked == [sys EXCEPT !.ticks = IF @ <= GRACE_TICKS THEN @ + 1 ELSE @]
           missed == IF overrun /\ ticked.ticks > GRACE_TICKS
                     THEN apply_policy(ticked, ticked.cur, "DeadlineMiss") ELSE ticked
       IN sys' = IF Up(missed) THEN schedule_timer_tick(missed, pmp_ok) ELSE missed

\* Illegal instruction, breakpoint, misaligned access, access fault outside the
\* task stacks.  There is no rescheduling: the trap returns to the same task.
handle_task_fault ==
    /\ Up(sys)
    /\ sys' = apply_policy(sys, sys.cur, "TaskFault")

\* Access fault whose address lies in the task stacks.
stack_overflow ==
    /\ Up(sys)
    /\ sys' = apply_policy(sys, sys.cur, "StackOverflow")

\* Instruction access fault, page fault, unknown exception.
fatal_trap ==
    /\ Up(sys)
    /\ sys' = halt_system(sys)

\* A kick before the window opens is answered like a timeout.
watchdog_kick(s) ==
    LET early == s.watchdog[s.cur] < watchdog_window_min(s.cur)
        p == IF early THEN apply_policy(s, s.cur, "WatchdogTimeout") ELSE s
    IN [p EXCEPT !.watchdog[s.cur] = 0]

\* Variant: yield goes through the timer's path.
sys_yield_as_tick ==
    /\ Up(sys)
    /\ sys' = schedule_timer_tick(watchdog_kick(sys), TRUE)

sys_yield ==
    /\ Up(sys)
    /\ sys' = do_priority_select_and_switch(watchdog_kick(sys))

sys_exit ==
    /\ Up(sys)
    /\ LET gone == isolate_task(sys, sys.cur)
       IN sys' = IF Up(gone) THEN do_priority_select_and_switch(gone) ELSE gone

\* A token is found in the cache, or LOCAL_CAP_TABLE grants the request.
sys_cap_invoke_granted ==
    /\ Up(sys)
    /\ sys.cur \in sys.caps \cup LocallyCapable
    /\ sys' = [sys EXCEPT !.capFails[sys.cur] = 0]

\* Nothing stops any task from asking for what it was not granted.
sys_cap_invoke_denied ==
    /\ Up(sys)
    /\ LET fails == sys.capFails[sys.cur] + 1
       IN sys' = IF fails >= CAP_FAIL_LIMIT
                 THEN apply_policy([sys EXCEPT !.capFails[sys.cur] = 0], sys.cur, "CapViolation")
                 ELSE [sys EXCEPT !.capFails[sys.cur] = fails]

\* The admission of a send: the buffer check fails for an Isolated task, the
\* rate counter counts every attempt that passes it, also one that then finds
\* the ring full.  The ring itself is not part of this module.
sys_ipc_send ==
    /\ Up(sys)
    /\ ~Isolated(sys, sys.cur)
    /\ sys.sends[sys.cur] < MAX_SENDS_PER_TICK
    /\ sys' = [sys EXCEPT !.sends[sys.cur] = @ + 1]

\* shutdown_system and halt_system wait for interrupts with MIE = 0, forever.
parked ==
    /\ sys.mode \in {"shutdown", "halt"}
    /\ UNCHANGED sys

(***************************************************************************)
(* The specification.                                                      *)
(***************************************************************************)
Init ==
    sys = [state     |-> [t \in Slots |-> "Dead"],
           ctx       |-> [t \in Slots |-> "entry"],
           budget    |-> [t \in Slots |-> 0],
           remaining |-> [t \in Slots |-> 0],
           period    |-> [t \in Slots |-> 0],
           watchdog  |-> [t \in Slots |-> 0],
           sends     |-> [t \in Slots |-> 0],
           restarts  |-> [t \in Slots |-> 0],
           capFails  |-> [t \in Slots |-> 0],
           caps      |-> Enrolled,
           cur       |-> 0,
           count     |-> 0,
           degraded  |-> FALSE,
           age       |-> 0,
           ticks     |-> 0,
           mode      |-> "boot"]

Tick == \E overrun, pmp_ok \in BOOLEAN : timer_interrupt(overrun, pmp_ok)

Syscall == sys_yield \/ sys_exit \/ sys_cap_invoke_granted \/ sys_cap_invoke_denied \/ sys_ipc_send

Fault == handle_task_fault \/ stack_overflow \/ fatal_trap

Next ==
    \/ create_task
    \/ \E id \in NativeIds : native_create_task(id)
    \/ start_first_task
    \/ Tick
    \/ Syscall
    \/ Fault
    \/ parked

\* The timer is re-armed in every tick and traps are short, so while the
\* system is up the next tick comes; and the boot goes on to its end.
Fairness ==
    /\ WF_sys(Tick)
    /\ WF_sys(create_task \/ (\E id \in NativeIds : native_create_task(id)) \/ start_first_task)

Spec == Init /\ [][Next]_sys

FairSpec == Spec /\ Fairness

(***************************************************************************)
(* Properties.                                                             *)
(***************************************************************************)
\* Every static keeps its range: the restart counters stop at the fault
\* limit, the watchdog and period counters stay below their limits, the
\* current task is a slot of the table.
TypeOK ==
    /\ sys \in Statics
    /\ \A t \in Slots : sys.period[t] = 0 \/ sys.period[t] < PeriodTicks[t]

\* At most one task is Running and it is the current one: no path through
\* period end, recovery, degradation, restart or switch leaves a second task
\* marked Running (the watchdog and budget phases rely on it).
RunningIsCurrent ==
    \A t \in Slots : Running(sys, t) => ~Boot /\ t = sys.cur

\* While the current task is Running it is the one the selection would choose:
\* no handler that makes other tasks runnable (period end, recovery) returns to
\* a task that a better one should have preempted, ties going to the lowest
\* slot.
PriorityRespected ==
    Running(sys, sys.cur) => \A t \in Candidates(sys) : Precedes(sys.cur, t)

\* Two isolated tasks stop the system (MultiModuleCrash), whichever of exit,
\* fault, capability violation or deadline miss isolated each of them.
TwoIsolatedShutDown ==
    \A a, b \in Slots : a # b /\ Isolated(sys, a) /\ Isolated(sys, b) => sys.mode = "shutdown"

\* A task that the scheduler may pick, and whose budget is monitored, has some
\* of it left: exhaustion, degradation, period end and recovery, in any order,
\* never leave a runnable task with nothing to spend.
RunnableHasBudget ==
    \A t \in Slots :
        is_selectable_by_scheduler(sys.state[t]) /\ sys.budget[t] > 0 => sys.remaining[t] > 0

\* Degradation takes budget from DAL-C/D tasks only, and nothing ever gives a
\* task more than it was created with.
BudgetWithinOriginal ==
    \A t \in Slots :
        sys.state[t] # "Dead" =>
            /\ sys.budget[t] <= OriginalBudget[t]
            /\ sys.remaining[t] <= OriginalBudget[t]
            /\ Dal[t] < 2 => sys.budget[t] = OriginalBudget[t]

\* Isolation is final: period end, recovery, restart and degradation all leave
\* an Isolated task Isolated, and its revoked tokens stay revoked.
IsolationIsFinal ==
    [][\A t \in Slots : Isolated(sys, t) => Isolated(sys', t) /\ t \notin sys'.caps]_sys

\* A DAL-A/B task is suspended by one thing only, the exhaustion of its own
\* budget in a tick it ran in: degradation caused by other tasks passes it by.
HighDalStoppedByOwnBudget ==
    [][\A t \in Slots :
          Dal[t] < 2 /\ sys.state[t] # "Suspended" /\ sys'.state[t] = "Suspended"
              => t = sys.cur /\ Running(sys, t) /\ sys'.remaining[t] = 0]_sys

\* Time only passes in the timer interrupt: however often a task makes another
\* handler run, no period advances, no budget is refilled, no rate counter is
\* reset and no degradation ages (the list at schedule_yield).
TasksCannotAdvanceTime ==
    [][Syscall \/ Fault =>
          /\ sys'.period = sys.period
          /\ sys'.remaining = sys.remaining
          /\ \A t \in Slots : sys'.sends[t] >= sys.sends[t]
          /\ sys'.age <= sys.age
          /\ sys.degraded => sys'.degraded]_sys

\* A degraded system in which a DAL-A/B task is isolated never recovers.
UnhealthyStaysDegraded ==
    [][(sys.degraded /\ \E t \in Slots : Dal[t] < 2 /\ Isolated(sys, t)) => sys'.degraded]_sys

\* Recovery is prompt: while every DAL-A/B task is healthy a degradation is
\* younger than the cooldown, it ends in the tick that completes it.  So the
\* difference of two u32 ticks that try_recover_from_degrade compares with the
\* cooldown never wraps while it decides anything.
RecoveryIsPrompt ==
    Up(sys) /\ sys.degraded /\ (\A t \in Slots : Dal[t] < 2 => ~Isolated(sys, t))
        => sys.age = 0 \/ sys.age < DEGRADE_COOLDOWN_TICKS

\* The processor is not kept from a runnable task: while the system is up the
\* current task is Running, or no task is runnable, or the current task was
\* isolated by a handler that does not reschedule (fault, capability violation).
ProcessorWellUsed ==
    Up(sys) /\ sys.count > 1 =>
        Running(sys, sys.cur) \/ Isolated(sys, sys.cur) \/ Candidates(sys) = {}

\* An isolated task that still has the processor loses it, at the next tick,
\* unless no other task is runnable or the system stops.
IsolatedLeavesProcessor ==
    (Up(sys) /\ Isolated(sys, sys.cur))
        ~> (~Isolated(sys, sys.cur) \/ Candidates(sys) = {} \/ ~Up(sys))

\* A suspended DAL-A/B task that has a period becomes runnable again, at its
\* next period end, unless the system stops first.
SuspendedHighDalReturns ==
    \A t \in Slots :
        (Up(sys) /\ Dal[t] < 2 /\ PeriodTicks[t] > 0 /\ sys.state[t] = "Suspended")
            ~> (sys.state[t] # "Suspended" \/ ~Up(sys))

(***************************************************************************)
(* What comments of the code say of it and the code does not do.           *)
(***************************************************************************)
\* restart_task: a restarted task starts over from its entry point.
RestartStartsOver ==
    [][\A t \in Slots : sys'.restarts[t] > sys.restarts[t] => sys'.ctx[t] = "entry"]_sys

\* try_recover_from_degrade: recovery gives DAL-C/D tasks their original budget.
RecoveryRestoresBudget ==
    [][sys.degraded /\ ~sys'.degraded =>
          \A t \in Slots : sys'.state[t] \in {"Ready", "Running", "Suspended"}
                               => sys'.budget[t] = OriginalBudget[t]]_sys

\* create_task: a task with budget 0 never runs.
ZeroBudgetNeverRuns ==
    \A t \in Slots : Running(sys, t) => sys.budget[t] > 0

\* FailureMode::Isolate: an isolated task is stopped.
IsolatedTaskStops ==
    Up(sys) => ~Isolated(sys, sys.cur)

\* try_recover_from_degrade: with DAL-A/B healthy, a degraded system recovers.
DegradationEnds ==
    LET healthy == \A t \in Slots : Dal[t] < 2 => ~Isolated(sys, t)
    IN (Up(sys) /\ sys.degraded) ~> (~sys.degraded \/ ~healthy \/ ~Up(sys))

=============================================================================
