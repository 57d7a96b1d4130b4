-------------------------- MODULE SchedulerLemmas --------------------------
(***************************************************************************)
(* What the phases of a tick and the policy's answers preserve, stated on  *)
(* the record of the kernel's statics.  Good is the part of the inductive  *)
(* invariant that holds between any two phases, also in the middle of a    *)
(* handler; the order of priorities, which only holds after the switch, is *)
(* added in SchedulerProofs.                                               *)
(***************************************************************************)
EXTENDS Scheduler, TLAPS

PeriodBelow(s) == \A t \in Slots : s.period[t] = 0 \/ s.period[t] < PeriodTicks[t]
CurrentOnly(s) == \A t \in Slots : Running(s, t) => s.mode # "boot" /\ t = s.cur
CrashStops(s) ==
    \A a, b \in Slots : a # b /\ Isolated(s, a) /\ Isolated(s, b) => s.mode = "shutdown"
Funded(s) ==
    \A t \in Slots :
        is_selectable_by_scheduler(s.state[t]) /\ s.budget[t] > 0 => s.remaining[t] > 0
Within(s) ==
    \A t \in Slots : s.state[t] # "Dead" =>
        /\ s.budget[t] <= OriginalBudget[t]
        /\ s.remaining[t] <= OriginalBudget[t]
        /\ Dal[t] < 2 => s.budget[t] = OriginalBudget[t]
Revoked(s) == \A t \in Slots : Isolated(s, t) => t \notin s.caps
TailDead(s) == \A t \in Slots : t >= s.count => s.state[t] = "Dead"
CurrentAlive(s) == Up(s) => s.state[s.cur] # "Dead"

Good(s) ==
    /\ s \in Statics
    /\ PeriodBelow(s)
    /\ CurrentOnly(s)
    /\ CrashStops(s)
    /\ Funded(s)
    /\ Within(s)
    /\ Revoked(s)
    /\ TailDead(s)
    /\ CurrentAlive(s)

\* What a phase leaves alone: it neither moves the processor nor marks a task
\* Running, and it undoes no isolation.
Keeps(s, r) ==
    /\ r.cur = s.cur
    /\ r.count = s.count
    /\ \A t \in Slots : Running(r, t) => Running(s, t)
    /\ \A t \in Slots : Isolated(s, t) => Isolated(r, t)
    /\ r.mode \in {s.mode, "shutdown"}

\* No DAL-A/B task becomes Suspended.
SparesHigh(s, r) ==
    \A t \in Slots : Dal[t] < 2 /\ s.state[t] # "Suspended" => r.state[t] # "Suspended"

\* No task becomes runnable.
AddsNone(s, r) ==
    \A t \in Slots :
        is_selectable_by_scheduler(r.state[t]) => is_selectable_by_scheduler(s.state[t])

USE DEF MAX_RESTART_FAULT, DAL

\* The parameters of create_task have the types of its arguments.
LEMMA TaskTypes ==
    \A t \in Slots : /\ Priority[t] \in 0 .. 255
                     /\ Dal[t] \in 0 .. 3
                     /\ OriginalBudget[t] \in Nat
                     /\ PeriodTicks[t] \in Nat
  BY TasksAssumption

\* Halving a budget.
LEMMA Half == \A n \in Nat : n \div 2 \in Nat /\ n \div 2 <= n
  BY SMT

\* degrade_system suspends DAL-C/D tasks and halves their budgets, and leaves
\* DAL-A/B tasks alone.
LEMMA DegradeGood ==
    ASSUME NEW s, Good(s)
    PROVE  /\ Good(degrade_system(s))
           /\ Keeps(s, degrade_system(s))
           /\ SparesHigh(s, degrade_system(s))
           /\ AddsNone(s, degrade_system(s))
           /\ degrade_system(s).mode = s.mode
           /\ degrade_system(s).remaining = s.remaining
<1> DEFINE r == degrade_system(s)
<1>a. \A t \in Slots :
        /\ r.budget[t] = IF Dal[t] >= 2 /\ s.state[t] \notin {"Dead", "Isolated"}
                         THEN s.budget[t] \div 2 ELSE s.budget[t]
        /\ r.state[t] = IF Dal[t] >= 2 /\ s.state[t] \notin {"Dead", "Isolated"}
                        THEN "Suspended" ELSE s.state[t]
  BY DEF Good, Statics, degrade_system
<1>b. /\ r.cur = s.cur /\ r.count = s.count /\ r.mode = s.mode /\ r.caps = s.caps
      /\ r.period = s.period /\ r.remaining = s.remaining
  BY DEF Good, Statics, degrade_system
<1>1. r \in Statics
  <2>1. [t \in Slots |-> IF Dal[t] >= 2 /\ s.state[t] \notin {"Dead", "Isolated"}
                         THEN s.budget[t] \div 2 ELSE s.budget[t]] \in [Slots -> Nat]
    BY Half DEF Good, Statics
  <2>2. [t \in Slots |-> IF Dal[t] >= 2 /\ s.state[t] \notin {"Dead", "Isolated"}
                         THEN "Suspended" ELSE s.state[t]] \in [Slots -> TaskState]
    BY DEF Good, Statics, TaskState
  <2>3. 0 \in 0 .. DEGRADE_COOLDOWN_TICKS
    BY LimitsAssumption
  <2> QED BY <2>1, <2>2, <2>3 DEF Good, Statics, degrade_system
<1> HIDE DEF r
<1>2. PeriodBelow(r)
  BY <1>b DEF Good, PeriodBelow
<1>3. CurrentOnly(r)
  BY <1>a, <1>b DEF Good, CurrentOnly, Running
<1>4. CrashStops(r)
  BY <1>a, <1>b DEF Good, CrashStops, Isolated
<1>5. Funded(r)
  BY <1>a, <1>b DEF Good, Funded, is_selectable_by_scheduler
<1>6. Within(r)
  <2> SUFFICES ASSUME NEW t \in Slots, r.state[t] # "Dead"
               PROVE  /\ r.budget[t] <= OriginalBudget[t]
                      /\ r.remaining[t] <= OriginalBudget[t]
                      /\ Dal[t] < 2 => r.budget[t] = OriginalBudget[t]
    BY DEF Within
  <2>1. s.budget[t] \in Nat /\ s.budget[t] \div 2 \in Nat /\ s.budget[t] \div 2 <= s.budget[t]
    BY Half DEF Good, Statics
  <2>2. s.state[t] # "Dead"
    BY <1>a
  <2> QED BY <1>a, <1>b, <2>1, <2>2, TaskTypes DEF Good, Within
<1>7. Revoked(r)
  BY <1>a, <1>b DEF Good, Revoked, Isolated
<1>8. TailDead(r)
  BY <1>a, <1>b DEF Good, TailDead
<1>9. CurrentAlive(r)
  BY <1>a, <1>b DEF Good, Statics, CurrentAlive, Up
<1>10. Keeps(s, r)
  BY <1>a, <1>b DEF Keeps, Running, Isolated
<1>11. SparesHigh(s, r) /\ AddsNone(s, r)
  BY <1>a, TaskTypes DEF SparesHigh, AddsNone, is_selectable_by_scheduler
<1> QED
  BY <1>b, <1>1, <1>2, <1>3, <1>4, <1>5, <1>6, <1>7, <1>8, <1>9, <1>10, <1>11 DEF Good, r

\* isolate_task stops a task, revokes its token and stops the system when
\* another one is isolated already.
LEMMA IsolateGood ==
    ASSUME NEW s, Good(s), Up(s)
    PROVE  /\ Good(isolate_task(s, s.cur))
           /\ Keeps(s, isolate_task(s, s.cur))
           /\ SparesHigh(s, isolate_task(s, s.cur))
           /\ AddsNone(s, isolate_task(s, s.cur))
           /\ isolate_task(s, s.cur).state = [s.state EXCEPT ![s.cur] = "Isolated"]
<1> DEFINE i == [s EXCEPT !.state[s.cur] = "Isolated", !.caps = s.caps \ {s.cur}]
           r == isolate_task(s, s.cur)
           crash == \E a, b \in Slots : a # b /\ Isolated(i, a) /\ Isolated(i, b)
<1>a. r = IF crash THEN [i EXCEPT !.mode = "shutdown"] ELSE i
  BY DEF isolate_task, SystemEvent, decide_action, shutdown_system
<1>b. /\ i \in Statics
      /\ i.state = [s.state EXCEPT ![s.cur] = "Isolated"]
      /\ i.caps = s.caps \ {s.cur}
      /\ i.cur = s.cur /\ i.count = s.count /\ i.mode = s.mode
      /\ i.budget = s.budget /\ i.remaining = s.remaining /\ i.period = s.period
  BY DEF Good, Statics, TaskState
<1>c. /\ r \in Statics
      /\ r.state = [s.state EXCEPT ![s.cur] = "Isolated"]
      /\ r.caps = s.caps \ {s.cur}
      /\ r.cur = s.cur /\ r.count = s.count /\ r.mode = IF crash THEN "shutdown" ELSE s.mode
      /\ r.budget = s.budget /\ r.remaining = s.remaining /\ r.period = s.period
  <2> HIDE DEF i, crash, r
  <2>1. CASE crash
    <3>1. r = [i EXCEPT !.mode = "shutdown"]
      BY <1>a, <2>1
    <3>2. "shutdown" \in Mode
      BY DEF Mode
    <3> QED BY <1>b, <2>1, <3>1, <3>2 DEF Statics
  <2>2. CASE ~crash
    BY <1>a, <1>b, <2>2
  <2> QED BY <2>1, <2>2
<1>d. s.cur \in Slots /\ s.state \in [Slots -> TaskState] /\ s.state[s.cur] # "Dead"
  BY DEF Good, Statics, CurrentAlive
<1>e. CrashStops(r)
  BY <1>b, <1>c DEF CrashStops, Isolated
<1> HIDE DEF r, i, crash
<1>1. PeriodBelow(r) /\ Within(r)
  BY <1>c, <1>d DEF Good, PeriodBelow, Within
<1>2. CurrentOnly(r) /\ Funded(r)
  BY <1>c, <1>d DEF Good, CurrentOnly, Running, Funded, is_selectable_by_scheduler, Up
<1>3. Revoked(r) /\ TailDead(r) /\ CurrentAlive(r)
  BY <1>c, <1>d DEF Good, Revoked, TailDead, CurrentAlive, Isolated, Up
<1>4. Keeps(s, r) /\ SparesHigh(s, r) /\ AddsNone(s, r)
  BY <1>c, <1>d DEF Keeps, SparesHigh, AddsNone, Running, Isolated, is_selectable_by_scheduler
<1> QED BY <1>c, <1>e, <1>1, <1>2, <1>3, <1>4 DEF Good, r

\* A phase that leaves states, budgets, tokens and the processor alone and only
\* changes counters and flags of the right type.
LEMMA SameTasksGood ==
    ASSUME NEW s, Good(s), NEW r \in Statics,
           r.state = s.state, r.caps = s.caps, r.cur = s.cur, r.count = s.count,
           r.mode = s.mode, r.budget = s.budget, r.remaining = s.remaining,
           r.period = s.period
    PROVE  Good(r) /\ Keeps(s, r) /\ SparesHigh(s, r) /\ AddsNone(s, r)
  BY DEF Good, PeriodBelow, CurrentOnly, CrashStops, Funded, Within, Revoked, TailDead,
         CurrentAlive, Keeps, SparesHigh, AddsNone, Running, Isolated, Up

\* decide_action answers with one of the modes apply_action knows, and restarts
\* only below the largest restart limit, that of the faults.
LEMMA DecidesMode ==
    ASSUME NEW event \in PolicyEvent, NEW n \in Nat, NEW d \in 0 .. 3
    PROVE  /\ decide_action(event, n, d) \in FailureMode
           /\ decide_action(event, n, d) = "Restart" => n < 3
<1>1. CASE event = "BudgetExhausted"
  BY <1>1 DEF decide_action, FailureMode, MAX_RESTART_BUDGET
<1>2. CASE event \in {"StackOverflow", "TaskFault"}
  BY <1>2 DEF decide_action, FailureMode
<1>3. CASE event = "WatchdogTimeout"
  BY <1>3 DEF decide_action, FailureMode
<1>4. CASE event = "DeadlineMiss"
  BY <1>4 DEF decide_action, FailureMode
<1>5. CASE event \in {"PmpIntegrityFail", "MultiModuleCrash"}
  BY <1>5 DEF decide_action, FailureMode
<1>6. CASE event \in {"CapViolation", "IopmpViolation"}
  BY <1>6 DEF decide_action, FailureMode
<1> QED BY <1>1, <1>2, <1>3, <1>4, <1>5, <1>6 DEF PolicyEvent

\* An event answered by apply_policy and apply_action.
LEMMA PolicyGood ==
    ASSUME NEW s, Good(s), Up(s), NEW event \in PolicyEvent
    PROVE  /\ Good(apply_policy(s, s.cur, event))
           /\ Keeps(s, apply_policy(s, s.cur, event))
           /\ SparesHigh(s, apply_policy(s, s.cur, event))
           /\ AddsNone(s, apply_policy(s, s.cur, event))
<1> DEFINE action == decide_action(event, s.restarts[s.cur], Dal[s.cur])
           counted == IF action = "Restart" THEN [s EXCEPT !.restarts[s.cur] = @ + 1] ELSE s
           restarted == [counted EXCEPT !.ctx[s.cur] = "entry"]
           down == [s EXCEPT !.mode = "shutdown"]
<1>1. apply_policy(s, s.cur, event) = apply_action(counted, s.cur, action)
  BY DEF apply_policy
<1>a. s.cur \in Slots /\ s.restarts \in [Slots -> 0 .. 3]
  BY DEF Good, Statics
<1>b. s.restarts[s.cur] \in Nat /\ Dal[s.cur] \in 0 .. 3
  BY <1>a, TaskTypes
<1>2. action \in FailureMode /\ (action = "Restart" => s.restarts[s.cur] < 3)
  BY <1>b, DecidesMode
<1> HIDE DEF action
<1>3. CASE action = "Restart"
  <2>1. apply_policy(s, s.cur, event) = restarted
    BY <1>1, <1>3 DEF apply_action, restart_task
  <2>2. /\ restarted \in Statics
        /\ restarted.state = s.state /\ restarted.caps = s.caps
        /\ restarted.cur = s.cur /\ restarted.count = s.count /\ restarted.mode = s.mode
        /\ restarted.budget = s.budget /\ restarted.remaining = s.remaining
        /\ restarted.period = s.period
    <3>1. [s.restarts EXCEPT ![s.cur] = @ + 1] \in [Slots -> 0 .. 3]
      BY <1>a, <1>2, <1>3
    <3>2. [s.ctx EXCEPT ![s.cur] = "entry"] \in [Slots -> {"entry", "saved"}]
      BY DEF Good, Statics
    <3> QED BY <1>3, <3>1, <3>2 DEF Good, Statics
  <2> HIDE DEF restarted
  <2> QED BY <2>1, <2>2, SameTasksGood
<1>4. CASE action = "Isolate"
  BY <1>1, <1>4, IsolateGood DEF apply_action
<1>5. CASE action \in {"Degrade", "Failover"}
  BY <1>1, <1>5, DegradeGood DEF apply_action
<1>6. CASE action = "Alert"
  BY <1>1, <1>6 DEF apply_action, Keeps, SparesHigh, AddsNone
<1>7. CASE action = "Shutdown"
  <2>1. apply_policy(s, s.cur, event) = down
    BY <1>1, <1>7 DEF apply_action, shutdown_system
  <2>2. /\ down \in Statics
        /\ down.state = s.state /\ down.caps = s.caps
        /\ down.cur = s.cur /\ down.count = s.count /\ down.mode = "shutdown"
        /\ down.budget = s.budget /\ down.remaining = s.remaining /\ down.period = s.period
    BY DEF Good, Statics, Mode
  <2> HIDE DEF down
  <2> QED
    BY <2>1, <2>2 DEF Good, PeriodBelow, CurrentOnly, CrashStops, Funded, Within, Revoked,
                      TailDead, CurrentAlive, Keeps, SparesHigh, AddsNone, Running,
                      Isolated, Up
<1> QED BY <1>2, <1>3, <1>4, <1>5, <1>6, <1>7 DEF FailureMode

\* The timeout and the exhaustion only degrade or restart: the tick goes on.
LEMMA PolicyStaysUp ==
    ASSUME NEW s, Good(s), Up(s), NEW event \in {"WatchdogTimeout", "BudgetExhausted"}
    PROVE  /\ Up(apply_policy(s, s.cur, event))
           /\ apply_policy(s, s.cur, event).remaining = s.remaining
<1> DEFINE action == decide_action(event, s.restarts[s.cur], Dal[s.cur])
           counted == IF action = "Restart" THEN [s EXCEPT !.restarts[s.cur] = @ + 1] ELSE s
<1>1. apply_policy(s, s.cur, event) = apply_action(counted, s.cur, action)
  BY DEF apply_policy
<1>2. action \in {"Restart", "Degrade", "Failover"}
  BY DEF decide_action
<1> HIDE DEF action
<1>3. CASE action = "Restart"
  BY <1>1, <1>3 DEF apply_action, restart_task, Good, Statics, Up
<1>4. CASE action \in {"Degrade", "Failover"}
  BY <1>1, <1>4, DegradeGood DEF apply_action, Up
<1> QED BY <1>2, <1>3, <1>4


\* advance_tick changes the age of the degradation only.
LEMMA AdvanceGood ==
    ASSUME NEW s, Good(s)
    PROVE  /\ Good(advance_tick(s))
           /\ Keeps(s, advance_tick(s))
           /\ SparesHigh(s, advance_tick(s))
           /\ advance_tick(s).mode = s.mode
<1> DEFINE r == advance_tick(s)
<1>1. /\ r.state = s.state /\ r.caps = s.caps /\ r.cur = s.cur /\ r.count = s.count
      /\ r.mode = s.mode /\ r.budget = s.budget /\ r.remaining = s.remaining
      /\ r.period = s.period
  BY DEF advance_tick, Good, Statics
<1>2. r \in Statics
  BY LimitsAssumption DEF advance_tick, Good, Statics
<1> HIDE DEF r
<1>3. Good(r) /\ Keeps(s, r) /\ SparesHigh(s, r)
  BY <1>1, <1>2, SameTasksGood
<1> QED BY <1>1, <1>3 DEF r

\* The end of a period wakes Suspended tasks only, with the budget refilled.
LEMMA PeriodGood ==
    ASSUME NEW s, Good(s), Up(s)
    PROVE  /\ Good(PeriodPhase(s))
           /\ Keeps(s, PeriodPhase(s))
           /\ SparesHigh(s, PeriodPhase(s))
           /\ Up(PeriodPhase(s))
<1> DEFINE r == PeriodPhase(s)
           live(t) == s.state[t] # "Dead" /\ PeriodTicks[t] > 0
           ends(t) == live(t) /\ s.period[t] + 1 >= PeriodTicks[t]
<1>a. /\ s \in Statics
      /\ \A t \in Slots : /\ s.state[t] \in TaskState
                          /\ s.budget[t] \in Nat /\ s.remaining[t] \in Nat
                          /\ s.period[t] \in Nat
  BY DEF Good, Statics
<1>b. \A t \in Slots :
        /\ r.period[t] = IF ends(t) THEN 0 ELSE IF live(t) THEN s.period[t] + 1 ELSE s.period[t]
        /\ r.remaining[t] = IF ends(t) THEN s.budget[t] ELSE s.remaining[t]
        /\ r.state[t] = IF ends(t) /\ s.state[t] = "Suspended" THEN "Ready" ELSE s.state[t]
  BY <1>a DEF PeriodPhase, Statics, is_period_reset_eligible
<1>c. /\ r.cur = s.cur /\ r.count = s.count /\ r.mode = s.mode /\ r.caps = s.caps
      /\ r.budget = s.budget
  BY <1>a DEF PeriodPhase, Statics
<1>1. r \in Statics
  <2>1. [t \in Slots |-> IF ends(t) THEN 0 ELSE IF live(t) THEN s.period[t] + 1
                         ELSE s.period[t]] \in [Slots -> Nat]
    BY <1>a
  <2>2. [t \in Slots |-> IF ends(t) THEN s.budget[t] ELSE s.remaining[t]] \in [Slots -> Nat]
    BY <1>a
  <2>3. [t \in Slots |-> IF ends(t) /\ is_period_reset_eligible(s.state[t]) THEN "Ready"
                         ELSE s.state[t]] \in [Slots -> TaskState]
    BY <1>a DEF TaskState
  <2> HIDE DEF ends, live
  <2> QED BY <1>a, <2>1, <2>2, <2>3 DEF PeriodPhase, Statics, ends, live
<1> HIDE DEF r
<1>2. PeriodBelow(r)
  BY <1>a, <1>b, TaskTypes DEF Good, PeriodBelow
<1>3. CurrentOnly(r) /\ CrashStops(r)
  BY <1>b, <1>c DEF Good, CurrentOnly, CrashStops, Running, Isolated
<1>4. Funded(r)
  BY <1>a, <1>b, <1>c DEF Good, Funded, is_selectable_by_scheduler
<1>5. Within(r)
  BY <1>a, <1>b, <1>c, TaskTypes DEF Good, Within
<1>6. Revoked(r) /\ TailDead(r)
  BY <1>b, <1>c DEF Good, Revoked, TailDead, Isolated
<1>7. CurrentAlive(r)
  BY <1>a, <1>b, <1>c DEF Good, CurrentAlive, Statics, Up
<1>8. Keeps(s, r) /\ SparesHigh(s, r) /\ Up(r)
  BY <1>b, <1>c DEF Keeps, SparesHigh, Running, Isolated, Up
<1> QED BY <1>1, <1>2, <1>3, <1>4, <1>5, <1>6, <1>7, <1>8 DEF Good, r

\* Recovery wakes Suspended DAL-C/D tasks only, with their original budget.
LEMMA RecoverGood ==
    ASSUME NEW s, Good(s), Up(s)
    PROVE  /\ Good(try_recover_from_degrade(s))
           /\ Keeps(s, try_recover_from_degrade(s))
           /\ SparesHigh(s, try_recover_from_degrade(s))
           /\ Up(try_recover_from_degrade(s))
<1> DEFINE back(t) == Dal[t] >= 2 /\ s.state[t] = "Suspended"
           state == [t \in Slots |-> IF back(t) THEN "Ready" ELSE s.state[t]]
           budget == [t \in Slots |-> IF back(t) THEN OriginalBudget[t] ELSE s.budget[t]]
           remaining == [t \in Slots |-> IF back(t) THEN OriginalBudget[t] ELSE s.remaining[t]]
           r == [s EXCEPT !.degraded = FALSE, !.age = 0, !.budget = budget,
                          !.remaining = remaining, !.state = state]
<1>a. s \in Statics
  BY DEF Good
<1>b. try_recover_from_degrade(s) \in {s, r}
  BY DEF try_recover_from_degrade
<1>c. /\ state \in [Slots -> TaskState] /\ budget \in [Slots -> Nat]
      /\ remaining \in [Slots -> Nat]
  BY <1>a, TaskTypes DEF Statics, TaskState
<1>d. \A t \in Slots : /\ state[t] = IF back(t) THEN "Ready" ELSE s.state[t]
                       /\ budget[t] = IF back(t) THEN OriginalBudget[t] ELSE s.budget[t]
                       /\ remaining[t] = IF back(t) THEN OriginalBudget[t] ELSE s.remaining[t]
  OBVIOUS
<1> HIDE DEF state, budget, remaining
<1>e. /\ r \in Statics
      /\ r.state = state /\ r.budget = budget /\ r.remaining = remaining
      /\ r.cur = s.cur /\ r.count = s.count /\ r.mode = s.mode /\ r.caps = s.caps
      /\ r.period = s.period
  <2>1. 0 \in 0 .. DEGRADE_COOLDOWN_TICKS
    BY LimitsAssumption
  <2> QED BY <1>a, <1>c, <2>1 DEF Statics
<1> HIDE DEF r
<1>1. Keeps(s, r) /\ SparesHigh(s, r) /\ Up(r)
  BY <1>d, <1>e DEF Keeps, SparesHigh, Running, Isolated, Up
<1>2. PeriodBelow(r) /\ CurrentOnly(r) /\ CrashStops(r)
  BY <1>d, <1>e DEF Good, PeriodBelow, CurrentOnly, CrashStops, Running, Isolated
<1>3. Funded(r)
  BY <1>d, <1>e DEF Good, Funded, is_selectable_by_scheduler
<1>4. Within(r)
  BY <1>d, <1>e, TaskTypes DEF Good, Within
<1>5. Revoked(r) /\ TailDead(r)
  BY <1>d, <1>e DEF Good, Revoked, TailDead, Isolated
<1>6. CurrentAlive(r)
  BY <1>a, <1>d, <1>e DEF Good, CurrentAlive, Statics, Up
<1>7. Good(r)
  BY <1>e, <1>2, <1>3, <1>4, <1>5, <1>6 DEF Good
<1>8. Keeps(s, s) /\ SparesHigh(s, s)
  BY DEF Keeps, SparesHigh
<1> QED BY <1>b, <1>1, <1>7, <1>8

\* The watchdog phase counts for the running task, or answers its timeout.
LEMMA WatchdogGood ==
    ASSUME NEW s, Good(s), Up(s)
    PROVE  /\ Good(WatchdogPhase(s))
           /\ Keeps(s, WatchdogPhase(s))
           /\ SparesHigh(s, WatchdogPhase(s))
           /\ Up(WatchdogPhase(s))
<1> DEFINE counter == s.watchdog[s.cur] + 1
           fires == Running(s, s.cur) /\ should_watchdog_timeout(counter)
           p == IF fires THEN apply_policy(s, s.cur, "WatchdogTimeout") ELSE s
           seen(t) == IF t <= s.cur THEN s.state[t] ELSE p.state[t]
           sends == [t \in Slots |-> IF is_selectable_by_scheduler(seen(t)) THEN 0
                                     ELSE s.sends[t]]
           count == IF fires THEN 0 ELSE IF Running(s, s.cur) THEN counter
                    ELSE s.watchdog[s.cur]
           r == [p EXCEPT !.sends = sends, !.watchdog[s.cur] = count]
<1>a. WatchdogPhase(s) = r
  BY DEF WatchdogPhase
<1>b. "WatchdogTimeout" \in PolicyEvent
  BY DEF PolicyEvent
<1>c. Good(p) /\ Keeps(s, p) /\ SparesHigh(s, p) /\ Up(p)
  <2>1. CASE fires
    BY <1>b, <2>1, PolicyGood, PolicyStaysUp
  <2>2. CASE ~fires
    BY <2>2 DEF Keeps, SparesHigh
  <2> QED BY <2>1, <2>2
<1>d. s.cur \in Slots /\ s.watchdog \in [Slots -> 0 .. WATCHDOG_LIMIT - 1]
      /\ s.sends \in [Slots -> 0 .. MAX_SENDS_PER_TICK]
  BY DEF Good, Statics
<1>e. count \in 0 .. WATCHDOG_LIMIT - 1
  BY <1>d, LimitsAssumption DEF should_watchdog_timeout
<1>f. sends \in [Slots -> 0 .. MAX_SENDS_PER_TICK]
  BY <1>d, LimitsAssumption
<1> HIDE DEF p, count, sends
<1>g. p \in Statics /\ p.cur = s.cur
  BY <1>c DEF Good, Keeps
<1>1. /\ r \in Statics
      /\ r.state = p.state /\ r.caps = p.caps /\ r.cur = p.cur /\ r.count = p.count
      /\ r.mode = p.mode /\ r.budget = p.budget /\ r.remaining = p.remaining
      /\ r.period = p.period
  BY <1>d, <1>e, <1>f, <1>g DEF Statics
<1> HIDE DEF r
<1>2. Good(r) /\ Keeps(p, r) /\ SparesHigh(p, r)
  BY <1>c, <1>1, SameTasksGood
<1> QED BY <1>a, <1>c, <1>1, <1>2 DEF Keeps, SparesHigh, Up

\* Only a running DAL-A/B task that used up its budget is stopped by it.
OwnBudget(s, r) ==
    \A t \in Slots :
        Dal[t] < 2 /\ s.state[t] # "Suspended" /\ r.state[t] = "Suspended"
            => t = s.cur /\ Running(s, t) /\ r.remaining[t] = 0

\* The running task pays for the tick, and is suspended when nothing is left.
LEMMA BudgetGood ==
    ASSUME NEW s, Good(s), Up(s)
    PROVE  /\ Good(BudgetPhase(s))
           /\ Keeps(s, BudgetPhase(s))
           /\ OwnBudget(s, BudgetPhase(s))
           /\ Up(BudgetPhase(s))
<1> DEFINE t == s.cur
           left == saturating_sub(s.remaining[t], CYCLES_PER_TICK)
           paid == [s EXCEPT !.remaining[t] = left]
           out == [paid EXCEPT !.state[t] = "Suspended"]
<1>a. /\ s \in Statics /\ t \in Slots /\ s.remaining \in [Slots -> Nat]
      /\ s.state \in [Slots -> TaskState]
  BY DEF Good, Statics
<1>b. left \in Nat /\ left <= s.remaining[t]
  BY <1>a, LimitsAssumption DEF saturating_sub
<1> HIDE DEF left
<1>1. CASE s.budget[t] = 0 \/ ~Running(s, t)
  BY <1>1 DEF BudgetPhase, Keeps, OwnBudget
<1>2. CASE ~(s.budget[t] = 0 \/ ~Running(s, t)) /\ left > 0
  <2>1. BudgetPhase(s) = paid
    BY <1>2 DEF BudgetPhase, left
  <2>2. /\ paid \in Statics
        /\ paid.remaining = [s.remaining EXCEPT ![t] = left]
        /\ paid.state = s.state /\ paid.caps = s.caps /\ paid.cur = s.cur
        /\ paid.count = s.count /\ paid.mode = s.mode /\ paid.budget = s.budget
        /\ paid.period = s.period
    BY <1>a, <1>b DEF Statics
  <2>3. \A u \in Slots : /\ paid.remaining[u] <= s.remaining[u]
                         /\ paid.remaining[u] \in Nat /\ s.remaining[u] \in Nat
                         /\ s.remaining[u] > 0 => paid.remaining[u] > 0
    BY <1>a, <1>b, <1>2, <2>2
  <2> HIDE DEF paid
  <2>4. Funded(paid) /\ Within(paid)
    BY <2>2, <2>3, TaskTypes DEF Good, Funded, Within
  <2>5. /\ PeriodBelow(paid) /\ CurrentOnly(paid) /\ CrashStops(paid) /\ Revoked(paid)
        /\ TailDead(paid) /\ CurrentAlive(paid)
    BY <2>2 DEF Good, PeriodBelow, CurrentOnly, CrashStops, Revoked, TailDead, CurrentAlive,
                Running, Isolated, Up
  <2> QED BY <2>1, <2>2, <2>4, <2>5 DEF Good, Keeps, OwnBudget, Running, Isolated, Up
<1>3. CASE ~(s.budget[t] = 0 \/ ~Running(s, t)) /\ ~(left > 0)
  <2>1. BudgetPhase(s) = apply_policy(out, t, "BudgetExhausted")
    BY <1>3 DEF BudgetPhase, left
  <2>2. /\ out \in Statics
        /\ out.remaining = [s.remaining EXCEPT ![t] = left]
        /\ out.state = [s.state EXCEPT ![t] = "Suspended"]
        /\ out.caps = s.caps /\ out.cur = s.cur
        /\ out.count = s.count /\ out.mode = s.mode /\ out.budget = s.budget
        /\ out.period = s.period
    <3>1. /\ paid \in Statics
          /\ paid.remaining = [s.remaining EXCEPT ![t] = left]
          /\ paid.state = s.state /\ paid.caps = s.caps /\ paid.cur = s.cur
          /\ paid.count = s.count /\ paid.mode = s.mode /\ paid.budget = s.budget
          /\ paid.period = s.period
      BY <1>a, <1>b DEF Statics
    <3> HIDE DEF paid
    <3> QED BY <1>a, <3>1 DEF Statics, TaskState
  <2>3. \A u \in Slots : /\ out.remaining[u] <= s.remaining[u]
                         /\ out.remaining[u] \in Nat /\ s.remaining[u] \in Nat
                         /\ u # t => out.remaining[u] = s.remaining[u]
                         /\ out.state[u] = IF u = t THEN "Suspended" ELSE s.state[u]
    BY <1>a, <1>b, <2>2
  <2>a. s.state[t] = "Running" /\ out.remaining[t] = 0
    BY <1>a, <1>b, <1>3, <2>2 DEF Running
  <2> HIDE DEF out
  <2>4. Funded(out) /\ Within(out)
    BY <2>2, <2>3, <2>a, TaskTypes DEF Good, Funded, Within, is_selectable_by_scheduler
  <2>5. PeriodBelow(out) /\ CurrentOnly(out) /\ CrashStops(out)
    BY <2>2, <2>3 DEF Good, PeriodBelow, CurrentOnly, CrashStops, Running, Isolated
  <2>6. Revoked(out) /\ TailDead(out) /\ CurrentAlive(out)
    BY <1>a, <2>2, <2>3, <2>a DEF Good, Revoked, TailDead, CurrentAlive, Isolated, Up
  <2>7. Good(out) /\ Up(out) /\ out.cur = t
    BY <2>2, <2>4, <2>5, <2>6 DEF Good, Up
  <2>8. /\ Good(BudgetPhase(s)) /\ Keeps(out, BudgetPhase(s)) /\ SparesHigh(out, BudgetPhase(s))
        /\ Up(BudgetPhase(s)) /\ BudgetPhase(s).remaining = out.remaining
    BY <2>1, <2>7, PolicyGood, PolicyStaysUp DEF PolicyEvent
  <2>9. Keeps(s, BudgetPhase(s))
    BY <2>2, <2>3, <2>a, <2>8 DEF Keeps, Running, Isolated
  <2>10. OwnBudget(s, BudgetPhase(s))
    BY <2>3, <2>a, <2>8 DEF OwnBudget, SparesHigh, Running
  <2> QED BY <2>8, <2>9, <2>10
<1> QED BY <1>1, <1>2, <1>3

\* A kick clears the counter, after the policy's answer when it comes too early.
LEMMA KickGood ==
    ASSUME NEW s, Good(s), Up(s)
    PROVE  /\ Good(watchdog_kick(s))
           /\ Keeps(s, watchdog_kick(s))
           /\ SparesHigh(s, watchdog_kick(s))
           /\ Up(watchdog_kick(s))
<1> DEFINE early == s.watchdog[s.cur] < watchdog_window_min(s.cur)
           p == IF early THEN apply_policy(s, s.cur, "WatchdogTimeout") ELSE s
           r == [p EXCEPT !.watchdog[s.cur] = 0]
<1>a. watchdog_kick(s) = r
  BY DEF watchdog_kick
<1>b. Good(p) /\ Keeps(s, p) /\ SparesHigh(s, p) /\ Up(p)
  <2>1. CASE early
    BY <2>1, PolicyGood, PolicyStaysUp DEF PolicyEvent
  <2>2. CASE ~early
    BY <2>2 DEF Keeps, SparesHigh
  <2> QED BY <2>1, <2>2
<1>c. s.cur \in Slots /\ 0 \in 0 .. WATCHDOG_LIMIT - 1
  BY LimitsAssumption DEF Good, Statics
<1> HIDE DEF p
<1>d. p \in Statics /\ p.cur = s.cur
  BY <1>b DEF Good, Keeps
<1>1. /\ r \in Statics
      /\ r.state = p.state /\ r.caps = p.caps /\ r.cur = p.cur /\ r.count = p.count
      /\ r.mode = p.mode /\ r.budget = p.budget /\ r.remaining = p.remaining
      /\ r.period = p.period
  BY <1>c, <1>d DEF Statics
<1> HIDE DEF r
<1>2. Good(r) /\ Keeps(p, r) /\ SparesHigh(p, r)
  BY <1>b, <1>1, SameTasksGood
<1> QED BY <1>a, <1>b, <1>1, <1>2 DEF Keeps, SparesHigh, Up

=============================================================================
