------------------------ MODULE SchedulerClockProofs ------------------------
(***************************************************************************)
(* The theorems about time in the scheduler: only the timer interrupt lets *)
(* it pass, and a degradation lasts as long as a DAL-A/B task is isolated  *)
(* and otherwise no longer than its cooldown.  They follow from IInv of    *)
(* SchedulerProofs and from what each phase of a handler leaves of the     *)
(* clocks (Still, Carried) and of the age of a degradation (SameAge,       *)
(* Prompt).                                                                *)
(***************************************************************************)
EXTENDS SchedulerProofs

(***************************************************************************)
(* What a step carries over: Still is what an answer of the policy, and so *)
(* every handler but the tick, leaves of the clocks; Carried is what the   *)
(* tick leaves too.                                                        *)
(***************************************************************************)
Unhealthy(s) == \E t \in Slots : Dal[t] < 2 /\ Isolated(s, t)

Carried(s, r) ==
    /\ \A t \in Slots : Isolated(s, t) => Isolated(r, t)
    /\ s.degraded /\ Unhealthy(s) => r.degraded

Still(s, r) ==
    /\ r.period = s.period
    /\ r.remaining = s.remaining
    /\ \A t \in Slots : r.sends[t] >= s.sends[t]
    /\ r.age <= s.age
    /\ s.degraded => r.degraded

\* The counters that are compared are numbers.
LEMMA CounterTypes ==
    ASSUME NEW s \in Statics
    PROVE  /\ s.age \in Nat
           /\ \A t \in Slots : s.restarts[t] \in 0 .. 3 /\ s.sends[t] \in Nat
  BY LimitsAssumption DEF Statics, MAX_RESTART_FAULT

\* A step that leaves the clocks, the counters and the degradation alone.
LEMMA SameClocks ==
    ASSUME NEW s \in Statics, NEW r,
           r.period = s.period, r.remaining = s.remaining, r.sends = s.sends,
           r.age = s.age, r.degraded = s.degraded
    PROVE  Still(s, r)
<1>1. r.age <= s.age /\ \A t \in Slots : r.sends[t] >= s.sends[t]
  BY CounterTypes
<1>2. s.degraded => r.degraded
  BY Zenon
<1> QED BY <1>1, <1>2, Zenon DEF Still

\* An answer of the policy lets no time pass: it restarts, isolates, degrades
\* (from age 0 again), ignores or shuts down.
LEMMA PolicyStill ==
    ASSUME NEW s \in Statics, NEW event \in PolicyEvent
    PROVE  Still(s, apply_policy(s, s.cur, event))
<1> DEFINE r == apply_policy(s, s.cur, event)
           action == decide_action(event, s.restarts[s.cur], Dal[s.cur])
           counted == IF action = "Restart" THEN [s EXCEPT !.restarts[s.cur] = @ + 1] ELSE s
<1>a. s \in Statics /\ s.cur \in Slots
  BY DEF Good, Statics
<1>b. s.age \in Nat /\ \A t \in Slots : s.restarts[t] \in 0 .. 3 /\ s.sends[t] \in Nat
  BY <1>a, CounterTypes
<1>1. r = apply_action(counted, s.cur, action)
  BY DEF apply_policy
<1>2. action \in FailureMode
  BY <1>a, <1>b, TaskTypes, DecidesMode
<1> SUFFICES Still(s, r)
  OBVIOUS
<1> HIDE DEF action, r
<1>3. CASE action = "Restart"
  <2>1. r = [counted EXCEPT !.ctx[s.cur] = "entry"]
    BY <1>1, <1>3 DEF apply_action, restart_task
  <2>2. /\ r.period = s.period /\ r.remaining = s.remaining /\ r.sends = s.sends
        /\ r.age = s.age /\ r.degraded = s.degraded
    BY <1>3, <1>a, <2>1 DEF Statics
  <2> QED BY <1>a, <2>2, SameClocks
<1>4. CASE action = "Isolate"
  <2>1. r = isolate_task(s, s.cur)
    BY <1>1, <1>4 DEF apply_action
  <2>2. /\ r.period = s.period /\ r.remaining = s.remaining /\ r.sends = s.sends
        /\ r.age = s.age /\ r.degraded = s.degraded
    BY <1>a, <2>1 DEF isolate_task, SystemEvent, shutdown_system, Statics
  <2> QED BY <1>a, <2>2, SameClocks
<1>5. CASE action \in {"Degrade", "Failover"}
  <2>1. r = degrade_system(s)
    BY <1>1, <1>5 DEF apply_action
  <2>2. /\ r.period = s.period /\ r.remaining = s.remaining /\ r.sends = s.sends
        /\ r.age = 0 /\ r.degraded = TRUE
    BY <1>a, <2>1 DEF degrade_system, Statics
  <2> QED BY <1>b, <2>2 DEF Still
<1>6. CASE action = "Alert"
  BY <1>1, <1>6, <1>a, SameClocks DEF apply_action
<1>7. CASE action = "Shutdown"
  <2>1. r = [s EXCEPT !.mode = "shutdown"]
    BY <1>1, <1>7 DEF apply_action, shutdown_system
  <2>2. /\ r.period = s.period /\ r.remaining = s.remaining /\ r.sends = s.sends
        /\ r.age = s.age /\ r.degraded = s.degraded
    BY <1>a, <2>1 DEF Statics
  <2> QED BY <1>a, <2>2, SameClocks
<1> QED BY <1>2, <1>3, <1>4, <1>5, <1>6, <1>7 DEF FailureMode

\* The switch stores a context and marks states, nothing else.
LEMMA SwitchStill ==
    ASSUME NEW s \in Statics
    PROVE  Still(s, do_priority_select_and_switch(s))
<1> DEFINE r == do_priority_select_and_switch(s)
<1>1. /\ r.period = s.period /\ r.remaining = s.remaining /\ r.sends = s.sends
      /\ r.age = s.age /\ r.degraded = s.degraded
  BY DEF do_priority_select_and_switch, Statics
<1> HIDE DEF r
<1>2. Still(s, r)
  BY <1>1, SameClocks
<1> QED BY <1>2 DEF r

\* Two such steps are one.
LEMMA StillComposes ==
    ASSUME NEW s \in Statics, NEW p \in Statics, NEW r \in Statics, Still(s, p), Still(p, r)
    PROVE  Still(s, r)
<1>1. /\ s.age \in Nat /\ p.age \in Nat /\ r.age \in Nat
      /\ \A t \in Slots : s.sends[t] \in Nat /\ p.sends[t] \in Nat /\ r.sends[t] \in Nat
  BY CounterTypes
<1> QED BY <1>1 DEF Still

\* A kick is answered by the policy or resets the watchdog.
LEMMA KickStill ==
    ASSUME NEW s, Good(s), Up(s)
    PROVE  Still(s, watchdog_kick(s))
<1> DEFINE early == s.watchdog[s.cur] < watchdog_window_min(s.cur)
           p == IF early THEN apply_policy(s, s.cur, "WatchdogTimeout") ELSE s
           k == [p EXCEPT !.watchdog[s.cur] = 0]
<1>1. watchdog_kick(s) = k
  BY DEF watchdog_kick
<1>2. p \in Statics /\ Still(s, p)
  <2>1. "WatchdogTimeout" \in PolicyEvent /\ s \in Statics
    BY DEF PolicyEvent, Good
  <2>2. Still(s, s)
    BY <2>1, SameClocks
  <2> HIDE DEF early
  <2> QED BY <2>1, <2>2, PolicyStill, PolicyGood DEF Good
<1> HIDE DEF p
<1>3. /\ k.period = p.period /\ k.remaining = p.remaining /\ k.sends = p.sends
      /\ k.age = p.age /\ k.degraded = p.degraded
  BY <1>2 DEF Statics
<1> HIDE DEF k
<1> QED BY <1>1, <1>2, <1>3 DEF Still

\* A step of which the policy's answers are the only part carries over.
LEMMA StillCarries ==
    ASSUME NEW s, NEW r, Still(s, r), \A t \in Slots : Isolated(s, t) => Isolated(r, t)
    PROVE  Carried(s, r)
  BY DEF Still, Carried

\* Phases that carry over compose.
LEMMA CarriedComposes ==
    ASSUME NEW s \in Statics, NEW p \in Statics, NEW r \in Statics, Carried(s, p), Carried(p, r)
    PROVE  Carried(s, r)
<1>1. \A t \in Slots : Isolated(s, t) => Isolated(r, t)
  BY DEF Carried
<1>2. s.degraded /\ Unhealthy(s) => r.degraded
  BY Zenon DEF Carried, Unhealthy
<1> QED BY <1>1, <1>2 DEF Carried

\* Recovery is the one phase that ends a degradation, and it looks at the health
\* of the DAL-A/B tasks first.
LEMMA PhasesCarry ==
    ASSUME NEW s, Good(s), Up(s)
    PROVE  /\ Carried(s, advance_tick(s))
           /\ Carried(s, PeriodPhase(s))
           /\ Carried(s, try_recover_from_degrade(s))
           /\ Carried(s, WatchdogPhase(s))
           /\ Carried(s, BudgetPhase(s))
           /\ Carried(s, do_priority_select_and_switch(s))
<1>a. s \in Statics /\ s.cur \in Slots /\ "WatchdogTimeout" \in PolicyEvent
      /\ "BudgetExhausted" \in PolicyEvent
  BY DEF Good, Statics, PolicyEvent
<1>1. Carried(s, advance_tick(s))
  <2>1. advance_tick(s).degraded = s.degraded
    BY <1>a DEF advance_tick, Statics
  <2>2. \A t \in Slots : Isolated(s, t) => Isolated(advance_tick(s), t)
    BY AdvanceGood DEF Keeps
  <2> QED BY <2>1, <2>2, Zenon DEF Carried
<1>2. Carried(s, PeriodPhase(s))
  <2>1. PeriodPhase(s).degraded = s.degraded
    BY <1>a DEF PeriodPhase, Statics
  <2>2. \A t \in Slots : Isolated(s, t) => Isolated(PeriodPhase(s), t)
    BY PeriodGood DEF Keeps
  <2> QED BY <2>1, <2>2, Zenon DEF Carried
<1>3. Carried(s, try_recover_from_degrade(s))
  <2>1. \A t \in Slots : Isolated(s, t) => Isolated(try_recover_from_degrade(s), t)
    BY RecoverGood DEF Keeps
  <2>2. Unhealthy(s) => try_recover_from_degrade(s) = s
    BY DEF try_recover_from_degrade, Unhealthy
  <2> QED BY <2>1, <2>2, Zenon DEF Carried
<1>4. Carried(s, WatchdogPhase(s))
  <2> DEFINE fires == Running(s, s.cur) /\ should_watchdog_timeout(s.watchdog[s.cur] + 1)
             p == IF fires THEN apply_policy(s, s.cur, "WatchdogTimeout") ELSE s
  <2>1. p \in Statics /\ Still(s, p)
    <3>1. Still(s, s)
      BY <1>a, SameClocks
    <3> HIDE DEF fires
    <3> QED BY <1>a, <3>1, PolicyStill, PolicyGood DEF Good
  <2>2. WatchdogPhase(s).degraded = p.degraded
    <3> HIDE DEF fires
    <3>1. p \in Statics
      BY <2>1
    <3> QED BY <3>1 DEF WatchdogPhase, Statics, fires
  <2>3. \A t \in Slots : Isolated(s, t) => Isolated(WatchdogPhase(s), t)
    BY WatchdogGood DEF Keeps
  <2> HIDE DEF p
  <2> QED BY <2>1, <2>2, <2>3, Zenon DEF Carried, Still
<1>5. Carried(s, BudgetPhase(s))
  <2>1. \A t \in Slots : Isolated(s, t) => Isolated(BudgetPhase(s), t)
    BY BudgetGood DEF Keeps
  <2> DEFINE t == s.cur
             left == saturating_sub(s.remaining[t], CYCLES_PER_TICK)
             paid == [s EXCEPT !.remaining[t] = left]
             out == [paid EXCEPT !.state[t] = "Suspended"]
  <2>2. left \in Nat
    BY <1>a, LimitsAssumption DEF Statics, saturating_sub
  <2> HIDE DEF left
  <2>3. paid \in Statics /\ paid.degraded = s.degraded /\ paid.cur = t
    BY <1>a, <2>2, Zenon DEF Statics
  <2> HIDE DEF paid
  <2>4. out \in Statics /\ out.degraded = s.degraded /\ out.cur = t
    BY <1>a, <2>3, Zenon DEF Statics, TaskState
  <2> HIDE DEF out
  <2>5. BudgetPhase(s) \in {s, paid, apply_policy(out, t, "BudgetExhausted")}
    BY DEF BudgetPhase, out, paid, left
  <2>6. Still(out, apply_policy(out, t, "BudgetExhausted"))
    BY <1>a, <2>4, PolicyStill
  <2>7. CASE BudgetPhase(s) \in {s, paid}
    <3>1. BudgetPhase(s).degraded = s.degraded
      BY <2>3, <2>7
    <3> QED BY <2>1, <3>1, Zenon DEF Carried
  <2>8. CASE BudgetPhase(s) = apply_policy(out, t, "BudgetExhausted")
    BY <2>1, <2>4, <2>6, <2>8, Zenon DEF Carried, Still
  <2> QED BY <2>5, <2>7, <2>8
<1>6. Carried(s, do_priority_select_and_switch(s))
  <2>1. \A t \in Slots : Isolated(s, t) => Isolated(do_priority_select_and_switch(s), t)
    BY SwitchGood
  <2> QED BY <1>a, <2>1, SwitchStill, StillCarries
<1> QED BY <1>1, <1>2, <1>3, <1>4, <1>5, <1>6

\* The timer interrupt, from the deadline check to the switch.
LEMMA TickCarries ==
    ASSUME IInv, Tick
    PROVE  Carried(sys, sys')
<1> PICK overrun \in BOOLEAN, pmp_ok \in BOOLEAN : timer_interrupt(overrun, pmp_ok)
  BY DEF Tick
<1> DEFINE ticked == [sys EXCEPT !.ticks = IF @ <= GRACE_TICKS THEN @ + 1 ELSE @]
           missed == IF overrun /\ ticked.ticks > GRACE_TICKS
                     THEN apply_policy(ticked, ticked.cur, "DeadlineMiss") ELSE ticked
<1>a. Good(sys) /\ Up(sys) /\ sys \in Statics
  BY DEF IInv, timer_interrupt, Good
<1>b. sys' = IF Up(missed) THEN schedule_timer_tick(missed, pmp_ok) ELSE missed
  BY DEF timer_interrupt
<1>c. "DeadlineMiss" \in PolicyEvent
  BY DEF PolicyEvent
<1>1. /\ ticked \in Statics
      /\ ticked.state = sys.state /\ ticked.caps = sys.caps /\ ticked.cur = sys.cur
      /\ ticked.count = sys.count /\ ticked.mode = sys.mode /\ ticked.budget = sys.budget
      /\ ticked.remaining = sys.remaining /\ ticked.period = sys.period
      /\ ticked.sends = sys.sends /\ ticked.age = sys.age /\ ticked.degraded = sys.degraded
  <2>1. (IF sys.ticks <= GRACE_TICKS THEN sys.ticks + 1 ELSE sys.ticks) \in 0 .. GRACE_TICKS + 1
    BY <1>a, LimitsAssumption DEF Statics
  <2> QED BY <1>a, <2>1 DEF Statics
<1> HIDE DEF ticked
<1>2. Good(ticked) /\ Up(ticked) /\ Carried(sys, ticked)
  BY <1>a, <1>1, SameTasksGood, SameClocks, StillCarries DEF Up, Isolated
<1>3. Good(missed) /\ Carried(ticked, missed)
  <2>1. CASE overrun /\ ticked.ticks > GRACE_TICKS
    <3>1. missed = apply_policy(ticked, ticked.cur, "DeadlineMiss")
      BY <2>1
    <3>2. Good(missed) /\ Keeps(ticked, missed)
      BY <1>2, <1>c, <3>1, PolicyGood
    <3>3. Still(ticked, missed)
      BY <1>1, <1>c, <3>1, PolicyStill
    <3> QED BY <3>2, <3>3, StillCarries DEF Keeps
  <2>2. CASE ~(overrun /\ ticked.ticks > GRACE_TICKS)
    <3>1. missed = ticked
      BY <2>2
    <3>2. Still(ticked, ticked)
      BY <1>1, SameClocks
    <3> QED BY <1>2, <3>1, <3>2, StillCarries
  <2> QED BY <2>1, <2>2
<1> HIDE DEF missed
<1>4. missed \in Statics /\ Carried(sys, missed)
  BY <1>a, <1>1, <1>2, <1>3, CarriedComposes DEF Good
<1>5. CASE ~Up(missed)
  BY <1>b, <1>4, <1>5
<1>6. CASE Up(missed) /\ ~pmp_ok
  <2> DEFINE a == advance_tick(missed)
  <2>1. Good(a) /\ a \in Statics /\ Carried(missed, a)
    BY <1>3, <1>6, AdvanceGood, PhasesCarry DEF Good
  <2>2. sys' = [a EXCEPT !.mode = "shutdown"]
    BY <1>b, <1>6 DEF schedule_timer_tick, SystemEvent, decide_action, shutdown_system
  <2> HIDE DEF a
  <2>3. sys'.degraded = a.degraded /\ sys'.state = a.state
    BY <2>1, <2>2 DEF Statics
  <2>4. Carried(missed, sys')
    BY <2>1, <2>3, Zenon DEF Carried, Isolated
  <2>5. sys' \in Statics
    BY <2>1, <2>2 DEF Statics, Mode
  <2> QED BY <1>a, <1>4, <2>4, <2>5, CarriedComposes
<1>7. CASE Up(missed) /\ pmp_ok
  <2> DEFINE a == advance_tick(missed)
             p == PeriodPhase(a)
             v == try_recover_from_degrade(p)
             w == WatchdogPhase(v)
             b == BudgetPhase(w)
  <2>1. sys' = do_priority_select_and_switch(b)
    BY <1>b, <1>7 DEF schedule_timer_tick
  <2>2. Good(a) /\ Up(a) /\ Carried(missed, a)
    BY <1>3, <1>7, AdvanceGood, PhasesCarry DEF Up
  <2> HIDE DEF a
  <2>3. Good(p) /\ Up(p) /\ Carried(a, p)
    BY <2>2, PeriodGood, PhasesCarry
  <2> HIDE DEF p
  <2>4. Good(v) /\ Up(v) /\ Carried(p, v)
    BY <2>3, RecoverGood, PhasesCarry
  <2> HIDE DEF v
  <2>5. Good(w) /\ Up(w) /\ Carried(v, w)
    BY <2>4, WatchdogGood, PhasesCarry
  <2> HIDE DEF w
  <2>6. Good(b) /\ Up(b) /\ Carried(w, b)
    BY <2>5, BudgetGood, PhasesCarry
  <2> HIDE DEF b
  <2>7. Good(sys') /\ Carried(b, sys')
    BY <2>1, <2>6, SwitchGood, PhasesCarry
  <2>8. /\ a \in Statics /\ p \in Statics /\ v \in Statics /\ w \in Statics /\ b \in Statics
        /\ sys' \in Statics
    BY <2>2, <2>3, <2>4, <2>5, <2>6, <2>7 DEF Good
  <2>9. Carried(sys, a)
    BY <1>a, <1>4, <2>2, <2>8, CarriedComposes
  <2>10. Carried(sys, p)
    BY <1>a, <2>3, <2>8, <2>9, CarriedComposes
  <2>11. Carried(sys, v)
    BY <1>a, <2>4, <2>8, <2>10, CarriedComposes
  <2>12. Carried(sys, w)
    BY <1>a, <2>5, <2>8, <2>11, CarriedComposes
  <2>13. Carried(sys, b)
    BY <1>a, <2>6, <2>8, <2>12, CarriedComposes
  <2> QED BY <1>a, <2>7, <2>8, <2>13, CarriedComposes
<1> QED BY <1>5, <1>6, <1>7

\* A system call or a fault leaves the clocks to the timer.
LEMMA TrapStill ==
    ASSUME IInv, Syscall \/ Fault
    PROVE  Still(sys, sys')
<1>a. /\ Good(sys) /\ Up(sys) /\ sys \in Statics /\ sys.cur \in Slots
      /\ {"TaskFault", "StackOverflow", "CapViolation"} \subseteq PolicyEvent
  BY DEF IInv, Syscall, Fault, sys_yield, sys_exit, sys_cap_invoke_granted,
         sys_cap_invoke_denied, sys_ipc_send, handle_task_fault, stack_overflow, fatal_trap,
         Good, Statics, PolicyEvent
<1>b. sys' \in Statics
  BY SyscallStep, FaultsStep DEF IInv, Good
<1>1. CASE sys_yield
  <2> DEFINE k == watchdog_kick(sys)
  <2>1. Good(k) /\ k \in Statics /\ Still(sys, k)
    BY <1>a, KickGood, KickStill DEF Good
  <2>2. sys' = do_priority_select_and_switch(k)
    BY <1>1 DEF sys_yield
  <2> HIDE DEF k
  <2> QED BY <1>a, <1>b, <2>1, <2>2, SwitchStill, StillComposes
<1>2. CASE sys_exit
  <2> DEFINE gone == isolate_task(sys, sys.cur)
  <2>1. /\ gone.period = sys.period /\ gone.remaining = sys.remaining /\ gone.sends = sys.sends
        /\ gone.age = sys.age /\ gone.degraded = sys.degraded
    BY <1>a DEF isolate_task, SystemEvent, shutdown_system, Statics
  <2>2. sys' = IF Up(gone) THEN do_priority_select_and_switch(gone) ELSE gone
    BY <1>2 DEF sys_exit
  <2>3. gone \in Statics
    BY <1>a, IsolateGood, Zenon DEF Good
  <2> HIDE DEF gone
  <2>4. Still(sys, gone) /\ Still(gone, do_priority_select_and_switch(gone))
    BY <1>a, <2>1, <2>3, SameClocks, SwitchStill
  <2> QED BY <1>a, <1>b, <2>2, <2>3, <2>4, StillComposes
<1>3. CASE sys_cap_invoke_granted
  <2>1. /\ sys'.period = sys.period /\ sys'.remaining = sys.remaining /\ sys'.sends = sys.sends
        /\ sys'.age = sys.age /\ sys'.degraded = sys.degraded
    BY <1>a, <1>3 DEF sys_cap_invoke_granted, Statics
  <2> QED BY <1>a, <2>1, SameClocks
<1>4. CASE sys_cap_invoke_denied
  <2> DEFINE reset == [sys EXCEPT !.capFails[sys.cur] = 0]
  <2>1. /\ reset \in Statics /\ reset.cur = sys.cur
        /\ reset.period = sys.period /\ reset.remaining = sys.remaining
        /\ reset.sends = sys.sends /\ reset.age = sys.age
        /\ reset.degraded = sys.degraded
    <3>1. 0 \in 0 .. CAP_FAIL_LIMIT - 1
      BY LimitsAssumption
    <3> QED BY <1>a, <3>1, Zenon DEF Statics
  <2> HIDE DEF reset
  <2>2. Still(sys, reset) /\ Still(reset, apply_policy(reset, reset.cur, "CapViolation"))
    BY <1>a, <2>1, SameClocks, PolicyStill
  <2>3. CASE sys' = apply_policy(reset, sys.cur, "CapViolation")
    BY <1>a, <1>b, <2>1, <2>2, <2>3, StillComposes
  <2>4. CASE sys' = [sys EXCEPT !.capFails[sys.cur] = sys.capFails[sys.cur] + 1]
    <3>1. /\ sys'.period = sys.period /\ sys'.remaining = sys.remaining
          /\ sys'.sends = sys.sends /\ sys'.age = sys.age
          /\ sys'.degraded = sys.degraded
      BY <1>a, <2>4 DEF Statics
    <3> QED BY <1>a, <3>1, SameClocks
  <2> QED BY <1>4, <2>3, <2>4 DEF sys_cap_invoke_denied, reset
<1>5. CASE sys_ipc_send
  <2>1. /\ sys'.period = sys.period /\ sys'.remaining = sys.remaining
        /\ sys'.sends = [sys.sends EXCEPT ![sys.cur] = @ + 1] /\ sys'.age = sys.age
        /\ sys'.degraded = sys.degraded
    BY <1>a, <1>5 DEF sys_ipc_send, Statics
  <2>2. sys.age <= sys.age
    BY <1>a, CounterTypes
  <2>3. \A t \in Slots : sys'.sends[t] >= sys.sends[t]
    <3>1. sys.sends \in [Slots -> Nat]
      BY <1>a, CounterTypes DEF Statics
    <3> QED BY <2>1, <3>1
  <2>4. sys.degraded => sys'.degraded
    BY <2>1, Zenon
  <2> QED BY <2>1, <2>2, <2>3, <2>4 DEF Still
<1>6. CASE handle_task_fault
  BY <1>a, <1>6, PolicyStill DEF handle_task_fault
<1>7. CASE stack_overflow
  BY <1>a, <1>7, PolicyStill DEF stack_overflow
<1>8. CASE fatal_trap
  <2>1. /\ sys'.period = sys.period /\ sys'.remaining = sys.remaining /\ sys'.sends = sys.sends
        /\ sys'.age = sys.age /\ sys'.degraded = sys.degraded
    BY <1>a, <1>8 DEF fatal_trap, halt_system, Statics
  <2> QED BY <1>a, <2>1, SameClocks
<1> QED BY <1>1, <1>2, <1>3, <1>4, <1>5, <1>6, <1>7, <1>8 DEF Syscall, Fault

\* The boot isolates nobody and degrades nothing.
LEMMA BootCarries ==
    ASSUME IInv, create_task \/ (\E id \in NativeIds : native_create_task(id)) \/ start_first_task
    PROVE  Carried(sys, sys')
<1>a. sys \in Statics
  BY DEF IInv, Good
<1>1. sys'.degraded = sys.degraded
  <2>1. \A t \in Slots : \A c :
          [Created(sys, t) EXCEPT !.count = c].degraded = sys.degraded
    BY <1>a DEF Created, Statics
  <2>2. CASE create_task
    <3>a. sys.count \in 0 .. MAX_TASKS
      BY <1>a DEF Statics
    <3>1. sys.count \in Slots
      BY <2>2, <3>a, LimitsAssumption, TasksAssumption DEF create_task, Slots
    <3> QED BY <1>a, <2>1, <2>2, <3>1 DEF create_task, halt_system, Statics
  <2>3. ASSUME NEW id \in NativeIds, native_create_task(id)
        PROVE  sys'.degraded = sys.degraded
    <3>1. id \in Slots
      BY TasksAssumption, LimitsAssumption DEF Slots
    <3> QED BY <2>1, <2>3, <3>1 DEF native_create_task
  <2>4. CASE start_first_task
    BY <1>a, <2>4 DEF start_first_task, halt_system, Statics
  <2> QED BY <2>2, <2>3, <2>4
<1>2. \A t \in Slots : Isolated(sys, t) => Isolated(sys', t)
  BY BootStep DEF Steady
<1> QED BY <1>1, <1>2, Zenon DEF Carried

\* Every step carries the isolated tasks and an unhealthy degradation over.
LEMMA NextCarries ==
    ASSUME IInv, [Next]_sys
    PROVE  Carried(sys, sys')
<1>1. CASE Tick
  BY <1>1, TickCarries
<1>2. CASE Syscall \/ Fault
  BY <1>2, TrapStill, StillCarries, SyscallStep, FaultsStep DEF Steady
<1>3. CASE create_task \/ (\E id \in NativeIds : native_create_task(id)) \/ start_first_task
  BY <1>3, BootCarries
<1>4. CASE UNCHANGED sys
  BY <1>4, Zenon DEF Carried, Isolated
<1> QED BY <1>1, <1>2, <1>3, <1>4 DEF Next, parked

\* Only the timer interrupt moves a period, a budget, a rate counter or the age
\* of a degradation on, and only it ends one.
THEOREM TimeIsTheTimers == Spec => TasksCannotAdvanceTime
<1>1. IInv /\ [Next]_sys =>
        [Syscall \/ Fault =>
            /\ sys'.period = sys.period
            /\ sys'.remaining = sys.remaining
            /\ \A t \in Slots : sys'.sends[t] >= sys.sends[t]
            /\ sys'.age <= sys.age
            /\ sys.degraded => sys'.degraded]_sys
  BY TrapStill DEF Still
<1> QED BY Invariance, <1>1, PTL DEF Spec, TasksCannotAdvanceTime

\* A degraded system with an isolated DAL-A/B task stays degraded.
THEOREM NoUnhealthyRecovery == Spec => UnhealthyStaysDegraded
<1>1. IInv /\ [Next]_sys =>
        [(sys.degraded /\ \E t \in Slots : Dal[t] < 2 /\ Isolated(sys, t)) => sys'.degraded]_sys
  BY NextCarries, Zenon DEF Carried, Unhealthy
<1> QED BY Invariance, <1>1, PTL DEF Spec, UnhealthyStaysDegraded

(***************************************************************************)
(* The age of a degradation: only advance_tick adds to it, and the         *)
(* recovery that comes next in the same tick sees the sum.                 *)
(***************************************************************************)
Healthy(s) == \A t \in Slots : Dal[t] < 2 => ~Isolated(s, t)
Young(s) == s.age = 0 \/ s.age < DEGRADE_COOLDOWN_TICKS
Live(s) == s.mode \in {"boot", "run"}
Prompt(s) == Live(s) /\ s.degraded /\ Healthy(s) => Young(s)

\* A degradation after the step was there before, at the same age, or is new.
SameAge(s, r) == r.degraded => r.age = 0 \/ (s.degraded /\ r.age = s.age)

\* Such a step keeps the recovery prompt.
LEMMA SameAgePrompt ==
    ASSUME NEW s, NEW r, Prompt(s), SameAge(s, r), Live(r) => Live(s),
           \A t \in Slots : Isolated(s, t) => Isolated(r, t)
    PROVE  Prompt(r)
<1>1. Healthy(r) => Healthy(s)
  BY DEF Healthy
<1>2. CASE r.age = 0
  BY <1>2, Zenon DEF Prompt, Young
<1>3. CASE r.age = s.age
  BY <1>1, <1>3, Zenon DEF Prompt, Young, SameAge
<1> QED BY <1>2, <1>3, Zenon DEF Prompt, SameAge

\* An answer of the policy begins a degradation or leaves it.
LEMMA PolicySameAge ==
    ASSUME NEW s \in Statics, NEW event \in PolicyEvent
    PROVE  SameAge(s, apply_policy(s, s.cur, event))
<1> DEFINE r == apply_policy(s, s.cur, event)
           action == decide_action(event, s.restarts[s.cur], Dal[s.cur])
           counted == IF action = "Restart" THEN [s EXCEPT !.restarts[s.cur] = @ + 1] ELSE s
<1>a. s.cur \in Slots /\ \A t \in Slots : s.restarts[t] \in 0 .. 3
  BY CounterTypes DEF Statics
<1>1. r = apply_action(counted, s.cur, action)
  BY DEF apply_policy
<1>2. action \in FailureMode
  BY <1>a, TaskTypes, DecidesMode
<1> SUFFICES SameAge(s, r)
  OBVIOUS
<1> HIDE DEF action, r
<1>3. CASE action \in {"Degrade", "Failover"}
  <2>1. r.age = 0
    BY <1>1, <1>3, Zenon DEF apply_action, degrade_system, Statics
  <2> QED BY <2>1, Zenon DEF SameAge
<1>4. CASE action \notin {"Degrade", "Failover"}
  <2>1. r.age = s.age /\ r.degraded = s.degraded
    <3>1. CASE action = "Restart"
      BY <1>1, <3>1, Zenon DEF apply_action, restart_task, Statics
    <3>2. CASE action = "Isolate"
      BY <1>1, <3>2 DEF apply_action, isolate_task, SystemEvent, shutdown_system, Statics
    <3>3. CASE action \in {"Alert", "Shutdown"}
      BY <1>1, <3>3 DEF apply_action, shutdown_system, Statics
    <3> QED BY <1>2, <1>4, <3>1, <3>2, <3>3 DEF FailureMode
  <2> QED BY <2>1, Zenon DEF SameAge
<1> QED BY <1>3, <1>4

\* So do the phases of a tick that come after the recovery, and a kick.
LEMMA LaterPhasesSameAge ==
    ASSUME NEW s, Good(s), Up(s)
    PROVE  /\ SameAge(s, WatchdogPhase(s))
           /\ SameAge(s, BudgetPhase(s))
           /\ SameAge(s, do_priority_select_and_switch(s))
           /\ SameAge(s, watchdog_kick(s))
<1>a. s \in Statics /\ s.cur \in Slots /\ "WatchdogTimeout" \in PolicyEvent
      /\ "BudgetExhausted" \in PolicyEvent
  BY DEF Good, Statics, PolicyEvent
<1>b. apply_policy(s, s.cur, "WatchdogTimeout") \in Statics
  BY <1>a, PolicyGood DEF Good
<1>c. SameAge(s, s) /\ SameAge(s, apply_policy(s, s.cur, "WatchdogTimeout"))
  BY <1>a, PolicySameAge, Zenon DEF SameAge
<1>1. SameAge(s, WatchdogPhase(s))
  <2> DEFINE fires == Running(s, s.cur) /\ should_watchdog_timeout(s.watchdog[s.cur] + 1)
             p == IF fires THEN apply_policy(s, s.cur, "WatchdogTimeout") ELSE s
  <2> HIDE DEF fires
  <2>1. p \in Statics /\ SameAge(s, p)
    BY <1>a, <1>b, <1>c
  <2>2. WatchdogPhase(s).age = p.age /\ WatchdogPhase(s).degraded = p.degraded
    BY <2>1 DEF WatchdogPhase, Statics, fires
  <2> HIDE DEF p
  <2> QED BY <2>1, <2>2, Zenon DEF SameAge
<1>2. SameAge(s, BudgetPhase(s))
  <2> DEFINE t == s.cur
             left == saturating_sub(s.remaining[t], CYCLES_PER_TICK)
             paid == [s EXCEPT !.remaining[t] = left]
             out == [paid EXCEPT !.state[t] = "Suspended"]
  <2>2. left \in Nat
    BY <1>a, LimitsAssumption DEF Statics, saturating_sub
  <2> HIDE DEF left
  <2>3. paid \in Statics /\ paid.age = s.age /\ paid.degraded = s.degraded /\ paid.cur = t
    BY <1>a, <2>2, Zenon DEF Statics
  <2> HIDE DEF paid
  <2>4. out \in Statics /\ out.age = s.age /\ out.degraded = s.degraded /\ out.cur = t
    BY <1>a, <2>3, Zenon DEF Statics, TaskState
  <2> HIDE DEF out
  <2>5. BudgetPhase(s) \in {s, paid, apply_policy(out, t, "BudgetExhausted")}
    BY DEF BudgetPhase, out, paid, left
  <2>6. SameAge(out, apply_policy(out, t, "BudgetExhausted"))
    BY <1>a, <2>4, PolicySameAge
  <2>7. SameAge(s, s) /\ SameAge(s, paid)
    BY <2>3, Zenon DEF SameAge
  <2>8. SameAge(s, apply_policy(out, t, "BudgetExhausted"))
    BY <2>4, <2>6, Zenon DEF SameAge
  <2> QED BY <2>5, <2>7, <2>8
<1>3. SameAge(s, do_priority_select_and_switch(s))
  <2>1. /\ do_priority_select_and_switch(s).age = s.age
        /\ do_priority_select_and_switch(s).degraded = s.degraded
    BY <1>a DEF do_priority_select_and_switch, Statics
  <2> QED BY <2>1, Zenon DEF SameAge
<1>4. SameAge(s, watchdog_kick(s))
  <2> DEFINE early == s.watchdog[s.cur] < watchdog_window_min(s.cur)
             p == IF early THEN apply_policy(s, s.cur, "WatchdogTimeout") ELSE s
  <2> HIDE DEF early
  <2>1. p \in Statics /\ SameAge(s, p)
    BY <1>a, <1>b, <1>c
  <2>2. watchdog_kick(s).age = p.age /\ watchdog_kick(s).degraded = p.degraded
    BY <2>1 DEF watchdog_kick, Statics, early
  <2> HIDE DEF p
  <2> QED BY <2>1, <2>2, Zenon DEF SameAge
<1> QED BY <1>1, <1>2, <1>3, <1>4

\* After the recovery of a tick the degradation is young, whatever it was.
LEMMA RecoveryPrompt ==
    ASSUME NEW s \in Statics
    PROVE  Prompt(try_recover_from_degrade(s))
<1> DEFINE over == s.degraded /\ s.age >= DEGRADE_COOLDOWN_TICKS /\ Healthy(s)
           r == try_recover_from_degrade(s)
<1>1. CASE over
  <2>1. r.degraded = FALSE
    BY <1>1 DEF try_recover_from_degrade, Statics, Healthy
  <2> QED BY <2>1, Zenon DEF Prompt
<1>2. CASE ~over
  <2>1. r = s
    BY <1>2 DEF try_recover_from_degrade, Healthy
  <2>2. s.age \in Nat /\ DEGRADE_COOLDOWN_TICKS \in Nat
    BY CounterTypes, LimitsAssumption
  <2>3. ~(s.age >= DEGRADE_COOLDOWN_TICKS) => Young(s)
    BY <2>2 DEF Young
  <2>4. s.degraded /\ Healthy(s) => Young(s)
    BY <1>2, <2>3, Zenon
  <2> QED BY <2>1, <2>4, Zenon DEF Prompt
<1> QED BY <1>1, <1>2, Zenon

\* The tick: whatever came before it, its recovery leaves a young degradation and
\* the phases after it keep it so.
LEMMA TickPrompt ==
    ASSUME IInv, Tick
    PROVE  Prompt(sys')
<1> PICK overrun \in BOOLEAN, pmp_ok \in BOOLEAN : timer_interrupt(overrun, pmp_ok)
  BY DEF Tick
<1> DEFINE ticked == [sys EXCEPT !.ticks = IF @ <= GRACE_TICKS THEN @ + 1 ELSE @]
           missed == IF overrun /\ ticked.ticks > GRACE_TICKS
                     THEN apply_policy(ticked, ticked.cur, "DeadlineMiss") ELSE ticked
<1>a. Good(sys) /\ Up(sys) /\ sys \in Statics
  BY DEF IInv, timer_interrupt, Good
<1>b. sys' = IF Up(missed) THEN schedule_timer_tick(missed, pmp_ok) ELSE missed
  BY DEF timer_interrupt
<1>1. /\ ticked \in Statics
      /\ ticked.state = sys.state /\ ticked.caps = sys.caps /\ ticked.cur = sys.cur
      /\ ticked.count = sys.count /\ ticked.mode = sys.mode /\ ticked.budget = sys.budget
      /\ ticked.remaining = sys.remaining /\ ticked.period = sys.period
  <2>1. (IF sys.ticks <= GRACE_TICKS THEN sys.ticks + 1 ELSE sys.ticks) \in 0 .. GRACE_TICKS + 1
    BY <1>a, LimitsAssumption DEF Statics
  <2> QED BY <1>a, <2>1 DEF Statics
<1> HIDE DEF ticked
<1>2. Good(ticked) /\ Up(ticked)
  BY <1>a, <1>1, SameTasksGood DEF Up
<1>3. Good(missed) /\ (~Up(missed) => ~Live(missed))
  BY <1>2, PolicyGood DEF PolicyEvent, Keeps, Up, Live
<1> HIDE DEF missed
<1>4. CASE ~Up(missed)
  BY <1>b, <1>3, <1>4, Zenon DEF Prompt
<1>5. CASE Up(missed) /\ ~pmp_ok
  <2>1. advance_tick(missed) \in Statics
    BY <1>3, AdvanceGood DEF Good
  <2>2. sys' = [advance_tick(missed) EXCEPT !.mode = "shutdown"]
    BY <1>b, <1>5 DEF schedule_timer_tick, SystemEvent, decide_action, shutdown_system
  <2>3. ~Live(sys')
    BY <2>1, <2>2 DEF Live, Statics
  <2> QED BY <2>3, Zenon DEF Prompt
<1>6. CASE Up(missed) /\ pmp_ok
  <2> DEFINE a == advance_tick(missed)
             p == PeriodPhase(a)
             v == try_recover_from_degrade(p)
             w == WatchdogPhase(v)
             b == BudgetPhase(w)
  <2>1. sys' = do_priority_select_and_switch(b)
    BY <1>b, <1>6 DEF schedule_timer_tick
  <2>2. Good(a) /\ Up(a)
    BY <1>3, <1>6, AdvanceGood DEF Up
  <2> HIDE DEF a
  <2>3. Good(p) /\ Up(p)
    BY <2>2, PeriodGood
  <2> HIDE DEF p
  <2>4. Good(v) /\ Up(v) /\ Prompt(v)
    BY <2>3, RecoverGood, RecoveryPrompt DEF Good
  <2> HIDE DEF v
  <2>5. Good(w) /\ Up(w) /\ Prompt(w)
    <3>1. Good(w) /\ Up(w) /\ \A t \in Slots : Isolated(v, t) => Isolated(w, t)
      BY <2>4, WatchdogGood DEF Keeps
    <3>2. SameAge(v, w)
      BY <2>4, LaterPhasesSameAge
    <3> HIDE DEF w
    <3> QED BY <2>4, <3>1, <3>2, SameAgePrompt DEF Live, Up
  <2> HIDE DEF w
  <2>6. Good(b) /\ Up(b) /\ Prompt(b)
    <3>1. Good(b) /\ Up(b) /\ \A t \in Slots : Isolated(w, t) => Isolated(b, t)
      BY <2>5, BudgetGood DEF Keeps
    <3>2. SameAge(w, b)
      BY <2>5, LaterPhasesSameAge
    <3> HIDE DEF b
    <3> QED BY <2>5, <3>1, <3>2, SameAgePrompt DEF Live, Up
  <2> HIDE DEF b
  <2>7. \A t \in Slots : Isolated(b, t) => Isolated(sys', t)
    BY <2>1, <2>6, SwitchGood
  <2>8. SameAge(b, sys')
    BY <2>1, <2>6, LaterPhasesSameAge
  <2> QED BY <2>6, <2>7, <2>8, SameAgePrompt DEF Live, Up
<1> QED BY <1>4, <1>5, <1>6

\* A system call or a fault leaves the age of a degradation or begins a new one.
LEMMA TrapSameAge ==
    ASSUME IInv, Syscall \/ Fault
    PROVE  SameAge(sys, sys')
<1>a. /\ Good(sys) /\ Up(sys) /\ sys \in Statics /\ sys.cur \in Slots
      /\ {"TaskFault", "StackOverflow", "CapViolation"} \subseteq PolicyEvent
  BY DEF IInv, Syscall, Fault, sys_yield, sys_exit, sys_cap_invoke_granted,
         sys_cap_invoke_denied, sys_ipc_send, handle_task_fault, stack_overflow, fatal_trap,
         Good, Statics, PolicyEvent
<1>b. ASSUME sys'.age = sys.age, sys'.degraded = sys.degraded PROVE SameAge(sys, sys')
  BY <1>b, Zenon DEF SameAge
<1>1. CASE sys_yield
  <2> DEFINE k == watchdog_kick(sys)
  <2>1. Good(k) /\ Up(k) /\ SameAge(sys, k)
    BY <1>a, KickGood, LaterPhasesSameAge
  <2>2. sys' = do_priority_select_and_switch(k)
    BY <1>1 DEF sys_yield
  <2> HIDE DEF k
  <2>3. sys'.age = k.age /\ sys'.degraded = k.degraded
    BY <2>1, <2>2 DEF do_priority_select_and_switch, Good, Statics
  <2> QED BY <2>1, <2>3, Zenon DEF SameAge
<1>2. CASE sys_exit
  <2> DEFINE gone == isolate_task(sys, sys.cur)
  <2>1. gone.age = sys.age /\ gone.degraded = sys.degraded
    BY <1>a DEF isolate_task, SystemEvent, shutdown_system, Statics
  <2>2. gone \in Statics
    BY <1>a, IsolateGood, Zenon DEF Good
  <2>3. sys' = IF Up(gone) THEN do_priority_select_and_switch(gone) ELSE gone
    BY <1>2 DEF sys_exit
  <2> HIDE DEF gone
  <2>4. sys'.age = gone.age /\ sys'.degraded = gone.degraded
    BY <2>2, <2>3 DEF do_priority_select_and_switch, Statics
  <2> QED BY <1>b, <2>1, <2>4
<1>3. CASE sys_cap_invoke_granted
  BY <1>a, <1>b, <1>3 DEF sys_cap_invoke_granted, Statics
<1>4. CASE sys_cap_invoke_denied
  <2> DEFINE reset == [sys EXCEPT !.capFails[sys.cur] = 0]
  <2>1. /\ reset \in Statics /\ reset.cur = sys.cur
        /\ reset.age = sys.age /\ reset.degraded = sys.degraded
    <3>1. 0 \in 0 .. CAP_FAIL_LIMIT - 1
      BY LimitsAssumption
    <3> QED BY <1>a, <3>1, Zenon DEF Statics
  <2> HIDE DEF reset
  <2>2. SameAge(reset, apply_policy(reset, sys.cur, "CapViolation"))
    BY <1>a, <2>1, PolicySameAge
  <2>3. CASE sys' = apply_policy(reset, sys.cur, "CapViolation")
    BY <2>1, <2>2, <2>3, Zenon DEF SameAge
  <2>4. CASE sys' = [sys EXCEPT !.capFails[sys.cur] = sys.capFails[sys.cur] + 1]
    BY <1>a, <1>b, <2>4 DEF Statics
  <2> QED BY <1>4, <2>3, <2>4 DEF sys_cap_invoke_denied, reset
<1>5. CASE sys_ipc_send
  BY <1>a, <1>b, <1>5 DEF sys_ipc_send, Statics
<1>6. CASE handle_task_fault
  BY <1>a, <1>6, PolicySameAge DEF handle_task_fault
<1>7. CASE stack_overflow
  BY <1>a, <1>7, PolicySameAge DEF stack_overflow
<1>8. CASE fatal_trap
  BY <1>a, <1>b, <1>8 DEF fatal_trap, halt_system, Statics
<1> QED BY <1>1, <1>2, <1>3, <1>4, <1>5, <1>6, <1>7, <1>8 DEF Syscall, Fault

\* The boot degrades nothing, and no step but the tick adds to the age.
LEMMA NextPrompt ==
    ASSUME IInv, Prompt(sys), [Next]_sys
    PROVE  Prompt(sys')
<1>a. sys \in Statics
  BY DEF IInv, Good
<1>b. \A t \in Slots : Isolated(sys, t) => Isolated(sys', t)
  BY NextStep DEF Steady
<1>1. CASE Tick
  BY <1>1, TickPrompt
<1>2. CASE Syscall \/ Fault
  <2>1. Live(sys)
    BY <1>2 DEF Syscall, Fault, sys_yield, sys_exit, sys_cap_invoke_granted,
                sys_cap_invoke_denied, sys_ipc_send, handle_task_fault, stack_overflow,
                fatal_trap, Up, Live
  <2> QED BY <1>2, <1>b, <2>1, TrapSameAge, SameAgePrompt
<1>3. CASE create_task \/ (\E id \in NativeIds : native_create_task(id)) \/ start_first_task
  <2>1. Live(sys)
    BY <1>3 DEF create_task, native_create_task, start_first_task, Boot, Live
  <2>2. sys'.age = sys.age /\ sys'.degraded = sys.degraded
    <3>1. ASSUME NEW t, NEW c
          PROVE  /\ Created(sys, t).age = sys.age /\ Created(sys, t).degraded = sys.degraded
                 /\ [Created(sys, t) EXCEPT !.count = c].age = sys.age
                 /\ [Created(sys, t) EXCEPT !.count = c].degraded = sys.degraded
      BY <1>a DEF Created, Statics
    <3>2. CASE create_task
      BY <1>a, <3>1, <3>2 DEF create_task, halt_system, Statics
    <3>3. CASE \E id \in NativeIds : native_create_task(id)
      BY <3>1, <3>3 DEF native_create_task
    <3>4. CASE start_first_task
      BY <1>a, <3>4 DEF start_first_task, halt_system, Statics
    <3> QED BY <1>3, <3>2, <3>3, <3>4
  <2>3. SameAge(sys, sys')
    BY <2>2, Zenon DEF SameAge
  <2> QED BY <1>b, <2>1, <2>3, SameAgePrompt
<1>4. CASE UNCHANGED sys
  BY <1>4
<1> QED BY <1>1, <1>2, <1>3, <1>4 DEF Next, parked

\* A healthy system's degradation ends in the tick that completes its cooldown, so
\* the wrapping subtraction of ticks is never asked about a longer time.
THEOREM PromptRecovery == Spec => []RecoveryIsPrompt
<1>1. Init => Prompt(sys)
  <2>1. Init => sys.degraded = FALSE
    BY DEF Init
  <2> QED BY <2>1, Zenon DEF Prompt
<1>2. IInv /\ Prompt(sys) /\ [Next]_sys => Prompt(sys)'
  BY NextPrompt
<1>3. Prompt(sys) => RecoveryIsPrompt
  <2>1. Up(sys) => Live(sys)
    BY DEF Up, Live
  <2> QED BY <2>1, Zenon DEF Prompt, RecoveryIsPrompt, Healthy, Young
<1> QED BY Invariance, <1>1, <1>2, <1>3, PTL DEF Spec

=============================================================================
