-------------------------- MODULE SchedulerProofs --------------------------
(***************************************************************************)
(* The theorems about the scheduler, for every table of tasks and every    *)
(* value of the limits.  The inductive invariant is IInv: the facts of     *)
(* Good, which each phase of a handler preserves (SchedulerLemmas), and    *)
(* two that only hold between handlers, Ordered and Busy: a policy or a    *)
(* period end breaks them inside the tick and the switch at its end        *)
(* restores them.                                                          *)
(***************************************************************************)
EXTENDS SchedulerLemmas, WellFoundedInduction

\* The running task is the one the selection would choose.
Ordered(s) == Running(s, s.cur) => \A t \in Candidates(s) : Precedes(s.cur, t)

\* The processor is with a running task, with one that was just isolated, or
\* there is no task to give it to.
Busy(s) ==
    Up(s) /\ s.count > 1 => Running(s, s.cur) \/ Isolated(s, s.cur) \/ Candidates(s) = {}

\* Before the first dispatch tasks are created and nothing else.
Fresh(s) == s.mode = "boot" => \A t \in Slots : s.state[t] \in {"Dead", "Ready"}

IInv == Good(sys) /\ Ordered(sys) /\ Busy(sys) /\ Fresh(sys)

\* Every non-empty set of naturals has a least element.
LEMMA LeastNatural ==
    ASSUME NEW T, T \subseteq Nat, T # {}
    PROVE  \E m \in T : \A k \in T : m <= k
<1>1. \E m \in T : \A k \in T : ~ (<<k, m>> \in OpToRel(<, Nat))
  BY WFMin, NatLessThanWellFounded
<1>2. PICK m \in T : \A k \in T : ~ (<<k, m>> \in OpToRel(<, Nat))
  BY <1>1
<1>3. \A k \in T : ~ (k < m)
  BY <1>2 DEF OpToRel
<1> QED BY <1>3

\* Any set of tasks has one that precedes all others: the best priority and,
\* among the tasks that have it, the lowest slot.
LEMMA BestTask ==
    ASSUME NEW T, T \subseteq Slots, T # {}
    PROVE  \E t \in T : \A u \in T : Precedes(t, u)
<1>a. \A t \in Slots : t \in Nat
  BY LimitsAssumption DEF Slots
<1>b. \A t \in Slots : Priority[t] \in Nat
  BY TaskTypes
<1>1. \A t \in T : Priority[t] \in Nat /\ t \in Nat
  BY <1>a, <1>b
<1>2. PICK p \in {Priority[t] : t \in T} : \A k \in {Priority[t] : t \in T} : p <= k
  BY <1>1, LeastNatural
<1>3. PICK m \in {t \in T : Priority[t] = p} : \A k \in {t \in T : Priority[t] = p} : m <= k
  BY <1>1, <1>2, LeastNatural
<1>4. \A u \in T : Precedes(m, u)
  BY <1>1, <1>2, <1>3 DEF Precedes
<1> QED BY <1>3, <1>4

\* select_highest_priority returns a candidate that precedes every candidate,
\* or none when there is none.
LEMMA Selected ==
    ASSUME NEW s
    PROVE  /\ Candidates(s) = {} <=> select_highest_priority(s) = NoTask
           /\ Candidates(s) # {} =>
                /\ select_highest_priority(s) \in Candidates(s)
                /\ \A u \in Candidates(s) : Precedes(select_highest_priority(s), u)
<1>1. Candidates(s) \subseteq Slots /\ NoTask \notin Slots
  BY LimitsAssumption DEF Candidates, NoTask, Slots
<1>2. CASE Candidates(s) = {}
  BY <1>2 DEF select_highest_priority
<1>3. CASE Candidates(s) # {}
  <2>1. \E t \in Candidates(s) : \A u \in Candidates(s) : Precedes(t, u)
    BY <1>1, <1>3, BestTask
  <2>2. select_highest_priority(s) =
            CHOOSE t \in Candidates(s) : \A u \in Candidates(s) : Precedes(t, u)
    BY <1>3 DEF select_highest_priority
  <2> QED BY <1>1, <1>3, <2>1, <2>2
<1> QED BY <1>2, <1>3

\* The switch gives the processor to the best runnable task: the invariants
\* that hold between handlers hold after it, whatever the phases before did.
LEMMA SwitchGood ==
    ASSUME NEW s, Good(s), Up(s)
    PROVE  LET r == do_priority_select_and_switch(s)
           IN /\ Good(r) /\ Ordered(r) /\ Busy(r) /\ Up(r)
              /\ r.remaining = s.remaining
              /\ \A t \in Slots : /\ Isolated(s, t) => Isolated(r, t)
                                  /\ r.state[t] = "Suspended" => s.state[t] = "Suspended"
<1> DEFINE r == do_priority_select_and_switch(s)
           old == s.cur
           next == select_highest_priority(s)
           state == [t \in Slots |-> IF t = next THEN "Running"
                                     ELSE IF t = old /\ Running(s, old) THEN "Ready"
                                     ELSE s.state[t]]
           switched == [s EXCEPT !.state = state, !.cur = next, !.ctx[old] = "saved"]
<1>a. /\ s \in Statics /\ old \in Slots /\ s.state \in [Slots -> TaskState]
      /\ s.count \in 0 .. MAX_TASKS
  BY DEF Good, Statics
<1>b. Slots \subseteq Nat /\ \A t \in Slots : Precedes(t, t)
  BY TaskTypes, LimitsAssumption DEF Slots, Precedes
<1>1. CASE s.count < 2
  <2>1. r = s
    BY <1>1 DEF do_priority_select_and_switch
  <2>2. \A t \in Slots : s.state[t] # "Dead" => t = 0
    BY <1>1, <1>a, <1>b DEF Good, TailDead
  <2>3. Ordered(s)
    BY <1>a, <1>b, <2>2 DEF Ordered, Candidates, is_selectable_by_scheduler, Running
  <2>4. Busy(s)
    BY <1>1, <1>a DEF Busy
  <2> QED BY <2>1, <2>3, <2>4
<1>2. CASE next = NoTask
  <2>1. r = s
    BY <1>2 DEF do_priority_select_and_switch
  <2>2. Candidates(s) = {}
    BY <1>2, Selected
  <2> QED BY <2>1, <2>2 DEF Ordered, Busy
<1>3. CASE next # NoTask /\ next = old /\ Running(s, old)
  <2>1. r = s
    BY <1>3 DEF do_priority_select_and_switch
  <2>2. Ordered(s)
    BY <1>3, Selected DEF Ordered
  <2> QED BY <1>3, <2>1, <2>2 DEF Busy
<1>4. CASE ~(s.count < 2) /\ next # NoTask /\ ~(next = old /\ Running(s, old))
  <2>1. r = switched
    BY <1>4 DEF do_priority_select_and_switch
  <2>2. /\ next \in Slots /\ is_selectable_by_scheduler(s.state[next])
        /\ \A u \in Candidates(s) : Precedes(next, u)
    <3>1. next \in Candidates(s) /\ \A u \in Candidates(s) : Precedes(next, u)
      BY <1>4, Selected
    <3> QED BY <3>1 DEF Candidates
  <2> HIDE DEF next
  <2>3. state \in [Slots -> TaskState]
    BY <1>a, <2>2 DEF TaskState
  <2>4. \A t \in Slots : state[t] = IF t = next THEN "Running"
                                    ELSE IF t = old /\ Running(s, old) THEN "Ready"
                                    ELSE s.state[t]
    OBVIOUS
  <2> HIDE DEF state
  <2>5. /\ r \in Statics /\ r.state = state /\ r.cur = next
        /\ r.caps = s.caps /\ r.count = s.count /\ r.mode = s.mode /\ r.budget = s.budget
        /\ r.remaining = s.remaining /\ r.period = s.period
    <3> HIDE DEF r
    <3> QED BY <1>a, <2>1, <2>2, <2>3 DEF Statics
  <2> HIDE DEF r
  <2>6. \A t \in Slots :
            /\ is_selectable_by_scheduler(r.state[t]) <=> is_selectable_by_scheduler(s.state[t])
            /\ r.state[t] = "Dead" <=> s.state[t] = "Dead"
            /\ Isolated(r, t) <=> Isolated(s, t)
            /\ r.state[t] = "Suspended" => s.state[t] = "Suspended"
    BY <2>2, <2>4, <2>5 DEF is_selectable_by_scheduler, Isolated, Running
  <2>7. Candidates(r) = Candidates(s)
    BY <2>6 DEF Candidates
  <2>8. CurrentOnly(r) /\ CurrentAlive(r) /\ Running(r, r.cur)
    BY <2>2, <2>4, <2>5 DEF Good, CurrentOnly, CurrentAlive, Running, Up
  <2>9. PeriodBelow(r) /\ CrashStops(r) /\ Funded(r) /\ Within(r) /\ Revoked(r) /\ TailDead(r)
    BY <2>5, <2>6 DEF Good, PeriodBelow, CrashStops, Funded, Within, Revoked, TailDead
  <2>10. Ordered(r) /\ Busy(r) /\ Up(r)
    BY <2>2, <2>5, <2>7, <2>8 DEF Ordered, Busy, Up
  <2> QED BY <2>5, <2>6, <2>8, <2>9, <2>10 DEF Good, r
<1> QED BY <1>1, <1>2, <1>3, <1>4

(***************************************************************************)
(* The handlers preserve the invariant.  Steady is what every step of the  *)
(* system does besides: no isolation is undone, and a DAL-A/B task becomes *)
(* Suspended only when it is the running one and its budget is used up.    *)
(***************************************************************************)
Steady(s, r) ==
    /\ \A t \in Slots : Isolated(s, t) => Isolated(r, t)
    /\ OwnBudget(s, r)

\* A policy's answer outside the tick keeps the running task the best one.
LEMMA PolicyKeepsOrder ==
    ASSUME NEW s, NEW r, Good(s), Good(r), Ordered(s), Keeps(s, r), AddsNone(s, r)
    PROVE  Ordered(r)
<1>1. Candidates(r) \subseteq Candidates(s)
  BY DEF AddsNone, Candidates
<1>2. s.cur \in Slots /\ r.cur = s.cur
  BY DEF Good, Statics, Keeps
<1> QED BY <1>1, <1>2 DEF Ordered, Keeps

\* The events that are answered without a switch restart or isolate the
\* current task, they never degrade the system.
LEMMA FaultStep ==
    ASSUME NEW s, Good(s), Up(s), Ordered(s), Busy(s),
           NEW event \in {"TaskFault", "StackOverflow", "CapViolation"}
    PROVE  LET r == apply_policy(s, s.cur, event)
           IN Good(r) /\ Ordered(r) /\ Busy(r) /\ Fresh(r) /\ Steady(s, r)
<1> DEFINE r == apply_policy(s, s.cur, event)
           action == decide_action(event, s.restarts[s.cur], Dal[s.cur])
           counted == IF action = "Restart" THEN [s EXCEPT !.restarts[s.cur] = @ + 1] ELSE s
<1>a. s \in Statics /\ s.cur \in Slots
  BY DEF Good, Statics
<1>1. Good(r) /\ Keeps(s, r) /\ SparesHigh(s, r) /\ AddsNone(s, r)
  BY PolicyGood DEF PolicyEvent
<1>2. Ordered(r)
  BY <1>1, PolicyKeepsOrder
<1>3. action \in {"Restart", "Isolate"}
  BY DEF decide_action
<1>4. r = apply_action(counted, s.cur, action)
  BY DEF apply_policy
<1> HIDE DEF action, r
<1>5. r.state[s.cur] \in {s.state[s.cur], "Isolated"}
  <2>1. CASE action = "Restart"
    BY <1>a, <1>4, <2>1 DEF apply_action, restart_task, Statics
  <2>2. CASE action = "Isolate"
    <3>1. r = isolate_task(s, s.cur)
      BY <1>4, <2>2 DEF apply_action
    <3> QED BY <1>a, <3>1, IsolateGood DEF Statics
  <2> QED BY <1>3, <2>1, <2>2
<1>6. Busy(r)
  <2>1. Candidates(r) \subseteq Candidates(s) /\ r.cur = s.cur /\ r.count = s.count
    BY <1>1 DEF AddsNone, Candidates, Keeps
  <2> QED BY <1>1, <1>5, <2>1 DEF Busy, Running, Isolated, Up
<1>7. Fresh(r)
  BY <1>1 DEF Fresh, Keeps, Up
<1>8. Steady(s, r)
  BY <1>1 DEF Steady, OwnBudget, Keeps, SparesHigh
<1> QED BY <1>1, <1>2, <1>6, <1>7, <1>8 DEF r

\* A handler that only changes counters.
LEMMA CounterStep ==
    ASSUME NEW s, Good(s), Up(s), Ordered(s), Busy(s), NEW r \in Statics,
           r.state = s.state, r.caps = s.caps, r.cur = s.cur, r.count = s.count,
           r.mode = s.mode, r.budget = s.budget, r.remaining = s.remaining,
           r.period = s.period
    PROVE  Good(r) /\ Ordered(r) /\ Busy(r) /\ Fresh(r) /\ Steady(s, r)
<1>1. Good(r) /\ Keeps(s, r) /\ SparesHigh(s, r) /\ AddsNone(s, r)
  BY SameTasksGood
<1>2. Ordered(r)
  BY <1>1, PolicyKeepsOrder
<1> QED
  BY <1>1, <1>2 DEF Busy, Fresh, Steady, OwnBudget, Keeps, SparesHigh, Candidates,
                    Running, Isolated, Up

\* Stopping the system leaves the tasks as they are.
LEMMA StopStep ==
    ASSUME NEW s, Good(s), Ordered(s), NEW m \in {"shutdown", "halt"},
           m = "halt" => s.mode # "shutdown"
    PROVE  LET r == [s EXCEPT !.mode = m]
           IN Good(r) /\ Ordered(r) /\ Busy(r) /\ Fresh(r) /\ Steady(s, r)
<1> DEFINE r == [s EXCEPT !.mode = m]
<1>1. /\ r \in Statics
      /\ r.state = s.state /\ r.caps = s.caps /\ r.cur = s.cur /\ r.count = s.count
      /\ r.mode = m /\ r.budget = s.budget /\ r.remaining = s.remaining
      /\ r.period = s.period
  BY DEF Good, Statics, Mode
<1> HIDE DEF r
<1>2. Good(r)
  BY <1>1 DEF Good, PeriodBelow, CurrentOnly, CrashStops, Funded, Within, Revoked,
              TailDead, CurrentAlive, Running, Isolated, Up
<1>3. Ordered(r) /\ Busy(r) /\ Fresh(r) /\ Steady(s, r)
  BY <1>1 DEF Ordered, Busy, Fresh, Steady, OwnBudget, Candidates, Running, Isolated, Up
<1> QED BY <1>2, <1>3 DEF r

\* The phases of a tick compose.
LEMMA PhasesCompose ==
    ASSUME NEW s, NEW p, NEW r, Up(s), Up(p), Keeps(s, p), Keeps(p, r),
           SparesHigh(s, p), SparesHigh(p, r)
    PROVE  Keeps(s, r) /\ SparesHigh(s, r)
  BY DEF Keeps, SparesHigh, Up

\* From the start of a tick to its switch.
LEMMA SwitchStep ==
    ASSUME NEW s, NEW w, NEW b, Good(b), Up(b), Up(s), Keeps(s, w), SparesHigh(s, w),
           Keeps(w, b), OwnBudget(w, b)
    PROVE  LET r == do_priority_select_and_switch(b)
           IN Good(r) /\ Ordered(r) /\ Busy(r) /\ Fresh(r) /\ Steady(s, r)
<1> DEFINE r == do_priority_select_and_switch(b)
<1>1. /\ Good(r) /\ Ordered(r) /\ Busy(r) /\ Up(r)
      /\ r.remaining = b.remaining
      /\ \A t \in Slots : /\ Isolated(b, t) => Isolated(r, t)
                          /\ r.state[t] = "Suspended" => b.state[t] = "Suspended"
  BY SwitchGood
<1> HIDE DEF r
<1>2. Fresh(r)
  BY <1>1 DEF Fresh, Up
<1>3. Steady(s, r)
  BY <1>1 DEF Steady, OwnBudget, Keeps, SparesHigh
<1> QED BY <1>1, <1>2, <1>3 DEF r

\* schedule_timer_tick, with its PMP check.
LEMMA ScheduleStep ==
    ASSUME NEW s, Good(s), Up(s), Ordered(s), NEW pmp_ok \in BOOLEAN
    PROVE  LET r == schedule_timer_tick(s, pmp_ok)
           IN Good(r) /\ Ordered(r) /\ Busy(r) /\ Fresh(r) /\ Steady(s, r)
<1> DEFINE a == advance_tick(s)
           p == PeriodPhase(a)
           v == try_recover_from_degrade(p)
           w == WatchdogPhase(v)
           b == BudgetPhase(w)
<1>1. Good(a) /\ Keeps(s, a) /\ SparesHigh(s, a) /\ Up(a)
  BY AdvanceGood DEF Up
<1>2. CASE ~pmp_ok
  <2>1. schedule_timer_tick(s, pmp_ok) = [a EXCEPT !.mode = "shutdown"]
    BY <1>2 DEF schedule_timer_tick, SystemEvent, decide_action, shutdown_system
  <2>2. a.state = s.state /\ a.cur = s.cur
    BY DEF advance_tick, Good, Statics
  <2> HIDE DEF a
  <2>3. Ordered(a)
    BY <2>2 DEF Ordered, Candidates, Running
  <2>4. LET r == [a EXCEPT !.mode = "shutdown"]
        IN Good(r) /\ Ordered(r) /\ Busy(r) /\ Fresh(r) /\ Steady(a, r)
    BY <1>1, <2>3, StopStep
  <2> QED BY <2>1, <2>2, <2>4 DEF Steady, OwnBudget, Running, Isolated
<1>3. CASE pmp_ok
  <2>1. schedule_timer_tick(s, pmp_ok) = do_priority_select_and_switch(b)
    BY <1>3 DEF schedule_timer_tick
  <2> HIDE DEF a
  <2>2. Good(p) /\ Keeps(a, p) /\ SparesHigh(a, p) /\ Up(p)
    BY <1>1, PeriodGood
  <2> HIDE DEF p
  <2>3. Good(v) /\ Keeps(p, v) /\ SparesHigh(p, v) /\ Up(v)
    BY <2>2, RecoverGood
  <2> HIDE DEF v
  <2>4. Good(w) /\ Keeps(v, w) /\ SparesHigh(v, w) /\ Up(w)
    BY <2>3, WatchdogGood
  <2> HIDE DEF w
  <2>5. Good(b) /\ Keeps(w, b) /\ OwnBudget(w, b) /\ Up(b)
    BY <2>4, BudgetGood
  <2> HIDE DEF b
  <2>6. Keeps(s, p) /\ SparesHigh(s, p)
    BY <1>1, <2>2, PhasesCompose
  <2>7. Keeps(s, v) /\ SparesHigh(s, v)
    BY <2>2, <2>3, <2>6, PhasesCompose
  <2>8. Keeps(s, w) /\ SparesHigh(s, w)
    BY <2>3, <2>4, <2>7, PhasesCompose
  <2> QED BY <2>1, <2>5, <2>8, SwitchStep
<1> QED BY <1>2, <1>3

\* The timer interrupt: a deadline miss may isolate a task, or stop the system
\* before the tick is scheduled.
LEMMA TickStep ==
    ASSUME IInv, NEW overrun \in BOOLEAN, NEW pmp_ok \in BOOLEAN,
           timer_interrupt(overrun, pmp_ok)
    PROVE  IInv' /\ Steady(sys, sys')
<1> DEFINE ticked == [sys EXCEPT !.ticks = IF @ <= GRACE_TICKS THEN @ + 1 ELSE @]
           missed == IF overrun /\ ticked.ticks > GRACE_TICKS
                     THEN apply_policy(ticked, ticked.cur, "DeadlineMiss") ELSE ticked
<1>a. Good(sys) /\ Up(sys) /\ Ordered(sys) /\ Busy(sys)
  BY DEF IInv, timer_interrupt
<1>b. sys' = IF Up(missed) THEN schedule_timer_tick(missed, pmp_ok) ELSE missed
  BY DEF timer_interrupt
<1>1. /\ ticked \in Statics
      /\ ticked.state = sys.state /\ ticked.caps = sys.caps /\ ticked.cur = sys.cur
      /\ ticked.count = sys.count /\ ticked.mode = sys.mode /\ ticked.budget = sys.budget
      /\ ticked.remaining = sys.remaining /\ ticked.period = sys.period
  <2>1. (IF sys.ticks <= GRACE_TICKS THEN sys.ticks + 1 ELSE sys.ticks) \in 0 .. GRACE_TICKS + 1
    BY <1>a, LimitsAssumption DEF Good, Statics
  <2> QED BY <1>a, <2>1 DEF Good, Statics
<1> HIDE DEF ticked
<1>2. Good(ticked) /\ Keeps(sys, ticked) /\ SparesHigh(sys, ticked) /\ AddsNone(sys, ticked)
  BY <1>a, <1>1, SameTasksGood
<1>3. Up(ticked) /\ Ordered(ticked)
  BY <1>a, <1>1, <1>2, PolicyKeepsOrder DEF Up
<1>4. Good(missed) /\ Keeps(ticked, missed) /\ SparesHigh(ticked, missed) /\ Ordered(missed)
  <2>1. CASE overrun /\ ticked.ticks > GRACE_TICKS
    <3>1. /\ Good(missed) /\ Keeps(ticked, missed) /\ SparesHigh(ticked, missed)
          /\ AddsNone(ticked, missed)
      BY <1>2, <1>3, <2>1, PolicyGood DEF PolicyEvent
    <3> QED BY <1>2, <1>3, <3>1, PolicyKeepsOrder
  <2>2. CASE ~(overrun /\ ticked.ticks > GRACE_TICKS)
    BY <1>2, <1>3, <2>2 DEF Keeps, SparesHigh
  <2> QED BY <2>1, <2>2
<1> HIDE DEF missed
<1>5. Keeps(sys, missed) /\ SparesHigh(sys, missed)
  BY <1>a, <1>2, <1>3, <1>4, PhasesCompose
<1>6. CASE Up(missed)
  <2>1. /\ Good(sys') /\ Ordered(sys') /\ Busy(sys') /\ Fresh(sys')
        /\ Steady(missed, sys')
    BY <1>b, <1>4, <1>6, ScheduleStep
  <2>2. Steady(sys, sys')
    BY <1>5, <2>1 DEF Steady, OwnBudget, Keeps, SparesHigh
  <2> QED BY <2>1, <2>2 DEF IInv
<1>7. CASE ~Up(missed)
  <2>1. sys' = missed
    BY <1>b, <1>7
  <2>2. Busy(missed) /\ Fresh(missed)
    BY <1>a, <1>5, <1>7 DEF Busy, Fresh, Keeps, Up
  <2>3. Steady(sys, missed)
    BY <1>5 DEF Steady, OwnBudget, Keeps, SparesHigh
  <2> QED BY <1>4, <2>1, <2>2, <2>3 DEF IInv
<1> QED BY <1>6, <1>7

\* The system calls.
LEMMA SyscallStep ==
    ASSUME IInv, Syscall
    PROVE  IInv' /\ Steady(sys, sys')
<1>a. Good(sys) /\ Up(sys) /\ Ordered(sys) /\ Busy(sys)
  BY DEF IInv, Syscall, sys_yield, sys_exit, sys_cap_invoke_granted, sys_cap_invoke_denied,
         sys_ipc_send
<1>b. sys \in Statics /\ sys.cur \in Slots
  BY <1>a DEF Good, Statics
<1>c. Keeps(sys, sys) /\ SparesHigh(sys, sys)
  BY DEF Keeps, SparesHigh
<1>1. CASE sys_yield
  <2> DEFINE k == watchdog_kick(sys)
  <2>1. Good(k) /\ Keeps(sys, k) /\ SparesHigh(sys, k) /\ Up(k)
    BY <1>a, KickGood
  <2>2. sys' = do_priority_select_and_switch(k)
    BY <1>1 DEF sys_yield
  <2> HIDE DEF k
  <2>3. Keeps(k, k) /\ OwnBudget(k, k)
    BY DEF Keeps, OwnBudget
  <2>4. Good(sys') /\ Ordered(sys') /\ Busy(sys') /\ Fresh(sys') /\ Steady(sys, sys')
    BY <1>a, <2>1, <2>2, <2>3, SwitchStep
  <2> QED BY <2>4 DEF IInv
<1>2. CASE sys_exit
  <2> DEFINE gone == isolate_task(sys, sys.cur)
  <2>1. Good(gone) /\ Keeps(sys, gone) /\ SparesHigh(sys, gone) /\ AddsNone(sys, gone)
    BY <1>a, IsolateGood
  <2>2. sys' = IF Up(gone) THEN do_priority_select_and_switch(gone) ELSE gone
    BY <1>2 DEF sys_exit
  <2> HIDE DEF gone
  <2>3. CASE Up(gone)
    <3>1. Keeps(gone, gone) /\ OwnBudget(gone, gone)
      BY DEF Keeps, OwnBudget
    <3>2. Good(sys') /\ Ordered(sys') /\ Busy(sys') /\ Fresh(sys') /\ Steady(sys, sys')
      BY <1>a, <2>1, <2>2, <2>3, <3>1, SwitchStep
    <3> QED BY <3>2 DEF IInv
  <2>4. CASE ~Up(gone)
    <3>1. Ordered(gone)
      BY <1>a, <2>1, PolicyKeepsOrder
    <3>2. Busy(gone) /\ Fresh(gone) /\ Steady(sys, gone)
      BY <1>a, <2>1, <2>4 DEF Busy, Fresh, Steady, OwnBudget, Keeps, SparesHigh, Up
    <3> QED BY <2>1, <2>2, <2>4, <3>1, <3>2 DEF IInv
  <2> QED BY <2>3, <2>4
<1>3. CASE sys_cap_invoke_granted
  <2>1. /\ sys' \in Statics
        /\ sys'.state = sys.state /\ sys'.caps = sys.caps /\ sys'.cur = sys.cur
        /\ sys'.count = sys.count /\ sys'.mode = sys.mode /\ sys'.budget = sys.budget
        /\ sys'.remaining = sys.remaining /\ sys'.period = sys.period
    <3>1. 0 \in 0 .. CAP_FAIL_LIMIT - 1
      BY LimitsAssumption
    <3> QED BY <1>b, <1>3, <3>1 DEF sys_cap_invoke_granted, Statics
  <2> QED BY <1>a, <2>1, CounterStep DEF IInv
<1>4. CASE sys_cap_invoke_denied
  <2> DEFINE fails == sys.capFails[sys.cur] + 1
             reset == [sys EXCEPT !.capFails[sys.cur] = 0]
  <2>1. /\ reset \in Statics
        /\ reset.state = sys.state /\ reset.caps = sys.caps /\ reset.cur = sys.cur
        /\ reset.count = sys.count /\ reset.mode = sys.mode /\ reset.budget = sys.budget
        /\ reset.remaining = sys.remaining /\ reset.period = sys.period
    <3>1. 0 \in 0 .. CAP_FAIL_LIMIT - 1
      BY LimitsAssumption
    <3> QED BY <1>b, <3>1 DEF Statics
  <2>2. CASE fails >= CAP_FAIL_LIMIT
    <3>1. sys' = apply_policy(reset, reset.cur, "CapViolation")
      BY <1>4, <2>1, <2>2 DEF sys_cap_invoke_denied
    <3> HIDE DEF reset
    <3>2. Good(reset) /\ Ordered(reset) /\ Busy(reset) /\ Up(reset)
      BY <1>a, <2>1, CounterStep DEF Up
    <3>3. Good(sys') /\ Ordered(sys') /\ Busy(sys') /\ Fresh(sys') /\ Steady(reset, sys')
      BY <3>1, <3>2, FaultStep
    <3>4. Steady(sys, sys')
      BY <2>1, <3>3 DEF Steady, OwnBudget, Running, Isolated
    <3> QED BY <3>3, <3>4 DEF IInv
  <2>3. CASE ~(fails >= CAP_FAIL_LIMIT)
    <3>1. sys' = [sys EXCEPT !.capFails[sys.cur] = fails]
      BY <1>4, <2>3 DEF sys_cap_invoke_denied
    <3>2. fails \in 0 .. CAP_FAIL_LIMIT - 1
      BY <1>b, <2>3, LimitsAssumption DEF Statics
    <3> HIDE DEF fails
    <3>3. /\ sys' \in Statics
          /\ sys'.state = sys.state /\ sys'.caps = sys.caps /\ sys'.cur = sys.cur
          /\ sys'.count = sys.count /\ sys'.mode = sys.mode /\ sys'.budget = sys.budget
          /\ sys'.remaining = sys.remaining /\ sys'.period = sys.period
      BY <1>b, <3>1, <3>2 DEF Statics
    <3> QED BY <1>a, <3>3, CounterStep DEF IInv
  <2> QED BY <2>2, <2>3
<1>5. CASE sys_ipc_send
  <2>1. /\ sys' \in Statics
        /\ sys'.state = sys.state /\ sys'.caps = sys.caps /\ sys'.cur = sys.cur
        /\ sys'.count = sys.count /\ sys'.mode = sys.mode /\ sys'.budget = sys.budget
        /\ sys'.remaining = sys.remaining /\ sys'.period = sys.period
    <3>1. sys.sends[sys.cur] + 1 \in 0 .. MAX_SENDS_PER_TICK
      BY <1>b, <1>5, LimitsAssumption DEF sys_ipc_send, Statics
    <3> QED BY <1>b, <1>5, <3>1 DEF sys_ipc_send, Statics
  <2> QED BY <1>a, <2>1, CounterStep DEF IInv
<1> QED BY <1>1, <1>2, <1>3, <1>4, <1>5 DEF Syscall

\* The faults.
LEMMA FaultsStep ==
    ASSUME IInv, Fault
    PROVE  IInv' /\ Steady(sys, sys')
<1>a. Good(sys) /\ Up(sys) /\ Ordered(sys) /\ Busy(sys)
  BY DEF IInv, Fault, handle_task_fault, stack_overflow, fatal_trap
<1>1. CASE handle_task_fault
  BY <1>a, <1>1, FaultStep DEF handle_task_fault, IInv
<1>2. CASE stack_overflow
  BY <1>a, <1>2, FaultStep DEF stack_overflow, IInv
<1>3. CASE fatal_trap
  <2>1. sys' = [sys EXCEPT !.mode = "halt"]
    BY <1>3 DEF fatal_trap, halt_system
  <2> QED BY <1>a, <2>1, StopStep DEF IInv, Up
<1> QED BY <1>1, <1>2, <1>3 DEF Fault

\* Creating a task in an unused slot.
LEMMA CreateStep ==
    ASSUME NEW s, Good(s), Fresh(s), s.mode = "boot", NEW t \in Slots,
           s.state[t] = "Dead", NEW c \in 0 .. MAX_TASKS, c >= s.count, c > t
    PROVE  LET r == [Created(s, t) EXCEPT !.count = c]
           IN Good(r) /\ Ordered(r) /\ Busy(r) /\ Fresh(r) /\ Steady(s, r)
<1> DEFINE r == [Created(s, t) EXCEPT !.count = c]
<1>a. s \in Statics /\ s.state \in [Slots -> TaskState] /\ s.count \in Nat
  BY DEF Good, Statics
<1>b. t \in Nat /\ OriginalBudget[t] \in Nat /\ 0 \in 0 .. WATCHDOG_LIMIT - 1
  BY TaskTypes, LimitsAssumption DEF Slots
<1> DEFINE state == [s.state EXCEPT ![t] = "Ready"]
           ctx == [s.ctx EXCEPT ![t] = "entry"]
           budget == [s.budget EXCEPT ![t] = OriginalBudget[t]]
           remaining == [s.remaining EXCEPT ![t] = OriginalBudget[t]]
           period == [s.period EXCEPT ![t] = 0]
           watchdog == [s.watchdog EXCEPT ![t] = 0]
           k == [s EXCEPT !.state = state, !.ctx = ctx, !.budget = budget,
                          !.remaining = remaining, !.period = period, !.watchdog = watchdog]
<1>1. Created(s, t) = k
  BY <1>a DEF Created, Statics
<1>c. /\ state \in [Slots -> TaskState] /\ ctx \in [Slots -> {"entry", "saved"}]
      /\ budget \in [Slots -> Nat] /\ remaining \in [Slots -> Nat]
      /\ period \in [Slots -> Nat] /\ watchdog \in [Slots -> 0 .. WATCHDOG_LIMIT - 1]
  BY <1>a, <1>b DEF Statics, TaskState
<1> HIDE DEF state, ctx, budget, remaining, period, watchdog
<1>2. /\ k \in Statics
      /\ k.state = state /\ k.budget = budget /\ k.remaining = remaining
      /\ k.period = period /\ k.caps = s.caps /\ k.cur = s.cur /\ k.mode = s.mode
  BY <1>a, <1>c DEF Statics
<1> HIDE DEF k
<1>3. /\ r \in Statics
      /\ r.state = state /\ r.budget = budget /\ r.remaining = remaining
      /\ r.period = period /\ r.caps = s.caps /\ r.cur = s.cur
      /\ r.mode = "boot" /\ r.count = c
  BY <1>1, <1>2 DEF Statics
<1>4. \A u \in Slots :
        /\ r.state[u] = IF u = t THEN "Ready" ELSE s.state[u]
        /\ r.budget[u] = IF u = t THEN OriginalBudget[u] ELSE s.budget[u]
        /\ r.remaining[u] = IF u = t THEN OriginalBudget[u] ELSE s.remaining[u]
        /\ r.period[u] = IF u = t THEN 0 ELSE s.period[u]
  BY <1>a, <1>3 DEF Statics, state, budget, remaining, period
<1> HIDE DEF r
<1>5. PeriodBelow(r) /\ CurrentOnly(r) /\ CrashStops(r)
  BY <1>3, <1>4 DEF Good, PeriodBelow, CurrentOnly, CrashStops, Running, Isolated
<1>6. Funded(r) /\ Within(r)
  BY <1>3, <1>4, TaskTypes DEF Good, Funded, Within
<1>7. Revoked(r) /\ CurrentAlive(r)
  BY <1>3, <1>4 DEF Good, Revoked, CurrentAlive, Isolated, Up
<1>8. TailDead(r)
  <2> SUFFICES ASSUME NEW u \in Slots, u >= c PROVE r.state[u] = "Dead"
    BY <1>3 DEF TailDead
  <2>1. u \in Nat
    BY LimitsAssumption DEF Slots
  <2>2. u # t /\ u >= s.count
    BY <1>a, <1>b, <2>1
  <2> QED BY <1>4, <2>2 DEF Good, TailDead
<1>9. Fresh(r) /\ Busy(r)
  BY <1>3, <1>4 DEF Fresh, Busy, Up
<1>10. Ordered(r)
  <2>1. r.cur \in Slots
    BY <1>3 DEF Statics
  <2>2. ~Running(r, r.cur)
    BY <1>3, <1>9, <2>1 DEF Fresh, Running
  <2> QED BY <2>2 DEF Ordered
<1>11. Steady(s, r)
  BY <1>4 DEF Steady, OwnBudget, Isolated
<1> QED BY <1>3, <1>5, <1>6, <1>7, <1>8, <1>9, <1>10, <1>11 DEF Good, r

\* The boot sequence up to the first dispatch.
LEMMA BootStep ==
    ASSUME IInv, create_task \/ (\E id \in NativeIds : native_create_task(id)) \/ start_first_task
    PROVE  IInv' /\ Steady(sys, sys')
<1>a. Good(sys) /\ Fresh(sys) /\ Ordered(sys) /\ sys.mode = "boot"
  BY DEF IInv, create_task, native_create_task, start_first_task, Boot
<1>b. sys \in Statics /\ sys.count \in 0 .. MAX_TASKS
  BY <1>a DEF Good, Statics
<1>c. \A t \in Slots : t \in Nat /\ t + 1 \in 0 .. MAX_TASKS
  BY LimitsAssumption DEF Slots
<1>d. ASSUME sys' = halt_system(sys)
      PROVE  IInv' /\ Steady(sys, sys')
  <2>1. sys' = [sys EXCEPT !.mode = "halt"]
    BY <1>d DEF halt_system
  <2> QED BY <1>a, <2>1, StopStep DEF IInv
<1>1. CASE create_task
  <2>1. sys.count \in Slots
    BY <1>1, <1>b, LimitsAssumption, TasksAssumption DEF create_task, Slots
  <2>2. sys.state[sys.count] = "Dead"
    BY <1>a, <1>b, <2>1 DEF Good, TailDead
  <2>3. CASE sys' = [Created(sys, sys.count) EXCEPT !.count = @ + 1]
    <3>1. Created(sys, sys.count).count = sys.count
      BY <1>b DEF Created, Statics
    <3>2. sys' = [Created(sys, sys.count) EXCEPT !.count = sys.count + 1]
      BY <2>3, <3>1
    <3>3. /\ sys.count + 1 \in 0 .. MAX_TASKS /\ sys.count + 1 >= sys.count
          /\ sys.count + 1 > sys.count
      BY <1>c, <2>1
    <3>4. Good(sys') /\ Ordered(sys') /\ Busy(sys') /\ Fresh(sys') /\ Steady(sys, sys')
      BY <1>a, <2>1, <2>2, <3>2, <3>3, CreateStep
    <3> QED BY <3>4 DEF IInv
  <2> QED BY <1>1, <1>d, <2>3 DEF create_task
<1>2. ASSUME NEW id \in NativeIds, native_create_task(id)
      PROVE  IInv' /\ Steady(sys, sys')
  <2> DEFINE c == IF id >= sys.count THEN id + 1 ELSE sys.count
  <2>1. id \in Slots
    BY TasksAssumption, LimitsAssumption DEF Slots
  <2>2. sys.state[id] = "Dead"
    BY <1>2, <1>a, <2>1 DEF native_create_task, Fresh, is_selectable_by_scheduler
  <2>3. Created(sys, id).count = sys.count
    BY <1>b DEF Created, Statics
  <2>4. sys' = [Created(sys, id) EXCEPT !.count = c]
    BY <1>2, <2>3 DEF native_create_task
  <2>5. c \in 0 .. MAX_TASKS /\ c >= sys.count /\ c > id
    BY <1>b, <1>c, <2>1
  <2> HIDE DEF c
  <2>6. Good(sys') /\ Ordered(sys') /\ Busy(sys') /\ Fresh(sys') /\ Steady(sys, sys')
    BY <1>a, <2>1, <2>2, <2>4, <2>5, CreateStep
  <2> QED BY <2>6 DEF IInv
<1>3. CASE start_first_task
  <2> DEFINE best == select_highest_priority(sys)
             state == [sys.state EXCEPT ![best] = "Running"]
             r == [sys EXCEPT !.state = state, !.cur = best, !.mode = "run"]
  <2>1. CASE best # NoTask
    <3>1. best \in Candidates(sys) /\ \A u \in Candidates(sys) : Precedes(best, u)
      BY <2>1, Selected
    <3>2. sys' = [sys EXCEPT !.state[best] = "Running", !.cur = best, !.mode = "run"]
      BY <1>3, <2>1 DEF start_first_task
    <3>3. best \in Slots /\ sys.state[best] = "Ready"
      BY <1>a, <3>1 DEF Candidates, is_selectable_by_scheduler, Fresh
    <3> HIDE DEF best
    <3>4. /\ sys' \in Statics /\ sys'.state = state /\ sys'.cur = best /\ sys'.mode = "run"
          /\ sys'.count = sys.count /\ sys'.caps = sys.caps /\ sys'.budget = sys.budget
          /\ sys'.remaining = sys.remaining /\ sys'.period = sys.period
      BY <1>b, <3>2, <3>3 DEF Statics, TaskState, Mode
    <3>5. \A t \in Slots : /\ sys'.state[t] = IF t = best THEN "Running" ELSE sys.state[t]
                           /\ sys.state[t] \in {"Dead", "Ready"}
      BY <1>a, <1>b, <3>4 DEF Fresh, Statics
    <3>6. Candidates(sys') = Candidates(sys)
      BY <3>3, <3>5 DEF Candidates, is_selectable_by_scheduler
    <3>7. CurrentOnly(sys') /\ CrashStops(sys') /\ Revoked(sys') /\ CurrentAlive(sys')
      BY <3>3, <3>4, <3>5 DEF CurrentOnly, CrashStops, Revoked, CurrentAlive, Running, Isolated
    <3>8. PeriodBelow(sys') /\ Funded(sys') /\ Within(sys') /\ TailDead(sys')
      BY <1>a, <3>3, <3>4, <3>5 DEF Good, PeriodBelow, Funded, Within, TailDead,
                                    is_selectable_by_scheduler
    <3>9. Ordered(sys') /\ Busy(sys') /\ Fresh(sys') /\ Steady(sys, sys')
      BY <3>1, <3>3, <3>4, <3>5, <3>6 DEF Ordered, Busy, Fresh, Steady, OwnBudget, Running, Isolated
    <3> QED BY <3>4, <3>7, <3>8, <3>9 DEF IInv, Good
  <2> QED BY <1>3, <1>d, <2>1 DEF start_first_task
<1> QED BY <1>1, <1>2, <1>3

\* Before the boot every slot is unused, so the invariant holds.
LEMMA InitIInv == Init => IInv
<1> SUFFICES ASSUME Init PROVE IInv
  OBVIOUS
<1>a. /\ 0 \in Slots /\ 0 \in 0 .. MAX_TASKS /\ 0 \in 0 .. WATCHDOG_LIMIT - 1
      /\ 0 \in 0 .. MAX_SENDS_PER_TICK /\ 0 \in 0 .. CAP_FAIL_LIMIT - 1
      /\ 0 \in 0 .. DEGRADE_COOLDOWN_TICKS /\ 0 \in 0 .. GRACE_TICKS + 1
      /\ Enrolled \subseteq Slots
  BY LimitsAssumption, TasksAssumption DEF Slots
<1>1. sys \in Statics
  <2> DEFINE dead == [t \in Slots |-> "Dead"]
             entry == [t \in Slots |-> "entry"]
             zero == [t \in Slots |-> 0]
  <2>1. /\ dead \in [Slots -> TaskState] /\ entry \in [Slots -> {"entry", "saved"}]
        /\ zero \in [Slots -> Nat] /\ zero \in [Slots -> 0 .. WATCHDOG_LIMIT - 1]
        /\ zero \in [Slots -> 0 .. MAX_SENDS_PER_TICK]
        /\ zero \in [Slots -> 0 .. MAX_RESTART_FAULT]
        /\ zero \in [Slots -> 0 .. CAP_FAIL_LIMIT - 1]
    <3>1. \A S : 0 \in S => zero \in [Slots -> S]
      OBVIOUS
    <3>2. dead \in [Slots -> TaskState] /\ entry \in [Slots -> {"entry", "saved"}]
      BY DEF TaskState
    <3>3. 0 \in Nat /\ 0 \in 0 .. MAX_RESTART_FAULT
      BY DEF MAX_RESTART_FAULT
    <3> HIDE DEF dead, entry, zero
    <3> QED BY <1>a, <3>1, <3>2, <3>3
  <2>2. sys = [state |-> dead, ctx |-> entry, budget |-> zero, remaining |-> zero,
               period |-> zero, watchdog |-> zero, sends |-> zero, restarts |-> zero,
               capFails |-> zero, caps |-> Enrolled, cur |-> 0, count |-> 0,
               degraded |-> FALSE, age |-> 0, ticks |-> 0, mode |-> "boot"]
    BY DEF Init
  <2> HIDE DEF dead, entry, zero
  <2> QED BY <1>a, <2>1, <2>2 DEF Statics, Mode
<1>2. sys.mode = "boot" /\ \A t \in Slots : sys.state[t] = "Dead" /\ sys.period[t] = 0
  BY DEF Init
<1>3. sys.cur \in Slots
  BY <1>1 DEF Statics
<1>4. Good(sys)
  BY <1>1, <1>2 DEF Good, PeriodBelow, CurrentOnly, CrashStops, Funded, Within, Revoked,
                    TailDead, CurrentAlive, Running, Isolated, Up, is_selectable_by_scheduler
<1>5. Ordered(sys) /\ Busy(sys) /\ Fresh(sys)
  BY <1>2, <1>3 DEF Ordered, Busy, Fresh, Running, Up
<1> QED BY <1>4, <1>5 DEF IInv

\* Every step preserves the invariant, undoes no isolation and suspends no
\* DAL-A/B task but a running one that used up its budget.
LEMMA NextStep ==
    ASSUME IInv, [Next]_sys
    PROVE  IInv' /\ Steady(sys, sys')
<1>a. Steady(sys, sys)
  BY DEF Steady, OwnBudget
<1>1. CASE Tick
  BY <1>1, TickStep DEF Tick
<1>2. CASE Syscall
  BY <1>2, SyscallStep
<1>3. CASE Fault
  BY <1>3, FaultsStep
<1>4. CASE create_task \/ (\E id \in NativeIds : native_create_task(id)) \/ start_first_task
  BY <1>4, BootStep
<1>5. CASE UNCHANGED sys
  BY <1>a, <1>5 DEF IInv
<1> QED BY <1>1, <1>2, <1>3, <1>4, <1>5 DEF Next, parked

\* The inductive invariant holds throughout.
THEOREM Invariance == Spec => []IInv
<1>1. IInv /\ [Next]_sys => IInv'
  BY NextStep
<1> QED BY InitIInv, <1>1, PTL DEF Spec

\* The statics keep their types: a restart counter stops at the fault limit,
\* a watchdog or period counter below its limit, whatever the handlers do.
THEOREM TypesKept == Spec => []TypeOK
<1>1. IInv => TypeOK
  BY DEF IInv, Good, PeriodBelow, TypeOK
<1> QED BY Invariance, <1>1, PTL

\* At most one task is marked Running, and it is CURRENT_TASK.
THEOREM OneRunning == Spec => []RunningIsCurrent
<1>1. IInv => RunningIsCurrent
  BY DEF IInv, Good, CurrentOnly, RunningIsCurrent, Boot
<1> QED BY Invariance, <1>1, PTL

\* While the current task runs no candidate of the selection precedes it.
THEOREM HighestPriorityRuns == Spec => []PriorityRespected
<1>1. IInv => PriorityRespected
  BY DEF IInv, Ordered, PriorityRespected
<1> QED BY Invariance, <1>1, PTL

\* Two isolated tasks mean that the system has been shut down.
THEOREM CrashShutsDown == Spec => []TwoIsolatedShutDown
<1>1. IInv => TwoIsolatedShutDown
  BY DEF IInv, Good, CrashStops, TwoIsolatedShutDown
<1> QED BY Invariance, <1>1, PTL

\* A runnable task with a monitored budget has some of it left.
THEOREM RunnableFunded == Spec => []RunnableHasBudget
<1>1. IInv => RunnableHasBudget
  BY DEF IInv, Good, Funded, RunnableHasBudget
<1> QED BY Invariance, <1>1, PTL

\* No task ever has more budget than it was created with, and a DAL-A/B task
\* never has less.
THEOREM BudgetBounded == Spec => []BudgetWithinOriginal
<1>1. IInv => BudgetWithinOriginal
  BY DEF IInv, Good, Within, BudgetWithinOriginal
<1> QED BY Invariance, <1>1, PTL

\* The processor is not kept from a runnable task.
THEOREM ProcessorUsed == Spec => []ProcessorWellUsed
<1>1. IInv => ProcessorWellUsed
  BY DEF IInv, Busy, ProcessorWellUsed
<1> QED BY Invariance, <1>1, PTL

\* No step takes a task out of isolation or gives it a token back.
THEOREM IsolationStays == Spec => IsolationIsFinal
<1>1. IInv /\ IInv' /\ [Next]_sys =>
        [\A t \in Slots : Isolated(sys, t) => Isolated(sys', t) /\ t \notin sys'.caps]_sys
  BY NextStep DEF IInv, Good, Revoked, Steady
<1> QED BY Invariance, <1>1, PTL DEF Spec, IsolationIsFinal

\* No step suspends a DAL-A/B task, except the tick in which it was the running
\* task and used up its own budget.
THEOREM HighDalSpared == Spec => HighDalStoppedByOwnBudget
<1>1. IInv /\ [Next]_sys =>
        [\A t \in Slots :
            Dal[t] < 2 /\ sys.state[t] # "Suspended" /\ sys'.state[t] = "Suspended"
                => t = sys.cur /\ Running(sys, t) /\ sys'.remaining[t] = 0]_sys
  BY NextStep DEF Steady, OwnBudget
<1> QED BY Invariance, <1>1, PTL DEF Spec, HighDalStoppedByOwnBudget

=============================================================================
