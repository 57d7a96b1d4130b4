# Sipahi: TLA+ models and proofs

Sipahi is a single-hart RISC-V microkernel in Rust (`src/`), with host tools
that validate and pack its tasks (`tools/`). These modules model the parts of
the kernel that change state together (the scheduler, the failure policy, the
trap and context-switch code, the IPC channels), check them with TLC on small
instances, and prove their main invariants with TLAPS for every value of the
constants. Paths below are relative to the repository's root.

## 1. The system

| Part | State | Operations | Interacts with |
|---|---|---|---|
| Scheduler, `src/kernel/scheduler/mod.rs` | task table (state, context, budget, period, watchdog and send counters), `CURRENT_TASK`, `DEGRADED`, `DEGRADE_TICK` | `create_task`, `native_create_task`, `start_first_task`, `schedule_timer_tick`, `schedule_yield`, `apply_action`, `isolate_task`, `watchdog_kick` | policy, trap handler, capability cache, PMP, context switch |
| Failure policy, `src/kernel/policy/mod.rs` | one restart counter per task | `decide_action`, `apply_policy` | called by every handler that meets a failure |
| Trap handling, `src/arch/trap.S`, `trap.rs` | trap frame on the one kernel stack, `mscratch`, `mepc`, `TICK_COUNT` | entry, nested fault, return; dispatch of interrupts, faults and system calls | scheduler, system calls |
| Context switch, `src/arch/context.S` | `TaskContext` of every task | `switch_context`, `task_trampoline` | trap frame |
| System calls, `src/kernel/syscall/` | denial counters | `yield`, `exit`, `cap_invoke`, `ipc_send`, `ipc_recv`, `task_info` | scheduler, capabilities, IPC |
| IPC, `src/ipc/mod.rs` | rings, owners, seal | `assign_channel`, `seal_channels`, `send`, `recv` | system calls, boot |
| Blackbox, `src/ipc/blackbox.rs` | ring of records, tick, epoch | `init`, `advance_tick`, `log`, `read` | every part logs; the tick ages degradation and tokens |
| Capabilities, `src/kernel/capability/` | key, nonces, four-slot cache, static table | `provision_key`, `validate_full`, `validate_cached`, `invalidate_task_capabilities`, `local_cap_check` | system calls, isolation |
| Memory protection, `src/arch/pmp.rs`, `src/kernel/memory`, `src/kernel/pmp` | PMP registers and their shadow | `init_pmp`, `write_per_task_napot`, `reload_pmp_profile`, `verify_pmp_integrity` | switch, tick |
| Loader, boot, HAL | task memory, boot order | `load_native_task`, `production_post`, `secure_boot_check` | boot only |
| Host tools, `tools/` | none shared | manifest validation, stack analysis, image, certificate, binary and source checks | build |

What makes it hard. The kernel runs with interrupts off, so a handler is
atomic; what interleaves is the *order* in which ticks, faults, deadline misses
and system calls reach it, and one tick runs several phases that each change
what the next one reads. A stopped task may still be the one executing. All
tasks share a trap frame and a kernel stack. `send` and `recv` are written for
a producer and a consumer that interleave freely.

## 2. Modules

| Module | Models | Correspondence |
|---|---|---|
| `Policy` | the decision table | `decide_action`, a pure operator |
| `PolicyEngine` | `apply_policy` alone, with any sequence of events | variable `restarts` is `RESTART_COUNTS`; `answered` is an observer |
| `Scheduler` | the scheduler and its handlers | one record `sys` holds the kernel's statics; each Rust function that changes them is an operator from record to record with the function's name, and a handler composes them in the order of the code |
| `SchedulerLoops` | the two loops whose result depends on slot order | folds over the slots, compared with the closed forms in `Scheduler` |
| `SchedulerBudget` | `Scheduler` plus two counters: the ticks a task ran in its period, and the ticks since a budget was last halved | `ran` and `quiet` observe, they never guard |
| `ContextSwitch` | `trap.S`, `context.S`, and what writes a stored context | a register's value is abstracted to the task it belongs to, a program counter to a task and an instruction number |
| `FifoChannel` | what a channel promises: a bounded queue | no code; the abstract specification |
| `SpscChannel` | one ring of `src/ipc/mod.rs`, its owners and seal | `send` and `recv` are three steps each, cut at the accesses to shared memory |
| `SchedulerLemmas`, `SchedulerProofs`, `SchedulerClockProofs`, `ContextSwitchProofs`, `SpscChannelProofs` | the theorems | |
| `MC...` | the instances for TLC | |

Definitions whose comment begins with *Variant* are altered copies of the
definition that follows. They are used to confirm that each property fails when
the code has a plausible defect; no specification uses them.

### Scheduler

Actions: `create_task`, `native_create_task`, `start_first_task` (boot);
`timer_interrupt(overrun, pmp_ok)`, which is the whole path of a tick: grace
period and deadline check (`trap.rs`), `advance_tick`, PMP check, `PeriodPhase`,
`try_recover_from_degrade`, `WatchdogPhase`, `BudgetPhase`, selection and switch;
`handle_task_fault`, `stack_overflow`, `fatal_trap`; `sys_yield`, `sys_exit`,
`sys_cap_invoke_granted`, `sys_cap_invoke_denied`, `sys_ipc_send`; `parked` after
`shutdown_system` or `halt_system`. The handlers run on behalf of the current
task whatever its state is, because the code returns to it.

Abstractions: `DEGRADE_TICK` is kept as an age (the code only subtracts it from
the current tick) that stops at the cooldown, beyond which the code does not
tell ages apart; the stored context is `"entry"` or `"saved"`; a token is a
member of `caps`; the outcome of the PMP check and a deadline overrun are inputs
of the tick; `sys_ipc_send` is the admission of a send, the ring is in
`SpscChannel`. The lockstep of the policy evaluates a pure function twice, so
its mismatch branch has no counterpart.

### ContextSwitch

`Execute` is any instruction of a task: it writes registers and jumps within the
task's code. `trap_entry(c)` swaps `sp` with `mscratch` and fills the frame;
`trap_return` and `switch_context(new, restart)` leave the kernel, the latter
through `.restore_regs` for a task that was switched out and through
`task_trampoline` for one that never ran; `restart` says whether a policy action
rewrote the stored context of the interrupted task in the same handler. As in
`trap.rs`, a fault returns without a switch, and no system call restarts its
caller. The first task enters user mode from `start_first_task`, which zeroes
the caller-saved registers only: its `s0`-`s11` hold what the boot left there.
`due` and `had` are observers, the instruction a task has to execute next and
the registers it had when it was last in user mode; `cause` is `mcause`. The
value `switch_context` puts into `mstatus` is always user mode with interrupts
on return, and is left out.

Two things depend on the compiled code. `Spilled` is the set of callee-saved
registers the handlers save on the kernel stack; which ones those are is the
compiler's choice, so it is a parameter. And `handler_resumed` assumes that a
task switched out in one handler can return through the stack frames of
another: the saved `ra` unwinds the kernel stack of the trap in progress, which
works only if the call chains of tick, yield and exit down to `switch_context`
have frames of one shape. `do_priority_select_and_switch`, which makes the call,
is `#[inline]` (`src/kernel/scheduler/mod.rs:511`), so nothing in the source
enforces this. What happens when it does not hold is not modelled.

### SpscChannel and FifoChannel

The interleaving is finer than the kernel's, which runs `send` and `recv` with
interrupts off: the module shows what the ring guarantees by itself, as its
SAFETY comments claim. `sealed`, `producer` and `consumer` come from
`assign_channel` and `seal_channels`; `can_send` and `can_recv` compare the
owner and guard the first step. That step also requires `sealed`, which the two
functions do not test: no system call is made before the boot has sealed the
channels. `Contents` maps the ring to the queue of `FifoChannel`; publishing `head`
is the abstract send, advancing `tail` the abstract receive. Loading both
indices is one step, since the index a task loads first is one that only it
writes.

## 3. What TLC checks

| Run | Instance | Properties | Result |
|---|---|---|---|
| `scheduler` | 3 tasks: DAL-B, DAL-C, native DAL-D tied with the second; 194,696 states | `TypeOK`, `RunningIsCurrent`, `PriorityRespected`, `TwoIsolatedShutDown`, `RunnableHasBudget`, `BudgetWithinOriginal`, `ProcessorWellUsed`, `RecoveryIsPrompt`, `IsolationIsFinal`, `HighDalStoppedByOwnBudget`, `UnhealthyStaysDegraded`, `TasksCannotAdvanceTime`, `SelectLoopFindsMinimum`, `WatchdogLoopMatches` | hold |
| `scheduler_budget` | 2 tasks, budget not a multiple of a tick; 221,457 states | `RunsWithinBudget`, `CooldownRespected`, `SuspendedHighDalReturns`, `IsolatedLeavesProcessor` | hold |
| `policy_engine` | one task of each DAL, all events | `TypeOK`, `EscalationIsMonotone` | hold |
| `context_switch` | 3 symmetric tasks, 2 instructions, one spilled and one other register; 125,661 states | `RunsOnOwnStack`, `ResumesAtInterruption`, `UnusedRegistersSurvive`, `UserTrapsAreHandled` | hold |
| `spsc_channel` | 3 tasks, 2 messages, 4 slots; 57,446 states | `TypeOK`, `NoSlotRace`, `RefinesFifo` | hold |
| `not_...` | see section 5 | one each | violated |

Bounds. Three tasks are the fewest with a tie, a DAL-A/B and a DAL-C/D task and
a third to run after an isolation (two isolations stop the system, so a fourth
task adds no new fate). Periods of one and two ticks, a watchdog limit of two
and a cooldown of two ticks make every pair of phases fall into one tick and a
degradation outlast a period. The grace period is 0 in `scheduler` and 1 in
`scheduler_budget`, the denial limit 1 and 2, so both sides of each comparison
occur. `quiet` stops at the cooldown, the only value it is compared with. `RAN_CAP` is one more than the two ticks the budget pays for, enough to
see it exceeded. Four slots let the ring wrap while it holds three messages.
Two instructions tell an `ecall` and its successor apart, and, since a task may
jump, a resumed task from one that was started over.
Task names are a symmetry set in `context_switch`: no action tells tasks apart
there. Deadlock is checked except in `spsc_channel`, where a channel that was
sealed without owners allows nothing, as in the code.

Fairness. `WF(Tick)`: the handler re-arms the timer in every tick
(`schedule_next_tick`), and user code runs with interrupts enabled, so the next
tick comes while the system is up. The boot goes on to its end. Nothing is
assumed of tasks: they may never yield, and need not make any system call.

## 4. What is proved

All theorems hold for any number of tasks and any value of the limits that
satisfies the named assumptions (`LimitsAssumption` and `TasksAssumption` in
`Scheduler`, `ContextAssumption`, `ChannelAssumption`): positive limits, task
configurations of the types of the Rust fields, a ring of 1 to 65535 slots.

**Scheduler** (`SchedulerProofs`): `TypesKept`, `OneRunning`,
`HighestPriorityRuns`, `CrashShutsDown`, `RunnableFunded`, `BudgetBounded`,
`ProcessorUsed`, `IsolationStays`, `HighDalSpared`. None of the invariants is
inductive alone: that a runnable task has budget left needs that the charged
task is the only running one, which needs that slots beyond `TASK_COUNT` are
dead, and so on. `IInv` joins them with three facts about unused slots, the
current slot and the boot. A tick breaks the order of priorities in the middle
and restores it with the switch, so the invariant is split: `Good` is preserved
by every phase (a lemma each, in `SchedulerLemmas`), `Ordered` and `Busy` are
re-established by `do_priority_select_and_switch` (`SwitchGood`) or kept by a
handler that makes no task runnable (`PolicyKeepsOrder`). The existence of a best
candidate (`BestTask`) is well-foundedness of the order on `Nat`.

**Time in the scheduler** (`SchedulerClockProofs`): `TimeIsTheTimers`,
`NoUnhealthyRecovery`, `PromptRecovery`. The first two follow from `IInv` and
from what each phase carries over of the clocks and the isolated tasks. The
third needs an invariant of its own, since a tick breaks it in the middle:
`advance_tick` may bring the age to the cooldown, the recovery that comes next
in the same tick ends the degradation or finds a DAL-A/B task isolated, and the
phases after it only start degradations of age 0. Together they make the 32-bit
wrap of the tick harmless to the cooldown: while the comparison can end a
degradation, the age is below the cooldown or has just reached it.

**Context switch** (`ContextSwitchProofs`): `OwnStack`, `Resumes`,
`UnusedSurvive`, `UserTraps`. The invariant says whose stack and code the
processor is on in user mode and whose the frame names in the kernel, that each
stored context is its task's own with the program counter it was interrupted at,
and that the registers no handler uses are at every moment where the next step
takes them from: in the processor for the current task, in the stored context
for the others.

**IPC** (`SpscChannelProofs`): `ChannelTypes`, `NoRace`, and
`RingImplementsFifo`, that the ring implements `FifoChannel` with one message
less than it has slots. The invariant says that a task in the middle of `send`
is the sealed producer, holds `head` and has room before `tail`; that one in the
middle of `recv` is the sealed consumer and holds `tail`; and what their locals
contain. The rest is the arithmetic of indices modulo the number of slots
(`RingArithmetic`, `RingPush`, `RingPop`, `RingWrite`).

Only model-checked: the liveness properties (the prover has no rule for
fairness), `RunsWithinBudget`, `CooldownRespected`, `EscalationIsMonotone`, and
the two comparisons of loops with closed forms, which are folds (what a recursive definition computes
for every input needs an induction the installed provers cannot instantiate).

## 5. Where code and text disagree

Each of these runs states what a comment or document of the repository says and
ends in a counterexample; `PROJECT.json` quotes the lines.

- `RestartStartsOver`: a restarted task is the interrupted one, and the switch
  at the end of the same tick saves its live registers over the entry point.
- `RecoveryRestoresBudget`: a DAL-C/D task that its period woke while the system
  was degraded is skipped by recovery and keeps the halved budget.
- `ZeroBudgetNeverRuns`: repeated halving reaches 0, which means unlimited.
- `IsolatedTaskStops`: a task that exits keeps the processor while nobody else
  can run, here because a degradation suspended the other task; one isolated by
  a fault or a denial keeps it until the next tick.
- `DegradationEnds`: a healthy DAL-B task that kicks its watchdog in time but
  exhausts its budget once per period, with a period shorter than the cooldown,
  restarts the cooldown forever.
- `ResumesWithOwnRegisters`: `switch_context` exchanges only the `user_sp` and
  `mepc` slots of the one trap frame, so a resumed task finds the caller-saved
  registers of the task interrupted last, not the ones it had.
- `EcallNotRepeated`: `switch_context` saves the `mepc` CSR, which still points
  at the `ecall`; a task that gave up the processor in `yield` executes it again.

One more disagreement shows in the text of `Policy` alone and has no run: the
comments at `src/kernel/policy/mod.rs:12` and `:70` say that a watchdog timeout
is answered with `FAILOVER` once and with `DEGRADE` from then on. `apply_policy`
counts `Restart` answers only, so `Failover` does not advance the counter: a
task whose only failures are watchdog timeouts is answered `Failover` every
time. `apply_action` carries out both as a degradation, so the scheduler behaves
the same; the answer and the blackbox record differ.

## 6. What is not modelled, and the plan

Pure I/O (UART, CSR access), formatting, cryptography, the contents of messages
and the decoding of instructions are left out. Planned, in this order:

1. `Capability`: cache, nonces and expiry, with the blackbox tick; that a
   revoked or expired token is never accepted, and what the cache lets pass.
2. `Pmp`: dynamic registers against their shadow under native and legacy
   switches; that the integrity check never fails by the kernel's own doing, and
   that no mixture of two profiles is ever enabled.
3. `Blackbox`: the ring of records against a bounded log; the tick and epoch.
4. `Loader` and `Boot`: order of checks, error paths, sealing before the first
   dispatch.
5. A composition of the channels with the system calls (admission, ownership,
   full and empty rings).
6. The host tools as pure algorithms: the manifest's layout rules, the
   worst-case stack depth over the call graph, the IOPMP check.
7. Proofs of `CooldownRespected` and of the invariants of 1 to 3.
