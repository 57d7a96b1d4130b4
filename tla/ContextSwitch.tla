--------------------------- MODULE ContextSwitch ---------------------------
(***************************************************************************)
(* Trap entry and exit (src/arch/trap.S), the context switch and the first *)
(* entry into a task (src/arch/context.S), and the parts of the scheduler  *)
(* that write a stored context.                                            *)
(*                                                                         *)
(* All traps use one kernel stack and, on it, one trap frame at a fixed    *)
(* address.  switch_context exchanges the callee-saved registers, the user *)
(* stack pointer and mepc; the kernel stack and the rest of the frame stay.*)
(*                                                                         *)
(* The value of a register is abstracted to the task it belongs to: the    *)
(* values a task computed, or the zeroes it starts with, are that task's;  *)
(* what the kernel's code left behind is "kernel".  A program counter is a *)
(* pair <<task, instruction>>.                                             *)
(***************************************************************************)
EXTENDS Naturals

CONSTANTS
    Tasks,
    PROGRAM,    \* instructions of a task's code
    CalleeRegs, \* callee-saved registers, s0-s11
    Spilled     \* those that the compiled handlers use, hence save on the kernel stack

ASSUME ContextAssumption ==
    /\ PROGRAM \in Nat \ {0}
    /\ Spilled \subseteq CalleeRegs
    /\ "kernel" \notin Tasks

VARIABLES
    cur,        \* CURRENT_TASK
    cpu,        \* privilege mode, stack pointer, program counter, registers
    mscratch,   \* "kernel_sp" outside the handler, "zero" inside it
    mepc,       \* the CSR
    frame,      \* the trap frame
    spill,      \* the callee-saved registers in the handlers' stack frames
    context,    \* TaskContext of every task
    due,        \* observer: the instruction each task has to execute next
    cause,      \* why each task last left user mode (mcause)
    had         \* observer: the registers each task had when it was last in user mode

vars == <<cur, cpu, mscratch, mepc, frame, spill, context, due, cause, had>>

Owner == Tasks \cup {"kernel"}
Instructions == Tasks \X (0 .. PROGRAM - 1)
Registers == [CalleeRegs -> Owner]
Cause == {"timer", "ecall", "fault"}

\* pc + 4.
after(pc) == <<pc[1], pc[2] + 1>>

\* The entry point, the first instruction of the task's code.
entry(t) == <<t, 0>>

\* What create_task, native_create_task and restart_task store.
EntryContext(t) ==
    [ra |-> "task_trampoline", sp |-> t, callee |-> [r \in CalleeRegs |-> t], mepc |-> entry(t)]

\* start_first_task zeroes ra, a0-a7 and t0-t6; s0-s11 still hold the boot's values.
FirstEntry(t) ==
    [mode |-> "user", sp |-> t, pc |-> entry(t), caller |-> t,
     callee |-> [r \in CalleeRegs |-> "kernel"]]

\* start_first_task enters the first task with mret.
Init ==
    /\ cur \in Tasks
    /\ cpu = FirstEntry(cur)
    /\ mscratch = "kernel_sp"
    /\ mepc = entry(cur)
    /\ frame = [sp |-> "kernel", mepc |-> entry(cur), caller |-> "kernel"]
    /\ spill = [r \in CalleeRegs |-> "kernel"]
    /\ context = [t \in Tasks |-> EntryContext(t)]
    /\ due = [t \in Tasks |-> entry(t)]
    /\ cause = [t \in Tasks |-> "timer"]
    /\ had = [t \in Tasks |-> [caller |-> t, callee |-> IF t = cur THEN cpu.callee
                                                        ELSE EntryContext(t).callee]]

User == cpu.mode = "user"
Kernel == cpu.mode = "kernel"

\* The current task executes an instruction that does not trap: it writes some
\* registers and goes on anywhere in its code.
Execute(n, written) ==
    /\ User
    /\ LET target == <<cpu.pc[1], n>>
           callee == [r \in CalleeRegs |-> IF r \in written THEN cur ELSE cpu.callee[r]]
       IN /\ cpu' = [cpu EXCEPT !.pc = target, !.callee = callee]
          /\ due' = [due EXCEPT ![cur] = target]
          /\ had' = [had EXCEPT ![cur] = [caller |-> cpu.caller, callee |-> callee]]
    /\ UNCHANGED <<cur, mscratch, mepc, frame, spill, context, cause>>

\* Variant: every trap advances.
FrameMepc_advanced(c) == after(cpu.pc)

\* .ecall_advance.
FrameMepc(c) == IF c = "ecall" THEN after(cpu.pc) ELSE cpu.pc

\* Trap entry: sp is swapped with mscratch and the caller-saved registers,
\* mcause and mepc go to the frame; after an ecall the frame's mepc is the next
\* instruction, the CSR is not.  Then the Rust handlers run and use the Spilled
\* registers.  The code of a task does not end in an ecall.
trap_entry(c) ==
    /\ User /\ mscratch = "kernel_sp"
    /\ c = "ecall" => after(cpu.pc) \in Instructions
    /\ mepc' = cpu.pc
    /\ frame' = [sp |-> cpu.sp, caller |-> cpu.caller,
                 mepc |-> FrameMepc(c)]
    /\ mscratch' = "zero"
    /\ spill' = cpu.callee
    /\ cpu' = [cpu EXCEPT !.mode = "kernel", !.sp = "kernel", !.caller = "kernel",
                          !.callee = [r \in CalleeRegs |-> IF r \in Spilled THEN "kernel"
                                                           ELSE @[r]]]
    /\ due' = [due EXCEPT ![cur] = IF c = "ecall" THEN after(cpu.pc) ELSE cpu.pc]
    /\ cause' = [cause EXCEPT ![cur] = c]
    /\ had' = [had EXCEPT ![cur] = [caller |-> cpu.caller, callee |-> cpu.callee]]
    /\ UNCHANGED <<cur, context>>

\* A trap that finds mscratch = 0 parks: sp is lost, nothing is saved, and
\* neither sp nor mscratch is read again.  In the handler only exceptions can
\* trap, MIE is 0.
nested_fault ==
    /\ mscratch = "zero"
    /\ cpu.mode # "parked"
    /\ mepc' = cpu.pc
    /\ cpu' = [cpu EXCEPT !.mode = "parked", !.sp = "kernel"]
    /\ UNCHANGED <<cur, mscratch, frame, spill, context, due, cause, had>>

\* The handlers end in shutdown_system or halt_system.
stop ==
    /\ Kernel
    /\ cpu' = [cpu EXCEPT !.mode = "parked"]
    /\ UNCHANGED <<cur, mscratch, mepc, frame, spill, context, due, cause, had>>

\* The registers of user mode after .restore_regs: the handlers restored the
\* callee-saved registers they used from their stack frames, the rest of the
\* registers comes from the trap frame.  The result of a system call, written
\* to the frame's a0, is a value of the task that made it, like the frame's
\* other registers.
Restored(f, callee) ==
    [mode |-> "user", sp |-> f.sp, pc |-> f.mepc, caller |-> f.caller,
     callee |-> [r \in CalleeRegs |-> IF r \in Spilled THEN spill[r] ELSE callee[r]]]

restart_task(restart) ==
    IF restart THEN [context EXCEPT ![cur] = EntryContext(cur)] ELSE context

\* The handlers return without a switch.  A fault or an exhausted budget may
\* have restarted the interrupted task, no system call does.
trap_return(restart) ==
    /\ Kernel
    /\ restart => cause[cur] # "ecall"
    /\ context' = restart_task(restart)
    /\ cpu' = Restored(frame, cpu.callee)
    /\ mepc' = frame.mepc
    /\ mscratch' = "kernel_sp"
    /\ UNCHANGED <<cur, frame, spill, due, cause, had>>

Saved(ctx) ==
    [ctx EXCEPT ![cur] = [ra |-> "handler", sp |-> frame.sp, callee |-> cpu.callee, mepc |-> mepc]]

\* Variant: the mepc slot of the frame is left alone.
LoadedFrame_stale_mepc(n) == [frame EXCEPT !.sp = n.sp]

\* What switch_context writes into the frame.
LoadedFrame(n) == [frame EXCEPT !.sp = n.sp, !.mepc = n.mepc]

\* Variant: the callee-saved registers are not loaded.
handler_resumed_unloaded(n) == Restored(LoadedFrame(n), cpu.callee)

\* A task that was switched out returns into the handlers, with the kernel
\* stack of the trap in progress, and leaves the kernel like trap_return.  This
\* assumes that the saved ra unwinds that stack, whichever of tick, yield and
\* exit the task was switched out in and is resumed by: the compiled call chains
\* to switch_context have frames of one shape, and Spilled is the same for all.
handler_resumed(n) == Restored(LoadedFrame(n), n.callee)

\* A task that never ran leaves through the trampoline, which zeroes the
\* caller-saved registers.
task_trampoline(n) ==
    [mode |-> "user", sp |-> LoadedFrame(n).sp, pc |-> n.mepc, caller |-> n.sp,
     callee |-> n.callee]

\* Variant: the trampoline does not set mscratch.
mscratch_unset(n) == IF n.ra = "task_trampoline" THEN "zero" ELSE "kernel_sp"

\* .restore_regs and the trampoline both end with mscratch = kernel_sp.
mscratch_rearmed(n) == "kernel_sp"

\* do_priority_select_and_switch: the old context is saved, over what a restart
\* stored there, then the new one is loaded.  A fault returns without a switch;
\* only a tick can restart the task it switches from, or choose the interrupted
\* task itself (one that was not Running).
switch_context(new, restart) ==
    /\ Kernel
    /\ cause[cur] # "fault"
    /\ new = cur \/ restart => cause[cur] = "timer"
    /\ LET saved == Saved(restart_task(restart))
           n == saved[new]
       IN /\ context' = saved
          /\ frame' = LoadedFrame(n)
          /\ mepc' = n.mepc
          /\ cpu' = IF n.ra = "task_trampoline" THEN task_trampoline(n) ELSE handler_resumed(n)
          /\ mscratch' = mscratch_rearmed(n)
    /\ cur' = new
    /\ UNCHANGED <<spill, due, cause, had>>

parked ==
    /\ cpu.mode = "parked"
    /\ UNCHANGED vars

Next ==
    \/ \E n \in 0 .. PROGRAM - 1, written \in SUBSET CalleeRegs : Execute(n, written)
    \/ \E c \in Cause : trap_entry(c)
    \/ nested_fault
    \/ stop
    \/ \E restart \in BOOLEAN : trap_return(restart)
    \/ \E new \in Tasks, restart \in BOOLEAN : switch_context(new, restart)
    \/ parked

Spec == Init /\ [][Next]_vars

(***************************************************************************)
(* Properties.                                                             *)
(***************************************************************************)
\* In user mode the processor executes the current task's code on the current
\* task's stack, whichever tasks were fresh, switched out or restarted in
\* between: the frame's user_sp and mepc slots follow every switch.
RunsOnOwnStack ==
    User => cpu.sp = cur /\ cpu.pc[1] = cur

\* A task that lost the processor to a tick or a fault goes on with the very
\* instruction that was interrupted.
ResumesAtInterruption ==
    User /\ cause[cur] # "ecall" => cpu.pc = due[cur]

\* The callee-saved registers that no handler uses survive every trap and every
\* switch: in user mode a task finds in them what it had when it was last there,
\* its own values or, in the first task, what the boot left in them.
\* switch_context saves and loads them although they are not in the frame.
UnusedRegistersSurvive ==
    User => \A r \in CalleeRegs \ Spilled : cpu.callee[r] = had[cur].callee[r]

\* A trap from user mode never finds mscratch = 0: every way out of the kernel
\* (return, switch to a fresh or to an old task) re-arms it, so only a trap
\* inside the handler is taken for a nested one.
UserTrapsAreHandled ==
    [][User => cpu'.mode # "parked"]_vars

(***************************************************************************)
(* What comments of the code say of it and the code does not do.           *)
(***************************************************************************)
\* trap.S, .restore_regs: the resumed task finds the registers it had.
ResumesWithOwnRegisters ==
    User => cpu.caller = had[cur].caller /\ cpu.callee = had[cur].callee

\* trap.S, .ecall_advance: a task resumes after its ecall.
EcallNotRepeated ==
    User => cpu.pc = due[cur]

=============================================================================
