------------------------ MODULE ContextSwitchProofs ------------------------
(***************************************************************************)
(* Proofs about ContextSwitch, for any set of tasks, any set of registers  *)
(* and any choice of those the handlers use.                               *)
(*                                                                         *)
(* The properties speak of user mode, but what a task finds there was put  *)
(* into the frame or into its stored context by earlier traps, so the      *)
(* inductive invariant says whose values those two hold.  The contexts of  *)
(* the tasks that do not run matter only: the current task's is overwritten*)
(* before it is loaded.                                                    *)
(***************************************************************************)
EXTENDS ContextSwitch, TLAPS

Types ==
    /\ cur \in Tasks
    /\ cpu \in [mode : {"user", "kernel", "parked"}, sp : Owner, pc : Instructions,
                caller : Owner, callee : Registers]
    /\ mscratch \in {"kernel_sp", "zero"}
    /\ mepc \in Instructions
    /\ frame \in [sp : Owner, mepc : Instructions, caller : Owner]
    /\ spill \in Registers
    /\ context \in [Tasks -> [ra : {"task_trampoline", "handler"}, sp : Owner,
                              callee : Registers, mepc : Instructions]]
    /\ due \in [Tasks -> Instructions]
    /\ cause \in [Tasks -> Cause]
    /\ had \in [Tasks -> [caller : Owner, callee : Registers]]

\* The unused callee-saved registers of regs are those t had in user mode.
Unused(regs, t) == \A r \in CalleeRegs \ Spilled : regs[r] = had[t].callee[r]

InUser ==
    /\ mscratch = "kernel_sp"
    /\ cpu.sp = cur /\ cpu.pc[1] = cur /\ Unused(cpu.callee, cur)
    /\ cause[cur] # "ecall" => cpu.pc = due[cur]

InKernel ==
    /\ frame.sp = cur /\ frame.mepc[1] = cur /\ mepc[1] = cur /\ Unused(cpu.callee, cur)
    /\ cause[cur] # "ecall" => frame.mepc = due[cur] /\ mepc = due[cur]

Stored(t) ==
    /\ context[t].sp = t /\ context[t].mepc[1] = t
    /\ t # cur => Unused(context[t].callee, t)
    /\ t # cur /\ cause[t] # "ecall" => context[t].mepc = due[t]

IInv ==
    /\ Types
    /\ User => InUser
    /\ Kernel => InKernel
    /\ \A t \in Tasks : Stored(t)

\* Adding 4 to a program counter leaves it in the same task's code.
LEMMA AfterTask ==
    ASSUME NEW pc \in Instructions
    PROVE  after(pc)[1] = pc[1]
BY DEF after

\* The entry context is well formed and the task's own.
LEMMA EntryType ==
    ASSUME NEW t \in Tasks
    PROVE  /\ EntryContext(t) \in [ra : {"task_trampoline", "handler"}, sp : Owner,
                                   callee : Registers, mepc : Instructions]
           /\ EntryContext(t).sp = t /\ EntryContext(t).mepc[1] = t
           /\ EntryContext(t).callee = [r \in CalleeRegs |-> t]
           /\ entry(t) \in Instructions /\ entry(t)[1] = t
<1>1. 0 \in 0 .. PROGRAM - 1
  BY ContextAssumption
<1> QED BY <1>1 DEF EntryContext, entry, Owner, Registers, Instructions

\* The boot state satisfies the invariant.
LEMMA InitIInv == Init => IInv
<1> SUFFICES ASSUME Init PROVE IInv OBVIOUS
<1>1. \A t \in Tasks : entry(t) \in Instructions /\ entry(t)[1] = t
  BY EntryType
<1>2. cpu.callee \in Registers /\ \A t \in Tasks : EntryContext(t).callee \in Registers
  BY EntryType DEF Init, FirstEntry, Registers, Owner
<1>3. had \in [Tasks -> [caller : Owner, callee : Registers]]
  BY <1>2 DEF Init, Owner
<1>4. Types
  BY <1>1, <1>3, EntryType DEF Init, Types, FirstEntry, Owner, Registers, Cause
<1>5. User => InUser
  BY <1>1 DEF Init, FirstEntry, InUser, Unused, User
<1>6. ~Kernel
  BY DEF Init, FirstEntry, Kernel
<1>7. \A t \in Tasks : Stored(t)
  <2> TAKE t \in Tasks
  <2>1. context[t] = EntryContext(t)
    BY DEF Init
  <2>2. t # cur => had[t].callee = EntryContext(t).callee
    BY DEF Init
  <2>3. context[t].mepc = due[t]
    BY <2>1 DEF Init, EntryContext
  <2> QED BY <2>1, <2>2, <2>3, EntryType DEF Stored, Unused
<1> QED BY <1>4, <1>5, <1>6, <1>7 DEF IInv

\* What leaves the kernel through .restore_regs belongs to the task t that the
\* frame f and the loaded registers belong to.
LEMMA RestoredType ==
    ASSUME Types, NEW t \in Tasks,
           NEW f \in [sp : Owner, mepc : Instructions, caller : Owner],
           NEW callee \in Registers, Unused(callee, t)
    PROVE  /\ Restored(f, callee) \in [mode : {"user", "kernel", "parked"}, sp : Owner,
                                       pc : Instructions, caller : Owner, callee : Registers]
           /\ Restored(f, callee).mode = "user" /\ Restored(f, callee).sp = f.sp
           /\ Restored(f, callee).pc = f.mepc /\ Unused(Restored(f, callee).callee, t)
BY DEF Types, Restored, Registers, Unused

\* A restart of the interrupted task keeps the contexts well formed.
LEMMA RestartType ==
    ASSUME IInv, NEW restart \in BOOLEAN
    PROVE  /\ restart_task(restart) \in [Tasks -> [ra : {"task_trampoline", "handler"}, sp : Owner,
                                                   callee : Registers, mepc : Instructions]]
           /\ \A t \in Tasks : t # cur => restart_task(restart)[t] = context[t]
           /\ \A t \in Tasks :
                 restart_task(restart)[t].sp = t /\ restart_task(restart)[t].mepc[1] = t
<1>1. CASE restart
  BY <1>1, EntryType DEF IInv, Types, Stored, restart_task
<1>2. CASE ~restart
  BY <1>2 DEF IInv, Types, Stored, restart_task
<1> QED BY <1>1, <1>2

\* User mode steps.
LEMMA ExecuteStep ==
    ASSUME IInv, NEW n \in 0 .. PROGRAM - 1, NEW written \in SUBSET CalleeRegs,
           Execute(n, written)
    PROVE  IInv'
<1> DEFINE target == <<cpu.pc[1], n>>
           callee == [r \in CalleeRegs |-> IF r \in written THEN cur ELSE cpu.callee[r]]
           mine == [caller |-> cpu.caller, callee |-> callee]
<1>1. target \in Instructions /\ target[1] = cur
  BY DEF IInv, Types, Execute, InUser, Instructions
<1>2. callee \in Registers
  BY DEF IInv, Types, Registers, Owner
<1>3. /\ cpu' = [cpu EXCEPT !.pc = target, !.callee = callee]
      /\ due' = [due EXCEPT ![cur] = target]
      /\ had' = [had EXCEPT ![cur] = mine]
      /\ UNCHANGED <<cur, mscratch, mepc, frame, spill, context, cause>>
      /\ User
  BY DEF Execute
<1>4. mine \in [caller : Owner, callee : Registers] /\ mine.callee = callee
  BY <1>2 DEF IInv, Types
<1> HIDE DEF target, callee, mine
<1>5. Types'
  BY <1>1, <1>2, <1>3, <1>4 DEF IInv, Types
<1>6. had'[cur] = mine /\ \A t \in Tasks : t # cur => had'[t] = had[t]
  BY <1>3 DEF IInv, Types
<1>7. InUser' /\ ~Kernel'
  BY <1>1, <1>3, <1>4, <1>6 DEF IInv, Types, InUser, User, Kernel, Unused
<1>8. \A t \in Tasks : Stored(t)'
  BY <1>3, <1>6 DEF IInv, Types, Stored, Unused
<1> QED BY <1>5, <1>7, <1>8 DEF IInv

\* Trap entry: the frame takes over what the task had.
LEMMA TrapStep ==
    ASSUME IInv, NEW c \in Cause, trap_entry(c)
    PROVE  IInv'
<1> DEFINE mine == [caller |-> cpu.caller, callee |-> cpu.callee]
           next == IF c = "ecall" THEN after(cpu.pc) ELSE cpu.pc
<1>1. InUser /\ Types /\ cur \in Tasks
  BY DEF IInv, Types, trap_entry
<1>2. next \in Instructions /\ next[1] = cur
  BY <1>1, AfterTask DEF Types, trap_entry, InUser
<1>3. FrameMepc(c) = next
  BY DEF FrameMepc
<1>4. cpu'.callee \in Registers /\ \A r \in CalleeRegs \ Spilled : cpu'.callee[r] = cpu.callee[r]
  BY <1>1 DEF Types, trap_entry, Registers, Owner
<1>5. cpu' \in [mode : {"user", "kernel", "parked"}, sp : Owner, pc : Instructions,
                caller : Owner, callee : Registers]
  BY <1>1, <1>4 DEF Types, trap_entry, Owner
<1>6. due' = [due EXCEPT ![cur] = next] /\ cause' = [cause EXCEPT ![cur] = c]
      /\ had' = [had EXCEPT ![cur] = mine] /\ context' = context /\ cur' = cur
  BY DEF trap_entry
<1>7. mine \in [caller : Owner, callee : Registers] /\ mine.callee = cpu.callee
  BY <1>1 DEF Types
<1> HIDE DEF mine, next
<1>8. /\ due' \in [Tasks -> Instructions] /\ due'[cur] = next
      /\ cause' \in [Tasks -> Cause] /\ cause'[cur] = c
      /\ had' \in [Tasks -> [caller : Owner, callee : Registers]] /\ had'[cur] = mine
      /\ \A t \in Tasks : t # cur => due'[t] = due[t] /\ cause'[t] = cause[t] /\ had'[t] = had[t]
  BY <1>1, <1>2, <1>6, <1>7 DEF Types
<1>9. Types'
  BY <1>1, <1>2, <1>3, <1>5, <1>8 DEF Types, trap_entry
<1>10. ~User' /\ InKernel'
  <2>1. \A r \in CalleeRegs \ Spilled : cpu'.callee[r] = had'[cur].callee[r]
    BY <1>4, <1>7, <1>8
  <2>2. ~User' /\ frame'.sp = cur' /\ frame'.mepc = next /\ mepc' = cpu.pc
    BY <1>1, <1>3 DEF trap_entry, User, InUser, Types
  <2>3. c # "ecall" => next = cpu.pc
    BY DEF next
  <2> QED BY <1>1, <1>2, <1>6, <1>8, <2>1, <2>2, <2>3 DEF InKernel, InUser, Unused
<1>11. \A t \in Tasks : Stored(t)'
  BY <1>6, <1>8 DEF IInv, Stored, Unused
<1> QED BY <1>9, <1>10, <1>11 DEF IInv

\* Return without a switch.
LEMMA ReturnStep ==
    ASSUME IInv, NEW restart \in BOOLEAN, trap_return(restart)
    PROVE  IInv'
<1>1. InKernel /\ Types
  BY DEF IInv, trap_return
<1>2. /\ cpu' \in [mode : {"user", "kernel", "parked"}, sp : Owner, pc : Instructions,
                   caller : Owner, callee : Registers]
      /\ cpu'.mode = "user" /\ cpu'.sp = frame.sp /\ cpu'.pc = frame.mepc
      /\ Unused(cpu'.callee, cur)
  BY <1>1, RestoredType DEF trap_return, Types, InKernel
<1>3. Types'
  BY <1>1, <1>2, RestartType DEF trap_return, Types
<1>4. InUser' /\ ~Kernel'
  BY <1>1, <1>2 DEF trap_return, InUser, InKernel, Kernel, Unused
<1>5. \A t \in Tasks : Stored(t)'
  BY RestartType DEF trap_return, Stored, IInv, Unused
<1> QED BY <1>3, <1>4, <1>5 DEF IInv

\* The switch: the old task's context becomes its own again, and the new one's
\* is what user mode finds.
LEMMA SwitchStep ==
    ASSUME IInv, NEW new \in Tasks, NEW restart \in BOOLEAN, switch_context(new, restart)
    PROVE  IInv'
<1> DEFINE Contexts == [ra : {"task_trampoline", "handler"}, sp : Owner,
                        callee : Registers, mepc : Instructions]
           mine == [ra |-> "handler", sp |-> frame.sp, callee |-> cpu.callee, mepc |-> mepc]
           saved == Saved(restart_task(restart))
           n == saved[new]
<1>1. InKernel /\ Types /\ cur \in Tasks
  BY DEF IInv, switch_context, Types
<1>2. mine \in Contexts /\ mine.sp = cur /\ mine.mepc[1] = cur /\ Unused(mine.callee, cur)
      /\ mine.mepc = mepc
  BY <1>1 DEF InKernel, Types
<1>3. saved \in [Tasks -> Contexts] /\ saved[cur] = mine
      /\ \A t \in Tasks : t # cur => saved[t] = context[t]
  BY <1>1, <1>2, RestartType DEF Saved
<1>4. context' = saved /\ frame' = LoadedFrame(n) /\ mepc' = n.mepc
      /\ cpu' = (IF n.ra = "task_trampoline" THEN task_trampoline(n) ELSE handler_resumed(n))
      /\ mscratch' = "kernel_sp" /\ cur' = new /\ UNCHANGED <<spill, due, cause, had>>
  BY DEF switch_context, mscratch_rearmed
<1> HIDE DEF mine, saved
<1>5. \A t \in Tasks : saved[t].sp = t /\ saved[t].mepc[1] = t /\ Unused(saved[t].callee, t)
  <2> TAKE t \in Tasks
  <2>1. CASE t = cur BY <1>2, <1>3, <2>1
  <2>2. CASE t # cur BY <1>3, <2>2 DEF IInv, Stored
  <2> QED BY <2>1, <2>2
<1>6. \A t \in Tasks : cause[t] # "ecall" => saved[t].mepc = due[t]
  BY <1>1, <1>2, <1>3 DEF IInv, Stored, InKernel
<1>7. n \in Contexts
  BY <1>3
<1>8. LoadedFrame(n) \in [sp : Owner, mepc : Instructions, caller : Owner]
      /\ LoadedFrame(n).sp = n.sp /\ LoadedFrame(n).mepc = n.mepc
  BY <1>1, <1>4, <1>7 DEF LoadedFrame, Types
<1>9. /\ cpu' \in [mode : {"user", "kernel", "parked"}, sp : Owner, pc : Instructions,
                   caller : Owner, callee : Registers]
      /\ cpu'.mode = "user" /\ cpu'.sp = n.sp /\ cpu'.pc = n.mepc /\ Unused(cpu'.callee, new)
  <2>1. CASE n.ra = "task_trampoline"
    BY <1>5, <1>4, <1>7, <1>8, <2>1 DEF task_trampoline
  <2>2. CASE n.ra # "task_trampoline"
    BY <1>1, <1>5, <1>4, <1>7, <1>8, <2>2, RestoredType DEF handler_resumed
  <2> QED BY <2>1, <2>2
<1>10. Types'
  BY <1>1, <1>3, <1>4, <1>7, <1>8, <1>9 DEF Types
<1>11. InUser' /\ ~Kernel'
  <2>1. n.sp = new /\ n.mepc[1] = new /\ (cause[new] # "ecall" => n.mepc = due[new])
    BY <1>5, <1>6
  <2> HIDE DEF n
  <2> QED BY <1>4, <1>9, <2>1 DEF InUser, Kernel, Unused
<1>12. \A t \in Tasks : Stored(t)'
  <2>1. context' = saved /\ UNCHANGED <<due, cause, had>>
    BY <1>4
  <2> QED BY <1>5, <1>6, <2>1 DEF Stored, Unused
<1> QED BY <1>10, <1>11, <1>12 DEF IInv

\* Parking changes no stored value.
LEMMA ParkStep == IInv /\ (nested_fault \/ stop) => IInv'
<1> SUFFICES ASSUME IInv, nested_fault \/ stop PROVE IInv' OBVIOUS
<1>1. /\ cpu' \in [mode : {"user", "kernel", "parked"}, sp : Owner, pc : Instructions,
                   caller : Owner, callee : Registers]
      /\ cpu'.mode = "parked" /\ mepc' \in Instructions
  BY DEF IInv, Types, nested_fault, stop, Owner
<1>2. UNCHANGED <<cur, mscratch, frame, spill, context, due, cause, had>>
  BY DEF nested_fault, stop
<1>3. Types'
  BY <1>1, <1>2 DEF IInv, Types
<1>4. \A t \in Tasks : Stored(t)'
  BY <1>2 DEF IInv, Stored, Unused
<1> QED BY <1>1, <1>3, <1>4 DEF IInv, User, Kernel

\* Every step of the trap and switch code preserves the invariant.
LEMMA NextStep == IInv /\ [Next]_vars => IInv'
<1> SUFFICES ASSUME IInv, [Next]_vars PROVE IInv' OBVIOUS
<1>1. CASE UNCHANGED vars
  BY <1>1 DEF vars, IInv, Types, User, Kernel, InUser, InKernel, Stored, Unused
<1>2. CASE Next
  BY <1>1, <1>2, ExecuteStep, TrapStep, ReturnStep, SwitchStep, ParkStep DEF Next, parked
<1> QED BY <1>1, <1>2

\* The invariant holds of every behaviour.
THEOREM ContextInvariance == Spec => []IInv
BY InitIInv, NextStep, PTL DEF Spec

\* The frame's user_sp and mepc slots always lead the current task back to its
\* own stack and its own code.
THEOREM OwnStack == Spec => []RunsOnOwnStack
<1>1. IInv => RunsOnOwnStack BY DEF IInv, InUser, RunsOnOwnStack
<1> QED BY <1>1, ContextInvariance, PTL

\* A task preempted by a tick or interrupted by a fault resumes at the very
\* instruction that was interrupted.
THEOREM Resumes == Spec => []ResumesAtInterruption
<1>1. IInv => ResumesAtInterruption BY DEF IInv, InUser, ResumesAtInterruption
<1> QED BY <1>1, ContextInvariance, PTL

\* switch_context carries the registers no handler uses across every switch: a
\* task finds in them what it had when it was last in user mode.
THEOREM UnusedSurvive == Spec => []UnusedRegistersSurvive
<1>1. IInv => UnusedRegistersSurvive BY DEF IInv, InUser, UnusedRegistersSurvive, Unused
<1> QED BY <1>1, ContextInvariance, PTL

\* A trap from user mode always finds mscratch armed, so it is never taken for
\* a nested one.
THEOREM UserTraps == Spec => UserTrapsAreHandled
<1>1. IInv /\ [Next]_vars => [User => cpu'.mode # "parked"]_vars
  <2> SUFFICES ASSUME IInv, Next, User PROVE cpu'.mode # "parked"
    OBVIOUS
  <2>1. ~Kernel /\ ~nested_fault /\ ~parked
    BY DEF IInv, InUser, User, Kernel, nested_fault, parked
  <2>2. ASSUME NEW n \in 0 .. PROGRAM - 1, NEW written \in SUBSET CalleeRegs, Execute(n, written)
        PROVE  cpu'.mode = "user"
    BY <2>2 DEF Execute, User, IInv, Types
  <2>3. ASSUME NEW c \in Cause, trap_entry(c) PROVE cpu'.mode = "kernel"
    BY <2>3 DEF trap_entry, IInv, Types
  <2> QED BY <2>1, <2>2, <2>3 DEF Next, stop, trap_return, switch_context
<1> QED BY <1>1, ContextInvariance, PTL DEF Spec, UserTrapsAreHandled

=============================================================================
