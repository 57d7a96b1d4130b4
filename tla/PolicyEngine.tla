---------------------------- MODULE PolicyEngine ----------------------------
(***************************************************************************)
(* The policy engine on its own: the restart counters and apply_policy,    *)
(* called with any sequence of events for any task                         *)
(* (src/kernel/policy/mod.rs).  One counter per task is shared by all      *)
(* events and nothing resets it.  answered remembers the last answer to    *)
(* each event, for the properties.                                         *)
(***************************************************************************)
EXTENDS Policy

CONSTANT Tasks

VARIABLES dal, restarts, answered

vars == <<dal, restarts, answered>>

None == "None"

\* A task's DAL is whatever its configuration says, and constant.
Init ==
    /\ dal \in [Tasks -> DAL]
    /\ restarts = [t \in Tasks |-> 0]
    /\ answered = [t \in Tasks |-> [e \in PolicyEvent |-> None]]

\* u8::saturating_add
saturating_add(n) == IF n < 255 THEN n + 1 ELSE n

\* Variant: an event that is not answered by a restart clears the counter.
apply_policy_forgetful(t, event) ==
    LET action == decide_action(event, restarts[t], dal[t])
    IN /\ restarts' = [restarts EXCEPT ![t] = IF action = "Restart" THEN @ + 1 ELSE 0]
       /\ answered' = [answered EXCEPT ![t][event] = action]
       /\ UNCHANGED dal

apply_policy(t, event) ==
    LET action == decide_action(event, restarts[t], dal[t])
    IN /\ restarts' = IF action = "Restart"
                      THEN [restarts EXCEPT ![t] = saturating_add(@)] ELSE restarts
       /\ answered' = [answered EXCEPT ![t][event] = action]
       /\ UNCHANGED dal

Next == \E t \in Tasks, event \in PolicyEvent : apply_policy(t, event)

Spec == Init /\ [][Next]_vars

\* Each event is answered by a failure mode, and a counter stops at the limit
\* for faults: it cannot reach the saturation of its u8.
TypeOK ==
    /\ dal \in [Tasks -> DAL]
    /\ restarts \in [Tasks -> 0 .. MAX_RESTART_FAULT]
    /\ answered \in [Tasks -> [PolicyEvent -> FailureMode \cup {None}]]

Severity(mode) ==
    CASE mode = "Alert" -> 0 [] mode \in {"Restart", "Failover"} -> 1
      [] mode = "Degrade" -> 2 [] mode = "Isolate" -> 3 [] mode = "Shutdown" -> 4

\* Escalation never goes back: whatever other events come between, the same
\* event of the same task is never answered more mildly than before.
EscalationIsMonotone ==
    [][\A t \in Tasks, e \in PolicyEvent :
          answered[t][e] # None => Severity(answered'[t][e]) >= Severity(answered[t][e])]_vars

=============================================================================
