--------------------------- MODULE MCPolicyEngine ---------------------------
(* One task, of each DAL in turn: the counters of different tasks do not   *)
(* meet in apply_policy.                                                   *)
EXTENDS PolicyEngine

CONSTANT t1

=============================================================================
