--------------------------- MODULE MCSpscChannel ---------------------------
(* Three tasks, so that the boot has a choice of owners and a task is left   *)
(* without the channel.                                                      *)
EXTENDS SpscChannel, TLC

CONSTANTS t1, t2, t3, m1, m2

MC_Tasks == {t1, t2, t3}
MC_Messages == {m1, m2}

=============================================================================
