------------------------- MODULE MCSchedulePolicies -------------------------
(* Four tasks, two of them with the same priority, one of them with a      *)
(* priority above the highest of three slots.                              *)
EXTENDS SchedulePolicies, TLC

CONSTANTS t1, t2, t3, t4

MCTasks == {t1, t2, t3, t4}
MCPriority == t1 :> 0 @@ t2 :> 1 @@ t3 :> 1 @@ t4 :> 5
=============================================================================
