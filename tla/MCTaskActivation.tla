-------------------------- MODULE MCTaskActivation --------------------------
(* Small systems of tasks for the model checker.                           *)
EXTENDS TaskActivation, TLC

CONSTANTS t1, t2, t3, i1, i2, i3, s1, s2, e1, e2, e3, starter

\* One scheduler with all tasks and both executors.
OneHome == (e1 :> s1) @@ (e2 :> s1)
OneOrder == << s1 >>

\* A task with two inputs.
PairInputs == t1 :> << i1, i2 >>
PairList == s1 :> << t1 >>
NoGroupOfOne == t1 :> << >>
\* Thresholds.
TwoOne == (i1 :> 2) @@ (i2 :> 1)
OneOptional == (i1 :> 1) @@ (i2 :> 0)

\* A group of two tasks, and a third task on a scheduler of its own.
SingleInputs == (t1 :> << i1 >>) @@ (t2 :> << i2 >>) @@ (t3 :> << i3 >>)
SingleOnes == (i1 :> 1) @@ (i2 :> 1) @@ (i3 :> 1)
OneGroup == (t1 :> << t1, t2 >>) @@ (t2 :> << t1, t2 >>) @@ (t3 :> << >>)
TwoLists == (s1 :> << t2, t1 >>) @@ (s2 :> << t3 >>)
TwoHomes == (e1 :> s1) @@ (e2 :> s1) @@ (e3 :> s2)
TwoOrder == << s1, s2 >>

\* The notifiers are interchangeable; used without liveness only.
Symmetry == Permutations(Notifiers)
=============================================================================
