------------------------------- MODULE Chains -------------------------------
(* Singly linked lists, as the run queues and the clock queue use them.    *)
EXTENDS Naturals, Sequences, FiniteSets

\* The elements from first on along next, which ends with null.  At most n + 1
\* elements are collected, so that a cycle shows as a list that is too long.
Chain(first, next, null, n) ==
    LET at[k \in 1..(n + 1)] ==
            IF k = 1 THEN first
            ELSE LET before == at[k - 1]
                 IN  IF before = null THEN null ELSE next[before]
    IN  SubSeq(at, 1, Cardinality({ k \in 1..(n + 1) : at[k] # null }))
=============================================================================
