--------------------------- MODULE PolicyPriority ---------------------------
(***************************************************************************)
(* SchedulePolicyPriority: a list of tasks that is sorted by priority.     *)
(* Each operation is one critical section of queueMutex.                   *)
(***************************************************************************)
EXTENDS Chains, FiniteSetsExt, Functions

CONSTANTS
    Tasks,
    Priority        \* [Tasks -> Nat], the highest number comes first

Null == "null"

VARIABLES
    head,
    next,           \* next pointer of each task
    wasEmpty,       \* result of the last call of queue
    got             \* result of the last call of nextTask

vars == << head, next, wasEmpty, got >>

Waiting == Chain(head, next, Null, Cardinality(Tasks))

\* The search from head on stops in front of the end and of a lower priority.
SearchPosition(t) ==
    LET q == Waiting
        stops == { k \in DOMAIN q : \/ next[q[k]] = Null
                                   \/ Priority[t] > Priority[next[q[k]]] }
    IN  q[Min(stops)]

BecomesHead(t) == IF head = Null THEN TRUE ELSE Priority[t] > Priority[head]

\* The task is not in the run queue (AtMostOneExecution of TaskActivation).
Queue(t) ==
    /\ t \notin Range(Waiting)
    /\ wasEmpty' = (head = Null)
    /\ \/ /\ BecomesHead(t)
          /\ next' = [next EXCEPT ![t] = head]
          /\ head' = t
       \/ /\ ~BecomesHead(t)
          /\ LET previous == SearchPosition(t) IN
             next' = [next EXCEPT ![t] = next[previous], ![previous] = t]
          /\ UNCHANGED head
    /\ UNCHANGED got

NextTask ==
    /\ got' = head
    /\ head' = IF head = Null THEN Null ELSE next[head]
    /\ UNCHANGED << next, wasEmpty >>

Init ==
    /\ head = Null
    /\ next = [t \in Tasks |-> Null]
    /\ wasEmpty = TRUE
    /\ got = Null

Next == NextTask \/ \E t \in Tasks : Queue(t)
=============================================================================
