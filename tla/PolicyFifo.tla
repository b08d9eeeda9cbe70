----------------------------- MODULE PolicyFifo -----------------------------
(***************************************************************************)
(* SchedulePolicyFifo: a list of tasks from head to tail, linked by the    *)
(* next pointers in the management data of the tasks.  Each operation is   *)
(* one critical section of queueMutex.                                     *)
(***************************************************************************)
EXTENDS Chains, FiniteSets, Functions

CONSTANTS Tasks

Null == "null"

VARIABLES
    head, tail,
    next,           \* next pointer of each task
    wasEmpty,       \* result of the last call of queue
    got             \* result of the last call of nextTask

vars == << head, tail, next, wasEmpty, got >>

Waiting == Chain(head, next, Null, Cardinality(Tasks))

\* The task is not in the run queue (AtMostOneExecution of TaskActivation).
Queue(t) ==
    /\ t \notin Range(Waiting)
    /\ wasEmpty' = (head = Null)
    /\ head' = IF head = Null THEN t ELSE head
    /\ next' = IF head = Null THEN [next EXCEPT ![t] = Null]
                              ELSE [next EXCEPT ![t] = Null, ![tail] = t]
    /\ tail' = t
    /\ UNCHANGED got

NextTask ==
    /\ got' = head
    /\ head' = IF head = Null THEN Null ELSE next[head]
    /\ tail' = IF head # Null /\ next[head] = Null THEN Null ELSE tail
    /\ UNCHANGED << next, wasEmpty >>

Init ==
    /\ head = Null /\ tail = Null
    /\ next = [t \in Tasks |-> Null]
    /\ wasEmpty = TRUE
    /\ got = Null

Next == NextTask \/ \E t \in Tasks : Queue(t)
=============================================================================
