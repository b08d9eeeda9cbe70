----------------------------- MODULE PolicyLifo -----------------------------
(***************************************************************************)
(* SchedulePolicyLifo: a list of tasks, the latest first.  Each operation  *)
(* is one critical section of queueMutex.  The next pointer of a task is   *)
(* only written when the run queue is not empty.                           *)
(***************************************************************************)
EXTENDS Sequences, Functions

CONSTANTS Tasks

Null == "null"

VARIABLES
    head,
    next,           \* next pointer of each task
    wasEmpty,       \* result of the last call of queue
    got,            \* result of the last call of nextTask
    waiting         \* history: tasks queued and not yet delivered, latest first

vars == << head, next, wasEmpty, got, waiting >>

\* The task is not in the run queue (AtMostOneExecution of TaskActivation).
Queue(t) ==
    /\ t \notin Range(waiting)
    /\ wasEmpty' = (head = Null)
    /\ next' = IF head = Null THEN next ELSE [next EXCEPT ![t] = head]
    /\ head' = t
    /\ waiting' = << t >> \o waiting
    /\ UNCHANGED got

NextTask ==
    /\ got' = head
    /\ head' = IF head = Null THEN Null ELSE next[head]
    /\ waiting' = SelectSeq(waiting, LAMBDA t : t # head)
    /\ UNCHANGED << next, wasEmpty >>

Init ==
    /\ head = Null
    /\ next = [t \in Tasks |-> Null]
    /\ wasEmpty = TRUE
    /\ got = Null
    /\ waiting = << >>

Next == NextTask \/ \E t \in Tasks : Queue(t)

Spec == Init /\ [][Next]_vars

-----------------------------------------------------------------------------

\* "If no task is available nullptr is returned." (schedulePolicyLifo.h):
\* nextTask delivers no task that was not queued.
EmptyGivesNull == waiting = << >> => head = Null
=============================================================================
