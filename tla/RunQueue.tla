------------------------------ MODULE RunQueue ------------------------------
(***************************************************************************)
(* What SchedulePolicy promises: queue puts a task into the run queue in   *)
(* the order of the policy, nextTask requests and removes the next task in *)
(* that order, or nullptr if none is available.                            *)
(***************************************************************************)
EXTENDS Naturals, Sequences, FiniteSets, SequencesExt

CONSTANTS Tasks

Null == "null"

VARIABLES
    priority,       \* [Tasks -> Nat], the same for all in the order of arrival
    waiting,        \* the tasks in the run queue, the next one first
    wasEmpty,       \* result of the last call of queue
    got             \* result of the last call of nextTask

vars == << priority, waiting, wasEmpty, got >>

\* A task is queued behind all tasks of its own priority and of higher ones.
\* No task is queued twice (AtMostOneExecution of TaskActivation).
Queue(t) ==
    LET ahead == { k \in DOMAIN waiting : priority[waiting[k]] >= priority[t] } IN
    /\ t \notin Range(waiting)
    /\ waiting' = InsertAt(waiting, Cardinality(ahead) + 1, t)
    /\ wasEmpty' = (waiting = << >>)
    /\ UNCHANGED << priority, got >>

NextTask ==
    /\ got' = IF waiting = << >> THEN Null ELSE Head(waiting)
    /\ waiting' = IF waiting = << >> THEN << >> ELSE Tail(waiting)
    /\ UNCHANGED << priority, wasEmpty >>

Init ==
    /\ priority \in [Tasks -> Nat]
    /\ waiting = << >>
    /\ wasEmpty = TRUE
    /\ got = Null

Next == NextTask \/ \E t \in Tasks : Queue(t)

Spec == Init /\ [][Next]_vars
=============================================================================
