----------------------------- MODULE PolicyPSlot ----------------------------
(***************************************************************************)
(* SchedulePolicyPSlot: one FIFO list of tasks per priority slot, and the  *)
(* number of the highest slot that is not empty.  Each operation is one    *)
(* critical section of queueMutex.                                         *)
(***************************************************************************)
EXTENDS Chains, FiniteSets, FiniteSetsExt, Functions

CONSTANTS
    Tasks,
    Priority,           \* [Tasks -> Nat], the highest number comes first
    maxPrioritySlot     \* number of slots

Null == "null"

Slots == 0..(maxPrioritySlot - 1)

VARIABLES
    head, tail,         \* of each slot
    next,               \* next pointer of each task
    highestPriorSlot,   \* maxPrioritySlot when all slots are empty
    wasEmpty,           \* result of the last call of queue
    got                 \* result of the last call of nextTask

vars == << head, tail, next, highestPriorSlot, wasEmpty, got >>

InSlot(s) == Chain(head[s], next, Null, Cardinality(Tasks))

\* Slot by slot, the highest one first.
Waiting ==
    LET upTo[s \in 0..maxPrioritySlot] ==
            IF s = 0 THEN << >> ELSE InSlot(s - 1) \o upTo[s - 1]
    IN  upTo[maxPrioritySlot]

\* "A priority higher than the number of slots is assigned to the highest slot."
SlotOf(t) == IF Priority[t] >= maxPrioritySlot THEN maxPrioritySlot - 1
                                               ELSE Priority[t]

\* The task is not in the run queue (AtMostOneExecution of TaskActivation).
Queue(t) ==
    LET s == SlotOf(t)
        isEmpty == highestPriorSlot = maxPrioritySlot
    IN
    /\ t \notin Range(Waiting)
    /\ wasEmpty' = isEmpty
    /\ highestPriorSlot' = IF isEmpty \/ s > highestPriorSlot
                           THEN s ELSE highestPriorSlot
    /\ head' = IF head[s] = Null THEN [head EXCEPT ![s] = t] ELSE head
    /\ next' = IF head[s] = Null THEN [next EXCEPT ![t] = Null]
                                 ELSE [next EXCEPT ![t] = Null, ![tail[s]] = t]
    /\ tail' = [tail EXCEPT ![s] = t]
    /\ UNCHANGED got

\* Mutant: the lowest slot is forgotten in the search.
HighestOccupied_NotLowest(top, heads) ==
    LET occupied == { s \in 1..top : heads[s] # Null } IN
    IF occupied = {} THEN maxPrioritySlot ELSE Max(occupied)

\* The highest slot from top downwards that is not empty.
HighestOccupied(top, heads) ==
    LET occupied == { s \in 0..top : heads[s] # Null } IN
    IF occupied = {} THEN maxPrioritySlot ELSE Max(occupied)

NextTask ==
    \/ /\ highestPriorSlot = maxPrioritySlot
       /\ got' = Null
       /\ UNCHANGED << head, tail, next, highestPriorSlot, wasEmpty >>
    \/ LET s == highestPriorSlot
           first == head[s]
       IN
       /\ s < maxPrioritySlot
       /\ got' = first
       /\ head' = [head EXCEPT ![s] = next[first]]
       /\ tail' = IF next[first] = Null THEN [tail EXCEPT ![s] = Null] ELSE tail
       /\ highestPriorSlot' = HighestOccupied(s, head')
       /\ UNCHANGED << next, wasEmpty >>

Init ==
    /\ head = [s \in Slots |-> Null]
    /\ tail = [s \in Slots |-> Null]
    /\ next = [t \in Tasks |-> Null]
    /\ highestPriorSlot = maxPrioritySlot
    /\ wasEmpty = TRUE
    /\ got = Null

Next == NextTask \/ \E t \in Tasks : Queue(t)
=============================================================================
