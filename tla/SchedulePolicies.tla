-------------------------- MODULE SchedulePolicies --------------------------
(***************************************************************************)
(* A scheduler with one of the schedule policies Fifo, Priority and PSlot. *)
(* All of them implement RunQueue, with different orders of the tasks.     *)
(***************************************************************************)
EXTENDS Naturals, FiniteSets

CONSTANTS
    Tasks,
    Priority,           \* [Tasks -> Nat], the highest number comes first
    maxPrioritySlot     \* number of slots of PSlot

ASSUME PolicyAssumption ==
    /\ IsFiniteSet(Tasks) /\ "null" \notin Tasks
    /\ Priority \in [Tasks -> Nat]
    /\ maxPrioritySlot \in Nat \ {0}

VARIABLES
    policy,             \* the policy of the scheduler
    head, tail, next, highestPriorSlot,     \* see the modules of the policies
    wasEmpty, got                           \* results of queue and nextTask

vars == << policy, head, tail, next, highestPriorSlot, wasEmpty, got >>

Fifo == INSTANCE PolicyFifo
ByPriority == INSTANCE PolicyPriority
PSlot == INSTANCE PolicyPSlot

Init ==
    \/ policy = "fifo" /\ Fifo!Init /\ highestPriorSlot = 0
    \/ policy = "priority" /\ ByPriority!Init /\ tail = "null" /\ highestPriorSlot = 0
    \/ policy = "pslot" /\ PSlot!Init

Next ==
    /\ UNCHANGED policy
    /\ \/ policy = "fifo" /\ Fifo!Next /\ UNCHANGED highestPriorSlot
       \/ policy = "priority" /\ ByPriority!Next /\ UNCHANGED << tail, highestPriorSlot >>
       \/ policy = "pslot" /\ PSlot!Next

Spec == Init /\ [][Next]_vars

-----------------------------------------------------------------------------

Waiting == CASE policy = "fifo" -> Fifo!Waiting
             [] policy = "priority" -> ByPriority!Waiting
             [] policy = "pslot" -> PSlot!Waiting

\* For Fifo the priority of the tasks has no meaning; PSlot clamps it.
Rank == CASE policy = "fifo" -> [t \in Tasks |-> 0]
          [] policy = "priority" -> Priority
          [] policy = "pslot" -> [t \in Tasks |-> PSlot!SlotOf(t)]

Order == INSTANCE RunQueue WITH priority <- Rank, waiting <- Waiting

\* Whatever stale pointers earlier operations left, each queued task is
\* delivered once, in the order of the policy: "Put a task at the tail of the
\* FIFO queue." (schedulePolicyFifo.h), "for tasks with the same priority the
\* order is FIFO" (schedulePolicyPriority.h), and slot by slot for PSlot with no
\* slot skipped; nullptr is delivered if and only if no task is queued.
ImplementsRunQueue == Order!Spec
=============================================================================
