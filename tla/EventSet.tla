------------------------------ MODULE EventSet ------------------------------
(***************************************************************************)
(* What the clock queue promises: an event that is started is delivered    *)
(* once, not before its time, unless it is dequeued; to start an event     *)
(* again that waits for its time has no effect.  An event that was started *)
(* at once must not be started again before it is delivered: that breaks   *)
(* the contract, and nothing is promised any more.                         *)
(***************************************************************************)
EXTENDS Naturals

CONSTANTS Events, MaxTime

Null == "null"

VARIABLES
    due,        \* the queued events, each with its start time, and whether
                \* that was in the future when it was started
    now,
    got,        \* the event that the last operation delivered, if any
    void        \* the contract is broken

vars == << due, now, got, void >>

Queued == { d[1] : d \in due }

StartAt(e, t) ==
    /\ got' = Null
    /\ e \notin Queued
    /\ due' = due \cup { << e, t, t > now >> }
    /\ UNCHANGED now

\* The event is in the queue, but not as one that waits for its time.
StartAgain(e) ==
    /\ \E d \in due : d[1] = e /\ ~d[3]
    /\ void' = TRUE

Pending == { d \in due : d[2] <= now }

\* Any other operation that delivers nothing leaves the events alone.
NoEffect == got' = Null /\ UNCHANGED << due, now >>

ReadFirstPending ==
    \/ \E d \in Pending :
          /\ got' = d[1]
          /\ due' = due \ {d}
          /\ UNCHANGED now
    \/ Pending = {} /\ NoEffect

Dequeue(e) ==
    /\ got' = Null
    /\ due' = { d \in due : d[1] # e }
    /\ UNCHANGED now

DequeueAll ==
    /\ got' = Null
    /\ due' = {}
    /\ UNCHANGED now

Tick ==
    /\ got' = Null
    /\ now < MaxTime
    /\ now' = now + 1
    /\ UNCHANGED due

Init ==
    /\ due = {}
    /\ now = 0
    /\ got = Null
    /\ void = FALSE

Operation ==
    \/ NoEffect \/ Tick \/ ReadFirstPending \/ DequeueAll
    \/ \E e \in Events : Dequeue(e) \/ \E t \in 0..MaxTime : StartAt(e, t)

Next ==
    \/ ~void /\ ~void' /\ Operation
    \/ ~void /\ \E e \in Events : StartAgain(e)
    \/ void /\ void'

Spec == Init /\ [][Next]_vars
=============================================================================
