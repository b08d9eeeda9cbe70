----------------------------- MODULE ClockQueue -----------------------------
(***************************************************************************)
(* The queue of events in class Clock: a list from queueHead to queueTail, *)
(* linked forward by next.  The previous pointers skip the events with the *)
(* same time and serve for the search from the tail.  nonePendingHead is   *)
(* the place where the search for the next start time goes on.             *)
(*                                                                         *)
(* Each operation is one critical section of timeQueueMutex.  The signal   *)
(* to the scheduler and the start of the timer follow outside of it; see   *)
(* the modules ExecutorPool and ClockThread.                               *)
(***************************************************************************)
EXTENDS Chains, FiniteSets, FiniteSetsExt, Functions

CONSTANTS
    Events,
    MaxTime         \* bound of the time and of the start times

Null == "null"

ASSUME ClockAssumption ==
    /\ IsFiniteSet(Events) /\ Null \notin Events
    /\ MaxTime \in Nat

VARIABLES
    queueHead, queueTail, nonePendingHead,
    next, previous, queued,
    time,           \* nextActivation_ms of each event
    now,            \* getTime()
    got,            \* the event that the last operation delivered, if any
    timerStarted,   \* the last operation asks for startTimer
    relinked        \* history: an event in the list was linked once more

pointers == << queueHead, queueTail, nonePendingHead, next, previous >>
vars == << pointers, queued, time, now, got, timerStarted, relinked >>

Times == 0..MaxTime
Pointers == Events \cup { Null }

NoResult == got' = Null /\ timerStarted' = FALSE

-----------------------------------------------------------------------------

From(first) == Chain(first, next, Null, Cardinality(Events))
Queue == From(queueHead)

\* The longest run of events from first on that all belong to set.
RunOf(first, set) ==
    LET c == From(first) IN
    { c[k] : k \in { j \in DOMAIN c : \A i \in 1..j : c[i] \in set } }

SameTime(first) == RunOf(first, { e \in Events : time[e] = time[first] })

Link(set, to) == [e \in Events |-> IF e \in set THEN to ELSE previous[e]]

\* The first event from the tail backwards that does not start after t, with
\* the start times at.
SearchBackIn(at, t) ==
    LET back[e \in Pointers] ==
            IF e # Null /\ at[e] > t THEN back[previous[e]] ELSE e
    IN  back[queueTail]

SearchBack(t) == SearchBackIn(time, t)

\* Clock::enqueue, no event starts earlier or at the same time.
EnqueueFirst(e) ==
    /\ previous' = [Link(RunOf(queueHead, { x \in Events : previous[x] = Null }), e)
                       EXCEPT ![e] = Null]
    /\ next' = [next EXCEPT ![e] = queueHead]
    /\ queueHead' = e
    /\ queueTail' = IF queueHead = Null THEN e ELSE queueTail
    /\ nonePendingHead' = IF queueHead # Null /\ nonePendingHead # Null
                          THEN e ELSE nonePendingHead

\* Mutant: the event is not linked to the rest of the list.
EnqueueBehind_RestLost(e, p, t) ==
    /\ previous' = [Link(IF next[p] = Null THEN {} ELSE SameTime(next[p]), e)
                       EXCEPT ![e] = IF time[p] = t THEN previous[p] ELSE p]
    /\ next' = [next EXCEPT ![p] = e]
    /\ queueTail' = IF next[p] = Null THEN e ELSE queueTail
    /\ nonePendingHead' = IF next[p] = nonePendingHead THEN e ELSE nonePendingHead
    /\ UNCHANGED queueHead

\* Clock::enqueue behind the event p.
EnqueueBehind(e, p, t) ==
    /\ previous' = [Link(IF next[p] = Null THEN {} ELSE SameTime(next[p]), e)
                       EXCEPT ![e] = IF time[p] = t THEN previous[p] ELSE p]
    /\ next' = [next EXCEPT ![e] = next[p], ![p] = e]
    /\ queueTail' = IF next[p] = Null THEN e ELSE queueTail
    /\ nonePendingHead' = IF next[p] = nonePendingHead THEN e ELSE nonePendingHead
    /\ UNCHANGED queueHead

\* Clock::enqueueHead.  The flag queued is not set.
EnqueueHead(e, t) ==
    /\ previous' = [Link(IF queueHead # Null /\ t < time[queueHead]
                         THEN SameTime(queueHead) ELSE {}, e) EXCEPT ![e] = Null]
    /\ next' = [next EXCEPT ![e] = queueHead]
    /\ queueHead' = e
    /\ queueTail' = IF queueHead = Null THEN e ELSE queueTail
    /\ UNCHANGED nonePendingHead

StartQueued(e) ==
    /\ queued[e]
    /\ NoResult
    /\ UNCHANGED << pointers, queued, time, now, relinked >>

\* Mutant: the timer is started only for an event at the head of the list.
EarliestStart_OnlyFirst(p, t) == p = Null

\* Clock::enqueue: an event for time t, inserted behind p, is the next one to
\* start; everything before it is pending.
EarliestStart(p, t) == p = Null \/ (time[p] # t /\ time[p] <= now)

\* Clock::startAt with a time in the future, and Clock::startIn.
StartFuture(e, t) ==
    LET p == SearchBack(t) IN
    /\ ~queued[e] /\ t > now
    /\ time' = [time EXCEPT ![e] = t]
    /\ queued' = [queued EXCEPT ![e] = TRUE]
    /\ \/ p = Null /\ EnqueueFirst(e)
       \/ p # Null /\ EnqueueBehind(e, p, t)
    /\ timerStarted' = EarliestStart(p, t)
    /\ got' = Null
    /\ UNCHANGED << now, relinked >>

\* Clock::startAt with a time that is over, and Clock::startIn without delay.
StartNow(e, t) ==
    /\ ~queued[e] /\ t <= now
    /\ time' = [time EXCEPT ![e] = t]
    /\ EnqueueHead(e, t)
    /\ NoResult
    /\ UNCHANGED << queued, now, relinked >>

\* enqueueHead does not mark the event as queued.
ListedUnmarked(e) == ~queued[e] /\ e \in Range(Queue)

\* startAt and startIn of such an event: enqueue and enqueueHead link it once
\* more, and leave the pointer to it where it was.  They see its new time.
\* If it is put behind itself, or behind the event in front of it, the loop over
\* the events of the same time does not end, and timeQueueMutex is kept.
StartAgain(e, t) ==
    LET at == [time EXCEPT ![e] = t]
        SameAt(first) == RunOf(first, { x \in Events : at[x] = at[first] })
        p == IF t > now THEN SearchBackIn(at, t) ELSE Null
        endless == p # Null /\ (p = e \/ next[p] = e)
        block == CASE t <= now ->
                        IF t < at[queueHead] THEN SameAt(queueHead) ELSE {}
                   [] t > now /\ p = Null ->
                        RunOf(queueHead, { x \in Events \ {e} : previous[x] = Null })
                   [] p # Null ->
                        IF endless \/ next[p] = Null THEN {} ELSE SameAt(next[p])
    IN
    /\ ListedUnmarked(e)
    /\ relinked' = TRUE
    /\ time' = at
    /\ queued' = [queued EXCEPT ![e] = (t > now)]
    /\ previous' = [Link(block, e) EXCEPT ![e] =
                       IF p = Null THEN Null
                       ELSE IF endless THEN e
                       ELSE IF at[p] = t THEN previous[p] ELSE p]
    /\ IF p = Null
       THEN /\ next' = [next EXCEPT ![e] = queueHead]
            /\ queueHead' = e
            /\ nonePendingHead' = IF t > now /\ nonePendingHead # Null
                                  THEN e ELSE nonePendingHead
            /\ UNCHANGED queueTail
       ELSE /\ next' = [next EXCEPT ![e] = next[p], ![p] = e]
            /\ queueTail' = IF next[p] = Null THEN e ELSE queueTail
            /\ nonePendingHead' = IF ~endless /\ next[p] = nonePendingHead
                                  THEN e ELSE nonePendingHead
            /\ UNCHANGED queueHead
    /\ timerStarted' = (t > now /\ ~endless /\ EarliestStart(p, t))
    /\ got' = Null
    /\ UNCHANGED now

\* Clock::dequeueAll.
DequeueAll ==
    LET listed == Range(Queue) IN
    /\ nonePendingHead' = Null
    /\ queued' = [e \in Events |-> queued[e] /\ e \notin listed]
    /\ next' = [e \in Events |-> IF e \in listed THEN Null ELSE next[e]]
    /\ previous' = Link(listed, Null)
    /\ queueHead' = Null /\ queueTail' = Null
    /\ NoResult
    /\ UNCHANGED << time, now, relinked >>

\* Mutant: the cached position still is the event that leaves the list.
AdvanceCache_Kept(e) == UNCHANGED nonePendingHead

\* When e leaves the list the cached position moves on to the next event.
AdvanceCache(e) ==
    nonePendingHead' = IF e = nonePendingHead THEN next[e] ELSE nonePendingHead

\* The predecessor of e in the list.
Before(e) ==
    IF e = queueHead THEN Null
    ELSE CHOOSE p \in Range(Queue) : next[p] = e

\* Clock::dequeue, by stop, reset and by a new timing of the event.
Dequeue(e) ==
    LET p == Before(e)
        n == next[e]
    IN
    /\ AdvanceCache(e)
    /\ queued' = [queued EXCEPT ![e] = FALSE]
    /\ IF e \in Range(Queue)
       THEN /\ queueHead' = IF p = Null THEN n ELSE queueHead
            /\ queueTail' = IF e = queueTail THEN p ELSE queueTail
            /\ next' = [x \in Events |-> CASE x = e -> Null
                                           [] x = p -> n
                                           [] OTHER -> next[x]]
            /\ previous' = [Link(IF n # Null /\ time[e] # time[n]
                                 THEN SameTime(n) ELSE {}, p) EXCEPT ![e] = Null]
       ELSE /\ next' = [next EXCEPT ![e] = Null]
            /\ previous' = [previous EXCEPT ![e] = Null]
            /\ UNCHANGED << queueHead, queueTail >>
    /\ NoResult
    /\ UNCHANGED << time, now, relinked >>

NonePending ==
    /\ queueHead = Null \/ (queueHead # Null /\ time[queueHead] > now)
    /\ NoResult
    /\ UNCHANGED << pointers, queued, time, now, relinked >>

\* Clock::readFirstPending takes the head when its time has come.
ReadFirstPending ==
    LET e == queueHead
        n == next[e]
    IN
    /\ e # Null
    /\ time[e] <= now
    /\ AdvanceCache(e)
    /\ got' = e
    /\ queueHead' = n
    /\ queued' = [queued EXCEPT ![e] = FALSE]
    /\ next' = [next EXCEPT ![e] = Null]
    /\ queueTail' = IF n = Null THEN Null ELSE queueTail
    /\ previous' = Link(IF n # Null /\ previous[n] # Null THEN SameTime(n) ELSE {}, Null)
    /\ timerStarted' = FALSE
    /\ UNCHANGED << time, now, relinked >>

\* Clock::getNextStartTime searches on from nonePendingHead and returns the
\* time of the event it finds, or 0.
GetNextStartTime ==
    LET search == From(IF nonePendingHead = Null THEN queueHead ELSE nonePendingHead)
        future == { k \in DOMAIN search : time[search[k]] > now }
    IN
    /\ nonePendingHead' = IF future = {} THEN Null ELSE search[Min(future)]
    /\ NoResult
    /\ UNCHANGED << queueHead, queueTail, next, previous, queued, time, now,
                    relinked >>

Tick ==
    /\ now < MaxTime
    /\ now' = now + 1
    /\ NoResult
    /\ UNCHANGED << pointers, queued, time, relinked >>

Init ==
    /\ queueHead = Null /\ queueTail = Null /\ nonePendingHead = Null
    /\ next = [e \in Events |-> Null]
    /\ previous = [e \in Events |-> Null]
    /\ queued = [e \in Events |-> FALSE]
    /\ time = [e \in Events |-> 0]
    /\ now = 0
    /\ got = Null
    /\ timerStarted = FALSE
    /\ relinked = FALSE

Start(e) ==
    \/ StartQueued(e)
    \/ \E t \in Times :
          \/ ~ListedUnmarked(e) /\ (StartFuture(e, t) \/ StartNow(e, t))
          \/ StartAgain(e, t)

Operation ==
    \/ \E e \in Events : Start(e) \/ Dequeue(e)
    \/ ReadFirstPending \/ NonePending
    \/ DequeueAll
    \/ GetNextStartTime
    \/ Tick

\* With an event that is linked twice the queue is no list any more; what the
\* operations do then is not modelled.
Destroyed == relinked /\ UNCHANGED vars

Next == (~relinked /\ Operation) \/ Destroyed

Spec == Init /\ [][Next]_vars

-----------------------------------------------------------------------------
(* Properties.                                                             *)

\* Types; and an event that is marked as queued is in the list.
TypeOK ==
    /\ { queueHead, queueTail, nonePendingHead, got } \subseteq Pointers
    /\ next \in [Events -> Pointers]
    /\ previous \in [Events -> Pointers]
    /\ queued \in [Events -> BOOLEAN]
    /\ \A e \in Events : queued[e] => e \in Range(Queue)
    /\ time \in [Events -> Times]
    /\ now \in Times
    /\ timerStarted \in BOOLEAN
    /\ relinked \in BOOLEAN

Set == INSTANCE EventSet WITH
    due <- { << e, time[e], queued[e] >> : e \in Range(Queue) },
    void <- relinked

\* Every event that is started is delivered exactly once, not before its time,
\* whatever is inserted or removed around it in the list, as long as no event
\* that was started at once is started again before it is delivered.
ImplementsEventSet == Set!Spec

\* "If it is queued by the clock, the event is removed from the clock before it
\* is queued again." (taskEvent.h, trigger)  So no event is linked twice.
ListedOnce == IsInjective(Queue)

Future == { e \in Range(Queue) : time[e] > now }

\* The last event in front of the k-th one of q that starts earlier.
Earlier(q, k) ==
    LET before == { j \in 1..(k - 1) : time[q[j]] < time[q[k]] } IN
    IF before = {} THEN Null ELSE q[Max(before)]

\* Types, and the structure of the list: it has no cycle, ends at the tail,
\* events in the future are sorted and behind all pending ones, the backward
\* pointers of them skip the events with the same time, and the cached
\* position is an event of the list; unless an event was linked twice.
WellLinked ==
    LET q == Queue
        future == Future
    IN
    ~relinked =>
    /\ TypeOK
    /\ IsInjective(q)
    /\ queueTail = IF q = << >> THEN Null ELSE q[Len(q)]
    /\ \A j, k \in DOMAIN q : j < k /\ q[j] \in future
          => q[k] \in future /\ time[q[j]] <= time[q[k]]
    /\ \A k \in DOMAIN q : q[k] \in future => previous[q[k]] = Earlier(q, k)
    /\ nonePendingHead # Null => nonePendingHead \in Range(q)

Earliest == Min({ time[e] : e \in Future })

\* The timer is started for an event in the future exactly when it becomes the
\* earliest one; otherwise the clock thread would sleep too long.
TimerForFirst ==
    [][ \A e \in Events : ~queued[e] /\ queued'[e] /\ ~relinked'
           => (timerStarted' <=> \A f \in Future : time[f] > time'[e]) ]_vars

\* The clock thread sleeps without a limit only when no event is in the future,
\* and never until a time at which no event starts.
SleepIsBounded ==
    [][ ~relinked /\ GetNextStartTime =>
           IF nonePendingHead' = Null THEN Future = {}
                                      ELSE nonePendingHead' \in Future ]_vars

\* "The time of the first event in the queue with start time in the future."
\* (clock_impl.h)  It does not hold (README, section 5).
NextStartIsFirst ==
    [][ ~relinked /\ GetNextStartTime /\ Future # {} =>
           nonePendingHead' # Null /\ time[nonePendingHead'] = Earliest ]_vars
=============================================================================
