---------------------------- MODULE ClockThread ----------------------------
(***************************************************************************)
(* The thread of the Linux clock execution model, which sleeps until the   *)
(* next event starts and then signals the scheduler.                       *)
(*                                                                         *)
(* The thread holds m_mutex except while it waits on m_cond, so startTimer *)
(* is possible only then.  The clock queue is what EventSet promises, and  *)
(* getNextStartTime what SleepIsBounded says of it (module ClockQueue).    *)
(* The pool of executors is reduced to one executor.  Between its last     *)
(* look at the queue and its entry into the list of free executors it      *)
(* misses a signal, as in ExecutorPool.                                    *)
(***************************************************************************)
EXTENDS Naturals

CONSTANTS
    Events,
    Clients,        \* threads that start and dequeue events
    Executor,       \* the executor, whose event handlers may do so, too
    MaxTime,        \* bound of the time
    MaxStarts,      \* bound: events started in all
    MaxSpurious     \* bound: spurious wake-ups in all

ASSUME ThreadAssumption ==
    /\ Executor \notin Clients
    /\ MaxTime \in Nat /\ MaxStarts \in Nat /\ MaxSpurious \in Nat

Times == 0..MaxTime
NotQueued == MaxTime + 1      \* no start time
Callers == Clients \cup {Executor}

VARIABLES
    now,            \* getTime()
    due,            \* start time of each event in the clock queue
    clock,          \* control state of clockThread
    nextStartTime,  \* the local variable of clockThread
    notified,       \* m_cond was signalled and the thread still waits
    pc,             \* control state of the callers
    started,        \* number of events started so far
    spurious,       \* number of spurious wake-ups so far
    overlooked      \* history: pending events whose signal found the executor
                    \* behind its last look, and none has reached it since

vars == << now, due, clock, nextStartTime, notified, pc, started, spurious,
           overlooked >>

Future == { e \in Events : due[e] # NotQueued /\ due[e] > now }
Pending == { e \in Events : due[e] # NotQueued /\ due[e] <= now }

Goto(p, l) == pc' = [pc EXCEPT ![p] = l]

-----------------------------------------------------------------------------
(* clockThread.                                                            *)

Waiting == clock \in { "wait", "timedwait" }

\* Mutant: the wake-up time of the previous cycle is kept.
GetNextStartTime_Kept ==
    /\ clock = "next"
    /\ IF Future = {} THEN UNCHANGED nextStartTime
       ELSE \E e \in Future : nextStartTime' = due[e]
    /\ clock' = "decide"
    /\ UNCHANGED << now, due, notified, pc, started, spurious, overlooked >>

GetNextStartTime ==
    /\ clock = "next"
    /\ IF Future = {} THEN nextStartTime' = 0
       ELSE \E e \in Future : nextStartTime' = due[e]
    /\ clock' = "decide"
    /\ UNCHANGED << now, due, notified, pc, started, spurious, overlooked >>

\* Time can have passed since: then the thread does not wait.
Decide ==
    /\ clock = "decide"
    /\ clock' = IF nextStartTime = 0 THEN "wait"
                ELSE IF nextStartTime > now THEN "timedwait" ELSE "check"
    /\ UNCHANGED << now, due, nextStartTime, notified, pc, started, spurious,
                    overlooked >>

\* The wait ends by startTimer or because the wake-up time is reached.
WakeUp ==
    /\ Waiting
    /\ notified \/ (clock = "timedwait" /\ nextStartTime <= now)
    /\ notified' = FALSE
    /\ clock' = "check"
    /\ UNCHANGED << now, due, nextStartTime, pc, started, spurious,
                    overlooked >>

\* The wait ends spuriously, or at once because computeAbsoluteWakeUpTime left
\* tv_nsec at 1000000000.
SpuriousWakeUp ==
    /\ Waiting
    /\ spurious < MaxSpurious
    /\ spurious' = spurious + 1
    /\ notified' = FALSE
    /\ clock' = "check"
    /\ UNCHANGED << now, due, nextStartTime, pc, started, overlooked >>

IsPending ==
    /\ clock = "check"
    /\ clock' = IF Pending # {} THEN "signal" ELSE "next"
    /\ UNCHANGED << now, due, nextStartTime, notified, pc, started, spurious,
                    overlooked >>

\* Scheduler::signal wakes up the executor if it is free.
SignalExecutor ==
    IF pc[Executor] = "free" THEN "events" ELSE pc[Executor]

Overlook ==
    overlooked' = CASE pc[Executor] = "free" -> {}
                    [] pc[Executor] = "parking" -> Pending
                    [] OTHER -> overlooked

\* Mutant: the scheduler is not signalled.
ClockSignal_Missing ==
    /\ clock = "signal"
    /\ clock' = "next"
    /\ UNCHANGED << now, due, nextStartTime, notified, pc, started, spurious,
                    overlooked >>

ClockSignal ==
    /\ clock = "signal"
    /\ Goto(Executor, SignalExecutor) /\ Overlook
    /\ clock' = "next"
    /\ UNCHANGED << now, due, nextStartTime, notified, started, spurious >>

-----------------------------------------------------------------------------
(* The callers.                                                            *)

Back(p) == IF p = Executor THEN "handle" ELSE "idle"

Active(p) == pc[p] = Back(p)

\* Clock::startAt: startTimer follows if no event starts earlier.
StartFuture(p, e) ==
    /\ Active(p)
    /\ started < MaxStarts
    /\ due[e] = NotQueued
    /\ \E t \in Times :
          /\ t > now
          /\ due' = [due EXCEPT ![e] = t]
          /\ Goto(p, IF \A f \in Future : due[f] > t THEN "timer" ELSE Back(p))
    /\ started' = started + 1
    /\ UNCHANGED << now, clock, nextStartTime, notified, spurious,
                    overlooked >>

\* Mutant: startTimer does not take m_mutex, so nobody may be waiting.
StartTimer_Unlocked(p) ==
    /\ pc[p] = "timer"
    /\ notified' = Waiting
    /\ Goto(p, Back(p))
    /\ UNCHANGED << now, due, clock, nextStartTime, started, spurious,
                    overlooked >>

\* ClockExecutionModel::startTimer, once m_mutex is free.
StartTimer(p) ==
    /\ pc[p] = "timer"
    /\ Waiting
    /\ notified' = TRUE
    /\ Goto(p, Back(p))
    /\ UNCHANGED << now, due, clock, nextStartTime, started, spurious,
                    overlooked >>

\* Clock::startAt with a time that is over, and Clock::startIn without delay.
StartNow(p, e) ==
    /\ Active(p)
    /\ started < MaxStarts
    /\ due[e] = NotQueued
    /\ due' = [due EXCEPT ![e] = now]
    /\ Goto(p, "signal")
    /\ started' = started + 1
    /\ UNCHANGED << now, clock, nextStartTime, notified, spurious,
                    overlooked >>

\* The signal of startAt and startIn.
Signal(p) ==
    /\ pc[p] = "signal"
    /\ pc' = IF p = Executor THEN [pc EXCEPT ![p] = Back(p)]
             ELSE [pc EXCEPT ![p] = Back(p), ![Executor] = SignalExecutor]
    /\ Overlook
    /\ UNCHANGED << now, due, clock, nextStartTime, notified, started, spurious >>

Dequeue(p, e) ==
    /\ Active(p)
    /\ due[e] # NotQueued
    /\ due' = [due EXCEPT ![e] = NotQueued]
    /\ overlooked' = overlooked \ {e}
    /\ UNCHANGED << now, clock, nextStartTime, notified, pc, started, spurious >>

\* SchedulerImpl::handleEvents.
HandleNext ==
    /\ pc[Executor] = "events"
    /\ \E e \in Pending :
          /\ due' = [due EXCEPT ![e] = NotQueued]
          /\ overlooked' = overlooked \ {e}
    /\ Goto(Executor, "handle")
    /\ UNCHANGED << now, clock, nextStartTime, notified, started, spurious >>

\* The executor has looked at the queues for the last time.
HandleNone ==
    /\ pc[Executor] = "events"
    /\ Pending = {}
    /\ Goto(Executor, "parking")
    /\ UNCHANGED << now, due, clock, nextStartTime, notified, started, spurious,
                    overlooked >>

\* It enters the list of free executors.
Park ==
    /\ pc[Executor] = "parking"
    /\ Goto(Executor, "free")
    /\ UNCHANGED << now, due, clock, nextStartTime, notified, started, spurious,
                    overlooked >>

Return ==
    /\ pc[Executor] = "handle"
    /\ Goto(Executor, "events")
    /\ UNCHANGED << now, due, clock, nextStartTime, notified, started, spurious,
                    overlooked >>

Tick ==
    /\ now < MaxTime
    /\ now' = now + 1
    /\ UNCHANGED << due, clock, nextStartTime, notified, pc, started, spurious,
                    overlooked >>

-----------------------------------------------------------------------------

Init ==
    /\ now = 0
    /\ due = [e \in Events |-> NotQueued]
    /\ clock = "next" /\ nextStartTime = 0 /\ notified = FALSE
    /\ pc = [p \in Callers |-> IF p = Executor THEN "free" ELSE "idle"]
    /\ started = 0 /\ spurious = 0 /\ overlooked = {}

Clock == GetNextStartTime \/ Decide \/ WakeUp \/ IsPending \/ ClockSignal

Call(p) ==
    \/ \E e \in Events : StartFuture(p, e) \/ StartNow(p, e) \/ Dequeue(p, e)
    \/ StartTimer(p) \/ Signal(p)

Handle == HandleNext \/ HandleNone \/ Park \/ Return

Next == Clock \/ SpuriousWakeUp \/ (\E p \in Callers : Call(p)) \/ Handle \/ Tick

Spec == Init /\ [][Next]_vars

\* Time goes on, the threads are scheduled, event handlers and calls return.
FairSpec ==
    /\ Spec
    /\ WF_vars(Tick) /\ WF_vars(Clock) /\ WF_vars(Handle)
    /\ \A p \in Callers : WF_vars(StartTimer(p)) /\ WF_vars(Signal(p))

-----------------------------------------------------------------------------
(* Properties.                                                             *)

TypeOK ==
    /\ now \in Times
    /\ due \in [Events -> Times \cup {NotQueued}]
    /\ clock \in { "next", "decide", "wait", "timedwait", "check", "signal" }
    /\ nextStartTime \in Times
    /\ notified \in BOOLEAN
    /\ pc \in [Callers -> { "idle", "free", "events", "parking", "handle",
                        "timer", "signal" }]
    /\ started \in 0..MaxStarts
    /\ spurious \in 0..MaxSpurious
    /\ overlooked \subseteq Events

\* No start of an event in the future gets lost between getNextStartTime and
\* the wait: the thread waits without a limit only if no event is in the
\* future, unless startTimer is about to end the wait.
NoTimerLost ==
    clock = "wait" /\ ~notified /\ Future # {}
        => \E p \in Callers : pc[p] = "timer"

\* An event whose time comes while the thread sleeps with a limit or looks at
\* the queue is signalled to the scheduler, also when the thread sleeps for a
\* later event: it is delivered or dequeued, or it stays for ever because the
\* signal came while the executor was about to park.
AwaitedServed ==
    \A e \in Events :
        (e \in Pending /\ clock \in { "timedwait", "check" })
            ~> (due[e] = NotQueued \/ [](e \in overlooked))

\* Nobody is blocked forever in startTimer, which waits for m_mutex.
StartTimerReturns ==
    \A p \in Callers : (pc[p] = "timer") ~> (pc[p] # "timer")

\* "When the time interval pass, the system should wake up and trigger the
\* scheduler to handle pending time events." (clock_impl.h, startTimer): every
\* event whose time has come is handled or dequeued.  It does not hold (README,
\* section 5).
PendingServed ==
    \A e \in Events : (due[e] # NotQueued /\ due[e] <= now) ~> (due[e] = NotQueued)
=============================================================================
