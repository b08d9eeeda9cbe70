---------------------------- MODULE ExecutorPool ----------------------------
(***************************************************************************)
(* The executor threads of the Linux execution model: how they wait for    *)
(* work, how Scheduler::signal wakes one of them up, and how               *)
(* Scheduler::terminate waits until the pool is empty.                     *)
(*                                                                         *)
(* Tasks and pending events are counted, not named: which task is executed *)
(* is the subject of TaskActivation and of RunQueue, when the clock thread *)
(* wakes up is the subject of ClockThread.  The mutex of                   *)
(* emptySignal is never held across a wait, so each of its critical        *)
(* sections is one step.  An executor holds the mutex of its signaler from *)
(* the moment it enters itself into the free list until it waits, so       *)
(* parking is one step, too.                                               *)
(***************************************************************************)
EXTENDS Naturals, Sequences, Functions, FiniteSets

CONSTANTS
    Executors,
    Clients,        \* other threads that activate tasks and trigger events
    Clock,          \* the clock thread
    Terminator,     \* the thread that calls Scheduler::terminate
    MayTerminate,   \* TRUE: terminate is called at some time
    Spurious,       \* TRUE: emptySignal may wake up without a signal
    MaxPerform,     \* bound: tasks accepted by SchedulerImpl::perform
    MaxFire         \* bound: events that become pending

ASSUME PoolAssumption ==
    /\ IsFiniteSet(Executors)
    /\ Executors \cap Clients = {}
    /\ Clock \notin Executors \cup Clients
    /\ Terminator \notin Executors \cup Clients \cup {Clock}
    /\ MayTerminate \in BOOLEAN /\ Spurious \in BOOLEAN
    /\ MaxPerform \in Nat /\ MaxFire \in Nat

Signallers == Executors \cup Clients \cup {Clock}
Processes == Signallers \cup {Terminator}

\* Control states of all processes.  "queue", "signal" and "notify" belong to
\* SchedulerImpl::perform and Scheduler::signal, called by any signaller.
PCs == { "idle", "queue", "signal", "notify", "fired",
         "wait", "events", "handle", "poll", "execute", "park",
         "dequeue", "clean", "enter", "blocked", "done" }

VARIABLES
    running,        \* SchedulerImpl::running
    queue,          \* number of tasks in the run queue
    pending,        \* number of pending events in the clock queue
    free,           \* freeExecutors, the head first
    wakeUp,         \* wakeUp of the signaler of each executor
    pc,
    target,         \* the executor a signaller took from the free list
    resume,         \* where a signaller goes on afterwards
    emptyFlag,      \* wakeUp of emptySignal
    emptyNotified,  \* the thread waiting on emptySignal was notified
    occupied,       \* numberOfOccupiedExecutors in waitUntilEmpty
    performed,      \* number of tasks accepted so far
    fired           \* number of events that became pending so far

queueVars == << queue, pending >>
signalVars == << free, wakeUp, target, resume >>
waitVars == << emptyFlag, emptyNotified, occupied >>
bounds == << performed, fired >>
vars == << running, queueVars, signalVars, waitVars, bounds, pc >>

TypeOK ==
    /\ running \in BOOLEAN
    /\ queue \in Nat /\ pending \in Nat
    /\ free \in Seq(Executors)
    /\ wakeUp \in [Executors -> BOOLEAN]
    /\ pc \in [Processes -> PCs]
    /\ target \in [Signallers -> Executors]
    /\ resume \in [Signallers -> { "idle", "handle", "execute" }]
    /\ emptyFlag \in BOOLEAN /\ emptyNotified \in BOOLEAN
    /\ occupied \in Nat
    /\ performed \in 0..MaxPerform /\ fired \in 0..MaxFire

Goto(p, l) == pc' = [pc EXCEPT ![p] = l]

-----------------------------------------------------------------------------
(* SchedulerImpl::perform and Scheduler::signal.                           *)

\* A client, or an executor in an event handler or a task, runs code that may
\* activate tasks and trigger events.
Active(p) ==
    \/ p \in Clients /\ pc[p] = "idle"
    \/ p \in Executors /\ pc[p] \in { "handle", "execute" }

\* A task is activated.  The test of the running flag comes first.
Accept(p) ==
    /\ Active(p)
    /\ running
    /\ performed < MaxPerform
    /\ performed' = performed + 1
    /\ resume' = [resume EXCEPT ![p] = pc[p]]
    /\ Goto(p, "queue")
    /\ UNCHANGED << running, queueVars, free, wakeUp, target, waitVars, fired >>

Queue(p) ==
    /\ pc[p] = "queue"
    /\ queue' = queue + 1
    /\ Goto(p, "signal")
    /\ UNCHANGED << running, pending, signalVars, waitVars, bounds >>

\* Mutant: the executor stays in the free list.
TakeFree_Kept(p) ==
    /\ pc[p] = "signal"
    /\ free # << >>
    /\ target' = [target EXCEPT ![p] = Head(free)]
    /\ Goto(p, "notify")
    /\ UNCHANGED << running, queueVars, free, wakeUp, resume, waitVars,
                    bounds >>

\* Take the first free executor.
TakeFree(p) ==
    /\ pc[p] = "signal"
    /\ free # << >>
    /\ target' = [target EXCEPT ![p] = Head(free)]
    /\ free' = Tail(free)
    /\ Goto(p, "notify")
    /\ UNCHANGED << running, queueVars, wakeUp, resume, waitVars, bounds >>

\* "No executor free, signaling is not necessary"
NoneFree(p) ==
    /\ pc[p] = "signal"
    /\ free = << >>
    /\ Goto(p, resume[p])
    /\ UNCHANGED << running, queueVars, signalVars, waitVars, bounds >>

NotifyExecutor(p) ==
    /\ pc[p] = "notify"
    /\ wakeUp' = [wakeUp EXCEPT ![target[p]] = TRUE]
    /\ Goto(p, resume[p])
    /\ UNCHANGED << running, queueVars, free, target, resume, waitVars,
                    bounds >>

\* An event is triggered without delay: Clock::startIn and startAt enter it at
\* the head of the clock queue and call signal.
Trigger(p) ==
    /\ Active(p)
    /\ fired < MaxFire
    /\ fired' = fired + 1
    /\ pending' = pending + 1
    /\ resume' = [resume EXCEPT ![p] = pc[p]]
    /\ Goto(p, "signal")
    /\ UNCHANGED << running, queue, free, wakeUp, target, waitVars, performed >>

\* The time of an event comes and the clock thread ends its wait.
Elapse ==
    /\ pc[Clock] = "idle"
    /\ fired < MaxFire
    /\ fired' = fired + 1
    /\ pending' = pending + 1
    /\ Goto(Clock, "fired")
    /\ UNCHANGED << running, queue, signalVars, waitVars, performed >>

\* The clock thread calls signal if an event is still pending.
ClockCheck ==
    /\ pc[Clock] = "fired"
    /\ Goto(Clock, IF pending > 0 THEN "signal" ELSE "idle")
    /\ UNCHANGED << running, queueVars, signalVars, waitVars, bounds >>

-----------------------------------------------------------------------------
(* executorThread.                                                         *)

\* Signaler::wait returns when the flag is set, and clears it.
WakeUp(e) ==
    /\ pc[e] = "wait"
    /\ wakeUp[e]
    /\ wakeUp' = [wakeUp EXCEPT ![e] = FALSE]
    /\ Goto(e, "events")
    /\ UNCHANGED << running, queueVars, free, target, resume, waitVars,
                    bounds >>

\* isPending and the loop of handleEvents, one event at a time.
NextEvent(e) ==
    /\ pc[e] = "events"
    /\ pending > 0
    /\ pending' = pending - 1
    /\ Goto(e, "handle")
    /\ UNCHANGED << running, queue, signalVars, waitVars, bounds >>

NoEvent(e) ==
    /\ pc[e] = "events"
    /\ pending = 0
    /\ Goto(e, "poll")
    /\ UNCHANGED << running, queueVars, signalVars, waitVars, bounds >>

\* Mutant: the executor does not look whether it got a task.
NextTask_Unchecked(e) ==
    /\ pc[e] = "poll"
    /\ queue' = queue - 1
    /\ Goto(e, "execute")
    /\ UNCHANGED << running, pending, signalVars, waitVars, bounds >>

NextTask(e) ==
    /\ pc[e] = "poll"
    /\ queue > 0
    /\ queue' = queue - 1
    /\ Goto(e, "execute")
    /\ UNCHANGED << running, pending, signalVars, waitVars, bounds >>

NoTask(e) ==
    /\ pc[e] = "poll"
    /\ queue = 0
    /\ Goto(e, "park")
    /\ UNCHANGED << running, queueVars, signalVars, waitVars, bounds >>

\* Mutants: after a task the executor parks, or gets the next task at once.
Return_Park(e) ==
    /\ e \in Executors
    /\ pc[e] \in { "handle", "execute" }
    /\ Goto(e, IF pc[e] = "execute" THEN "park" ELSE "events")
    /\ UNCHANGED << running, queueVars, signalVars, waitVars, bounds >>

Return_NextTask(e) ==
    /\ e \in Executors
    /\ pc[e] \in { "handle", "execute" }
    /\ Goto(e, IF pc[e] = "execute" THEN "poll" ELSE "events")
    /\ UNCHANGED << running, queueVars, signalVars, waitVars, bounds >>

\* The event handler or the task returns; then events are looked for.
Return(e) ==
    /\ e \in Executors
    /\ pc[e] \in { "handle", "execute" }
    /\ Goto(e, "events")
    /\ UNCHANGED << running, queueVars, signalVars, waitVars, bounds >>

\* Enter the free list, signal emptySignal and wait.
Park(e) ==
    /\ pc[e] = "park"
    /\ free' = << e >> \o free
    /\ emptyFlag' = TRUE
    /\ emptyNotified' = (emptyNotified \/ pc[Terminator] = "blocked")
    /\ Goto(e, "wait")
    /\ UNCHANGED << running, queueVars, wakeUp, target, resume, occupied,
                    bounds >>

-----------------------------------------------------------------------------
(* Scheduler::terminate and waitUntilEmpty.                                *)

Stop ==
    /\ MayTerminate
    /\ pc[Terminator] = "idle"
    /\ running' = FALSE
    /\ Goto(Terminator, "dequeue")
    /\ UNCHANGED << queueVars, signalVars, waitVars, bounds >>

\* Clock::dequeueAll; the pending tasks are removed or not.
DequeueAll ==
    /\ pc[Terminator] = "dequeue"
    /\ pending' = 0
    /\ \E l \in { "clean", "enter" } : Goto(Terminator, l)
    /\ UNCHANGED << running, queue, signalVars, waitVars, bounds >>

RemoveTask ==
    /\ pc[Terminator] = "clean"
    /\ IF queue > 0
       THEN queue' = queue - 1 /\ UNCHANGED pc
       ELSE Goto(Terminator, "enter") /\ UNCHANGED queue
    /\ UNCHANGED << running, pending, signalVars, waitVars, bounds >>

\* Count the executors outside the free list and wait for as many signals.
EnterWait ==
    /\ pc[Terminator] = "enter"
    /\ occupied' = Cardinality(Executors) - Len(free)
    /\ Goto(Terminator, IF occupied' = 0 THEN "done" ELSE "blocked")
    /\ UNCHANGED << running, queueVars, signalVars, emptyFlag, emptyNotified,
                    bounds >>

\* The wait on the condition of emptySignal ends, by notification or
\* spuriously.  It counts only when the flag is set.
LeaveWait ==
    /\ pc[Terminator] = "blocked"
    /\ emptyNotified \/ Spurious
    /\ emptyNotified' = FALSE
    /\ emptyFlag' = FALSE
    /\ occupied' = IF emptyFlag THEN occupied - 1 ELSE occupied
    /\ Goto(Terminator, IF occupied' = 0 THEN "done" ELSE "blocked")
    /\ UNCHANGED << running, queueVars, signalVars, bounds >>

-----------------------------------------------------------------------------

\* Init is the state after startExecutors, scheduler started: all executors wait.
Init ==
    /\ running = TRUE
    /\ queue = 0 /\ pending = 0
    /\ free \in { s \in [1..Cardinality(Executors) -> Executors] :
                    IsInjective(s) /\ Range(s) = Executors }
    /\ wakeUp = [e \in Executors |-> FALSE]
    /\ pc = [p \in Processes |-> IF p \in Executors THEN "wait" ELSE "idle"]
    /\ target \in { [p \in Signallers |-> e] : e \in Executors }
    /\ resume = [p \in Signallers |-> "idle"]
    /\ emptyFlag = FALSE /\ emptyNotified = FALSE
    /\ occupied = 0
    /\ performed = 0 /\ fired = 0

Signal(p) == Queue(p) \/ TakeFree(p) \/ NoneFree(p) \/ NotifyExecutor(p)

Execute(e) ==
    \/ WakeUp(e)
    \/ NextEvent(e) \/ NoEvent(e)
    \/ NextTask(e) \/ NoTask(e)
    \/ Return(e)
    \/ Park(e)

Terminate == Stop \/ DequeueAll \/ RemoveTask \/ EnterWait \/ LeaveWait

Next ==
    \/ \E p \in Executors \cup Clients : Accept(p) \/ Trigger(p)
    \/ Elapse \/ ClockCheck
    \/ \E p \in Signallers : Signal(p)
    \/ \E e \in Executors : Execute(e)
    \/ Terminate

Spec == Init /\ [][Next]_vars

\* Every thread makes progress; only the decisions to activate a task, to fire
\* an event, to terminate and to wake up spuriously are left open.
Fairness ==
    /\ \A p \in Signallers : WF_vars(Signal(p))
    /\ WF_vars(ClockCheck)
    /\ \A e \in Executors : WF_vars(Execute(e))
    /\ WF_vars(DequeueAll \/ RemoveTask \/ EnterWait)
    /\ WF_vars(LeaveWait /\ emptyNotified)

FairSpec == Spec /\ Fairness

-----------------------------------------------------------------------------
(* Properties.                                                             *)

Targeted(e) == { p \in Signallers : pc[p] = "notify" /\ target[p] = e }

\* No executor gets lost and none is woken up twice: it is in the free list,
\* or one signaller is about to notify it, or it was notified, or it is at
\* work, and never two of these.
EveryExecutorAccounted ==
    /\ \A j, k \in DOMAIN free : free[j] = free[k] => j = k
    /\ \A e \in Executors :
          LET isFree == e \in Range(free) IN
          /\ \A p, q \in Targeted(e) : p = q
          /\ pc[e] # "wait" => ~isFree /\ Targeted(e) = {} /\ ~wakeUp[e]
          /\ pc[e] = "wait" =>
                \/ isFree /\ Targeted(e) = {} /\ ~wakeUp[e]
                \/ ~isFree /\ Targeted(e) # {} /\ ~wakeUp[e]
                \/ ~isFree /\ Targeted(e) = {} /\ wakeUp[e]

\* An executor that will look for tasks before it parks, and one that a
\* signaller is about to take from the free list.
Awake(e) == pc[e] \notin { "wait", "park" } \/ wakeUp[e] \/ Targeted(e) # {}
AboutToWake == free # << >> /\ \E p \in Signallers : pc[p] = "signal"

\* As long as an executor is awake or is going to be woken up, all queued
\* tasks are executed at some time.
AwakeServesTasks ==
    (AboutToWake \/ \E e \in Executors : Awake(e)) ~> (queue = 0)

\* The same for pending events, unless every executor that is awake has just
\* looked for them for the last time.
AwakeServesEvents ==
    (AboutToWake \/ \E e \in Executors : Awake(e) /\ pc[e] # "poll") ~> (pending = 0)

\* "The method implementation shall wake up one of the executors of the scheduler
\* instance.  The method is called whenever a new task should perform"
\* (scheduler.h, signal): a queued task is not left behind.
\* It does not hold (README, section 5).
QueuedTaskServed == (queue > 0) ~> (queue = 0)

\* "counts the number of executors processing currently a task or events and
\* waits until all of them are terminating its processing and going to wait"
\* (schedulerExecutionModel.h, waitUntilEmpty): it returns.  It does
\* not hold (README, section 5).
TerminateReturns == (pc[Terminator] = "enter") ~> (pc[Terminator] = "done")
=============================================================================
