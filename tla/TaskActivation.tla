--------------------------- MODULE TaskActivation ---------------------------
(***************************************************************************)
(* Activation, queuing, execution and reset of tasks.                      *)
(*                                                                         *)
(* Any number of threads notify task inputs (InputImpl::notifyInput), the  *)
(* executors of the schedulers execute queued tasks                        *)
(* (SchedulerImpl::execute) and reset them or their group afterwards, and  *)
(* one thread calls Scheduler::start(true) on the schedulers in turn.      *)
(*                                                                         *)
(* One step is one critical section of the code (taskMutex, the mutex of   *)
(* an input, synchronizationMutex around synchronizeStart) or one access   *)
(* to an unprotected counter.  Which queued task an executor gets next is  *)
(* left open: it is the choice of the schedule policy.  How an executor    *)
(* is woken up is the subject of module ExecutorPool.                      *)
(***************************************************************************)
EXTENDS Naturals, Sequences, Functions

CONSTANTS
    Tasks, Inputs, Schedulers,
    Executors,      \* the executors of all schedulers
    Notifiers,      \* threads that push to the channels of the inputs
    Starter,        \* the thread that calls Scheduler::start
    InputsOf,       \* [Tasks -> Seq(Inputs)], the input array of each task
    Threshold,      \* [Inputs -> Nat], m_activationThreshold
    Final,          \* inputs configured as final
    Synchron,       \* inputs with synchronization switched on
    GroupOf,        \* [Tasks -> Seq(Tasks)], the group in join order, or << >>
    TaskList,       \* [Schedulers -> Seq(Tasks)], associatedTasks
    Home,           \* [Executors -> Schedulers]
    StartOrder,     \* Seq(Schedulers), the order in which they are started
    QuietStart,     \* TRUE: nothing is pushed before start has returned
    MaxPush         \* bound: notifications per input

NoProc == "noProc"

InputSet(t) == Range(InputsOf[t])
TaskOf(i) == CHOOSE t \in Tasks : i \in InputSet(t)
SchedulerOf(t) == CHOOSE s \in Schedulers : t \in Range(TaskList[s])

Distinct(s) == \A j, k \in DOMAIN s : s[j] = s[k] => j = k

\* Every task has an input array of its own and is constructed with one
\* scheduler.
ASSUME TaskAssumption ==
    /\ InputsOf \in [Tasks -> Seq(Inputs)]
    /\ \A i \in Inputs : \E t \in Tasks : i \in InputSet(t)
    /\ \A t, u \in Tasks : t # u => InputSet(t) \cap InputSet(u) = {}
    /\ \A t \in Tasks : Distinct(InputsOf[t]) /\ InputsOf[t] # << >>
    /\ TaskList \in [Schedulers -> Seq(Tasks)]
    /\ \A s \in Schedulers : Distinct(TaskList[s])
    /\ \A t \in Tasks : \E s \in Schedulers :
          /\ t \in Range(TaskList[s])
          /\ \A r \in Schedulers \ {s} : t \notin Range(TaskList[r])

\* Input::configure and Input::setSynchron: an optional input is never
\* synchronous.
ASSUME InputAssumption ==
    /\ Inputs # {}
    /\ Threshold \in [Inputs -> Nat]
    /\ Final \subseteq Inputs
    /\ Synchron \subseteq { i \in Inputs : Threshold[i] > 0 }

\* A task joins at most one group, and the group knows all tasks that joined.
ASSUME GroupAssumption ==
    /\ GroupOf \in [Tasks -> Seq(Tasks)]
    /\ \A t \in Tasks : Distinct(GroupOf[t])
    /\ \A t \in Tasks : GroupOf[t] # << >> => t \in Range(GroupOf[t])
    /\ \A t \in Tasks : \A u \in Range(GroupOf[t]) : GroupOf[u] = GroupOf[t]

ASSUME ProcessAssumption ==
    /\ Home \in [Executors -> Schedulers]
    /\ StartOrder \in Seq(Schedulers) /\ Distinct(StartOrder)
    /\ Executors \cap Notifiers = {}
    /\ Starter \notin Executors \cup Notifiers
    /\ NoProc \notin Executors
    /\ QuietStart \in BOOLEAN
    /\ MaxPush \in Nat

Resetters == Executors \cup {Starter}
Processes == Resetters \cup Notifiers

TaskStates == { "WAIT", "RUN", "FINISH", "RESET", "PENDING" }
ExecutorPCs == { "idle", "syncStart", "execute", "check",
                 "begin", "input", "activate" }
StarterPCs == { "idle", "begin", "input", "activate" }
NotifierPCs == { "idle", "store", "check", "activate" }

VARIABLES
    state,          \* m_state of each task
    notifications,  \* m_notifications of each input
    missed,         \* m_missedNotifications of each input
    running,        \* SchedulerImpl::running
    queued,         \* how often each task is in the run queue
    syncMutex,      \* who holds synchronizationMutex of each scheduler
    pc,             \* control state of each process
    todo,           \* tasks a resetter works on, the first one is current
    idx,            \* position in the input array during Task::reset
    input,          \* the input a notifier notifies
    reg,            \* the value a notifier read for its ++m_notifications
    stopped,        \* schedulers whose start the starter has still to call
    pushed,         \* history: notifications of each input so far
    executions      \* history: executions of each task so far

taskVars == << state, notifications, missed >>
queueVars == << running, queued, syncMutex >>
workVars == << todo, idx >>
procVars == << input, reg, stopped >>
history == << pushed, executions >>
vars == << taskVars, queueVars, pc, workVars, procVars, history >>

TypeOK ==
    /\ state \in [Tasks -> TaskStates]
    /\ notifications \in [Inputs -> Nat]
    /\ missed \in [Inputs -> Nat]
    /\ running \in [Schedulers -> BOOLEAN]
    /\ queued \in [Tasks -> Nat]
    /\ syncMutex \in [Schedulers -> Executors \cup {NoProc}]
    /\ pc \in [Processes -> ExecutorPCs \cup StarterPCs \cup NotifierPCs]
    /\ \A e \in Executors : pc[e] \in ExecutorPCs
    /\ pc[Starter] \in StarterPCs
    /\ \A n \in Notifiers : pc[n] \in NotifierPCs
    /\ todo \in [Resetters -> Seq(Tasks)]
    /\ idx \in [Resetters -> Nat]
    /\ input \in [Notifiers -> Inputs]
    /\ reg \in [Notifiers -> Nat]
    /\ stopped \in Seq(Schedulers)
    /\ pushed \in [Inputs -> Nat]
    /\ executions \in [Tasks -> Nat]

-----------------------------------------------------------------------------
(* Activation of inputs and tasks.                                         *)

IsActive(i) ==
    IF i \in Final /\ Threshold[i] = 0
    THEN notifications[i] > 0
    ELSE notifications[i] >= Threshold[i]

\* InputArray::isActivated without an alternative condition.  An activated
\* final input overrules the others; an input that is final or optional does
\* not hold the task back.
Activated(t) ==
    \/ \E i \in InputSet(t) : i \in Final /\ IsActive(i)
    \/ \A i \in InputSet(t) : IsActive(i) \/ i \in Final \/ Threshold[i] = 0

\* SchedulerImpl::perform: nothing happens unless the scheduler is running.
Perform(t) ==
    queued' = IF running[SchedulerOf(t)]
              THEN [queued EXCEPT ![t] = @ + 1]
              ELSE queued

\* Mutant: m_state is not set to TASK_RUN.
Activate_StateNotSet(t) ==
    \/ /\ state[t] = "WAIT" /\ Activated(t)
       /\ UNCHANGED state
       /\ Perform(t)
    \/ /\ state[t] = "RESET" /\ Activated(t)
       /\ state' = [state EXCEPT ![t] = "PENDING"]
       /\ UNCHANGED queued
    \/ /\ state[t] \notin { "WAIT", "RESET" } \/ ~Activated(t)
       /\ UNCHANGED << state, queued >>

\* TaskImpl::activate, one critical section of taskMutex.
Activate(t) ==
    \/ /\ state[t] = "WAIT" /\ Activated(t)
       /\ state' = [state EXCEPT ![t] = "RUN"]
       /\ Perform(t)
    \/ /\ state[t] = "RESET" /\ Activated(t)
       /\ state' = [state EXCEPT ![t] = "PENDING"]
       /\ UNCHANGED queued
    \/ /\ state[t] \notin { "WAIT", "RESET" } \/ ~Activated(t)
       /\ UNCHANGED << state, queued >>

-----------------------------------------------------------------------------
(* InputImpl::notifyInput, executed by the notifier n.                     *)

Started == stopped = << >> /\ pc[Starter] = "idle"

MayNotify(n, i) ==
    /\ pc[n] = "idle"
    /\ QuietStart => Started
    /\ pushed[i] < MaxPush
    /\ input' = [input EXCEPT ![n] = i]
    /\ pushed' = [pushed EXCEPT ![i] = @ + 1]
    /\ UNCHANGED << queueVars, workVars, stopped, executions >>

\* An activated synchronous input keeps the notification for later.
NotifyMissed(n, i) ==
    /\ i \in Synchron /\ IsActive(i)
    /\ MayNotify(n, i)
    /\ missed' = [missed EXCEPT ![i] = @ + 1]
    /\ UNCHANGED << state, notifications, pc, reg >>

NotifySync(n, i) ==
    /\ i \in Synchron /\ ~IsActive(i)
    /\ MayNotify(n, i)
    /\ notifications' = [notifications EXCEPT ![i] = @ + 1]
    /\ pc' = [pc EXCEPT ![n] = "check"]
    /\ UNCHANGED << state, missed, reg >>

\* ++m_notifications of an input without synchronization is not protected:
\* the load and the store are steps of their own.
NotifyLoad(n, i) ==
    /\ i \notin Synchron
    /\ MayNotify(n, i)
    /\ reg' = [reg EXCEPT ![n] = notifications[i]]
    /\ pc' = [pc EXCEPT ![n] = "store"]
    /\ UNCHANGED << taskVars >>

NotifyStore(n) ==
    /\ pc[n] = "store"
    /\ notifications' = [notifications EXCEPT ![input[n]] = reg[n] + 1]
    /\ pc' = [pc EXCEPT ![n] = "check"]
    /\ UNCHANGED << state, missed, queueVars, workVars, procVars, history >>

\* Mutant: the threshold has to be exceeded.
NotifyCheck_Exceeded(n) ==
    /\ pc[n] = "check"
    /\ pc' = [pc EXCEPT ![n] =
                IF notifications[input[n]] > Threshold[input[n]]
                THEN "activate" ELSE "idle"]
    /\ UNCHANGED << taskVars, queueVars, workVars, procVars, history >>

\* The test of parent.isActivated() after the mutex of the input is left.
NotifyCheck(n) ==
    /\ pc[n] = "check"
    /\ pc' = [pc EXCEPT ![n] = IF IsActive(input[n]) THEN "activate"
                                                     ELSE "idle"]
    /\ UNCHANGED << taskVars, queueVars, workVars, procVars, history >>

NotifyActivate(n) ==
    /\ pc[n] = "activate"
    /\ Activate(TaskOf(input[n]))
    /\ pc' = [pc EXCEPT ![n] = "idle"]
    /\ UNCHANGED << notifications, missed, running, syncMutex, workVars,
                    procVars, history >>

-----------------------------------------------------------------------------
(* SchedulerImpl::execute, by the executor e.                              *)

\* The executor gets some task from the schedule policy.
Take(e, t) ==
    /\ pc[e] = "idle"
    /\ SchedulerOf(t) = Home[e]
    /\ queued[t] > 0
    /\ queued' = [queued EXCEPT ![t] = @ - 1]
    /\ todo' = [todo EXCEPT ![e] = << t >>]
    /\ pc' = [pc EXCEPT ![e] = "syncStart"]
    /\ UNCHANGED << taskVars, running, syncMutex, idx, procVars, history >>

SynchronizeStart(e) ==
    /\ pc[e] = "syncStart"
    /\ syncMutex[Home[e]] = NoProc
    /\ pc' = [pc EXCEPT ![e] = "execute"]
    /\ executions' = [executions EXCEPT ![Head(todo[e])] = @ + 1]
    /\ UNCHANGED << taskVars, queueVars, workVars, procVars, pushed >>

\* After the task is executed: enter synchronizationMutex, synchronizeEnd and
\* the first part of TaskImpl::finalizeExecution.
FinalizeAlone(e) ==
    /\ pc[e] = "execute"
    /\ GroupOf[Head(todo[e])] = << >>
    /\ syncMutex[Home[e]] = NoProc
    /\ syncMutex' = [syncMutex EXCEPT ![Home[e]] = e]
    /\ pc' = [pc EXCEPT ![e] = "begin"]
    /\ UNCHANGED << taskVars, running, queued, workVars, procVars, history >>

FinalizeInGroup(e) ==
    /\ pc[e] = "execute"
    /\ GroupOf[Head(todo[e])] # << >>
    /\ syncMutex[Home[e]] = NoProc
    /\ syncMutex' = [syncMutex EXCEPT ![Home[e]] = e]
    /\ state' = [state EXCEPT ![Head(todo[e])] = "FINISH"]
    /\ pc' = [pc EXCEPT ![e] = "check"]
    /\ UNCHANGED << notifications, missed, running, queued, workVars, procVars,
                    history >>

\* Mutant: the loop over the group ends one task too early.
AreAllExecuted_LastSkipped(g) ==
    \A k \in 1..(Len(g) - 1) : state[g[k]] = "FINISH"

AreAllExecuted(g) == \A u \in Range(g) : state[u] = "FINISH"

\* GroupImpl::finalizeExecution: reset the whole group or leave the mutex.
GroupReset(e) ==
    LET g == GroupOf[Head(todo[e])] IN
    /\ pc[e] = "check"
    /\ AreAllExecuted(g)
    /\ todo' = [todo EXCEPT ![e] = g]
    /\ pc' = [pc EXCEPT ![e] = "begin"]
    /\ UNCHANGED << taskVars, queueVars, idx, procVars, history >>

GroupWait(e) ==
    /\ pc[e] = "check"
    /\ ~AreAllExecuted(GroupOf[Head(todo[e])])
    /\ todo' = [todo EXCEPT ![e] = << >>]
    /\ pc' = [pc EXCEPT ![e] = "idle"]
    /\ syncMutex' = [syncMutex EXCEPT ![Home[e]] = NoProc]
    /\ UNCHANGED << taskVars, running, queued, idx, procVars, history >>

-----------------------------------------------------------------------------
(* Task::reset of the task Head(todo[p]), by an executor or the starter.   *)

BeginReset(p) ==
    /\ pc[p] = "begin"
    /\ state' = [state EXCEPT ![Head(todo[p])] = "RESET"]
    /\ idx' = [idx EXCEPT ![p] = 1]
    /\ pc' = [pc EXCEPT ![p] = "input"]
    /\ UNCHANGED << notifications, missed, queueVars, todo, procVars, history >>

CurrentInput(p) == InputsOf[Head(todo[p])][idx[p]]
InputsLeft(p) == idx[p] <= Len(InputsOf[Head(todo[p])])

\* Mutant: one missed notification too few is accepted.
Suffices_OneTooFew(i) == i \in Synchron /\ missed[i] + 1 >= Threshold[i]

\* The missed notifications suffice for the next activation.
Suffices(i) == i \in Synchron /\ missed[i] >= Threshold[i]

\* Mutant: all missed notifications become current ones.
Taken_All(i) == missed[i]

\* The missed notifications that become current ones when they suffice.
Taken(i) == Threshold[i]

\* Mutant: the missed notifications are dropped.
Kept_Dropped(i) == 0

\* The same when they do not suffice.
Kept(i) == IF i \in Synchron THEN missed[i] ELSE 0

\* Input::reset: the task is activated again.
ResetOvertake(p) ==
    LET i == CurrentInput(p) IN
    /\ pc[p] = "input" /\ InputsLeft(p)
    /\ Suffices(i)
    /\ missed' = [missed EXCEPT ![i] = @ - Taken(i)]
    /\ notifications' = [notifications EXCEPT ![i] = Taken(i)]
    /\ pc' = [pc EXCEPT ![p] = "activate"]
    /\ UNCHANGED << state, queueVars, workVars, procVars, history >>

ResetActivate(p) ==
    /\ pc[p] = "activate"
    /\ Activate(Head(todo[p]))
    /\ idx' = [idx EXCEPT ![p] = @ + 1]
    /\ pc' = [pc EXCEPT ![p] = "input"]
    /\ UNCHANGED << notifications, missed, running, syncMutex, todo, procVars,
                    history >>

\* Input::reset: the missed notifications, if any, count from now on.
ResetInput(p) ==
    LET i == CurrentInput(p) IN
    /\ pc[p] = "input" /\ InputsLeft(p)
    /\ ~Suffices(i)
    /\ notifications' = [notifications EXCEPT ![i] = Kept(i)]
    /\ missed' = [missed EXCEPT ![i] = IF i \in Synchron THEN 0 ELSE @]
    /\ idx' = [idx EXCEPT ![p] = @ + 1]
    /\ UNCHANGED << state, queueVars, pc, todo, procVars, history >>

\* The last critical section of Task::reset.  The loop over the tasks goes on,
\* or the executor leaves synchronizationMutex, or start returns.
EndReset(p) ==
    LET t == Head(todo[p]) IN
    /\ pc[p] = "input" /\ ~InputsLeft(p)
    /\ \/ /\ state[t] = "PENDING" /\ Activated(t)
          /\ state' = [state EXCEPT ![t] = "RUN"]
          /\ Perform(t)
       \/ /\ state[t] # "PENDING" \/ ~Activated(t)
          /\ state' = [state EXCEPT ![t] = "WAIT"]
          /\ UNCHANGED queued
    /\ todo' = [todo EXCEPT ![p] = Tail(@)]
    /\ pc' = [pc EXCEPT ![p] = IF Len(todo[p]) > 1 THEN "begin" ELSE "idle"]
    /\ syncMutex' = IF p \in Executors /\ Len(todo[p]) = 1
                    THEN [syncMutex EXCEPT ![Home[p]] = NoProc]
                    ELSE syncMutex
    /\ UNCHANGED << notifications, missed, running, idx, procVars, history >>

\* Scheduler::start(true), for one scheduler after the other.
Start ==
    LET s == Head(stopped) IN
    /\ pc[Starter] = "idle"
    /\ stopped # << >>
    /\ running' = [running EXCEPT ![s] = TRUE]
    /\ stopped' = Tail(stopped)
    /\ todo' = [todo EXCEPT ![Starter] = TaskList[s]]
    /\ pc' = [pc EXCEPT ![Starter] = IF TaskList[s] = << >> THEN "idle"
                                                            ELSE "begin"]
    /\ UNCHANGED << taskVars, queued, syncMutex, idx, input, reg, history >>

-----------------------------------------------------------------------------

Init ==
    /\ state = [t \in Tasks |-> "FINISH"]
    /\ notifications = [i \in Inputs |-> 0]
    /\ missed = [i \in Inputs |-> 0]
    /\ running = [s \in Schedulers |-> FALSE]
    /\ queued = [t \in Tasks |-> 0]
    /\ syncMutex = [s \in Schedulers |-> NoProc]
    /\ pc = [p \in Processes |-> "idle"]
    /\ todo = [p \in Resetters |-> << >>]
    /\ idx = [p \in Resetters |-> 0]
    /\ input \in [Notifiers -> { CHOOSE i \in Inputs : TRUE }]
    /\ reg = [n \in Notifiers |-> 0]
    /\ stopped = StartOrder
    /\ pushed = [i \in Inputs |-> 0]
    /\ executions = [t \in Tasks |-> 0]

Notify(n) ==
    \/ \E i \in Inputs : NotifyMissed(n, i) \/ NotifySync(n, i) \/ NotifyLoad(n, i)
    \/ NotifyStore(n) \/ NotifyCheck(n) \/ NotifyActivate(n)

Execute(e) ==
    \/ \E t \in Tasks : Take(e, t)
    \/ SynchronizeStart(e)
    \/ FinalizeAlone(e) \/ FinalizeInGroup(e)
    \/ GroupReset(e) \/ GroupWait(e)

Reset(p) ==
    \/ BeginReset(p)
    \/ ResetOvertake(p) \/ ResetActivate(p) \/ ResetInput(p)
    \/ EndReset(p)

Next ==
    \/ Start
    \/ \E n \in Notifiers : Notify(n)
    \/ \E e \in Executors : Execute(e)
    \/ \E p \in Resetters : Reset(p)

Spec == Init /\ [][Next]_vars

\* Threads of the operating system are scheduled: nothing but the decision
\* to push is left to the environment.  Executors take what is queued.
Fairness ==
    /\ WF_vars(Start)
    /\ \A n \in Notifiers :
          WF_vars(NotifyStore(n) \/ NotifyCheck(n) \/ NotifyActivate(n))
    /\ \A e \in Executors : WF_vars(Execute(e))
    /\ \A p \in Resetters : WF_vars(Reset(p))

FairSpec == Spec /\ Fairness

-----------------------------------------------------------------------------
(* Properties.                                                             *)

\* The executor e holds t and has not yet finalized its execution.
Executing(e, t) ==
    pc[e] \in { "syncStart", "execute" } /\ Head(todo[e]) = t

\* A task is in the run queue at most once, no queued task is being executed
\* and no two executors execute the same task.  The list based run queues of
\* the schedule policies are corrupted when a task is queued twice, and
\* Task::execute is user code that is not prepared to run concurrently with
\* itself.
AtMostOneExecution ==
    \A t \in Tasks :
       /\ queued[t] <= 1
       /\ \A e \in Executors : Executing(e, t) => queued[t] = 0
       /\ \A e, f \in Executors : Executing(e, t) /\ Executing(f, t) => e = f

\* The activation condition holds because of a notification, not vacuously.
Due(t) ==
    \/ \E i \in InputSet(t) : i \in Final /\ IsActive(i)
    \/ /\ \E i \in InputSet(t) : i \notin Final /\ Threshold[i] > 0
       /\ Activated(t)

\* No activation is missed between the unprotected notification counters and
\* the task state: a waiting task whose inputs are activated has a notifier
\* that is about to call TaskImpl::activate.
NoMissedActivation ==
    \A t \in Tasks : state[t] = "WAIT" /\ Due(t) =>
       \E n \in Notifiers :
          pc[n] \in { "check", "activate" } /\ TaskOf(input[n]) = t

\* Tasks that are activated by the conjunction of synchronous inputs.
SynchronTask(t) == InputSet(t) \subseteq Synchron \ Final

Quiescent ==
    /\ Started
    /\ \A p \in Processes : pc[p] = "idle"
    /\ \A t \in Tasks : queued[t] = 0

\* No notification is lost or used twice: whenever everything has come to
\* rest, a task with synchronous inputs was executed once for every complete
\* set of notifications and the rest is still counted at its inputs
\* (the promise of Input::setSynchron).
SynchronousDelivery ==
    Quiescent => \A t \in Tasks :
       SynchronTask(t) /\ GroupOf[t] = << >> =>
          /\ \A i \in InputSet(t) :
                pushed[i] = Threshold[i] * executions[t]
                              + notifications[i] + missed[i]
          /\ \E i \in InputSet(t) :
                pushed[i] < Threshold[i] * (executions[t] + 1)

\* While a task with synchronous inputs is queued or executed its inputs hold
\* exactly the threshold: m_notifications is what synchronizeStart tells the
\* channel to provide to the task.
ExactVolume ==
    \A t \in Tasks :
       SynchronTask(t) /\ (queued[t] > 0 \/ \E e \in Executors : Executing(e, t))
          => \A i \in InputSet(t) : notifications[i] = Threshold[i]

\* "a task can only restart when all other tasks in the group have finalized
\* their execution" (taskGroup.h): no task of a group is a whole execution
\* ahead of another one.
GroupLockstep ==
    \A t \in Tasks : \A u \in Range(GroupOf[t]) :
       executions[t] <= executions[u] + 1

\* Every complete set of notifications eventually leads to an execution.
EveryNotificationServed ==
    \A t \in Tasks : \A k \in 1..MaxPush :
       SynchronTask(t) /\ GroupOf[t] = << >> =>
          (\A i \in InputSet(t) : pushed[i] >= k * Threshold[i])
             ~> (executions[t] >= k)

-----------------------------------------------------------------------------
(* The inductive invariant behind AtMostOneExecution: every task has at    *)
(* most one owner, the run queue, an executor or the starter, and its      *)
(* state tells which transitions are left.                                 *)

Owns(p, t) == pc[p] # "idle" /\ t \in Range(todo[p])

\* A resetter at work has tasks to work on; before it knows about the group
\* just the one it executes.
Jobs ==
    \A p \in Resetters : pc[p] # "idle" =>
       /\ todo[p] # << >> /\ Distinct(todo[p])
       /\ pc[p] \in { "syncStart", "execute", "check" } => Len(todo[p]) = 1
       /\ p \in Executors =>
             \A t \in Range(todo[p]) : SchedulerOf(t) = Home[p]

OneOwner ==
    \A p, q \in Resetters : \A t \in Tasks : Owns(p, t) /\ Owns(q, t) => p = q

QueuedRuns ==
    \A t \in Tasks :
       /\ queued[t] <= 1
       /\ queued[t] = 1 => state[t] = "RUN"

OwnedNotQueued ==
    \A p \in Resetters : \A t \in Tasks :
       Owns(p, t) => queued[t] = 0 /\ state[t] # "WAIT"

ExecutedRuns ==
    \A e \in Executors :
       /\ pc[e] \in { "syncStart", "execute" } => state[Head(todo[e])] = "RUN"
       /\ pc[e] = "check" => GroupOf[Head(todo[e])] # << >>

MutexHeld ==
    \A e \in Executors :
       pc[e] \in { "check", "begin", "input", "activate" } =>
          syncMutex[Home[e]] = e

\* Tasks of a scheduler that is not started are untouched.
NotStarted ==
    /\ Distinct(stopped)
    /\ \A s \in Range(stopped) : \A t \in Range(TaskList[s]) :
          /\ state[t] = "FINISH" /\ queued[t] = 0
          /\ \A p \in Resetters : ~Owns(p, t)

\* With a quiet start nothing is activated before start returns.
Quiet ==
    QuietStart /\ ~Started =>
       /\ \A t \in Tasks : queued[t] = 0 /\ state[t] \notin { "RUN", "PENDING" }
       /\ \A i \in Inputs : missed[i] = 0
       /\ \A p \in Executors \cup Notifiers : pc[p] = "idle"
       /\ pc[Starter] # "activate"

\* The owner of every task is unique and the state of the task fits to it.
Ownership ==
    /\ TypeOK
    /\ Jobs
    /\ OneOwner
    /\ QueuedRuns
    /\ OwnedNotQueued
    /\ ExecutedRuns
    /\ MutexHeld
    /\ NotStarted
    /\ Quiet

\* Groups are reset safely when all their tasks belong to one scheduler and
\* nothing is pushed while start resets the tasks.
SafeGroups ==
    \A t \in Tasks : GroupOf[t] # << >> =>
       /\ QuietStart
       /\ \A u \in Range(GroupOf[t]) : SchedulerOf(u) = SchedulerOf(t)

=============================================================================
