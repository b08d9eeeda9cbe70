----------------------- MODULE TaskActivation_proofs ------------------------
(***************************************************************************)
(* Proofs about TaskActivation, for every number of tasks, inputs,         *)
(* schedulers, executors and notifiers.  The first part shows that         *)
(* Ownership is an inductive invariant and that a task is executed once at *)
(* a time (AtMostOneExecution).  The second one, which rests on it, is     *)
(* about what the tasks are given: the inputs of a running task hold what  *)
(* it needs (ExactVolume), no activation is missed (NoMissedActivation),   *)
(* no notification is lost or used twice (SynchronousDelivery), and the    *)
(* tasks of a group are executed in turn (GroupLockstep).                  *)
(***************************************************************************)
EXTENDS TaskActivation, SequenceTheorems, TLAPS

\* The groups of variables in UNCHANGED, and the helpers of Input::reset.
USE DEF taskVars, queueVars, workVars, procVars, history, Suffices, Taken, Kept

-----------------------------------------------------------------------------
(* Facts about the constants and about sequences.                          *)

\* Every task belongs to exactly one scheduler.
LEMMA SchedulerOfTask ==
    ASSUME NEW t \in Tasks
    PROVE  /\ SchedulerOf(t) \in Schedulers
           /\ t \in Range(TaskList[SchedulerOf(t)])
           /\ \A s \in Schedulers : t \in Range(TaskList[s]) => s = SchedulerOf(t)
  <1>1. PICK s \in Schedulers : /\ t \in Range(TaskList[s])
                                /\ \A r \in Schedulers \ {s} : t \notin Range(TaskList[r])
    BY TaskAssumption
  <1> QED
    BY <1>1 DEF SchedulerOf

\* Every input belongs to a task.
LEMMA TaskOfInput == \A i \in Inputs : TaskOf(i) \in Tasks
  BY TaskAssumption DEF TaskOf

\* What remains of a list without duplicates when its head is removed.
LEMMA TailOfDistinct ==
    ASSUME NEW S, NEW s \in Seq(S), s # << >>, Distinct(s)
    PROVE  /\ Head(s) \in S /\ Head(s) \in Range(s)
           /\ Tail(s) \in Seq(S)
           /\ Distinct(Tail(s))
           /\ Range(Tail(s)) = Range(s) \ {Head(s)}
           /\ Len(s) > 1 <=> Tail(s) # << >>
           /\ Len(s) = 1 <=> Tail(s) = << >>
  <1> DEFINE u == Tail(s)
  <1>1. Len(s) \in Nat /\ Len(s) > 0 /\ DOMAIN s = 1..Len(s) /\ Head(s) = s[1]
    OBVIOUS
  <1>2. u \in Seq(S) /\ Len(u) = Len(s) - 1 /\ DOMAIN u = 1..Len(u)
    OBVIOUS
  <1>3. \A k \in 1..Len(u) : u[k] = s[k + 1]
    OBVIOUS
  <1>4. Distinct(u)
    BY <1>1, <1>2, <1>3 DEF Distinct
  <1>5. Head(s) \in S /\ Head(s) \in Range(s)
    BY <1>1 DEF Range
  <1>6. Range(u) \subseteq Range(s) \ {Head(s)}
    BY <1>1, <1>2, <1>3 DEF Range, Distinct
  <1>7. ASSUME NEW x \in Range(s), x # Head(s)
        PROVE  x \in Range(u)
    <2>1. PICK k \in DOMAIN s : s[k] = x
      BY DEF Range
    <2>2. k - 1 \in 1..Len(u) /\ u[k - 1] = x
      BY <1>1, <1>2, <1>3, <1>7, <2>1
    <2> QED
      BY <1>2, <2>2 DEF Range
  <1>8. /\ Len(s) > 1 <=> u # << >>
        /\ Len(s) = 1 <=> u = << >>
    <2>1. u # << >> => Len(u) # 0
      BY <1>2, EmptySeq
    <2>2. u = << >> => Len(u) = 0
      BY EmptySeq
    <2> HIDE DEF u
    <2> QED
      BY <1>1, <1>2, <2>1, <2>2
  <1> QED
    BY <1>2, <1>4, <1>5, <1>6, <1>7, <1>8

\* A list of length one has its head as its only element.
LEMMA RangeOfSingle ==
    ASSUME NEW S, NEW s \in Seq(S), Len(s) = 1
    PROVE  Range(s) = {Head(s)} /\ Head(s) \in S /\ Distinct(s)
  BY DEF Range, Distinct

\* A one-element list.
LEMMA Singleton ==
    ASSUME NEW S, NEW x \in S
    PROVE  /\ << x >> \in Seq(S) /\ << x >> # << >> /\ Len(<< x >>) = 1
           /\ Range(<< x >>) = {x} /\ Head(<< x >>) = x /\ Distinct(<< x >>)
  BY DEF Range, Distinct

\* The elements of a list over S are in S.
LEMMA RangeInSet ==
    ASSUME NEW S, NEW s \in Seq(S)
    PROVE  Range(s) \subseteq S
  BY DEF Range

-----------------------------------------------------------------------------
(* What the steps do to the parts of the invariant.                        *)

\* An input with synchronization has a positive threshold.
LEMMA SynchronThreshold == \A i \in Synchron : i \in Inputs /\ Threshold[i] \in Nat \ {0}
  BY InputAssumption

\* TaskImpl::activate moves a task out of TASK_WAIT or TASK_RESET, and queues
\* it only in the former case.
LEMMA ActivateEffect ==
    ASSUME TypeOK, NEW t \in Tasks, Activate(t)
    PROVE  /\ state' \in [Tasks -> TaskStates]
           /\ queued' \in [Tasks -> Nat]
           /\ \A u \in Tasks \ {t} : state'[u] = state[u] /\ queued'[u] = queued[u]
           /\ state[t] \notin { "WAIT", "RESET" } => state'[t] = state[t]
           /\ state[t] = "RESET" => state'[t] \in { "RESET", "PENDING" }
           /\ state[t] # "WAIT" => queued'[t] = queued[t]
           /\ state[t] = "WAIT" =>
                 \/ state'[t] = "WAIT" /\ queued'[t] = queued[t]
                 \/ state'[t] = "RUN" /\ queued'[t] \in { queued[t], queued[t] + 1 }
  <1>0. state \in [Tasks -> TaskStates] /\ queued \in [Tasks -> Nat]
    BY DEF TypeOK
  <1> USE DEF TaskStates
  <1>1. CASE state[t] = "WAIT" /\ Activated(t)
    <2>1. state' = [state EXCEPT ![t] = "RUN"] /\ Perform(t)
      BY <1>1 DEF Activate
    <2>2. queued' = [queued EXCEPT ![t] = @ + 1] \/ queued' = queued
      BY <2>1 DEF Perform
    <2> QED
      BY <1>0, <1>1, <2>1, <2>2
  <1>2. CASE state[t] = "RESET" /\ Activated(t)
    BY <1>0, <1>2 DEF Activate
  <1>3. CASE state[t] \notin { "WAIT", "RESET" } \/ ~Activated(t)
    BY <1>0, <1>3 DEF Activate
  <1> QED
    BY <1>1, <1>2, <1>3

\* A notifier does not touch what the owners of the tasks rely on.
LEMMA NotifierFrame ==
    ASSUME Ownership,
           UNCHANGED << state, queued, syncMutex, todo, stopped >>,
           \A p \in Resetters : pc'[p] = pc[p]
    PROVE  /\ Jobs' /\ OneOwner' /\ QueuedRuns' /\ OwnedNotQueued'
           /\ ExecutedRuns' /\ MutexHeld' /\ NotStarted'
  <1> USE DEF Ownership, Resetters
  <1>1. Jobs'
    BY DEF Jobs
  <1>2. \A p \in Resetters : \A t \in Tasks : Owns(p, t)' <=> Owns(p, t)
    BY DEF Owns
  <1>3. OneOwner' /\ QueuedRuns' /\ OwnedNotQueued'
    BY <1>2 DEF OneOwner, QueuedRuns, OwnedNotQueued
  <1>4. ExecutedRuns'
    BY DEF ExecutedRuns
  <1>5. MutexHeld'
    BY DEF MutexHeld
  <1>6. \A s \in Range(stopped) : \A t \in Range(TaskList[s]) : t \in Tasks
    BY RangeInSet, TaskAssumption DEF TypeOK
  <1>7. NotStarted'
    BY <1>2, <1>6 DEF NotStarted
  <1> QED
    BY <1>1, <1>3, <1>4, <1>5, <1>7

-----------------------------------------------------------------------------
(* Every step preserves the types.                                         *)

\* The steps of a notifier preserve the types.
LEMMA TypeNotify ==
    ASSUME TypeOK, NEW n \in Notifiers, Notify(n)
    PROVE  TypeOK'
  <1> USE ProcessAssumption
  <1>1. ASSUME NEW i \in Inputs, MayNotify(n, i)
        PROVE  /\ pushed' \in [Inputs -> Nat] /\ input' \in [Notifiers -> Inputs]
               /\ UNCHANGED << queueVars, todo, idx, stopped, executions >>
    BY <1>1 DEF TypeOK, MayNotify
  <1>2. ASSUME NEW x \in NotifierPCs, pc' = [pc EXCEPT ![n] = x]
        PROVE  /\ pc' \in [Processes -> ExecutorPCs \cup StarterPCs \cup NotifierPCs]
               /\ \A p \in Resetters : pc'[p] = pc[p]
               /\ \A m \in Notifiers : pc'[m] \in NotifierPCs
    BY <1>2 DEF TypeOK, Processes, Resetters
  <1>3. ASSUME NEW i \in Inputs, NotifyMissed(n, i)
        PROVE  TypeOK'
    <2>1. missed' \in [Inputs -> Nat]
      BY <1>3 DEF TypeOK, NotifyMissed
    <2> QED
      BY <1>1, <1>3, <2>1 DEF TypeOK, NotifyMissed
  <1>4. ASSUME NEW i \in Inputs, NotifySync(n, i)
        PROVE  TypeOK'
    <2>1. notifications' \in [Inputs -> Nat]
      BY <1>4 DEF TypeOK, NotifySync
    <2> QED
      BY <1>1, <1>2, <1>4, <2>1 DEF TypeOK, NotifySync, NotifierPCs, Resetters
  <1>5. ASSUME NEW i \in Inputs, NotifyLoad(n, i)
        PROVE  TypeOK'
    <2>1. reg' \in [Notifiers -> Nat]
      BY <1>5 DEF TypeOK, NotifyLoad
    <2> QED
      BY <1>1, <1>2, <1>5, <2>1 DEF TypeOK, NotifyLoad, NotifierPCs, Resetters
  <1>6. CASE NotifyStore(n)
    <2>1. notifications' \in [Inputs -> Nat]
      BY <1>6 DEF TypeOK, NotifyStore
    <2> QED
      BY <1>2, <1>6, <2>1 DEF TypeOK, NotifyStore, NotifierPCs, Resetters
  <1>7. CASE NotifyCheck(n)
    <2>1. PICK x \in { "activate", "idle" } : pc' = [pc EXCEPT ![n] = x]
      BY <1>7 DEF NotifyCheck
    <2> QED
      BY <1>2, <1>7, <2>1 DEF TypeOK, NotifyCheck, NotifierPCs, Resetters
  <1>8. CASE NotifyActivate(n)
    <2>1. state' \in [Tasks -> TaskStates] /\ queued' \in [Tasks -> Nat]
      BY <1>8, ActivateEffect, TaskOfInput DEF TypeOK, NotifyActivate
    <2> QED
      BY <1>2, <1>8, <2>1 DEF TypeOK, NotifyActivate, NotifierPCs, Resetters
  <1> QED
    BY <1>3, <1>4, <1>5, <1>6, <1>7, <1>8 DEF Notify

\* The task a resetter works on.
LEMMA CurrentTask ==
    ASSUME TypeOK, Jobs, NEW p \in Resetters, pc[p] # "idle"
    PROVE  /\ todo[p] \in Seq(Tasks) /\ todo[p] # << >> /\ Distinct(todo[p])
           /\ Head(todo[p]) \in Tasks
           /\ Owns(p, Head(todo[p]))
           /\ Tail(todo[p]) \in Seq(Tasks)
  <1>1. todo[p] \in Seq(Tasks) /\ todo[p] # << >> /\ Distinct(todo[p])
    BY DEF TypeOK, Jobs
  <1> QED
    BY <1>1, TailOfDistinct DEF Owns

\* The steps of SchedulerImpl::execute preserve the types.
LEMMA TypeExecute ==
    ASSUME TypeOK, Jobs, NEW e \in Executors, Execute(e)
    PROVE  TypeOK'
  <1> USE ProcessAssumption
  <1>0. e \in Resetters
    BY DEF Resetters
  <1>1. ASSUME NEW x \in ExecutorPCs, pc' = [pc EXCEPT ![e] = x]
        PROVE  /\ pc' \in [Processes -> ExecutorPCs \cup StarterPCs \cup NotifierPCs]
               /\ \A f \in Executors : pc'[f] \in ExecutorPCs
               /\ pc'[Starter] \in StarterPCs
               /\ \A n \in Notifiers : pc'[n] \in NotifierPCs
    BY <1>1 DEF TypeOK, Processes, Resetters
  <1>2. CASE \E t \in Tasks : Take(e, t)
    <2>1. PICK t \in Tasks : Take(e, t)
      BY <1>2
    <2>2. queued' \in [Tasks -> Nat]
      BY <2>1 DEF TypeOK, Take
    <2>3. todo' \in [Resetters -> Seq(Tasks)]
      BY <1>0, <2>1, Singleton DEF TypeOK, Take
    <2>4. pc' = [pc EXCEPT ![e] = "syncStart"]
      BY <2>1 DEF Take
    <2> QED
      <3>1. /\ pc' \in [Processes -> ExecutorPCs \cup StarterPCs \cup NotifierPCs]
            /\ \A f \in Executors : pc'[f] \in ExecutorPCs
            /\ pc'[Starter] \in StarterPCs
            /\ \A n \in Notifiers : pc'[n] \in NotifierPCs
        BY <1>1, <2>4 DEF ExecutorPCs
      <3> QED
        BY <2>1, <2>2, <2>3, <3>1 DEF TypeOK, Take
  <1>3. CASE SynchronizeStart(e)
    <2>1. Head(todo[e]) \in Tasks
      BY <1>0, <1>3, CurrentTask DEF SynchronizeStart
    <2>2. executions' = [executions EXCEPT ![Head(todo[e])] = @ + 1]
      BY <1>3 DEF SynchronizeStart
    <2>3. executions' \in [Tasks -> Nat]
      BY <2>1, <2>2 DEF TypeOK
    <2> QED
      BY <1>1, <1>3, <2>3 DEF TypeOK, SynchronizeStart, ExecutorPCs
  <1>4. CASE FinalizeAlone(e)
    BY <1>1, <1>4 DEF TypeOK, FinalizeAlone, ExecutorPCs
  <1>5. CASE FinalizeInGroup(e)
    <2>1. state' \in [Tasks -> TaskStates]
      BY <1>5 DEF TypeOK, FinalizeInGroup, TaskStates
    <2> QED
      BY <1>1, <1>5, <2>1 DEF TypeOK, FinalizeInGroup, ExecutorPCs
  <1>6. CASE GroupReset(e)
    <2>1. GroupOf[Head(todo[e])] \in Seq(Tasks)
      BY <1>0, <1>6, CurrentTask, GroupAssumption DEF GroupReset
    <2>2. todo' = [todo EXCEPT ![e] = GroupOf[Head(todo[e])]]
      BY <1>6 DEF GroupReset
    <2>3. todo' \in [Resetters -> Seq(Tasks)]
      BY <2>1, <2>2 DEF TypeOK
    <2> QED
      BY <1>1, <1>6, <2>3 DEF TypeOK, GroupReset, ExecutorPCs
  <1>7. CASE GroupWait(e)
    <2>1. todo' \in [Resetters -> Seq(Tasks)]
      BY <1>0, <1>7, EmptySeq DEF TypeOK, GroupWait
    <2> QED
      BY <1>1, <1>7, <2>1 DEF TypeOK, GroupWait, ExecutorPCs
  <1> QED
    BY <1>2, <1>3, <1>4, <1>5, <1>6, <1>7 DEF Execute

\* The steps of Task::reset preserve the types.
LEMMA TypeReset ==
    ASSUME TypeOK, Jobs, NEW p \in Resetters, Reset(p)
    PROVE  TypeOK'
  <1> USE ProcessAssumption
  <1>1. ASSUME NEW x \in { "idle", "begin", "input", "activate" },
               pc' = [pc EXCEPT ![p] = x]
        PROVE  /\ pc' \in [Processes -> ExecutorPCs \cup StarterPCs \cup NotifierPCs]
               /\ \A f \in Executors : pc'[f] \in ExecutorPCs
               /\ pc'[Starter] \in StarterPCs
               /\ \A n \in Notifiers : pc'[n] \in NotifierPCs
    BY <1>1 DEF TypeOK, Processes, Resetters, ExecutorPCs, StarterPCs
  <1>2. ASSUME pc[p] # "idle"
        PROVE  Head(todo[p]) \in Tasks /\ Tail(todo[p]) \in Seq(Tasks)
    BY <1>2, CurrentTask
  <1>3. idx' = [idx EXCEPT ![p] = @ + 1] => idx' \in [Resetters -> Nat]
    BY DEF TypeOK
  <1>4. CASE BeginReset(p)
    <2>1. state' \in [Tasks -> TaskStates]
      BY <1>4 DEF TypeOK, BeginReset, TaskStates
    <2>2. idx' \in [Resetters -> Nat]
      BY <1>4 DEF TypeOK, BeginReset
    <2> QED
      BY <1>1, <1>4, <2>1, <2>2 DEF TypeOK, BeginReset
  <1>5. CASE ResetOvertake(p)
    <2> DEFINE i == CurrentInput(p)
    <2>1. i \in Synchron /\ missed[i] >= Threshold[i]
      BY <1>5 DEF ResetOvertake
    <2>2. i \in Inputs /\ Threshold[i] \in Nat
      BY <2>1, SynchronThreshold
    <2>3. /\ missed' = [missed EXCEPT ![i] = @ - Threshold[i]]
          /\ notifications' = [notifications EXCEPT ![i] = Threshold[i]]
      BY <1>5 DEF ResetOvertake
    <2> HIDE DEF i
    <2>4. missed' \in [Inputs -> Nat] /\ notifications' \in [Inputs -> Nat]
      BY <2>1, <2>2, <2>3 DEF TypeOK
    <2> QED
      BY <1>1, <1>5, <2>4 DEF TypeOK, ResetOvertake
  <1>6. CASE ResetActivate(p)
    <2>1. state' \in [Tasks -> TaskStates] /\ queued' \in [Tasks -> Nat]
      BY <1>2, <1>6, ActivateEffect DEF ResetActivate
    <2> QED
      BY <1>1, <1>3, <1>6, <2>1 DEF TypeOK, ResetActivate
  <1>7. CASE ResetInput(p)
    <2> DEFINE i == CurrentInput(p)
    <2>1. i \in Synchron => i \in Inputs
      BY SynchronThreshold
    <2>2. /\ notifications' = [notifications EXCEPT
                                  ![i] = IF i \in Synchron THEN missed[i] ELSE 0]
          /\ missed' = [missed EXCEPT ![i] = IF i \in Synchron THEN 0 ELSE @]
      BY <1>7 DEF ResetInput
    <2> HIDE DEF i
    <2>3. missed' \in [Inputs -> Nat] /\ notifications' \in [Inputs -> Nat]
      BY <2>1, <2>2 DEF TypeOK
    <2> QED
      BY <1>3, <1>7, <2>3 DEF TypeOK, ResetInput
  <1>8. CASE EndReset(p)
    <2>1. state' \in [Tasks -> TaskStates] /\ queued' \in [Tasks -> Nat]
      <3>1. \/ state' = [state EXCEPT ![Head(todo[p])] = "RUN"]
            \/ state' = [state EXCEPT ![Head(todo[p])] = "WAIT"]
        BY <1>8 DEF EndReset
      <3>2. \/ queued' = queued
            \/ queued' = [queued EXCEPT ![Head(todo[p])] = @ + 1]
        BY <1>8 DEF EndReset, Perform
      <3>3. state' \in [Tasks -> TaskStates]
        BY <3>1 DEF TypeOK, TaskStates
      <3>4. queued' \in [Tasks -> Nat]
        <4>1. Head(todo[p]) \in Tasks
          BY <1>2, <1>8 DEF EndReset
        <4>2. queued \in [Tasks -> Nat]
          BY DEF TypeOK
        <4> QED
          BY <3>2, <4>1, <4>2
      <3> QED
        BY <3>3, <3>4
    <2>2. todo' \in [Resetters -> Seq(Tasks)]
      BY <1>2, <1>8 DEF TypeOK, EndReset
    <2>3. syncMutex' \in [Schedulers -> Executors \cup {NoProc}]
      BY <1>8 DEF TypeOK, EndReset
    <2>4. PICK x \in { "begin", "idle" } : pc' = [pc EXCEPT ![p] = x]
      BY <1>8 DEF EndReset
    <2> QED
      BY <1>1, <1>8, <2>1, <2>2, <2>3, <2>4 DEF TypeOK, EndReset
  <1> QED
    BY <1>4, <1>5, <1>6, <1>7, <1>8 DEF Reset

\* Scheduler::start preserves the types.
LEMMA TypeStart ==
    ASSUME TypeOK, Start
    PROVE  TypeOK'
  <1> USE ProcessAssumption DEF Start
  <1>1. /\ Head(stopped) \in Schedulers
        /\ stopped' \in Seq(Schedulers)
    BY DEF TypeOK
  <1>2. TaskList[Head(stopped)] \in Seq(Tasks)
    BY <1>1, TaskAssumption
  <1>3. todo' \in [Resetters -> Seq(Tasks)]
    BY <1>2 DEF TypeOK
  <1>4. running' \in [Schedulers -> BOOLEAN]
    BY DEF TypeOK
  <1>5. PICK x \in { "idle", "begin" } : pc' = [pc EXCEPT ![Starter] = x]
    OBVIOUS
  <1>6. /\ pc' \in [Processes -> ExecutorPCs \cup StarterPCs \cup NotifierPCs]
        /\ \A f \in Executors : pc'[f] \in ExecutorPCs
        /\ pc'[Starter] \in StarterPCs
        /\ \A n \in Notifiers : pc'[n] \in NotifierPCs
    BY <1>5 DEF TypeOK, Processes, Resetters, StarterPCs
  <1> QED
    BY <1>1, <1>3, <1>4, <1>6 DEF TypeOK

-----------------------------------------------------------------------------
(* Every step preserves Ownership.                                         *)

\* No task changes hands, and only owned tasks change their state.
LEMMA OwnersKept ==
    ASSUME Ownership, stopped' = stopped,
           \A p \in Resetters : \A t \in Tasks : Owns(p, t)' => Owns(p, t),
           \A t \in Tasks : queued'[t] = queued[t],
           \A t \in Tasks : \/ state'[t] = state[t]
                            \/ /\ state'[t] # "WAIT"
                               /\ \E p \in Resetters : Owns(p, t)
    PROVE  OneOwner' /\ QueuedRuns' /\ OwnedNotQueued' /\ NotStarted'
  <1> USE DEF Ownership
  <1>1. OneOwner'
    BY DEF OneOwner
  <1>2. QueuedRuns'
    BY DEF QueuedRuns, OwnedNotQueued
  <1>3. OwnedNotQueued'
    BY DEF OwnedNotQueued
  <1>4. \A s \in Range(stopped) : \A t \in Range(TaskList[s]) : t \in Tasks
    BY RangeInSet, TaskAssumption DEF TypeOK
  <1>5. NotStarted'
    BY <1>4 DEF NotStarted
  <1> QED
    BY <1>1, <1>2, <1>3, <1>5

\* A task is activated and no task changes hands.
LEMMA OwnersActivate ==
    ASSUME Ownership, stopped' = stopped,
           NEW t \in Tasks, Activate(t),
           \A p \in Resetters : \A u \in Tasks : Owns(p, u)' <=> Owns(p, u)
    PROVE  OneOwner' /\ QueuedRuns' /\ OwnedNotQueued' /\ NotStarted'
  <1> USE DEF Ownership
  <1>1. OneOwner'
    BY DEF OneOwner
  <1>2. queued[t] \in Nat /\ state[t] \in TaskStates
    BY DEF TypeOK
  <1>3. state[t] = "WAIT" => queued[t] = 0
    BY <1>2 DEF QueuedRuns
  <1>4. QueuedRuns'
    BY <1>2, <1>3, ActivateEffect DEF QueuedRuns, TaskStates
  <1>5. OwnedNotQueued'
    BY <1>2, ActivateEffect DEF OwnedNotQueued, TaskStates
  <1>6. \A s \in Range(stopped) : \A u \in Range(TaskList[s]) : u \in Tasks
    BY RangeInSet, TaskAssumption DEF TypeOK
  <1>7. NotStarted'
    BY <1>6, ActivateEffect DEF NotStarted
  <1> QED
    BY <1>1, <1>4, <1>5, <1>7

\* A notifier owns no task: it only activates a waiting task or marks one that
\* is being reset.
LEMMA NotifyPreservesOwnership ==
    ASSUME Ownership, NEW n \in Notifiers, Notify(n)
    PROVE  Ownership'
  <1>1. TypeOK'
    BY TypeNotify DEF Ownership
  <1>2. /\ QuietStart => Started
        /\ UNCHANGED << syncMutex, todo, stopped >>
        /\ \A p \in Resetters : pc'[p] = pc[p]
    <2>1. /\ UNCHANGED << syncMutex, todo, stopped >>
          /\ \A p \in Resetters : pc'[p] = pc[p]
      BY ProcessAssumption DEF Ownership, TypeOK, Notify, NotifyMissed, NotifySync,
           NotifyLoad, NotifyStore, NotifyCheck, NotifyActivate, MayNotify,
           Resetters, Processes
    <2>2. \/ \E i \in Inputs : MayNotify(n, i)
          \/ pc[n] # "idle"
      BY DEF Notify, NotifyMissed, NotifySync, NotifyLoad, NotifyStore,
             NotifyCheck, NotifyActivate
    <2>3. QuietStart => Started
      BY <2>2 DEF MayNotify, Ownership, Quiet
    <2> QED
      BY <2>1, <2>3
  <1>3. Quiet'
    BY <1>2 DEF Quiet, Started, Resetters
  <1>4. CASE NotifyActivate(n)
    <2>1. Activate(TaskOf(input[n])) /\ TaskOf(input[n]) \in Tasks
      BY <1>4, TaskOfInput DEF NotifyActivate, Ownership, TypeOK
    <2>2. \A p \in Resetters : \A u \in Tasks : Owns(p, u)' <=> Owns(p, u)
      BY <1>2 DEF Owns
    <2>3. OneOwner' /\ QueuedRuns' /\ OwnedNotQueued' /\ NotStarted'
      BY <1>2, <2>1, <2>2, OwnersActivate
    <2>4. Jobs' /\ MutexHeld'
      BY <1>2 DEF Ownership, Jobs, MutexHeld, Resetters
    <2>5. \A e \in Executors : pc[e] # "idle" => Head(todo[e]) \in Tasks
      BY CurrentTask DEF Ownership, Resetters
    <2>6. ExecutedRuns'
      BY <1>2, <2>1, <2>5, ActivateEffect DEF Ownership, ExecutedRuns, Resetters
    <2> QED
      BY <1>1, <1>3, <2>3, <2>4, <2>6 DEF Ownership
  <1>5. CASE ~NotifyActivate(n)
    <2>1. UNCHANGED << state, queued >>
      BY <1>5 DEF Notify, NotifyMissed, NotifySync, NotifyLoad, NotifyStore,
                  NotifyCheck, MayNotify
    <2> QED
      BY <1>1, <1>2, <1>3, <2>1, NotifierFrame DEF Ownership
  <1> QED
    BY <1>4, <1>5

\* Scheduler::start takes over the tasks of a scheduler that was not started.
LEMMA StartPreservesOwnership ==
    ASSUME Ownership, Start
    PROVE  Ownership'
  <1> USE ProcessAssumption
  <1> DEFINE s == Head(stopped)
  <1>1. TypeOK'
    BY TypeStart DEF Ownership
  <1>2. /\ stopped \in Seq(Schedulers) /\ stopped # << >> /\ Distinct(stopped)
        /\ pc[Starter] = "idle"
        /\ stopped' = Tail(stopped)
        /\ UNCHANGED << state, notifications, missed, queued, syncMutex >>
    BY DEF Start, Ownership, TypeOK, NotStarted
  <1>3. /\ s \in Schedulers /\ s \in Range(stopped)
        /\ Distinct(stopped') /\ Range(stopped') = Range(stopped) \ {s}
    BY <1>2, TailOfDistinct
  <1>4. /\ \A p \in Executors \cup Notifiers : pc'[p] = pc[p]
        /\ \A e \in Executors : todo'[e] = todo[e]
        /\ todo'[Starter] = TaskList[s]
        /\ pc'[Starter] = IF TaskList[s] = << >> THEN "idle" ELSE "begin"
    BY DEF Start, Ownership, TypeOK, Processes, Resetters
  <1> HIDE DEF s
  <1>5. TaskList[s] \in Seq(Tasks) /\ Distinct(TaskList[s])
    BY <1>3, TaskAssumption
  <1>6. \A e \in Executors : \A t \in Tasks : Owns(e, t)' <=> Owns(e, t)
    BY <1>4 DEF Owns
  <1>7. \A t \in Tasks : Owns(Starter, t)' => t \in Range(TaskList[s])
    BY <1>4 DEF Owns
  <1>8. Jobs'
    BY <1>4, <1>5 DEF Jobs, Ownership, Resetters
  <1>9. OneOwner'
    BY <1>3, <1>6, <1>7 DEF OneOwner, NotStarted, Ownership, Resetters
  <1>10. QueuedRuns'
    BY <1>2 DEF QueuedRuns, Ownership
  <1>11. OwnedNotQueued'
    BY <1>2, <1>3, <1>6, <1>7 DEF OwnedNotQueued, NotStarted, Ownership, Resetters
  <1>12. ExecutedRuns'
    BY <1>2, <1>4 DEF ExecutedRuns, Ownership
  <1>13. MutexHeld'
    BY <1>2, <1>4 DEF MutexHeld, Ownership
  <1>14. \A r \in Range(stopped) : r \in Schedulers /\ Range(TaskList[r]) \subseteq Tasks
    BY <1>2, RangeInSet, TaskAssumption
  <1>15. \A r \in Range(stopped) \ {s} : \A t \in Range(TaskList[r]) :
            t \notin Range(TaskList[s])
    BY <1>3, <1>14, SchedulerOfTask
  <1>16. NotStarted'
    BY <1>2, <1>3, <1>6, <1>7, <1>14, <1>15 DEF NotStarted, Ownership, Resetters
  <1>17. Quiet'
    <2>1. ~Started
      BY <1>2 DEF Started
    <2> QED
      BY <1>2, <1>4, <2>1 DEF Quiet, Ownership
  <1> QED
    BY <1>1, <1>8, <1>9, <1>10, <1>11, <1>12, <1>13, <1>16, <1>17 DEF Ownership

\* An executor takes a queued task, executes it and finalizes the execution.
LEMMA ExecutePreservesOwnership ==
    ASSUME SafeGroups, Ownership, NEW e \in Executors, Execute(e)
    PROVE  Ownership'
  <1> USE ProcessAssumption
  <1> DEFINE c == Head(todo[e])
  <1>1. TypeOK'
    BY TypeExecute DEF Ownership
  <1>2. /\ e \in Resetters /\ e # Starter
        /\ pc[e] # "idle" => /\ c \in Tasks /\ Owns(e, c)
                            /\ todo[e] \in Seq(Tasks) /\ Distinct(todo[e])
                            /\ SchedulerOf(c) = Home[e]
    <2>1. e \in Resetters /\ e # Starter
      BY DEF Resetters
    <2>2. pc[e] # "idle" => c \in Tasks /\ Owns(e, c)
                          /\ todo[e] \in Seq(Tasks) /\ Distinct(todo[e])
      BY <2>1, CurrentTask DEF Ownership
    <2>3. pc[e] # "idle" => SchedulerOf(c) = Home[e]
      BY <2>1, <2>2 DEF Ownership, Jobs, Owns
    <2> QED
      BY <2>1, <2>2, <2>3
  <1>3. /\ stopped' = stopped /\ pc'[Starter] = pc[Starter]
        /\ \A p \in Resetters \ {e} : pc'[p] = pc[p] /\ todo'[p] = todo[p]
        /\ \A n \in Notifiers : pc'[n] = pc[n]
    BY DEF Execute, Take, SynchronizeStart, FinalizeAlone, FinalizeInGroup,
           GroupReset, GroupWait, Ownership, TypeOK, Processes, Resetters
  <1>4. \A p \in Resetters \ {e} : \A t \in Tasks : Owns(p, t)' <=> Owns(p, t)
    BY <1>3 DEF Owns
  <1>5. Quiet'
    <2>1. QuietStart => Started
      <3>1. pc[e] # "idle" \/ \E t \in Tasks : queued[t] > 0
        BY DEF Execute, Take, SynchronizeStart, FinalizeAlone, FinalizeInGroup,
               GroupReset, GroupWait
      <3> QED
        BY <3>1 DEF Ownership, Quiet
    <2> QED
      BY <1>3, <2>1 DEF Quiet, Started
  <1> HIDE DEF c
  <1>6. CASE \E t \in Tasks : Take(e, t)
    <2>1. PICK t \in Tasks : Take(e, t)
      BY <1>6
    <2>2. /\ pc[e] = "idle" /\ pc'[e] = "syncStart" /\ todo'[e] = << t >>
          /\ SchedulerOf(t) = Home[e]
          /\ UNCHANGED << state, syncMutex >>
      BY <1>2, <2>1 DEF Take, Ownership, TypeOK, Processes
    <2>3. /\ queued[t] = 1 /\ queued'[t] = 0 /\ state[t] = "RUN"
          /\ \A u \in Tasks \ {t} : queued'[u] = queued[u]
      BY <2>1 DEF Take, Ownership, TypeOK, QueuedRuns
    <2>4. \A p \in Resetters : ~Owns(p, t)
      BY <2>3 DEF Ownership, OwnedNotQueued
    <2>5. /\ << t >> # << >> /\ Distinct(<< t >>) /\ Len(<< t >>) = 1
          /\ Range(<< t >>) = {t} /\ Head(<< t >>) = t
      BY Singleton
    <2>6. \A u \in Tasks : Owns(e, u)' <=> u = t
      BY <2>2, <2>5 DEF Owns
    <2>7. Jobs'
      BY <1>2, <1>3, <2>2, <2>5 DEF Jobs, Ownership, Resetters
    <2>8. OneOwner'
      BY <1>4, <2>4, <2>6 DEF OneOwner, Ownership
    <2>9. QueuedRuns'
      BY <2>2, <2>3 DEF QueuedRuns, Ownership
    <2>10. OwnedNotQueued'
      BY <1>4, <2>2, <2>3, <2>6 DEF OwnedNotQueued, Ownership
    <2>11. ExecutedRuns'
      BY <1>3, <2>2, <2>3, <2>5 DEF ExecutedRuns, Ownership, Resetters
    <2>12. MutexHeld'
      BY <1>3, <2>2 DEF MutexHeld, Ownership, Resetters
    <2>13. \A s \in Range(stopped) : \A u \in Range(TaskList[s]) : u \in Tasks /\ u # t
      BY <2>3, RangeInSet, TaskAssumption DEF Ownership, NotStarted, TypeOK
    <2>14. NotStarted'
      BY <1>3, <1>4, <2>2, <2>3, <2>6, <2>13 DEF NotStarted, Ownership
    <2> QED
      BY <1>1, <1>5, <2>7, <2>8, <2>9, <2>10, <2>11, <2>12, <2>14 DEF Ownership
  <1>7. CASE SynchronizeStart(e) \/ FinalizeAlone(e) \/ GroupWait(e)
    <2>1. /\ pc[e] # "idle"
          /\ pc'[e] # "idle" => todo'[e] = todo[e]
          /\ UNCHANGED << state, queued >>
          /\ pc'[e] = "execute" => pc[e] = "syncStart"
          /\ pc'[e] \in { "idle", "execute", "begin" }
          /\ pc'[e] = "begin" => syncMutex'[Home[e]] = e
          /\ \A s \in Schedulers : \/ syncMutex'[s] = syncMutex[s]
                                  \/ syncMutex[s] \in { NoProc, e }
      <3>1. /\ e \in Processes /\ Home[e] \in Schedulers
            /\ pc \in [Processes -> ExecutorPCs \cup StarterPCs \cup NotifierPCs]
            /\ todo \in [Resetters -> Seq(Tasks)]
            /\ syncMutex \in [Schedulers -> Executors \cup {NoProc}]
        BY <1>2 DEF Processes, Ownership, TypeOK
      <3>2. CASE SynchronizeStart(e)
        BY <3>1, <3>2 DEF SynchronizeStart
      <3>3. CASE FinalizeAlone(e)
        BY <3>1, <3>3 DEF FinalizeAlone
      <3>4. CASE GroupWait(e)
        <4>1. syncMutex[Home[e]] = e
          BY <3>4 DEF GroupWait, Ownership, MutexHeld
        <4> QED
          BY <3>1, <3>4, <4>1 DEF GroupWait
      <3> QED
        BY <1>7, <3>2, <3>3, <3>4
    <2>2. \A p \in Resetters : \A t \in Tasks : Owns(p, t)' => Owns(p, t)
      BY <1>2, <1>4, <2>1 DEF Owns
    <2>3. OneOwner' /\ QueuedRuns' /\ OwnedNotQueued' /\ NotStarted'
      BY <1>3, <2>1, <2>2, OwnersKept
    <2>4. Jobs'
      BY <1>2, <1>3, <2>1 DEF Jobs, Ownership, Resetters
    <2>5. ExecutedRuns'
      BY <1>3, <2>1 DEF ExecutedRuns, Ownership, Resetters
    <2>6. MutexHeld'
      BY <1>3, <2>1 DEF MutexHeld, Ownership, Resetters
    <2> QED
      BY <1>1, <1>5, <2>3, <2>4, <2>5, <2>6 DEF Ownership
  <1>8. CASE FinalizeInGroup(e)
    <2>1. /\ pc[e] = "execute" /\ pc'[e] = "check"
          /\ UNCHANGED << todo, queued >>
          /\ GroupOf[c] # << >>
          /\ state'[c] = "FINISH"
          /\ \A t \in Tasks \ {c} : state'[t] = state[t]
          /\ syncMutex[Home[e]] = NoProc /\ syncMutex'[Home[e]] = e
          /\ \A s \in Schedulers \ {Home[e]} : syncMutex'[s] = syncMutex[s]
      BY <1>2, <1>8 DEF FinalizeInGroup, Ownership, TypeOK, Processes, c
    <2>2. \A p \in Resetters : \A t \in Tasks : Owns(p, t)' => Owns(p, t)
      BY <1>2, <1>4, <2>1 DEF Owns
    <2>3. c \in Tasks /\ Owns(e, c)
      BY <1>2, <2>1
    <2>4. OneOwner' /\ QueuedRuns' /\ OwnedNotQueued' /\ NotStarted'
      BY <1>2, <1>3, <2>1, <2>2, <2>3, OwnersKept
    <2>5. Jobs'
      BY <1>2, <1>3, <2>1 DEF Jobs, Ownership, Resetters
    <2>6. \A f \in Executors \ {e} : pc[f] # "idle" =>
             Head(todo[f]) \in Tasks /\ Head(todo[f]) # c
      <3>1. \A f \in Executors \ {e} : pc[f] # "idle" =>
               Head(todo[f]) \in Tasks /\ Owns(f, Head(todo[f]))
        BY CurrentTask DEF Ownership, Resetters
      <3> QED
        BY <1>2, <2>3, <3>1 DEF Ownership, OneOwner, Resetters
    <2>7. ExecutedRuns'
      BY <1>3, <2>1, <2>6 DEF ExecutedRuns, Ownership, Resetters, c
    <2>8. MutexHeld'
      BY <1>3, <2>1 DEF MutexHeld, Ownership, Resetters
    <2> QED
      BY <1>1, <1>5, <2>4, <2>5, <2>7, <2>8 DEF Ownership
  <1>9. CASE GroupReset(e)
    <2> DEFINE g == GroupOf[c]
    <2>1. /\ pc[e] = "check" /\ pc'[e] = "begin" /\ todo'[e] = g
          /\ \A u \in Range(g) : state[u] = "FINISH"
          /\ UNCHANGED << state, queued, syncMutex >>
      BY <1>2, <1>9 DEF GroupReset, AreAllExecuted, Ownership, TypeOK, Processes, c
    <2>2. c \in Tasks /\ g # << >>
      BY <1>2, <2>1 DEF Ownership, ExecutedRuns, c
    <2>3. /\ g \in Seq(Tasks) /\ Distinct(g) /\ Range(g) \subseteq Tasks
          /\ \A u \in Range(g) : SchedulerOf(u) = Home[e]
          /\ QuietStart
      BY <1>2, <2>1, <2>2, GroupAssumption, RangeInSet DEF SafeGroups
    <2>4. syncMutex[Home[e]] = e
      BY <2>1 DEF Ownership, MutexHeld
    <2>5. pc[Starter] = "idle" /\ stopped = << >>
      BY <1>2, <2>1, <2>3 DEF Ownership, Quiet, Started
    <2>6. ASSUME NEW u \in Range(g), NEW p \in Resetters, p # e
          PROVE  ~Owns(p, u)
      <3>1. SUFFICES ASSUME Owns(p, u)
                     PROVE  FALSE
        OBVIOUS
      <3>2. p \in Executors /\ pc[p] # "idle" /\ u \in Range(todo[p])
        BY <2>5, <3>1 DEF Owns, Resetters
      <3>3. Home[p] = Home[e]
        BY <2>3, <3>2 DEF Ownership, Jobs
      <3>4. pc[p] \notin { "check", "begin", "input", "activate" }
        BY <2>4, <2>6, <3>2, <3>3 DEF Ownership, MutexHeld
      <3>5. pc[p] \in { "syncStart", "execute" }
        BY <3>2, <3>4 DEF Ownership, TypeOK, ExecutorPCs
      <3>6. u = Head(todo[p])
        BY <3>2, <3>5, RangeOfSingle DEF Ownership, Jobs, TypeOK
      <3> QED
        BY <2>1, <3>2, <3>5, <3>6 DEF Ownership, ExecutedRuns
    <2> HIDE DEF g
    <2>7. \A u \in Tasks : Owns(e, u)' <=> u \in Range(g)
      BY <2>1 DEF Owns
    <2>8. Jobs'
      BY <1>2, <1>3, <2>1, <2>2, <2>3 DEF Jobs, Ownership, Resetters, g
    <2>9. OneOwner'
      BY <1>4, <2>6, <2>7 DEF OneOwner, Ownership
    <2>10. QueuedRuns'
      BY <2>1 DEF QueuedRuns, Ownership
    <2>11. \A u \in Range(g) : queued[u] = 0
      BY <2>1, <2>3, SMTT(30) DEF QueuedRuns, Ownership, TypeOK
    <2>12. OwnedNotQueued'
      BY <1>4, <2>1, <2>7, <2>11 DEF OwnedNotQueued, Ownership
    <2>13. ExecutedRuns'
      BY <1>3, <2>1 DEF ExecutedRuns, Ownership, Resetters
    <2>14. MutexHeld'
      BY <1>3, <2>1, <2>4 DEF MutexHeld, Ownership, Resetters
    <2>15. NotStarted'
      <3>1. stopped' = stopped /\ Range(stopped) = {} /\ Distinct(stopped)
        BY <1>3, <2>5 DEF Range, Ownership, NotStarted
      <3> QED
        BY <3>1 DEF NotStarted
    <2> QED
      BY <1>1, <1>5, <2>8, <2>9, <2>10, <2>12, <2>13, <2>14, <2>15 DEF Ownership
  <1> QED
    BY <1>6, <1>7, <1>8, <1>9 DEF Execute

\* Task::reset of the task Head(todo[p]) and the end of the loop over tasks.
LEMMA ResetPreservesOwnership ==
    ASSUME Ownership, NEW p \in Resetters, Reset(p)
    PROVE  Ownership'
  <1> USE ProcessAssumption
  <1> DEFINE c == Head(todo[p])
  <1>1. TypeOK'
    BY TypeReset DEF Ownership
  <1>2. /\ pc[p] \in { "begin", "input", "activate" }
        /\ stopped' = stopped
        /\ \A q \in Resetters \ {p} : pc'[q] = pc[q] /\ todo'[q] = todo[q]
        /\ \A n \in Notifiers : pc'[n] = pc[n]
        /\ pc'[p] \in { "begin", "input", "activate", "idle" }
    BY DEF Reset, BeginReset, ResetOvertake, ResetActivate, ResetInput, EndReset,
           Ownership, TypeOK, Processes, Resetters
  <1>3. /\ c \in Tasks /\ Owns(p, c)
        /\ todo[p] \in Seq(Tasks) /\ todo[p] # << >> /\ Distinct(todo[p])
    BY <1>2, CurrentTask DEF Ownership
  <1>4. \A q \in Resetters \ {p} : \A t \in Tasks : Owns(q, t)' <=> Owns(q, t)
    BY <1>2 DEF Owns
  <1>5. \A f \in Executors \ {p} : pc[f] # "idle" =>
           Head(todo[f]) \in Tasks /\ Head(todo[f]) # c
    <2>1. \A f \in Executors \ {p} : pc[f] # "idle" =>
             Head(todo[f]) \in Tasks /\ Owns(f, Head(todo[f]))
      BY CurrentTask DEF Ownership, Resetters
    <2> QED
      BY <1>3, <2>1 DEF Ownership, OneOwner, Resetters
  <1>6. ASSUME \A t \in Tasks \ {c} : state'[t] = state[t]
        PROVE  ExecutedRuns'
    BY <1>2, <1>5, <1>6 DEF Ownership, ExecutedRuns, Resetters
  <1>7. QuietStart /\ ~Started =>
           /\ p = Starter /\ pc[p] # "activate"
           /\ state[c] \notin { "RUN", "PENDING" }
           /\ \A i \in Inputs : missed[i] = 0
    BY <1>2, <1>3 DEF Ownership, Quiet, Resetters
  <1>8. QuietStart /\ ~Started' => ~Started \/ p = Starter
    BY <1>2 DEF Started, Resetters
  <1>9. p = Starter => ~Started
    BY <1>2 DEF Started
  <1> HIDE DEF c
  <1>10. CASE BeginReset(p) \/ ResetOvertake(p) \/ ResetInput(p)
    <2>1. /\ UNCHANGED << todo, queued, syncMutex >>
          /\ state'[c] = state[c] \/ state'[c] = "RESET"
          /\ \A t \in Tasks \ {c} : state'[t] = state[t]
      BY <1>3, <1>10 DEF BeginReset, ResetOvertake, ResetInput, Ownership, TypeOK, c
    <2>2. \A q \in Resetters : \A t \in Tasks : Owns(q, t)' => Owns(q, t)
      BY <1>2, <1>4, <2>1 DEF Owns
    <2>3. OneOwner' /\ QueuedRuns' /\ OwnedNotQueued' /\ NotStarted'
      BY <1>2, <1>3, <2>1, <2>2, OwnersKept
    <2>4. pc'[p] \in { "input", "activate" }
      BY <1>10 DEF BeginReset, ResetOvertake, ResetInput, Ownership, TypeOK, Processes
    <2>5. Jobs'
      BY <1>2, <2>1, <2>4 DEF Jobs, Ownership, Resetters
    <2>6. ExecutedRuns'
      BY <1>6, <2>1
    <2>7. MutexHeld'
      BY <1>2, <2>1 DEF MutexHeld, Ownership, Resetters
    <2>8. Quiet'
      <3>1. QuietStart /\ ~Started => ~ResetOvertake(p)
        BY <1>7, SynchronThreshold DEF ResetOvertake
      <3>2. QuietStart /\ ~Started =>
               pc'[p] = "input" /\ \A i \in Inputs : missed'[i] = 0
        BY <1>7, <1>10, <3>1, SynchronThreshold
           DEF BeginReset, ResetInput, Ownership, TypeOK, Processes
      <3> QED
        BY <1>2, <1>7, <1>8, <1>9, <2>1, <3>2 DEF Quiet, Ownership, Resetters
    <2> QED
      BY <1>1, <2>3, <2>5, <2>6, <2>7, <2>8 DEF Ownership
  <1>11. CASE ResetActivate(p)
    <2>1. /\ Activate(c) /\ UNCHANGED << todo, syncMutex >>
          /\ pc[p] = "activate" /\ pc'[p] = "input"
      BY <1>11 DEF ResetActivate, Ownership, TypeOK, Processes, c
    <2>2. \A q \in Resetters : \A t \in Tasks : Owns(q, t)' <=> Owns(q, t)
      BY <1>2, <1>4, <2>1 DEF Owns
    <2>3. OneOwner' /\ QueuedRuns' /\ OwnedNotQueued' /\ NotStarted'
      BY <1>2, <1>3, <2>1, <2>2, OwnersActivate
    <2>4. Jobs'
      BY <1>2, <2>1 DEF Jobs, Ownership, Resetters
    <2>5. ExecutedRuns'
      BY <1>3, <1>6, <2>1, ActivateEffect DEF Ownership
    <2>6. MutexHeld'
      BY <1>2, <2>1 DEF MutexHeld, Ownership, Resetters
    <2>7. Quiet'
      BY <1>7, <1>8, <1>9, <2>1 DEF Quiet
    <2> QED
      BY <1>1, <2>3, <2>4, <2>5, <2>6, <2>7 DEF Ownership
  <1>12. CASE EndReset(p)
    <2>1. /\ todo'[p] = Tail(todo[p])
          /\ pc'[p] = IF Len(todo[p]) > 1 THEN "begin" ELSE "idle"
          /\ missed' = missed
      <3>1. /\ p \in Processes
            /\ pc \in [Processes -> ExecutorPCs \cup StarterPCs \cup NotifierPCs]
            /\ todo \in [Resetters -> Seq(Tasks)]
        BY DEF Processes, Ownership, TypeOK
      <3> QED
        BY <1>12, <3>1 DEF EndReset
    <2>1a. ASSUME NEW s \in Schedulers, s # Home[p] \/ Len(todo[p]) > 1 \/ p \notin Executors
           PROVE  syncMutex'[s] = syncMutex[s]
      <3>1. /\ p \in Executors => Home[p] \in Schedulers
            /\ syncMutex \in [Schedulers -> Executors \cup {NoProc}]
        BY DEF Ownership, TypeOK
      <3>2. Len(todo[p]) \in Nat
        BY <1>3
      <3>3. \A k \in Nat : k > 1 => k # 1
        OBVIOUS
      <3>4. Len(todo[p]) > 1 => Len(todo[p]) # 1
        BY <3>2, <3>3, Zenon
      <3>5. \/ syncMutex' = syncMutex
            \/ /\ p \in Executors /\ Len(todo[p]) = 1
               /\ syncMutex' = [syncMutex EXCEPT ![Home[p]] = NoProc]
        BY <1>12 DEF EndReset
      <3>6. CASE syncMutex' = syncMutex
        BY <3>6
      <3>7. CASE Len(todo[p]) = 1 /\ syncMutex' = [syncMutex EXCEPT ![Home[p]] = NoProc]
        BY <2>1a, <3>1, <3>4, <3>5, <3>7
      <3> QED
        BY <3>5, <3>6, <3>7
    <2>2. /\ Head(todo[p]) = c /\ Tail(todo[p]) \in Seq(Tasks)
          /\ Distinct(Tail(todo[p]))
          /\ Range(Tail(todo[p])) = Range(todo[p]) \ {c}
          /\ Len(todo[p]) > 1 <=> Tail(todo[p]) # << >>
      BY <1>3, TailOfDistinct DEF c
    <2>3. \A t \in Tasks : Owns(p, t)' => t # c /\ Owns(p, t)
      <3>1. Range(todo'[p]) = Range(todo[p]) \ {c}
        BY <2>1, <2>2
      <3> QED
        BY <1>2, <3>1 DEF Owns
    <2>4. \A q \in Resetters : \A t \in Tasks : Owns(q, t)' => t # c
      BY <1>3, <1>4, <2>3 DEF Ownership, OneOwner
    <2>5. /\ state'[c] \in { "RUN", "WAIT" }
          /\ \A t \in Tasks \ {c} : state'[t] = state[t] /\ queued'[t] = queued[t]
          /\ state'[c] = "WAIT" => queued'[c] = queued[c]
          /\ queued'[c] \in { queued[c], queued[c] + 1 }
          /\ state'[c] = "RUN" => state[c] = "PENDING"
      <3>1. state \in [Tasks -> TaskStates] /\ queued \in [Tasks -> Nat]
        BY DEF Ownership, TypeOK
      <3>2. \/ /\ state' = [state EXCEPT ![c] = "RUN"] /\ state[c] = "PENDING"
               /\ \/ queued' = queued
                  \/ queued' = [queued EXCEPT ![c] = @ + 1]
            \/ state' = [state EXCEPT ![c] = "WAIT"] /\ queued' = queued
        BY <1>12 DEF EndReset, Perform, c
      <3> QED
        BY <1>3, <3>1, <3>2
    <2>6. queued[c] = 0
      BY <1>3 DEF Ownership, OwnedNotQueued
    <2>7. Jobs'
      BY <1>2, <2>1, <2>2 DEF Jobs, Ownership, Resetters
    <2>8. OneOwner'
      BY <1>4, <2>3 DEF OneOwner, Ownership
    <2>9. QueuedRuns'
      <3>1. queued'[c] \in {0, 1} /\ (queued'[c] = 1 => state'[c] = "RUN")
        BY <2>5, <2>6
      <3> QED
        BY <2>5, <3>1 DEF QueuedRuns, Ownership
    <2>10. OwnedNotQueued'
      BY <1>4, <2>3, <2>4, <2>5 DEF OwnedNotQueued, Ownership
    <2>11. ExecutedRuns'
      BY <1>6, <2>5
    <2>12. MutexHeld'
      <3>1. ASSUME NEW f \in Executors, f # p,
                   pc[f] \in { "check", "begin", "input", "activate" }
            PROVE  syncMutex'[Home[f]] = f
        <4>1. syncMutex[Home[f]] = f
          BY <3>1 DEF Ownership, MutexHeld
        <4>2. p \in Executors => Home[f] # Home[p]
          BY <1>2, <3>1, <4>1 DEF Ownership, MutexHeld
        <4> QED
          BY <2>1a, <4>1, <4>2
      <3>2. p \in Executors /\ pc'[p] = "begin" => syncMutex'[Home[p]] = p
        BY <1>2, <2>1, <2>1a DEF Ownership, MutexHeld
      <3> QED
        BY <1>2, <2>1, <3>1, <3>2 DEF MutexHeld, Resetters
    <2>13. NotStarted'
      <3>1. \A s \in Range(stopped) : \A t \in Range(TaskList[s]) : t \in Tasks /\ t # c
        BY <1>3, RangeInSet, TaskAssumption DEF Ownership, NotStarted, TypeOK
      <3> QED
        BY <1>2, <1>4, <2>3, <2>5, <3>1 DEF NotStarted, Ownership
    <2>14. Quiet'
      <3>1. QuietStart /\ ~Started => state'[c] = "WAIT" /\ queued'[c] = queued[c]
        BY <1>7, <2>5
      <3> QED
        BY <1>2, <1>7, <1>8, <1>9, <2>1, <2>5, <3>1 DEF Quiet, Ownership, Resetters
    <2> QED
      BY <1>1, <2>7, <2>8, <2>9, <2>10, <2>11, <2>12, <2>13, <2>14 DEF Ownership
  <1> QED
    BY <1>10, <1>11, <1>12 DEF Reset

-----------------------------------------------------------------------------
(* The theorems.                                                           *)

\* No task has an owner before the first scheduler is started.
LEMMA InitOwnership == Init => Ownership
  <1> SUFFICES ASSUME Init
               PROVE  Ownership
    OBVIOUS
  <1> USE ProcessAssumption DEF Init
  <1>1. \A p \in Resetters : \A t \in Tasks : ~Owns(p, t)
    BY DEF Owns, Processes
  <1>2. \A p \in Processes : pc[p] = "idle"
    OBVIOUS
  <1>3. TypeOK
    <2>1. input \in [Notifiers -> Inputs]
      BY InputAssumption
    <2>2. pc \in [Processes -> ExecutorPCs \cup StarterPCs \cup NotifierPCs]
      BY DEF ExecutorPCs
    <2>3. todo \in [Resetters -> Seq(Tasks)]
      BY EmptySeq
    <2> QED
      BY <1>2, <2>1, <2>2, <2>3
         DEF TypeOK, TaskStates, ExecutorPCs, StarterPCs, NotifierPCs, Processes, Resetters
  <1>4. Jobs /\ OneOwner /\ OwnedNotQueued /\ MutexHeld /\ ExecutedRuns
    BY <1>1, <1>2 DEF Jobs, OneOwner, OwnedNotQueued, MutexHeld, ExecutedRuns,
                      Processes, Resetters
  <1>5. QueuedRuns
    BY DEF QueuedRuns
  <1>6. NotStarted
    <2>1. \A s \in Range(stopped) : \A t \in Range(TaskList[s]) : t \in Tasks
      BY RangeInSet, TaskAssumption
    <2> QED
      BY <1>1, <2>1 DEF NotStarted
  <1>7. Quiet
    BY <1>2 DEF Quiet, Processes, Resetters
  <1> QED
    BY <1>3, <1>4, <1>5, <1>6, <1>7 DEF Ownership

\* Every step preserves Ownership.
LEMMA NextOwnership ==
    ASSUME SafeGroups
    PROVE  Ownership /\ [Next]_vars => Ownership'
  <1> SUFFICES ASSUME Ownership, [Next]_vars
               PROVE  Ownership'
    OBVIOUS
  <1>1. CASE Start
    BY <1>1, StartPreservesOwnership
  <1>2. CASE \E n \in Notifiers : Notify(n)
    BY <1>2, NotifyPreservesOwnership
  <1>3. CASE \E e \in Executors : Execute(e)
    BY <1>3, ExecutePreservesOwnership
  <1>4. CASE \E p \in Resetters : Reset(p)
    BY <1>4, ResetPreservesOwnership
  <1>5. CASE UNCHANGED vars
    BY <1>5 DEF vars, Ownership, TypeOK,
                Jobs, OneOwner, Owns, QueuedRuns, OwnedNotQueued, ExecutedRuns,
                MutexHeld, NotStarted, Quiet, Started
  <1> QED
    BY <1>1, <1>2, <1>3, <1>4, <1>5 DEF Next

\* Ownership implies what it was made for.
LEMMA OwnershipGivesOneExecution == Ownership => AtMostOneExecution
  <1> SUFFICES ASSUME Ownership, NEW t \in Tasks
               PROVE  /\ queued[t] <= 1
                      /\ \A e \in Executors : Executing(e, t) => queued[t] = 0
                      /\ \A e, f \in Executors :
                            Executing(e, t) /\ Executing(f, t) => e = f
    BY DEF AtMostOneExecution
  <1>1. \A e \in Executors : e \in Resetters /\ (Executing(e, t) => Owns(e, t))
    BY CurrentTask DEF Executing, Ownership, Resetters
  <1> QED
    BY <1>1 DEF Ownership, QueuedRuns, OwnedNotQueued, OneOwner

\* Every task has at most one owner at any time, for every system whose
\* groups are safe.
THEOREM OwnershipInvariant ==
    ASSUME SafeGroups
    PROVE  Spec => []Ownership
  <1>1. Ownership /\ [Next]_vars => Ownership'
    BY NextOwnership
  <1> QED
    BY InitOwnership, <1>1, PTL DEF Spec

\* TypeOK holds in every reachable state of such a system.
THEOREM TypeInvariant ==
    ASSUME SafeGroups
    PROVE  Spec => []TypeOK
  <1>1. Ownership => TypeOK
    BY DEF Ownership
  <1> QED
    BY <1>1, OwnershipInvariant, PTL

\* A task is in the run queue at most once, is not queued while it is
\* executed, and is executed by one executor only.
THEOREM OneExecution ==
    ASSUME SafeGroups
    PROVE  Spec => []AtMostOneExecution
  BY OwnershipInvariant, OwnershipGivesOneExecution, PTL

-----------------------------------------------------------------------------
(* The invariants.                                                         *)

\* Inputs with synchronization never count more than their threshold, and
\* keep notifications for later only when they have reached it; the unprotected
\* counter is not theirs.
SynchronCounters ==
    /\ \A i \in Synchron :
          /\ notifications[i] <= Threshold[i]
          /\ missed[i] > 0 => notifications[i] = Threshold[i]
    /\ \A n \in Notifiers : pc[n] = "store" => input[n] \notin Synchron

InReset(p) == pc[p] \in { "input", "activate" }

\* What is known of a task in the middle of Task::reset.
ResetStates ==
    \A p \in Resetters :
       /\ InReset(p) =>
             /\ state[Head(todo[p])] \in { "RESET", "PENDING" }
             /\ idx[p] \in 1..(Len(InputsOf[Head(todo[p])]) + 1)
       /\ pc[p] = "activate" => InputsLeft(p)

\* A task with synchronous inputs is activated when all of them have reached
\* their thresholds.  It stays like that until the task is reset.
FullVolume ==
    \A t \in Tasks : SynchronTask(t) /\ state[t] = "RUN" =>
       \A i \in InputSet(t) : notifications[i] = Threshold[i]

VolumeInv == SynchronCounters /\ ResetStates /\ FullVolume

\* A notifier that has counted its notification of i looks at the task next.
Announced(i) ==
    \E n \in Notifiers : pc[n] \in { "check", "activate" } /\ input[n] = i

Required(i) == i \notin Final /\ Threshold[i] > 0

\* As far as the inputs in S are concerned the task t is not activated, or a
\* notifier is about to activate it: a final input does so alone, the others
\* together.
Answered(t, S) ==
    /\ \A i \in S : i \in Final /\ IsActive(i) => Announced(i)
    /\ /\ \E i \in InputSet(t) : Required(i)
       /\ \A i \in InputSet(t) : Required(i) => i \in S /\ IsActive(i)
       => \E i \in InputSet(t) : Required(i) /\ Announced(i)

\* The inputs that Task::reset has behind it.
Behind(p) == { InputsOf[Head(todo[p])][k] : k \in 1..(idx[p] - 1) }

\* A task that waits, and one in the middle of Task::reset, for which the
\* notifications count that come after the reset of the input.
Watched(t, S) ==
    \/ state[t] = "WAIT" /\ S = InputSet(t)
    \/ /\ state[t] = "RESET"
       /\ \E p \in Resetters : InReset(p) /\ t = Head(todo[p]) /\ S = Behind(p)

AnsweredInv ==
    \A t \in Tasks : \A S \in SUBSET InputSet(t) : Watched(t, S) => Answered(t, S)

Owned(t) == \E p \in Resetters : Owns(p, t)

Resetting(e) == pc[e] \in { "begin", "input", "activate" }

\* An executor resets its task alone, which is still marked as running at the
\* beginning, or all the tasks of a group in turn; the ones that it has done are
\* in the next round already.
Work ==
    \A e \in Executors :
       /\ pc[e] = "check" => state[Head(todo[e])] = "FINISH"
       /\ Resetting(e) =>
          LET g == GroupOf[Head(todo[e])] IN
          \/ /\ g = << >> /\ Len(todo[e]) = 1
             /\ pc[e] = "begin" => state[Head(todo[e])] = "RUN"
          \/ /\ g # << >> /\ Range(todo[e]) \subseteq Range(g)
             /\ \A u \in Range(g) \ Range(todo[e]) : state[u] # "FINISH"

\* The schedulers that are running.
Begun == Range(StartOrder) \ Range(stopped)

\* A task whose scheduler is started is waiting, queued, owned, or waits for
\* the other tasks of its group.
LifeCycle ==
    /\ Range(stopped) \subseteq Range(StartOrder)
    /\ \A s \in Schedulers : running[s] <=> s \in Begun
    /\ \A t \in Tasks :
          /\ state[t] # "FINISH" \/ Owned(t) => running[SchedulerOf(t)]
          /\ state[t] \in { "RESET", "PENDING" } => Owned(t)
          /\ state[t] = "RUN" => queued[t] = 1 \/ Owned(t)
          /\ state[t] = "FINISH" /\ (GroupOf[t] = << >> \/ ~Started) =>
                Owned(t) \/ SchedulerOf(t) \notin Begun

\* The execution of t is counted, but i still holds the notifications for it.
Spends(e, t, i) ==
    /\ Owns(e, t)
    /\ \/ pc[e] \in { "execute", "begin" }
       \/ InReset(e) /\ i \notin Behind(e)
          /\ (pc[e] = "activate" => i # CurrentInput(e))

Spent(t, i) == \E e \in Executors : Spends(e, t, i)

Balanced(t, i) ==
    IF Spent(t, i)
    THEN /\ notifications[i] = Threshold[i]
         /\ pushed[i] = Threshold[i] * executions[t] + missed[i]
    ELSE pushed[i] = Threshold[i] * executions[t] + notifications[i] + missed[i]

Balance ==
    \A t \in Tasks : SynchronTask(t) /\ GroupOf[t] = << >> =>
       \A i \in InputSet(t) : Balanced(t, i)

\* Nothing is counted before start returns.
QuietCounters ==
    QuietStart /\ ~Started =>
       /\ \A i \in Inputs : pushed[i] = 0 /\ notifications[i] = 0
       /\ \A t \in Tasks : executions[t] = 0

DeliveryInv == QuietCounters /\ (QuietStart => Balance)

\* An executor calls Task::execute of t.
InExecution(t) == \E e \in Executors : pc[e] = "execute" /\ Head(todo[e]) = t

\* The execution of t in the current round of its group is counted.
Executed(t) == state[t] = "FINISH" \/ InExecution(t)

\* The round in which t is executed, now or next.
Turn(t) == executions[t] + (IF Executed(t) THEN 0 ELSE 1)

\* An executor resets a task of the group g.
GroupInReset(g) ==
    \E e \in Executors : Resetting(e) /\ Head(todo[e]) \in Range(g)

\* While a group is reset all of its tasks have been executed as often, and
\* none of them is executed.  Otherwise the tasks that are executed in this
\* round are one execution ahead.
Round(g) ==
    \A t, u \in Range(g) :
       IF GroupInReset(g) \/ ~Started
       THEN executions[t] = executions[u] /\ ~InExecution(t)
       ELSE Turn(t) = Turn(u)

RoundInv == \A t \in Tasks : Round(GroupOf[t])

-----------------------------------------------------------------------------
(* What a step does to a task and to an input.                             *)

\* The inputs of a task belong to no other one.
LEMMA TaskOfItsInput ==
    ASSUME NEW t \in Tasks, NEW i \in InputSet(t)
    PROVE  i \in Inputs /\ TaskOf(i) = t
  <1>1. i \in Inputs
    BY RangeInSet, TaskAssumption DEF InputSet
  <1>2. \A u \in Tasks : i \in InputSet(u) => u = t
    BY TaskAssumption
  <1> QED
    BY <1>1, <1>2 DEF TaskOf

\* The input that Task::reset works on.
LEMMA InputInReset ==
    ASSUME Ownership, ResetStates, NEW p \in Resetters, InReset(p), InputsLeft(p)
    PROVE  CurrentInput(p) \in InputSet(Head(todo[p])) /\ CurrentInput(p) \in Inputs
  <1>1. Head(todo[p]) \in Tasks
    BY CurrentTask DEF InReset, Ownership
  <1>2. idx[p] \in 1..Len(InputsOf[Head(todo[p])])
    BY DEF ResetStates, InputsLeft, Ownership, TypeOK
  <1>3. InputsOf[Head(todo[p])] \in Seq(Inputs)
    BY <1>1, TaskAssumption
  <1>4. CurrentInput(p) \in InputSet(Head(todo[p]))
    BY <1>2, <1>3 DEF CurrentInput, InputSet, Range
  <1> QED
    BY <1>1, <1>4, TaskOfItsInput

\* TaskImpl::activate, finalizeExecution and Task::reset are all that changes
\* the state of a task.
LEMMA StateStep ==
    ASSUME Ownership, [Next]_vars, NEW t \in Tasks
    PROVE  \/ state'[t] = state[t]
           \/ state[t] = "WAIT" /\ state'[t] = "RUN" /\ Activated(t)
           \/ state[t] = "RESET" /\ state'[t] = "PENDING" /\ Activated(t)
           \/ \E e \in Executors : FinalizeInGroup(e) /\ t = Head(todo[e])
           \/ \E p \in Resetters : /\ BeginReset(p) \/ EndReset(p)
                                   /\ t = Head(todo[p])
  <1>0. state \in [Tasks -> TaskStates]
    BY DEF Ownership, TypeOK
  <1>1. ASSUME NEW u \in Tasks, Activate(u)
        PROVE  \/ state'[t] = state[t]
               \/ state[t] = "WAIT" /\ state'[t] = "RUN" /\ Activated(t)
               \/ state[t] = "RESET" /\ state'[t] = "PENDING" /\ Activated(t)
    BY <1>0, <1>1 DEF Activate
  <1>2. CASE Start \/ UNCHANGED vars
    BY <1>2 DEF Start, vars
  <1>3. ASSUME NEW n \in Notifiers, Notify(n)
        PROVE  \/ state'[t] = state[t]
               \/ state[t] = "WAIT" /\ state'[t] = "RUN" /\ Activated(t)
               \/ state[t] = "RESET" /\ state'[t] = "PENDING" /\ Activated(t)
    <2>1. CASE NotifyActivate(n)
      BY <1>1, <2>1, TaskOfInput DEF NotifyActivate, Ownership, TypeOK
    <2>2. CASE ~NotifyActivate(n)
      BY <1>3, <2>2 DEF Notify, NotifyMissed, NotifySync, NotifyLoad, NotifyStore,
                        NotifyCheck
    <2> QED
      BY <2>1, <2>2
  <1>4. ASSUME NEW e \in Executors, Execute(e)
        PROVE  state'[t] = state[t] \/ (FinalizeInGroup(e) /\ t = Head(todo[e]))
    <2>1. CASE FinalizeInGroup(e)
      BY <1>0, <2>1 DEF FinalizeInGroup
    <2>2. CASE ~FinalizeInGroup(e)
      BY <1>4, <2>2 DEF Execute, Take, SynchronizeStart, FinalizeAlone, GroupReset,
                        GroupWait
    <2> QED
      BY <2>1, <2>2
  <1>5. ASSUME NEW p \in Resetters, Reset(p)
        PROVE  \/ state'[t] = state[t]
               \/ state[t] = "WAIT" /\ state'[t] = "RUN" /\ Activated(t)
               \/ state[t] = "RESET" /\ state'[t] = "PENDING" /\ Activated(t)
               \/ (BeginReset(p) \/ EndReset(p)) /\ t = Head(todo[p])
    <2>1. CASE BeginReset(p) \/ EndReset(p)
      BY <1>0, <2>1 DEF BeginReset, EndReset
    <2>2. CASE ResetActivate(p)
      BY <1>1, <2>2, CurrentTask DEF ResetActivate, Ownership
    <2>3. CASE ResetOvertake(p) \/ ResetInput(p)
      BY <2>3 DEF ResetOvertake, ResetInput
    <2> QED
      BY <1>5, <2>1, <2>2, <2>3 DEF Reset
  <1> QED
    BY <1>2, <1>3, <1>4, <1>5 DEF Next

\* notifyInput and Input::reset are all that changes the counters of an input.
LEMMA CounterStep ==
    ASSUME Ownership, [Next]_vars, NEW i \in Inputs
    PROVE  \/ /\ notifications'[i] = notifications[i] /\ missed'[i] = missed[i]
              /\ pushed'[i] = pushed[i]
           \/ \E n \in Notifiers :
                 NotifyMissed(n, i) \/ NotifySync(n, i) \/ NotifyLoad(n, i)
           \/ \E n \in Notifiers : NotifyStore(n) /\ i = input[n]
           \/ \E p \in Resetters : /\ ResetOvertake(p) \/ ResetInput(p)
                                   /\ i = CurrentInput(p)
  <1>0. /\ notifications \in [Inputs -> Nat] /\ missed \in [Inputs -> Nat]
        /\ pushed \in [Inputs -> Nat]
    BY DEF Ownership, TypeOK
  <1>1. CASE Start \/ UNCHANGED vars
    BY <1>1 DEF Start, vars
  <1>2. ASSUME NEW n \in Notifiers, Notify(n)
        PROVE  \/ /\ notifications'[i] = notifications[i] /\ missed'[i] = missed[i]
                  /\ pushed'[i] = pushed[i]
               \/ NotifyMissed(n, i) \/ NotifySync(n, i) \/ NotifyLoad(n, i)
               \/ NotifyStore(n) /\ i = input[n]
    <2>1. ASSUME NEW j \in Inputs, NotifyMissed(n, j) \/ NotifySync(n, j) \/ NotifyLoad(n, j),
                 j # i
          PROVE  /\ notifications'[i] = notifications[i] /\ missed'[i] = missed[i]
                 /\ pushed'[i] = pushed[i]
      BY <1>0, <2>1 DEF NotifyMissed, NotifySync, NotifyLoad, MayNotify
    <2>2. CASE NotifyStore(n) /\ i # input[n]
      BY <1>0, <2>2 DEF NotifyStore
    <2>3. CASE NotifyCheck(n) \/ NotifyActivate(n)
      BY <2>3 DEF NotifyCheck, NotifyActivate
    <2> QED
      BY <1>2, <2>1, <2>2, <2>3 DEF Notify
  <1>3. ASSUME NEW e \in Executors, Execute(e)
        PROVE  /\ notifications'[i] = notifications[i] /\ missed'[i] = missed[i]
               /\ pushed'[i] = pushed[i]
    BY <1>3 DEF Execute, Take, SynchronizeStart, FinalizeAlone, FinalizeInGroup,
                GroupReset, GroupWait
  <1>4. ASSUME NEW p \in Resetters, Reset(p)
        PROVE  \/ /\ notifications'[i] = notifications[i] /\ missed'[i] = missed[i]
                  /\ pushed'[i] = pushed[i]
               \/ (ResetOvertake(p) \/ ResetInput(p)) /\ i = CurrentInput(p)
    <2>1. CASE ResetOvertake(p) \/ ResetInput(p)
      BY <1>0, <2>1 DEF ResetOvertake, ResetInput
    <2>2. CASE BeginReset(p) \/ ResetActivate(p) \/ EndReset(p)
      BY <2>2 DEF BeginReset, ResetActivate, EndReset
    <2> QED
      BY <1>4, <2>1, <2>2 DEF Reset
  <1> QED
    BY <1>1, <1>2, <1>3, <1>4 DEF Next

\* A process stays where it is unless it takes the step.
LEMMA ActorStep ==
    ASSUME Ownership, [Next]_vars
    PROVE  /\ \A p \in Resetters :
                 \/ Reset(p) \/ (p \in Executors /\ Execute(p))
                 \/ p = Starter /\ Start
                 \/ pc'[p] = pc[p] /\ todo'[p] = todo[p] /\ idx'[p] = idx[p]
           /\ \A n \in Notifiers :
                 Notify(n) \/ (pc'[n] = pc[n] /\ input'[n] = input[n])
  <1> USE ProcessAssumption DEF Resetters, Processes
  <1>0. /\ pc \in [Processes -> ExecutorPCs \cup StarterPCs \cup NotifierPCs]
        /\ todo \in [Resetters -> Seq(Tasks)] /\ idx \in [Resetters -> Nat]
        /\ input \in [Notifiers -> Inputs]
    BY DEF Ownership, TypeOK
  <1>1. CASE Start
    BY <1>0, <1>1 DEF Start
  <1>2. ASSUME NEW n \in Notifiers, Notify(n)
        PROVE  /\ \A p \in Resetters :
                     pc'[p] = pc[p] /\ todo'[p] = todo[p] /\ idx'[p] = idx[p]
               /\ \A m \in Notifiers \ {n} : pc'[m] = pc[m] /\ input'[m] = input[m]
    BY <1>0, <1>2 DEF Notify, NotifyMissed, NotifySync, NotifyLoad, NotifyStore,
                      NotifyCheck, NotifyActivate, MayNotify
  <1>3. ASSUME NEW e \in Executors, Execute(e)
        PROVE  /\ \A p \in Resetters \ {e} :
                     pc'[p] = pc[p] /\ todo'[p] = todo[p] /\ idx'[p] = idx[p]
               /\ \A n \in Notifiers : pc'[n] = pc[n] /\ input'[n] = input[n]
    BY <1>0, <1>3 DEF Execute, Take, SynchronizeStart, FinalizeAlone,
                      FinalizeInGroup, GroupReset, GroupWait
  <1>4. ASSUME NEW q \in Resetters, Reset(q)
        PROVE  /\ \A p \in Resetters \ {q} :
                     pc'[p] = pc[p] /\ todo'[p] = todo[p] /\ idx'[p] = idx[p]
               /\ \A n \in Notifiers : pc'[n] = pc[n] /\ input'[n] = input[n]
    BY <1>0, <1>4 DEF Reset, BeginReset, ResetOvertake, ResetActivate, ResetInput,
                      EndReset
  <1>5. CASE UNCHANGED vars
    BY <1>5 DEF vars
  <1> QED
    BY <1>1, <1>2, <1>3, <1>4, <1>5 DEF Next

\* Who does not work on a task leaves it alone, but may activate it.
LEMMA OtherSteps ==
    ASSUME Ownership, [Next]_vars, NEW p \in Resetters, NEW t \in Tasks, Owns(p, t),
           ~BeginReset(p), ~EndReset(p), p \in Executors => ~FinalizeInGroup(p)
    PROVE  \/ state'[t] = state[t]
           \/ state[t] = "RESET" /\ state'[t] = "PENDING" /\ Activated(t)
  <1>1. state[t] # "WAIT"
    BY DEF Ownership, OwnedNotQueued
  <1>2. \A q \in Resetters :
           BeginReset(q) \/ EndReset(q) \/ FinalizeInGroup(q) => Owns(q, Head(todo[q]))
    BY CurrentTask DEF Ownership, BeginReset, EndReset, FinalizeInGroup
  <1>3. \A q \in Resetters : Owns(q, t) => q = p
    BY DEF Ownership, OneOwner
  <1> QED
    BY <1>1, <1>2, <1>3, StateStep DEF Resetters

-----------------------------------------------------------------------------
(* ExactVolume.                                                            *)

\* An input with synchronization is active when it has reached its threshold.
LEMMA SynchronActive ==
    ASSUME NEW i \in Synchron
    PROVE  IsActive(i) <=> notifications[i] >= Threshold[i]
  BY SynchronThreshold DEF IsActive

\* The task and the place of the loop during Task::reset.
LEMMA ResetStatesStep ==
    ASSUME Ownership, ResetStates, [Next]_vars
    PROVE  ResetStates'
  <1> SUFFICES ASSUME NEW p \in Resetters, InReset(p)'
               PROVE  /\ state'[Head(todo'[p])] \in { "RESET", "PENDING" }
                      /\ idx'[p] \in 1..(Len(InputsOf[Head(todo'[p])]) + 1)
                      /\ pc'[p] = "activate" => InputsLeft(p)'
    BY DEF ResetStates, InReset
  <1>0. /\ p \in Processes
        /\ pc \in [Processes -> ExecutorPCs \cup StarterPCs \cup NotifierPCs]
        /\ idx \in [Resetters -> Nat] /\ state \in [Tasks -> TaskStates]
    BY DEF Ownership, TypeOK, Processes
  <1>1. CASE BeginReset(p)
    <2>1. Head(todo[p]) \in Tasks
      BY <1>1, CurrentTask DEF Ownership, BeginReset
    <2>2. Len(InputsOf[Head(todo[p])]) \in Nat
      BY <2>1, TaskAssumption
    <2> QED
      BY <1>0, <1>1, <2>1, <2>2 DEF BeginReset
  <1>2. CASE EndReset(p) \/ (p \in Executors /\ Execute(p)) \/ (p = Starter /\ Start)
    BY <1>0, <1>2 DEF InReset, EndReset, Execute, Take, SynchronizeStart,
                      FinalizeAlone, FinalizeInGroup, GroupReset, GroupWait, Start
  <1>3. CASE /\ ~BeginReset(p) /\ ~EndReset(p) /\ ~(p \in Executors /\ Execute(p))
             /\ ~(p = Starter /\ Start)
    <2>1. /\ todo'[p] = todo[p] /\ InReset(p)
          /\ idx'[p] \in 1..(Len(InputsOf[Head(todo[p])]) + 1)
          /\ pc'[p] = "activate" => idx'[p] <= Len(InputsOf[Head(todo[p])])
      <3>1. CASE ResetOvertake(p) \/ ResetActivate(p) \/ ResetInput(p)
        <4>1. /\ InReset(p) /\ todo'[p] = todo[p] /\ InputsLeft(p)
              /\ idx'[p] = idx[p] \/ (idx'[p] = idx[p] + 1 /\ pc'[p] = "input")
          BY <1>0, <3>1 DEF ResetOvertake, ResetActivate, ResetInput, ResetStates, InReset
        <4>2. Head(todo[p]) \in Tasks
          BY <4>1, CurrentTask DEF Ownership, InReset
        <4>3. Len(InputsOf[Head(todo[p])]) \in Nat
          BY <4>2, TaskAssumption
        <4> QED
          BY <4>1, <4>3 DEF ResetStates, InputsLeft
      <3>2. CASE ~Reset(p)
        BY <1>3, <3>2, ActorStep DEF ResetStates, InReset, InputsLeft
      <3> QED
        BY <1>3, <3>1, <3>2 DEF Reset
    <2>2. Head(todo[p]) \in Tasks /\ Owns(p, Head(todo[p]))
      BY <2>1, CurrentTask DEF Ownership, InReset
    <2>3. state[Head(todo[p])] \in { "RESET", "PENDING" }
      BY <2>1 DEF ResetStates
    <2> QED
      BY <1>3, <2>1, <2>2, <2>3, OtherSteps DEF InputsLeft, Execute
  <1> QED
    BY <1>1, <1>2, <1>3

\* A synchronous input that has reached its threshold misses the others.
LEMMA SynchronCountersStep ==
    ASSUME Ownership, ResetStates, SynchronCounters, [Next]_vars
    PROVE  SynchronCounters'
  <1>1. ASSUME NEW i \in Synchron
        PROVE  /\ notifications'[i] <= Threshold[i]
               /\ missed'[i] > 0 => notifications'[i] = Threshold[i]
    <2>0. /\ i \in Inputs /\ Threshold[i] \in Nat \ {0}
          /\ notifications \in [Inputs -> Nat] /\ missed \in [Inputs -> Nat]
          /\ notifications[i] <= Threshold[i]
          /\ missed[i] > 0 => notifications[i] = Threshold[i]
      BY SynchronThreshold DEF SynchronCounters, Ownership, TypeOK
    <2>1. ASSUME NEW n \in Notifiers,
                 NotifyMissed(n, i) \/ NotifySync(n, i) \/ NotifyLoad(n, i)
          PROVE  /\ notifications'[i] <= Threshold[i]
                 /\ missed'[i] > 0 => notifications'[i] = Threshold[i]
      BY <2>0, <2>1, SynchronActive DEF NotifyMissed, NotifySync, NotifyLoad
    <2>2. ASSUME NEW n \in Notifiers
          PROVE  ~(NotifyStore(n) /\ i = input[n])
      BY DEF NotifyStore, SynchronCounters
    <2>3. ASSUME NEW p \in Resetters, ResetOvertake(p) \/ ResetInput(p),
                 i = CurrentInput(p)
          PROVE  /\ notifications'[i] <= Threshold[i]
                 /\ missed'[i] > 0 => notifications'[i] = Threshold[i]
      BY <2>0, <2>3 DEF ResetOvertake, ResetInput
    <2> QED
      BY <2>0, <2>1, <2>2, <2>3, CounterStep
  <1>2. ASSUME NEW n \in Notifiers, pc'[n] = "store"
        PROVE  input'[n] \notin Synchron
    <2>0. /\ n \in Processes /\ input \in [Notifiers -> Inputs]
          /\ pc \in [Processes -> ExecutorPCs \cup StarterPCs \cup NotifierPCs]
      BY DEF Ownership, TypeOK, Processes
    <2>1. CASE Notify(n)
      BY <1>2, <2>0, <2>1 DEF Notify, NotifyMissed, NotifySync, NotifyLoad, MayNotify,
                              NotifyStore, NotifyCheck, NotifyActivate, SynchronCounters
    <2>2. CASE ~Notify(n)
      BY <1>2, <2>2, ActorStep DEF SynchronCounters
    <2> QED
      BY <2>1, <2>2
  <1> QED
    BY <1>1, <1>2 DEF SynchronCounters

\* What activates a task with synchronous inputs is the last one of them.
LEMMA SynchronActivated ==
    ASSUME Ownership, SynchronCounters, NEW t \in Tasks, SynchronTask(t), Activated(t),
           NEW i \in InputSet(t)
    PROVE  notifications[i] = Threshold[i]
  <1>1. i \in Synchron /\ i \notin Final
    BY DEF SynchronTask
  <1>2. Threshold[i] \in Nat \ {0} /\ notifications[i] \in Nat
    BY <1>1, SynchronThreshold DEF Ownership, TypeOK
  <1>3. IsActive(i)
    BY <1>1, <1>2 DEF Activated, SynchronTask
  <1> QED
    BY <1>1, <1>2, <1>3, SynchronActive DEF SynchronCounters

\* No input of a running task is counted or reset.
LEMMA FullVolumeStep ==
    ASSUME Ownership, VolumeInv, [Next]_vars
    PROVE  FullVolume'
  <1> SUFFICES ASSUME NEW t \in Tasks, SynchronTask(t), state'[t] = "RUN",
                      NEW i \in InputSet(t)
               PROVE  notifications'[i] = Threshold[i]
    BY DEF FullVolume, SynchronTask
  <1> USE DEF VolumeInv
  <1>0. /\ i \in Synchron /\ i \in Inputs /\ Threshold[i] \in Nat
        /\ notifications \in [Inputs -> Nat]
        /\ \A u \in Tasks : i \in InputSet(u) => u = t
    BY SynchronThreshold, TaskOfItsInput DEF SynchronTask, Ownership, TypeOK
  <1>1. \/ state[t] = "RUN"
        \/ Activated(t)
    <2>0. state \in [Tasks -> TaskStates]
      BY DEF Ownership, TypeOK
    <2>1. ASSUME NEW e \in Executors, FinalizeInGroup(e), t = Head(todo[e])
          PROVE  FALSE
      BY <2>0, <2>1 DEF FinalizeInGroup
    <2>2. ASSUME NEW p \in Resetters, BeginReset(p), t = Head(todo[p])
          PROVE  FALSE
      BY <2>0, <2>2 DEF BeginReset
    <2>3. ASSUME NEW p \in Resetters, EndReset(p), t = Head(todo[p])
          PROVE  Activated(t)
      BY <2>0, <2>3 DEF EndReset
    <2> QED
      BY <2>1, <2>2, <2>3, StateStep
  <1>2. notifications[i] = Threshold[i]
    BY <1>1, SynchronActivated DEF FullVolume
  <1>3. ASSUME NEW n \in Notifiers, NotifySync(n, i)
        PROVE  FALSE
    BY <1>0, <1>2, <1>3, SynchronActive DEF NotifySync
  <1>4. ASSUME NEW n \in Notifiers, NotifyStore(n), i = input[n]
        PROVE  FALSE
    BY <1>0, <1>4 DEF NotifyStore, SynchronCounters
  <1>5. ASSUME NEW p \in Resetters, ResetOvertake(p) \/ ResetInput(p),
               i = CurrentInput(p)
        PROVE  FALSE
    <2>1. InReset(p) /\ InputsLeft(p) /\ pc[p] # "idle"
      BY <1>5 DEF ResetOvertake, ResetInput, InReset
    <2>2. t = Head(todo[p])
      BY <1>0, <1>5, <2>1, InputInReset, CurrentTask DEF Ownership
    <2>3. state'[t] = state[t] /\ state[t] \in { "RESET", "PENDING" }
      BY <1>5, <2>1, <2>2 DEF ResetOvertake, ResetInput, ResetStates
    <2> QED
      BY <2>3
  <1>6. ASSUME NEW n \in Notifiers, NotifyMissed(n, i) \/ NotifyLoad(n, i)
        PROVE  notifications'[i] = notifications[i]
    BY <1>6 DEF NotifyMissed, NotifyLoad
  <1> QED
    BY <1>0, <1>2, <1>3, <1>4, <1>5, <1>6, CounterStep

\* Volume is an invariant.
LEMMA VolumeInvariant ==
    ASSUME SafeGroups
    PROVE  Spec => []VolumeInv
  <1>1. Init => VolumeInv
    BY SynchronThreshold, InputAssumption
       DEF Init, VolumeInv, SynchronCounters, ResetStates, FullVolume, InReset,
           Processes, Resetters
  <1>2. Ownership /\ VolumeInv /\ [Next]_vars => VolumeInv'
    BY ResetStatesStep, SynchronCountersStep, FullVolumeStep DEF VolumeInv
  <1> QED
    BY <1>1, <1>2, OwnershipInvariant, PTL DEF Spec

\* The inputs of a queued or executed task hold exactly the thresholds.
THEOREM VolumeProvided ==
    ASSUME SafeGroups
    PROVE  Spec => []ExactVolume
  <1>1. ASSUME Ownership, VolumeInv
        PROVE  ExactVolume
    <2>1. \A t \in Tasks : queued[t] > 0 => state[t] = "RUN"
      BY <1>1 DEF Ownership, QueuedRuns, TypeOK
    <2>2. \A t \in Tasks : \A e \in Executors : Executing(e, t) => state[t] = "RUN"
      BY <1>1 DEF Executing, Ownership, ExecutedRuns
    <2> QED
      BY <1>1, <2>1, <2>2 DEF ExactVolume, VolumeInv, FullVolume
  <1> QED
    BY <1>1, OwnershipInvariant, VolumeInvariant, PTL

-----------------------------------------------------------------------------
(* NoMissedActivation.                                                     *)

\* The inputs of a task that are reset, and the one that is next.
LEMMA BehindSteps ==
    ASSUME Ownership, ResetStates, NEW p \in Resetters, InReset(p)
    PROVE  /\ Behind(p) \subseteq InputSet(Head(todo[p]))
           /\ ~InputsLeft(p) => Behind(p) = InputSet(Head(todo[p]))
           /\ InputsLeft(p) =>
                 /\ CurrentInput(p) \notin Behind(p)
                 /\ Behind(p) \cup { CurrentInput(p) }
                       = { InputsOf[Head(todo[p])][k] : k \in 1..idx[p] }
  <1> DEFINE s == InputsOf[Head(todo[p])]
             B == { s[k] : k \in 1..(idx[p] - 1) }
  <1>1. Head(todo[p]) \in Tasks
    BY CurrentTask DEF InReset, Ownership
  <1>2. s \in Seq(Inputs) /\ Distinct(s) /\ DOMAIN s = 1..Len(s) /\ Len(s) \in Nat
    BY <1>1, TaskAssumption
  <1>3. idx[p] \in 1..(Len(s) + 1)
    BY DEF ResetStates
  <1> HIDE DEF s
  <1>4. B \subseteq Range(s)
    BY <1>2, <1>3 DEF Range
  <1>5. idx[p] > Len(s) => B = Range(s)
    BY <1>2, <1>3 DEF Range
  <1>6. ASSUME idx[p] <= Len(s)
        PROVE  s[idx[p]] \notin B /\ B \cup { s[idx[p]] } = { s[k] : k \in 1..idx[p] }
    <2>1. \A k \in 1..(idx[p] - 1) : s[k] # s[idx[p]]
      BY <1>2, <1>3, <1>6 DEF Distinct
    <2>2. 1..idx[p] = 1..(idx[p] - 1) \cup { idx[p] }
      BY <1>3
    <2> QED
      BY <2>1, <2>2
  <1> QED
    BY <1>2, <1>3, <1>4, <1>5, <1>6 DEF s, Behind, InputsLeft, CurrentInput, InputSet

\* Who is not activated needs no notifier.
LEMMA NotActivatedAnswered ==
    ASSUME NEW t \in Tasks, NEW S \in SUBSET InputSet(t), ~Activated(t)
    PROVE  Answered(t, S)
  <1>1. \A i \in InputSet(t) : Threshold[i] \in Nat
    BY TaskOfItsInput, InputAssumption
  <1> QED
    BY <1>1 DEF Answered, Activated, Required

\* An input that becomes active is announced.
LEMMA AnsweredKept ==
    ASSUME NEW t \in Tasks, NEW S \in SUBSET InputSet(t), Answered(t, S),
           \A i \in InputSet(t) : /\ Announced(i) => Announced(i)'
                                  /\ IsActive(i)' => IsActive(i) \/ Announced(i)'
    PROVE  Answered(t, S)'
  <1>1. \A i \in S : i \in Final /\ IsActive(i)' => Announced(i)'
    BY DEF Answered
  <1>2. ASSUME \E i \in InputSet(t) : Required(i),
               \A i \in InputSet(t) : Required(i) => i \in S /\ IsActive(i)'
        PROVE  \E i \in InputSet(t) : Required(i) /\ Announced(i)'
    <2>1. CASE \A i \in InputSet(t) : Required(i) => IsActive(i)
      BY <1>2, <2>1 DEF Answered
    <2>2. CASE \E i \in InputSet(t) : Required(i) /\ ~IsActive(i)
      BY <1>2, <2>2
    <2> QED
      BY <2>1, <2>2
  <1> QED
    BY <1>1, <1>2 DEF Answered, Required

\* A notifier announces what it has counted until it has called activate.
LEMMA NotifierAnswered ==
    ASSUME Ownership, NEW n \in Notifiers, Notify(n),
           NEW t \in Tasks, NEW S \in SUBSET InputSet(t), Answered(t, S),
           state'[t] = state[t], state[t] \in { "WAIT", "RESET" }
    PROVE  Answered(t, S)'
  <1>0. /\ pc \in [Processes -> ExecutorPCs \cup StarterPCs \cup NotifierPCs]
        /\ n \in Processes /\ \A m \in Notifiers : m \in Processes
        /\ notifications \in [Inputs -> Nat] /\ input \in [Notifiers -> Inputs]
        /\ state \in [Tasks -> TaskStates]
        /\ \A i \in InputSet(t) : i \in Inputs /\ TaskOf(i) = t
    BY TaskOfItsInput DEF Ownership, TypeOK, Processes
  <1>1. ASSUME NEW i \in Inputs, NotifyMissed(n, i) \/ NotifyLoad(n, i)
        PROVE  Answered(t, S)'
    <2>1. /\ notifications' = notifications /\ pc[n] = "idle"
          /\ \A m \in Notifiers \ {n} : pc'[m] = pc[m] /\ input'[m] = input[m]
      BY <1>0, <1>1 DEF NotifyMissed, NotifyLoad, MayNotify
    <2>2. \A j \in InputSet(t) : /\ Announced(j) => Announced(j)'
                                 /\ IsActive(j)' => IsActive(j)
      BY <2>1 DEF Announced, IsActive
    <2> QED
      BY <2>2, AnsweredKept
  <1>2. ASSUME NEW i \in Inputs,
               NotifySync(n, i) \/ (NotifyStore(n) /\ i = input[n])
        PROVE  Answered(t, S)'
    <2>1. /\ pc[n] \in { "idle", "store" } /\ pc'[n] = "check" /\ input'[n] = i
          /\ \A m \in Notifiers \ {n} : pc'[m] = pc[m] /\ input'[m] = input[m]
          /\ \A j \in Inputs \ {i} : notifications'[j] = notifications[j]
      BY <1>0, <1>2 DEF NotifySync, NotifyStore, MayNotify
    <2>2. \A j \in InputSet(t) : /\ Announced(j) => Announced(j)'
                                 /\ IsActive(j)' => IsActive(j) \/ Announced(j)'
      BY <1>0, <2>1 DEF Announced, IsActive
    <2> QED
      BY <2>2, AnsweredKept
  <1>3. CASE NotifyCheck(n)
    <2>1. /\ notifications' = notifications /\ input' = input /\ pc[n] = "check"
          /\ \A m \in Notifiers \ {n} : pc'[m] = pc[m]
          /\ IsActive(input[n]) => pc'[n] = "activate"
      BY <1>0, <1>3 DEF NotifyCheck
    <2>2. \A j \in InputSet(t) : IsActive(j)' <=> IsActive(j)
      BY <2>1 DEF IsActive
    <2>3. ASSUME NEW j \in InputSet(t), Announced(j), IsActive(j)
          PROVE  Announced(j)'
      BY <2>1, <2>3 DEF Announced
    <2>4. \A j \in S : j \in Final /\ IsActive(j)' => Announced(j)'
      BY <2>2, <2>3 DEF Answered
    <2>5. ASSUME \E j \in InputSet(t) : Required(j),
                 \A j \in InputSet(t) : Required(j) => j \in S /\ IsActive(j)'
          PROVE  \E j \in InputSet(t) : Required(j) /\ Announced(j)'
      BY <2>2, <2>3, <2>5 DEF Answered
    <2> QED
      BY <2>4, <2>5 DEF Answered, Required
  <1>4. CASE NotifyActivate(n)
    <2>1. /\ notifications' = notifications /\ input' = input
          /\ \A m \in Notifiers \ {n} : pc'[m] = pc[m]
      BY <1>0, <1>4 DEF NotifyActivate
    <2>2. \A j \in InputSet(t) : IsActive(j)' <=> IsActive(j)
      BY <2>1 DEF IsActive
    <2>3. CASE TaskOf(input[n]) = t
      <3>1. ~Activated(t)
        BY <1>0, <1>4, <2>3 DEF NotifyActivate, Activate
      <3>2. ~Activated(t)'
        BY <2>2, <3>1 DEF Activated
      <3>3. \A i \in InputSet(t) : Threshold[i] \in Nat
        BY TaskOfItsInput, InputAssumption
      <3> QED
        BY <3>2, <3>3 DEF Answered, Activated, Required
    <2>4. CASE TaskOf(input[n]) # t
      <3>1. \A j \in InputSet(t) : Announced(j) => Announced(j)'
        BY <1>0, <2>1, <2>4 DEF Announced
      <3> QED
        BY <2>2, <3>1, AnsweredKept
    <2> QED
      BY <2>3, <2>4
  <1> QED
    BY <1>1, <1>2, <1>3, <1>4 DEF Notify, NotifyStore, Ownership, TypeOK

\* Task::reset takes the notifications away that the execution has used.
LEMMA ResetAnswered ==
    ASSUME Ownership, VolumeInv, AnsweredInv, NEW q \in Resetters, Reset(q),
           NEW t \in Tasks, NEW S \in SUBSET InputSet(t), Watched(t, S)'
    PROVE  Answered(t, S)'
  <1> USE ProcessAssumption
  <1> DEFINE c == Head(todo[q])
  <1>0. /\ pc \in [Processes -> ExecutorPCs \cup StarterPCs \cup NotifierPCs]
        /\ \A n \in Notifiers : n \in Processes /\ n # q
        /\ q \in Processes
        /\ notifications \in [Inputs -> Nat] /\ idx \in [Resetters -> Nat]
        /\ state \in [Tasks -> TaskStates]
        /\ \A i \in InputSet(t) : i \in Inputs
    BY TaskOfItsInput DEF Ownership, TypeOK, Processes, Resetters
  <1>1. /\ pc[q] \in { "begin", "input", "activate" } /\ pc[q] # "idle"
        /\ c \in Tasks /\ Owns(q, c) /\ state[c] # "WAIT"
    <2>1. pc[q] \in { "begin", "input", "activate" } /\ pc[q] # "idle"
      BY DEF Reset, BeginReset, ResetOvertake, ResetActivate, ResetInput, EndReset
    <2> QED
      BY <2>1, CurrentTask DEF Ownership, OwnedNotQueued
  <1>2. /\ input' = input /\ \A n \in Notifiers : pc'[n] = pc[n]
        /\ \A p \in Resetters \ {q} : pc'[p] = pc[p] /\ todo'[p] = todo[p] /\ idx'[p] = idx[p]
    <2>1. todo \in [Resetters -> Seq(Tasks)]
      BY DEF Ownership, TypeOK
    <2>2. \A p \in Resetters : p \in Processes
      BY DEF Processes
    <2> QED
      BY <1>0, <2>1, <2>2 DEF Reset, BeginReset, ResetOvertake, ResetActivate, ResetInput,
                              EndReset
  <1>3. \A i \in Inputs : Announced(i)' <=> Announced(i)
    BY <1>2 DEF Announced
  <1>4. \A p \in Resetters : InReset(p) /\ t = Head(todo[p]) => Owns(p, t)
    BY CurrentTask DEF InReset, Ownership
  <1> HIDE DEF c
  <1>5. CASE t # c
    <2>1. state'[t] = state[t]
      <3>1. ResetActivate(q) => Activate(c)
        BY DEF ResetActivate, c
      <3> QED
        BY <1>0, <1>1, <1>5, <3>1
           DEF Reset, BeginReset, ResetOvertake, ResetInput, EndReset, Activate, c
    <2>2. InReset(q)' => todo'[q] = todo[q]
      BY <1>0 DEF Reset, BeginReset, ResetOvertake, ResetActivate, ResetInput, EndReset,
                  InReset
    <2>3. Watched(t, S)
      <3>1. ASSUME NEW p \in Resetters, InReset(p)', t = Head(todo'[p]), S = Behind(p)'
            PROVE  InReset(p) /\ t = Head(todo[p]) /\ S = Behind(p)
        <4>1. p # q
          BY <1>5, <2>2, <3>1 DEF c
        <4> QED
          BY <1>2, <3>1, <4>1 DEF InReset, Behind
      <3> QED
        BY <2>1, <3>1 DEF Watched
    <2>4. \A i \in InputSet(t) : notifications'[i] = notifications[i]
      <3>1. CASE ResetOvertake(q) \/ ResetInput(q)
        <4>1. CurrentInput(q) \in InputSet(c)
          BY <3>1, InputInReset DEF ResetOvertake, ResetInput, InReset, VolumeInv, c
        <4>2. CurrentInput(q) \notin InputSet(t)
          BY <1>1, <1>5, <4>1, TaskAssumption
        <4> QED
          BY <1>0, <3>1, <4>2 DEF ResetOvertake, ResetInput
      <3>2. CASE BeginReset(q) \/ ResetActivate(q) \/ EndReset(q)
        BY <3>2 DEF BeginReset, ResetActivate, EndReset
      <3> QED
        BY <3>1, <3>2 DEF Reset
    <2>5. \A i \in InputSet(t) : IsActive(i)' <=> IsActive(i)
      BY <2>4 DEF IsActive
    <2> QED
      BY <1>0, <1>3, <2>3, <2>5, AnsweredKept DEF AnsweredInv
  <1>6. CASE t = c
    <2>1. ASSUME NEW p \in Resetters, InReset(p)', t = Head(todo'[p])
          PROVE  p = q
      BY <1>1, <1>2, <1>4, <1>6, <2>1 DEF InReset, Ownership, OneOwner
    <2>2. ASSUME InReset(q), state[t] = "RESET"
          PROVE  Answered(t, Behind(q))
      <3>1. Behind(q) \in SUBSET InputSet(t) /\ t = Head(todo[q])
        BY <1>6, <2>2, BehindSteps DEF VolumeInv, c
      <3> QED
        BY <2>2, <3>1 DEF AnsweredInv, Watched
    <2>3. CASE BeginReset(q)
      <3>1. idx'[q] = 1 /\ state'[t] = "RESET"
        BY <1>0, <1>1, <1>6, <2>3 DEF BeginReset, c
      <3>2. S = Behind(q)'
        BY <2>1, <3>1 DEF Watched
      <3>3. S = {}
        BY <3>1, <3>2 DEF Behind
      <3> QED
        BY <3>3 DEF Answered
    <2>4. CASE ResetOvertake(q)
      <3> DEFINE i == CurrentInput(q)
      <3>1. /\ state' = state /\ todo' = todo /\ idx' = idx
            /\ InReset(q) /\ InputsLeft(q)
            /\ \A j \in Inputs \ {i} : notifications'[j] = notifications[j]
        BY <1>0, <2>4 DEF ResetOvertake, InReset
      <3>2. state[t] = "RESET" /\ S = Behind(q)' /\ Behind(q)' = Behind(q)
        BY <1>1, <1>6, <2>1, <3>1 DEF Watched, Behind
      <3>3. Answered(t, S) /\ i \notin S
        BY <2>2, <3>1, <3>2, BehindSteps DEF VolumeInv
      <3> HIDE DEF i
      <3>4. \A j \in S : IsActive(j)' <=> IsActive(j)
        BY <1>0, <3>1, <3>3 DEF IsActive
      <3> QED
        BY <1>0, <1>3, <3>3, <3>4 DEF Answered, Required
    <2>5. CASE ResetActivate(q)
      <3>1. notifications' = notifications /\ Activate(t) /\ state[t] \in { "RESET", "PENDING" }
        BY <1>6, <2>5 DEF ResetActivate, VolumeInv, ResetStates, InReset, c
      <3>2. ~Activated(t)
        BY <1>0, <3>1 DEF Activate, Watched
      <3>3. Answered(t, S)
        BY <3>2, NotActivatedAnswered
      <3> QED
        BY <1>0, <1>3, <3>1, <3>3, AnsweredKept DEF IsActive
    <2>6. CASE ResetInput(q)
      <3>1. PICK i \in Inputs :
               /\ i = CurrentInput(q) /\ ~Suffices(i) /\ notifications'[i] = Kept(i)
               /\ \A j \in Inputs \ {i} : notifications'[j] = notifications[j]
        <4>1. CurrentInput(q) \in Inputs
          BY <2>6, InputInReset DEF ResetInput, InReset, VolumeInv
        <4> QED
          BY <1>0, <2>6, <4>1 DEF ResetInput
      <3>2. /\ state' = state /\ todo' = todo /\ idx'[q] = idx[q] + 1
            /\ InReset(q) /\ InputsLeft(q)
        BY <1>0, <2>6 DEF ResetInput, InReset
      <3>3. state[t] = "RESET" /\ S = Behind(q)'
        BY <1>1, <1>6, <2>1, <3>2 DEF Watched
      <3>4. Behind(q)' = Behind(q) \cup {i}
        <4>1. Behind(q)' = { InputsOf[Head(todo[q])][k] : k \in 1..idx[q] }
          BY <1>0, <3>2 DEF Behind
        <4> QED
          BY <3>1, <3>2, <4>1, BehindSteps DEF VolumeInv
      <3>5. Answered(t, Behind(q)) /\ i \notin Behind(q)
        BY <2>2, <3>1, <3>2, <3>3, BehindSteps DEF VolumeInv
      <3>6. i \in Final \/ Required(i) => ~IsActive(i)'
        <4>1. Threshold[i] \in Nat /\ missed[i] \in Nat
          BY <3>1, InputAssumption DEF Ownership, TypeOK
        <4> QED
          BY <3>1, <4>1 DEF IsActive, Required
      <3>7. S = Behind(q) \cup {i}
        BY <3>3, <3>4
      <3>8. \A j \in Behind(q) : j \in InputSet(t) /\ (IsActive(j)' <=> IsActive(j))
        BY <1>0, <3>1, <3>5, <3>7 DEF IsActive
      <3>9. \A j \in S : j \in Final /\ IsActive(j)' => Announced(j)'
        BY <1>0, <1>3, <3>5, <3>6, <3>7, <3>8 DEF Answered
      <3>10. ASSUME \E j \in InputSet(t) : Required(j),
                    \A j \in InputSet(t) : Required(j) => j \in S /\ IsActive(j)'
             PROVE  \E j \in InputSet(t) : Required(j) /\ Announced(j)'
        <4>1. \A j \in InputSet(t) : Required(j) => j \in Behind(q) /\ IsActive(j)
          BY <3>6, <3>7, <3>8, <3>10
        <4> QED
          BY <1>0, <1>3, <3>5, <3>10, <4>1 DEF Answered
      <3> QED
        BY <3>9, <3>10 DEF Answered, Required
    <2>7. CASE EndReset(q)
      <3>1. /\ notifications' = notifications /\ InReset(q) /\ ~InputsLeft(q)
            /\ state[t] # "PENDING" \/ ~Activated(t)
            /\ state'[t] = "WAIT"
        <4>1. state'[t] # "RUN"
          BY DEF Watched
        <4> QED
          BY <1>0, <1>1, <1>6, <2>7, <4>1 DEF EndReset, InReset, c
      <3>2. S = InputSet(t)
        BY <3>1 DEF Watched
      <3>3. Answered(t, S)
        <4>1. CASE ~Activated(t)
          BY <4>1, NotActivatedAnswered
        <4>2. CASE state[t] = "RESET"
          BY <1>6, <2>2, <3>1, <3>2, <4>2, BehindSteps DEF VolumeInv, c
        <4> QED
          BY <1>6, <3>1, <4>1, <4>2 DEF VolumeInv, ResetStates, c
      <3> QED
        BY <1>0, <1>3, <3>1, <3>3, AnsweredKept DEF IsActive
    <2> QED
      BY <2>3, <2>4, <2>5, <2>6, <2>7 DEF Reset
  <1> QED
    BY <1>5, <1>6

\* Whoever makes a step, the tasks that are activated are announced.
LEMMA AnsweredStep ==
    ASSUME Ownership, VolumeInv, AnsweredInv, [Next]_vars
    PROVE  AnsweredInv'
  <1> SUFFICES ASSUME NEW t \in Tasks, NEW S \in SUBSET InputSet(t), Watched(t, S)'
               PROVE  Answered(t, S)'
    BY DEF AnsweredInv, InputSet
  <1> USE ProcessAssumption
  <1>0. /\ pc \in [Processes -> ExecutorPCs \cup StarterPCs \cup NotifierPCs]
        /\ \A p \in Resetters : p \in Processes
        /\ \A n \in Notifiers : n \in Processes /\ n \notin Resetters
        /\ state \in [Tasks -> TaskStates]
    BY DEF Ownership, TypeOK, Processes, Resetters
  <1>1. ASSUME \A p \in Resetters :
                  InReset(p)' => InReset(p) /\ todo'[p] = todo[p] /\ idx'[p] = idx[p],
               state'[t] = state[t]
        PROVE  Watched(t, S) /\ Answered(t, S)
    <2>1. Watched(t, S)
      BY <1>1 DEF Watched, Behind
    <2> QED
      BY <2>1 DEF AnsweredInv
  <1>2. ASSUME NEW n \in Notifiers, Notify(n)
        PROVE  Answered(t, S)'
    <2>1. /\ UNCHANGED << todo, idx >> /\ \A p \in Resetters : pc'[p] = pc[p]
      BY <1>0, <1>2 DEF Notify, NotifyMissed, NotifySync, NotifyLoad, MayNotify,
                        NotifyStore, NotifyCheck, NotifyActivate
    <2>2. state'[t] = state[t]
      <3>1. state'[t] \in { "WAIT", "RESET" }
        BY DEF Watched
      <3>2. NotifyActivate(n) => Activate(TaskOf(input[n]))
        BY DEF NotifyActivate
      <3> QED
        BY <1>0, <1>2, <3>1, <3>2
           DEF Notify, NotifyMissed, NotifySync, NotifyLoad, NotifyStore, NotifyCheck,
               Activate
    <2>3. Watched(t, S) /\ Answered(t, S)
      BY <1>1, <2>1, <2>2 DEF InReset
    <2> QED
      BY <1>2, <2>2, <2>3, NotifierAnswered DEF Watched
  <1>3. ASSUME Start \/ (\E e \in Executors : Execute(e)) \/ UNCHANGED vars
        PROVE  Answered(t, S)'
    <2>1. /\ UNCHANGED << notifications, input >> /\ \A n \in Notifiers : pc'[n] = pc[n]
          /\ \A p \in Resetters :
                InReset(p)' => InReset(p) /\ todo'[p] = todo[p] /\ idx'[p] = idx[p]
      <3>1. CASE Start
        BY <1>0, <3>1 DEF Start, InReset, Ownership, TypeOK, Resetters
      <3>2. ASSUME NEW e \in Executors, Execute(e)
            PROVE  <2>1
        BY <1>0, <3>2 DEF Execute, Take, SynchronizeStart, FinalizeAlone,
                          FinalizeInGroup, GroupReset, GroupWait, InReset,
                          Ownership, TypeOK, Resetters
      <3>3. CASE UNCHANGED vars
        BY <3>3 DEF vars, InReset
      <3> QED
        BY <1>3, <3>1, <3>2, <3>3
    <2>2. state'[t] = state[t]
      <3>1. state'[t] \in { "WAIT", "RESET" }
        BY DEF Watched
      <3> QED
        BY <1>0, <1>3, <3>1
           DEF Start, vars, Execute, Take, SynchronizeStart, FinalizeAlone,
               FinalizeInGroup, GroupReset, GroupWait
    <2>3. Answered(t, S)
      BY <1>1, <2>1, <2>2
    <2> QED
      BY <2>1, <2>3, AnsweredKept DEF Announced, IsActive
  <1> QED
    BY <1>2, <1>3, ResetAnswered DEF Next

\* AnsweredInv is an invariant.
LEMMA AnsweredInvariant ==
    ASSUME SafeGroups
    PROVE  Spec => []AnsweredInv
  <1>1. Init => AnsweredInv
    BY DEF Init, AnsweredInv, Watched
  <1>2. Ownership /\ VolumeInv /\ AnsweredInv /\ [Next]_vars => AnsweredInv'
    BY AnsweredStep
  <1> QED
    BY <1>1, <1>2, OwnershipInvariant, VolumeInvariant, PTL DEF Spec

\* A waiting task whose inputs are activated has a notifier that is about to
\* activate it.
THEOREM NoneMissed ==
    ASSUME SafeGroups
    PROVE  Spec => []NoMissedActivation
  <1>1. ASSUME AnsweredInv, NEW t \in Tasks, state[t] = "WAIT", Due(t)
        PROVE  \E n \in Notifiers :
                  pc[n] \in { "check", "activate" } /\ TaskOf(input[n]) = t
    <2>1. Answered(t, InputSet(t))
      BY <1>1 DEF AnsweredInv, Watched
    <2>2. \E i \in InputSet(t) : Announced(i)
      <3>1. CASE \E i \in InputSet(t) : i \in Final /\ IsActive(i)
        BY <2>1, <3>1 DEF Answered
      <3>2. CASE ~\E i \in InputSet(t) : i \in Final /\ IsActive(i)
        BY <1>1, <2>1, <3>2 DEF Answered, Due, Activated, Required
      <3> QED
        BY <3>1, <3>2
    <2> QED
      BY <2>2, TaskOfItsInput DEF Announced
  <1>2. AnsweredInv => NoMissedActivation
    BY <1>1 DEF NoMissedActivation
  <1> QED
    BY <1>2, AnsweredInvariant, PTL

-----------------------------------------------------------------------------
(* What executors work on.                                                 *)

\* A task gets the state TASK_FINISH at the end of its execution, with the mutex
\* of its scheduler.
LEMMA FinishStep ==
    ASSUME Ownership, [Next]_vars, NEW t \in Tasks, state'[t] = "FINISH"
    PROVE  \/ state[t] = "FINISH"
           \/ \E e \in Executors : /\ FinalizeInGroup(e) /\ t = Head(todo[e])
                                   /\ syncMutex[SchedulerOf(t)] = NoProc
                                   /\ GroupOf[t] # << >>
  <1>0. state \in [Tasks -> TaskStates]
    BY DEF Ownership, TypeOK
  <1>1. ASSUME NEW p \in Resetters, BeginReset(p) \/ EndReset(p), t = Head(todo[p])
        PROVE  FALSE
    BY <1>0, <1>1 DEF BeginReset, EndReset
  <1>2. ASSUME NEW e \in Executors, FinalizeInGroup(e), t = Head(todo[e])
        PROVE  syncMutex[SchedulerOf(t)] = NoProc /\ GroupOf[t] # << >>
    <2>1. pc[e] = "execute" /\ e \in Resetters
      BY <1>2 DEF FinalizeInGroup, Resetters
    <2>2. SchedulerOf(t) = Home[e]
      BY <1>2, <2>1, CurrentTask DEF Ownership, Jobs, Owns
    <2> QED
      BY <1>2, <2>2 DEF FinalizeInGroup
  <1> QED
    BY <1>1, <1>2, StateStep

\* The group of a task, seen from another one.
LEMMA SameGroup ==
    ASSUME NEW t \in Tasks, NEW u \in Range(GroupOf[t])
    PROVE  /\ u \in Tasks /\ GroupOf[u] = GroupOf[t] /\ GroupOf[t] # << >>
           /\ SafeGroups => SchedulerOf(u) = SchedulerOf(t) /\ QuietStart
  <1>1. u \in Tasks
    BY RangeInSet, GroupAssumption
  <1>2. GroupOf[t] # << >>
    BY DEF Range
  <1> QED
    BY <1>1, <1>2, GroupAssumption DEF SafeGroups

\* Executors work on one task, or on a group whose tasks they reset in turn.
LEMMA WorkStep ==
    ASSUME SafeGroups, Ownership, ResetStates, Work, [Next]_vars
    PROVE  Work'
  <1> USE ProcessAssumption
  <1> SUFFICES
        ASSUME NEW e \in Executors
        PROVE  /\ pc'[e] = "check" => state'[Head(todo'[e])] = "FINISH"
               /\ Resetting(e)' =>
                  \/ /\ GroupOf[Head(todo'[e])] = << >> /\ Len(todo'[e]) = 1
                     /\ pc'[e] = "begin" => state'[Head(todo'[e])] = "RUN"
                  \/ /\ GroupOf[Head(todo'[e])] # << >>
                     /\ Range(todo'[e]) \subseteq Range(GroupOf[Head(todo'[e])])
                     /\ \A u \in Range(GroupOf[Head(todo'[e])]) \ Range(todo'[e]) :
                           state'[u] # "FINISH"
    BY DEF Work, Resetting
  <1> DEFINE c == Head(todo[e])
  <1>0. /\ e \in Resetters /\ e \in Processes /\ e # Starter
        /\ pc \in [Processes -> ExecutorPCs \cup StarterPCs \cup NotifierPCs]
        /\ state \in [Tasks -> TaskStates] /\ todo \in [Resetters -> Seq(Tasks)]
    BY DEF Ownership, TypeOK, Processes, Resetters
  <1>1. ASSUME pc[e] # "idle"
        PROVE  /\ c \in Tasks /\ Owns(e, c) /\ SchedulerOf(c) = Home[e]
               /\ todo[e] \in Seq(Tasks) /\ todo[e] # << >> /\ Distinct(todo[e])
    <2>1. /\ c \in Tasks /\ Owns(e, c)
          /\ todo[e] \in Seq(Tasks) /\ todo[e] # << >> /\ Distinct(todo[e])
      BY <1>0, <1>1, CurrentTask DEF Ownership
    <2>2. SchedulerOf(c) = Home[e]
      BY <1>0, <1>1, <2>1 DEF Owns, Ownership, Jobs
    <2> QED
      BY <2>1, <2>2
  <1> HIDE DEF c
  <1>2. CASE FinalizeInGroup(e)
    <2>1. c \in Tasks
      BY <1>1, <1>2 DEF FinalizeInGroup
    <2> QED
      BY <1>0, <1>2, <2>1 DEF FinalizeInGroup, Resetting, c
  <1>3. CASE FinalizeAlone(e)
    <2>1. /\ GroupOf[c] = << >> /\ Len(todo[e]) = 1 /\ state[c] = "RUN"
          /\ todo' = todo /\ state' = state /\ pc'[e] = "begin"
      BY <1>0, <1>3 DEF FinalizeAlone, Ownership, Jobs, ExecutedRuns, c
    <2> QED
      BY <2>1 DEF c
  <1>4. CASE GroupReset(e)
    <2> DEFINE g == GroupOf[c]
    <2>1. /\ todo'[e] = g /\ pc'[e] = "begin" /\ c \in Tasks /\ g # << >>
      BY <1>0, <1>1, <1>4 DEF GroupReset, Ownership, ExecutedRuns, c
    <2>2. g \in Seq(Tasks) /\ Distinct(g)
      BY <2>1, GroupAssumption
    <2> HIDE DEF g
    <2>3. Head(g) \in Range(g)
      BY <2>1, <2>2, TailOfDistinct
    <2>4. GroupOf[Head(g)] = g
      BY <2>1, <2>3, SameGroup DEF g
    <2> QED
      BY <2>1, <2>4
  <1>5. CASE BeginReset(e) \/ ResetOvertake(e) \/ ResetActivate(e) \/ ResetInput(e)
    <2>1. /\ pc[e] # "idle" /\ Resetting(e) /\ todo' = todo
          /\ pc'[e] \in { "input", "activate" }
      BY <1>0, <1>5 DEF BeginReset, ResetOvertake, ResetActivate, ResetInput, Resetting
    <2>2. \A u \in Tasks : u # c => state'[u] = state[u]
      <3>1. ResetActivate(e) => Activate(c)
        BY DEF ResetActivate, c
      <3> QED
        BY <1>0, <1>5, <3>1 DEF BeginReset, ResetOvertake, ResetInput, Activate, c
    <2>3. c \in Tasks /\ c \in Range(todo[e])
      BY <1>1, <2>1 DEF Owns
    <2>4. \A u \in Range(GroupOf[c]) : u \in Tasks
      BY <2>3, SameGroup
    <2>5. \/ GroupOf[c] = << >> /\ Len(todo[e]) = 1
          \/ /\ GroupOf[c] # << >> /\ Range(todo[e]) \subseteq Range(GroupOf[c])
             /\ \A u \in Range(GroupOf[c]) \ Range(todo[e]) : state[u] # "FINISH"
      BY <2>1 DEF Work, c
    <2> QED
      BY <2>1, <2>2, <2>3, <2>4, <2>5 DEF c
  <1>6. CASE EndReset(e)
    <2>1. /\ pc[e] = "input" /\ pc[e] # "idle" /\ Resetting(e)
          /\ todo'[e] = Tail(todo[e])
          /\ pc'[e] = IF Len(todo[e]) > 1 THEN "begin" ELSE "idle"
      BY <1>0, <1>6 DEF EndReset, Resetting
    <2>2. CASE Len(todo[e]) > 1
      <3>1. /\ todo'[e] \in Seq(Tasks) /\ todo'[e] # << >> /\ Distinct(todo'[e])
            /\ Range(todo'[e]) = Range(todo[e]) \ {c} /\ c \in Tasks
        BY <1>1, <2>1, <2>2, TailOfDistinct DEF c
      <3>2. Len(todo[e]) # 1
        BY <1>1, <2>1, <3>1, TailOfDistinct
      <3>3. /\ GroupOf[c] # << >> /\ Range(todo[e]) \subseteq Range(GroupOf[c])
            /\ \A u \in Range(GroupOf[c]) \ Range(todo[e]) : state[u] # "FINISH"
        BY <2>1, <3>2 DEF Work, c
      <3>4. Head(todo'[e]) \in Range(todo'[e])
        BY <3>1, TailOfDistinct
      <3>5. GroupOf[Head(todo'[e])] = GroupOf[c]
        BY <3>1, <3>3, <3>4, SameGroup
      <3>6. ASSUME NEW u \in Range(GroupOf[c]) \ Range(todo'[e])
            PROVE  state'[u] # "FINISH"
        <4>1. u \in Tasks /\ c \in Tasks
          BY <3>1, <3>6, SameGroup
        <4>2. CASE u = c
          BY <1>0, <1>6, <4>1, <4>2 DEF EndReset, c
        <4>3. CASE u # c
          <5>1. state'[u] = state[u]
            BY <1>0, <1>6, <4>1, <4>3 DEF EndReset, c
          <5> QED
            BY <3>1, <3>3, <3>6, <4>3, <5>1
        <4> QED
          BY <4>2, <4>3
      <3> QED
        BY <2>1, <2>2, <3>1, <3>3, <3>5, <3>6
    <2>3. CASE ~(Len(todo[e]) > 1)
      BY <2>1, <2>3 DEF Resetting
    <2> QED
      BY <2>2, <2>3
  <1>7. CASE (\E t \in Tasks : Take(e, t)) \/ SynchronizeStart(e) \/ GroupWait(e)
    BY <1>0, <1>7 DEF Take, SynchronizeStart, GroupWait, Resetting
  <1>8. CASE ~Execute(e) /\ ~Reset(e)
    <2>1. pc'[e] = pc[e] /\ todo'[e] = todo[e]
      BY <1>0, <1>8, ActorStep
    <2>2. ASSUME pc[e] # "idle"
          PROVE  state'[c] = state[c] \/ state[c] = "RESET"
      BY <1>0, <1>1, <1>8, <2>2, OtherSteps DEF Execute, Reset
    <2>3. ASSUME Resetting(e), NEW u \in Range(GroupOf[c]), state[u] # "FINISH"
          PROVE  state'[u] # "FINISH"
      <3>1. pc[e] # "idle" /\ syncMutex[Home[e]] = e
        BY <2>3 DEF Resetting, Ownership, MutexHeld
      <3>2. u \in Tasks /\ SchedulerOf(u) = Home[e]
        BY <1>1, <2>3, <3>1, SameGroup
      <3> QED
        BY <2>3, <3>1, <3>2, FinishStep
    <2>4. pc[e] = "check" => state[c] = "FINISH"
      BY DEF Work, c
    <2>5. Resetting(e) =>
             \/ /\ GroupOf[c] = << >> /\ Len(todo[e]) = 1
                /\ pc[e] = "begin" => state[c] = "RUN"
             \/ /\ GroupOf[c] # << >> /\ Range(todo[e]) \subseteq Range(GroupOf[c])
                /\ \A u \in Range(GroupOf[c]) \ Range(todo[e]) : state[u] # "FINISH"
      BY DEF Work, c
    <2>6. Head(todo'[e]) = c /\ (Resetting(e)' => Resetting(e) /\ pc[e] # "idle")
      BY <2>1 DEF Resetting, c
    <2> QED
      BY <2>1, <2>2, <2>3, <2>4, <2>5, <2>6
  <1> QED
    BY <1>2, <1>3, <1>4, <1>5, <1>6, <1>7, <1>8 DEF Execute, Reset

\* The owners of a task that no resetter takes or gives up.
LEMMA OwnedKept ==
    ASSUME \A p \in Resetters : pc'[p] = pc[p] /\ todo'[p] = todo[p]
    PROVE  \A t \in Tasks : Owned(t)' <=> Owned(t)
  BY DEF Owned, Owns

\* A notifier activates tasks of running schedulers.
LEMMA LifeNotify ==
    ASSUME Ownership, LifeCycle, NEW n \in Notifiers, Notify(n)
    PROVE  LifeCycle'
  <1> USE ProcessAssumption
  <1>0. /\ pc \in [Processes -> ExecutorPCs \cup StarterPCs \cup NotifierPCs]
        /\ \A p \in Resetters : p \in Processes /\ p # n
        /\ Starter \in Resetters
        /\ state \in [Tasks -> TaskStates] /\ queued \in [Tasks -> Nat]
    BY DEF Ownership, TypeOK, Processes, Resetters
  <1>1. /\ running' = running /\ stopped' = stopped
        /\ \A p \in Resetters : pc'[p] = pc[p] /\ todo'[p] = todo[p]
    BY <1>0 DEF Notify, NotifyMissed, NotifySync, NotifyLoad, MayNotify, NotifyStore,
                NotifyCheck, NotifyActivate
  <1>2. (\A t \in Tasks : Owned(t)' <=> Owned(t)) /\ (Started' <=> Started) /\ Begun' = Begun
    BY <1>0, <1>1, OwnedKept DEF Started, Begun
  <1>3. ASSUME NEW t \in Tasks
        PROVE  \/ state'[t] = state[t] /\ queued'[t] = queued[t]
               \/ /\ state[t] = "WAIT" /\ state'[t] = "RUN"
                  /\ running[SchedulerOf(t)] => queued'[t] = queued[t] + 1
               \/ state[t] = "RESET" /\ state'[t] = "PENDING" /\ queued'[t] = queued[t]
    <2>1. CASE NotifyActivate(n)
      <3>1. PICK u \in Tasks : Activate(u)
        BY <2>1, TaskOfInput DEF NotifyActivate, Ownership, TypeOK
      <3> QED
        BY <1>0, <3>1 DEF Activate, Perform
    <2>2. CASE ~NotifyActivate(n)
      BY <2>2 DEF Notify, NotifyMissed, NotifySync, NotifyLoad, MayNotify, NotifyStore,
                  NotifyCheck
    <2> QED
      BY <2>1, <2>2
  <1>4. \A t \in Tasks : queued[t] <= 1 /\ (queued[t] = 1 => state[t] = "RUN")
    BY DEF Ownership, QueuedRuns
  <1>5. ASSUME NEW t \in Tasks
        PROVE  /\ state'[t] # "FINISH" \/ Owned(t)' => running'[SchedulerOf(t)]
               /\ state'[t] \in { "RESET", "PENDING" } => Owned(t)'
               /\ state'[t] = "RUN" => queued'[t] = 1 \/ Owned(t)'
               /\ state'[t] = "FINISH" /\ (GroupOf[t] = << >> \/ ~Started') =>
                     Owned(t)' \/ SchedulerOf(t) \notin Begun'
    <2>1. queued[t] \in Nat
      BY <1>0
    <2> QED
      BY <1>1, <1>2, <1>3, <1>4, <2>1 DEF LifeCycle
  <1>6. /\ Range(stopped') \subseteq Range(StartOrder)
        /\ \A s \in Schedulers : running'[s] <=> s \in Begun'
    BY <1>1, <1>2 DEF LifeCycle
  <1> QED
    BY <1>5, <1>6 DEF LifeCycle

\* An executor takes a task over from the run queue, and leaves the finished
\* tasks of a group alone until all of them are finished.
LEMMA LifeExecute ==
    ASSUME SafeGroups, Ownership, Work, LifeCycle, NEW e \in Executors, Execute(e)
    PROVE  LifeCycle'
  <1> USE ProcessAssumption
  <1> DEFINE c == Head(todo[e])
  <1>0. /\ e \in Resetters /\ e \in Processes /\ e # Starter /\ Starter \in Processes
        /\ pc \in [Processes -> ExecutorPCs \cup StarterPCs \cup NotifierPCs]
        /\ state \in [Tasks -> TaskStates] /\ queued \in [Tasks -> Nat]
        /\ todo \in [Resetters -> Seq(Tasks)]
    BY DEF Ownership, TypeOK, Processes, Resetters
  <1>1. /\ running' = running /\ stopped' = stopped /\ pc'[Starter] = pc[Starter]
        /\ \A p \in Resetters \ {e} : pc'[p] = pc[p] /\ todo'[p] = todo[p]
    <2>1. \A p \in Resetters : p \in Processes
      BY DEF Processes
    <2> QED
      BY <1>0, <2>1 DEF Execute, Take, SynchronizeStart, FinalizeAlone, FinalizeInGroup,
                        GroupReset, GroupWait
  <1>2. (Started' <=> Started) /\ Begun' = Begun
    BY <1>1 DEF Started, Begun
  <1>3. pc[e] # "idle" => c \in Tasks /\ Owns(e, c) /\ running[SchedulerOf(c)]
    BY <1>0, CurrentTask DEF Ownership, LifeCycle, Owned
  <1>4. QuietStart /\ ~Started => pc[e] = "idle"
    BY DEF Ownership, Quiet
  <1>5. pc[e] = "check" => Range(todo[e]) = {c}
    <2>1. pc[e] = "check" => Len(todo[e]) = 1 /\ todo[e] \in Seq(Tasks)
      BY <1>0 DEF Ownership, Jobs
    <2> QED
      BY <2>1, RangeOfSingle
  <1> HIDE DEF c
  <1>6. ASSUME NEW t \in Tasks
        PROVE  /\ state'[t] # "FINISH" \/ Owned(t)' => running'[SchedulerOf(t)]
               /\ state'[t] \in { "RESET", "PENDING" } => Owned(t)'
               /\ state'[t] = "RUN" => queued'[t] = 1 \/ Owned(t)'
               /\ state'[t] = "FINISH" /\ (GroupOf[t] = << >> \/ ~Started') =>
                     Owned(t)' \/ SchedulerOf(t) \notin Begun'
    <2>0. /\ state[t] # "FINISH" \/ Owned(t) => running[SchedulerOf(t)]
          /\ state[t] \in { "RESET", "PENDING" } => Owned(t)
          /\ state[t] = "RUN" => queued[t] = 1 \/ Owned(t)
          /\ state[t] = "FINISH" /\ (GroupOf[t] = << >> \/ ~Started) =>
                Owned(t) \/ SchedulerOf(t) \notin Begun
      BY DEF LifeCycle
    <2>1. ASSUME NEW u \in Tasks, Take(e, u)
          PROVE  <1>6!2
      <3>1. /\ state' = state /\ pc[e] = "idle" /\ pc'[e] = "syncStart"
            /\ todo'[e] = << u >> /\ queued[u] > 0
            /\ t # u => queued'[t] = queued[t]
        BY <1>0, <2>1 DEF Take
      <3>2. Owns(e, t)' <=> t = u
        BY <3>1, Singleton DEF Owns
      <3>3. state[u] = "RUN"
        BY <1>0, <3>1 DEF Ownership, QueuedRuns
      <3>4. Owned(t)' <=> Owned(t) \/ t = u
        BY <1>0, <1>1, <3>1, <3>2 DEF Owned, Owns
      <3> QED
        BY <1>1, <1>2, <2>0, <3>1, <3>3, <3>4
    <2>2. CASE SynchronizeStart(e) \/ FinalizeAlone(e) \/ FinalizeInGroup(e)
      <3>1. /\ queued' = queued /\ pc[e] # "idle" /\ pc'[e] # "idle" /\ todo' = todo
            /\ t # c => state'[t] = state[t]
        BY <1>0, <2>2 DEF SynchronizeStart, FinalizeAlone, FinalizeInGroup, c
      <3>2. Owned(t)' <=> Owned(t)
        BY <1>0, <1>1, <3>1 DEF Owned, Owns
      <3>3. Owned(c)
        BY <1>0, <1>3, <3>1 DEF Owned
      <3> QED
        BY <1>1, <1>2, <2>0, <3>1, <3>2, <3>3
    <2>3. CASE GroupReset(e)
      <3>1. /\ state' = state /\ queued' = queued /\ pc[e] = "check" /\ pc[e] # "idle"
            /\ pc'[e] = "begin" /\ todo'[e] = GroupOf[c]
        BY <1>0, <2>3 DEF GroupReset, c
      <3>2. Owns(e, t) => t = c
        BY <1>5, <3>1 DEF Owns
      <3>3. c \in Range(GroupOf[c])
        BY <1>0, <1>3, <3>1, GroupAssumption DEF Ownership, ExecutedRuns, c
      <3>4. Owns(e, t)' <=> t \in Range(GroupOf[c])
        BY <3>1 DEF Owns
      <3>5. t \in Range(GroupOf[c]) => running[SchedulerOf(t)]
        BY <1>3, <3>1, SameGroup
      <3>6. Owned(t)' <=> Owned(t) \/ t \in Range(GroupOf[c])
        BY <1>0, <1>1, <1>3, <3>1, <3>2, <3>3, <3>4 DEF Owned, Owns
      <3> QED
        BY <1>1, <1>2, <2>0, <3>1, <3>5, <3>6
    <2>4. CASE GroupWait(e)
      <3>1. /\ state' = state /\ queued' = queued /\ pc[e] = "check" /\ pc[e] # "idle"
            /\ pc'[e] = "idle"
        BY <1>0, <2>4 DEF GroupWait, c
      <3>2. Owns(e, t) => t = c
        BY <1>5, <3>1 DEF Owns
      <3>3. state[c] = "FINISH" /\ GroupOf[c] # << >>
        BY <3>1 DEF Work, Ownership, ExecutedRuns, c
      <3>4. t # c => (Owned(t)' <=> Owned(t))
        BY <1>0, <1>1, <3>1, <3>2 DEF Owned, Owns
      <3>5. Owned(t)' => Owned(t)
        BY <1>0, <1>1, <3>1 DEF Owned, Owns
      <3>6. Started
        BY <1>3, <1>4, <3>1, <3>3 DEF SafeGroups
      <3> QED
        BY <1>1, <1>2, <2>0, <3>1, <3>3, <3>4, <3>5, <3>6
    <2> QED
      BY <2>1, <2>2, <2>3, <2>4 DEF Execute
  <1>7. /\ Range(stopped') \subseteq Range(StartOrder)
        /\ \A s \in Schedulers : running'[s] <=> s \in Begun'
    BY <1>1, <1>2 DEF LifeCycle
  <1> QED
    BY <1>6, <1>7 DEF LifeCycle

\* The starter makes a scheduler run and takes all of its tasks over.
LEMMA LifeStart ==
    ASSUME Ownership, LifeCycle, Start
    PROVE  LifeCycle'
  <1> USE ProcessAssumption
  <1> DEFINE s == Head(stopped)
  <1>0. /\ Starter \in Resetters /\ Starter \in Processes
        /\ \A p \in Resetters : p \in Processes
        /\ pc \in [Processes -> ExecutorPCs \cup StarterPCs \cup NotifierPCs]
        /\ todo \in [Resetters -> Seq(Tasks)] /\ running \in [Schedulers -> BOOLEAN]
        /\ stopped \in Seq(Schedulers)
    BY DEF Ownership, TypeOK, Processes, Resetters
  <1>1. /\ pc[Starter] = "idle" /\ stopped # << >> /\ stopped' = Tail(stopped)
        /\ state' = state /\ queued' = queued
        /\ running' = [running EXCEPT ![s] = TRUE] /\ todo'[Starter] = TaskList[s]
        /\ TaskList[s] # << >> => pc'[Starter] # "idle"
        /\ \A p \in Resetters \ {Starter} : pc'[p] = pc[p] /\ todo'[p] = todo[p]
    BY <1>0 DEF Start
  <1>2. /\ s \in Schedulers /\ s \in Range(stopped)
        /\ Range(stopped') = Range(stopped) \ {s}
    <2>1. Distinct(stopped)
      BY DEF Ownership, NotStarted
    <2> QED
      BY <1>0, <1>1, <2>1, TailOfDistinct
  <1> HIDE DEF s
  <1>3. /\ Range(stopped') \subseteq Range(StartOrder)
        /\ Begun' = Begun \cup {s}
        /\ \A r \in Schedulers : running'[r] <=> r \in Begun'
    <2>1. Begun' = Begun \cup {s} /\ Range(stopped') \subseteq Range(StartOrder)
      BY <1>2 DEF Begun, LifeCycle
    <2>2. ASSUME NEW r \in Schedulers
          PROVE  running'[r] <=> r \in Begun'
      BY <1>0, <1>1, <2>1 DEF LifeCycle
    <2> QED
      BY <2>1, <2>2
  <1>4. \A t \in Tasks : SchedulerOf(t) \in Schedulers
                         /\ (t \in Range(TaskList[s]) <=> SchedulerOf(t) = s)
    BY <1>2, SchedulerOfTask
  <1>5. ASSUME NEW t \in Tasks
        PROVE  Owned(t)' <=> Owned(t) \/ SchedulerOf(t) = s
    <2>1. Owns(Starter, t)' <=> SchedulerOf(t) = s
      <3>1. t \in Range(TaskList[s]) => TaskList[s] # << >>
        BY DEF Range
      <3> QED
        BY <1>1, <1>4, <3>1 DEF Owns
    <2>2. ~Owns(Starter, t)
      BY <1>1 DEF Owns
    <2>3. \A p \in Resetters \ {Starter} : Owns(p, t)' <=> Owns(p, t)
      BY <1>1 DEF Owns
    <2> QED
      BY <1>0, <2>1, <2>2, <2>3 DEF Owned
  <1>6. ~Started
    BY <1>1 DEF Started
  <1>7. ASSUME NEW t \in Tasks
        PROVE  /\ state'[t] # "FINISH" \/ Owned(t)' => running'[SchedulerOf(t)]
               /\ state'[t] \in { "RESET", "PENDING" } => Owned(t)'
               /\ state'[t] = "RUN" => queued'[t] = 1 \/ Owned(t)'
               /\ state'[t] = "FINISH" /\ (GroupOf[t] = << >> \/ ~Started') =>
                     Owned(t)' \/ SchedulerOf(t) \notin Begun'
    <2>1. /\ state[t] # "FINISH" \/ Owned(t) => running[SchedulerOf(t)]
          /\ state[t] \in { "RESET", "PENDING" } => Owned(t)
          /\ state[t] = "RUN" => queued[t] = 1 \/ Owned(t)
          /\ state[t] = "FINISH" => Owned(t) \/ SchedulerOf(t) \notin Begun
      BY <1>6 DEF LifeCycle
    <2>2. running[SchedulerOf(t)] \/ SchedulerOf(t) = s => running'[SchedulerOf(t)]
      BY <1>0, <1>1, <1>2, <1>4
    <2> QED
      BY <1>1, <1>3, <1>5, <2>1, <2>2
  <1> QED
    BY <1>3, <1>7 DEF LifeCycle

\* A resetter keeps its task until the reset is over; then the task waits or is
\* queued, since its scheduler is running.
LEMMA LifeReset ==
    ASSUME Ownership, ResetStates, LifeCycle, NEW p \in Resetters, Reset(p)
    PROVE  LifeCycle'
  <1> USE ProcessAssumption
  <1> DEFINE c == Head(todo[p])
  <1>0. /\ p \in Processes /\ Starter \in Resetters
        /\ \A q \in Resetters : q \in Processes
        /\ pc \in [Processes -> ExecutorPCs \cup StarterPCs \cup NotifierPCs]
        /\ todo \in [Resetters -> Seq(Tasks)]
        /\ state \in [Tasks -> TaskStates] /\ queued \in [Tasks -> Nat]
    BY DEF Ownership, TypeOK, Processes, Resetters
  <1>1. /\ pc[p] # "idle" /\ running' = running /\ stopped' = stopped
        /\ \A q \in Resetters \ {p} : pc'[q] = pc[q] /\ todo'[q] = todo[q]
    BY <1>0 DEF Reset, BeginReset, ResetOvertake, ResetActivate, ResetInput, EndReset
  <1>2. /\ c \in Tasks /\ Owns(p, c) /\ Owned(c)
        /\ todo[p] \in Seq(Tasks) /\ todo[p] # << >> /\ Distinct(todo[p])
    BY <1>1, CurrentTask DEF Ownership, Owned
  <1>3. running[SchedulerOf(c)] /\ queued[c] = 0
    BY <1>2 DEF LifeCycle, Ownership, OwnedNotQueued
  <1>4. Begun' = Begun /\ (~Started' => ~Started)
    BY <1>0, <1>1 DEF Begun, Started
  <1> HIDE DEF c
  <1>5. ASSUME NEW t \in Tasks
        PROVE  /\ state'[t] # "FINISH" \/ Owned(t)' => running'[SchedulerOf(t)]
               /\ state'[t] \in { "RESET", "PENDING" } => Owned(t)'
               /\ state'[t] = "RUN" => queued'[t] = 1 \/ Owned(t)'
               /\ state'[t] = "FINISH" /\ (GroupOf[t] = << >> \/ ~Started') =>
                     Owned(t)' \/ SchedulerOf(t) \notin Begun'
    <2>0. /\ state[t] # "FINISH" \/ Owned(t) => running[SchedulerOf(t)]
          /\ state[t] \in { "RESET", "PENDING" } => Owned(t)
          /\ state[t] = "RUN" => queued[t] = 1 \/ Owned(t)
          /\ state[t] = "FINISH" /\ (GroupOf[t] = << >> \/ ~Started) =>
                Owned(t) \/ SchedulerOf(t) \notin Begun
      BY DEF LifeCycle
    <2>1. CASE EndReset(p)
      <3>1. /\ todo'[p] = Tail(todo[p])
            /\ pc'[p] = IF Len(todo[p]) > 1 THEN "begin" ELSE "idle"
            /\ t # c => state'[t] = state[t] /\ queued'[t] = queued[t]
            /\ \/ state'[c] = "RUN" /\ queued'[c] = 1
               \/ state'[c] = "WAIT"
        BY <1>0, <1>2, <1>3, <2>1 DEF EndReset, Perform, c
      <3>2. /\ Range(Tail(todo[p])) = Range(todo[p]) \ {c}
            /\ Len(todo[p]) > 1 <=> Tail(todo[p]) # << >>
        BY <1>2, TailOfDistinct DEF c
      <3>3. t \in Range(Tail(todo[p])) => Tail(todo[p]) # << >>
        BY DEF Range
      <3>4. Owns(p, t)' <=> Owns(p, t) /\ t # c
        BY <1>1, <3>1, <3>2, <3>3 DEF Owns
      <3>5. /\ Owned(t)' => Owned(t)
            /\ t # c => (Owned(t)' <=> Owned(t))
        BY <1>1, <3>4 DEF Owned, Owns
      <3> QED
        BY <1>1, <1>3, <1>4, <2>0, <3>1, <3>5
    <2>2. CASE BeginReset(p) \/ ResetOvertake(p) \/ ResetActivate(p) \/ ResetInput(p)
      <3>1. todo' = todo /\ pc'[p] # "idle"
        BY <1>0, <2>2 DEF BeginReset, ResetOvertake, ResetActivate, ResetInput
      <3>2. Owned(t)' <=> Owned(t)
        BY <1>1, <3>1 DEF Owned, Owns
      <3>3. /\ queued'[t] = queued[t]
            /\ t # c => state'[t] = state[t]
            /\ state'[c] \in { "RESET", "PENDING" }
        <4>1. ResetActivate(p) => Activate(c)
          BY DEF ResetActivate, c
        <4>2. InReset(p) => state[c] \in { "RESET", "PENDING" }
          BY DEF ResetStates, c
        <4> QED
          BY <1>0, <1>2, <2>2, <4>1, <4>2
             DEF BeginReset, ResetOvertake, ResetActivate, ResetInput, Activate, InReset, c
      <3> QED
        BY <1>1, <1>2, <1>3, <1>4, <2>0, <3>2, <3>3
    <2> QED
      BY <2>1, <2>2 DEF Reset
  <1>6. /\ Range(stopped') \subseteq Range(StartOrder)
        /\ \A s \in Schedulers : running'[s] <=> s \in Begun'
    BY <1>1, <1>4 DEF LifeCycle
  <1> QED
    BY <1>5, <1>6 DEF LifeCycle

\* Every task stays in its life cycle.
LEMMA LifeCycleInvariant ==
    ASSUME SafeGroups
    PROVE  Spec => [](Work /\ LifeCycle)
  <1> USE ProcessAssumption
  <1>1. Init => Work /\ LifeCycle
    <2> SUFFICES ASSUME Init
                 PROVE  Work /\ LifeCycle
      OBVIOUS
    <2>1. \A p \in Resetters : pc[p] = "idle"
      BY DEF Init, Resetters, Processes
    <2>2. Work
      BY <2>1 DEF Work, Resetting, Resetters
    <2>3. \A t \in Tasks : ~Owned(t)
      BY <2>1 DEF Owned, Owns
    <2>4. Begun = {}
      BY DEF Init, Begun
    <2> QED
      BY <2>2, <2>3, <2>4 DEF Init, LifeCycle
  <1>2. ASSUME Ownership, VolumeInv, Work, LifeCycle, [Next]_vars
        PROVE  Work' /\ LifeCycle'
    <2>1. Work'
      BY <1>2, WorkStep DEF VolumeInv
    <2>2. ResetStates
      BY <1>2 DEF VolumeInv
    <2>3. ASSUME UNCHANGED vars
          PROVE  LifeCycle'
      <3>1. (\A t \in Tasks : Owned(t)' <=> Owned(t)) /\ (Started' <=> Started)
            /\ Begun' = Begun
        BY <2>3, OwnedKept DEF vars, Started, Begun
      <3> QED
        BY <1>2, <2>3, <3>1 DEF vars, LifeCycle
    <2> QED
      BY <1>2, <2>1, <2>2, <2>3, LifeStart, LifeNotify, LifeExecute, LifeReset DEF Next
  <1> QED
    BY <1>1, <1>2, OwnershipInvariant, VolumeInvariant, PTL DEF Spec

-----------------------------------------------------------------------------
(* Synchronous inputs lose no notification.                                *)

\* Once start has returned for the last scheduler it is not called again.
LEMMA StartedStays ==
    ASSUME Ownership, [Next]_vars, Started
    PROVE  Started'
  <1> USE ProcessAssumption
  <1>1. ~Start /\ ~Reset(Starter) /\ Starter \in Resetters
    BY DEF Started, Start, Reset, BeginReset, ResetOvertake, ResetActivate, ResetInput,
           EndReset, Resetters
  <1>2. pc'[Starter] = pc[Starter]
    BY <1>1, ActorStep
  <1>3. stopped' = stopped
    BY <1>1 DEF Next, Notify, NotifyMissed, NotifySync, NotifyLoad, MayNotify, NotifyStore,
                NotifyCheck, NotifyActivate, Execute, Take, SynchronizeStart, FinalizeAlone,
                FinalizeInGroup, GroupReset, GroupWait, Reset, BeginReset, ResetOvertake,
                ResetActivate, ResetInput, EndReset, vars
  <1> QED
    BY <1>2, <1>3 DEF Started

\* Until start returns the starter resets counters that are zero.
LEMMA QuietCountersStep ==
    ASSUME Ownership, ResetStates, QuietCounters, [Next]_vars
    PROVE  QuietCounters'
  <1> USE ProcessAssumption
  <1> SUFFICES ASSUME QuietStart, ~Started'
               PROVE  /\ \A i \in Inputs : pushed'[i] = 0 /\ notifications'[i] = 0
                      /\ \A t \in Tasks : executions'[t] = 0
    BY DEF QuietCounters
  <1>1. ~Started
    BY StartedStays
  <1>2. /\ \A t \in Tasks : queued[t] = 0
        /\ \A i \in Inputs : missed[i] = 0
        /\ \A p \in Executors \cup Notifiers : pc[p] = "idle"
        /\ pc[Starter] # "activate"
    BY <1>1 DEF Ownership, Quiet
  <1>3. /\ \A i \in Inputs : pushed[i] = 0 /\ notifications[i] = 0
        /\ \A t \in Tasks : executions[t] = 0
    BY <1>1 DEF QuietCounters
  <1>4. CASE Start \/ UNCHANGED vars
    BY <1>3, <1>4 DEF Start, vars
  <1>5. ~\E n \in Notifiers : Notify(n)
    BY <1>1, <1>2 DEF Notify, NotifyMissed, NotifySync, NotifyLoad, MayNotify, NotifyStore,
                      NotifyCheck, NotifyActivate
  <1>6. ~\E e \in Executors : Execute(e) \/ Reset(e)
    BY <1>2 DEF Execute, Take, SynchronizeStart, FinalizeAlone, FinalizeInGroup, GroupReset,
                GroupWait, Reset, BeginReset, ResetOvertake, ResetActivate, ResetInput,
                EndReset
  <1>7. CASE Reset(Starter)
    <2>1. ~ResetActivate(Starter)
      BY <1>2 DEF ResetActivate
    <2>2. CASE BeginReset(Starter) \/ EndReset(Starter)
      BY <1>3, <2>2 DEF BeginReset, EndReset
    <2>3. CASE ResetOvertake(Starter) \/ ResetInput(Starter)
      <3>1. PICK i \in Inputs : i = CurrentInput(Starter)
        BY <2>3, InputInReset DEF ResetOvertake, ResetInput, InReset, Resetters
      <3>2. missed[i] = 0 /\ (i \in Synchron => Threshold[i] \in Nat \ {0})
        BY <1>2, SynchronThreshold
      <3>3. ResetInput(Starter)
        BY <2>3, <3>1, <3>2 DEF ResetOvertake
      <3>4. notifications' = [notifications EXCEPT ![i] = 0]
        BY <3>1, <3>2, <3>3 DEF ResetInput
      <3>5. notifications \in [Inputs -> Nat]
        BY DEF Ownership, TypeOK
      <3> QED
        BY <1>3, <3>3, <3>4, <3>5 DEF ResetInput
    <2> QED
      BY <1>7, <2>1, <2>2, <2>3 DEF Reset
  <1> QED
    BY <1>4, <1>5, <1>6, <1>7 DEF Next, Resetters

\* The loop of Task::reset goes on to the next input.
LEMMA BehindNext ==
    ASSUME Ownership, ResetStates, NEW p \in Resetters, InReset(p), InputsLeft(p),
           todo'[p] = todo[p], idx'[p] = idx[p] + 1
    PROVE  Behind(p)' = Behind(p) \cup { CurrentInput(p) }
  <1>1. idx[p] \in Nat /\ idx'[p] - 1 = idx[p]
    BY DEF Ownership, TypeOK
  <1>2. Behind(p) \cup { CurrentInput(p) }
           = { InputsOf[Head(todo[p])][k] : k \in 1..idx[p] }
    BY BehindSteps
  <1> QED
    BY <1>1, <1>2 DEF Behind

\* What the executors hold depends on their own places only.
LEMMA SpendsKept ==
    ASSUME NEW e \in Executors, NEW t \in Tasks, NEW i \in Inputs,
           pc'[e] = pc[e], todo'[e] = todo[e], idx'[e] = idx[e]
    PROVE  Spends(e, t, i)' <=> Spends(e, t, i)
  <1>1. Behind(e)' = Behind(e) /\ CurrentInput(e)' = CurrentInput(e)
    BY DEF Behind, CurrentInput
  <1>2. (Owns(e, t)' <=> Owns(e, t)) /\ (InReset(e)' <=> InReset(e))
    BY DEF Owns, InReset
  <1> QED
    BY <1>1, <1>2 DEF Spends

\* A notification is counted once: as a current one, or as one for later.
LEMMA BalanceNotify ==
    ASSUME Ownership, SynchronCounters, NEW n \in Notifiers, Notify(n),
           NEW t \in Tasks, SynchronTask(t), NEW i \in InputSet(t), Balanced(t, i)
    PROVE  Balanced(t, i)'
  <1> USE ProcessAssumption
  <1>0. /\ i \in Inputs /\ i \in Synchron /\ Threshold[i] \in Nat \ {0}
        /\ notifications \in [Inputs -> Nat] /\ missed \in [Inputs -> Nat]
        /\ pushed \in [Inputs -> Nat] /\ executions[t] \in Nat
        /\ \A e \in Executors : e \in Resetters /\ e \in Processes /\ e # n
    BY TaskOfItsInput, SynchronThreshold
       DEF SynchronTask, Ownership, TypeOK, Resetters, Processes
  <1>1. /\ todo' = todo /\ idx' = idx /\ executions' = executions
        /\ \A e \in Executors : pc'[e] = pc[e]
    BY <1>0 DEF Notify, NotifyMissed, NotifySync, NotifyLoad, MayNotify, NotifyStore,
                NotifyCheck, NotifyActivate, Ownership, TypeOK
  <1>2. Spent(t, i)' <=> Spent(t, i)
    BY <1>0, <1>1, SpendsKept DEF Spent
  <1>3. Threshold[i] * executions[t] \in Nat
    BY <1>0
  <1>4. PICK x \in Nat : x = Threshold[i] * executions[t]
    BY <1>3
  <1>5. IF Spent(t, i)
        THEN notifications[i] = Threshold[i] /\ pushed[i] = x + missed[i]
        ELSE pushed[i] = x + notifications[i] + missed[i]
    BY <1>4 DEF Balanced
  <1>6. x \in Nat
    BY <1>4
  <1>7. IF Spent(t, i)
        THEN notifications'[i] = Threshold[i] /\ pushed'[i] = x + missed'[i]
        ELSE pushed'[i] = x + notifications'[i] + missed'[i]
    <2>1. ASSUME NEW j \in Inputs, NotifyMissed(n, j) \/ NotifySync(n, j) \/ NotifyLoad(n, j),
                 j # i
          PROVE  <1>7!:
      BY <1>0, <1>5, <2>1 DEF NotifyMissed, NotifySync, NotifyLoad, MayNotify
    <2>2. CASE NotifyMissed(n, i)
      <3>1. /\ missed'[i] = missed[i] + 1 /\ pushed'[i] = pushed[i] + 1
            /\ notifications' = notifications
        BY <1>0, <2>2 DEF NotifyMissed, MayNotify
      <3>2. missed[i] \in Nat /\ notifications[i] \in Nat
        BY <1>0
      <3> QED
        <4>1. CASE Spent(t, i)
          BY <1>5, <1>6, <3>1, <3>2, <4>1
        <4>2. CASE ~Spent(t, i)
          BY <1>5, <1>6, <3>1, <3>2, <4>2
        <4> QED
          BY <4>1, <4>2
    <2>3. CASE NotifySync(n, i)
      <3>1. notifications[i] < Threshold[i]
        BY <1>0, <2>3, SynchronActive DEF NotifySync
      <3>2. ~Spent(t, i)
        BY <1>0, <1>5, <3>1
      <3> QED
        BY <1>0, <1>5, <2>3, <3>2 DEF NotifySync, MayNotify
    <2>4. ~NotifyLoad(n, i)
      BY <1>0 DEF NotifyLoad
    <2>5. CASE NotifyStore(n)
      <3>1. input[n] # i
        BY <1>0, <2>5 DEF NotifyStore, SynchronCounters
      <3> QED
        BY <1>0, <1>5, <2>5, <3>1 DEF NotifyStore
    <2>6. CASE NotifyCheck(n) \/ NotifyActivate(n)
      BY <1>5, <2>6 DEF NotifyCheck, NotifyActivate
    <2> QED
      BY <1>0, <2>1, <2>2, <2>3, <2>4, <2>5, <2>6 DEF Notify
  <1> QED
    BY <1>1, <1>2, <1>4, <1>7 DEF Balanced

\* An execution is counted when the inputs hold what it uses up.
LEMMA BalanceExecute ==
    ASSUME Ownership, VolumeInv, NEW e \in Executors, Execute(e),
           NEW t \in Tasks, SynchronTask(t), GroupOf[t] = << >>,
           NEW i \in InputSet(t), Balanced(t, i)
    PROVE  Balanced(t, i)'
  <1> USE ProcessAssumption
  <1> DEFINE c == Head(todo[e])
  <1>0. /\ i \in Inputs /\ i \in Synchron /\ Threshold[i] \in Nat \ {0}
        /\ notifications \in [Inputs -> Nat] /\ missed \in [Inputs -> Nat]
        /\ executions \in [Tasks -> Nat]
        /\ pc \in [Processes -> ExecutorPCs \cup StarterPCs \cup NotifierPCs]
        /\ todo \in [Resetters -> Seq(Tasks)]
        /\ \A f \in Executors : f \in Resetters /\ f \in Processes
    BY TaskOfItsInput, SynchronThreshold
       DEF SynchronTask, Ownership, TypeOK, Resetters, Processes
  <1>1. /\ UNCHANGED << notifications, missed, pushed >> /\ idx' = idx
        /\ \A f \in Executors \ {e} : pc'[f] = pc[f] /\ todo'[f] = todo[f]
    BY <1>0 DEF Execute, Take, SynchronizeStart, FinalizeAlone, FinalizeInGroup,
                GroupReset, GroupWait
  <1>2. \A f \in Executors \ {e} : Spends(f, t, i)' <=> Spends(f, t, i)
    BY <1>0, <1>1, SpendsKept
  <1>3. pc[e] \in { "syncStart", "execute", "check" } => Range(todo[e]) = {c} /\ c \in Tasks
    <2>1. pc[e] \in { "syncStart", "execute", "check" } =>
             Len(todo[e]) = 1 /\ todo[e] \in Seq(Tasks)
      BY <1>0 DEF Ownership, Jobs
    <2> QED
      BY <2>1, RangeOfSingle
  <1> HIDE DEF c
  <1>4. CASE SynchronizeStart(e) /\ t = c
    <2>1. /\ pc[e] = "syncStart" /\ pc'[e] = "execute" /\ todo' = todo
          /\ executions'[t] = executions[t] + 1
      BY <1>0, <1>4 DEF SynchronizeStart, c
    <2>2. Owns(e, t) /\ Owns(e, t)'
      BY <1>3, <1>4, <2>1 DEF Owns
    <2>3. ~Spent(t, i)
      <3>1. ASSUME NEW f \in Executors, Spends(f, t, i)
            PROVE  FALSE
        <4>1. f = e
          BY <1>0, <2>2, <3>1 DEF Spends, Ownership, OneOwner
        <4> QED
          BY <2>1, <3>1, <4>1 DEF Spends, InReset
      <3> QED
        BY <3>1 DEF Spent
    <2>4. Spent(t, i)'
      BY <2>1, <2>2 DEF Spent, Spends
    <2>5. notifications[i] = Threshold[i]
      BY <1>3, <1>4, <2>1 DEF Ownership, ExecutedRuns, VolumeInv, FullVolume, c
    <2>6. pushed[i] = Threshold[i] * executions[t] + Threshold[i] + missed[i]
      BY <2>3, <2>5 DEF Balanced
    <2>7. Threshold[i] * executions'[t] = Threshold[i] * executions[t] + Threshold[i]
      <3>1. executions[t] \in Nat /\ Threshold[i] \in Nat
        BY <1>0, <1>4, <1>3, <2>1
      <3>2. \A a, b \in Nat : a * (b + 1) = a * b + a
        OBVIOUS
      <3> QED
        BY <2>1, <3>1, <3>2
    <2>8. pushed[i] = Threshold[i] * executions'[t] + missed[i]
      BY <2>6, <2>7
    <2> QED
      BY <1>1, <2>4, <2>5, <2>8 DEF Balanced
  <1>5. ASSUME ~(SynchronizeStart(e) /\ t = c)
        PROVE  executions'[t] = executions[t] /\ (Spends(e, t, i)' <=> Spends(e, t, i))
    <2>1. ASSUME NEW u \in Tasks, Take(e, u)
          PROVE  <1>5!2
      <3>1. pc[e] = "idle" /\ pc'[e] = "syncStart" /\ executions' = executions
        BY <1>0, <2>1 DEF Take
      <3> QED
        BY <3>1 DEF Spends, Owns, InReset
    <2>2. CASE SynchronizeStart(e)
      <3>1. /\ pc[e] = "syncStart" /\ todo' = todo /\ t # c
            /\ executions'[t] = executions[t]
        BY <1>0, <1>3, <1>5, <2>2 DEF SynchronizeStart, c
      <3>2. ~Owns(e, t) /\ ~Owns(e, t)'
        BY <1>3, <3>1 DEF Owns
      <3> QED
        BY <3>1, <3>2 DEF Spends
    <2>3. CASE FinalizeAlone(e)
      <3>1. /\ pc[e] = "execute" /\ pc'[e] = "begin" /\ todo' = todo
            /\ executions' = executions
        BY <1>0, <2>3 DEF FinalizeAlone
      <3> QED
        BY <3>1 DEF Spends, Owns, InReset
    <2>4. CASE FinalizeInGroup(e)
      <3>1. /\ pc[e] = "execute" /\ todo' = todo /\ t # c /\ executions' = executions
        BY <2>4 DEF FinalizeInGroup, c
      <3>2. ~Owns(e, t) /\ ~Owns(e, t)'
        BY <1>3, <3>1 DEF Owns
      <3> QED
        BY <3>1, <3>2 DEF Spends
    <2>5. CASE GroupReset(e)
      <3>1. /\ pc[e] = "check" /\ todo'[e] = GroupOf[c] /\ executions' = executions
        BY <1>0, <2>5 DEF GroupReset, c
      <3>2. t \notin Range(GroupOf[c])
        BY <1>3, <3>1, SameGroup
      <3>3. ~Spends(e, t, i)
        BY <3>1 DEF Spends, InReset
      <3> QED
        BY <3>1, <3>2, <3>3 DEF Spends, Owns
    <2>6. CASE GroupWait(e)
      <3>1. pc[e] = "check" /\ pc'[e] = "idle" /\ executions' = executions
        BY <1>0, <2>6 DEF GroupWait
      <3> QED
        BY <3>1 DEF Spends, Owns, InReset
    <2> QED
      BY <2>1, <2>2, <2>3, <2>4, <2>5, <2>6 DEF Execute
  <1>6. CASE ~(SynchronizeStart(e) /\ t = c)
    <2>1. Spent(t, i)' <=> Spent(t, i)
      BY <1>2, <1>5, <1>6 DEF Spent
    <2> QED
      BY <1>1, <1>5, <1>6, <2>1 DEF Balanced
  <1> QED
    BY <1>4, <1>6

\* Input::reset gives the notifications of an execution up, and moves the ones
\* that are kept for later.
LEMMA BalanceReset ==
    ASSUME Ownership, VolumeInv, Work, QuietCounters, QuietStart,
           NEW q \in Resetters, Reset(q),
           NEW t \in Tasks, SynchronTask(t), GroupOf[t] = << >>,
           NEW i \in InputSet(t), Balanced(t, i)
    PROVE  Balanced(t, i)'
  <1> USE ProcessAssumption
  <1> DEFINE c == Head(todo[q])
  <1>0. /\ i \in Inputs /\ i \in Synchron /\ Threshold[i] \in Nat \ {0}
        /\ notifications \in [Inputs -> Nat] /\ missed \in [Inputs -> Nat]
        /\ pc \in [Processes -> ExecutorPCs \cup StarterPCs \cup NotifierPCs]
        /\ todo \in [Resetters -> Seq(Tasks)] /\ idx \in [Resetters -> Nat]
        /\ \A p \in Resetters : p \in Processes
        /\ \A e \in Executors : e \in Resetters
        /\ Starter \in Resetters
    BY TaskOfItsInput, SynchronThreshold
       DEF SynchronTask, Ownership, TypeOK, Resetters, Processes
  <1>1. /\ executions' = executions /\ pushed' = pushed
        /\ pc[q] \in { "begin", "input", "activate" } /\ pc[q] # "idle"
        /\ \A p \in Resetters \ {q} : /\ pc'[p] = pc[p] /\ todo'[p] = todo[p]
                                      /\ idx'[p] = idx[p]
    BY <1>0 DEF Reset, BeginReset, ResetOvertake, ResetActivate, ResetInput, EndReset
  <1>2. \A f \in Executors \ {q} : Spends(f, t, i)' <=> Spends(f, t, i)
    BY <1>0, <1>1, SpendsKept
  <1>3. /\ c \in Tasks /\ Owns(q, c)
        /\ todo[q] \in Seq(Tasks) /\ todo[q] # << >> /\ Distinct(todo[q])
    BY <1>1, CurrentTask DEF Ownership
  <1> HIDE DEF c
  <1>4. ASSUME (ResetOvertake(q) \/ ResetInput(q)) => i # CurrentInput(q)
        PROVE  notifications'[i] = notifications[i] /\ missed'[i] = missed[i]
    <2>1. CASE ResetOvertake(q) \/ ResetInput(q)
      <3>1. CurrentInput(q) \in Inputs /\ i # CurrentInput(q)
        BY <1>4, <2>1, InputInReset DEF ResetOvertake, ResetInput, InReset, VolumeInv
      <3> QED
        BY <1>0, <2>1, <3>1 DEF ResetOvertake, ResetInput
    <2>2. CASE BeginReset(q) \/ ResetActivate(q) \/ EndReset(q)
      BY <2>2 DEF BeginReset, ResetActivate, EndReset
    <2> QED
      BY <2>1, <2>2 DEF Reset
  <1>5. (ResetOvertake(q) \/ ResetInput(q)) /\ i = CurrentInput(q) =>
           t = c /\ InReset(q) /\ InputsLeft(q) /\ pc[q] = "input"
    <2>1. ResetOvertake(q) \/ ResetInput(q) =>
             InReset(q) /\ InputsLeft(q) /\ pc[q] = "input"
      BY DEF ResetOvertake, ResetInput, InReset
    <2>2. ResetOvertake(q) \/ ResetInput(q) => CurrentInput(q) \in InputSet(c)
      BY <2>1, InputInReset DEF VolumeInv, c
    <2> QED
      BY <1>3, <2>1, <2>2, TaskAssumption
  <1>6. CASE t # c
    <2>1. notifications'[i] = notifications[i] /\ missed'[i] = missed[i]
      BY <1>4, <1>5, <1>6
    <2>2. ASSUME q \in Executors
          PROVE  Spends(q, t, i)' <=> Spends(q, t, i)
      <3>1. Resetting(q)
        BY <1>1 DEF Resetting
      <3>2. \/ Range(todo[q]) = {c}
            \/ GroupOf[c] # << >> /\ Range(todo[q]) \subseteq Range(GroupOf[c])
        <4>1. Len(todo[q]) = 1 => Range(todo[q]) = {c}
          BY <1>3, RangeOfSingle DEF c
        <4> QED
          BY <2>2, <3>1, <4>1 DEF Work, c
      <3>3. t \notin Range(todo[q])
        BY <1>3, <1>6, <3>2, SameGroup
      <3>4. Range(todo'[q]) \subseteq Range(todo[q])
        <4>1. todo'[q] = todo[q] \/ todo'[q] = Tail(todo[q])
          BY <1>0 DEF Reset, BeginReset, ResetOvertake, ResetActivate, ResetInput, EndReset
        <4> QED
          BY <1>3, <4>1, TailOfDistinct
      <3> QED
        BY <3>3, <3>4 DEF Spends, Owns
    <2>3. Spent(t, i)' <=> Spent(t, i)
      BY <1>2, <2>2 DEF Spent
    <2> QED
      BY <1>1, <2>1, <2>3 DEF Balanced
  <1>7. CASE t = c /\ q = Starter
    <2>1. ~Started
      BY <1>1, <1>7 DEF Started
    <2>2. /\ notifications[i] = 0 /\ missed[i] = 0 /\ pushed[i] = 0 /\ executions[t] = 0
      BY <1>0, <2>1 DEF QuietCounters, Ownership, Quiet
    <2>3. ~Spent(t, i) /\ ~Spent(t, i)'
      <3>1. \A e \in Executors : ~Owns(e, t)
        BY <1>0, <1>3, <1>7 DEF Ownership, OneOwner
      <3>2. \A e \in Executors : e # q
        BY <1>7
      <3> QED
        BY <1>2, <3>1, <3>2 DEF Spent, Spends
    <2>4. notifications'[i] = 0 /\ missed'[i] = 0
      <3>1. CASE ResetOvertake(q) \/ ResetInput(q)
        <4>1. i = CurrentInput(q) => ResetInput(q)
          BY <1>0, <2>2, <3>1 DEF ResetOvertake
        <4>2. i = CurrentInput(q) /\ ResetInput(q) => notifications'[i] = 0 /\ missed'[i] = 0
          BY <1>0, <2>2 DEF ResetInput
        <4> QED
          BY <1>4, <2>2, <4>1, <4>2
      <3>2. CASE ~(ResetOvertake(q) \/ ResetInput(q))
        BY <1>4, <2>2, <3>2
      <3> QED
        BY <3>1, <3>2
    <2>5. Threshold[i] * executions[t] = 0
      BY <1>0, <2>2
    <2> QED
      BY <1>1, <2>2, <2>3, <2>4, <2>5 DEF Balanced
  <1>8. CASE t = c /\ q \in Executors
    <2>1. Len(todo[q]) = 1
      BY <1>1, <1>8 DEF Work, Resetting, c
    <2>2. /\ Spent(t, i) <=> Spends(q, t, i)
          /\ Spent(t, i)' <=> Spends(q, t, i)'
      <3>1. \A e \in Executors \ {q} : ~Owns(e, t)
        BY <1>0, <1>3, <1>8 DEF Ownership, OneOwner
      <3>2. \A e \in Executors \ {q} : ~Spends(e, t, i)
        BY <3>1 DEF Spends
      <3> QED
        BY <1>2, <1>8, <3>2 DEF Spent
    <2>3. CASE BeginReset(q)
      <3>1. /\ pc[q] = "begin" /\ pc'[q] = "input" /\ todo' = todo /\ idx'[q] = 1
        BY <1>0, <2>3 DEF BeginReset
      <3>2. Behind(q)' = {}
        BY <3>1 DEF Behind
      <3>3. Spends(q, t, i) /\ Spends(q, t, i)'
        BY <1>3, <1>8, <3>1, <3>2 DEF Spends, Owns, InReset
      <3>4. notifications'[i] = notifications[i] /\ missed'[i] = missed[i]
        BY <2>3 DEF BeginReset
      <3> QED
        BY <1>1, <2>2, <3>3, <3>4 DEF Balanced
    <2>4. CASE ResetOvertake(q)
      <3>1. /\ pc[q] = "input" /\ pc'[q] = "activate" /\ todo' = todo /\ idx' = idx
            /\ InReset(q) /\ InputsLeft(q)
        BY <1>0, <2>4 DEF ResetOvertake, InReset
      <3>2. Behind(q)' = Behind(q) /\ CurrentInput(q)' = CurrentInput(q)
            /\ CurrentInput(q) \notin Behind(q)
        BY <3>1, BehindSteps DEF Behind, CurrentInput, VolumeInv
      <3>3. CASE i = CurrentInput(q)
        <4>1. Spends(q, t, i) /\ ~Spends(q, t, i)'
          BY <1>3, <1>8, <3>1, <3>2, <3>3 DEF Spends, InReset
        <4>2. /\ notifications'[i] = Threshold[i] /\ missed'[i] = missed[i] - Threshold[i]
              /\ missed[i] \in Nat /\ Threshold[i] \in Nat
          BY <1>0, <2>4, <3>3 DEF ResetOvertake
        <4>3. PICK x : x = Threshold[i] * executions[t]
          OBVIOUS
        <4>4. pushed[i] = x + missed[i]
          BY <2>2, <4>1, <4>3 DEF Balanced
        <4>5. x \in Nat
          BY <1>0, <4>3 DEF Ownership, TypeOK
        <4>6. pushed[i] = x + notifications'[i] + missed'[i]
          BY <4>2, <4>4, <4>5
        <4> QED
          BY <1>1, <2>2, <4>1, <4>3, <4>6 DEF Balanced
      <3>4. CASE i # CurrentInput(q)
        <4>1. Spends(q, t, i)' <=> Spends(q, t, i)
          BY <3>1, <3>2, <3>4 DEF Spends, Owns, InReset
        <4> QED
          BY <1>1, <1>4, <2>2, <3>4, <4>1 DEF Balanced
      <3> QED
        BY <3>3, <3>4
    <2>5. CASE ResetActivate(q)
      <3>1. /\ pc[q] = "activate" /\ pc'[q] = "input" /\ todo' = todo
            /\ idx'[q] = idx[q] + 1 /\ InReset(q)
            /\ notifications' = notifications /\ missed' = missed
        BY <1>0, <2>5 DEF ResetActivate, InReset
      <3>2. InputsLeft(q)
        BY <3>1 DEF VolumeInv, ResetStates
      <3>3. Behind(q)' = Behind(q) \cup { CurrentInput(q) }
        BY <3>1, <3>2, BehindNext DEF VolumeInv
      <3>4. Spends(q, t, i)' <=> Spends(q, t, i)
        BY <3>1, <3>3 DEF Spends, Owns, InReset
      <3> QED
        BY <1>1, <2>2, <3>1, <3>4 DEF Balanced
    <2>6. CASE ResetInput(q)
      <3>1. /\ pc[q] = "input" /\ pc'[q] = "input" /\ todo' = todo
            /\ idx'[q] = idx[q] + 1 /\ InReset(q) /\ InputsLeft(q)
        BY <1>0, <2>6 DEF ResetInput, InReset
      <3>2. /\ Behind(q)' = Behind(q) \cup { CurrentInput(q) }
            /\ CurrentInput(q) \notin Behind(q)
        BY <3>1, BehindNext, BehindSteps DEF VolumeInv
      <3>3. CASE i = CurrentInput(q)
        <4>1. Spends(q, t, i) /\ ~Spends(q, t, i)'
          BY <1>3, <1>8, <3>1, <3>2, <3>3 DEF Spends, InReset
        <4>2. notifications'[i] = missed[i] /\ missed'[i] = 0 /\ missed[i] \in Nat
          BY <1>0, <2>6, <3>3 DEF ResetInput
        <4>3. PICK x : x = Threshold[i] * executions[t]
          OBVIOUS
        <4>4. pushed[i] = x + missed[i]
          BY <2>2, <4>1, <4>3 DEF Balanced
        <4>5. x \in Nat
          BY <1>0, <4>3 DEF Ownership, TypeOK
        <4>6. pushed[i] = x + notifications'[i] + missed'[i]
          BY <4>2, <4>4, <4>5
        <4> QED
          BY <1>1, <2>2, <4>1, <4>3, <4>6 DEF Balanced
      <3>4. CASE i # CurrentInput(q)
        <4>1. Spends(q, t, i)' <=> Spends(q, t, i)
          BY <3>1, <3>2, <3>4 DEF Spends, Owns, InReset
        <4> QED
          BY <1>1, <1>4, <2>2, <3>4, <4>1 DEF Balanced
      <3> QED
        BY <3>3, <3>4
    <2>7. CASE EndReset(q)
      <3>1. /\ pc[q] = "input" /\ pc'[q] = "idle" /\ InReset(q) /\ ~InputsLeft(q)
            /\ notifications' = notifications /\ missed' = missed
        BY <1>0, <2>1, <2>7 DEF EndReset, InReset
      <3>2. i \in Behind(q)
        BY <1>8, <3>1, BehindSteps DEF VolumeInv, c
      <3>3. ~Spends(q, t, i) /\ ~Spends(q, t, i)'
        BY <3>1, <3>2 DEF Spends, Owns
      <3> QED
        BY <1>1, <2>2, <3>1, <3>3 DEF Balanced
    <2> QED
      BY <2>3, <2>4, <2>5, <2>6, <2>7 DEF Reset
  <1> QED
    BY <1>6, <1>7, <1>8 DEF Resetters

\* Every step preserves the balance.
LEMMA DeliveryStep ==
    ASSUME Ownership, VolumeInv, Work, DeliveryInv, [Next]_vars
    PROVE  DeliveryInv'
  <1> USE ProcessAssumption
  <1>0. ResetStates /\ SynchronCounters
    BY DEF VolumeInv
  <1>1. QuietCounters'
    BY <1>0, QuietCountersStep DEF DeliveryInv
  <1>2. ASSUME QuietStart, NEW t \in Tasks, SynchronTask(t), GroupOf[t] = << >>,
               NEW i \in InputSet(t)
        PROVE  Balanced(t, i)'
    <2>1. Balanced(t, i) /\ QuietCounters /\ i \in Inputs
      BY <1>2, TaskOfItsInput DEF DeliveryInv, Balance
    <2>2. CASE Start \/ UNCHANGED vars
      <3>1. \A e \in Executors : /\ pc'[e] = pc[e] /\ todo'[e] = todo[e]
                                 /\ idx'[e] = idx[e]
        <4>1. \A e \in Executors : e \in Processes /\ e \in Resetters /\ e # Starter
          BY DEF Processes, Resetters
        <4> QED
          BY <2>2, <4>1 DEF Start, vars, Ownership, TypeOK
      <3>2. Spent(t, i)' <=> Spent(t, i)
        BY <2>1, <3>1, SpendsKept DEF Spent
      <3> QED
        BY <2>1, <2>2, <3>2 DEF Start, vars, Balanced
    <2>3. ASSUME NEW n \in Notifiers, Notify(n)
          PROVE  Balanced(t, i)'
      BY <1>0, <1>2, <2>1, <2>3, BalanceNotify
    <2>4. ASSUME NEW e \in Executors, Execute(e)
          PROVE  Balanced(t, i)'
      BY <1>2, <2>1, <2>4, BalanceExecute
    <2>5. ASSUME NEW p \in Resetters, Reset(p)
          PROVE  Balanced(t, i)'
      BY <1>2, <2>1, <2>5, BalanceReset
    <2> QED
      BY <2>2, <2>3, <2>4, <2>5 DEF Next
  <1>3. (QuietStart => Balance)'
    BY <1>2 DEF Balance, InputSet, SynchronTask
  <1> QED
    BY <1>1, <1>3 DEF DeliveryInv

\* The notifications are in balance at any time.
LEMMA DeliveryInvariant ==
    ASSUME SafeGroups
    PROVE  Spec => []DeliveryInv
  <1> USE ProcessAssumption
  <1>1. Init => DeliveryInv
    <2> SUFFICES ASSUME Init
                 PROVE  DeliveryInv
      OBVIOUS
    <2>1. QuietCounters
      BY DEF Init, QuietCounters
    <2>2. ASSUME NEW t \in Tasks, NEW i \in InputSet(t)
          PROVE  Balanced(t, i)
      <3>1. i \in Inputs /\ Threshold[i] \in Nat
        BY TaskOfItsInput, InputAssumption
      <3>2. ~Spent(t, i)
        BY DEF Init, Spent, Spends, Owns, Processes, Resetters
      <3>3. /\ notifications[i] = 0 /\ missed[i] = 0 /\ pushed[i] = 0
            /\ executions[t] = 0
        BY <3>1 DEF Init
      <3> QED
        BY <3>1, <3>2, <3>3 DEF Balanced
    <2> QED
      BY <2>1, <2>2 DEF DeliveryInv, Balance
  <1>2. ASSUME Ownership, VolumeInv, Work /\ LifeCycle, DeliveryInv, [Next]_vars
        PROVE  DeliveryInv'
    BY <1>2, DeliveryStep
  <1> QED
    BY <1>1, <1>2, OwnershipInvariant, VolumeInvariant, LifeCycleInvariant, PTL DEF Spec

\* A synchronous task whose inputs are all active is due.
LEMMA SynchronDue ==
    ASSUME Ownership, NEW t \in Tasks, SynchronTask(t),
           \A i \in InputSet(t) : notifications[i] >= Threshold[i]
    PROVE  Due(t)
  <1>1. PICK i \in InputSet(t) : TRUE
    <2>1. InputsOf[t] \in Seq(Inputs) /\ InputsOf[t] # << >>
      BY TaskAssumption
    <2>2. Head(InputsOf[t]) \in Range(InputsOf[t])
      BY <2>1, TaskAssumption, TailOfDistinct
    <2> QED
      BY <2>2 DEF InputSet
  <1>2. \A j \in InputSet(t) : /\ j \in Synchron /\ j \notin Final /\ IsActive(j)
                               /\ Threshold[j] \in Nat \ {0}
    BY SynchronActive, SynchronThreshold DEF SynchronTask
  <1> QED
    BY <1>1, <1>2 DEF Due, Activated

\* When everything has come to rest a task with synchronous inputs was executed
\* once for every complete set of notifications, and the others are still
\* counted, if all schedulers are started and nothing is pushed before.
THEOREM NothingLost ==
    ASSUME SafeGroups, QuietStart, Range(StartOrder) = Schedulers
    PROVE  Spec => []SynchronousDelivery
  <1> USE ProcessAssumption
  <1>1. ASSUME Ownership, VolumeInv, LifeCycle, DeliveryInv, AnsweredInv,
               NoMissedActivation
        PROVE  SynchronousDelivery
    <2> SUFFICES ASSUME Quiescent, NEW t \in Tasks, SynchronTask(t), GroupOf[t] = << >>
                 PROVE  /\ \A i \in InputSet(t) :
                              pushed[i] = Threshold[i] * executions[t]
                                            + notifications[i] + missed[i]
                        /\ \E i \in InputSet(t) :
                              pushed[i] < Threshold[i] * (executions[t] + 1)
      BY DEF SynchronousDelivery
    <2>1. \A p \in Processes : pc[p] = "idle"
      BY DEF Quiescent
    <2>2. \A e \in Resetters : ~Owns(e, t)
      BY <2>1 DEF Owns, Processes
    <2>3. ASSUME NEW i \in InputSet(t)
          PROVE  pushed[i] = Threshold[i] * executions[t] + notifications[i] + missed[i]
      <3>1. ~Spent(t, i)
        BY <2>2 DEF Spent, Spends, Resetters
      <3> QED
        BY <1>1, <3>1 DEF DeliveryInv, Balance, Balanced
    <2>4. state[t] = "WAIT"
      <3>1. ~Owned(t) /\ queued[t] = 0
        BY <2>2 DEF Owned, Quiescent
      <3>2. SchedulerOf(t) \in Begun
        BY SchedulerOfTask DEF Begun, Quiescent, Started, Range
      <3>3. state[t] \in TaskStates
        BY <1>1 DEF Ownership, TypeOK
      <3> QED
        BY <1>1, <3>1, <3>2, <3>3 DEF LifeCycle, TaskStates
    <2>5. ~Due(t)
      <3>1. ~\E n \in Notifiers : pc[n] \in { "check", "activate" }
        BY <2>1 DEF Processes
      <3> QED
        BY <1>1, <2>4, <3>1 DEF NoMissedActivation
    <2>6. PICK i \in InputSet(t) : ~(notifications[i] >= Threshold[i])
      BY <1>1, <2>5, SynchronDue
    <2>7. /\ i \in Synchron /\ i \in Inputs /\ Threshold[i] \in Nat \ {0}
          /\ notifications[i] \in Nat /\ missed[i] \in Nat /\ executions[t] \in Nat
      BY <1>1, SynchronThreshold DEF SynchronTask, Ownership, TypeOK
    <2>8. missed[i] = 0
      BY <1>1, <2>6, <2>7 DEF VolumeInv, SynchronCounters
    <2>9. pushed[i] < Threshold[i] * (executions[t] + 1)
      <3>1. pushed[i] = Threshold[i] * executions[t] + notifications[i] + missed[i]
        BY <2>3
      <3>2. Threshold[i] * (executions[t] + 1) = Threshold[i] * executions[t] + Threshold[i]
        BY <2>7, SMTT(30)
      <3>3. PICK x : x = Threshold[i] * executions[t]
        OBVIOUS
      <3>4. x \in Nat
        BY <2>7, <3>3
      <3>5. pushed[i] < x + Threshold[i]
        <4>1. pushed[i] = x + notifications[i] + missed[i]
          BY <3>1, <3>3
        <4> QED
          BY <2>6, <2>7, <2>8, <3>4, <4>1
      <3> QED
        BY <3>2, <3>3, <3>5
    <2> QED
      BY <2>3, <2>9
  <1> QED
    BY <1>1, OwnershipInvariant, VolumeInvariant, LifeCycleInvariant, DeliveryInvariant,
       AnsweredInvariant, NoneMissed, PTL

-----------------------------------------------------------------------------
(* The tasks of a group are executed in turn.                              *)

\* A step that does not concern the tasks of the group g.
LEMMA RoundKept ==
    ASSUME NEW g, Round(g), Started' <=> Started, GroupInReset(g)' <=> GroupInReset(g),
           \A t \in Range(g) : /\ executions'[t] = executions[t]
                               /\ state'[t] = "FINISH" <=> state[t] = "FINISH"
                               /\ InExecution(t)' <=> InExecution(t)
    PROVE  Round(g)'
  <1>1. ASSUME NEW t \in Range(g)
        PROVE  Executed(t)' <=> Executed(t)
    BY DEF Executed
  <1> QED
    BY <1>1 DEF Round, Turn

\* Until start returns no task is executed.
LEMMA RoundQuiet ==
    ASSUME Ownership', QuietCounters', QuietStart, ~Started',
           NEW t0 \in Tasks, GroupOf[t0] # << >>
    PROVE  Round(GroupOf[t0])'
  <1>1. \A e \in Executors : pc'[e] = "idle"
    BY DEF Ownership, Quiet
  <1>2. ASSUME NEW t \in Range(GroupOf[t0])
        PROVE  executions'[t] = 0 /\ ~InExecution(t)'
    <2>1. t \in Tasks
      BY <1>2, SameGroup
    <2> QED
      BY <1>1, <2>1 DEF QuietCounters, InExecution
  <1> QED
    BY <1>2 DEF Round

\* When start returns all tasks of a group are waiting or queued, or none is
\* because their scheduler was not started.
LEMMA RoundStarted ==
    ASSUME SafeGroups, Ownership, Work, LifeCycle, QuietCounters, [Next]_vars,
           ~Started, Started', NEW t0 \in Tasks, GroupOf[t0] # << >>
    PROVE  Round(GroupOf[t0])'
  <1> USE ProcessAssumption
  <1> DEFINE g == GroupOf[t0]
  <1>0. /\ \A t \in Range(g) : t \in Tasks /\ SchedulerOf(t) = SchedulerOf(t0)
        /\ SchedulerOf(t0) \in Schedulers /\ QuietStart
    BY SameGroup, SchedulerOfTask DEF SafeGroups
  <1>1. /\ \A p \in Executors \cup Notifiers : pc[p] = "idle"
        /\ \A t \in Tasks : queued[t] = 0 /\ executions[t] = 0
    BY <1>0 DEF Ownership, Quiet, QuietCounters
  <1>2. ~\E n \in Notifiers : Notify(n)
    BY <1>0, <1>1 DEF Notify, NotifyMissed, NotifySync, NotifyLoad, MayNotify,
                      NotifyStore, NotifyCheck, NotifyActivate
  <1>3. ~\E e \in Executors : Execute(e) \/ Reset(e)
    BY <1>1 DEF Execute, Take, SynchronizeStart, FinalizeAlone, FinalizeInGroup,
                GroupReset, GroupWait, Reset, BeginReset, ResetOvertake, ResetActivate,
                ResetInput, EndReset
  <1>4. Start \/ Reset(Starter)
    BY <1>2, <1>3 DEF Next, vars, Started, Resetters
  <1>5. executions' = executions
    BY <1>4 DEF Start, Reset, BeginReset, ResetOvertake, ResetActivate, ResetInput, EndReset
  <1>6. \A e \in Executors : pc'[e] = "idle"
    <2>1. \A e \in Executors : e \in Resetters /\ e # Starter
      BY DEF Resetters
    <2> QED
      BY <1>1, <1>3, <2>1, ActorStep
  <1>7. \A t \in Tasks : ~InExecution(t)'
    BY <1>6 DEF InExecution
  <1>8. ~GroupInReset(g)'
    BY <1>6 DEF GroupInReset, Resetting
  <1> HIDE DEF g
  <1>9. ASSUME NEW t \in Range(g)
        PROVE  state'[t] = "FINISH" <=> SchedulerOf(t0) \notin Begun
    <2>0. t \in Tasks /\ SchedulerOf(t) = SchedulerOf(t0)
      BY <1>0, <1>9
    <2>1. ~Owned(t) => (state[t] = "FINISH" <=> SchedulerOf(t0) \notin Begun)
      BY <1>0, <2>0 DEF LifeCycle
    <2>2. Owned(t) => SchedulerOf(t0) \in Begun
      BY <1>0, <2>0 DEF LifeCycle
    <2>3. Owned(t) => Owns(Starter, t)
      BY <1>1 DEF Owned, Owns, Resetters
    <2>4. CASE Start
      <3>1. state' = state /\ pc[Starter] = "idle"
        BY <2>4 DEF Start
      <3> QED
        BY <2>1, <2>3, <3>1 DEF Owns
    <2>5. CASE Reset(Starter)
      <3>0. Starter \in Resetters /\ Starter \in Processes
        BY DEF Resetters, Processes
      <3>1. pc'[Starter] = "idle" /\ pc[Starter] # "idle"
        BY <2>5 DEF Started, Reset, BeginReset, ResetOvertake, ResetActivate, ResetInput,
                    EndReset
      <3>2. EndReset(Starter)
        BY <2>5, <3>0, <3>1 DEF Reset, BeginReset, ResetOvertake, ResetActivate, ResetInput,
                    Ownership, TypeOK
      <3>3. /\ ~(Len(todo[Starter]) > 1)
            /\ t # Head(todo[Starter]) => state'[t] = state[t]
            /\ state'[Head(todo[Starter])] \in { "RUN", "WAIT" }
        <4>1. Head(todo[Starter]) \in Tasks
          BY <3>0, <3>1, CurrentTask DEF Ownership
        <4>2. /\ state \in [Tasks -> TaskStates]
              /\ pc \in [Processes -> ExecutorPCs \cup StarterPCs \cup NotifierPCs]
          BY DEF Ownership, TypeOK
        <4>3. ~(Len(todo[Starter]) > 1)
          BY <3>0, <3>1, <3>2, <4>2 DEF EndReset
        <4> QED
          BY <2>0, <3>2, <4>1, <4>2, <4>3 DEF EndReset
      <3>4. Owns(Starter, t) <=> t = Head(todo[Starter])
        <4>1. /\ todo[Starter] \in Seq(Tasks) /\ todo[Starter] # << >>
              /\ Distinct(todo[Starter])
          BY <3>0, <3>1, CurrentTask DEF Ownership
        <4>2. /\ Range(Tail(todo[Starter])) = Range(todo[Starter]) \ {Head(todo[Starter])}
              /\ Head(todo[Starter]) \in Range(todo[Starter])
              /\ Tail(todo[Starter]) = << >>
          BY <3>3, <4>1, TailOfDistinct
        <4>3. Range(<< >>) = {}
          BY DEF Range
        <4> QED
          BY <3>1, <4>2, <4>3 DEF Owns
      <3>5. Owns(Starter, t) => Owned(t)
        BY <3>0 DEF Owned
      <3> QED
        BY <2>1, <2>2, <2>3, <3>3, <3>4, <3>5
    <2> QED
      BY <1>4, <2>4, <2>5
  <1>10. ASSUME NEW t \in Range(g)
         PROVE  /\ executions'[t] = 0
                /\ Executed(t)' <=> SchedulerOf(t0) \notin Begun
    BY <1>0, <1>1, <1>5, <1>7, <1>9, <1>10 DEF Executed
  <1>11. Round(g)'
    BY <1>8, <1>10 DEF Round, Turn
  <1> QED
    BY <1>11 DEF g

\* Whoever resets a task of a group holds the mutex of its scheduler.
LEMMA GroupMutex ==
    ASSUME SafeGroups, Ownership, NEW t0 \in Tasks, NEW f \in Executors,
           Resetting(f), Head(todo[f]) \in Range(GroupOf[t0])
    PROVE  syncMutex[SchedulerOf(t0)] = f
  <1>1. f \in Resetters /\ pc[f] # "idle" /\ syncMutex[Home[f]] = f
    BY DEF Resetting, Resetters, Ownership, MutexHeld
  <1>2. Head(todo[f]) \in Range(todo[f])
    BY <1>1, CurrentTask DEF Ownership, Owns
  <1>3. SchedulerOf(Head(todo[f])) = Home[f]
    BY <1>1, <1>2 DEF Ownership, Jobs
  <1> QED
    BY <1>1, <1>3, SameGroup

\* A task of a group is executed once more when the group is not reset, and the
\* group is reset when all of them are executed.
LEMMA RoundExecute ==
    ASSUME SafeGroups, Ownership, Work, Started, Started', NEW e \in Executors, Execute(e),
           NEW t0 \in Tasks, GroupOf[t0] # << >>, Round(GroupOf[t0])
    PROVE  Round(GroupOf[t0])'
  <1> USE ProcessAssumption
  <1>c. PICK c : c = Head(todo[e])
    OBVIOUS
  <1>g. PICK g : g = GroupOf[t0]
    OBVIOUS
  <1> SUFFICES Round(g)'
    BY <1>g
  <1>0. /\ e \in Resetters /\ e \in Processes
        /\ pc \in [Processes -> ExecutorPCs \cup StarterPCs \cup NotifierPCs]
        /\ state \in [Tasks -> TaskStates] /\ executions \in [Tasks -> Nat]
        /\ todo \in [Resetters -> Seq(Tasks)]
        /\ \A f \in Executors : f \in Resetters /\ f \in Processes
    BY DEF Ownership, TypeOK, Processes, Resetters
  <1>1. \A t \in Range(g) : /\ t \in Tasks /\ GroupOf[t] = g
                            /\ SchedulerOf(t) = SchedulerOf(t0)
    BY <1>g, SameGroup
  <1>2. \A f \in Executors \ {e} : pc'[f] = pc[f] /\ todo'[f] = todo[f]
    BY <1>0 DEF Execute, Take, SynchronizeStart, FinalizeAlone, FinalizeInGroup,
                GroupReset, GroupWait
  <1>3. pc[e] # "idle" => c \in Tasks /\ Owns(e, c) /\ SchedulerOf(c) = Home[e]
    <2>1. pc[e] # "idle" => c \in Tasks /\ Owns(e, c) /\ c \in Range(todo[e])
      BY <1>c, <1>0, CurrentTask DEF Ownership, Owns
    <2> QED
      BY <1>0, <2>1 DEF Ownership, Jobs
  <1>4. ~Resetting(e)
    BY DEF Execute, Take, SynchronizeStart, FinalizeAlone, FinalizeInGroup, GroupReset,
           GroupWait, Resetting
  <1>5. \A f \in Executors : /\ Resetting(f) /\ Head(todo[f]) \in Range(g)
                             => syncMutex[SchedulerOf(t0)] = f /\ f # e
    BY <1>g, <1>4, GroupMutex
  <1>6. ASSUME Resetting(e)' => Head(todo'[e]) \notin Range(g)
        PROVE  GroupInReset(g)' <=> GroupInReset(g)
    BY <1>2, <1>4, <1>6 DEF GroupInReset, Resetting
  <1>7. ASSUME NEW t \in Range(g),
               pc'[e] = "execute" /\ Head(todo'[e]) = t <=> pc[e] = "execute" /\ c = t
        PROVE  InExecution(t)' <=> InExecution(t)
    BY <1>c, <1>2, <1>7 DEF InExecution
  <1>8. ASSUME executions' = executions, state' = state,
               pc[e] = "execute" => c \notin Range(g),
               pc'[e] = "execute" => Head(todo'[e]) \notin Range(g),
               Resetting(e)' => Head(todo'[e]) \notin Range(g)
        PROVE  Round(g)'
    BY <1>g, <1>6, <1>7, <1>8, RoundKept
  <1>9. ASSUME NEW u \in Tasks, Take(e, u)
        PROVE  Round(g)'
    <2>1. pc[e] = "idle" /\ pc'[e] = "syncStart" /\ executions' = executions /\ state' = state
      BY <1>0, <1>9 DEF Take
    <2> QED
      BY <1>8, <2>1 DEF Resetting
  <1>10. CASE SynchronizeStart(e)
    <2>1. /\ pc[e] = "syncStart" /\ pc'[e] = "execute" /\ todo' = todo /\ state' = state
          /\ executions' = [executions EXCEPT ![c] = @ + 1]
          /\ syncMutex[Home[e]] = NoProc
      BY <1>c, <1>0, <1>10 DEF SynchronizeStart
    <2>2. CASE c \notin Range(g)
      <3>1. \A t \in Range(g) : executions'[t] = executions[t]
        BY <1>0, <1>1, <2>1, <2>2
      <3>2. \A t \in Range(g) : InExecution(t)' <=> InExecution(t)
        BY <1>c, <1>7, <2>1, <2>2
      <3>3. GroupInReset(g)' <=> GroupInReset(g)
        BY <1>6, <2>1 DEF Resetting
      <3> QED
        BY <1>g, <2>1, <3>1, <3>2, <3>3, RoundKept
    <2>3. CASE c \in Range(g)
      <3>1. ~GroupInReset(g) /\ ~GroupInReset(g)'
        BY <1>1, <1>3, <1>5, <1>6, <2>1, <2>3 DEF GroupInReset, Resetting
      <3>2. \A t, u \in Range(g) : Turn(t) = Turn(u)
        BY <1>g, <3>1 DEF Round
      <3>3. ~Executed(c)
        <4>1. ASSUME NEW f \in Executors, pc[f] = "execute", Head(todo[f]) = c
              PROVE  FALSE
          <5>1. Owns(f, c)
            BY <1>0, <4>1, CurrentTask DEF Ownership
          <5> QED
            BY <1>0, <1>3, <2>1, <4>1, <5>1 DEF Ownership, OneOwner
        <4>2. state[c] # "FINISH"
          BY <1>c, <2>1 DEF Ownership, ExecutedRuns
        <4> QED
          BY <4>1, <4>2 DEF Executed, InExecution
      <3>4. Executed(c)'
        BY <1>c, <2>1 DEF Executed, InExecution
      <3>5. \A t \in Range(g) : t # c => (Executed(t)' <=> Executed(t))
        BY <1>c, <1>7, <2>1 DEF Executed
      <3>6. ASSUME NEW t \in Range(g)
            PROVE  Turn(t)' = Turn(t)
        <4>1. CASE t = c
          BY <1>0, <1>1, <2>1, <3>3, <3>4, <4>1 DEF Turn
        <4>2. CASE t # c
          BY <1>0, <1>1, <2>1, <3>5, <4>2 DEF Turn
        <4> QED
          BY <4>1, <4>2
      <3> QED
        BY <3>1, <3>2, <3>6 DEF Round
    <2> QED
      BY <2>2, <2>3
  <1>11. CASE FinalizeAlone(e)
    <2>1. /\ pc[e] = "execute" /\ pc'[e] = "begin" /\ todo' = todo /\ state' = state
          /\ executions' = executions /\ GroupOf[c] = << >>
      BY <1>c, <1>0, <1>11 DEF FinalizeAlone
    <2>2. c \notin Range(g)
      BY <1>g, <1>1, <2>1
    <2> QED
      BY <1>c, <1>8, <2>1, <2>2
  <1>12. CASE FinalizeInGroup(e)
    <2>1. /\ pc[e] = "execute" /\ pc'[e] = "check" /\ todo' = todo
          /\ state' = [state EXCEPT ![c] = "FINISH"] /\ executions' = executions
          /\ syncMutex[Home[e]] = NoProc
      BY <1>c, <1>0, <1>12 DEF FinalizeInGroup
    <2>2. GroupInReset(g)' <=> GroupInReset(g)
      BY <1>6, <2>1 DEF Resetting
    <2>3. \A t \in Range(g) : t # c => /\ state'[t] = state[t]
                                       /\ InExecution(t)' <=> InExecution(t)
      BY <1>0, <1>1, <1>7, <2>1
    <2>4. CASE c \notin Range(g)
      BY <1>g, <2>1, <2>2, <2>3, <2>4, RoundKept
    <2>5. CASE c \in Range(g)
      <3>1. ~GroupInReset(g) /\ ~GroupInReset(g)'
        BY <1>1, <1>3, <1>5, <2>1, <2>2, <2>5 DEF GroupInReset
      <3>2. Executed(c) /\ Executed(c)'
        BY <1>c, <1>0, <1>1, <2>1, <2>5 DEF Executed, InExecution
      <3>3. \A t \in Range(g) : Executed(t)' <=> Executed(t)
        BY <2>3, <3>2 DEF Executed
      <3> QED
        BY <1>g, <2>1, <3>1, <3>3 DEF Round, Turn
    <2> QED
      BY <2>4, <2>5
  <1>13. CASE GroupReset(e)
    <2>1. /\ pc[e] = "check" /\ pc'[e] = "begin" /\ todo'[e] = GroupOf[c] /\ state' = state
          /\ executions' = executions /\ \A u \in Range(GroupOf[c]) : state[u] = "FINISH"
          /\ syncMutex[Home[e]] = e
      BY <1>c, <1>0, <1>13 DEF GroupReset, AreAllExecuted, Ownership, MutexHeld
    <2>2. GroupOf[c] # << >> /\ GroupOf[c] \in Seq(Tasks) /\ Distinct(GroupOf[c])
      BY <1>c, <1>3, <2>1, GroupAssumption DEF Ownership, ExecutedRuns
    <2>3. c \in Range(GroupOf[c]) /\ Head(GroupOf[c]) \in Range(GroupOf[c])
      BY <1>3, <2>1, <2>2, TailOfDistinct, GroupAssumption
    <2>4. CASE c \notin Range(g)
      <3>1. Head(GroupOf[c]) \notin Range(g)
        BY <1>1, <1>3, <2>1, <2>3, <2>4, SameGroup
      <3> QED
        BY <1>8, <2>1, <3>1
    <2>5. CASE c \in Range(g)
      <3>1. GroupOf[c] = g
        BY <1>1, <2>5
      <3>2. ~GroupInReset(g)
        BY <1>1, <1>3, <1>5, <2>1, <2>5 DEF GroupInReset
      <3>3. \A t, u \in Range(g) : executions[t] = executions[u]
        <4>1. \A t \in Range(g) : Executed(t) /\ executions[t] \in Nat
          BY <1>0, <1>1, <2>1, <3>1 DEF Executed
        <4> QED
          BY <1>g, <3>2, <4>1 DEF Round, Turn
      <3>4. GroupInReset(g)'
        BY <2>1, <2>3, <3>1 DEF GroupInReset, Resetting
      <3>5. ASSUME NEW t \in Range(g), InExecution(t)'
            PROVE  FALSE
        <4>1. PICK f \in Executors : pc'[f] = "execute" /\ Head(todo'[f]) = t
          BY <3>5 DEF InExecution
        <4>2. pc[f] = "execute" /\ Head(todo[f]) = t
          BY <1>2, <2>1, <4>1
        <4> QED
          BY <2>1, <3>1, <4>2 DEF Ownership, ExecutedRuns
      <3> QED
        BY <2>1, <3>3, <3>4, <3>5 DEF Round
    <2> QED
      BY <2>4, <2>5
  <1>14. CASE GroupWait(e)
    <2>1. pc[e] = "check" /\ pc'[e] = "idle" /\ executions' = executions /\ state' = state
      BY <1>0, <1>14 DEF GroupWait
    <2> QED
      BY <1>8, <2>1 DEF Resetting
  <1> QED
    BY <1>9, <1>10, <1>11, <1>12, <1>13, <1>14 DEF Execute

\* The next round of a group begins when the last of its tasks is reset.
LEMMA RoundReset ==
    ASSUME SafeGroups, Ownership, Work, Started, Started', NEW e \in Resetters, Reset(e),
           NEW t0 \in Tasks, GroupOf[t0] # << >>, Round(GroupOf[t0])
    PROVE  Round(GroupOf[t0])'
  <1> USE ProcessAssumption
  <1>c. PICK c : c = Head(todo[e])
    OBVIOUS
  <1>g. PICK g : g = GroupOf[t0]
    OBVIOUS
  <1> SUFFICES Round(g)'
    BY <1>g
  <1>0. /\ e \in Processes
        /\ pc \in [Processes -> ExecutorPCs \cup StarterPCs \cup NotifierPCs]
        /\ state \in [Tasks -> TaskStates] /\ executions \in [Tasks -> Nat]
        /\ todo \in [Resetters -> Seq(Tasks)]
        /\ \A f \in Executors : f \in Resetters /\ f \in Processes
    BY DEF Ownership, TypeOK, Processes, Resetters
  <1>1. \A t \in Range(g) : t \in Tasks /\ GroupOf[t] = g
    BY <1>g, SameGroup
  <1>2. /\ \A f \in Executors \ {e} : pc'[f] = pc[f] /\ todo'[f] = todo[f]
        /\ executions' = executions
        /\ Resetting(e) /\ pc[e] # "idle" /\ pc'[e] # "execute"
    BY <1>0 DEF Reset, BeginReset, ResetOvertake, ResetActivate, ResetInput, EndReset,
                Resetting
  <1>3. e \in Executors
    BY <1>2 DEF Started, Resetters
  <1>4. /\ c \in Tasks /\ c \in Range(todo[e])
        /\ todo[e] \in Seq(Tasks) /\ todo[e] # << >> /\ Distinct(todo[e])
    BY <1>c, <1>2, CurrentTask DEF Ownership, Owns
  <1>5. \A t \in Range(g) : InExecution(t)' <=> InExecution(t)
    <2>1. pc[e] # "execute"
      BY <1>2 DEF Resetting
    <2> QED
      BY <1>2, <2>1 DEF InExecution
  <1>6. ASSUME Resetting(e)' /\ Head(todo'[e]) \in Range(g) <=> c \in Range(g)
        PROVE  GroupInReset(g)' <=> GroupInReset(g)
    BY <1>c, <1>2, <1>3, <1>6 DEF GroupInReset, Resetting
  <1>7. \/ GroupOf[c] = << >> /\ Len(todo[e]) = 1
        \/ /\ GroupOf[c] # << >> /\ Range(todo[e]) \subseteq Range(GroupOf[c])
           /\ \A u \in Range(GroupOf[c]) \ Range(todo[e]) : state[u] # "FINISH"
    BY <1>c, <1>2, <1>3 DEF Work
  <1>8. \A t \in Tasks : t # c => state'[t] = state[t]
    <2>1. ResetActivate(e) => Activate(c)
      BY <1>c DEF ResetActivate
    <2> QED
      BY <1>c, <1>0, <1>4, <2>1
         DEF Reset, BeginReset, ResetOvertake, ResetInput, EndReset, Activate
  <1>9. c \in Range(g) => GroupInReset(g)
    BY <1>c, <1>2, <1>3 DEF GroupInReset
  <1>10. ASSUME Resetting(e)' /\ Head(todo'[e]) \in Range(g) <=> c \in Range(g)
         PROVE  Round(g)'
    <2>1. CASE c \in Range(g)
      BY <1>g, <1>2, <1>5, <1>6, <1>9, <1>10, <2>1 DEF Round
    <2>2. CASE c \notin Range(g)
      <3>1. \A t \in Range(g) : state'[t] = state[t]
        BY <1>1, <1>8, <2>2
      <3>2. GroupInReset(g)' <=> GroupInReset(g)
        BY <1>6, <1>10
      <3> QED
        BY <1>g, <1>2, <1>5, <3>1, <3>2, RoundKept
    <2> QED
      BY <2>1, <2>2
  <1>11. CASE BeginReset(e) \/ ResetOvertake(e) \/ ResetActivate(e) \/ ResetInput(e)
    <2>1. todo' = todo /\ pc'[e] \in { "input", "activate" }
      BY <1>0, <1>11 DEF BeginReset, ResetOvertake, ResetActivate, ResetInput
    <2> QED
      BY <1>c, <1>10, <2>1 DEF Resetting
  <1>12. CASE EndReset(e)
    <2>1. /\ todo'[e] = Tail(todo[e]) /\ state'[c] \in { "RUN", "WAIT" }
          /\ pc'[e] = IF Len(todo[e]) > 1 THEN "begin" ELSE "idle"
      BY <1>c, <1>0, <1>4, <1>12 DEF EndReset
    <2>2. /\ Tail(todo[e]) \in Seq(Tasks) /\ Distinct(Tail(todo[e]))
          /\ Range(Tail(todo[e])) = Range(todo[e]) \ {c}
          /\ Len(todo[e]) > 1 <=> Tail(todo[e]) # << >>
          /\ Len(todo[e]) = 1 <=> Tail(todo[e]) = << >>
      BY <1>c, <1>4, TailOfDistinct
    <2>3. CASE Len(todo[e]) > 1
      <3>1. Head(Tail(todo[e])) \in Range(todo[e])
        BY <2>2, <2>3, TailOfDistinct
      <3>2. GroupOf[c] # << >> /\ Range(todo[e]) \subseteq Range(GroupOf[c])
        BY <1>7, <2>2, <2>3
      <3>3. GroupOf[Head(Tail(todo[e]))] = GroupOf[c] /\ Head(Tail(todo[e])) \in Range(GroupOf[c])
        BY <1>4, <3>1, <3>2, SameGroup
      <3>4. Head(Tail(todo[e])) \in Range(g) <=> c \in Range(g)
        BY <1>1, <1>4, <3>2, <3>3
      <3> QED
        BY <1>10, <2>1, <2>3, <3>4 DEF Resetting
    <2>4. CASE ~(Len(todo[e]) > 1)
      <3>1. ~Resetting(e)'
        BY <2>1, <2>4 DEF Resetting
      <3>2. CASE c \notin Range(g)
        BY <1>10, <3>1, <3>2
      <3>3. CASE c \in Range(g)
        <4>1. ~GroupInReset(g)'
          <5>1. ASSUME NEW f \in Executors, Resetting(f)', Head(todo'[f]) \in Range(g)
                PROVE  FALSE
            <6>1. f # e /\ Resetting(f) /\ Head(todo[f]) \in Range(g)
              BY <1>2, <3>1, <5>1 DEF Resetting
            <6>2. syncMutex[SchedulerOf(t0)] = f /\ syncMutex[SchedulerOf(t0)] = e
              BY <1>c, <1>g, <1>2, <1>3, <3>3, <6>1, GroupMutex
            <6> QED
              BY <6>1, <6>2
          <5> QED
            BY <5>1 DEF GroupInReset
        <4>2. \A t, u \in Range(g) : executions[t] = executions[u] /\ ~InExecution(t)
          BY <1>g, <1>9, <3>3 DEF Round
        <4>3. Range(todo[e]) = {c} /\ GroupOf[c] = g /\ GroupOf[c] # << >>
          <5>1. Range(<< >>) = {}
            BY DEF Range
          <5> QED
            BY <1>g, <1>1, <1>4, <2>2, <2>4, <3>3, <5>1
        <4>4. \A t \in Range(g) : ~Executed(t)'
          BY <1>1, <1>5, <1>7, <1>8, <2>1, <4>2, <4>3 DEF Executed
        <4> QED
          BY <1>2, <4>1, <4>2, <4>4 DEF Round, Turn
      <3> QED
        BY <3>2, <3>3
    <2> QED
      BY <2>3, <2>4
  <1> QED
    BY <1>11, <1>12 DEF Reset

\* Every step keeps the rounds.
LEMMA RoundStep ==
    ASSUME SafeGroups, Ownership, Ownership', Work, LifeCycle, QuietCounters,
           QuietCounters', RoundInv, [Next]_vars
    PROVE  RoundInv'
  <1> USE ProcessAssumption
  <1> SUFFICES ASSUME NEW t0 \in Tasks
               PROVE  Round(GroupOf[t0])'
    BY DEF RoundInv
  <1>1. CASE GroupOf[t0] = << >>
    BY <1>1 DEF Round, Range
  <1>2. CASE GroupOf[t0] # << >>
    <2>0. QuietStart /\ Round(GroupOf[t0])
      BY <1>2 DEF SafeGroups, RoundInv
    <2>1. CASE ~Started'
      BY <1>2, <2>0, <2>1, RoundQuiet
    <2>2. CASE ~Started /\ Started'
      BY <1>2, <2>2, RoundStarted
    <2>3. CASE Started /\ Started'
      <3>1. ASSUME NEW n \in Notifiers, Notify(n)
            PROVE  Round(GroupOf[t0])'
        <4>1. /\ executions' = executions /\ todo' = todo
              /\ \A e \in Executors : pc'[e] = pc[e]
          <5>1. \A e \in Executors : e # n /\ e \in Processes
            BY DEF Processes, Resetters
          <5> QED
            BY <3>1, <5>1
               DEF Notify, NotifyMissed, NotifySync, NotifyLoad, MayNotify, NotifyStore,
                   NotifyCheck, NotifyActivate, Ownership, TypeOK
        <4>2. \A t \in Range(GroupOf[t0]) : state'[t] = "FINISH" <=> state[t] = "FINISH"
          <5>1. NotifyActivate(n) => \E u \in Tasks : Activate(u)
            BY TaskOfInput DEF NotifyActivate, Ownership, TypeOK
          <5>2. \A t \in Range(GroupOf[t0]) : t \in Tasks
            BY SameGroup
          <5> QED
            BY <3>1, <5>1, <5>2 DEF Notify, NotifyMissed, NotifySync, NotifyLoad, NotifyStore,
                              NotifyCheck, Activate, Ownership, TypeOK
        <4>3. \A t \in Tasks : InExecution(t)' <=> InExecution(t)
          BY <4>1 DEF InExecution
        <4>4. GroupInReset(GroupOf[t0])' <=> GroupInReset(GroupOf[t0])
          BY <4>1 DEF GroupInReset, Resetting
        <4> QED
          BY <2>0, <2>3, <4>1, <4>2, <4>3, <4>4, SameGroup, RoundKept
      <3>2. ASSUME NEW e \in Executors, Execute(e)
            PROVE  Round(GroupOf[t0])'
        BY <1>2, <2>0, <2>3, <3>2, RoundExecute
      <3>3. ASSUME NEW p \in Resetters, Reset(p)
            PROVE  Round(GroupOf[t0])'
        BY <1>2, <2>0, <2>3, <3>3, RoundReset
      <3>4. CASE UNCHANGED vars
        BY <2>0, <3>4 DEF vars, Round, Turn, GroupInReset, Resetting, Started,
                          Executed, InExecution
      <3>5. ~Start
        BY <2>3 DEF Start, Started
      <3> QED
        BY <3>1, <3>2, <3>3, <3>4, <3>5 DEF Next
    <2> QED
      BY <2>1, <2>2, <2>3
  <1> QED
    BY <1>1, <1>2

\* No task of a group is a whole execution ahead of another one, for every
\* system whose groups are safe.
THEOREM GroupInTurn ==
    ASSUME SafeGroups
    PROVE  Spec => []GroupLockstep
  <1> USE ProcessAssumption
  <1>1. Init => RoundInv
    <2> SUFFICES ASSUME Init, NEW t0 \in Tasks
                 PROVE  Round(GroupOf[t0])
      BY DEF RoundInv
    <2>1. \A t \in Range(GroupOf[t0]) : executions[t] = 0 /\ state[t] = "FINISH"
      BY SameGroup DEF Init
    <2>2. \A e \in Executors : pc[e] = "idle"
      BY DEF Init, Processes, Resetters
    <2> QED
      BY <2>1, <2>2 DEF Round, Turn, Executed, InExecution
  <1>2. ASSUME Ownership, Ownership', Work /\ LifeCycle, DeliveryInv, DeliveryInv',
               RoundInv, [Next]_vars
        PROVE  RoundInv'
    BY <1>2, RoundStep DEF DeliveryInv
  <1>3. ASSUME Ownership, RoundInv
        PROVE  GroupLockstep
    <2> SUFFICES ASSUME NEW t \in Tasks, NEW u \in Range(GroupOf[t])
                 PROVE  executions[t] <= executions[u] + 1
      BY DEF GroupLockstep
    <2>1. /\ u \in Tasks /\ t \in Range(GroupOf[t])
          /\ executions[t] \in Nat /\ executions[u] \in Nat
      BY <1>3, SameGroup, GroupAssumption DEF Ownership, TypeOK
    <2>2. \/ executions[t] = executions[u]
          \/ Turn(t) = Turn(u)
      BY <1>3, <2>1 DEF RoundInv, Round
    <2>3. CASE Executed(t)
      BY <2>1, <2>2, <2>3 DEF Turn
    <2>4. CASE ~Executed(t)
      BY <2>1, <2>2, <2>4 DEF Turn
    <2> QED
      BY <2>3, <2>4
  <1> QED
    BY <1>1, <1>2, <1>3, OwnershipInvariant, LifeCycleInvariant, DeliveryInvariant,
       PTL DEF Spec

=============================================================================
