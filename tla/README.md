# Formal models of the Tasking Framework

TLA+ models of the DLR Tasking Framework, the TLC configurations that check them
on small instances, and proofs of their central invariants with TLAPS. Paths are
relative to the repository, which is found under `src/`; so the C++ sources are
in `src/src`, the Linux execution models in `src/arch/linux` and the channel
library in `src/channels`.

Run a check with `tlc -workers 2 -config X.cfg M`, where `PROJECT.json` names the
module `M` of each configuration, and a proof with `tlapm M_proofs.tla`.

## 1. The system

An application consists of tasks, each with an array of inputs. An input is
connected to a channel; a push on the channel notifies the inputs. When enough
notifications arrived the task is activated: it enters the run queue of its
scheduler and an executor thread of the scheduler executes it and resets its
inputs afterwards. Events are channels that push at a time; they wait in the
clock queue of a scheduler, and the thread of the clock wakes up an executor when
their time has come.

| component | state | operations | interacts with |
|---|---|---|---|
| Task, inputs, groups (`task.cpp`, `taskInput.cpp`, `taskInputArray.cpp`, `taskGroup.cpp`, `taskChannel.cpp`) | `m_state` of a task; counters of current and missed notifications of an input | `notifyInput`, `activate`, `finalizeExecution`, `reset`, `join` | pushing threads call `notifyInput`, which calls `activate` of the task, which calls `perform` of the scheduler; executors call `execute` and through it `reset` |
| Scheduler (`scheduler.cpp`) | flag `running`, list of tasks, mutex of the synchronization | `start`, `terminate`, `perform`, `execute`, `handleEvents` | owns policy, clock and execution model |
| Schedule policies (`schedulePolicy*.cpp`) | linked lists through the management data of the tasks | `queue`, `nextTask` | called by the scheduler only |
| Executor pool (`arch/linux/schedulerExecutionModel.cpp`, `signaler.cpp`) | list of free executors, one signaler per executor, `emptySignal` | `signal`, `executorThread`, `waitUntilEmpty`, start-up and shutdown | woken up by `perform` and by the clock |
| Clock queue (`clock.cpp`) | list of events with forward and skipping backward links, cached position | `startAt`, `startIn`, `dequeue`, `dequeueAll`, `isPending`, `readFirstPending`, `getNextStartTime` | called by events, executors, the clock thread and `terminate` |
| Clock thread (`arch/linux/clockExecutionModel.cpp`) | local `nextStartTime`, condition variable | loop of the thread, `startTimer`, `setZeroTime` | reads the clock queue, signals the scheduler |
| Event (`taskEvent.cpp`) | period, flags `periodical`, `configured`, `queued` | timing setters, `trigger`, `stop`, `reset`, `handle`, `shallFire`, `onFire` | clock queue; pushes as a channel |
| Periodic schedule (`taskPeriodicSchedule.cpp`) | sorted list of trigger offsets | `pushTriggerOffset`, `sortIn`, `stepToNextTriggerOffset`, `pushTriggers` | played by an event |
| Barrier (`taskBarrier.cpp`) | number of expected and of received pushes | `increase`, `push`, `reset` | a channel; reset by the task behind it |
| Fifo channel (`channels/src/fifoGeneric.cpp`) | pool of elements, list of written elements, position per reader | `allocate`, `release`, `push`, `pop`, `associateReader`, `releaseReader`, `synchronize` | reader tasks, through the start and end of their execution |
| Single buffer, double buffer, signal channel (`channels/include/channels`) | data and access state | `send`, `read`, synchronization | as above |
| Unit test scheduler (`schedulerUnitTest.cpp`) | - | `schedule`, sequential | replaces the execution model in tests |

What is hard here, and which property is responsible for it, is listed line by
line under `hazards` in `PROJECT.json`. In short:

- *Task activation.* Notification counters, task state and run queue are guarded
  by three different mutexes or by none, so each may have changed between the
  test of one and the change of the other. A task must be executed once per
  complete set of notifications: never twice at a time, never once too often,
  never not at all.
- *Executor pool.* Parking, signalling and the counting in `waitUntilEmpty` use
  three mutexes. No executor may be lost or woken up twice, and work must not be
  left behind.
- *Policies and clock queue.* Intrusive lists whose pointers keep stale values.
- *Clock thread.* It sleeps on information from a queue that changes meanwhile.
- *Events.* A periodic event leaves the clock queue while it is handled and puts
  itself back; who programs, triggers or stops it may come in between.
- *Channels.* Readers of the fifo channel share elements, release them in any
  order and learn from notification counters how many there are. The barrier and
  its input are reset one after the other. The double buffer has no lock.

## 2. Modules

| module | models | on what level |
|---|---|---|
| `TaskActivation` | tasks, inputs, groups, `start(true)`, `execute` | one step per critical section or access to an unprotected counter |
| `ExecutorPool` | executor threads, `perform`/`signal`, `terminate`, `waitUntilEmpty` | one step per critical section; tasks and events are counted |
| `RunQueue` | what a schedule policy promises | abstract specification |
| `PolicyFifo`, `PolicyPriority`, `PolicyPSlot`, `PolicyLifo` | the policies as operations on linked lists | one step per call, under `queueMutex` |
| `SchedulePolicies` | a scheduler with one of the first three policies, shown to implement `RunQueue` | composition |
| `EventSet` | what the clock queue promises | abstract specification |
| `ClockQueue` | the list of events, shown to implement `EventSet` | one step per call, under `timeQueueMutex` |
| `ClockThread` | clock thread, callers of `startAt` and of `startTimer`, one executor | one step per access to shared state |
| `Mailboxes` | what the fifo channel promises to its readers | abstract specification |
| `FifoChannel` | `Fifo`, its readers and their tasks, shown to implement `Mailboxes` in `MCFifoChannel` | one step per critical section |
| `EventTiming` | one event, its schedule of triggers, the executors that handle it | one step per critical section of the event |
| `ChannelKinds` | barrier, single and double buffer with the task behind them | one step per critical section or unprotected access |
| `Chains` | how a linked list is read | operator |
| `MC*` | small instances for TLC | |
| `*_proofs` | theorems and proofs about the module of that name | |

The components meet at narrow interfaces. `TaskActivation` leaves open which
queued task is taken next, that is `RunQueue`; it lets an executor take a queued
task at any time, that it comes to look is `ExecutorPool`. `ExecutorPool` counts
the tasks in the queue and the pending events, how a task gets there is
`TaskActivation` and how an event becomes pending is `ClockThread`. `ClockThread`
uses of the clock queue what `EventSet` and `SleepIsBounded` of `ClockQueue` say.
The policies assume that no task is queued twice, which is `AtMostOneExecution`
of `TaskActivation`. `EventTiming` keeps only the place of its event in the clock
queue, which `ClockQueue` models. `FifoChannel` and `ChannelKinds` contain one task
with one input of threshold 1 for each reader; what they need of the task is
modelled in detail by `TaskActivation`.

### TaskActivation

`state` is `m_state`, `notifications` and `missed` are the counters of the inputs,
`queued[t]` counts how often a task is in the run queue (more than once would
destroy the list). `pc`, `todo` and `idx` say where each thread is: executors in
`SchedulerImpl::execute` and in `Task::reset`, notifiers in `notifyInput`, and one
thread in `Scheduler::start(true)`, which resets the tasks of one scheduler after
the other. `syncMutex` is `synchronizationMutex`, which an executor holds from the
end of the execution to the end of the reset. `++m_notifications` of an input
without synchronization is a load and a store.

`isActivated` of a whole task reads the counters of several inputs without
protection; the model reads them in the step that takes `taskMutex`. The counters
grow except in `reset`, so a read spread over time could only report an
activation later, or one that `reset` is about to consume. `pushed` and
`executions` are history variables.

Properties: `TypeOK`; `AtMostOneExecution`; `NoMissedActivation` (a waiting task
whose inputs are activated has a notifier on its way to `activate`);
`SynchronousDelivery` (at rest, executions and counters together account for
every push); `ExactVolume` (while a task is queued or executed its synchronous
inputs hold exactly the threshold, which is what `synchronizeStart` hands to the
channel); `GroupLockstep`; `EveryNotificationServed` (liveness); and `Ownership`,
the inductive invariant.

### ExecutorPool

`free` is the list of free executors, `wakeUp` the flag of each signaler, `pc` the
place of each thread in `executorThread`, `perform`, `signal`, the clock loop or
`terminate`. `target` is the executor that `signal` has taken from the list and
notifies in a second critical section. `Park` is one step because the executor
holds the mutex of its signaler from before it enters the list until it waits.
`emptyFlag` and `occupied` are the flag of `emptySignal` and the counter of
`waitUntilEmpty`.

Properties: `TypeOK`; `EveryExecutorAccounted` (each executor is in exactly one
of: free list, target of one signaller, notified, at work); `AwakeServesTasks` and
`AwakeServesEvents` (liveness, the strongest form that holds: as long as an
executor is awake or about to be woken up, work gets done). `QueuedTaskServed` and
`TerminateReturns` are promises of the headers that do not hold, see section 5.

### Policies

Each `next` pointer is a function on tasks and keeps its stale value when a task
leaves the queue, as in the code. `ImplementsRunQueue` maps the list to the
sequence of tasks it stands for, read by `Chain`, and requires each step to be a
step of `RunQueue`: insertion behind all tasks of the same or higher rank,
removal of the first. The rank is constant for FIFO, the priority for
`SchedulePolicyPriority`, and the clamped slot for `SchedulePolicyPSlot`.

### ClockQueue and EventSet

All pointers of the list are variables. `previous` does not point to the
predecessor but to an event with an earlier time, so that a search from the tail
skips blocks with the same time; insertion and removal have to correct the
pointers of a whole block. The loops of the code that walk a list are operators
on the sequence the list stands for (`RunOf`, `SearchBack`, `Before`).

An event that starts at once is put at the head of the list and is not marked as
queued, so the code accepts it again (`ListedUnmarked`). `StartAgain` does with the
pointers what `enqueue` and `enqueueHead` do with an event that is in the list already,
for each place at which the search ends. The list is none afterwards, it has a cycle
or has lost events, and the loops of the code may not end; the history variable
`relinked` says so, the model stops there, and the properties are about what comes
before.

Properties: `WellLinked` (with `TypeOK`: no cycle, the tail is the end, future events
are sorted and behind the pending ones, each of them points back to the last event
with an earlier time, the cache points into the list);
`ImplementsEventSet` (each event is delivered once and not before its time);
`TimerForFirst` (the timer is started exactly when an event becomes the earliest
one of the future); `SleepIsBounded` (`getNextStartTime` reports no event only if
there is none in the future, and only start times of events). `NextStartIsFirst`,
that it reports the *first* one, and `ListedOnce`, that no event is linked twice, do
not hold, see section 5.

### ClockThread

`clock` is the place of the thread in its loop. It holds `m_mutex` except while it
waits, so `StartTimer` is enabled only then. `getNextStartTime` returns the time
of any event in the future, which is exactly what `SleepIsBounded` says. The pool
is reduced to one executor. As in `ExecutorPool`, it misses a signal between its last
look at the queue (`HandleNone`) and its entry into the list of free executors
(`Park`); `overlooked` remembers the events that were pending when that happened,
until another signal finds the executor.

Properties: `NoTimerLost` (the thread waits without a limit only if there is no
event in the future or a call of `startTimer` is about to wake it up);
`AwaitedServed` (an event whose time comes while the thread sleeps or looks at the
queue is served, unless the executor overlooked its signal and gets no other one) and
`StartTimerReturns` (liveness). `PendingServed` does not hold, see section 5.

### FifoChannel and Mailboxes

`unused`, `allocated` and `fifo` are the three lists of elements. The order of the
first two only decides which memory is handed out; the third is ordered by the
`serial` number of each push, so its links are not kept. A bit mask is a set of bit
numbers: `expects` is `expectedReadsBitMask`, `mask` is `m_readerBitMask`, `bit` the
bit of `readerId`. `first` and `last` are `fifo_first` and `fifo_last` of a reader,
`popped` is the list of its allocated elements. `push` is the place of the thread in
`Fifo::push`, which holds `m_fifo_mutex` from the first to the last of its three
steps. `volume` is the number of notifications that `Input::synchronizeStart` reads
before `Fifo::synchronizeStart` waits for that mutex.

Readers are associated and released at any time. `AssociateReader` gives the new one
the elements in the list (`Welcome`); `ReleaseReader` gives back what the reader has
not read or released (`Left`), resets `m_fifo_last`, and leaves the input of its task
connected and counting. Its task does not run then, as `fifoGeneric.h` asks for. The
only restriction is that there are not more readers than `m_readerBitMask` has bits for
(section 5).

What the code cannot cope with is remembered, and the model goes on as far as it can:

- `broken`: a push followed a null `m_fifo_last`, an assertion of `synchronize`
  failed, a push linked its element with a mask that had changed since it was read
  (`LinksOldMask`), or an execution began with an element that the reader had popped
  before (`DeliversAgain`). Nothing is modelled after that.
- `cut`: a reader was released with messages left for others, and the list has not
  been empty since. `m_fifo_last` is null, and everything but a push works.
- `ahead`, `behind`: the readers whose input counted more, or fewer, messages than
  there were when they were associated, as the input goes on counting without a
  reader, and is not notified of messages that are in the list already.

Properties: `TypeOK`; `ElementsAccounted` (no element is lost or in two lists);
`ReadersHold` (no reader keeps a pointer to an element that was given back);
`VolumeAvailable` (the assertions of `synchronize`, for readers that are not `ahead`);
`TailIsLast` (`m_fifo_last` can be followed by a push, except when `cut`);
`ImplementsMailboxes` (each reader has a mailbox of its own, with what is in the list when
it comes, although they share elements and bits, until `broken`); `NoMessageForgotten`
(a synchronous input that is neither `ahead` nor `behind` has a notification, counted or
missed, for each message its reader was not synchronized with, and its task does not
rest meanwhile). `LastIsLastPushed`, `PushedForAll` and
`ConsumedOnce` do not hold, see section 5.

### EventTiming

`configured`, `periodical`, `period` and `due` are the members of `EventImpl`
(`due` is `nextActivation_ms`), `playing` says whether `periodicSchedule` is set.
`triggers` is the list of the schedule, into which `AddTrigger` sorts offsets one by
one (`SortIn`) before the event plays it, `active` the position of
`activeTrigger` and `base` is `startTimeOffPeriod_ms`. `place` tells whether the
clock has the event and whether it is marked as `queued`. `stage` is the place of
each executor in `handle`: with the mutex of the event to be entered, or behind it
with the push to come. `origin`, `stopped`, `raced`, `lastFire` and `played` are history
variables. `startTimeOffPeriod_ms` is unsigned in the code and may wrap around once
when a schedule is set; the model has negative numbers there, which the
comparison with the period takes as very large.

The application calls the setters from one thread and only when the event is not
configured, as `taskEvent.h` asks for ("when the timer is stopped"). An executor may
still be between `readFirstPending` and `handle` then, as `stop` does not wait for it;
`raced` remembers that a schedule was set in this situation. An event in the list
without a mark can be started again; that destroys the list (`relinked`, see
`ClockQueue`), and nothing is modelled after it. Delays of `setRelativeTiming` are not
zero, and time does not go on inside a critical section.

Properties: `TypeOK` (the schedule is sorted, an active trigger exists);
`PeriodicAlive` (a periodic event does not drop out of the clock between two
periods); `OnGrid` (however late it is handled, it is due at the offset plus a
multiple of the period, unless it plays a schedule that `raced`); `TriggersInTurn`
(no trigger of a schedule is skipped or repeated); `StopIsFinal` (after a stop that met no handler the clock does not have
the event, whoever resets it); `PeriodServed` (liveness). `ScheduleOnGrid`, which is
`OnGrid` without exception, and `BeyondPeriodSilent` do not hold, see section 5.

### ChannelKinds

`kind` and `synchron` select the channel and the input, `startValue` the barrier.
`pc` is the place of each producer in `Barrier::push`, in `send` or in
`notifyInput`, which it calls under the mutex `protection` of a barrier. `data` and
`backIndex` are the buffers, `ref` is the reference that `read` returned to the
task and `seen` its content. `reset` is the place of the task in `Task::reset`: the
reset of the channel and the reset of the input are two steps.

A producer calls `increase` before its own push, whenever it likes; `late` remembers
that one did between the firing of the barrier and its reset (`fired`). The single
buffer is sent to only while the task has nothing to do, which the application has to
ensure.

Properties: `TypeOK` (the counter does not wrap around below zero);
`AnnouncedAwaited` (a barrier without a start value never waits for a push that nobody
announced, and expects exactly the announced ones that are still to come unless one
was announced `late`); `SynchronNeverStuck` and `RoundsGoOn` (a barrier in
front of a synchronous input is never closed for ever; safety and liveness);
`ReferenceHolds` (the reference keeps its message while one more is sent, one that
is under way included); `NewestRead` (liveness). `NeverStuck`, the same as
`SynchronNeverStuck` for every input, and `IncreaseExpected`, that every announced push
is waited for, do not hold, see section 5.

## 3. Runs

| run | instance | states |
|---|---|---|
| `Activation_And` | a task with two synchronous inputs, thresholds 2 and 1; two notifiers, two executors; 5 pushes per input | 19,808 |
| `Activation_Final` | a task with a synchronous input and a final optional one without synchronization, pushed before, during and after start; 3 pushes per input | 325,552 |
| `Activation_Group` | a group of two tasks on one scheduler with two executors and a task on a second scheduler with one; 2 pushes per input | 255,565 |
| `Pool_Serve` | two executors, a client, the clock, `terminate`, spurious wake-ups; 3 tasks, 1 event | 685,054 |
| `Policy_Order` | four tasks, two with the same priority, one above the highest of three slots | 3,544 |
| `Clock_Queue` | four events, three instants; all operations in any order | 42,153 |
| `ClockThread_Timer` | two events, a client and event handlers, four instants; 3 starts, 1 spurious wake-up | 89,881 |
| `Fifo_Readers` | three elements, two readers of which one is synchronous, a mask of 8 bits; 3 messages | 3,414,381 |
| `Event_Timing` | two executors, periods 0 and 3, up to three triggers with offsets 0 and 1, added in any order; 5 calls in 4 instants | 410,402 |
| `Channel_Kinds` | three producers, one of them the writer of a buffer, barriers with start values 0 and 2, both kinds of input; 8 pushes | 63,714 |
| `Policy_LifoEmpty`, `Barrier_Stuck` | end with a violation, section 5 | |

*Bounds.* `MaxPush` lets a set of notifications complete twice in `Activation_And`
and arrive in part a third time, also while the reset of the first is under way;
that is what the missed notifications are for. In `Activation_Group` two pushes
per input are enough for one task to want to run ahead. Two executors and two
notifiers are enough for each pair of steps that share a mutex, a counter or a
state; for larger numbers see the proofs. In `Pool_Serve` three tasks allow one
executor to be woken up while the other is parking and to find nothing. Four
events in `Clock_Queue` allow a block of two with the same time to have a
predecessor and a successor, or three instants to hold an event each; three
instants are past, present and future. In `ClockThread_Timer` an event can be
started, served and be started again while the thread is at any place. In
`Fifo_Readers` three messages in three elements let a reader be in the middle of
what it was notified of, hold one element, and have another one pushed behind;
elements are used again, and the order of release may differ from that of the list. The
8 bits are those of `m_readerBitMask`. In `Event_Timing` four instants hold a period of 3
and its two ends, and five calls fill a schedule, set it, stop it and set it again while
handlers are late, or program an event in several ways one after the other.
Eight pushes in `Channel_Kinds` are four rounds of a barrier
with start value 2, or eight messages.

*Deadlock* is checked in the runs of the policies and of the clock queue, whose
operations are always possible. The other systems may stop: everything is
executed, the bounds are used up, nobody pushes.

*Symmetry* is used for notifiers, for events and for the elements of the channel in
runs without liveness.

*Fairness.* Threads of the operating system are scheduled, so each action of a
thread that can go on has weak fairness. What the environment decides has none:
to push, to activate a task, to trigger or start an event, to terminate, to wake
up spuriously. The same holds for the calls of an application in `EventTiming`, and for
the beginning of a push and `increase` in `ChannelKinds`; a push that has begun goes on,
and executors handle events and execute tasks. Mutexes are not assumed to be fair (no
strong fairness): an executor that waits for `synchronizationMutex` gets it because its holder
releases it and nothing competes for ever within the bounds. Time goes on in
`ClockThread`, and task code and event handlers return. Spurious wake-ups are
bounded in `ClockThread` because with weak fairness only, a thread that wakes up
for ever could starve `startTimer`.

*Mutants.* For every property of a passing run `PROJECT.json` names a plausible
bug in the mapped definition (an operator marked as mutant in the module), with
which TLC finds the property violated.

## 4. Proofs

All theorems hold for every value of the constants, under the named assumptions of
the modules, which state how tasks, inputs and threads are connected and which
TLC evaluates in each run.

`TaskActivation_proofs` proves `OwnershipInvariant`, `OneExecution` and
`TypeInvariant`, assuming `SafeGroups`: a group is on one scheduler, and nothing is
pushed while start resets its tasks (without groups the assumption is void).
`AtMostOneExecution` is not inductive: that a task is not queued a second time
depends on who resets it. `Ownership` therefore says that each task is owned by at
most one of run queue, executors and starter, that the owner's place in the code
fits to the state of the task (`QueuedRuns`, `ExecutedRuns`, `OwnedNotQueued`),
that the mutex is held where the code holds it, and that before start returns
nothing was activated. The proof goes action by action; the hard cases are the
reset of a group, where an executor becomes the owner of several tasks at once
(all of them are in `TASK_FINISH`, and by the mutex nobody else owns one), and
`activate`, which two notifiers and a resetter can reach for the same task.

The second part of the module builds on `Ownership`. `VolumeProvided` adds that an input with
synchronization never counts above its threshold, keeps missed notifications only
once it has reached it, and has reached it in each task that is queued or executed
(`VolumeInv`). `NoneMissed` needs for each waiting task whose inputs are activated a
notifier that is about to call `activate`; as a notifier learns so from one input
while another one may be missing, `AnsweredInv` says of each task in
`TASK_WAIT`, and of the inputs already reset of one in `TASK_RESET`, that it is not
activated or that a notifier is on the way to `activate`. For
`NothingLost`, `DeliveryInv` counts: pushes equal executions times the threshold, plus
the counters, plus what a task in work (`Work`) holds, with `LifeCycle` for the places
at which an execution is counted and not yet reset. It assumes that all schedulers
are started (otherwise a task has no state in which it counts) and `QuietStart`:
start clears the inputs, so what was pushed before start is not delivered. For
`GroupInTurn`, `RoundInv` relates the number of executions of two tasks of a group to
their states: the tasks that are executed in this round are one ahead of the others,
and while the group is reset, all numbers are equal and none of them is executed.

`SchedulePolicies_proofs` proves `PoliciesImplementRunQueue`, the refinement of
`RunQueue` by all three policies. The invariant `PolicyInv` names the sequence of tasks
that the pointers stand for (`IsList`, without a task twice, with the tail as its
last one; sorted for Priority, one per slot for PSlot, where the highest slot is the
highest one that is not empty). `ChainOfList` shows that the walk along the pointers
reads this sequence back, and `ListPop`, `ListPush` and `ListInsert` how the
sequence changes with the pointers; stale pointers are those of tasks outside of it.
`SearchStops` shows that the search of Priority ends between the tasks of at least the
priority and the others. For PSlot the lists of the slots are piled up (`Piled`), and
`PileInsert` and `PilePop` show that the tail of one list and the head of the
highest one are the places where `RunQueue` inserts and removes. `Chain` and
`PSlot!Waiting` are recursive functions; that they have the values claimed is proved
without an induction theorem: the set of indices at which they do not has no
least element (`LeastNumber`, `Upward`).

`ExecutorPool_proofs` proves `PoolInvariant` (`EveryExecutorAccounted`, which is
inductive together with the types) and `PoolTypes`. The steps that matter are
`TakeFree` and `NotifyExecutor`, which hand an executor from the list to a
signaller to the signaler, and `Park`.

`ClockThread_proofs` proves `NoLostTimer` and `ThreadTypes`. `NoTimerLost` speaks of
the thread that waits; the inductive `Covered` adds the moment in which the
thread has read the queue and decides to wait. `StartFuture` either becomes the
first event and owes a call of `startTimer`, or there was an event in the future
before it, which was covered.

`FifoChannel_proofs` proves `ElementsNeverLost`, `NoDanglingReader` and `TailFollows`,
with `ChannelTypes`, from the inductive `ChannelInv`. What it says of types, elements and
numbers holds in all states, the rest until the channel is `broken`. That an element a reader may pop is
still listed depends on the order of the list and on the bits: pushed elements have
larger numbers than all before (`Numbered`), associated readers have different bits
that are in the mask (`Registered`), and what a reader has read is a beginning of
the list (`InOrder`), so that what it may pop follows what it popped. The order of
elements is given by `Oldest` and `Newest`, whose existence needs the least element
of a set of numbers, or of a finite set. Readers that come and go with messages in the
list keep the order: the new one expects all elements and has read none, and the
release takes the bit of a reader out of all elements from its first one on. For
`TailFollows` the tail is in the list and no element has a larger number, or it is null
and the list was `cut` (`TailLast`); as elements have different numbers, the former makes
it the last one (`LastIsNewest`). The release of a reader cuts the list exactly if
something is left in it.

In the same module, `VolumeFits` proves the assertions of `synchronize`. What the
counters of an input announce is compared with what is in the list behind the last
read element: `VolumeInv` says that at least as many elements wait for an associated
reader (`Waiting`, a set of elements, whose cardinality is followed through push, pop
and release) as its input counts (`Covered`), unless the input counted more when the
reader was associated (`ahead`). The inputs of the others count as well, and no bound is
claimed of them. For a synchronous input that is not `behind`, `Covered` also says that no
more elements wait than it counts, which is `NothingForgotten`: a notification that comes
while the task works with the input is not lost, because the input is activated then
(`Activated`) and keeps it as a missed one, and the end of an execution takes a missed
one if there is one.

`ChannelIsMailboxes`, at the end of the module (which extends `MCFifoChannel`), is the refinement of `Mailboxes`.
The mailbox of a consumer is the set of the numbers of the messages it has not taken,
which it takes from the smallest one on, and `kept` are the numbers of all messages in
the list. With `ChannelInv` the steps map one by one: `PushLink` adds the largest number
to each open mailbox, as the mask read before the push is still that of all associated
readers (otherwise it breaks the channel); `Pop` and `PopElement` take the smallest one,
as a reader reads in the order of the list; a reader that comes gets all that is kept,
by the bits that `Welcome` sets, and one that goes takes its own mailbox with it and
nothing out of the others; and all other steps change no mailbox. Of these
`ReleaseElement` is the one that matters: the bits keep an element in the list until
the last reader for which it is unread has popped and released it.

`EventTiming_proofs` proves `NeverLost`, `StopHolds`, `ScheduleSorted`, `NoDrift` and
`InTurn`. `StopIsFinal` is inductive only together with the fact that after a stop the
event is not configured (`StoppedIsOut`), so that neither a reset nor a handler brings
it back. `ScheduleSorted` is about `sortIn`: the place it chooses keeps the list sorted.
For `NoDrift`, `GridInv` keeps that the time of the next activation differs from the
first one by a multiple of the period; within a schedule it is the offset of the
active trigger behind such a time (`base`). For the schedule that needs an executor to
put the event back before another one reads it (`HandledOnce`), which a schedule that was
set while one of them was late (`raced`) does not have. For `InTurn`, `Turn` says that the triggers
pushed last have one offset, that none behind the last of them has it too, and that
the active trigger is the one behind it.

`ChannelKinds_proofs` proves `KindTypes`, `PushesAwaited`, `NeverClosedForEver` and
`ReferenceStaysValid`. The counter of a barrier without start value is at most the
number of producers in front of an announced push, and equal to it as long as none was
announced `late` (`AwaitInv`); with a start value it is at most that much above it
(`Bounded`). For `NeverClosedForEver`
`Round` lists what counter, notifications, missed notifications and task
state can be at each place of the reset; what matters is that a push that closes the
barrier again before the input is reset finds a notification and becomes a missed
one, and one after that finds none and activates the task. For the last one, a
reference is used only while the task runs, and the element it refers to is the
other one than the back buffer until the buffers are switched.

`ClockQueue_proofs` proves `ListStaysLinked`, `TimerStarted`, `SleepBounded` and
`QueueImplementsEventSet`. They speak of the list until an event is linked a second time
(`relinked`): `ClockInv` is shown for every step up to there, and `EventSet` promises
nothing afterwards (`void`). As for the policies, `ClockInv` says that there is a sequence of
events that the pointers stand for (`QueueInv`): without an event twice, with the tail
as its last one, pending events in front and the future ones sorted behind them
(`Ordered`) and with the cached position in it. An event outside of it is not marked
as queued, and does not point back if it was removed before its time (`Outside`).
The hard part are the backward pointers. `Back` says that the pointer of each event
in the future leads to the last event with an earlier time, so that all events of a
block have the same one; of pending events nothing is known, and nothing is needed. `BackInserted` and `BackRemoved` show that the operations correct the
pointers of the whole block behind the place (`Block`, `BlockAt`). `SearchFinds`
shows that the search from the tail, which jumps along these pointers, ends at the
right place; since it is a recursive function, the smallest position at which it
would go wrong is refuted. `InsertedInv` and `RemovedInv` then carry the
invariant through each operation, and `SetStep` maps what happened to the sequence to
a step of `EventSet`.

Only model-checked: the liveness properties, which need fairness and `ENABLED`. Every
invariant, action property and refinement of a passing run is stated by a theorem.

## 5. Where code and documentation differ

Two of these are shown by a run that ends with a violation, `Policy_LifoEmpty` and
`Barrier_Stuck`:

- `SchedulePolicyLifo::queue` leaves a stale `next` pointer when the run queue is empty;
  `nextTask` then delivers a task that was not queued (`EmptyGivesNull`).
- `Input::reset` resets the channel before it clears the notifications. With an input
  without synchronization, pushes that complete the next round of a barrier in between
  notify the input, the notification is cleared, the task waits, and the barrier stays at
  zero: all later pushes are ignored (`NeverStuck`).

The models contain the following as well. Each is stated by a property that quotes what
is promised and that TLC refutes on the instance given, if the property takes the
place of those in the `.cfg` named. What a passing run checks is weaker by exactly this
case.

| property | promised in | run to change | instance that is enough |
|---|---|---|---|
| `QueuedTaskServed` | `scheduler.h:108` | `Pool_Serve` | one executor, `MaxPerform` 2, no event, no `terminate`, no spurious wake-up |
| `TerminateReturns` | `schedulerExecutionModel.h:109` | `Pool_Serve` | `MaxPerform` 2, no event, no spurious wake-up |
| `ListedOnce` | `taskEvent.h:112` | `Clock_Queue` | two events |
| `NextStartIsFirst` | `clock_impl.h:133` | `Clock_Queue` | three events |
| `PendingServed` | `clock_impl.h:120` | `ClockThread_Timer` | one event, one start, no spurious wake-up |
| `ScheduleOnGrid` | `taskEvent.h:90` | `Event_Timing` | one executor, period 3, 5 calls |
| `BeyondPeriodSilent` | `taskEvent.h:93` | `Event_Timing` | one executor, period 3, offsets 0 and 4, 3 calls |
| `IncreaseExpected` | `taskBarrier.h:41` | `Channel_Kinds` | start value 0 |
| `LastIsLastPushed` | `fifoGeneric.h:168` | `Fifo_Readers` | two elements |
| `PushedForAll` | `fifo.h:195` | `Fifo_Readers` | two elements |
| `ConsumedOnce` | `fifoGeneric.h:228` | `Fifo_Readers` | two elements |

Tasks and scheduler:

- `QueuedTaskServed`: a task queued between the last `nextTask` of an executor and its entry
  into the free list is not served until another signal arrives. The same holds for an
  event that becomes pending in that window.
- `TerminateReturns`: `waitUntilEmpty` counts signals of a flag, so two executors that park
  before it looks count as one, and `terminate` does not return.

Events and clock:

- `ListedOnce`: `enqueueHead` does not set `queued`, so an event that starts at once is
  linked a second time when it is started again before it is delivered, for instance by
  `setPeriodicTiming(0, past)` and then `trigger`.
- `NextStartIsFirst`: `Clock::enqueue` compares `event.next` with `nonePendingHead` also when
  both are null; a later event becomes the cached one and the clock thread sleeps past an
  earlier one.
- `PendingServed`: an event whose time comes between `isPending` and
  `getNextStartTime` is overlooked; without other events the thread then sleeps without a
  limit.
- `ScheduleOnGrid`: `stop` does not wait for an executor that has taken the event out
  of the clock. If a schedule is set meanwhile, the late handler pushes its first trigger
  at once, steps on to the second one, and finds the event queued: it is due at the offset
  of the first trigger and plays the second one then. With a plain period the late
  handler only pushes once more; the event stays on the grid.
- `BeyondPeriodSilent`: triggers with an offset beyond the period of the event are played
  like the others, and the next round begins late; `taskEvent.h` says that they are not
  fired.

Channels:

- `IncreaseExpected`: between the moment in which a barrier fires and its reset, an
  `increase` is accepted and wiped out by the reset; the announced push is ignored, or
  counts for the next round.
- `LastIsLastPushed`: `releaseReader` resets `m_fifo_last` whatever others have still to
  read; the next push follows a null pointer. The test `RemoveOneReaderNotAllRead` releases
  a reader like that, and pushes again only when the list is empty.
- `PushedForAll`: `push` reads `m_readerBitMask` without the mutexes of `associateReader`; a
  reader that is associated before the element is linked is notified of a message it
  never gets.
- `ConsumedOnce`: an element that a reader popped and did not release before the end of the
  execution is delivered a second time when the reader was empty.

Met while modelling, without a property of their own. Tasks and scheduler:

- A group can lose its lockstep when it is notified while `start` resets its tasks,
  or when its tasks belong to different schedulers. `SafeGroups` excludes both.
- `++m_notifications` of an input without synchronization is unprotected, and a
  notification can be lost before the activation.
- `waitUntilEmpty` can return early: an executor woken up during the wait is
  counted when it parks, instead of one that is still at work.
- `start(false)` queues each task whose inputs are activated, whatever its state: one
  that runs is executed twice at a time, one that was queued before
  `terminate(true)` is queued twice.
- With an alternative activation condition that is false the search for a final
  input starts at the second input (`taskInputArray.cpp`).

Events and clock:

- `Event::stop` leaves `periodical` set: stopped between `readFirstPending` and
  `handle`, the event starts again, a stopped schedule as a plain periodic event; and
  `trigger` with a delay after the stop makes it periodic again.
- `setRelativeTiming` does not clear `periodicSchedule`; the event never fires then.
- `setPeriodicSchedule` compares an absolute time with a period, so a schedule set up
  later than one period after the start of the clock is stopped at once. The active
  trigger is not reset when the schedule is set a second time, so it begins in the
  middle of the list. With an empty schedule `configured` keeps its value.
- `mutexLock` and, in `trigger`, `configured` are read without the mutex.
- `computeAbsoluteWakeUpTime` does not normalize `tv_nsec` of exactly 1000000000; the
  wait returns at once, which `SpuriousWakeUp` stands for.

Channels:

- `releaseReader` walks along the elements without `m_mutex`; a push or a release by
  another reader may change the list meanwhile. The model has it as one step.
- The input of a reader is notified of pushes only: one that is associated with messages
  in the list lags behind by as many until its reader is released, and one whose
  channel was pushed to before counts messages that it does not find (`behind`, `ahead`).
- A reader with an input without synchronization keeps a backlog: pushes during the
  execution are not notified again.
- `m_readerBitMask` has 8 bits, although `fifoGeneric.h:250` speaks of the bits of an
  `unsigned int`: a ninth reader gets an id that no element expects. Bit 0 is not
  used again when the first reader leaves before others.
- Between the moment in which a barrier fires and its reset, pushes are ignored.

## 6. Not modelled, and why

- Name handling and statistics take no part in the control flow; the templates that
  allocate tasks and schedulers have no state; `arch/none` consists of stubs, and
  `arch/outpost` needs a library outside of the repository; the vendored test library
  is not part of the system.
- The unit test scheduler calls `handleEvents`, `nextTask` and `execute` from one
  thread; nothing runs concurrently.
- `start(false)` and start after `terminate`: what goes wrong there (section 5) does so
  in the first step, and the properties of `TaskActivation` presuppose `start(true)`.
- Start-up handshake and destruction of executors and of the clock thread,
  `setZeroTime` and the conversion to `timespec`: they happen once, or are
  arithmetic of the operating system's types.
- Alternative activation conditions are functions of the application; `setSynchron`,
  `setFinal` and the association of inputs and channels while the system runs.
- Concurrent setters of an event, an overridden `shallFire` or `onFire`.
- What the clock does with a list in which an event is linked twice, and the fifo channel
  after a null pointer, a failed assertion, a push with an outdated mask or a second
  delivery: the models show that it comes to that.
- More readers of a fifo channel than `m_readerBitMask` has bits for, and the 2000 links of
  each reader.
