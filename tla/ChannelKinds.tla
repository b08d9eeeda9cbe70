---------------------------- MODULE ChannelKinds ----------------------------
(***************************************************************************)
(* The channels Barrier, SingleBuffer and DoubleBuffer between threads     *)
(* that push and the task that is activated by them.                       *)
(*                                                                         *)
(* The task has one input with threshold 1.  One step is one critical      *)
(* section or one access to unprotected data; the copy of a message is     *)
(* one step, what matters is when it happens.  The run queue is left out:  *)
(* a task in state RUN is executed at some time (module TaskActivation).   *)
(***************************************************************************)
EXTENDS Integers, FiniteSets

CONSTANTS
    Producers,
    Writer,         \* the one of them that writes to a buffer
    StartValues,    \* arguments of the constructor of Barrier
    MaxPush         \* bound: pushes, or messages sent

Nobody == "nobody"

ASSUME KindAssumption ==
    /\ IsFiniteSet(Producers) /\ Nobody \notin Producers
    /\ Writer \in Producers
    /\ StartValues \subseteq Nat
    /\ MaxPush \in Nat

Kinds == { "barrier", "single", "double" }
TaskStates == { "WAIT", "RUN", "RESET", "PENDING" }
PCs == { "idle", "announced", "copied", "notify", "store", "activate" }
Resets == { "none", "channel", "input", "end" }
NoRef == 2

VARIABLES
    kind, synchron,         \* of the channel, and of the input of the task
    pc,                     \* place of each producer in push or send
    reg,                    \* the value read for ++m_notifications
    pushes,                 \* pushes so far
    counter, startValue,    \* of the barrier
    protection,             \* holder of its mutex
    data, backIndex,        \* of the buffer; a message is its number
    notifications, missed,  \* of the input
    state, reset,           \* m_state of the task, its place in Task::reset
    ref, seen,              \* result of read: the element, and its message
    switches,               \* history: sends since then
    fired,                  \* history: the barrier has fired in this round
    late                    \* history: it was increased after that, so far

barrierVars == << counter, startValue, protection, fired, late >>
bufferVars == << data, backIndex >>
inputVars == << notifications, missed >>
taskVars == << state, reset >>
readVars == << ref, seen, switches >>
pushVars == << pc, reg, pushes >>
fixed == << kind, synchron >>
vars == << fixed, pushVars, barrierVars, bufferVars, inputVars, taskVars, readVars >>

TypeOK ==
    /\ kind \in Kinds /\ synchron \in BOOLEAN
    /\ pc \in [Producers -> PCs]
    /\ reg \in Nat /\ pushes \in 0..MaxPush
    /\ counter \in 0..(startValue + Cardinality(Producers))
    /\ startValue \in StartValues
    /\ protection \in Producers \cup {Nobody}
    /\ data \in [0..1 -> 0..MaxPush] /\ backIndex \in 0..1
    /\ notifications \in Nat /\ missed \in Nat
    /\ state \in TaskStates /\ reset \in Resets
    /\ ref \in 0..NoRef /\ seen \in 0..MaxPush /\ switches \in Nat
    /\ fired \in BOOLEAN /\ late \in BOOLEAN

-----------------------------------------------------------------------------
(* Channel::push and InputImpl::notifyInput.                               *)

IsActivated == notifications >= 1

GoTo(p, place) == pc' = [pc EXCEPT ![p] = place]

\* The producer returns; a barrier is locked until then.
Return(p) ==
    /\ GoTo(p, "idle")
    /\ protection' = Nobody

\* Mutant: an activated synchronous input takes no note of the notification.
NotifySync_Dropped(p) ==
    /\ pc[p] = "notify"
    /\ synchron
    /\ notifications' = 1
    /\ GoTo(p, "activate")
    /\ UNCHANGED << fixed, reg, pushes, barrierVars, bufferVars, missed,
                    taskVars, readVars >>

NotifySync(p) ==
    /\ pc[p] = "notify"
    /\ synchron
    /\ IF IsActivated
       THEN /\ missed' = missed + 1
            /\ Return(p)
            /\ UNCHANGED notifications
       ELSE /\ notifications' = notifications + 1
            /\ GoTo(p, "activate")
            /\ UNCHANGED << missed, protection >>
    /\ UNCHANGED << fixed, reg, pushes, counter, startValue, fired, late, bufferVars,
                    taskVars, readVars >>

\* The counter of an input without synchronization is not protected.
NotifyLoad(p) ==
    /\ pc[p] = "notify"
    /\ ~synchron
    /\ reg' = notifications
    /\ GoTo(p, "store")
    /\ UNCHANGED << fixed, pushes, barrierVars, bufferVars, inputVars, taskVars,
                    readVars >>

NotifyStore(p) ==
    /\ pc[p] = "store"
    /\ notifications' = reg + 1
    /\ GoTo(p, "activate")
    /\ UNCHANGED << fixed, reg, pushes, barrierVars, bufferVars, missed,
                    taskVars, readVars >>

\* TaskImpl::activate.
Activation ==
    IF IsActivated /\ state = "WAIT" THEN "RUN"
    ELSE IF IsActivated /\ state = "RESET" THEN "PENDING"
    ELSE state

Activate(p) ==
    /\ pc[p] = "activate"
    /\ state' = Activation
    /\ Return(p)
    /\ UNCHANGED << fixed, reg, pushes, counter, startValue, fired, late, bufferVars,
                    inputVars, reset, readVars >>

-----------------------------------------------------------------------------
(* Barrier.                                                                *)

\* Mutant: the counter is set.
Increase_Set(p) ==
    /\ kind = "barrier"
    /\ pc[p] = "idle" /\ protection = Nobody
    /\ counter' = 1
    /\ late' = (late \/ fired)
    /\ GoTo(p, "announced")
    /\ UNCHANGED << fixed, reg, pushes, startValue, protection, fired,
                    bufferVars, inputVars, taskVars, readVars >>

\* increase, by a producer that will push once more than the others know.  A
\* round is over when the barrier has fired, until it is reset; what is
\* announced in between is forgotten by the reset.
Increase(p) ==
    /\ kind = "barrier"
    /\ pc[p] = "idle" /\ protection = Nobody
    /\ counter' = counter + 1
    /\ late' = (late \/ fired)
    /\ GoTo(p, "announced")
    /\ UNCHANGED << fixed, reg, pushes, startValue, protection, fired,
                    bufferVars, inputVars, taskVars, readVars >>

\* Mutant: the counter is not tested.
Remaining_Negative == counter - 1

\* A push on a barrier that has fired is ignored.
Remaining == IF counter = 0 THEN 0 ELSE counter - 1

\* Mutant: the barrier fires one push too early.
Completes_Early == counter \in {1, 2}

Completes == counter = 1

\* Barrier::push.  The mutex is held until the inputs are notified.
PushBarrier(p) ==
    /\ kind = "barrier"
    /\ protection = Nobody
    /\ pushes < MaxPush
    /\ pc[p] = "announced" \/ (pc[p] = "idle" /\ startValue > 0)
    /\ pushes' = pushes + 1
    /\ counter' = Remaining
    /\ fired' = (fired \/ Completes)
    /\ IF Completes
       THEN GoTo(p, "notify") /\ protection' = p
       ELSE GoTo(p, "idle") /\ UNCHANGED protection
    /\ UNCHANGED << fixed, reg, startValue, late, bufferVars, inputVars,
                    taskVars, readVars >>

-----------------------------------------------------------------------------
(* Buffers.                                                                *)

ValidIndex == IF kind = "single" THEN backIndex ELSE 1 - backIndex

\* Mutant: the message is copied to the buffer that is read.
Target_Front == 1 - backIndex

\* The buffer that send copies to, or that getBuffer hands out.
Target == backIndex

\* Sender and receiver of a single buffer are synchronized, e.g. by a group.
MaySend ==
    kind = "single" => state = "WAIT" /\ notifications = 0 /\ missed = 0

\* send copies the message, or the application has written it to getBuffer().
SendCopy(p) ==
    /\ kind # "barrier"
    /\ p = Writer /\ pc[p] = "idle"
    /\ pushes < MaxPush /\ MaySend
    /\ pushes' = pushes + 1
    /\ data' = [data EXCEPT ![Target] = pushes']
    /\ GoTo(p, "copied")
    /\ UNCHANGED << fixed, reg, barrierVars, backIndex, inputVars,
                    taskVars, readVars >>

\* Only a double buffer has another one to switch to.
SendSwitch(p) ==
    /\ pc[p] = "copied"
    /\ backIndex' = IF kind = "double" THEN 1 - backIndex ELSE backIndex
    /\ switches' = switches + 1
    /\ GoTo(p, "notify")
    /\ UNCHANGED << fixed, reg, pushes, barrierVars, data, inputVars,
                    taskVars, ref, seen >>

-----------------------------------------------------------------------------
(* The task.                                                               *)

\* read, at the beginning of execute; the reference is used until its end.
Read ==
    /\ state = "RUN" /\ kind # "barrier" /\ ref = NoRef
    /\ ref' = ValidIndex
    /\ seen' = data[ValidIndex]
    /\ switches' = 0
    /\ UNCHANGED << fixed, pushVars, barrierVars, bufferVars, inputVars, taskVars >>

BeginReset ==
    /\ state = "RUN"
    /\ kind # "barrier" => ref # NoRef
    /\ ref' = NoRef
    /\ state' = "RESET"
    /\ reset' = "channel"
    /\ UNCHANGED << fixed, pushVars, barrierVars, bufferVars, inputVars, seen,
                    switches >>

\* Mutant: the barrier keeps what is left of the last round.
Reopened_Kept == counter

Reopened == startValue

\* Channel::reset does nothing, except for the barrier.
ResetChannel ==
    /\ reset = "channel"
    /\ kind = "barrier" => protection = Nobody
    /\ IF kind = "barrier"
       THEN counter' = Reopened /\ fired' = FALSE
       ELSE UNCHANGED << counter, fired >>
    /\ reset' = "input"
    /\ UNCHANGED << fixed, pushVars, startValue, protection, late, bufferVars,
                    inputVars, state, readVars >>

\* The rest of Input::reset.  A missed notification activates the task.
ResetInput ==
    /\ reset = "input"
    /\ notifications' = IF synchron /\ missed > 0 THEN 1 ELSE 0
    /\ missed' = IF synchron /\ missed > 0 THEN missed - 1 ELSE missed
    /\ state' = IF synchron /\ missed > 0 THEN "PENDING" ELSE state
    /\ reset' = "end"
    /\ UNCHANGED << fixed, pushVars, barrierVars, bufferVars, readVars >>

EndReset ==
    /\ reset = "end"
    /\ state' = IF state = "PENDING" /\ IsActivated THEN "RUN" ELSE "WAIT"
    /\ reset' = "none"
    /\ UNCHANGED << fixed, pushVars, barrierVars, bufferVars, inputVars, readVars >>

-----------------------------------------------------------------------------
Init ==
    /\ kind \in Kinds
    /\ synchron \in BOOLEAN
    /\ pc = [p \in Producers |-> "idle"] /\ reg = 0 /\ pushes = 0
    /\ startValue \in StartValues
    /\ counter = startValue
    /\ protection = Nobody
    /\ data = [i \in 0..1 |-> 0] /\ backIndex = 1
    /\ notifications = 0 /\ missed = 0
    /\ state = "WAIT" /\ reset = "none"
    /\ ref = NoRef /\ seen = 0 /\ switches = 0
    /\ fired = FALSE /\ late = FALSE

Push(p) == NotifySync(p) \/ NotifyLoad(p) \/ NotifyStore(p) \/ Activate(p)

Execute == Read \/ BeginReset \/ ResetChannel \/ ResetInput \/ EndReset

Next ==
    \/ \E p \in Producers :
          Push(p) \/ Increase(p) \/ PushBarrier(p) \/ SendCopy(p) \/ SendSwitch(p)
    \/ Execute

\* A push that has begun goes on, and the task is executed and reset.
Fairness ==
    /\ \A p \in Producers : WF_vars(Push(p)) /\ WF_vars(SendSwitch(p))
    /\ WF_vars(Execute)

Spec == Init /\ [][Next]_vars
FairSpec == Spec /\ Fairness

-----------------------------------------------------------------------------
(* Properties.                                                             *)

Announced == Cardinality({ p \in Producers : pc[p] = "announced" })

\* A barrier that expects only announced pushes never waits for one that does
\* not come, and as long as nobody increased it between the moment it fired and
\* its reset, it does not fire without an announced one either: it expects
\* exactly those that are still to come, whenever the task resets it.
AnnouncedAwaited ==
    kind = "barrier" /\ startValue = 0 =>
       /\ counter <= Announced
       /\ ~late => counter = Announced

\* "If its increased, a larger number of push operations is expected."
\* (taskBarrier.h)  Of an increase before the reset the barrier knows nothing
\* any more afterwards.
IncreaseExpected ==
    kind = "barrier" /\ startValue = 0 => counter >= Announced

\* "After the minimum number of pushes has happened the barrier will activate
\* all associated inputs" (taskBarrier.h).  A barrier that has fired is opened
\* again by the task only, so it must not have fired in vain: the task does not
\* wait, or a producer is about to activate it.
NeverStuck ==
    kind = "barrier" /\ startValue > 0 /\ counter = 0 =>
       state # "WAIT" \/ protection # Nobody

\* The same for a synchronous input; without synchronization a notification
\* between the resets of the barrier and of the input is lost.
SynchronNeverStuck == synchron => NeverStuck

\* A barrier with a synchronous input begins another round after each one.
RoundsGoOn ==
    (kind = "barrier" /\ synchron /\ startValue > 0 /\ counter = 0) ~> (counter > 0)

\* The reference of a reader is not written to while one more message is sent,
\* a message that was being sent when it was read included.
ReferenceHolds ==
    ref # NoRef /\ (switches = 0 \/ (switches = 1 /\ pc[Writer] # "copied"))
       => data[ref] = seen

\* With a synchronous input the newest message is read at some time, although
\* it may be sent while the task still works on the one before.
NewestRead ==
    \A k \in 1..MaxPush :
       (kind # "barrier" /\ synchron /\ pushes = k) ~> (seen >= k)
=============================================================================
