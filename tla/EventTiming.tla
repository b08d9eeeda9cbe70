----------------------------- MODULE EventTiming -----------------------------
(***************************************************************************)
(* One event with its timing, and the schedule of triggers it may play.    *)
(*                                                                         *)
(* A thread of the application adds triggers to the schedule and programs  *)
(* the event, tasks reset it, and executors handle it when its time has    *)
(* come.  One step is one critical section of EventImpl::mutex, or what    *)
(* follows it in handle.  Of the clock queue only the place of this event  *)
(* is kept; ClockQueue models the list, which is destroyed when an event   *)
(* that is listed without being marked is started again: what comes after  *)
(* that is not modelled.                                                   *)
(***************************************************************************)
EXTENDS Integers, FiniteSetsExt, SequencesExt

CONSTANTS
    Executors,
    Periods, Delays,    \* arguments of the calls, Delays for relative timing
    Offsets,            \* of the triggers in their period
    MaxTriggers,        \* bound: triggers of the schedule
    MaxTime,            \* bound of the time
    MaxCalls            \* bound: calls of the application

ASSUME EventAssumption ==
    /\ Periods \subseteq Nat /\ Delays \subseteq Nat \ {0}
    /\ Offsets \subseteq Nat
    /\ MaxTriggers \in Nat /\ MaxTime \in Nat /\ MaxCalls \in Nat

Places == { "out", "queued", "unmarked" }
Stages == { "idle", "handle", "fire" }

VARIABLES
    configured, periodical, period,     \* period_ms is the delay of a reset, too
    due,            \* nextActivation_ms
    playing,        \* periodicSchedule is not null
    triggers,       \* offsets in the list of the schedule
    active,         \* position of activeTrigger, 0 for null
    base,           \* startTimeOffPeriod_ms
    place,          \* is the event in the clock queue, and marked as queued?
    now,
    stage,          \* place of each executor in EventImpl::handle
    calls,
    relinked,       \* the list of the clock is destroyed
    origin,         \* history: the offset that was programmed
    stopped,        \* history: the last call was stop, and found no handler
    raced,          \* history: the schedule was set while an executor handled
    lastFire,       \* history: time of the last push by handle
    played          \* history: the triggers of the schedule pushed last

timing == << configured, periodical, period >>
schedule == << playing, triggers, active, base >>
clock == << due, place, relinked >>
history == << origin, stopped, raced, lastFire, played >>
vars == << timing, schedule, clock, now, stage, calls, history >>

\* Types; and the list of the schedule is sorted.
TypeOK ==
    /\ configured \in BOOLEAN /\ periodical \in BOOLEAN /\ period \in Nat
    /\ due \in Int /\ base \in Int /\ origin \in Nat
    /\ playing \in BOOLEAN
    /\ triggers \in Seq(Nat)
    /\ \A j, k \in DOMAIN triggers : j < k => triggers[j] <= triggers[k]
    /\ active \in 0..Len(triggers)
    /\ playing => active # 0
    /\ place \in Places
    /\ now \in Nat /\ calls \in Nat
    /\ stage \in [Executors -> Stages]
    /\ relinked \in BOOLEAN /\ stopped \in BOOLEAN /\ raced \in BOOLEAN
    /\ lastFire \in Int
    /\ played \subseteq DOMAIN triggers

-----------------------------------------------------------------------------
(* The schedule of triggers.                                               *)

\* The triggers that sortIn steps over.  Only the head of the list is not
\* overtaken by a trigger with the same offset.
Earlier(list, offset) ==
    { k \in DOMAIN list : list[k] < offset \/ (k = 1 /\ list[k] = offset) }

SortPlace(list, offset) == Cardinality(Earlier(list, offset)) + 1

\* Mutant: the list is not searched behind its head.
SortIn_HeadOnly(list, offset) ==
    IF list # << >> /\ offset < list[1] THEN << offset >> \o list
    ELSE Append(list, offset)

\* PeriodicScheduleImpl::sortIn.
SortIn(list, offset) == InsertAt(list, SortPlace(list, offset), offset)

\* Mutant: only one trigger is pushed at a time.
PushTriggers_One == {active}

\* pushTriggers: the active trigger and all following ones of the same time.
PushTriggers == { k \in active..Len(triggers) : triggers[k] = triggers[active] }

\* The trigger that stepToNextTriggerOffset steps to.
StepFrom(k) == IF k = Len(triggers) THEN 1 ELSE k + 1

\* A new round begins one period later.
BaseFrom(k, start) ==
    IF k \in {0, Len(triggers)} THEN start + period' ELSE start

-----------------------------------------------------------------------------
(* The clock.                                                              *)

\* Clock::startAt and startIn of an event at the place p.  An event whose time
\* has come is put at the head of the list, and is not marked as queued: if it
\* is started again there, it is linked twice.
StartAt(p, t) ==
    IF p = "queued" THEN place' = p /\ UNCHANGED << due, relinked >>
    ELSE /\ place' = IF t > now THEN "queued" ELSE "unmarked"
         /\ due' = t
         /\ relinked' = (p = "unmarked")

\* The setters and trigger dequeue only an event that is marked.
Unqueued == IF place = "queued" THEN "out" ELSE place

-----------------------------------------------------------------------------
(* The application.                                                        *)

Call ==
    /\ calls < MaxCalls /\ ~relinked
    /\ calls' = calls + 1
    /\ UNCHANGED << now, stage, lastFire >>

Handling == \E e \in Executors : stage[e] = "handle"

\* PeriodicSchedule::add, which no mutex protects: the application calls it as
\* long as the event does not play the schedule.  activeTrigger stays at its
\* trigger.
AddTrigger(offset) ==
    /\ Call
    /\ ~playing
    /\ Len(triggers) < MaxTriggers
    /\ triggers' = SortIn(triggers, offset)
    /\ active' = IF SortPlace(triggers, offset) <= active THEN active + 1 ELSE active
    /\ played' = {}
    /\ UNCHANGED << timing, playing, base, clock, origin, stopped, raced >>

\* "Call this method only: from a constructor, when the scheduler is
\* initializing, or when the timer is stopped." (taskEvent.h)  An executor may
\* still be about to handle the event.
TimerIsStopped == ~configured

\* Mutant: a time that is over is not rounded up to the grid of the offset.
FirstActivation_FromNow(p, offset) ==
    IF now <= offset THEN offset ELSE IF p = 0 THEN now ELSE now + p

\* configurePeriodicTiming: the first time on the grid that is not over.
FirstActivation(p, offset) ==
    IF now <= offset THEN offset
    ELSE IF p = 0 THEN now ELSE offset + ((now - offset) \div p + 1) * p

ConfigurePeriodicTiming(p, offset) ==
    /\ period' = p
    /\ periodical' = (p > 0)
    /\ origin' = offset

SetPeriodicTiming(p, offset) ==
    /\ Call /\ TimerIsStopped
    /\ ConfigurePeriodicTiming(p, offset)
    /\ configured' = (p > 0)
    /\ playing' = FALSE
    /\ StartAt(Unqueued, FirstActivation(p, offset))
    /\ stopped' = FALSE /\ raced' = FALSE
    /\ UNCHANGED << triggers, active, base, played >>

\* Mutant: a schedule that does not start leaves the event configured.
SetPeriodicSchedule_Configured(p, offset) ==
    /\ Call /\ TimerIsStopped
    /\ triggers # << >>
    /\ ConfigurePeriodicTiming(p, offset)
    /\ configured' = TRUE
    /\ playing' = FALSE /\ place' = "out"
    /\ active' = StepFrom(active)
    /\ UNCHANGED << triggers, base, due, relinked, stopped, raced, played >>

\* The time of the first trigger is compared with the period; a negative one
\* is a very large number there.  Without a trigger in the period the event is
\* stopped, which leaves it periodical.
SetPeriodicSchedule(p, offset) ==
    LET start == BaseFrom(active, FirstActivation(p, offset) - p)
        first == start + triggers[StepFrom(active)]
        inPeriod == 0 <= first /\ first < p
    IN
    /\ Call /\ TimerIsStopped
    /\ triggers # << >>
    /\ ConfigurePeriodicTiming(p, offset)
    /\ active' = StepFrom(active)
    /\ base' = start
    /\ played' = {}
    /\ playing' = inPeriod
    /\ configured' = inPeriod
    /\ IF inPeriod
       THEN StartAt(Unqueued, first)
       ELSE /\ place' = "out" /\ due' = FirstActivation(p, offset)
            /\ UNCHANGED relinked
    /\ stopped' = (~inPeriod /\ ~Handling)
    /\ raced' = Handling
    /\ UNCHANGED triggers

\* A schedule without triggers is not played.
SetEmptySchedule ==
    /\ Call /\ TimerIsStopped
    /\ triggers = << >>
    /\ playing' = FALSE
    /\ place' = Unqueued
    /\ UNCHANGED << timing, triggers, active, base, due, relinked, origin, stopped,
                    raced, played >>

\* The event starts with the next reset; a schedule is not taken away.
SetRelativeTiming(d) ==
    /\ Call
    /\ place' = Unqueued
    /\ periodical' = FALSE
    /\ period' = d
    /\ configured' = TRUE
    /\ stopped' = FALSE
    /\ UNCHANGED << schedule, due, relinked, origin, raced, played >>

\* trigger with a delay.  Without one the event is not started but pushed.
Trigger(delay) ==
    /\ Call
    /\ ~configured
    /\ IF delay = 0
       THEN place' = Unqueued /\ UNCHANGED << due, relinked, stopped >>
       ELSE StartAt(Unqueued, now + delay) /\ stopped' = FALSE
    /\ UNCHANGED << timing, playing, triggers, active, base, origin, raced, played >>

\* Mutant: the timing stays configured.
Stop_Configured ==
    /\ Call
    /\ place' = "out"
    /\ playing' = FALSE
    /\ stopped' = ~Handling
    /\ UNCHANGED << timing, triggers, active, base, due, relinked, origin, raced,
                    played >>

Stop ==
    /\ Call
    /\ place' = "out"
    /\ configured' = FALSE
    /\ playing' = FALSE
    /\ stopped' = ~Handling
    /\ UNCHANGED << periodical, period, triggers, active, base, due, relinked,
                    origin, raced, played >>

\* reset of the event by a task it is connected to.
Reset ==
    /\ Call
    /\ configured /\ ~periodical
    /\ StartAt(Unqueued, now + period)
    /\ UNCHANGED << timing, playing, triggers, active, base, origin, stopped, raced,
                    played >>

-----------------------------------------------------------------------------
(* The executors.                                                          *)

\* handleEvents gets the event from the clock.
ReadPending(e) ==
    /\ stage[e] = "idle"
    /\ place # "out"
    /\ due <= now
    /\ place' = "out"
    /\ stage' = [stage EXCEPT ![e] = "handle"]
    /\ UNCHANGED << timing, schedule, due, relinked, now, calls, history >>

\* handle starts the event again, under its mutex.
NextPeriod(e) ==
    /\ stage[e] = "handle"
    /\ periodical /\ ~playing
    /\ StartAt(place, due + period)
    /\ stage' = [stage EXCEPT ![e] = "fire"]
    /\ UNCHANGED << timing, schedule, now, calls, history >>

PlaySchedule(e) ==
    LET last == Max(PushTriggers)
        start == BaseFrom(last, base)
    IN
    /\ stage[e] = "handle"
    /\ periodical /\ playing
    /\ played' = PushTriggers
    /\ lastFire' = now
    /\ period' = period
    /\ active' = StepFrom(last)
    /\ base' = start
    /\ StartAt(place, start + triggers[StepFrom(last)])
    /\ stage' = [stage EXCEPT ![e] = "fire"]
    /\ UNCHANGED << configured, periodical, playing, triggers, now, calls,
                    origin, stopped, raced >>

SingleShot(e) ==
    /\ stage[e] = "handle"
    /\ ~periodical
    /\ stage' = [stage EXCEPT ![e] = "fire"]
    /\ UNCHANGED << timing, schedule, clock, now, calls, history >>

\* Mutant: the inverted condition.
ShallFire_Inverted == playing

ShallFire == ~playing

\* The rest of handle, without the mutex.
Fire(e) ==
    /\ stage[e] = "fire"
    /\ stage' = [stage EXCEPT ![e] = "idle"]
    /\ lastFire' = IF ShallFire THEN now ELSE lastFire
    /\ UNCHANGED << timing, schedule, clock, now, calls, origin, stopped, raced,
                    played >>

Tick ==
    /\ now < MaxTime /\ ~relinked
    /\ now' = now + 1
    /\ UNCHANGED << timing, schedule, clock, stage, calls, history >>

-----------------------------------------------------------------------------
Init ==
    /\ configured = FALSE /\ periodical = FALSE /\ period = 0
    /\ due = 0
    /\ playing = FALSE /\ active = 0 /\ base = 0
    /\ triggers = << >>
    /\ place = "out"
    /\ now = 0
    /\ stage = [e \in Executors |-> "idle"]
    /\ calls = 0
    /\ relinked = FALSE
    /\ origin = 0 /\ stopped = FALSE /\ raced = FALSE
    /\ lastFire = -1 /\ played = {}

Times == 0..MaxTime

Application ==
    \/ \E o \in Offsets : AddTrigger(o)
    \/ \E p \in Periods, t \in Times :
          SetPeriodicTiming(p, t) \/ SetPeriodicSchedule(p, t)
    \/ SetEmptySchedule
    \/ \E d \in Delays : SetRelativeTiming(d) \/ Trigger(d)
    \/ Trigger(0)
    \/ Stop \/ Reset

Handle(e) ==
    /\ ~relinked
    /\ ReadPending(e) \/ NextPeriod(e) \/ PlaySchedule(e) \/ SingleShot(e) \/ Fire(e)

Next == Application \/ Tick \/ \E e \in Executors : Handle(e)

\* Time goes on, and the executors handle pending events.
Fairness == WF_vars(Tick) /\ \A e \in Executors : WF_vars(Handle(e))

Spec == Init /\ [][Next]_vars
FairSpec == Spec /\ Fairness

-----------------------------------------------------------------------------
(* Properties.                                                             *)

\* A periodic event never gets lost between two periods: it is in the clock,
\* or an executor is about to start it again, whoever stops, triggers or
\* resets it meanwhile.
PeriodicAlive ==
    configured /\ periodical => place # "out" \/ Handling

IsOnGrid ==
    LET at == IF playing THEN due - triggers[active] ELSE due
    IN  (at - origin) % period = 0

\* The period does not drift: however late the event is handled, it is due at
\* the programmed offset plus a multiple of the period, or, for a schedule,
\* the offset of the next trigger after that, unless this schedule was set
\* while an executor had still to handle the event.
OnGrid ==
    configured /\ periodical /\ place # "out" /\ (playing => ~raced) => IsOnGrid

\* "If the offset is in the past, the method computes the next time point in
\* the future by adding a multiple of the period to the offset." (taskEvent.h,
\* setPeriodicSchedule)
ScheduleOnGrid == configured /\ periodical /\ place # "out" => IsOnGrid

\* The triggers of a schedule are played in turn: the next one is the first
\* one with a later offset, or, at the end of the round, the earliest of all.
TriggersInTurn ==
    playing /\ played # {} =>
       LET later == { triggers[k] : k \in { j \in DOMAIN triggers :
                                  \A i \in played : triggers[j] > triggers[i] } }
       IN  triggers[active] = Min(IF later = {} THEN Range(triggers) ELSE later)

\* "If triggers are in the schedule with an bigger offset than the period of
\* the event, these triggers will not fired." (taskEvent.h)
BeyondPeriodSilent ==
    playing /\ ~raced => \A k \in played : triggers[k] <= period

\* "The event will not fire until a new timing is programmed to the task
\* event." (taskEvent.h, stop): the clock has it no more, whatever tasks reset
\* it, unless an executor was handling it when it was stopped.
StopIsFinal == stopped => place = "out" /\ ~Handling

\* A periodic event fires for every period, or plays its triggers, as long as
\* the timing is not changed and the list of the clock is not destroyed.
PeriodServed ==
    \A t \in Times :
       (configured /\ periodical /\ place # "out" /\ due = t)
          ~> (lastFire >= t \/ ~ (configured /\ periodical) \/ relinked)
=============================================================================
