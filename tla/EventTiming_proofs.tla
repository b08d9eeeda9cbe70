------------------------- MODULE EventTiming_proofs -------------------------
(***************************************************************************)
(* Proofs that a periodic event does not get lost between two periods,     *)
(* that stop is final, that its start times do not drift from the grid of  *)
(* the period and the offset, and that a schedule is sorted and its        *)
(* triggers come in turn, for any number of executors, any times, any      *)
(* schedules and any order in which their triggers are added.              *)
(***************************************************************************)
EXTENDS EventTiming, TLAPS, FiniteSetTheorems, WellFoundedInduction,
        SequenceTheorems

USE DEF timing, schedule, clock, history

\* A stopped event is not configured, so that no reset starts it.
StoppedIsOut == stopped => place = "out" /\ ~Handling /\ ~configured

EventInv ==
    /\ stage \in [Executors -> Stages]
    /\ PeriodicAlive
    /\ StoppedIsOut

\* The event is not configured at the beginning.
LEMMA EventInit == Init => EventInv
  BY DEF Init, EventInv, PeriodicAlive, StoppedIsOut, Stages, Handling

\* The calls of the application.
LEMMA CallStep ==
    ASSUME EventInv, Application
    PROVE  EventInv'
  <1> USE DEF EventInv, Call
  <1>0. ASSUME UNCHANGED stage
        PROVE  Handling' <=> Handling
    BY <1>0 DEF Handling
  <1>1. ASSUME NEW p, NEW t, SetPeriodicTiming(p, t)
        PROVE  EventInv'
    <2>1. place' # "out"
      BY <1>1 DEF SetPeriodicTiming, StartAt, Unqueued
    <2> QED
      BY <1>1, <2>1 DEF SetPeriodicTiming, PeriodicAlive, StoppedIsOut
  <1>2. ASSUME NEW p, NEW t, SetPeriodicSchedule(p, t)
        PROVE  EventInv'
    <2>1. (Handling' <=> Handling) /\ stopped' = (~playing' /\ ~Handling)
          /\ configured' = playing' /\ stage' = stage
      BY <1>2, <1>0 DEF SetPeriodicSchedule
    <2>2. CASE playing'
      BY <1>2, <2>1, <2>2 DEF SetPeriodicSchedule, StartAt, PeriodicAlive, StoppedIsOut
    <2>3. CASE ~playing'
      BY <1>2, <2>1, <2>3 DEF SetPeriodicSchedule, PeriodicAlive, StoppedIsOut
    <2> QED
      BY <2>2, <2>3
  <1>3. CASE SetEmptySchedule
    BY <1>3, <1>0 DEF SetEmptySchedule, TimerIsStopped, Unqueued, PeriodicAlive,
                      StoppedIsOut
  <1>4. ASSUME NEW d, SetRelativeTiming(d)
        PROVE  EventInv'
    BY <1>4 DEF SetRelativeTiming, PeriodicAlive, StoppedIsOut
  <1>5. ASSUME NEW d, Trigger(d)
        PROVE  EventInv'
    BY <1>5, <1>0 DEF Trigger, Unqueued, PeriodicAlive, StoppedIsOut
  <1>6. CASE Stop
    BY <1>6, <1>0 DEF Stop, PeriodicAlive, StoppedIsOut
  <1>7. CASE Reset
    BY <1>7 DEF Reset, PeriodicAlive, StoppedIsOut
  <1>8. ASSUME NEW o, AddTrigger(o)
        PROVE  EventInv'
    BY <1>8, <1>0 DEF AddTrigger, PeriodicAlive, StoppedIsOut
  <1> QED
    BY <1>1, <1>2, <1>3, <1>4, <1>5, <1>6, <1>7, <1>8 DEF Application

\* The steps of the executors.  One that takes the event out of the clock
\* handles it until it has put it back.
LEMMA HandleStep ==
    ASSUME EventInv, NEW e \in Executors, Handle(e)
    PROVE  EventInv'
  <1> USE DEF EventInv
  <1>1. CASE ReadPending(e)
    <2>1. stage' \in [Executors -> Stages] /\ Handling'
      BY <1>1 DEF ReadPending, Handling, Stages
    <2> QED
      BY <1>1, <2>1 DEF ReadPending, PeriodicAlive, StoppedIsOut
  <1>2. ASSUME NextPeriod(e) \/ PlaySchedule(e)
        PROVE  EventInv'
    <2>1. Handling /\ ~stopped /\ stopped' = stopped
      BY <1>2 DEF NextPeriod, PlaySchedule, Handling, StoppedIsOut
    <2>2. stage' \in [Executors -> Stages]
      BY <1>2 DEF NextPeriod, PlaySchedule, Stages
    <2>3. place' # "out"
      BY <1>2 DEF NextPeriod, PlaySchedule, StartAt
    <2> QED
      BY <2>1, <2>2, <2>3 DEF PeriodicAlive, StoppedIsOut
  <1>3. CASE SingleShot(e)
    <2>1. Handling /\ ~stopped
      BY <1>3 DEF SingleShot, Handling, StoppedIsOut
    <2>2. stage' \in [Executors -> Stages]
      BY <1>3 DEF SingleShot, Stages
    <2> QED
      BY <1>3, <2>1, <2>2 DEF SingleShot, PeriodicAlive, StoppedIsOut
  <1>4. CASE Fire(e)
    <2>1. stage' \in [Executors -> Stages]
      BY <1>4 DEF Fire, Stages
    <2>2. Handling' <=> Handling
      BY <1>4 DEF Fire, Handling
    <2> QED
      BY <1>4, <2>1, <2>2 DEF Fire, PeriodicAlive, StoppedIsOut
  <1> QED
    BY <1>1, <1>2, <1>3, <1>4 DEF Handle

\* Each step of the event preserves the invariant.
LEMMA EventStep == EventInv /\ [Next]_vars => EventInv'
  <1>1. ASSUME EventInv, Tick \/ UNCHANGED vars
        PROVE  EventInv'
    BY <1>1 DEF Tick, vars, EventInv, PeriodicAlive, StoppedIsOut, Handling
  <1> QED
    BY <1>1, CallStep, HandleStep DEF Next

\* EventInv is an invariant of the event.
LEMMA EventInvariant == Spec => []EventInv
  BY EventInit, EventStep, PTL DEF Spec

\* Between two periods the event is in the clock or about to be put back.
THEOREM NeverLost == Spec => []PeriodicAlive
  <1>1. EventInv => PeriodicAlive
    BY DEF EventInv
  <1> QED
    BY <1>1, EventInvariant, PTL

\* After stop, unless it met a handler, the clock does not have the event.
THEOREM StopHolds == Spec => []StopIsFinal
  <1>1. EventInv => StopIsFinal
    BY DEF EventInv, StoppedIsOut, StopIsFinal
  <1> QED
    BY <1>1, EventInvariant, PTL
-----------------------------------------------------------------------------
(* The list of triggers.                                                   *)

\* A nonempty set of numbers has a least one.
LEMMA LeastNumber ==
    ASSUME NEW T \in SUBSET Nat, T # {}
    PROVE  \E x \in T : \A y \in T : x <= y
  <1>1. PICK x \in T : \A y \in T : << y, x >> \notin OpToRel(<, Nat)
    BY WFMin, NatLessThanWellFounded, Zenon
  <1>2. ASSUME NEW y \in T
        PROVE  x <= y
    <2>1. << y, x >> \notin OpToRel(<, Nat)
      BY <1>1, <1>2
    <2>2. x \in Nat /\ y \in Nat
      BY <1>1, <1>2
    <2>3. ~ (y < x)
      BY <2>1, <2>2 DEF OpToRel
    <2> QED
      BY <2>2, <2>3
  <1> QED
    BY <1>2

\* A nonempty set of positions has a last one.
LEMMA LastPosition ==
    ASSUME NEW n \in Nat, NEW S \in SUBSET (0..n), S # {}
    PROVE  /\ Max(S) \in S
           /\ \A k \in S : k <= Max(S)
  <1> DEFINE T == { n - k : k \in S }
  <1>1. T \in SUBSET Nat /\ T # {}
    <2>1. \A k \in S : k \in Nat /\ n - k \in Nat
      OBVIOUS
    <2> QED
      BY <2>1
  <1>2. PICK t \in T : \A y \in T : t <= y
    BY <1>1, LeastNumber
  <1>3. PICK m \in S : t = n - m
    BY <1>2
  <1>4. ASSUME NEW k \in S
        PROVE  m >= k
    <2>1. n - k \in T
      OBVIOUS
    <2>2. t <= n - k
      BY <1>2, <2>1
    <2>3. k \in Nat /\ m \in Nat
      BY <1>3
    <2> QED
      BY <1>3, <2>2, <2>3
  <1>5. Max(S) \in S /\ \A k \in S : Max(S) >= k
    BY <1>4 DEF Max
  <1>6. ASSUME NEW k \in S
        PROVE  k <= Max(S)
    <2>1. k \in 0..n /\ Max(S) \in 0..n
      BY <1>5
    <2>2. Max(S) >= k
      BY <1>5
    <2> QED
      BY <2>1, <2>2
  <1> QED
    BY <1>5, <1>6

\* A list of offsets in the order the triggers are played.
Sorted(list) == \A j, k \in DOMAIN list : j < k => list[j] <= list[k]

\* The triggers that are not later than the new one are the first ones of a
\* sorted list.
LEMMA EarlierIsPrefix ==
    ASSUME NEW list \in Seq(Nat), Sorted(list), NEW offset \in Nat
    PROVE  \E m \in 0..Len(list) :
              Earlier(list, offset) = 1..m /\ SortPlace(list, offset) = m + 1
  <1> DEFINE T == { k \in Nat : k # 0 /\ k \notin Earlier(list, offset) }
  <1>0. Len(list) \in Nat /\ DOMAIN list = 1..Len(list)
        /\ \A k \in DOMAIN list : list[k] \in Nat
    OBVIOUS
  <1>1. Len(list) + 1 \in T
    BY <1>0 DEF Earlier
  <1>2. PICK n \in T : \A y \in T : n <= y
    BY <1>1, LeastNumber
  <1>3. n \in 1..(Len(list) + 1)
    BY <1>0, <1>1, <1>2
  <1>4. ASSUME NEW k \in 1..(n - 1)
        PROVE  k \in Earlier(list, offset)
    <2>1. k \in Nat /\ k # 0 /\ n \in Nat
      BY <1>3
    <2>2. ~ (n <= k)
      BY <2>1
    <2> QED
      BY <1>2, <2>1, <2>2
  <1>5. ASSUME NEW k \in Earlier(list, offset)
        PROVE  k \in 1..(n - 1)
    <2>1. k \in DOMAIN list /\ k # n
      BY <1>2 DEF Earlier
    <2>2. ASSUME n < k
          PROVE  FALSE
      <3>1. n \in DOMAIN list
        BY <1>0, <1>3, <2>1, <2>2
      <3>2. list[k] < offset
        BY <1>0, <1>3, <2>1, <2>2 DEF Earlier
      <3>3. list[n] <= list[k]
        BY <2>1, <2>2, <3>1 DEF Sorted
      <3>4. list[n] < offset
        BY <1>0, <2>1, <3>1, <3>2, <3>3
      <3> QED
        BY <1>2, <3>1, <3>4 DEF Earlier
    <2> QED
      BY <1>0, <1>3, <2>1, <2>2
  <1>6. Earlier(list, offset) = 1..(n - 1)
    BY <1>4, <1>5
  <1>7. n - 1 \in 0..Len(list)
    BY <1>0, <1>3
  <1>8. Cardinality(1..(n - 1)) = n - 1
    <2>1. n - 1 \in Nat
      BY <1>3
    <2>2. Cardinality(1..(n - 1)) = IF 1 > n - 1 THEN 0 ELSE n - 1 - 1 + 1
      BY <2>1, FS_Interval
    <2> QED
      BY <2>1, <2>2
  <1> QED
    BY <1>6, <1>7, <1>8 DEF SortPlace

\* A trigger is inserted at its place, the list stays sorted.
LEMMA SortInSorts ==
    ASSUME NEW list \in Seq(Nat), Sorted(list), NEW offset \in Nat
    PROVE  /\ SortIn(list, offset) \in Seq(Nat)
           /\ Len(SortIn(list, offset)) = Len(list) + 1
           /\ SortPlace(list, offset) \in 1..(Len(list) + 1)
           /\ Sorted(SortIn(list, offset))
  <1>1. PICK m \in 0..Len(list) :
           Earlier(list, offset) = 1..m /\ SortPlace(list, offset) = m + 1
    BY EarlierIsPrefix
  <1>2. PICK longer : longer = SortIn(list, offset)
    OBVIOUS
  <1>3. PICK front, behind :
           front = SubSeq(list, 1, m) /\ behind = SubSeq(list, m + 1, Len(list))
    OBVIOUS
  <1>a. m \in Nat /\ m <= Len(list) /\ Len(list) \in Nat
    BY <1>1
  <1>b. /\ front \in Seq(Nat) /\ Len(front) = m
        /\ \A k \in 1..m : front[k] = list[k]
    BY <1>3, <1>a, SubSeqProperties
  <1>c. /\ behind \in Seq(Nat) /\ Len(behind) = Len(list) - m
        /\ \A k \in 1..(Len(list) - m) : behind[k] = list[m + k]
    BY <1>3, <1>a, SubSeqProperties
  <1>d. longer = (front \o << offset >>) \o behind
    <2>1. PICK i : i = SortPlace(list, offset)
      OBVIOUS
    <2>2. longer = SubSeq(list, 1, i - 1) \o << offset >> \o SubSeq(list, i, Len(list))
      BY <1>2, <2>1, Zenon DEF SortIn, InsertAt
    <2>3. i = m + 1 /\ i - 1 = m
      BY <1>1, <1>a, <2>1
    <2> QED
      BY <1>3, <2>2, <2>3, Zenon
  <1>e. PICK upTo : upTo = front \o << offset >>
    OBVIOUS
  <1>f. /\ upTo \in Seq(Nat) /\ Len(upTo) = m + 1
        /\ \A k \in 1..(m + 1) : upTo[k] = IF k <= m THEN front[k] ELSE offset
    <2>1. PICK one : one = << offset >>
      OBVIOUS
    <2>2. one \in Seq(Nat) /\ Len(one) = 1 /\ one[1] = offset
      BY <2>1
    <2>3. /\ upTo \in Seq(Nat) /\ Len(upTo) = Len(front) + Len(one)
          /\ \A k \in 1..(Len(front) + Len(one)) :
                upTo[k] = IF k <= Len(front) THEN front[k] ELSE one[k - Len(front)]
      BY <1>b, <1>e, <2>1, <2>2, ConcatProperties
    <2>4. ASSUME NEW k \in 1..(m + 1)
          PROVE  upTo[k] = IF k <= m THEN front[k] ELSE offset
      <3>1. CASE k <= m
        BY <3>1, <1>a, <1>b, <2>2, <2>3
      <3>2. CASE k = m + 1
        <4>1. k - m = 1 /\ ~ (k <= m) /\ k \in 1..(Len(front) + Len(one))
          BY <3>2, <1>a, <1>b, <2>2
        <4> QED
          BY <4>1, <1>b, <2>2, <2>3
      <3> QED
        BY <3>1, <3>2, <1>a
    <2> QED
      BY <1>a, <1>b, <2>2, <2>3, <2>4
  <1>4. /\ longer \in Seq(Nat)
        /\ Len(longer) = Len(list) + 1
        /\ \A k \in 1..(Len(list) + 1) :
              longer[k] = IF k <= m + 1 THEN upTo[k] ELSE behind[k - (m + 1)]
    <2>1. longer = upTo \o behind
      BY <1>d, <1>e
    <2>2. /\ longer \in Seq(Nat) /\ Len(longer) = Len(upTo) + Len(behind)
          /\ \A k \in 1..(Len(upTo) + Len(behind)) :
                longer[k] = IF k <= Len(upTo) THEN upTo[k] ELSE behind[k - Len(upTo)]
      BY <1>c, <1>f, <2>1, ConcatProperties
    <2>3. Len(upTo) + Len(behind) = Len(list) + 1
      BY <1>a, <1>c, <1>f
    <2> QED
      BY <1>f, <2>2, <2>3
  <1>5. /\ \A k \in 1..m : longer[k] = list[k]
        /\ longer[m + 1] = offset
        /\ \A k \in (m + 2)..(Len(list) + 1) : longer[k] = list[k - 1]
    <2>1. ASSUME NEW k \in 1..m
          PROVE  longer[k] = list[k]
      <3>1. k \in 1..(m + 1) /\ k \in 1..(Len(list) + 1) /\ k <= m /\ k <= m + 1
        BY <1>a
      <3> QED
        BY <3>1, <1>4, <1>b, <1>f
    <2>2. longer[m + 1] = offset
      <3>1. m + 1 \in 1..(m + 1) /\ m + 1 \in 1..(Len(list) + 1) /\ ~ (m + 1 <= m)
        BY <1>a
      <3> QED
        BY <3>1, <1>4, <1>f
    <2>3. ASSUME NEW k \in (m + 2)..(Len(list) + 1)
          PROVE  longer[k] = list[k - 1]
      <3>1. /\ k - (m + 1) \in 1..(Len(list) - m) /\ m + (k - (m + 1)) = k - 1
            /\ k \in 1..(Len(list) + 1) /\ ~ (k <= m + 1)
        BY <1>a
      <3> QED
        BY <3>1, <1>4, <1>c
    <2> QED
      BY <2>1, <2>2, <2>3
  <1>6. \A k \in 1..m : list[k] \in Nat /\ list[k] <= offset
    BY <1>1 DEF Earlier
  <1>7. \A k \in (m + 1)..Len(list) : list[k] \in Nat /\ offset <= list[k]
    <2>1. ASSUME NEW k \in (m + 1)..Len(list)
          PROVE  list[k] \in Nat /\ offset <= list[k]
      <3>1. k \in 1..Len(list) /\ k \notin 1..m /\ list[k] \in Nat
        BY <1>a
      <3> QED
        BY <1>1, <3>1 DEF Earlier
    <2> QED
      BY <2>1
  <1>8. ASSUME NEW j \in DOMAIN longer, NEW k \in DOMAIN longer, j < k
        PROVE  longer[j] <= longer[k]
    <2>0. /\ j \in 1..(Len(list) + 1) /\ k \in 1..(Len(list) + 1)
          /\ m \in Nat /\ m <= Len(list) /\ Len(list) \in Nat
      BY <1>1, <1>4
    <2>s. \A x, y \in DOMAIN list : x < y => list[x] <= list[y]
      BY DEF Sorted
    <2>1. CASE k <= m
      <3>1. j \in 1..m /\ k \in 1..m /\ j \in DOMAIN list /\ k \in DOMAIN list
        BY <2>0, <2>1, <1>8
      <3> QED
        BY <3>1, <2>s, <1>5, <1>8
    <2>2. CASE j <= m /\ k = m + 1
      BY <2>0, <2>2, <1>5, <1>6, SMTT(30)
    <2>3. CASE j <= m /\ m + 1 < k
      <3>1. j \in 1..m /\ k - 1 \in (m + 1)..Len(list) /\ k \in (m + 2)..(Len(list) + 1)
        BY <2>0, <2>3
      <3>2. longer[j] = list[j] /\ longer[k] = list[k - 1]
        BY <3>1, <1>5
      <3>3. list[j] <= offset /\ offset <= list[k - 1] /\ list[j] \in Nat
            /\ list[k - 1] \in Nat
        BY <3>1, <1>6, <1>7
      <3> QED
        BY <3>2, <3>3
    <2>4. CASE j = m + 1
      <3>1. k - 1 \in (m + 1)..Len(list) /\ k \in (m + 2)..(Len(list) + 1)
        BY <2>0, <2>4, <1>8
      <3>2. longer[k] = list[k - 1]
        BY <3>1, <1>5
      <3> QED
        BY <3>1, <3>2, <2>4, <1>5, <1>7
    <2>5. CASE m + 1 < j
      <3>1. /\ j \in (m + 2)..(Len(list) + 1) /\ k \in (m + 2)..(Len(list) + 1)
            /\ j - 1 \in DOMAIN list /\ k - 1 \in DOMAIN list /\ j - 1 < k - 1
        BY <2>0, <2>5, <1>8
      <3>2. longer[j] = list[j - 1] /\ longer[k] = list[k - 1]
        BY <3>1, <1>5
      <3> QED
        BY <3>1, <3>2, <2>s
    <2> QED
      BY <2>0, <2>1, <2>2, <2>3, <2>4, <2>5, <1>8
  <1> QED
    BY <1>1, <1>2, <1>4, <1>8 DEF Sorted


\* The least member of a set is its minimum.
LEMMA MinIsLeast ==
    ASSUME NEW S \in SUBSET Nat, NEW m \in S, \A y \in S : m <= y
    PROVE  Min(S) = m
  <1>1. Min(S) \in S /\ \A y \in S : Min(S) <= y
    BY DEF Min
  <1>2. Min(S) \in Nat /\ m \in Nat /\ Min(S) <= m /\ m <= Min(S)
    BY <1>1
  <1> QED
    BY <1>2

-----------------------------------------------------------------------------
(* Types.                                                                  *)

\* The position behind an active trigger is one of the list.
LEMMA StepInList ==
    ASSUME triggers \in Seq(Nat), triggers # << >>, NEW k \in 0..Len(triggers)
    PROVE  StepFrom(k) \in 1..Len(triggers)
  <1>1. Len(triggers) \in Nat /\ Len(triggers) # 0
    BY EmptySeq
  <1> QED
    BY <1>1 DEF StepFrom

\* The last trigger that is pushed.
LEMMA LastPushed ==
    ASSUME triggers \in Seq(Nat), active \in 1..Len(triggers)
    PROVE  /\ Max(PushTriggers) \in PushTriggers
           /\ \A k \in PushTriggers : k <= Max(PushTriggers)
           /\ PushTriggers \subseteq active..Len(triggers)
  <1>1. Len(triggers) \in Nat
    OBVIOUS
  <1>2. PushTriggers \in SUBSET (0..Len(triggers)) /\ active \in PushTriggers
    BY <1>1 DEF PushTriggers
  <1>3. PushTriggers \subseteq active..Len(triggers)
    BY DEF PushTriggers
  <1> QED
    BY <1>1, <1>2, <1>3, LastPosition

\* The conjuncts of TypeOK in four parts.
Flags ==
    /\ configured \in BOOLEAN /\ periodical \in BOOLEAN /\ playing \in BOOLEAN
    /\ relinked \in BOOLEAN /\ stopped \in BOOLEAN /\ raced \in BOOLEAN

Numbers ==
    /\ period \in Nat /\ due \in Int /\ base \in Int /\ origin \in Nat
    /\ now \in Nat /\ calls \in Nat /\ lastFire \in Int

ListOK ==
    /\ triggers \in Seq(Nat)
    /\ Sorted(triggers)
    /\ active \in 0..Len(triggers)
    /\ playing => active # 0
    /\ played \subseteq DOMAIN triggers

Positions == place \in Places /\ stage \in [Executors -> Stages]

\* The type invariant by its parts.
LEMMA TypeParts == TypeOK <=> Flags /\ Numbers /\ ListOK /\ Positions
  BY DEF TypeOK, Flags, Numbers, ListOK, Positions, Sorted

\* The list of the first state is empty.
LEMMA TypeInit == Init => TypeOK
  <1> SUFFICES ASSUME Init
               PROVE  Flags /\ Numbers /\ ListOK /\ Positions
    BY TypeParts
  <1>1. << >> \in Seq(Nat) /\ Len(<< >>) = 0 /\ DOMAIN << >> = {}
    OBVIOUS
  <1>2. ListOK
    BY <1>1 DEF Init, ListOK, Sorted
  <1>3. Positions
    BY DEF Init, Stages, Places, Positions
  <1>4. Flags
    BY Zenon DEF Init, Flags
  <1>5. Numbers
    BY DEF Init, Numbers
  <1> QED
    BY <1>2, <1>3, <1>4, <1>5

\* The first time on the grid is a number.
LEMMA FirstActivationType ==
    ASSUME now \in Nat, NEW p \in Nat, NEW offset \in Nat
    PROVE  FirstActivation(p, offset) \in Int
  BY DEF FirstActivation

\* What the calls and the steps of the executors have in common.
LEMMA StartedType ==
    ASSUME Flags, Numbers, Positions, NEW q \in Places, NEW t \in Int, StartAt(q, t)
    PROVE  place' \in Places /\ due' \in Int /\ relinked' \in BOOLEAN
  BY DEF StartAt, Places, Numbers, Flags

\* An event that leaves the clock queue has a place.
LEMMA UnqueuedType == Positions => Unqueued \in Places
  BY DEF Unqueued, Places, Positions

\* The rest of the type invariant depends on the schedule only.
LEMMA SameList ==
    ASSUME ListOK, UNCHANGED << triggers, active >>, playing' => playing,
           played' = played \/ played' = {}
    PROVE  ListOK'
  BY DEF ListOK, Sorted

\* The calls of the application keep the types.
LEMMA TypeCall ==
    ASSUME Flags, Numbers, ListOK, Positions, Application
    PROVE  Flags' /\ Numbers' /\ ListOK' /\ Positions'
  <1> USE EventAssumption DEF Call
  <1>n. now \in Nat
    BY DEF Numbers
  <1>u. Unqueued \in Places
    BY UnqueuedType
  <1>1. ASSUME NEW p \in Periods, NEW t \in Times, SetPeriodicTiming(p, t)
        PROVE  Flags' /\ Numbers' /\ ListOK' /\ Positions'
    <2>1. p \in Nat /\ t \in Nat
      BY DEF Times
    <2>2. PICK first : first = FirstActivation(p, t)
      OBVIOUS
    <2>3. first \in Int /\ StartAt(Unqueued, first)
      BY <1>1, <1>n, <2>1, <2>2, FirstActivationType DEF SetPeriodicTiming
    <2>4. place' \in Places /\ due' \in Int /\ relinked' \in BOOLEAN
      BY <2>3, <1>u, StartedType
    <2>5. Flags'
      <3>1. (p > 0) \in BOOLEAN
        OBVIOUS
      <3>2. /\ configured' = (p > 0) /\ periodical' = (p > 0)
            /\ playing' = FALSE /\ stopped' = FALSE
        BY <1>1, Zenon DEF SetPeriodicTiming, ConfigurePeriodicTiming
      <3>3. relinked' \in BOOLEAN /\ raced' = FALSE
        BY <1>1, <2>4 DEF SetPeriodicTiming
      <3> QED
        BY <3>1, <3>2, <3>3, Zenon DEF Flags
    <2>6. Numbers'
      BY <1>1, <2>1, <2>4 DEF SetPeriodicTiming, ConfigurePeriodicTiming, Numbers
    <2>7. ListOK'
      BY <1>1, SameList DEF SetPeriodicTiming
    <2> QED
      BY <1>1, <2>4, <2>5, <2>6, <2>7 DEF SetPeriodicTiming, Positions
  <1>2. ASSUME NEW p \in Periods, NEW t \in Times, SetPeriodicSchedule(p, t)
        PROVE  Flags' /\ Numbers' /\ ListOK' /\ Positions'
    <2>1. p \in Nat /\ t \in Nat
      BY DEF Times
    <2>2. PICK first : first = FirstActivation(p, t)
      OBVIOUS
    <2>3. first \in Int
      BY <1>n, <2>1, <2>2, FirstActivationType
    <2>4. PICK k : k = StepFrom(active)
      OBVIOUS
    <2>5. k \in 1..Len(triggers) /\ triggers[k] \in Nat
      BY <1>2, <2>4, StepInList, SMTT(30) DEF SetPeriodicSchedule, ListOK
    <2>6. PICK start : start = BaseFrom(active, first - p)
      OBVIOUS
    <2>7. period' = p /\ origin' = t
      BY <1>2 DEF SetPeriodicSchedule, ConfigurePeriodicTiming
    <2>8. start \in Int
      BY <2>1, <2>3, <2>6, <2>7 DEF BaseFrom
    <2>9. base' = start /\ active' = k
      BY <1>2, <2>2, <2>4, <2>6 DEF SetPeriodicSchedule
    <2>10. place' \in Places /\ due' \in Int /\ relinked' \in BOOLEAN
      <3>1. CASE playing'
        <4>1. StartAt(Unqueued, start + triggers[k])
          BY <1>2, <3>1, <2>2, <2>4, <2>6 DEF SetPeriodicSchedule
        <4> QED
          BY <4>1, <1>u, <2>5, <2>8, StartedType
      <3>2. CASE ~playing'
        BY <1>2, <3>2, <2>2, <2>3, <2>4, <2>6 DEF SetPeriodicSchedule, Places, Flags
      <3> QED
        BY <3>1, <3>2
    <2>11. /\ playing' \in BOOLEAN /\ configured' \in BOOLEAN /\ stopped' \in BOOLEAN
           /\ raced' \in BOOLEAN
      BY <1>2 DEF SetPeriodicSchedule, Handling
    <2>12. Flags'
      BY <1>2, <2>10, <2>11 DEF SetPeriodicSchedule, ConfigurePeriodicTiming, Flags
    <2>13. UNCHANGED << now, stage, lastFire, triggers >> /\ calls' = calls + 1
           /\ played' = {}
      BY <1>2 DEF SetPeriodicSchedule
    <2>14. Numbers'
      BY <2>1, <2>7, <2>8, <2>9, <2>10, <2>13 DEF Numbers
    <2>15. ListOK'
      BY <2>5, <2>9, <2>13 DEF ListOK, Sorted
    <2> QED
      BY <2>10, <2>12, <2>13, <2>14, <2>15 DEF Positions
  <1>3. CASE SetEmptySchedule
    <2>1. ListOK'
      BY <1>3, SameList DEF SetEmptySchedule
    <2>2. Flags'
      BY <1>3, Zenon DEF SetEmptySchedule, Flags, timing
    <2>3. Numbers'
      BY <1>3 DEF SetEmptySchedule, Numbers
    <2>4. Positions'
      BY <1>3, <1>u DEF SetEmptySchedule, Positions
    <2> QED
      BY <2>1, <2>2, <2>3, <2>4
  <1>4. ASSUME NEW d \in Delays, SetRelativeTiming(d)
        PROVE  Flags' /\ Numbers' /\ ListOK' /\ Positions'
    <2>1. ListOK'
      BY <1>4, SameList DEF SetRelativeTiming
    <2>2. Flags'
      BY <1>4, Zenon DEF SetRelativeTiming, Flags, schedule
    <2>3. Numbers'
      BY <1>4 DEF SetRelativeTiming, Numbers
    <2>4. Positions'
      BY <1>4, <1>u DEF SetRelativeTiming, Positions
    <2> QED
      BY <2>1, <2>2, <2>3, <2>4
  <1>5. ASSUME NEW d \in Nat, Trigger(d)
        PROVE  Flags' /\ Numbers' /\ ListOK' /\ Positions'
    <2>1. ListOK'
      BY <1>5, SameList DEF Trigger
    <2>2. place' \in Places /\ due' \in Int /\ relinked' \in BOOLEAN /\ stopped' \in BOOLEAN
      <3>1. CASE d = 0
        BY <1>5, <3>1, <1>u DEF Trigger, Flags, Numbers
      <3>2. CASE d # 0
        <4>1. PICK t : t = now + d
          OBVIOUS
        <4>2. StartAt(Unqueued, t) /\ stopped' = FALSE
          BY <1>5, <3>2, <4>1 DEF Trigger
        <4>3. t \in Int
          BY <1>n, <4>1
        <4>4. place' \in Places /\ due' \in Int /\ relinked' \in BOOLEAN
          BY <1>u, <4>2, <4>3, StartedType
        <4> QED
          BY <4>2, <4>4
      <3> QED
        BY <3>1, <3>2
    <2> QED
      BY <1>5, <2>1, <2>2 DEF Trigger, Flags, Numbers, Positions
  <1>6. CASE Stop
    <2>1. ListOK'
      BY <1>6, SameList DEF Stop
    <2>2. stopped' \in BOOLEAN
      BY <1>6 DEF Stop, Handling
    <2>3. Flags'
      BY <1>6, <2>2, Zenon DEF Stop, Flags
    <2>4. Numbers'
      BY <1>6 DEF Stop, Numbers
    <2>5. Positions'
      BY <1>6 DEF Stop, Positions, Places
    <2> QED
      BY <2>1, <2>3, <2>4, <2>5
  <1>7. CASE Reset
    <2>1. ListOK'
      BY <1>7, SameList DEF Reset
    <2>2. PICK t : t = now + period
      OBVIOUS
    <2>3. t \in Int /\ StartAt(Unqueued, t)
      BY <1>7, <2>2 DEF Reset, Numbers
    <2>4. place' \in Places /\ due' \in Int /\ relinked' \in BOOLEAN
      BY <1>u, <2>3, StartedType
    <2> QED
      BY <1>7, <2>1, <2>4 DEF Reset, Flags, Numbers, Positions
  <1>8. ASSUME NEW o \in Offsets, AddTrigger(o)
        PROVE  Flags' /\ Numbers' /\ ListOK' /\ Positions'
    <2>1. /\ triggers' = SortIn(triggers, o)
          /\ active' = IF SortPlace(triggers, o) <= active THEN active + 1 ELSE active
          /\ playing' = playing /\ ~playing /\ played' = {}
      BY <1>8 DEF AddTrigger
    <2>2. triggers \in Seq(Nat) /\ Sorted(triggers) /\ active \in 0..Len(triggers)
      BY DEF ListOK
    <2>3. /\ triggers' \in Seq(Nat) /\ Len(triggers') = Len(triggers) + 1
          /\ SortPlace(triggers, o) \in 1..(Len(triggers) + 1)
          /\ Sorted(triggers')
      BY <2>1, <2>2, SortInSorts
    <2>4. active' \in 0..Len(triggers')
      BY <2>1, <2>2, <2>3
    <2>5. ListOK'
      BY <2>1, <2>3, <2>4 DEF ListOK
    <2> QED
      BY <1>8, <2>5 DEF AddTrigger, Flags, Numbers, Positions
  <1>9. Delays \subseteq Nat /\ 0 \in Nat
    OBVIOUS
  <1> QED
    BY <1>1, <1>2, <1>3, <1>4, <1>5, <1>6, <1>7, <1>8, <1>9, Zenon DEF Application

\* The steps of the executors keep the types.
LEMMA TypeHandle ==
    ASSUME Flags, Numbers, ListOK, Positions, NEW e \in Executors, Handle(e)
    PROVE  Flags' /\ Numbers' /\ ListOK' /\ Positions'
  <1>s. ASSUME NEW s \in Stages, stage' = [stage EXCEPT ![e] = s]
        PROVE  stage' \in [Executors -> Stages]
    BY <1>s DEF Positions
  <1>t. "idle" \in Stages /\ "handle" \in Stages /\ "fire" \in Stages
    BY DEF Stages
  <1>p. place \in Places
    BY DEF Positions
  <1>1. CASE ReadPending(e)
    <2>1. stage' \in [Executors -> Stages] /\ place' \in Places
      BY <1>1, <1>s, <1>t DEF ReadPending, Places
    <2>2. ListOK'
      BY <1>1, SameList DEF ReadPending
    <2> QED
      BY <1>1, <2>1, <2>2 DEF ReadPending, Flags, Numbers, Positions
  <1>2. CASE NextPeriod(e)
    <2>1. stage' \in [Executors -> Stages]
      BY <1>2, <1>s, <1>t DEF NextPeriod
    <2>2. PICK t : t = due + period
      OBVIOUS
    <2>3. t \in Int /\ StartAt(place, t)
      BY <1>2, <2>2 DEF NextPeriod, Numbers
    <2>4. place' \in Places /\ due' \in Int /\ relinked' \in BOOLEAN
      BY <1>p, <2>3, StartedType
    <2>5. ListOK'
      BY <1>2, SameList DEF NextPeriod
    <2> QED
      BY <1>2, <2>1, <2>4, <2>5 DEF NextPeriod, Flags, Numbers, Positions
  <1>3. CASE PlaySchedule(e)
    <2>1. stage' \in [Executors -> Stages]
      BY <1>3, <1>s, <1>t DEF PlaySchedule
    <2>2. active \in 1..Len(triggers) /\ triggers # << >> /\ triggers \in Seq(Nat)
      BY <1>3 DEF PlaySchedule, ListOK
    <2>3. PICK last : last = Max(PushTriggers)
      OBVIOUS
    <2>4. last \in active..Len(triggers) /\ PushTriggers \subseteq DOMAIN triggers
      BY <2>2, <2>3, LastPushed
    <2>5. PICK k : k = StepFrom(last)
      OBVIOUS
    <2>6. k \in 1..Len(triggers) /\ triggers[k] \in Nat
      <3>1. last \in 0..Len(triggers)
        BY <2>2, <2>4
      <3>2. k \in 1..Len(triggers)
        BY <3>1, <2>2, <2>5, StepInList, Zenon
      <3> QED
        BY <3>2, <2>2
    <2>7. PICK start : start = BaseFrom(last, base)
      OBVIOUS
    <2>8. /\ period' = period /\ active' = k /\ base' = start
          /\ played' = PushTriggers /\ lastFire' = now
          /\ StartAt(place, start + triggers[k])
      BY <1>3, <2>3, <2>5, <2>7 DEF PlaySchedule
    <2>9. start \in Int
      BY <2>7, <2>8 DEF BaseFrom, Numbers
    <2>10. place' \in Places /\ due' \in Int /\ relinked' \in BOOLEAN
      BY <1>p, <2>6, <2>8, <2>9, StartedType
    <2>11. UNCHANGED << configured, periodical, playing, triggers, now, calls,
                        origin, stopped, raced >>
      BY <1>3 DEF PlaySchedule
    <2>12. ListOK'
      BY <2>4, <2>6, <2>8, <2>11 DEF ListOK, Sorted
    <2>13. Numbers'
      BY <2>8, <2>9, <2>10, <2>11 DEF Numbers
    <2> QED
      BY <2>1, <2>10, <2>11, <2>12, <2>13 DEF Flags, Positions
  <1>4. CASE SingleShot(e)
    <2>1. stage' \in [Executors -> Stages]
      BY <1>4, <1>s, <1>t DEF SingleShot
    <2>2. ListOK'
      BY <1>4, SameList DEF SingleShot
    <2> QED
      BY <1>4, <2>1, <2>2 DEF SingleShot, Flags, Numbers, Positions
  <1>5. CASE Fire(e)
    <2>1. stage' \in [Executors -> Stages]
      BY <1>5, <1>s, <1>t DEF Fire
    <2>2. ListOK'
      BY <1>5, SameList DEF Fire
    <2> QED
      BY <1>5, <2>1, <2>2 DEF Fire, Flags, Numbers, Positions
  <1> QED
    BY <1>1, <1>2, <1>3, <1>4, <1>5 DEF Handle

\* Each step keeps the types.
LEMMA TypeStep == TypeOK /\ [Next]_vars => TypeOK'
  <1> SUFFICES ASSUME TypeOK, [Next]_vars
               PROVE  Flags' /\ Numbers' /\ ListOK' /\ Positions'
    BY DEF TypeOK, Flags, Numbers, ListOK, Positions, Sorted
  <1>0. Flags /\ Numbers /\ ListOK /\ Positions
    BY TypeParts
  <1>1. CASE Tick
    <2>1. ListOK'
      BY <1>0, <1>1, SameList DEF Tick
    <2> QED
      BY <1>0, <1>1, <2>1 DEF Tick, Flags, Numbers, Positions
  <1>2. CASE UNCHANGED vars
    <2>1. ListOK'
      BY <1>0, <1>2, SameList DEF vars
    <2> QED
      BY <1>0, <1>2, <2>1 DEF vars, Flags, Numbers, Positions
  <1> QED
    BY <1>0, <1>1, <1>2, TypeCall, TypeHandle DEF Next

\* The variables keep their types, and the list of the schedule, in whatever
\* order the triggers are added, is sorted.
THEOREM ScheduleSorted == Spec => []TypeOK
  BY TypeInit, TypeStep, PTL DEF Spec

-----------------------------------------------------------------------------
(* The grid of a periodic event.                                           *)

\* The time t lies on the grid of the offset o with the period p.
Grid(t, o, p) == \E k \in Int : t = o + k * p

\* The neighbours of a time on the grid are on the grid.
LEMMA GridNeighbours ==
    ASSUME NEW t \in Int, NEW o \in Int, NEW p \in Int, Grid(t, o, p)
    PROVE  Grid(t + p, o, p) /\ Grid(t - p, o, p)
  <1>1. PICK k \in Int : t = o + k * p
    BY DEF Grid
  <1>2. (k + 1) * p = k * p + p /\ (k - 1) * p = k * p - p
    OBVIOUS
  <1>3. PICK x \in Int : x = k * p
    OBVIOUS
  <1>4. t + p = o + (x + p) /\ t - p = o + (x - p)
    BY <1>1, <1>3
  <1>5. t + p = o + (k + 1) * p /\ t - p = o + (k - 1) * p
    BY <1>2, <1>3, <1>4
  <1>6. k + 1 \in Int /\ k - 1 \in Int
    OBVIOUS
  <1> QED
    BY <1>5, <1>6 DEF Grid

\* The first activation is on the grid, however late the event is programmed.
LEMMA FirstOnGrid ==
    ASSUME now \in Nat, NEW p \in Nat, p > 0, NEW offset \in Nat
    PROVE  Grid(FirstActivation(p, offset), offset, p)
  <1>1. CASE now <= offset
    <2>1. offset = offset + 0 * p /\ 0 \in Int
      OBVIOUS
    <2> QED
      BY <1>1, <2>1 DEF Grid, FirstActivation
  <1>2. CASE ~ (now <= offset)
    <2>1. PICK k \in Int : k = (now - offset) \div p + 1
      OBVIOUS
    <2>2. FirstActivation(p, offset) = offset + k * p
      BY <1>2, <2>1 DEF FirstActivation
    <2> QED
      BY <2>2 DEF Grid
  <1> QED
    BY <1>1, <1>2

\* A schedule that was set while nobody handled the event is played by one
\* executor at a time, which has the event until it puts it back.
HandledOnce ==
    configured /\ periodical /\ playing /\ ~raced =>
       /\ Handling => place = "out"
       /\ \A e, f \in Executors :
             stage[e] = "handle" /\ stage[f] = "handle" => e = f

\* The event is due on the grid, or, with a schedule, at a trigger of the round
\* that begins on the grid.
DueOnGrid ==
    configured /\ periodical =>
       /\ period > 0
       /\ playing => Grid(base, origin, period)
       /\ playing /\ ~raced => due = base + triggers[active]
       /\ ~playing => Grid(due, origin, period)

GridInv == TypeOK /\ HandledOnce /\ DueOnGrid

\* The event is not configured at the beginning.
LEMMA GridInit == Init => GridInv
  BY TypeInit DEF Init, GridInv, HandledOnce, DueOnGrid

\* An event that gets no period needs not be on a grid.
LEMMA GridCall ==
    ASSUME GridInv, TypeOK', Application
    PROVE  GridInv'
  <1> USE EventAssumption DEF Call
  <1>n. ASSUME ~ (configured' /\ periodical')
        PROVE  GridInv'
    BY <1>n DEF GridInv, HandledOnce, DueOnGrid
  <1>1. ASSUME NEW p \in Periods, NEW t \in Times, SetPeriodicTiming(p, t)
        PROVE  GridInv'
    <2>1. p \in Nat /\ t \in Nat /\ now \in Nat
      BY DEF Times, GridInv, TypeOK
    <2>2. PICK first : first = FirstActivation(p, t)
      OBVIOUS
    <2>3. /\ configured' = (p > 0) /\ period' = p /\ origin' = t
          /\ playing' = FALSE /\ stage' = stage
          /\ StartAt(Unqueued, first)
      BY <1>1, <2>2 DEF SetPeriodicTiming, ConfigurePeriodicTiming
    <2>4. CASE p > 0
      <3>1. Grid(first, t, p)
        BY <2>1, <2>2, <2>4, FirstOnGrid
      <3>2. due' = first
        BY <2>3 DEF Unqueued, StartAt
      <3>3. DueOnGrid'
        BY <2>1, <2>3, <2>4, <3>1, <3>2 DEF DueOnGrid
      <3>4. HandledOnce'
        BY <2>3 DEF HandledOnce
      <3> QED
        BY <3>3, <3>4 DEF GridInv
    <2>5. CASE ~ (p > 0)
      BY <2>3, <2>5, <1>n
    <2> QED
      BY <2>4, <2>5
  <1>2. ASSUME NEW p \in Periods, NEW t \in Times, SetPeriodicSchedule(p, t)
        PROVE  GridInv'
    <2>1. p \in Nat /\ t \in Nat /\ now \in Nat
      BY DEF Times, GridInv, TypeOK
    <2>2. PICK first : first = FirstActivation(p, t)
      OBVIOUS
    <2>3. PICK k : k = StepFrom(active)
      OBVIOUS
    <2>4. PICK start : start = BaseFrom(active, first - p)
      OBVIOUS
    <2>5. /\ period' = p /\ origin' = t /\ periodical' = (p > 0)
          /\ base' = start /\ active' = k
          /\ triggers' = triggers /\ stage' = stage /\ raced' = Handling
          /\ configured' = playing'
          /\ playing' = (0 <= start + triggers[k] /\ start + triggers[k] < p)
      BY <1>2, <2>2, <2>3, <2>4, Zenon DEF SetPeriodicSchedule, ConfigurePeriodicTiming
    <2>6. CASE configured' /\ periodical'
      <3>1. p > 0 /\ playing'
        BY <2>5, <2>6
      <3>2. StartAt(Unqueued, start + triggers[k])
        BY <1>2, <2>2, <2>3, <2>4, <3>1 DEF SetPeriodicSchedule
      <3>3. due' = base' + triggers'[active']
        BY <2>5, <3>2 DEF Unqueued, StartAt
      <3>4. Grid(first, t, p) /\ first \in Int
        BY <2>1, <2>2, <3>1, FirstOnGrid, FirstActivationType
      <3>5. Grid(first - p, t, p)
        BY <2>1, <3>4, GridNeighbours
      <3>6. Grid(base', origin', period')
        <4>1. first - p + p = first
          BY <2>1, <3>4
        <4>2. start = first - p \/ start = first - p + p
          BY <2>4, <2>5 DEF BaseFrom
        <4> QED
          BY <2>5, <3>4, <3>5, <4>1, <4>2
      <3>7. ~raced' => ~Handling'
        BY <2>5 DEF Handling
      <3>8. HandledOnce'
        BY <3>7 DEF HandledOnce, Handling
      <3>9. DueOnGrid'
        BY <2>5, <3>1, <3>3, <3>6 DEF DueOnGrid
      <3> QED
        BY <3>8, <3>9 DEF GridInv
    <2> QED
      BY <2>6, <1>n
  <1>3. CASE SetEmptySchedule
    BY <1>3, <1>n DEF SetEmptySchedule, TimerIsStopped
  <1>4. ASSUME NEW d, SetRelativeTiming(d)
        PROVE  GridInv'
    BY <1>4, <1>n DEF SetRelativeTiming
  <1>5. ASSUME NEW d, Trigger(d)
        PROVE  GridInv'
    BY <1>5, <1>n DEF Trigger
  <1>6. CASE Stop
    BY <1>6, <1>n DEF Stop
  <1>7. CASE Reset
    BY <1>7, <1>n DEF Reset
  <1>8. ASSUME NEW o, AddTrigger(o)
        PROVE  GridInv'
    BY <1>8 DEF AddTrigger, GridInv, HandledOnce, DueOnGrid, Handling
  <1> QED
    BY <1>1, <1>2, <1>3, <1>4, <1>5, <1>6, <1>7, <1>8 DEF Application

\* The next activation is one period, or some triggers, later.
LEMMA GridHandle ==
    ASSUME GridInv, TypeOK', NEW e \in Executors, Handle(e)
    PROVE  GridInv'
  <1>0. stage \in [Executors -> Stages]
    BY DEF GridInv, TypeOK
  <1>n. ASSUME ~ (configured' /\ periodical')
        PROVE  GridInv'
    BY <1>n DEF GridInv, HandledOnce, DueOnGrid
  <1>a. ASSUME configured, periodical, playing, ~raced, stage[e] = "handle",
               stage' = [stage EXCEPT ![e] = "fire"]
        PROVE  place = "out" /\ ~Handling' /\ HandledOnce'
    <2>1. place = "out" /\ \A f \in Executors : f # e => stage[f] # "handle"
      BY <1>a DEF GridInv, HandledOnce, Handling
    <2>2. \A f \in Executors : stage'[f] # "handle"
      BY <1>0, <1>a, <2>1
    <2> QED
      BY <2>1, <2>2 DEF HandledOnce, Handling
  <1>1. CASE ReadPending(e)
    <2>1. /\ place # "out" /\ place' = "out"
          /\ stage' = [stage EXCEPT ![e] = "handle"]
          /\ UNCHANGED << configured, periodical, period, playing, triggers,
                          active, base, due, origin, raced >>
      BY <1>1 DEF ReadPending
    <2>2. HandledOnce'
      <3>1. SUFFICES ASSUME configured, periodical, playing, ~raced
                     PROVE  \A f \in Executors : f # e => stage'[f] # "handle"
        BY <2>1 DEF HandledOnce
      <3>2. \A f \in Executors : stage[f] # "handle"
        BY <2>1, <3>1 DEF GridInv, HandledOnce, Handling
      <3> QED
        BY <1>0, <2>1, <3>2
    <2>3. DueOnGrid'
      BY <2>1 DEF GridInv, DueOnGrid
    <2> QED
      BY <2>2, <2>3 DEF GridInv
  <1>2. CASE NextPeriod(e)
    <2>1. /\ stage[e] = "handle" /\ periodical /\ ~playing
          /\ stage' = [stage EXCEPT ![e] = "fire"]
          /\ StartAt(place, due + period)
          /\ UNCHANGED << configured, periodical, period, playing, origin >>
      BY <1>2 DEF NextPeriod
    <2>2. CASE configured
      <3>1. HandledOnce'
        BY <2>1 DEF HandledOnce
      <3>2. due' = due \/ due' = due + period
        BY <2>1 DEF StartAt
      <3>3. Grid(due, origin, period) /\ period > 0
        BY <2>1, <2>2 DEF GridInv, DueOnGrid
      <3>4. Grid(due + period, origin, period)
        BY <3>3, GridNeighbours DEF GridInv, TypeOK
      <3>5. Grid(due', origin', period')
        BY <2>1, <3>2, <3>3, <3>4
      <3>6. DueOnGrid'
        BY <2>1, <3>3, <3>5 DEF DueOnGrid
      <3> QED
        BY <3>1, <3>6 DEF GridInv
    <2> QED
      BY <2>1, <2>2, <1>n
  <1>3. CASE PlaySchedule(e)
    <2>1. PICK last : last = Max(PushTriggers)
      OBVIOUS
    <2>2. PICK start : start = BaseFrom(last, base)
      OBVIOUS
    <2>3. PICK k : k = StepFrom(last)
      OBVIOUS
    <2>4. /\ stage[e] = "handle" /\ periodical /\ playing
          /\ stage' = [stage EXCEPT ![e] = "fire"]
          /\ period' = period /\ active' = k /\ base' = start
          /\ StartAt(place, start + triggers[k])
          /\ UNCHANGED << configured, periodical, playing, triggers, origin, raced >>
      BY <1>3, <2>1, <2>2, <2>3 DEF PlaySchedule
    <2>5. CASE configured
      <3>1. ~raced => place = "out" /\ HandledOnce'
        BY <2>4, <2>5, <1>a
      <3>2. ~raced => due' = base' + triggers'[active']
        BY <2>4, <3>1 DEF StartAt
      <3>3. Grid(base, origin, period) /\ period > 0
        BY <2>4, <2>5 DEF GridInv, DueOnGrid
      <3>4. Grid(base + period, origin, period)
        BY <3>3, GridNeighbours DEF GridInv, TypeOK
      <3>5. start = base \/ start = base + period
        BY <2>2, <2>4 DEF BaseFrom
      <3>6. Grid(base', origin', period')
        BY <2>4, <3>3, <3>4, <3>5
      <3>7. DueOnGrid'
        BY <2>4, <3>2, <3>3, <3>6 DEF DueOnGrid
      <3>8. HandledOnce'
        BY <2>4, <3>1 DEF HandledOnce
      <3> QED
        BY <3>7, <3>8 DEF GridInv
    <2> QED
      BY <2>4, <2>5, <1>n
  <1>4. CASE SingleShot(e)
    BY <1>4, <1>n DEF SingleShot
  <1>5. CASE Fire(e)
    <2>1. /\ stage' = [stage EXCEPT ![e] = "idle"]
          /\ UNCHANGED << configured, periodical, period, playing, triggers,
                          active, base, due, place, origin, raced >>
      BY <1>5 DEF Fire
    <2>2. \A f \in Executors : stage'[f] = "handle" => stage[f] = "handle"
      BY <1>0, <2>1
    <2>3. HandledOnce'
      BY <2>1, <2>2 DEF GridInv, HandledOnce, Handling
    <2>4. DueOnGrid'
      BY <2>1 DEF GridInv, DueOnGrid
    <2> QED
      BY <2>3, <2>4 DEF GridInv
  <1> QED
    BY <1>1, <1>2, <1>3, <1>4, <1>5 DEF Handle

\* Each step of the event preserves the invariant.
LEMMA GridStep == GridInv /\ [Next]_vars => GridInv'
  <1> SUFFICES ASSUME GridInv, [Next]_vars
               PROVE  GridInv'
    OBVIOUS
  <1>1. TypeOK'
    BY TypeStep DEF GridInv
  <1>2. CASE Tick \/ UNCHANGED vars
    BY <1>1, <1>2 DEF Tick, vars, GridInv, HandledOnce, DueOnGrid, Handling
  <1> QED
    BY <1>1, <1>2, GridCall, GridHandle DEF Next

\* GridInv is an invariant of the event.
LEMMA GridInvariant == Spec => []GridInv
  BY GridInit, GridStep, PTL DEF Spec

\* A multiple of the period has no remainder.
LEMMA NoRemainder ==
    ASSUME NEW k \in Int, NEW p \in Nat, p > 0
    PROVE  (k * p) % p = 0
  OBVIOUS

\* The period does not drift, for any number of executors, any periods and any
\* schedule, with late handlers of a former timing, too: only a schedule that
\* is set while an executor has still to handle the event may be stepped on
\* without being due.
THEOREM NoDrift == Spec => []OnGrid
  <1>1. ASSUME GridInv
        PROVE  OnGrid
    <2> SUFFICES ASSUME configured, periodical, playing => ~raced,
                        NEW at, at = IF playing THEN due - triggers[active] ELSE due
                 PROVE  (at - origin) % period = 0
      BY DEF OnGrid, IsOnGrid
    <2>1. /\ period \in Nat /\ period > 0 /\ origin \in Nat /\ base \in Int
          /\ due \in Int
      BY <1>1 DEF GridInv, TypeOK, DueOnGrid
    <2>2. Grid(at, origin, period)
      <3>1. CASE playing
        <4>1. triggers[active] \in Nat
          BY <1>1, <3>1 DEF GridInv, TypeOK
        <4>2. due = base + triggers[active] /\ Grid(base, origin, period)
          BY <1>1, <3>1 DEF GridInv, DueOnGrid
        <4>3. at = base
          BY <2>1, <3>1, <4>1, <4>2
        <4> QED
          BY <4>2, <4>3
      <3>2. CASE ~playing
        BY <1>1, <3>2 DEF GridInv, DueOnGrid
      <3> QED
        BY <3>1, <3>2
    <2>3. PICK k \in Int : at = origin + k * period
      BY <2>2 DEF Grid
    <2>4. PICK x \in Int : x = k * period
      BY <2>1
    <2>5. at - origin = x
      BY <2>1, <2>3, <2>4
    <2> QED
      BY <2>1, <2>4, <2>5, NoRemainder
  <1> QED
    BY <1>1, GridInvariant, PTL


-----------------------------------------------------------------------------
(* The order of the triggers.                                              *)

\* The triggers pushed last have one offset, no trigger behind the last of them
\* has it, and the active trigger is the next one.
Turn ==
    playing /\ played # {} =>
       \E last \in played :
          /\ last \in DOMAIN triggers
          /\ \A k \in played : k \in DOMAIN triggers /\ triggers[k] = triggers[last]
          /\ active = StepFrom(last)
          /\ \A k \in DOMAIN triggers : last < k => triggers[last] < triggers[k]

\* No trigger is played at the beginning.
LEMMA TurnInit == Init => Turn
  BY DEF Init, Turn

\* pushTriggers leaves none of the triggers with the same offset behind, the
\* list being sorted.
LEMMA TurnPlayed ==
    ASSUME ListOK, NEW e, PlaySchedule(e)
    PROVE  Turn'
  <1>1. PICK last : last = Max(PushTriggers)
    OBVIOUS
  <1>2. /\ active' = StepFrom(last) /\ played' = PushTriggers
        /\ triggers' = triggers /\ playing
      BY <1>1 DEF PlaySchedule
  <1>3. active \in 1..Len(triggers) /\ triggers \in Seq(Nat)
    BY <1>2 DEF ListOK
  <1>4. /\ last \in PushTriggers /\ \A k \in PushTriggers : k <= last
        /\ PushTriggers \subseteq active..Len(triggers)
    BY <1>1, <1>3, LastPushed
  <1>5. \A k \in PushTriggers : k \in DOMAIN triggers /\ triggers[k] = triggers[active]
    BY <1>3, <1>4 DEF PushTriggers
  <1>6. ASSUME NEW k \in DOMAIN triggers, last < k
        PROVE  triggers[last] < triggers[k]
    <2>1. last \in DOMAIN triggers /\ triggers[last] \in Nat /\ triggers[k] \in Nat
      BY <1>3, <1>4, <1>5
    <2>2. triggers[last] <= triggers[k]
      BY <1>6, <2>1 DEF ListOK, Sorted
    <2>3. k \in active..Len(triggers) /\ k \notin PushTriggers
      BY <1>3, <1>4, <1>6
    <2>4. triggers[k] # triggers[active]
      BY <2>3 DEF PushTriggers
    <2>5. triggers[last] = triggers[active]
      BY <1>4, <1>5
    <2> QED
      BY <2>1, <2>2, <2>4, <2>5
  <1>7. /\ last \in played'
        /\ last \in DOMAIN triggers'
        /\ \A k \in played' : k \in DOMAIN triggers' /\ triggers'[k] = triggers'[last]
        /\ active' = IF last = Len(triggers') THEN 1 ELSE last + 1
        /\ \A k \in DOMAIN triggers' : last < k => triggers'[last] < triggers'[k]
    BY <1>2, <1>4, <1>5, <1>6 DEF StepFrom
  <1> QED
    BY <1>7 DEF Turn, StepFrom

\* What does not play the schedule does not change the turn.
LEMMA TurnKept ==
    ASSUME Turn,
           \/ ~playing' \/ played' = {}
           \/ UNCHANGED << playing, played, triggers, active >>
    PROVE  Turn'
  BY DEF Turn, StepFrom

\* Each step of the event preserves the turn.
LEMMA TurnStep == TypeOK /\ Turn /\ [Next]_vars => Turn'
  <1> SUFFICES ASSUME TypeOK, Turn, [Next]_vars
               PROVE  Turn'
    OBVIOUS
  <1>0. ListOK
    BY TypeParts
  <1>1. ASSUME NEW p, NEW t, SetPeriodicTiming(p, t)
        PROVE  Turn'
    BY <1>1, TurnKept DEF SetPeriodicTiming
  <1>2. ASSUME NEW p, NEW t, SetPeriodicSchedule(p, t)
        PROVE  Turn'
    BY <1>2, TurnKept DEF SetPeriodicSchedule
  <1>3. CASE SetEmptySchedule
    BY <1>3, TurnKept DEF SetEmptySchedule
  <1>4. ASSUME NEW d, SetRelativeTiming(d)
        PROVE  Turn'
    BY <1>4, TurnKept DEF SetRelativeTiming, Call
  <1>5. ASSUME NEW d, Trigger(d)
        PROVE  Turn'
    BY <1>5, TurnKept DEF Trigger, Call
  <1>6. CASE Stop
    BY <1>6, TurnKept DEF Stop
  <1>7. CASE Reset
    BY <1>7, TurnKept DEF Reset, Call
  <1>8. ASSUME NEW o, AddTrigger(o)
        PROVE  Turn'
    BY <1>8, TurnKept DEF AddTrigger
  <1>9. CASE Application
    BY <1>9, <1>1, <1>2, <1>3, <1>4, <1>5, <1>6, <1>7, <1>8 DEF Application
  <1>10. ASSUME NEW e \in Executors, Handle(e)
         PROVE  Turn'
    <2>1. CASE ReadPending(e) \/ NextPeriod(e) \/ SingleShot(e) \/ Fire(e)
      BY <2>1, TurnKept DEF ReadPending, NextPeriod, SingleShot, Fire
    <2> QED
      BY <1>0, <1>10, <2>1, TurnPlayed DEF Handle
  <1>11. CASE Tick \/ UNCHANGED vars
    BY <1>11, TurnKept DEF Tick, vars
  <1> QED
    BY <1>9, <1>10, <1>11 DEF Next

\* The types and the turn are invariants of the event.
LEMMA TurnInvariant == Spec => [](TypeOK /\ Turn)
  <1>1. Init => TypeOK /\ Turn
    BY TypeInit, TurnInit
  <1>2. TypeOK /\ Turn /\ [Next]_vars => TypeOK' /\ Turn'
    BY TypeStep, TurnStep
  <1> QED
    BY <1>1, <1>2, PTL DEF Spec

\* The triggers of a schedule are played in the order of their offsets, round
\* by round, in whatever order they were added.
THEOREM InTurn == Spec => []TriggersInTurn
  <1>1. ASSUME TypeOK, Turn
        PROVE  TriggersInTurn
    <2> DEFINE later == { triggers[k] : k \in { j \in DOMAIN triggers :
                                  \A i \in played : triggers[j] > triggers[i] } }
               from == IF later = {} THEN Range(triggers) ELSE later
    <2> SUFFICES ASSUME playing, played # {}
                 PROVE  triggers[active] = Min(from)
      BY DEF TriggersInTurn
    <2>1. /\ triggers \in Seq(Nat) /\ active \in DOMAIN triggers
          /\ \A j, k \in DOMAIN triggers : j < k => triggers[j] <= triggers[k]
      BY <1>1 DEF TypeOK
    <2>2. PICK last \in played :
             /\ last \in DOMAIN triggers
             /\ \A k \in played : k \in DOMAIN triggers /\ triggers[k] = triggers[last]
             /\ active = StepFrom(last)
             /\ \A k \in DOMAIN triggers : last < k => triggers[last] < triggers[k]
      BY <1>1 DEF Turn
    <2>3. /\ Len(triggers) \in Nat /\ DOMAIN triggers = 1..Len(triggers)
          /\ \A k \in DOMAIN triggers : triggers[k] \in Nat
      BY <2>1
    <2>4. \A j \in DOMAIN triggers :
             (\A i \in played : triggers[j] > triggers[i]) <=> last < j
      <3>1. ASSUME NEW j \in DOMAIN triggers, last < j, NEW i \in played
            PROVE  triggers[j] > triggers[i]
        <4>1. triggers[i] = triggers[last] /\ triggers[last] < triggers[j]
          BY <2>2, <3>1
        <4>2. triggers[last] \in Nat /\ triggers[j] \in Nat
          BY <2>2, <2>3
        <4> QED
          BY <4>1, <4>2
      <3>2. ASSUME NEW j \in DOMAIN triggers, triggers[j] > triggers[last]
            PROVE  last < j
        <4>1. j \in Nat /\ last \in Nat /\ triggers[j] \in Nat /\ triggers[last] \in Nat
          BY <2>2, <2>3
        <4>2. ~ (j <= last)
          <5>1. CASE j = last
            BY <4>1, <5>1, <3>2
          <5>2. CASE j < last
            <6>1. triggers[j] <= triggers[last]
              BY <2>1, <2>2, <5>2
            <6> QED
              BY <4>1, <6>1, <3>2
          <5> QED
            BY <4>1, <5>1, <5>2
        <4> QED
          BY <4>1, <4>2
      <3> QED
        BY <3>1, <3>2
    <2>5. later = { triggers[k] : k \in { j \in DOMAIN triggers : last < j } }
      <3>1. { j \in DOMAIN triggers : \A i \in played : triggers[j] > triggers[i] }
            = { j \in DOMAIN triggers : last < j }
        BY <2>4
      <3> QED
        BY <3>1
    <2> HIDE DEF later
    <2>6. CASE last = Len(triggers)
      <3>1. later = {}
        BY <2>3, <2>5, <2>6
      <3>2. from = Range(triggers) /\ active = 1
        BY <2>2, <2>6, <3>1 DEF StepFrom
      <3>3. Range(triggers) \in SUBSET Nat /\ triggers[1] \in Range(triggers)
        BY <2>1, <2>3, <3>2 DEF Range
      <3>4. ASSUME NEW y \in Range(triggers)
            PROVE  triggers[1] <= y
        <4>1. PICK k \in DOMAIN triggers : y = triggers[k]
          BY DEF Range
        <4>2. k = 1 \/ 1 < k
          BY <2>3
        <4> QED
          BY <2>1, <2>3, <3>2, <4>1, <4>2
      <3>5. Min(Range(triggers)) = triggers[1]
        BY <3>3, <3>4, MinIsLeast
      <3> QED
        BY <3>2, <3>5
    <2>7. CASE last # Len(triggers)
      <3>1. active = last + 1 /\ last < active
        BY <2>2, <2>3, <2>7 DEF StepFrom
      <3>2. triggers[active] \in later /\ later \in SUBSET Nat
        BY <2>1, <2>3, <2>5, <3>1
      <3>3. ASSUME NEW y \in later
            PROVE  triggers[active] <= y
        <4>1. PICK k \in DOMAIN triggers : last < k /\ y = triggers[k]
          BY <2>5
        <4>2. active = k \/ active < k
          BY <2>2, <2>3, <3>1, <4>1
        <4> QED
          BY <2>1, <2>3, <4>1, <4>2
      <3>4. Min(later) = triggers[active]
        BY <3>2, <3>3, MinIsLeast
      <3> QED
        BY <3>2, <3>4
    <2> QED
      BY <2>6, <2>7
  <1> QED
    BY <1>1, TurnInvariant, PTL

=============================================================================
