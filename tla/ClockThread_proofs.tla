------------------------- MODULE ClockThread_proofs -------------------------
(***************************************************************************)
(* Proof that no start of an event is lost between getNextStartTime and    *)
(* the wait of the clock thread, for every number of events and callers    *)
(* and every bound of the time and of the numbers of steps.                *)
(***************************************************************************)
EXTENDS ClockThread, TLAPS

\* startTimer is still to be called for an event that became the next one.
TimerDue == \E p \in Callers : pc[p] = "timer"

\* The thread will wait without a limit, or does so.
WillWait == (clock = "decide" /\ nextStartTime = 0) \/ (clock = "wait" /\ ~notified)

\* NoTimerLost is not inductive: the thread decides on what getNextStartTime
\* returned, and so the same must hold for the state between the two.
Covered == WillWait /\ Future # {} => TimerDue

\* The types of the clock thread and of its callers (clockThread, startTimer).
THEOREM ThreadTypes == Spec => []TypeOK
  <1> USE ThreadAssumption DEF Times, NotQueued, Callers
  <1>1. ASSUME Init
        PROVE  TypeOK
    <2>1. due \in [Events -> Times \cup {NotQueued}]
      BY <1>1 DEF Init
    <2>2. pc \in [Callers -> { "idle", "free", "events", "parking", "handle",
                             "timer", "signal" }]
      BY <1>1 DEF Init
    <2>3. /\ now \in Times /\ nextStartTime \in Times
          /\ started \in 0..MaxStarts /\ spurious \in 0..MaxSpurious
          /\ overlooked \subseteq Events
      BY <1>1 DEF Init
    <2>4. clock = "next" /\ notified \in BOOLEAN
      BY <1>1 DEF Init
    <2> QED
      BY <2>1, <2>2, <2>3, <2>4 DEF TypeOK
  <1>2. ASSUME TypeOK, [Next]_vars
        PROVE  TypeOK'
    <2> USE <1>2 DEF TypeOK, Goto
    <2>0. Overlook => overlooked' \subseteq Events
      BY DEF Overlook, Pending
    <2>1. CASE Clock
      <3>1. CASE GetNextStartTime
        <4>1. \A e \in Future : due[e] \in Times
          BY DEF Future
        <4> QED
          BY <3>1, <4>1 DEF GetNextStartTime
      <3>2. CASE Decide \/ WakeUp \/ IsPending
        BY <3>2 DEF Decide, WakeUp, IsPending
      <3>3. CASE ClockSignal
        BY <3>3, <2>0 DEF ClockSignal, SignalExecutor
      <3> QED
        BY <2>1, <3>1, <3>2, <3>3 DEF Clock
    <2>2. CASE \E p \in Callers : Call(p)
      <3>1. PICK p \in Callers : Call(p)
        BY <2>2
      <3>2. Back(p) \in { "idle", "handle" }
        BY DEF Back
      <3>3. ASSUME NEW e \in Events, StartFuture(p, e)
            PROVE  TypeOK'
        BY <3>2, <3>3 DEF StartFuture
      <3>4. ASSUME NEW e \in Events, StartNow(p, e)
            PROVE  TypeOK'
        BY <3>4 DEF StartNow
      <3>5. ASSUME NEW e \in Events, Dequeue(p, e)
            PROVE  TypeOK'
        BY <3>5 DEF Dequeue
      <3>6. CASE StartTimer(p)
        BY <3>2, <3>6 DEF StartTimer
      <3>7. CASE Signal(p)
        BY <3>2, <3>7, <2>0 DEF Signal, SignalExecutor
      <3> QED
        BY <3>1, <3>3, <3>4, <3>5, <3>6, <3>7 DEF Call
    <2>3. CASE Handle \/ Tick
      BY <2>3 DEF Handle, HandleNext, HandleNone, Park, Return, Tick
    <2>4. CASE SpuriousWakeUp
      <3>1. spurious' \in 0..MaxSpurious
        <4>1. spurious \in Nat /\ spurious < MaxSpurious /\ spurious' = spurious + 1
          BY <2>4 DEF SpuriousWakeUp
        <4> QED
          BY ONLY <4>1, ThreadAssumption
      <3> QED
        BY <2>4, <3>1 DEF SpuriousWakeUp
    <2>5. CASE UNCHANGED vars
      BY <2>5 DEF vars
    <2> QED
      BY <1>2, <2>1, <2>2, <2>3, <2>4, <2>5 DEF Next
  <1> QED
    BY <1>1, <1>2, PTL DEF Spec

\* A caller that is not in startTimer stays out of it and disturbs nobody else.
LEMMA TimerDueKept ==
    ASSUME TypeOK, TimerDue, NEW p \in Callers, pc[p] # "timer",
           \A q \in Callers \ {p} : pc'[q] = pc[q] \/ pc[q] # "timer"
    PROVE  TimerDue'
  BY DEF TimerDue

\* Every step keeps the events in the future covered.
LEMMA CoveredKept ==
    ASSUME TypeOK, Covered, [Next]_vars
    PROVE  Covered'
  <1> USE ThreadAssumption DEF Times, NotQueued, Callers
  <1>1. CASE Clock \/ SpuriousWakeUp
    <2>1. CASE GetNextStartTime
      <3>1. Future' = Future
        BY <2>1 DEF GetNextStartTime, Future
      <3>2. \A e \in Future : due[e] # 0
        BY DEF TypeOK, Future
      <3> QED
        BY <2>1, <3>1, <3>2 DEF GetNextStartTime, Covered, WillWait
    <2>2. CASE Decide
      <3>1. Future' = Future /\ TimerDue' = TimerDue
        BY <2>2 DEF Decide, Future, TimerDue
      <3>2. WillWait' => WillWait
        BY <2>2 DEF Decide, WillWait
      <3> QED
        BY <3>1, <3>2 DEF Covered
    <2>3. CASE WakeUp \/ SpuriousWakeUp \/ IsPending \/ ClockSignal
      BY <2>3 DEF WakeUp, SpuriousWakeUp, IsPending, ClockSignal, Covered, WillWait
    <2> QED
      BY <1>1, <2>1, <2>2, <2>3 DEF Clock
  <1>2. ASSUME NEW p \in Callers, NEW e \in Events, StartFuture(p, e)
        PROVE  Covered'
    <2>1. PICK t \in Times :
              /\ t > now
              /\ due' = [due EXCEPT ![e] = t]
              /\ Goto(p, IF \A f \in Future : due[f] > t THEN "timer" ELSE Back(p))
      BY <1>2 DEF StartFuture
    <2>2. WillWait' => WillWait
      BY <1>2 DEF StartFuture, WillWait
    <2>3. CASE \A f \in Future : due[f] > t
      <3>1. pc'[p] = "timer"
        BY <2>1, <2>3 DEF TypeOK, Goto
      <3> QED
        BY <3>1 DEF Covered, TimerDue
    <2>4. CASE \E f \in Future : ~(due[f] > t)
      <3>1. WillWait => TimerDue
        BY <2>4 DEF Covered
      <3>2. pc[p] # "timer"
        BY <1>2 DEF StartFuture, Active, Back
      <3>3. TimerDue => TimerDue'
        BY <2>1, <3>2, TimerDueKept DEF TypeOK, Goto
      <3> QED
        BY <2>2, <3>1, <3>3 DEF Covered
    <2> QED
      BY <2>3, <2>4
  <1>3. ASSUME NEW p \in Callers, StartTimer(p)
        PROVE  Covered'
    BY <1>3 DEF StartTimer, Waiting, Covered, WillWait
  <1>4. ASSUME NEW p \in Callers, NEW e \in Events, StartNow(p, e) \/ Dequeue(p, e)
        PROVE  Covered'
    <2>1. Future' \subseteq Future
      BY <1>4 DEF StartNow, Dequeue, Future, TypeOK
    <2>2. WillWait' => WillWait
      BY <1>4 DEF StartNow, Dequeue, WillWait
    <2>3. pc[p] # "timer"
      BY <1>4 DEF StartNow, Dequeue, Active, Back
    <2>4. TimerDue => TimerDue'
      BY <1>4, <2>3, TimerDueKept DEF StartNow, Dequeue, Goto, TypeOK
    <2> QED
      BY <2>1, <2>2, <2>4 DEF Covered
  <1>5. ASSUME NEW p \in Callers, Signal(p)
        PROVE  Covered'
    <2>1. Future' = Future /\ (WillWait' => WillWait)
      BY <1>5 DEF Signal, Future, WillWait
    <2>2. TimerDue => TimerDue'
      BY <1>5, TimerDueKept DEF Signal, SignalExecutor, TypeOK
    <2> QED
      BY <2>1, <2>2 DEF Covered
  <1>6. CASE Handle
    <2>1. Future' \subseteq Future
      BY <1>6 DEF Handle, HandleNext, HandleNone, Park, Return, Future, Pending, TypeOK
    <2>2. WillWait' => WillWait
      BY <1>6 DEF Handle, HandleNext, HandleNone, Park, Return, WillWait
    <2>3. pc[Executor] # "timer"
      BY <1>6 DEF Handle, HandleNext, HandleNone, Park, Return
    <2>4. TimerDue => TimerDue'
      BY <1>6, <2>3, TimerDueKept DEF Handle, HandleNext, HandleNone, Park, Return, Goto, TypeOK
    <2> QED
      BY <2>1, <2>2, <2>4 DEF Covered
  <1>7. CASE Tick
    <2>1. Future' \subseteq Future
      BY <1>7 DEF Tick, Future, TypeOK
    <2> QED
      BY <1>7, <2>1 DEF Tick, Covered, WillWait, TimerDue
  <1>8. CASE UNCHANGED vars
    BY <1>8 DEF vars, Covered, WillWait, Future, TimerDue
  <1> QED
    BY <1>1, <1>2, <1>3, <1>4, <1>5, <1>6, <1>7, <1>8 DEF Next, Call

\* The clock thread waits without a limit only if no event is in the future,
\* unless startTimer is about to end the wait (clockThread, startTimer).
THEOREM NoLostTimer == Spec => []NoTimerLost
  <1>1. Init => Covered
    BY DEF Init, Covered, Future, WillWait
  <1>2. TypeOK /\ Covered /\ [Next]_vars => Covered'
    BY CoveredKept
  <1>3. Covered => NoTimerLost
    BY DEF Covered, WillWait, TimerDue, NoTimerLost
  <1> QED
    BY <1>1, <1>2, <1>3, ThreadTypes, PTL DEF Spec
=============================================================================
