------------------------- MODULE ChannelKinds_proofs -------------------------
(***************************************************************************)
(* A barrier in front of a synchronous input is never closed for ever.     *)
(* One that is opened by announcements waits for announced pushes only,    *)
(* and for all of them as long as it is not increased after it fired.  A   *)
(* reference into a buffer stays valid while one more message is sent.     *)
(***************************************************************************)
EXTENDS ChannelKinds, TLAPS, FiniteSetTheorems

-----------------------------------------------------------------------------
(* The barrier.                                                            *)

InPush == { "notify", "activate" }

\* The mutex of the barrier is held by the producer that notifies.
Protected ==
    /\ pc \in [Producers -> PCs]
    /\ protection \in Producers \cup {Nobody}
    /\ \A p \in Producers :
          /\ pc[p] \notin {"copied", "store"}
          /\ pc[p] \in InPush <=> protection = p

Sending(place) == protection # Nobody /\ pc[protection] = place

\* The task waits for the next notification: the barrier is open, or the push
\* that has closed it is about to notify or to activate.
Waiting ==
    /\ missed = 0
    /\ \/ notifications = 0 /\ counter > 0 /\ protection = Nobody
       \/ notifications = 0 /\ counter = 0 /\ Sending("notify")
       \/ notifications = 1 /\ counter = 0 /\ Sending("activate")

\* The task has its notification.  The barrier may have been increased and
\* closed again since; whoever closes it finds the input activated.
Busy ==
    /\ notifications = 1
    /\ protection = Nobody \/ (counter = 0 /\ Sending("notify"))

\* A push that closes the barrier between its reset and the one of the input
\* is missed by the input, which remembers it.
Remembered == counter = 0 /\ protection = Nobody => missed > 0

Round ==
    \/ /\ reset = "none"
       /\ (state = "WAIT" /\ Waiting) \/ (state = "RUN" /\ Busy)
    \/ reset = "channel" /\ state = "RESET" /\ Busy
    \/ reset = "input" /\ state = "RESET" /\ Busy /\ Remembered
    \/ /\ reset = "end"
       /\ (state = "RESET" /\ Waiting) \/ (state = "PENDING" /\ Busy)

Guarded == kind = "barrier" /\ synchron /\ startValue > 0

BarrierInv ==
    /\ startValue \in Nat /\ counter \in Nat /\ missed \in Nat
    /\ Guarded => Protected /\ Round

\* A barrier that is closed from the beginning is not guarded.
LEMMA BarrierInit == Init => BarrierInv
  <1>1. ASSUME Init
        PROVE  /\ startValue \in Nat /\ counter \in Nat /\ missed \in Nat
               /\ Guarded => Protected
    BY <1>1, KindAssumption
       DEF Init, Guarded, Protected, PCs, InPush
  <1>2. ASSUME Init, Guarded
        PROVE  Round
    BY <1>2, KindAssumption DEF Init, Guarded, Round, Waiting
  <1> QED
    BY <1>1, <1>2 DEF BarrierInv

\* The producers of a guarded barrier.
LEMMA ProducerRound ==
    ASSUME BarrierInv, Guarded, NEW p \in Producers,
           Push(p) \/ Increase(p) \/ PushBarrier(p) \/ SendCopy(p) \/ SendSwitch(p)
    PROVE  BarrierInv' /\ Guarded'
  <1>0. /\ counter \in Nat /\ startValue \in Nat /\ missed \in Nat
        /\ Protected /\ Round
        /\ kind = "barrier" /\ synchron /\ startValue > 0 /\ p # Nobody
    BY KindAssumption DEF BarrierInv, Guarded
  <1>1. CASE NotifySync(p)
    <2>1. /\ Guarded' /\ counter' = counter /\ startValue' = startValue
          /\ fired' = fired /\ reset' = reset /\ state' = state
          /\ pc[p] = "notify" /\ protection = p
      BY <1>0, <1>1 DEF NotifySync, Guarded, fixed, taskVars, Protected, InPush
    <2>2. CASE IsActivated
      <3>1. /\ missed' = missed + 1 /\ notifications' = notifications
            /\ protection' = Nobody /\ pc' = [pc EXCEPT ![p] = "idle"]
        BY <1>1, <2>2 DEF NotifySync, Return, GoTo
      <3>2. Protected'
        BY <1>0, <2>1, <3>1, KindAssumption DEF Protected, PCs, InPush
      <3>3. Round'
        BY <1>0, <2>1, <2>2, <3>1
           DEF Round, Waiting, Busy, Remembered, Sending, IsActivated
      <3> QED
        BY <1>0, <2>1, <3>1, <3>2, <3>3 DEF BarrierInv
    <2>3. CASE ~IsActivated
      <3>1. /\ notifications' = notifications + 1 /\ missed' = missed
            /\ protection' = protection /\ pc' = [pc EXCEPT ![p] = "activate"]
        BY <1>1, <2>3 DEF NotifySync, GoTo
      <3>2. Protected'
        BY <1>0, <2>1, <3>1 DEF Protected, PCs, InPush
      <3>3. Sending("activate")' /\ ~Sending("activate")
        BY <1>0, <2>1, <3>1 DEF Sending, Protected
      <3>4. Round'
        BY <1>0, <2>1, <2>3, <3>1, <3>3
           DEF Round, Waiting, Busy, Remembered, Sending, IsActivated
      <3> QED
        BY <1>0, <2>1, <3>1, <3>2, <3>4 DEF BarrierInv
    <2> QED
      BY <2>2, <2>3
  <1>2. CASE NotifyLoad(p) \/ NotifyStore(p) \/ SendCopy(p) \/ SendSwitch(p)
    BY <1>0, <1>2 DEF NotifyLoad, NotifyStore, SendCopy, SendSwitch, Protected
  <1>3. CASE Activate(p)
    <2>1. /\ Guarded' /\ counter' = counter /\ startValue' = startValue
          /\ fired' = fired /\ reset' = reset
          /\ notifications' = notifications /\ missed' = missed
          /\ pc[p] = "activate" /\ protection = p
          /\ protection' = Nobody /\ pc' = [pc EXCEPT ![p] = "idle"]
          /\ state' = Activation
      BY <1>0, <1>3
         DEF Activate, Return, GoTo, Guarded, fixed, inputVars, Protected, InPush
    <2>2. Protected'
      BY <1>0, <2>1, KindAssumption DEF Protected, PCs, InPush
    <2>3. Sending("activate") /\ ~Sending("notify") /\ protection # Nobody
      BY <1>0, <2>1 DEF Sending
    <2>4. Round'
      BY <1>0, <2>1, <2>3
         DEF Round, Waiting, Busy, Remembered, Activation, IsActivated
    <2> QED
      BY <1>0, <2>1, <2>2, <2>4 DEF BarrierInv
  <1>4. CASE Increase(p)
    <2>1. /\ Guarded' /\ startValue' = startValue /\ counter' = counter + 1
          /\ reset' = reset /\ state' = state
          /\ notifications' = notifications /\ missed' = missed
          /\ protection' = protection /\ protection = Nobody
          /\ pc' = [pc EXCEPT ![p] = "announced"]
      BY <1>4 DEF Increase, GoTo, Guarded, fixed, inputVars, taskVars
    <2>2. Protected'
      BY <1>0, <2>1 DEF Protected, PCs, InPush
    <2>3. Round'
      BY <1>0, <2>1
         DEF Round, Waiting, Busy, Remembered, Sending
    <2> QED
      BY <1>0, <2>1, <2>2, <2>3 DEF BarrierInv
  <1>5. CASE PushBarrier(p)
    <2>1. /\ Guarded' /\ startValue' = startValue /\ counter' = Remaining
          /\ fired' = (fired \/ Completes) /\ reset' = reset /\ state' = state
          /\ notifications' = notifications /\ missed' = missed
          /\ protection = Nobody
      BY <1>5 DEF PushBarrier, Guarded, fixed, inputVars, taskVars
    <2>2. CASE Completes
      <3>1. protection' = p /\ pc' = [pc EXCEPT ![p] = "notify"]
        BY <1>5, <2>2 DEF PushBarrier, GoTo
      <3>2. Protected'
        BY <1>0, <2>1, <3>1, KindAssumption DEF Protected, PCs, InPush
      <3>3. Sending("notify")'
        BY <1>0, <3>1 DEF Sending, Protected
      <3>4. counter > 0 /\ counter' = 0
        BY <1>0, <2>1, <2>2 DEF Completes, Remaining
      <3>5. Round'
        BY <1>0, <2>1, <3>3, <3>4
           DEF Round, Waiting, Busy, Remembered, Sending
      <3> QED
        BY <1>0, <2>1, <3>2, <3>4, <3>5 DEF BarrierInv
    <2>3. CASE ~Completes
      <3>1. protection' = protection /\ pc' = [pc EXCEPT ![p] = "idle"]
        BY <1>5, <2>3 DEF PushBarrier, GoTo
      <3>2. Protected'
        BY <1>0, <2>1, <3>1 DEF Protected, PCs, InPush
      <3>3. counter' \in Nat /\ (counter' = 0 <=> counter = 0)
        BY <1>0, <2>1, <2>3 DEF Completes, Remaining
      <3>4. Round'
        BY <1>0, <2>1, <3>1, <3>3
           DEF Round, Waiting, Busy, Remembered, Sending
      <3> QED
        BY <1>0, <2>1, <2>3, <3>2, <3>3, <3>4 DEF BarrierInv
    <2> QED
      BY <2>2, <2>3
  <1> QED
    BY <1>1, <1>2, <1>3, <1>4, <1>5 DEF Push

\* The task behind a guarded barrier.
LEMMA TaskRound ==
    ASSUME BarrierInv, Guarded, Execute
    PROVE  BarrierInv' /\ Guarded'
  <1>0. /\ counter \in Nat /\ startValue \in Nat /\ missed \in Nat
        /\ Protected /\ Round
        /\ kind = "barrier" /\ synchron /\ startValue > 0
    BY DEF BarrierInv, Guarded
  <1>1. CASE Read
    BY <1>0, <1>1 DEF Read
  <1>2. CASE BeginReset \/ ResetInput \/ EndReset
    <2>1. /\ Guarded' /\ startValue' = startValue /\ counter' = counter
          /\ protection' = protection /\ pc' = pc
      BY <1>2 DEF BeginReset, ResetInput, EndReset, Guarded, fixed, pushVars,
                  barrierVars
    <2>2. Protected'
      BY <1>0, <2>1 DEF Protected
    <2>3. missed' \in Nat
      BY <1>0, <1>2 DEF BeginReset, ResetInput, EndReset, inputVars
    <2>4. CASE BeginReset
      <3>1. /\ state = "RUN" /\ state' = "RESET" /\ reset' = "channel"
            /\ notifications' = notifications /\ missed' = missed
        BY <2>4 DEF BeginReset, inputVars
      <3> QED
        BY <1>0, <2>1, <2>2, <2>3, <3>1 DEF BarrierInv, Round, Busy, Sending
    <2>5. CASE ResetInput
      <3>1. /\ reset = "input" /\ reset' = "end"
            /\ \/ /\ missed > 0 /\ notifications' = 1 /\ state' = "PENDING"
               \/ /\ ~ (missed > 0) /\ notifications' = 0 /\ state' = state
                  /\ missed' = missed
        BY <1>0, <2>5 DEF ResetInput
      <3>2. state = "RESET" /\ Busy /\ Remembered
        BY <1>0, <3>1 DEF Round
      <3>3. CASE missed > 0
        BY <1>0, <2>1, <2>2, <2>3, <3>1, <3>2, <3>3
           DEF BarrierInv, Round, Busy, Sending
      <3>4. CASE ~ (missed > 0)
        <4>1. missed = 0 /\ (protection # Nobody \/ counter > 0)
          BY <1>0, <3>2, <3>4 DEF Remembered
        <4>2. protection # Nobody => Sending("notify") /\ counter = 0
          BY <3>2 DEF Busy
        <4> QED
          BY <1>0, <2>1, <2>2, <2>3, <3>1, <3>2, <3>4, <4>1, <4>2
             DEF BarrierInv, Round, Waiting, Sending
      <3> QED
        BY <3>3, <3>4
    <2>6. CASE EndReset
      <3>1. /\ reset = "end" /\ reset' = "none"
            /\ notifications' = notifications /\ missed' = missed
            /\ state' = IF state = "PENDING" /\ notifications >= 1
                        THEN "RUN" ELSE "WAIT"
        BY <2>6 DEF EndReset, inputVars, IsActivated
      <3> QED
        BY <1>0, <2>1, <2>2, <2>3, <3>1
           DEF BarrierInv, Round, Waiting, Busy, Sending
    <2> QED
      BY <1>2, <2>4, <2>5, <2>6
  <1>3. CASE ResetChannel
    <2>1. /\ Guarded' /\ startValue' = startValue /\ counter' = startValue
          /\ protection' = protection /\ pc' = pc /\ protection = Nobody
          /\ reset = "channel" /\ reset' = "input" /\ state' = state
          /\ notifications' = notifications /\ missed' = missed
      BY <1>0, <1>3 DEF ResetChannel, Reopened, Guarded, fixed, pushVars, inputVars
    <2>2. Protected'
      BY <1>0, <2>1 DEF Protected
    <2>3. Round'
      BY <1>0, <2>1 DEF Round, Busy, Remembered, Guarded
    <2> QED
      BY <1>0, <2>1, <2>2, <2>3 DEF BarrierInv
  <1> QED
    BY <1>1, <1>2, <1>3 DEF Execute

\* Without a guard only the types are left.
LEMMA BarrierStep == BarrierInv /\ [Next]_vars => BarrierInv'
  <1>1. ASSUME BarrierInv, Guarded, Next
        PROVE  BarrierInv'
    BY <1>1, ProducerRound, TaskRound DEF Next
  <1>2. ASSUME BarrierInv, ~Guarded, Next
        PROVE  BarrierInv'
    <2>1. startValue' = startValue /\ kind' = kind /\ synchron' = synchron
      BY <1>2 DEF Next, Push, NotifySync, NotifyLoad, NotifyStore, Activate,
                  Increase, PushBarrier, SendCopy, SendSwitch, Execute, Read,
                  BeginReset, ResetChannel, ResetInput, EndReset, fixed, barrierVars
    <2>2. counter' \in {counter, counter + 1, Remaining, startValue}
      BY <1>2 DEF Next, Push, NotifySync, NotifyLoad, NotifyStore, Activate,
                  Increase, PushBarrier, SendCopy, SendSwitch, Execute, Read,
                  BeginReset, ResetChannel, ResetInput, EndReset, barrierVars,
                  Reopened
    <2>3. counter' \in Nat /\ startValue' \in Nat
      BY <1>2, <2>1, <2>2 DEF BarrierInv, Remaining
    <2>4. missed' \in Nat
      BY <1>2 DEF BarrierInv, Next, Push, NotifySync, NotifyLoad, NotifyStore,
                  Activate, Increase, PushBarrier, SendCopy, SendSwitch, Execute,
                  Read, BeginReset, ResetChannel, ResetInput, EndReset, inputVars
    <2> QED
      BY <1>2, <2>1, <2>3, <2>4 DEF BarrierInv, Guarded
  <1>3. ASSUME BarrierInv, UNCHANGED vars
        PROVE  BarrierInv'
    BY <1>3 DEF BarrierInv, Guarded, Protected, Round, Waiting, Busy,
                Remembered, Sending, vars, fixed, pushVars, barrierVars,
                inputVars, taskVars
  <1> QED
    BY <1>1, <1>2, <1>3

\* The barrier in front of a synchronous input is never closed while the task
\* waits and no producer is about to activate it.
THEOREM NeverClosedForEver == Spec => []SynchronNeverStuck
  <1>1. BarrierInv => SynchronNeverStuck
    BY DEF BarrierInv, SynchronNeverStuck, NeverStuck, Guarded, Round,
           Waiting, Busy, Remembered, Sending
  <1> QED
    BY <1>1, BarrierInit, BarrierStep, PTL DEF Spec

-----------------------------------------------------------------------------
(* The buffers.                                                            *)

\* A reference is used while the task runs only.  The element it refers to is
\* not the one that is written to, as long as the buffers are not switched.
ReferenceInv ==
    /\ kind \in Kinds /\ pc \in [Producers -> PCs] /\ pushes \in 0..MaxPush
    /\ data \in [0..1 -> 0..MaxPush] /\ backIndex \in 0..1 /\ switches \in Nat
    /\ ref \in 0..NoRef
    /\ state \in {"WAIT", "RUN"} => reset = "none"
    /\ ref # NoRef =>
          /\ kind # "barrier" /\ state = "RUN"
          /\ kind = "double" /\ switches = 0 => ref = 1 - backIndex
    /\ ReferenceHolds

\* Nothing is read at the beginning.
LEMMA ReferenceInit == Init => ReferenceInv
  BY KindAssumption
     DEF Init, ReferenceInv, ReferenceHolds, NoRef, Kinds, PCs

\* The steps of the producers.
LEMMA ProducerReference ==
    ASSUME ReferenceInv, NEW p \in Producers,
           Push(p) \/ Increase(p) \/ PushBarrier(p) \/ SendCopy(p) \/ SendSwitch(p)
    PROVE  ReferenceInv'
  <1> USE DEF NoRef, ReferenceInv, ReferenceHolds
  <1>1. CASE Push(p) \/ Increase(p) \/ PushBarrier(p)
    <2>1. /\ UNCHANGED << data, backIndex, ref, seen, switches, kind, reset >>
          /\ state' = state \/ state = "WAIT" \/ state' = "PENDING"
          /\ state = "RUN" => state' = "RUN"
          /\ pc[p] # "copied"
          /\ \E place \in PCs \ {"copied"} : pc' = [pc EXCEPT ![p] = place]
      BY <1>1 DEF Push, NotifySync, NotifyLoad, NotifyStore, Activate, Activation,
                  Increase, PushBarrier, Return, GoTo, PCs, bufferVars, readVars,
                  fixed, taskVars
    <2>2. pushes' \in 0..MaxPush
      BY <1>1, KindAssumption
         DEF Push, NotifySync, NotifyLoad, NotifyStore, Activate, Increase,
             PushBarrier
    <2>3. /\ pc' \in [Producers -> PCs]
          /\ pc[Writer] = "copied" => pc'[Writer] = "copied"
      BY <2>1, KindAssumption
    <2> QED
      BY <2>1, <2>2, <2>3
  <1>2. CASE SendCopy(p)
    <2>1. /\ UNCHANGED << backIndex, ref, seen, switches, kind, state, reset >>
          /\ pushes < MaxPush /\ pushes' = pushes + 1
          /\ data' = [data EXCEPT ![backIndex] = pushes + 1]
          /\ p = Writer /\ pc' = [pc EXCEPT ![Writer] = "copied"]
          /\ kind # "single" \/ ref = NoRef
      BY <1>2 DEF SendCopy, Target, GoTo, MaySend, readVars, fixed, taskVars
    <2>2. pushes' \in 0..MaxPush /\ data' \in [0..1 -> 0..MaxPush]
      BY <2>1, KindAssumption
    <2>3. pc' \in [Producers -> PCs] /\ pc'[Writer] = "copied"
      BY <2>1 DEF PCs
    <2>4. ref # NoRef /\ switches = 0 => ref = 1 - backIndex /\ data'[ref] = data[ref]
      BY <2>1 DEF Kinds
    <2> QED
      BY <2>1, <2>2, <2>3, <2>4
  <1>3. CASE SendSwitch(p)
    <2>1. /\ UNCHANGED << pushes, data, ref, seen, kind, state, reset >>
          /\ switches' = switches + 1 /\ backIndex' \in 0..1
          /\ pc' = [pc EXCEPT ![p] = "notify"]
      BY <1>3 DEF SendSwitch, GoTo, fixed, taskVars
    <2>2. pc' \in [Producers -> PCs]
      BY <2>1 DEF PCs
    <2> QED
      BY <2>1, <2>2
  <1> QED
    BY <1>1, <1>2, <1>3

\* The steps of the task.
LEMMA TaskReference ==
    ASSUME ReferenceInv, Execute
    PROVE  ReferenceInv'
  <1> USE DEF NoRef, ReferenceInv, ReferenceHolds
  <1>1. UNCHANGED << kind, pc, pushes, data, backIndex >>
    BY DEF Execute, Read, BeginReset, ResetChannel, ResetInput, EndReset, fixed,
           pushVars, bufferVars
  <1>2. CASE Read
    BY <1>1, <1>2 DEF Read, ValidIndex, taskVars, Kinds
  <1>3. CASE BeginReset
    BY <1>1, <1>3 DEF BeginReset
  <1>4. CASE ResetChannel
    BY <1>1, <1>4 DEF ResetChannel, readVars
  <1>5. CASE ResetInput \/ EndReset
    <2>1. UNCHANGED << ref, seen, switches >>
      BY <1>5 DEF ResetInput, EndReset, readVars
    <2>2. /\ ref = NoRef
          /\ state' \in {"WAIT", "RUN"} => reset' = "none"
      BY <1>5 DEF ResetInput, EndReset
    <2> QED
      BY <1>1, <2>1, <2>2
  <1> QED
    BY <1>2, <1>3, <1>4, <1>5 DEF Execute

\* The reference that read returns is valid until the second message is sent.
THEOREM ReferenceStaysValid == Spec => []ReferenceHolds
  <1>1. ReferenceInv /\ [Next]_vars => ReferenceInv'
    <2>1. ASSUME ReferenceInv, UNCHANGED vars
          PROVE  ReferenceInv'
      BY <2>1 DEF ReferenceInv, ReferenceHolds, vars, fixed, pushVars, bufferVars,
                  taskVars, readVars
    <2> QED
      BY <2>1, ProducerReference, TaskReference DEF Next
  <1>2. ReferenceInv => ReferenceHolds
    BY DEF ReferenceInv
  <1> QED
    BY <1>1, <1>2, ReferenceInit, PTL DEF Spec

-----------------------------------------------------------------------------
(* Types.                                                                  *)

Announcing == { p \in Producers : pc[p] = "announced" }

\* The barrier never expects more than the pushes of a new round and those that
\* are announced.
Bounded == counter <= startValue + Cardinality(Announcing)

\* An announcement, and the push that follows it.
LEMMA AnnouncedChanges ==
    ASSUME pc \in [Producers -> PCs], NEW p \in Producers, NEW place \in PCs,
           GoTo(p, place)
    PROVE  /\ pc' \in [Producers -> PCs]
           /\ IsFiniteSet(Announcing) /\ Cardinality(Announcing) \in Nat
           /\ Cardinality(Announcing') \in Nat
           /\ (pc[p] = "announced") = (place = "announced") =>
                 Announcing' = Announcing
           /\ pc[p] # "announced" /\ place = "announced" =>
                 Cardinality(Announcing') = Cardinality(Announcing) + 1
           /\ pc[p] = "announced" /\ place # "announced" =>
                 /\ Cardinality(Announcing) > 0
                 /\ Cardinality(Announcing') = Cardinality(Announcing) - 1
  <1>1. IsFiniteSet(Announcing) /\ IsFiniteSet(Announcing')
    <2>1. Announcing \in SUBSET Producers /\ Announcing' \in SUBSET Producers
      BY DEF Announcing
    <2> QED
      BY <2>1, KindAssumption, FS_Subset
  <1>2. Cardinality(Announcing) \in Nat /\ Cardinality(Announcing') \in Nat
    BY <1>1, FS_CardinalityType
  <1>3. /\ pc' \in [Producers -> PCs] /\ pc'[p] = place
        /\ \A q \in Producers : q # p => pc'[q] = pc[q]
    BY DEF GoTo
  <1>4. ASSUME (pc[p] = "announced") = (place = "announced")
        PROVE  Announcing' = Announcing
    BY <1>3, <1>4 DEF Announcing
  <1>5. ASSUME pc[p] # "announced", place = "announced"
        PROVE  Cardinality(Announcing') = Cardinality(Announcing) + 1
    <2>1. Announcing' = Announcing \cup {p} /\ p \notin Announcing
      BY <1>3, <1>5 DEF Announcing
    <2> QED
      BY <1>1, <2>1, FS_AddElement
  <1>6. ASSUME pc[p] = "announced", place # "announced"
        PROVE  /\ Cardinality(Announcing) > 0
               /\ Cardinality(Announcing') = Cardinality(Announcing) - 1
    <2>1. Announcing' = Announcing \ {p} /\ p \in Announcing
      BY <1>3, <1>6 DEF Announcing
    <2>2. Cardinality(Announcing') = Cardinality(Announcing) - 1
      BY <1>1, <2>1, FS_RemoveElement
    <2> QED
      BY <1>2, <2>2
  <1> QED
    BY <1>1, <1>2, <1>3, <1>4, <1>5, <1>6

\* The conjuncts of TypeOK that are not about the counter of the barrier.
OtherTypes ==
    /\ kind \in Kinds /\ synchron \in BOOLEAN
    /\ pc \in [Producers -> PCs]
    /\ reg \in Nat /\ pushes \in 0..MaxPush
    /\ counter \in Nat
    /\ startValue \in StartValues
    /\ protection \in Producers \cup {Nobody}
    /\ data \in [0..1 -> 0..MaxPush] /\ backIndex \in 0..1
    /\ notifications \in Nat /\ missed \in Nat
    /\ state \in TaskStates /\ reset \in Resets
    /\ ref \in 0..NoRef /\ seen \in 0..MaxPush /\ switches \in Nat
    /\ fired \in BOOLEAN /\ late \in BOOLEAN

TypeInv == OtherTypes /\ Bounded

\* There are not more announcements than producers.
LEMMA TypeHolds == TypeInv => TypeOK
  <1> SUFFICES ASSUME TypeInv
               PROVE  counter \in 0..(startValue + Cardinality(Producers))
    BY DEF TypeInv, OtherTypes, TypeOK
  <1>1. Announcing \in SUBSET Producers
    BY DEF Announcing
  <1>2. /\ Cardinality(Announcing) \in Nat /\ Cardinality(Producers) \in Nat
        /\ Cardinality(Announcing) <= Cardinality(Producers)
    BY <1>1, KindAssumption, FS_Subset, FS_CardinalityType
  <1>3. /\ counter \in Nat /\ startValue \in Nat
        /\ counter <= startValue + Cardinality(Announcing)
    BY KindAssumption DEF TypeInv, OtherTypes, Bounded
  <1> QED
    BY <1>2, <1>3

\* Nothing is announced at the beginning.
LEMMA TypeInit == Init => TypeInv
  <1> SUFFICES ASSUME Init
               PROVE  TypeInv
    OBVIOUS
  <1>1. OtherTypes
    <2>1. pc \in [Producers -> PCs] /\ data \in [0..1 -> 0..MaxPush]
      BY KindAssumption DEF Init, PCs
    <2>2. kind \in Kinds /\ synchron \in BOOLEAN /\ fired \in BOOLEAN
          /\ late \in BOOLEAN
      BY Zenon DEF Init
    <2>3. /\ startValue \in StartValues /\ counter \in Nat
          /\ pushes \in 0..MaxPush /\ seen \in 0..MaxPush
      BY KindAssumption DEF Init
    <2>4. /\ state \in TaskStates /\ reset \in Resets /\ ref \in 0..NoRef
          /\ protection \in Producers \cup {Nobody} /\ backIndex \in 0..1
      BY DEF Init, TaskStates, Resets, NoRef
    <2> QED
      BY <2>1, <2>2, <2>3, <2>4 DEF Init, OtherTypes
  <1>2. Announcing = {}
    BY DEF Init, Announcing
  <1>3. Cardinality(Announcing) = 0
    BY <1>2, FS_EmptySet
  <1>4. counter = startValue /\ startValue \in Nat
    BY KindAssumption DEF Init
  <1> QED
    BY <1>1, <1>3, <1>4 DEF TypeInv, Bounded

\* The steps of the producers keep the types.
LEMMA TypeProducer ==
    ASSUME TypeInv, NEW p \in Producers,
           Push(p) \/ Increase(p) \/ PushBarrier(p) \/ SendCopy(p) \/ SendSwitch(p)
    PROVE  TypeInv'
  <1>0. OtherTypes /\ Bounded /\ startValue \in Nat /\ counter \in Nat
    BY KindAssumption DEF TypeInv, OtherTypes
  <1>p. ASSUME NEW place \in {"idle", "copied", "notify", "store", "activate"},
               pc[p] # "announced", GoTo(p, place),
               UNCHANGED << counter, startValue >>
        PROVE  Bounded' /\ pc' \in [Producers -> PCs]
    <2>1. place \in PCs /\ pc \in [Producers -> PCs] /\ place # "announced"
      BY <1>0 DEF PCs, OtherTypes
    <2>2. Announcing' = Announcing /\ pc' \in [Producers -> PCs]
      BY <1>p, <2>1, AnnouncedChanges
    <2> QED
      BY <1>0, <1>p, <2>2 DEF Bounded
  <1>1. CASE NotifySync(p)
    <2>1. CASE IsActivated
      <3>1. /\ GoTo(p, "idle") /\ pc[p] = "notify" /\ protection' = Nobody
            /\ missed' = missed + 1
            /\ UNCHANGED << notifications, fixed, reg, pushes, counter, startValue,
                            fired, late, bufferVars, taskVars, readVars >>
        BY <1>1, <2>1 DEF NotifySync, Return
      <3>2. Bounded' /\ pc' \in [Producers -> PCs]
        BY <1>p, <3>1
      <3> QED
        BY <1>0, <3>1, <3>2
           DEF TypeInv, OtherTypes, fixed, bufferVars, taskVars, readVars
    <2>2. CASE ~IsActivated
      <3>1. /\ GoTo(p, "activate") /\ pc[p] = "notify"
            /\ notifications' = notifications + 1
            /\ UNCHANGED << missed, protection, fixed, reg, pushes, counter,
                            startValue, fired, late, bufferVars, taskVars, readVars >>
        BY <1>1, <2>2 DEF NotifySync
      <3>2. Bounded' /\ pc' \in [Producers -> PCs]
        BY <1>p, <3>1
      <3> QED
        BY <1>0, <3>1, <3>2
           DEF TypeInv, OtherTypes, fixed, bufferVars, taskVars, readVars
    <2> QED
      BY <2>1, <2>2
  <1>2. CASE NotifyLoad(p)
    <2>1. Bounded' /\ pc' \in [Producers -> PCs]
      BY <1>2, <1>p DEF NotifyLoad, barrierVars
    <2> QED
      BY <1>0, <1>2, <2>1
         DEF NotifyLoad, TypeInv, OtherTypes, fixed, barrierVars, bufferVars,
             inputVars, taskVars, readVars
  <1>3. CASE NotifyStore(p)
    <2>1. Bounded' /\ pc' \in [Producers -> PCs]
      BY <1>3, <1>p DEF NotifyStore, barrierVars
    <2> QED
      BY <1>0, <1>3, <2>1
         DEF NotifyStore, TypeInv, OtherTypes, fixed, barrierVars, bufferVars,
             taskVars, readVars
  <1>4. CASE Activate(p)
    <2>1. Bounded' /\ pc' \in [Producers -> PCs] /\ protection' = Nobody
      BY <1>4, <1>p DEF Activate, Return
    <2>2. state' \in TaskStates
      BY <1>0, <1>4 DEF Activate, Activation, OtherTypes, TaskStates
    <2> QED
      BY <1>0, <1>4, <2>1, <2>2
         DEF Activate, TypeInv, OtherTypes, fixed, bufferVars, inputVars, readVars
  <1>5. CASE Increase(p)
    <2>1. GoTo(p, "announced") /\ pc[p] = "idle" /\ counter' = counter + 1
          /\ startValue' = startValue
      BY <1>5 DEF Increase
    <2>2. pc \in [Producers -> PCs] /\ "announced" \in PCs
      BY <1>0 DEF OtherTypes, PCs
    <2>3. /\ pc' \in [Producers -> PCs] /\ Cardinality(Announcing) \in Nat
          /\ Cardinality(Announcing') = Cardinality(Announcing) + 1
      BY <2>1, <2>2, AnnouncedChanges
    <2>4. Bounded'
      BY <1>0, <2>1, <2>3 DEF Bounded
    <2> QED
      BY <1>0, <1>5, <2>1, <2>3, <2>4
         DEF Increase, TypeInv, OtherTypes, fixed, bufferVars, inputVars, taskVars,
             readVars
  <1>6. CASE PushBarrier(p)
    <2>1. PICK place \in {"notify", "idle"} :
             /\ GoTo(p, place) /\ protection' \in {p, protection}
      BY <1>6 DEF PushBarrier
    <2>2. /\ counter' = Remaining /\ startValue' = startValue
          /\ fired' = (fired \/ Completes) /\ late' = late
          /\ pushes' = pushes + 1 /\ pushes < MaxPush
          /\ UNCHANGED << fixed, reg, bufferVars, inputVars, taskVars, readVars >>
      BY <1>6 DEF PushBarrier
    <2>3. pc \in [Producers -> PCs] /\ place \in PCs /\ place # "announced"
      BY <1>0, <2>1 DEF OtherTypes, PCs
    <2>4. /\ pc' \in [Producers -> PCs]
          /\ Cardinality(Announcing) \in Nat /\ Cardinality(Announcing') \in Nat
          /\ \/ Announcing' = Announcing
             \/ Cardinality(Announcing') = Cardinality(Announcing) - 1
      BY <2>1, <2>3, AnnouncedChanges
    <2>5. Bounded'
      <3>1. PICK a \in Nat : a = Cardinality(Announcing)
        BY <2>4
      <3>2. PICK b \in Nat : b = Cardinality(Announcing')
        BY <2>4
      <3>3. (b = a \/ b = a - 1) /\ counter <= startValue + a
        BY <1>0, <2>4, <3>1, <3>2 DEF Bounded
      <3>4. counter' <= startValue + b
        BY <1>0, <2>2, <3>3 DEF Remaining
      <3> QED
        BY <2>2, <3>2, <3>4 DEF Bounded
    <2>6. counter' \in Nat
      BY <1>0, <2>2 DEF Remaining
    <2>7. pushes' \in 0..MaxPush
      BY <1>0, <2>2, KindAssumption DEF OtherTypes
    <2>8. fired' \in BOOLEAN
      BY <1>0, <2>2, Zenon DEF OtherTypes, Completes
    <2> QED
      BY <1>0, <2>1, <2>2, <2>4, <2>5, <2>6, <2>7, <2>8
         DEF TypeInv, OtherTypes, fixed, bufferVars, inputVars, taskVars, readVars
  <1>7. CASE SendCopy(p)
    <2>1. Bounded' /\ pc' \in [Producers -> PCs]
      BY <1>7, <1>p DEF SendCopy, barrierVars
    <2>2. pushes' = pushes + 1 /\ pushes < MaxPush
          /\ data' = [data EXCEPT ![Target] = pushes']
      BY <1>7 DEF SendCopy
    <2>3. pushes' \in 0..MaxPush
      BY <1>0, <2>2, KindAssumption DEF OtherTypes
    <2>4. data' \in [0..1 -> 0..MaxPush]
      BY <1>0, <2>2, <2>3 DEF OtherTypes
    <2> QED
      BY <1>0, <1>7, <2>1, <2>3, <2>4
         DEF SendCopy, TypeInv, OtherTypes, fixed, barrierVars, inputVars, taskVars,
             readVars
  <1>8. CASE SendSwitch(p)
    <2>1. Bounded' /\ pc' \in [Producers -> PCs]
      BY <1>8, <1>p DEF SendSwitch, barrierVars
    <2>2. backIndex' \in 0..1 /\ switches' \in Nat
      BY <1>0, <1>8 DEF SendSwitch, OtherTypes
    <2> QED
      BY <1>0, <1>8, <2>1, <2>2
         DEF SendSwitch, TypeInv, OtherTypes, fixed, barrierVars, inputVars, taskVars
  <1> QED
    BY <1>1, <1>2, <1>3, <1>4, <1>5, <1>6, <1>7, <1>8 DEF Push

\* The steps of the task keep the types.
LEMMA TypeTask ==
    ASSUME TypeInv, Execute
    PROVE  TypeInv'
  <1>0. OtherTypes /\ Bounded /\ startValue \in Nat /\ counter \in Nat
    BY KindAssumption DEF TypeInv, OtherTypes
  <1>a. UNCHANGED pushVars
    BY DEF Execute, Read, BeginReset, ResetChannel, ResetInput, EndReset
  <1>b. Announcing' = Announcing
    BY <1>a DEF pushVars, Announcing
  <1>c. Cardinality(Announcing) \in Nat
    <2>1. Announcing \in SUBSET Producers
      BY DEF Announcing
    <2> QED
      BY <2>1, KindAssumption, FS_Subset, FS_CardinalityType
  <1>1. CASE Read
    <2>1. ref' \in 0..NoRef /\ seen' \in 0..MaxPush /\ switches' = 0
      BY <1>0, <1>1 DEF Read, ValidIndex, OtherTypes, NoRef
    <2>2. Bounded'
      BY <1>0, <1>1, <1>b DEF Read, barrierVars, Bounded
    <2> QED
      BY <1>0, <1>1, <2>1, <2>2
         DEF Read, TypeInv, OtherTypes, fixed, pushVars, barrierVars, bufferVars,
             inputVars, taskVars
  <1>2. CASE BeginReset
    <2>1. Bounded'
      BY <1>0, <1>2, <1>b DEF BeginReset, barrierVars, Bounded
    <2> QED
      BY <1>0, <1>2, <2>1
         DEF BeginReset, TypeInv, OtherTypes, fixed, pushVars, barrierVars,
             bufferVars, inputVars, TaskStates, Resets, NoRef
  <1>3. CASE ResetChannel
    <2>1. /\ counter' \in {counter, startValue} /\ startValue' = startValue
          /\ fired' \in {fired, FALSE}
      BY <1>3 DEF ResetChannel, Reopened
    <2>2. Bounded'
      BY <1>0, <1>b, <1>c, <2>1 DEF Bounded
    <2> QED
      BY <1>0, <1>3, <2>1, <2>2
         DEF ResetChannel, TypeInv, OtherTypes, fixed, pushVars, bufferVars,
             inputVars, readVars, Resets
  <1>4. CASE ResetInput
    <2>1. Bounded'
      BY <1>0, <1>4, <1>b DEF ResetInput, barrierVars, Bounded
    <2>2. notifications' \in Nat /\ missed' \in Nat /\ state' \in TaskStates
      BY <1>0, <1>4 DEF ResetInput, OtherTypes, TaskStates
    <2> QED
      BY <1>0, <1>4, <2>1, <2>2
         DEF ResetInput, TypeInv, OtherTypes, fixed, pushVars, barrierVars,
             bufferVars, readVars, Resets
  <1>5. CASE EndReset
    <2>1. Bounded'
      BY <1>0, <1>5, <1>b DEF EndReset, barrierVars, Bounded
    <2>2. state' \in TaskStates
      BY <1>5 DEF EndReset, TaskStates
    <2> QED
      BY <1>0, <1>5, <2>1, <2>2
         DEF EndReset, TypeInv, OtherTypes, fixed, pushVars, barrierVars,
             bufferVars, inputVars, readVars, Resets
  <1> QED
    BY <1>1, <1>2, <1>3, <1>4, <1>5 DEF Execute

\* Each step keeps the types.
LEMMA TypeStep == TypeInv /\ [Next]_vars => TypeInv'
  <1>1. ASSUME TypeInv, UNCHANGED vars
        PROVE  TypeInv'
    BY <1>1 DEF TypeInv, OtherTypes, Bounded, Announcing, vars, fixed, pushVars,
                barrierVars, bufferVars, inputVars, taskVars, readVars
  <1> QED
    BY <1>1, TypeProducer, TypeTask DEF Next

\* TypeInv is an invariant of the channels.
LEMMA TypeInvariant == Spec => []TypeInv
  BY TypeInit, TypeStep, PTL DEF Spec

\* The variables keep their types; the barrier expects at most one push of each
\* producer that has announced one, besides those of a round.
THEOREM KindTypes == Spec => []TypeOK
  BY TypeInvariant, TypeHolds, PTL


-----------------------------------------------------------------------------
(* The announcements.                                                      *)

Notifying == { "notify", "store", "activate" }

\* The mutex of the barrier is held by the producer that notifies.
LockedPush ==
    \A p \in Producers :
       /\ pc[p] # "copied" /\ (pc[p] = "store" => ~synchron)
       /\ pc[p] \in Notifying <=> protection = p

\* A synchronous input has no notification of the round that is not over, and
\* not yet the one that is on its way.
NotYetNotified ==
    synchron /\ (~fired \/ \E p \in Producers : pc[p] = "notify")
       => notifications = 0

\* The barrier fires once in a round.  A task that runs, that is to run again,
\* or that begins its reset does so because of that; the push is over.
FiredOnce ==
    /\ protection # Nobody => fired
    /\ fired => counter = 0
    /\ (state \in {"RUN", "PENDING"} \/ missed > 0 \/ reset = "channel")
          => fired /\ protection = Nobody
    /\ missed <= 1
    /\ missed > 0 => synchron /\ reset = "input"
    /\ reset = "none" <=> state \in {"WAIT", "RUN"}
    /\ reset = "channel" => state = "RESET"
    /\ reset \in {"none", "end"} => NotYetNotified

\* The counter of a barrier that is opened by announcements.
Awaited == startValue = 0 => counter = Cardinality(Announcing)

AwaitInv == kind = "barrier" /\ ~late => LockedPush /\ FiredOnce /\ Awaited

\* The barrier has not fired and nothing is announced at the beginning.
LEMMA AwaitInit == Init => AwaitInv
  <1> SUFFICES ASSUME Init
               PROVE  LockedPush /\ FiredOnce /\ Awaited
    BY DEF AwaitInv
  <1>1. Announcing = {}
    BY DEF Init, Announcing
  <1>2. Awaited
    BY <1>1, FS_EmptySet DEF Init, Awaited
  <1>3. LockedPush
    BY KindAssumption DEF Init, LockedPush, Notifying
  <1>4. FiredOnce
    BY DEF Init, FiredOnce, NotYetNotified
  <1> QED
    BY <1>2, <1>3, <1>4

\* The producers of a barrier.
LEMMA AwaitProducer ==
    ASSUME TypeInv, AwaitInv, kind = "barrier", ~late, ~late', NEW p \in Producers,
           Push(p) \/ Increase(p) \/ PushBarrier(p) \/ SendCopy(p) \/ SendSwitch(p)
    PROVE  LockedPush' /\ FiredOnce' /\ Awaited'
  <1>0. /\ LockedPush /\ FiredOnce /\ Awaited /\ p # Nobody
        /\ counter \in Nat /\ startValue \in Nat
        /\ notifications \in Nat /\ missed \in Nat /\ reg \in Nat
        /\ pc \in [Producers -> PCs]
    BY KindAssumption DEF AwaitInv, TypeInv, OtherTypes
  <1>a. ASSUME NEW place \in {"idle", "notify", "store", "activate"},
               pc[p] # "announced", GoTo(p, place),
               UNCHANGED << counter, startValue >>
        PROVE  Awaited'
    <2>1. place \in PCs /\ place # "announced"
      BY DEF PCs
    <2>2. Announcing' = Announcing
      BY <1>0, <1>a, <2>1, AnnouncedChanges
    <2> QED
      BY <1>0, <1>a, <2>2 DEF Awaited
  <1>l. ASSUME NEW place \in {"idle", "notify", "store", "activate"}, GoTo(p, place),
               place = "store" => ~synchron, synchron' = synchron,
               \/ place = "idle" /\ protection' = Nobody /\ protection \in {p, Nobody}
               \/ place # "idle" /\ protection' = p /\ protection \in {p, Nobody}
        PROVE  LockedPush'
    <2>1. \A q \in Producers : q # Nobody /\ pc'[q] = IF q = p THEN place ELSE pc[q]
      BY <1>0, <1>l, KindAssumption DEF GoTo
    <2> QED
      BY <1>0, <1>l, <2>1 DEF LockedPush, Notifying
  <1>1. CASE NotifySync(p)
    <2>1. /\ synchron /\ pc[p] = "notify" /\ protection = p /\ fired
          /\ UNCHANGED << counter, startValue, fired, state, reset, synchron >>
      BY <1>0, <1>1 DEF NotifySync, LockedPush, Notifying, FiredOnce, fixed, taskVars
    <2>2. CASE IsActivated
      <3>1. /\ GoTo(p, "idle") /\ protection' = Nobody /\ missed' = missed + 1
            /\ notifications' = notifications
        BY <1>1, <2>2 DEF NotifySync, Return
      <3>2. missed = 0 /\ state \notin {"RUN", "PENDING"} /\ reset # "channel"
        BY <1>0, <2>1 DEF FiredOnce
      <3>3. reset = "input"
        <4>1. reset \notin {"none", "end"}
          BY <1>0, <2>1, <2>2 DEF FiredOnce, NotYetNotified, IsActivated
        <4>2. reset \in Resets
          BY DEF TypeInv, OtherTypes
        <4> QED
          BY <3>2, <4>1, <4>2 DEF Resets
      <3>4. FiredOnce'
        BY <1>0, <2>1, <3>1, <3>2, <3>3 DEF FiredOnce
      <3> QED
        BY <1>a, <1>l, <2>1, <3>1, <3>4
    <2>3. CASE ~IsActivated
      <3>1. /\ GoTo(p, "activate") /\ notifications' = notifications + 1
            /\ UNCHANGED << missed, protection >>
        BY <1>1, <2>3 DEF NotifySync
      <3>2. LockedPush' /\ Awaited'
        BY <1>a, <1>l, <2>1, <3>1
      <3>3. pc'[p] = "activate" /\ \A q \in Producers : q # p => pc'[q] # "notify"
        BY <1>0, <2>1, <3>1 DEF LockedPush, Notifying, GoTo
      <3>4. NotYetNotified'
        BY <2>1, <3>3 DEF NotYetNotified
      <3>5. FiredOnce'
        BY <1>0, <2>1, <3>1, <3>4 DEF FiredOnce
      <3> QED
        BY <3>2, <3>5
    <2> QED
      BY <2>2, <2>3
  <1>2. ASSUME NEW place \in {"store", "activate"}, GoTo(p, place),
               ~synchron, pc[p] \in {"notify", "store"},
               UNCHANGED << counter, startValue, protection, fired, missed, state,
                            reset, synchron >>
        PROVE  LockedPush' /\ FiredOnce' /\ Awaited'
    <2>1. protection = p
      BY <1>0, <1>2 DEF LockedPush, Notifying
    <2>2. LockedPush' /\ Awaited'
      BY <1>2, <1>a, <1>l, <2>1
    <2>3. FiredOnce'
      BY <1>0, <1>2 DEF FiredOnce, NotYetNotified
    <2> QED
      BY <2>2, <2>3
  <1>3. CASE NotifyLoad(p)
    <2>1. /\ GoTo(p, "store") /\ ~synchron /\ pc[p] = "notify"
          /\ UNCHANGED << counter, startValue, protection, fired, missed, state,
                          reset, synchron >>
      BY <1>3 DEF NotifyLoad, fixed, barrierVars, inputVars, taskVars
    <2> QED
      BY <1>2, <2>1
  <1>4. CASE NotifyStore(p)
    <2>1. /\ GoTo(p, "activate") /\ pc[p] = "store"
          /\ UNCHANGED << counter, startValue, protection, fired, missed, state,
                          reset, synchron >>
      BY <1>4 DEF NotifyStore, fixed, barrierVars, taskVars
    <2>2. ~synchron
      BY <1>0, <2>1 DEF LockedPush
    <2> QED
      BY <1>2, <2>1, <2>2
  <1>5. CASE Activate(p)
    <2>1. /\ pc[p] = "activate" /\ protection = p /\ fired
          /\ GoTo(p, "idle") /\ protection' = Nobody
          /\ state' = Activation
          /\ UNCHANGED << counter, startValue, fired, missed, notifications, reset,
                          synchron >>
      BY <1>0, <1>5
         DEF Activate, Return, LockedPush, Notifying, FiredOnce, fixed, inputVars
    <2>2. LockedPush' /\ Awaited'
      BY <1>a, <1>l, <2>1
    <2>3. missed = 0 /\ state \notin {"RUN", "PENDING"} /\ reset # "channel"
      BY <1>0, <2>1 DEF FiredOnce
    <2>4. NotYetNotified => NotYetNotified'
      <3>1. \A q \in Producers : pc'[q] = "notify" => pc[q] = "notify"
        BY <1>0, <2>1 DEF GoTo
      <3> QED
        BY <2>1, <3>1 DEF NotYetNotified
    <2>5. reset = "none" <=> state' \in {"WAIT", "RUN"}
      BY <1>0, <2>1 DEF Activation, FiredOnce
    <2>6. FiredOnce'
      BY <1>0, <2>1, <2>3, <2>4, <2>5 DEF FiredOnce
    <2> QED
      BY <2>2, <2>6
  <1>6. CASE Increase(p)
    <2>1. /\ pc[p] = "idle" /\ protection = Nobody /\ ~fired
          /\ counter' = counter + 1 /\ GoTo(p, "announced")
          /\ UNCHANGED << startValue, protection, fired, notifications, missed,
                          state, reset, synchron >>
      BY <1>6 DEF Increase, fixed, inputVars, taskVars
    <2>2. "announced" \in PCs
      BY DEF PCs
    <2>3. Awaited'
      <3>1. Cardinality(Announcing') = Cardinality(Announcing) + 1
        BY <1>0, <2>1, <2>2, AnnouncedChanges
      <3> QED
        BY <1>0, <2>1, <3>1 DEF Awaited
    <2>4. \A q \in Producers : pc'[q] = IF q = p THEN "announced" ELSE pc[q]
      BY <1>0, <2>1 DEF GoTo
    <2>5. LockedPush'
      BY <1>0, <2>1, <2>4 DEF LockedPush, Notifying
    <2>6. FiredOnce'
      BY <1>0, <2>1 DEF FiredOnce, NotYetNotified
    <2> QED
      BY <2>3, <2>5, <2>6
  <1>7. CASE PushBarrier(p)
    <2>1. /\ protection = Nobody
          /\ pc[p] = "announced" \/ (pc[p] = "idle" /\ startValue > 0)
          /\ counter' = Remaining /\ fired' = (fired \/ Completes)
          /\ UNCHANGED << startValue, notifications, missed, state, reset, synchron >>
      BY <1>7 DEF PushBarrier, fixed, inputVars, taskVars
    <2>2. PICK place \in {"idle", "notify"} :
             /\ GoTo(p, place)
             /\ \/ Completes /\ place = "notify" /\ protection' = p
                \/ ~Completes /\ place = "idle" /\ protection' = protection
      BY <1>7 DEF PushBarrier
    <2>3. place \in PCs /\ place # "announced" /\ protection = Nobody
      BY <1>7, <2>2 DEF PCs, PushBarrier
    <2>4. LockedPush'
      BY <1>l, <2>1, <2>2, <2>3
    <2>5. Awaited'
      <3>1. SUFFICES ASSUME startValue = 0
                     PROVE  counter' = Cardinality(Announcing')
        BY <2>1 DEF Awaited
      <3>2. pc[p] = "announced"
        BY <1>7, <3>1 DEF PushBarrier
      <3>3. /\ Cardinality(Announcing) > 0
            /\ Cardinality(Announcing') = Cardinality(Announcing) - 1
        BY <1>0, <2>2, <2>3, <3>2, AnnouncedChanges
      <3>4. counter = Cardinality(Announcing)
        BY <1>0, <3>1 DEF Awaited
      <3>5. counter' = counter - 1
        BY <1>0, <2>1, <3>3, <3>4 DEF Remaining
      <3> QED
        BY <3>3, <3>4, <3>5
    <2>6. FiredOnce'
      <3>1. CASE Completes
        <4>1. counter = 1 /\ counter' = 0 /\ ~fired /\ fired'
          <5>1. counter = 1 /\ counter' = 0
            BY <2>1, <3>1 DEF Completes, Remaining
          <5>2. fired'
            BY <2>1, <3>1, Zenon
          <5> QED
            BY <1>0, <5>1, <5>2 DEF FiredOnce
        <4>2. /\ state \notin {"RUN", "PENDING"} /\ missed = 0 /\ reset # "channel"
              /\ reset \in {"none", "end"} => (synchron => notifications = 0)
          BY <1>0, <4>1 DEF FiredOnce, NotYetNotified
        <4>3. reset' \in {"none", "end"} => NotYetNotified'
          BY <2>1, <4>2 DEF NotYetNotified
        <4>4. UNCHANGED << missed, state, reset, synchron >>
          BY <2>1
        <4>5. reset = "none" <=> state \in {"WAIT", "RUN"}
          BY <1>0 DEF FiredOnce
        <4>6. reset # "channel"
          BY <4>2
        <4> QED
          BY <4>1, <4>2, <4>3, <4>4, <4>5, <4>6 DEF FiredOnce
      <3>2. CASE ~Completes
        <4>1. fired' = fired /\ protection' = protection /\ GoTo(p, "idle")
          <5>1. fired \in BOOLEAN
            BY DEF TypeInv, OtherTypes
          <5>2. fired' = fired
            BY <2>1, <3>2, <5>1, Zenon
          <5> QED
            BY <2>2, <3>2, <5>2
        <4>2. fired => counter' = 0
          BY <1>0, <2>1 DEF FiredOnce, Remaining
        <4>3. \A q \in Producers : pc'[q] = "notify" => pc[q] = "notify"
          BY <1>0, <4>1 DEF GoTo
        <4>4. NotYetNotified => NotYetNotified'
          BY <2>1, <4>1, <4>3 DEF NotYetNotified
        <4> QED
          BY <1>0, <2>1, <4>1, <4>2, <4>4 DEF FiredOnce
      <3> QED
        BY <3>1, <3>2
    <2> QED
      BY <2>4, <2>5, <2>6
  <1>8. CASE SendCopy(p) \/ SendSwitch(p)
    BY <1>0, <1>8 DEF SendCopy, SendSwitch, LockedPush
  <1> QED
    BY <1>1, <1>3, <1>4, <1>5, <1>6, <1>7, <1>8 DEF Push

\* The task behind a barrier.  It does not open the barrier again before the
\* announced pushes have happened.
LEMMA AwaitTask ==
    ASSUME TypeInv, AwaitInv, kind = "barrier", ~late, Execute
    PROVE  LockedPush' /\ FiredOnce' /\ Awaited'
  <1>0. /\ LockedPush /\ FiredOnce /\ Awaited
        /\ counter \in Nat /\ notifications \in Nat /\ missed \in Nat
        /\ state \in TaskStates /\ reset \in Resets
    BY DEF AwaitInv, TypeInv, OtherTypes
  <1>a. UNCHANGED << pc, protection, startValue, synchron >>
    BY DEF Execute, Read, BeginReset, ResetChannel, ResetInput, EndReset, fixed,
           pushVars, barrierVars
  <1>b. LockedPush' /\ Announcing' = Announcing
    BY <1>0, <1>a DEF LockedPush, Announcing
  <1>1. CASE Read
    BY <1>1 DEF Read
  <1>2. CASE BeginReset
    <2>1. /\ state = "RUN" /\ state' = "RESET" /\ reset' = "channel"
          /\ UNCHANGED << counter, fired, notifications, missed >>
      BY <1>2 DEF BeginReset, barrierVars, inputVars
    <2>2. FiredOnce'
      BY <1>0, <1>a, <2>1 DEF FiredOnce
    <2> QED
      BY <1>0, <1>a, <1>b, <2>1, <2>2 DEF Awaited
  <1>3. CASE ResetChannel
    <2>1. /\ reset = "channel" /\ reset' = "input"
          /\ counter' = startValue /\ fired' = FALSE
          /\ UNCHANGED << notifications, missed, state >>
      BY <1>3 DEF ResetChannel, Reopened, inputVars
    <2>2. fired /\ protection = Nobody /\ state = "RESET" /\ missed = 0 /\ counter = 0
      BY <1>0, <2>1 DEF FiredOnce
    <2>3. FiredOnce'
      BY <1>a, <2>1, <2>2 DEF FiredOnce
    <2>4. Awaited'
      BY <1>0, <1>a, <1>b, <2>1, <2>2 DEF Awaited
    <2> QED
      BY <1>b, <2>3, <2>4
  <1>4. CASE ResetInput
    <2>1. /\ reset = "input" /\ reset' = "end" /\ UNCHANGED << counter, fired >>
          /\ \/ /\ missed > 0 /\ missed' = missed - 1 /\ state' = "PENDING"
             \/ /\ ~ (synchron /\ missed > 0) /\ missed' = missed /\ state' = state
                /\ notifications' = 0
      BY <1>4 DEF ResetInput, barrierVars
    <2>2. CASE missed > 0 /\ missed' = missed - 1 /\ state' = "PENDING"
      <3>1. fired /\ protection = Nobody /\ missed' = 0
        BY <1>0, <2>2 DEF FiredOnce
      <3>2. \A q \in Producers : pc'[q] # "notify"
        BY <1>0, <1>a, <3>1, KindAssumption DEF LockedPush, Notifying
      <3>3. NotYetNotified'
        BY <2>1, <3>1, <3>2 DEF NotYetNotified
      <3>4. FiredOnce'
        BY <1>0, <1>a, <2>1, <2>2, <3>1, <3>3 DEF FiredOnce
      <3> QED
        BY <1>0, <1>a, <1>b, <2>1, <3>4 DEF Awaited
    <2>3. CASE notifications' = 0 /\ missed' = missed /\ state' = state
      <3>1. ~ (synchron /\ missed > 0) \/ missed' = missed - 1
        BY <2>1
      <3>2. missed = 0
        BY <1>0, <2>3, <3>1 DEF FiredOnce
      <3>3. FiredOnce'
        BY <1>0, <1>a, <2>1, <2>3, <3>2 DEF FiredOnce, NotYetNotified
      <3> QED
        BY <1>0, <1>a, <1>b, <2>1, <3>3 DEF Awaited
    <2> QED
      BY <2>1, <2>2, <2>3
  <1>5. CASE EndReset
    <2>1. /\ reset = "end" /\ reset' = "none"
          /\ UNCHANGED << counter, fired, notifications, missed >>
          /\ \/ state = "PENDING" /\ state' = "RUN"
             \/ state' = "WAIT"
      BY <1>5 DEF EndReset, barrierVars, inputVars
    <2>2. FiredOnce'
      BY <1>0, <1>a, <2>1 DEF FiredOnce, NotYetNotified
    <2> QED
      BY <1>0, <1>a, <1>b, <2>1, <2>2 DEF Awaited
  <1> QED
    BY <1>1, <1>2, <1>3, <1>4, <1>5 DEF Execute

\* Each step of a barrier preserves the invariant.
LEMMA AwaitStep == TypeInv /\ AwaitInv /\ [Next]_vars => AwaitInv'
  <1> SUFFICES ASSUME TypeInv, AwaitInv, [Next]_vars, kind' = "barrier", ~late'
               PROVE  LockedPush' /\ FiredOnce' /\ Awaited'
    BY DEF AwaitInv
  <1>1. kind' = kind /\ late' \in {late, late \/ fired}
    BY DEF Next, Push, NotifySync, NotifyLoad, NotifyStore, Activate, Increase,
           PushBarrier, SendCopy, SendSwitch, Execute, Read, BeginReset,
           ResetChannel, ResetInput, EndReset, fixed, barrierVars, vars
  <1>2. ~late
    BY <1>1
  <1>3. CASE Next
    BY <1>1, <1>2, <1>3, AwaitProducer, AwaitTask DEF Next
  <1>4. CASE UNCHANGED vars
    <2>1. LockedPush /\ FiredOnce /\ Awaited
      BY <1>1, <1>2 DEF AwaitInv
    <2> QED
      BY <1>4, <2>1
         DEF LockedPush, FiredOnce, NotYetNotified, Awaited, Announcing, vars,
             fixed, pushVars, barrierVars, inputVars, taskVars
  <1> QED
    BY <1>3, <1>4

\* A barrier that is opened by announcements never expects a push that nobody
\* has announced, whoever increases it and when.  If it is not increased after
\* it has fired and before its reset, it expects exactly the pushes that are
\* announced and have not happened yet, with a synchronous input or not:
\* neither a round that overlaps the reset of the task nor one that closes the
\* barrier before all producers have come loses a push.
THEOREM PushesAwaited == Spec => []AnnouncedAwaited
  <1>1. TypeInv /\ AwaitInv => AnnouncedAwaited
    <2> SUFFICES ASSUME TypeInv, AwaitInv, kind = "barrier", startValue = 0
                 PROVE  counter <= Announced /\ (~late => counter = Announced)
      BY DEF AnnouncedAwaited
    <2>1. Announced = Cardinality(Announcing)
      BY DEF Announced, Announcing
    <2>2. Cardinality(Announcing) \in Nat
      <3>1. Announcing \in SUBSET Producers
        BY DEF Announcing
      <3> QED
        BY <3>1, KindAssumption, FS_Subset, FS_CardinalityType
    <2>3. counter <= Announced
      BY <2>1, <2>2 DEF TypeInv, Bounded
    <2>4. ~late => counter = Announced
      BY <2>1 DEF AwaitInv, Awaited
    <2> QED
      BY <2>3, <2>4
  <1> QED
    BY <1>1, AwaitInit, AwaitStep, TypeInvariant, PTL DEF Spec

=============================================================================
