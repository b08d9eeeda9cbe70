------------------------ MODULE ExecutorPool_proofs -------------------------
(***************************************************************************)
(* Proof that no executor gets lost and that none is woken up twice        *)
(* (EveryExecutorAccounted), for every number of executors and clients.    *)
(***************************************************************************)
EXTENDS ExecutorPool, SequenceTheorems, FiniteSetTheorems, TLAPS

\* The groups of variables in UNCHANGED.
USE DEF queueVars, signalVars, waitVars, bounds

\* The free list without its head, for a list without duplicates.
LEMMA TailOfFree ==
    ASSUME NEW S, NEW s \in Seq(S), s # << >>,
           \A j, k \in DOMAIN s : s[j] = s[k] => j = k
    PROVE  /\ Head(s) \in S /\ Head(s) \in Range(s)
           /\ Tail(s) \in Seq(S)
           /\ \A j, k \in DOMAIN Tail(s) : Tail(s)[j] = Tail(s)[k] => j = k
           /\ Range(Tail(s)) = Range(s) \ {Head(s)}
  <1> DEFINE u == Tail(s)
  <1>1. Len(s) \in Nat /\ Len(s) > 0 /\ DOMAIN s = 1..Len(s) /\ Head(s) = s[1]
    OBVIOUS
  <1>2. u \in Seq(S) /\ Len(u) = Len(s) - 1 /\ DOMAIN u = 1..Len(u)
    OBVIOUS
  <1>3. \A k \in 1..Len(u) : u[k] = s[k + 1]
    OBVIOUS
  <1>4. \A j, k \in DOMAIN u : u[j] = u[k] => j = k
    BY <1>1, <1>2, <1>3
  <1>5. Head(s) \in S /\ Head(s) \in Range(s)
    BY <1>1 DEF Range
  <1>6. Range(u) \subseteq Range(s) \ {Head(s)}
    BY <1>1, <1>2, <1>3 DEF Range
  <1>7. ASSUME NEW x \in Range(s), x # Head(s)
        PROVE  x \in Range(u)
    <2>1. PICK k \in DOMAIN s : s[k] = x
      BY DEF Range
    <2>2. k - 1 \in 1..Len(u) /\ u[k - 1] = x
      BY <1>1, <1>2, <1>3, <1>7, <2>1
    <2> QED
      BY <1>2, <2>2 DEF Range
  <1> QED
    BY <1>2, <1>4, <1>5, <1>6, <1>7

\* The free list after an executor that was not in it is entered at its head.
LEMMA ConsFree ==
    ASSUME NEW S, NEW s \in Seq(S), NEW x \in S, x \notin Range(s),
           \A j, k \in DOMAIN s : s[j] = s[k] => j = k
    PROVE  /\ << x >> \o s \in Seq(S)
           /\ \A j, k \in DOMAIN (<< x >> \o s) :
                 (<< x >> \o s)[j] = (<< x >> \o s)[k] => j = k
           /\ Range(<< x >> \o s) = Range(s) \cup {x}
  <1> DEFINE u == << x >> \o s
  <1>1. u \in Seq(S) /\ Len(u) = Len(s) + 1 /\ DOMAIN u = 1..Len(u)
    OBVIOUS
  <1>2. Len(s) \in Nat /\ DOMAIN s = 1..Len(s)
    OBVIOUS
  <1>3. u[1] = x /\ \A k \in 2..Len(u) : k - 1 \in DOMAIN s /\ u[k] = s[k - 1]
    OBVIOUS
  <1>4. \A k \in DOMAIN s : k + 1 \in DOMAIN u /\ u[k + 1] = s[k]
    OBVIOUS
  <1> HIDE DEF u
  <1>5. \A k \in 2..Len(u) : u[k] # x
    BY <1>1, <1>2, <1>3 DEF Range
  <1>6. \A j, k \in DOMAIN u : u[j] = u[k] => j = k
    <2> SUFFICES ASSUME NEW j \in DOMAIN u, NEW k \in DOMAIN u, u[j] = u[k]
                 PROVE  j = k
      OBVIOUS
    <2>1. CASE j = 1 \/ k = 1
      BY <1>1, <1>2, <1>3, <1>5, <2>1
    <2>2. CASE j # 1 /\ k # 1
      <3>1. j \in 2..Len(u) /\ k \in 2..Len(u)
        BY <1>1, <1>2, <2>2
      <3>2. s[j - 1] = s[k - 1] /\ j - 1 \in DOMAIN s /\ k - 1 \in DOMAIN s
        BY <1>3, <3>1
      <3>3. j - 1 = k - 1
        BY <3>2
      <3> QED
        BY <1>1, <1>2, <3>1, <3>3
    <2> QED
      BY <2>1, <2>2
  <1>7. Range(u) \subseteq Range(s) \cup {x}
    <2> SUFFICES ASSUME NEW k \in DOMAIN u PROVE u[k] \in Range(s) \cup {x}
      BY DEF Range
    <2>1. k = 1 \/ k \in 2..Len(u)
      BY <1>1, <1>2
    <2> QED
      BY <1>3, <2>1 DEF Range
  <1>8. Range(s) \cup {x} \subseteq Range(u)
    <2>1. x \in Range(u)
      BY <1>1, <1>2, <1>3 DEF Range
    <2>2. Range(s) \subseteq Range(u)
      BY <1>4 DEF Range
    <2> QED
      BY <2>1, <2>2
  <1> QED
    BY <1>1, <1>6, <1>7, <1>8 DEF u

-----------------------------------------------------------------------------


\* What a wait of the terminating thread relies on.
WaitsForSome == pc[Terminator] = "blocked" => occupied > 0

Accounted == TypeOK /\ EveryExecutorAccounted /\ WaitsForSome

\* In the initial state every executor waits in the free list.
LEMMA InitAccounted == Init => Accounted
  <1> SUFFICES ASSUME Init PROVE Accounted
    OBVIOUS
  <1> DEFINE N == Cardinality(Executors)
  <1>1. N \in Nat
    BY PoolAssumption, FS_CardinalityType
  <1>2. /\ free \in [1..N -> Executors] /\ Range(free) = Executors
        /\ \A j, k \in DOMAIN free : free[j] = free[k] => j = k
    BY DEF Init, IsInjective
  <1>3. free \in Seq(Executors)
    BY <1>1, <1>2
  <1>4. target \in [Signallers -> Executors]
    BY DEF Init
  <1>5. pc \in [Processes -> PCs] /\ pc[Terminator] = "idle"
    <2>1. "wait" \in PCs /\ "idle" \in PCs
      BY DEF PCs
    <2>2. Terminator \in Processes /\ Terminator \notin Executors
      BY PoolAssumption DEF Processes
    <2> QED
      BY <2>1, <2>2 DEF Init
  <1>6. resume \in [Signallers -> { "idle", "handle", "execute" }]
    BY DEF Init
  <1>7. TypeOK
    <2>1. wakeUp \in [Executors -> BOOLEAN]
      BY DEF Init
    <2>2. running \in BOOLEAN /\ emptyFlag \in BOOLEAN /\ emptyNotified \in BOOLEAN
      BY Zenon DEF Init
    <2>3. /\ queue \in Nat /\ pending \in Nat /\ occupied \in Nat
          /\ performed \in 0..MaxPerform /\ fired \in 0..MaxFire
      BY PoolAssumption DEF Init
    <2> QED
      BY <1>3, <1>4, <1>5, <1>6, <2>1, <2>2, <2>3 DEF TypeOK
  <1>8. \A p \in Signallers : pc[p] # "notify"
    BY DEF Init, Signallers, Processes
  <1>9. \A e \in Executors : pc[e] = "wait" /\ ~wakeUp[e]
    BY DEF Init, Signallers, Processes
  <1>10. EveryExecutorAccounted
    BY <1>2, <1>8, <1>9 DEF EveryExecutorAccounted, Targeted
  <1> QED
    BY <1>5, <1>7, <1>10 DEF Accounted, WaitsForSome

\* The executors outside the free list can be counted.
LEMMA FreeCount ==
    ASSUME Accounted
    PROVE  Cardinality(Executors) - Len(free) \in Nat
  <1> DEFINE I == 1..Len(free)
  <1>1. Len(free) \in Nat /\ free \in [I -> Executors] /\ DOMAIN free = I
    BY DEF Accounted, TypeOK
  <1>2. free \in Injection(I, Executors)
    BY <1>1 DEF Accounted, EveryExecutorAccounted, Injection, IsInjective
  <1>3. IsFiniteSet(I) /\ Cardinality(I) = Len(free)
    BY <1>1, FS_Interval
  <1>4. Cardinality(I) <= Cardinality(Executors) /\ Cardinality(Executors) \in Nat
    BY <1>2, PoolAssumption, FS_Injection, FS_CardinalityType
  <1> QED
    BY <1>1, <1>3, <1>4

-----------------------------------------------------------------------------

\* Every step preserves the types.
LEMMA TypeStep ==
    ASSUME Accounted, Next
    PROVE  TypeOK' /\ WaitsForSome'
  <1> USE DEF TypeOK
  <1>0. TypeOK /\ WaitsForSome
    BY DEF Accounted
  <1>1. /\ Executors \subseteq Signallers /\ Clients \subseteq Signallers
        /\ Clock \in Signallers /\ Signallers \subseteq Processes
        /\ Terminator \in Processes \ Signallers
    BY PoolAssumption DEF Signallers, Processes
  <1>2. ASSUME NEW p \in Signallers, NEW l \in PCs, Goto(p, l)
        PROVE  pc' \in [Processes -> PCs] /\ pc'[Terminator] = pc[Terminator]
    BY <1>0, <1>1, <1>2 DEF Goto
  <1>3. ASSUME NEW p \in Executors \cup Clients, Accept(p) \/ Trigger(p)
        PROVE  TypeOK' /\ WaitsForSome'
    <2>1. pc[p] \in { "idle", "handle", "execute" } /\ p \in Signallers
      BY <1>1, <1>3 DEF Accept, Trigger, Active
    <2>2. resume' \in [Signallers -> { "idle", "handle", "execute" }]
      BY <1>0, <1>3, <2>1 DEF Accept, Trigger
    <2>3. pc' \in [Processes -> PCs] /\ pc'[Terminator] = pc[Terminator]
      BY <1>2, <1>3, <2>1 DEF Accept, Trigger, PCs
    <2>4. performed' \in 0..MaxPerform /\ fired' \in 0..MaxFire
      BY <1>0, <1>3, PoolAssumption DEF Accept, Trigger
    <2> QED
      BY <1>0, <1>3, <2>2, <2>3, <2>4 DEF Accept, Trigger, WaitsForSome
  <1>4. ASSUME NEW p \in Signallers, Signal(p)
        PROVE  TypeOK' /\ WaitsForSome'
    <2>1. resume[p] \in PCs /\ target[p] \in Executors
      BY <1>0 DEF PCs
    <2>2. pc' \in [Processes -> PCs] /\ pc'[Terminator] = pc[Terminator]
      BY <1>2, <1>4, <2>1 DEF Signal, Queue, TakeFree, NoneFree, NotifyExecutor, PCs
    <2>3. free # << >> => Head(free) \in Executors /\ Tail(free) \in Seq(Executors)
      BY <1>0
    <2>4. CASE Queue(p) \/ NoneFree(p)
      BY <1>0, <2>2, <2>4 DEF Queue, NoneFree, WaitsForSome
    <2>5. CASE TakeFree(p)
      BY <1>0, <2>2, <2>3, <2>5 DEF TakeFree, WaitsForSome
    <2>6. CASE NotifyExecutor(p)
      BY <1>0, <2>1, <2>2, <2>6 DEF NotifyExecutor, WaitsForSome
    <2> QED
      BY <1>4, <2>4, <2>5, <2>6 DEF Signal
  <1>5. ASSUME NEW e \in Executors, Execute(e)
        PROVE  TypeOK' /\ WaitsForSome'
    <2>0. PICK l \in PCs : Goto(e, l)
      <3>1. { "events", "handle", "poll", "execute", "park", "wait" } \subseteq PCs
        BY DEF PCs
      <3> QED
        BY <1>5, <3>1
           DEF Execute, WakeUp, NextEvent, NoEvent, NextTask, NoTask, Return, Park
    <2>1. pc' \in [Processes -> PCs] /\ pc'[Terminator] = pc[Terminator]
      BY <1>1, <1>2, <2>0
    <2>2. << e >> \o free \in Seq(Executors)
      BY <1>0
    <2>3. CASE WakeUp(e)
      BY <1>0, <2>1, <2>3 DEF WakeUp, WaitsForSome
    <2>6. CASE NextEvent(e) \/ NoEvent(e)
      BY <1>0, <2>1, <2>6 DEF NextEvent, NoEvent, WaitsForSome
    <2>4. CASE NextTask(e) \/ NoTask(e) \/ Return(e)
      BY <1>0, <2>1, <2>4 DEF NextTask, NoTask, Return, WaitsForSome
    <2>5. CASE Park(e)
      BY <1>0, <2>1, <2>2, <2>5 DEF Park, WaitsForSome
    <2> QED
      BY <1>5, <2>3, <2>4, <2>5, <2>6 DEF Execute
  <1>6. ASSUME Elapse \/ ClockCheck
        PROVE  TypeOK' /\ WaitsForSome'
    <2>1. pc' \in [Processes -> PCs] /\ pc'[Terminator] = pc[Terminator]
      BY <1>1, <1>2, <1>6 DEF Elapse, ClockCheck, PCs
    <2>2. fired' \in 0..MaxFire
      BY <1>0, <1>6, PoolAssumption DEF Elapse, ClockCheck
    <2> QED
      BY <1>0, <1>6, <2>1, <2>2 DEF Elapse, ClockCheck, WaitsForSome
  <1>7. ASSUME Terminate
        PROVE  TypeOK' /\ WaitsForSome'
    <2>0. pc' = pc \/ \E l \in PCs : Goto(Terminator, l)
      <3>1. { "dequeue", "clean", "enter", "blocked", "done" } \subseteq PCs
        BY DEF PCs
      <3> QED
        BY <1>7, <3>1 DEF Terminate, Stop, DequeueAll, RemoveTask, EnterWait, LeaveWait
    <2>1. pc' \in [Processes -> PCs]
      BY <1>0, <1>1, <2>0 DEF Goto
    <2>2. CASE Stop \/ DequeueAll \/ RemoveTask
      <3>1. pc'[Terminator] # "blocked"
        BY <1>0, <1>1, <2>2 DEF Stop, DequeueAll, RemoveTask, Goto
      <3>2. running' \in BOOLEAN
        BY <1>0, <2>2, Zenon DEF Stop, DequeueAll, RemoveTask
      <3>3. queue' \in Nat /\ pending' \in Nat
        BY <1>0, <2>2 DEF Stop, DequeueAll, RemoveTask
      <3> QED
        BY <1>0, <2>1, <2>2, <3>1, <3>2, <3>3 DEF Stop, DequeueAll, RemoveTask, WaitsForSome
    <2>3. CASE EnterWait
      <3>1. occupied' \in Nat /\ (pc'[Terminator] = "blocked" => occupied' > 0)
        BY <1>0, <1>1, <2>3, FreeCount DEF EnterWait, Goto
      <3> QED
        BY <1>0, <2>1, <2>3, <3>1 DEF EnterWait, WaitsForSome
    <2>4. CASE LeaveWait
      <3>1. occupied' \in Nat /\ (pc'[Terminator] = "blocked" => occupied' > 0)
        BY <1>0, <1>1, <2>4 DEF LeaveWait, Goto, WaitsForSome
      <3> QED
        BY <1>0, <2>1, <2>4, <3>1 DEF LeaveWait, WaitsForSome
    <2> QED
      BY <1>7, <2>2, <2>3, <2>4 DEF Terminate
  <1> QED
    BY <1>3, <1>4, <1>5, <1>6, <1>7 DEF Next

-----------------------------------------------------------------------------
(* Every step keeps the executors accounted for.                           *)

\* The places of one executor: in the free list, targeted, notified, at work.
Accounts(e) ==
    LET isFree == e \in Range(free) IN
    /\ \A p, q \in Targeted(e) : p = q
    /\ pc[e] # "wait" => ~isFree /\ Targeted(e) = {} /\ ~wakeUp[e]
    /\ pc[e] = "wait" =>
          \/ isFree /\ Targeted(e) = {} /\ ~wakeUp[e]
          \/ ~isFree /\ Targeted(e) # {} /\ ~wakeUp[e]
          \/ ~isFree /\ Targeted(e) = {} /\ wakeUp[e]

\* An executor keeps its place when none of its places changes.
LEMMA AccountsKept ==
    ASSUME NEW e \in Executors, Accounts(e),
           e \in Range(free') <=> e \in Range(free),
           Targeted(e)' = Targeted(e),
           wakeUp'[e] = wakeUp[e],
           pc'[e] = "wait" <=> pc[e] = "wait"
    PROVE  Accounts(e)'
  BY DEF Accounts

\* The executors a step of one signaller neither takes nor notifies remain
\* targeted by the same signallers.
LEMMA TargetedKept ==
    ASSUME TypeOK, NEW p \in Processes, NEW l, Goto(p, l),
           target' = target, p \in Signallers => pc[p] # "notify" /\ l # "notify"
    PROVE  \A e \in Executors : Targeted(e)' = Targeted(e)
  BY DEF TypeOK, Goto, Targeted, Signallers, Processes

\* A process that does not wait as an executor, and goes on without waiting,
\* disturbs no executor if it leaves their places alone.
LEMMA PlaceKept ==
    ASSUME Accounted, NEW p \in Processes, NEW l, Goto(p, l), l # "wait",
           p \in Executors => pc[p] # "wait",
           p \in Signallers => pc[p] # "notify" /\ l # "notify",
           UNCHANGED << free, wakeUp, target >>
    PROVE  EveryExecutorAccounted'
  <1>1. \A e \in Executors : Targeted(e)' = Targeted(e)
    BY TargetedKept DEF Accounted
  <1>2. \A e \in Executors : pc'[e] = "wait" <=> pc[e] = "wait"
    BY DEF Accounted, TypeOK, Goto, Processes, Signallers
  <1>3. \A e \in Executors : Accounts(e)'
    BY <1>1, <1>2, AccountsKept DEF Accounted, EveryExecutorAccounted, Accounts
  <1> QED
    BY <1>3 DEF EveryExecutorAccounted, Accounts, Accounted

\* Scheduler::signal takes an executor from the free list and notifies it.
LEMMA SignalAccounted ==
    ASSUME Accounted, NEW p \in Signallers, Signal(p)
    PROVE  EveryExecutorAccounted'
  <1> DEFINE f == IF pc[p] = "signal" THEN Head(free) ELSE target[p]
  <1>0. TypeOK /\ EveryExecutorAccounted /\ p \in Processes
    BY DEF Accounted, Processes
  <1>1. \A e \in Executors : Accounts(e)
    BY <1>0 DEF EveryExecutorAccounted, Accounts
  <1>2. pc[p] # "wait" /\ resume[p] \in { "idle", "handle", "execute" }
    BY <1>0 DEF Signal, Queue, TakeFree, NoneFree, NotifyExecutor, TypeOK
  <1>3. CASE Queue(p) \/ NoneFree(p)
    BY <1>0, <1>2, <1>3, PlaceKept DEF Queue, NoneFree
  <1>4. CASE TakeFree(p)
    <2>1. /\ Head(free) \in Executors /\ Head(free) \in Range(free)
          /\ \A j, k \in DOMAIN free' : free'[j] = free'[k] => j = k
          /\ Range(free') = Range(free) \ {Head(free)}
      BY <1>0, <1>4, TailOfFree DEF TakeFree, TypeOK, EveryExecutorAccounted
    <2>2. /\ pc' = [pc EXCEPT ![p] = "notify"] /\ wakeUp' = wakeUp
          /\ target' = [target EXCEPT ![p] = Head(free)] /\ pc[p] = "signal"
      BY <1>4 DEF TakeFree, Goto
    <2>3. \A e \in Executors : Targeted(e)' = IF e = Head(free)
                                              THEN Targeted(e) \cup {p}
                                              ELSE Targeted(e)
      BY <1>0, <2>2 DEF Targeted, TypeOK, Processes
    <2>4. \A e \in Executors : pc'[e] = "wait" <=> pc[e] = "wait"
      BY <1>0, <2>2 DEF TypeOK, Processes, Signallers
    <2>5. Targeted(Head(free)) = {}
      BY <1>1, <2>1 DEF Accounts
    <2>6. ASSUME NEW e \in Executors PROVE Accounts(e)'
      <3>1. CASE e = Head(free)
        BY <1>1, <2>1, <2>2, <2>3, <2>4, <2>5, <3>1 DEF Accounts
      <3>2. CASE e # Head(free)
        BY <1>1, <2>1, <2>2, <2>3, <2>4, <3>2, AccountsKept
      <3> QED
        BY <3>1, <3>2
    <2> QED
      BY <2>1, <2>6 DEF EveryExecutorAccounted, Accounts
  <1>5. CASE NotifyExecutor(p)
    <2> DEFINE t == target[p]
    <2>1. t \in Executors /\ p \in Targeted(t)
      BY <1>0, <1>5 DEF NotifyExecutor, Targeted, TypeOK
    <2>2. /\ pc' = [pc EXCEPT ![p] = resume[p]] /\ target' = target /\ free' = free
          /\ wakeUp' = [wakeUp EXCEPT ![t] = TRUE] /\ pc[p] = "notify"
      BY <1>5 DEF NotifyExecutor, Goto
    <2>3. \A e \in Executors : Targeted(e)' = Targeted(e) \ {p}
      BY <1>0, <1>2, <2>2 DEF Targeted, TypeOK, Processes
    <2>4. \A e \in Executors : pc'[e] = "wait" <=> pc[e] = "wait"
      BY <1>0, <1>2, <2>2 DEF TypeOK, Processes, Signallers
    <2>5. Targeted(t) = {p} /\ t \notin Range(free) /\ pc[t] = "wait"
      BY <1>1, <2>1 DEF Accounts
    <2>6. ASSUME NEW e \in Executors PROVE Accounts(e)'
      <3>1. CASE e = t
        <4>1. wakeUp'[t] /\ Targeted(t)' = {}
          BY <1>0, <2>1, <2>2, <2>3, <2>5 DEF TypeOK
        <4> QED
          BY <2>2, <2>4, <2>5, <3>1, <4>1 DEF Accounts
      <3>2. CASE e # t
        <4>1. wakeUp'[e] = wakeUp[e] /\ Targeted(e)' = Targeted(e)
          BY <1>0, <2>1, <2>2, <2>3, <3>2 DEF TypeOK, Targeted
        <4> QED
          BY <1>1, <2>2, <2>4, <4>1, AccountsKept
      <3> QED
        BY <3>1, <3>2
    <2> QED
      BY <1>0, <2>2, <2>6 DEF EveryExecutorAccounted, Accounts
  <1> QED
    BY <1>3, <1>4, <1>5 DEF Signal

\* An executor wakes up, works and parks.
LEMMA ExecuteAccounted ==
    ASSUME Accounted, NEW x \in Executors, Execute(x)
    PROVE  EveryExecutorAccounted'
  <1>0. TypeOK /\ EveryExecutorAccounted /\ x \in Processes /\ x \in Signallers
    BY DEF Accounted, Processes, Signallers
  <1>1. \A e \in Executors : Accounts(e)
    BY <1>0 DEF EveryExecutorAccounted, Accounts
  <1>2. CASE WakeUp(x)
    <2>1. /\ pc' = [pc EXCEPT ![x] = "events"] /\ target' = target /\ free' = free
          /\ wakeUp' = [wakeUp EXCEPT ![x] = FALSE] /\ pc[x] = "wait" /\ wakeUp[x]
      BY <1>2 DEF WakeUp, Goto
    <2>2. \A e \in Executors : Targeted(e)' = Targeted(e)
      BY <1>0, <1>2, TargetedKept DEF WakeUp
    <2>3. ASSUME NEW e \in Executors PROVE Accounts(e)'
      <3>1. CASE e = x
        <4>1. ~wakeUp'[x] /\ pc'[x] = "events"
          BY <1>0, <2>1 DEF TypeOK
        <4> QED
          BY <1>1, <2>1, <2>2, <3>1, <4>1 DEF Accounts
      <3>2. CASE e # x
        <4>1. wakeUp'[e] = wakeUp[e] /\ pc'[e] = pc[e]
          BY <1>0, <2>1, <3>2 DEF TypeOK, Processes, Signallers
        <4> QED
          BY <1>1, <2>1, <2>2, <4>1, AccountsKept
      <3> QED
        BY <3>1, <3>2
    <2> QED
      BY <1>0, <2>1, <2>3 DEF EveryExecutorAccounted, Accounts
  <1>3. CASE NextEvent(x) \/ NoEvent(x) \/ NextTask(x) \/ NoTask(x) \/ Return(x)
    BY <1>0, <1>3, PlaceKept DEF NextEvent, NoEvent, NextTask, NoTask, Return
  <1>4. CASE Park(x)
    <2>1. /\ pc' = [pc EXCEPT ![x] = "wait"] /\ target' = target
          /\ wakeUp' = wakeUp /\ free' = << x >> \o free /\ pc[x] = "park"
      BY <1>4 DEF Park, Goto
    <2>2. x \notin Range(free) /\ Targeted(x) = {} /\ ~wakeUp[x]
      BY <1>1, <2>1 DEF Accounts
    <2>3. /\ \A j, k \in DOMAIN free' : free'[j] = free'[k] => j = k
          /\ Range(free') = Range(free) \cup {x}
      BY <1>0, <2>1, <2>2, ConsFree DEF TypeOK, EveryExecutorAccounted
    <2>4. \A e \in Executors : Targeted(e)' = Targeted(e)
      BY <1>0, <1>4, TargetedKept DEF Park
    <2>5. ASSUME NEW e \in Executors PROVE Accounts(e)'
      <3>1. CASE e = x
        <4>1. pc'[x] = "wait"
          BY <1>0, <2>1 DEF TypeOK
        <4> QED
          BY <2>1, <2>2, <2>3, <2>4, <3>1, <4>1 DEF Accounts
      <3>2. CASE e # x
        <4>1. pc'[e] = pc[e]
          BY <1>0, <2>1, <3>2 DEF TypeOK, Processes, Signallers
        <4> QED
          BY <1>1, <2>1, <2>3, <2>4, <3>2, <4>1, AccountsKept
      <3> QED
        BY <3>1, <3>2
    <2> QED
      BY <2>3, <2>5 DEF EveryExecutorAccounted, Accounts
  <1> QED
    BY <1>2, <1>3, <1>4 DEF Execute

\* Every step, and stuttering, preserves the invariant.
LEMMA NextAccounted ==
    ASSUME Accounted, [Next]_vars
    PROVE  Accounted'
  <1>1. CASE Next
    <2>1. EveryExecutorAccounted'
      <3>1. /\ Executors \subseteq Processes /\ Clients \subseteq Processes
            /\ Clock \in Processes /\ Terminator \in Processes \ Signallers
            /\ Clock \notin Executors /\ Executors \subseteq Signallers
        BY PoolAssumption DEF Signallers, Processes
      <3>2. ASSUME NEW p \in Executors \cup Clients, Accept(p) \/ Trigger(p)
            PROVE  EveryExecutorAccounted'
        BY <3>1, <3>2, PlaceKept DEF Accept, Trigger, Active
      <3>3. CASE Elapse \/ ClockCheck
        BY <3>1, <3>3, PlaceKept DEF Elapse, ClockCheck
      <3>4. CASE Terminate
        <4>1. \/ \E l \in { "dequeue", "clean", "enter", "blocked", "done" } : Goto(Terminator, l)
              \/ UNCHANGED pc
          BY <3>4 DEF Terminate, Stop, DequeueAll, RemoveTask, EnterWait, LeaveWait
        <4>2. UNCHANGED << free, wakeUp, target >>
          BY <3>4 DEF Terminate, Stop, DequeueAll, RemoveTask, EnterWait, LeaveWait
        <4>3. CASE UNCHANGED pc
          BY <4>2, <4>3 DEF Accounted, EveryExecutorAccounted, Targeted
        <4>4. CASE \E l \in { "dequeue", "clean", "enter", "blocked", "done" } : Goto(Terminator, l)
          BY <3>1, <4>2, <4>4, PlaceKept
        <4> QED
          BY <4>1, <4>3, <4>4
      <3> QED
        BY <1>1, <3>2, <3>3, <3>4, SignalAccounted, ExecuteAccounted DEF Next
    <2> QED
      BY <1>1, <2>1, TypeStep DEF Accounted
  <1>2. CASE UNCHANGED vars
    BY <1>2 DEF Accounted, TypeOK, EveryExecutorAccounted, WaitsForSome, Targeted, vars
  <1> QED
    BY <1>1, <1>2

-----------------------------------------------------------------------------

\* No executor of the pool gets lost and none is woken up twice, whatever the
\* threads and terminate do.
THEOREM PoolInvariant == Spec => []EveryExecutorAccounted
  <1>1. Accounted /\ [Next]_vars => Accounted'
    BY NextAccounted
  <1>2. Accounted => EveryExecutorAccounted
    BY DEF Accounted
  <1> QED
    BY InitAccounted, <1>1, <1>2, PTL DEF Spec

\* TypeOK holds in every reachable state; in particular the counters of queued
\* tasks and of occupied executors never fall below zero.
THEOREM PoolTypes == Spec => []TypeOK
  <1>1. Accounted /\ [Next]_vars => Accounted'
    BY NextAccounted
  <1>2. Accounted => TypeOK
    BY DEF Accounted
  <1> QED
    BY InitAccounted, <1>1, <1>2, PTL DEF Spec

=============================================================================
