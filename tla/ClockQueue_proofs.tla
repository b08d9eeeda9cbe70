------------------------- MODULE ClockQueue_proofs -------------------------
(***************************************************************************)
(* Proofs about the queue of the clock, for any number of events and any   *)
(* times: the list stays sorted and linked (WellLinked), the timer is      *)
(* started exactly for the event that is the next one of the future        *)
(* (TimerForFirst), the thread does not sleep without a limit while there  *)
(* is one (SleepIsBounded), and the queue implements a set of events       *)
(* (EventSet).                                                             *)
(***************************************************************************)
EXTENDS ClockQueue, TLAPS, FiniteSetTheorems, WellFoundedInduction,
        SequenceTheorems

USE DEF pointers, Null

-----------------------------------------------------------------------------
(* Linked lists and the sequences they stand for.                          *)

\* The sequence s is the list from first on along link.
IsList(s, first, link) ==
    /\ first = IF s = << >> THEN "null" ELSE s[1]
    /\ \A k \in 1..Len(s) : link[s[k]] = IF k = Len(s) THEN "null" ELSE s[k + 1]

\* No event is twice in the sequence.
Distinct(s) == \A j, k \in 1..Len(s) : s[j] = s[k] => j = k

Elements(s) == { s[k] : k \in 1..Len(s) }

\* Each set of numbers that is not empty has a least one.
LEMMA LeastNumber ==
    ASSUME NEW T \in SUBSET Nat, T # {}
    PROVE  \E x \in T : \A y \in T : x <= y
  <1> DEFINE R == { p \in Nat \X Nat : p[1] < p[2] }
  <1>0. IsWellFoundedOn(R, Nat)
    BY NatLessThanWellFounded DEF OpToRel
  <1>a. \A x, y \in Nat : y < x => << y, x >> \in R
    OBVIOUS
  <1> HIDE DEF R
  <1>1. PICK x \in T : \A y \in T : ~ (<<y, x>> \in R)
    BY <1>0, WFMin
  <1>2. \A y \in T : ~ (y < x)
    BY <1>1, <1>a
  <1> QED
    BY <1>2

\* Chain reads the sequence that a list stands for.
LEMMA ChainOfList ==
    ASSUME NEW s \in Seq(Events), NEW first, NEW link, NEW n \in Nat,
           Len(s) <= n, IsList(s, first, link)
    PROVE  Chain(first, link, "null", n) = s
  <1> DEFINE at[k \in 1..(n + 1)] ==
                 IF k = 1 THEN first
                 ELSE LET before == at[k - 1]
                      IN  IF before = "null" THEN "null" ELSE link[before]
             walk == [k \in 1..(n + 1) |-> IF k <= Len(s) THEN s[k] ELSE "null"]
             Step(f) == [k \in 1..(n + 1) |->
                            IF k = 1 THEN first
                            ELSE LET before == f[k - 1]
                                 IN  IF before = "null" THEN "null" ELSE link[before]]
  <1>0. Len(s) \in Nat /\ \A k \in 1..Len(s) : s[k] \in Events /\ s[k] # "null"
    BY ClockAssumption
  <1>1. walk = Step(walk)
    <2>1. ASSUME NEW k \in 1..(n + 1)
          PROVE  walk[k] = Step(walk)[k]
      <3>1. CASE k = 1
        <4>1. s = << >> <=> Len(s) = 0
          OBVIOUS
        <4> QED
          BY <1>0, <3>1, <4>1 DEF IsList
      <3>2. CASE k # 1
        <4>1. k - 1 \in 1..(n + 1) /\ k - 1 + 1 = k
          BY <3>2
        <4>2. CASE k - 1 <= Len(s)
          <5>1. walk[k - 1] = s[k - 1] /\ s[k - 1] # "null"
            BY <1>0, <4>1, <4>2
          <5>2. link[s[k - 1]] = IF k - 1 = Len(s) THEN "null" ELSE s[k]
            BY <1>0, <4>1, <4>2 DEF IsList
          <5> QED
            BY <1>0, <3>2, <4>1, <4>2, <5>1, <5>2
        <4>3. CASE ~ (k - 1 <= Len(s))
          BY <1>0, <3>2, <4>1, <4>3
        <4> QED
          BY <4>2, <4>3
      <3> QED
        BY <3>1, <3>2
    <2> QED
      BY <2>1
  <1>2. at = CHOOSE f : f = Step(f)
    OBVIOUS
  <1> HIDE DEF walk
  <1>3. at = Step(at)
    BY <1>1, <1>2
  <1>4. Chain(first, link, "null", n)
           = SubSeq(at, 1, Cardinality({ k \in 1..(n + 1) : at[k] # "null" }))
    BY DEF Chain
  <1> HIDE DEF at
  <1>5. at = walk
    <2> DEFINE Wrong == { k \in 1..(n + 1) : at[k] # walk[k] }
    <2>1. ASSUME Wrong # {}
          PROVE  FALSE
      <3>0. Wrong \in SUBSET Nat
        OBVIOUS
      <3>1. PICK k \in Wrong : \A j \in Wrong : k <= j
        BY <2>1, <3>0, LeastNumber
      <3>2. at[k] = Step(at)[k] /\ walk[k] = Step(walk)[k]
        BY <1>1, <1>3
      <3>3. k # 1
        BY <3>2
      <3>4. k - 1 \in 1..(n + 1) /\ at[k - 1] = walk[k - 1]
        BY <3>1, <3>3
      <3> QED
        BY <3>1, <3>2, <3>3, <3>4
    <2>2. at = [k \in 1..(n + 1) |-> at[k]]
      BY <1>3
    <2>3. walk = [k \in 1..(n + 1) |-> walk[k]]
      BY <1>1
    <2> QED
      BY <2>1, <2>2, <2>3
  <1> USE DEF walk
  <1>6. { k \in 1..(n + 1) : at[k] # "null" } = 1..Len(s)
    BY <1>0, <1>5
  <1>7. Cardinality(1..Len(s)) = Len(s)
    <2>1. Cardinality(1..Len(s)) = IF 1 > Len(s) THEN 0 ELSE Len(s) - 1 + 1
      <3>1. 1 \in Int /\ Len(s) \in Int
        BY <1>0
      <3> QED
        BY <3>1, FS_Interval, Zenon
    <2> QED
      BY <1>0, <2>1
  <1>8. SubSeq(walk, 1, Len(s)) = s
    <2>1. walk \in Seq(Events \cup {"null"}) /\ Len(walk) = n + 1
      BY <1>0
    <2>2. /\ SubSeq(walk, 1, Len(s)) \in Seq(Events \cup {"null"})
          /\ Len(SubSeq(walk, 1, Len(s))) = Len(s)
          /\ \A k \in 1..Len(s) : SubSeq(walk, 1, Len(s))[k] = walk[k]
      BY <1>0, <2>1, SubSeqProperties
    <2> QED
      BY <1>0, <2>2, SeqEqual
  <1> QED
    BY <1>4, <1>5, <1>6, <1>7, <1>8

\* Without an event twice there are not more of them than events.
LEMMA DistinctIsShort ==
    ASSUME NEW s \in Seq(Events), Distinct(s)
    PROVE  Len(s) \in Nat /\ Cardinality(Events) \in Nat /\ Len(s) <= Cardinality(Events)
  <1>1. Len(s) \in Nat /\ s \in [1..Len(s) -> Events]
    OBVIOUS
  <1>2. Cardinality(Events) \in Nat
    BY ClockAssumption, FS_CardinalityType
  <1>3. IsFiniteSet(1..Len(s)) /\ Cardinality(1..Len(s)) = Len(s)
    <2>1. /\ IsFiniteSet(1..Len(s))
          /\ Cardinality(1..Len(s)) = IF 1 > Len(s) THEN 0 ELSE Len(s) - 1 + 1
      <3>1. 1 \in Int /\ Len(s) \in Int
        BY <1>1
      <3> QED
        BY <3>1, FS_Interval, Zenon
    <2> QED
      BY <1>1, <2>1
  <1>4. ASSUME Cardinality(Events) < Len(s)
        PROVE  FALSE
    <2>1. \E j, k \in 1..Len(s) : j # k /\ s[j] = s[k]
      BY <1>1, <1>3, <1>4, ClockAssumption, FS_PigeonHole
    <2> QED
      BY <2>1 DEF Distinct
  <1> QED
    BY <1>1, <1>2, <1>4

-----------------------------------------------------------------------------
(* Insertion and removal.                                                  *)

\* The sequence with e behind the j-th event.
Inserted(s, j, e) ==
    [k \in 1..(Len(s) + 1) |->
       IF k <= j THEN s[k] ELSE IF k = j + 1 THEN e ELSE s[k - 1]]

\* The sequence without the j-th event.
Removed(s, j) == [k \in 1..(Len(s) - 1) |-> IF k < j THEN s[k] ELSE s[k + 1]]

\* The sequence r is s with e behind the j-th event: what is at which position.
IsInserted(r, s, j, e) ==
    /\ r \in Seq(Events) /\ Len(r) = Len(s) + 1 /\ r # << >>
    /\ \A k \in 1..j : k \in 1..Len(r) /\ k \in 1..Len(s) /\ r[k] = s[k]
    /\ j + 1 \in 1..Len(r) /\ r[j + 1] = e
    /\ \A k \in (j + 1)..Len(s) :
          k \in 1..Len(s) /\ k + 1 \in 1..Len(r) /\ r[k + 1] = s[k]
    /\ \A k \in 1..Len(r) : \/ k \in 1..j \/ k = j + 1
                            \/ \E m \in (j + 1)..Len(s) : k = m + 1

\* The sequence r is s without the j-th event.
IsRemoved(r, s, j) ==
    /\ r \in Seq(Events) /\ Len(r) = Len(s) - 1
    /\ \A k \in 1..(j - 1) : k \in 1..Len(r) /\ k \in 1..Len(s) /\ r[k] = s[k]
    /\ \A k \in (j + 1)..Len(s) :
          k \in 1..Len(s) /\ k - 1 \in 1..Len(r) /\ r[k - 1] = s[k]
    /\ \A k \in 1..Len(r) : \/ k \in 1..(j - 1)
                            \/ \E m \in (j + 1)..Len(s) : k = m - 1

\* What is at which position after an insertion.
LEMMA InsertedAt ==
    ASSUME NEW s \in Seq(Events), NEW j \in 0..Len(s), NEW e \in Events
    PROVE  IsInserted(Inserted(s, j, e), s, j, e)
  <1> DEFINE r == Inserted(s, j, e)
  <1>1. Len(s) \in Nat /\ j \in Nat /\ j <= Len(s)
    OBVIOUS
  <1>2. ASSUME NEW k \in 1..(Len(s) + 1)
        PROVE  /\ r[k] = IF k <= j THEN s[k] ELSE IF k = j + 1 THEN e ELSE s[k - 1]
               /\ r[k] \in Events
    <2>1. r[k] = IF k <= j THEN s[k] ELSE IF k = j + 1 THEN e ELSE s[k - 1]
      BY DEF Inserted
    <2>2. /\ k <= j => k \in 1..Len(s)
          /\ ~ (k <= j) /\ k # j + 1 => k - 1 \in 1..Len(s)
      BY <1>1
    <2>3. \A i \in 1..Len(s) : s[i] \in Events
      OBVIOUS
    <2> QED
      BY <2>1, <2>2, <2>3
  <1>3. r = [k \in 1..(Len(s) + 1) |-> r[k]]
    BY DEF Inserted
  <1> HIDE DEF r
  <1>4. r \in [1..(Len(s) + 1) -> Events] /\ Len(s) + 1 \in Nat
    BY <1>1, <1>2, <1>3
  <1>5. r \in Seq(Events) /\ Len(r) = Len(s) + 1
    BY <1>4
  <1>6. \A k \in 1..j : k \in 1..Len(r) /\ k \in 1..Len(s) /\ r[k] = s[k]
    BY <1>1, <1>2, <1>5
  <1>7. j + 1 \in 1..Len(r) /\ r[j + 1] = e
    BY <1>1, <1>2, <1>5
  <1>8. ASSUME NEW k \in (j + 1)..Len(s)
        PROVE  k \in 1..Len(s) /\ k + 1 \in 1..Len(r) /\ r[k + 1] = s[k]
    <2>1. k \in 1..Len(s) /\ k + 1 \in 1..(Len(s) + 1) /\ ~ (k + 1 <= j) /\ k + 1 # j + 1
          /\ (k + 1) - 1 = k
      BY <1>1
    <2> QED
      BY <1>2, <1>5, <2>1
  <1>9. ASSUME NEW k \in 1..Len(r), k \notin 1..j, k # j + 1
        PROVE  \E m \in (j + 1)..Len(s) : k = m + 1
    <2>1. k - 1 \in (j + 1)..Len(s) /\ k = (k - 1) + 1
      BY <1>1, <1>5, <1>9
    <2> QED
      BY <2>1, Zenon
  <1> QED
    BY <1>1, <1>5, <1>6, <1>7, <1>8, <1>9 DEF IsInserted, r

\* What is at which position after a removal.
LEMMA RemovedAt ==
    ASSUME NEW s \in Seq(Events), NEW j \in 1..Len(s)
    PROVE  IsRemoved(Removed(s, j), s, j)
  <1> DEFINE r == Removed(s, j)
  <1>1. Len(s) \in Nat \ {0} /\ j \in Nat \ {0} /\ j <= Len(s)
    OBVIOUS
  <1>2. ASSUME NEW k \in 1..(Len(s) - 1)
        PROVE  /\ r[k] = IF k < j THEN s[k] ELSE s[k + 1]
               /\ r[k] \in Events
    <2>1. r[k] = IF k < j THEN s[k] ELSE s[k + 1]
      BY DEF Removed
    <2>2. k \in 1..Len(s) /\ k + 1 \in 1..Len(s)
      BY <1>1
    <2>3. \A i \in 1..Len(s) : s[i] \in Events
      OBVIOUS
    <2> QED
      BY <2>1, <2>2, <2>3
  <1>3. r = [k \in 1..(Len(s) - 1) |-> r[k]]
    BY DEF Removed
  <1> HIDE DEF r
  <1>4. r \in [1..(Len(s) - 1) -> Events] /\ Len(s) - 1 \in Nat
    BY <1>1, <1>2, <1>3
  <1>5. r \in Seq(Events) /\ Len(r) = Len(s) - 1
    BY <1>4
  <1>6. \A k \in 1..(j - 1) : k \in 1..Len(r) /\ k \in 1..Len(s) /\ r[k] = s[k]
    BY <1>1, <1>2, <1>5
  <1>7. ASSUME NEW k \in (j + 1)..Len(s)
        PROVE  k \in 1..Len(s) /\ k - 1 \in 1..Len(r) /\ r[k - 1] = s[k]
    <2>1. k \in 1..Len(s) /\ k - 1 \in 1..(Len(s) - 1) /\ ~ (k - 1 < j)
          /\ (k - 1) + 1 = k
      BY <1>1
    <2> QED
      BY <1>2, <1>5, <2>1
  <1>8. ASSUME NEW k \in 1..Len(r), k \notin 1..(j - 1)
        PROVE  \E m \in (j + 1)..Len(s) : k = m - 1
    <2>1. k + 1 \in (j + 1)..Len(s) /\ k = (k + 1) - 1
      BY <1>1, <1>5, <1>8
    <2> QED
      BY <2>1, Zenon
  <1> QED
    BY <1>1, <1>5, <1>6, <1>7, <1>8 DEF IsRemoved, r


\* An event that was not in the sequence is in it once.
LEMMA InsertedDistinct ==
    ASSUME NEW s \in Seq(Events), NEW j \in 0..Len(s), NEW e \in Events,
           Distinct(s), e \notin Elements(s)
    PROVE  /\ Distinct(Inserted(s, j, e))
           /\ Elements(Inserted(s, j, e)) = Elements(s) \cup {e}
  <1> DEFINE r == Inserted(s, j, e)
  <1>1. IsInserted(r, s, j, e)
    BY InsertedAt
  <1> HIDE DEF r
  <1>2. Len(s) \in Nat /\ j \in Nat /\ j <= Len(s)
    OBVIOUS
  <1>3. ASSUME NEW i \in 1..Len(r), NEW k \in 1..Len(r), i < k
        PROVE  r[i] # r[k]
    <2>1. \A m \in 1..Len(s) : s[m] # e
      BY DEF Elements
    <2>2. CASE k \in 1..j
      <3>1. i \in 1..j
        BY <1>2, <1>3, <2>2
      <3> QED
        BY <1>1, <1>3, <2>2, <3>1 DEF Distinct, IsInserted
    <2>3. CASE k = j + 1
      <3>1. i \in 1..j
        BY <1>2, <1>3, <2>3
      <3> QED
        BY <1>1, <2>1, <2>3, <3>1 DEF IsInserted
    <2>4. ASSUME NEW m \in (j + 1)..Len(s), k = m + 1
          PROVE  r[i] # r[k]
      <3>1. r[k] = s[m] /\ m \in 1..Len(s)
        BY <1>1, <2>4 DEF IsInserted
      <3>2. CASE i \in 1..j
        <4>1. i # m /\ r[i] = s[i] /\ i \in 1..Len(s)
          BY <1>1, <1>2, <3>2 DEF IsInserted
        <4> QED
          BY <3>1, <4>1 DEF Distinct
      <3>3. CASE i = j + 1
        BY <1>1, <2>1, <3>1, <3>3 DEF IsInserted
      <3>4. ASSUME NEW l \in (j + 1)..Len(s), i = l + 1
            PROVE  r[i] # r[k]
        <4>1. r[i] = s[l] /\ l \in 1..Len(s) /\ l # m
          BY <1>1, <1>2, <1>3, <2>4, <3>4 DEF IsInserted
        <4> QED
          BY <3>1, <4>1 DEF Distinct
      <3> QED
        BY <1>1, <3>2, <3>3, <3>4 DEF IsInserted
    <2> QED
      BY <1>1, <2>2, <2>3, <2>4 DEF IsInserted
  <1>4. Distinct(r)
    <2>1. \A i, k \in 1..Len(r) : i < k \/ k < i \/ i = k
      BY <1>1, <1>2 DEF IsInserted
    <2> QED
      BY <1>3, <2>1 DEF Distinct
  <1>5. Elements(r) = Elements(s) \cup {e}
    <2>1. ASSUME NEW x \in Elements(r)
          PROVE  x \in Elements(s) \cup {e}
      <3>1. PICK k \in 1..Len(r) : x = r[k]
        BY DEF Elements
      <3>2. ASSUME NEW m \in 1..Len(s), x = s[m]
            PROVE  x \in Elements(s)
        BY <3>2 DEF Elements
      <3>3. CASE k \in 1..j
        BY <1>1, <3>1, <3>2, <3>3 DEF IsInserted
      <3>4. CASE k = j + 1
        BY <1>1, <3>1, <3>4 DEF IsInserted
      <3>5. ASSUME NEW m \in (j + 1)..Len(s), k = m + 1
            PROVE  x \in Elements(s)
        BY <1>1, <3>1, <3>2, <3>5 DEF IsInserted
      <3> QED
        BY <1>1, <3>3, <3>4, <3>5 DEF IsInserted
    <2>2. ASSUME NEW x \in Elements(s)
          PROVE  x \in Elements(r)
      <3>1. PICK k \in 1..Len(s) : x = s[k]
        BY DEF Elements
      <3>2. k \in 1..j \/ k \in (j + 1)..Len(s)
        BY <1>2
      <3> QED
        BY <1>1, <3>1, <3>2 DEF Elements, IsInserted
    <2>3. e \in Elements(r)
      BY <1>1 DEF Elements, IsInserted
    <2> QED
      BY <2>1, <2>2, <2>3
  <1> QED
    BY <1>4, <1>5 DEF r

\* The event that is removed is not in the sequence any more.
LEMMA RemovedDistinct ==
    ASSUME NEW s \in Seq(Events), NEW j \in 1..Len(s), Distinct(s)
    PROVE  /\ Distinct(Removed(s, j))
           /\ Elements(Removed(s, j)) = Elements(s) \ {s[j]}
  <1> DEFINE r == Removed(s, j)
  <1>1. IsRemoved(r, s, j)
    BY RemovedAt
  <1> HIDE DEF r
  <1>2. Len(s) \in Nat /\ j \in Nat /\ j <= Len(s)
    OBVIOUS
  \* Each position comes from one of the sequence before.
  <1>3. \A k \in 1..Len(r) : \E m \in 1..Len(s) :
           /\ m = (IF k < j THEN k ELSE k + 1)
           /\ m # j /\ r[k] = s[m]
    <2> SUFFICES ASSUME NEW k \in 1..Len(r)
                 PROVE  \E m \in 1..Len(s) : /\ m = (IF k < j THEN k ELSE k + 1)
                                             /\ m # j /\ r[k] = s[m]
      OBVIOUS
    <2>1. CASE k \in 1..(j - 1)
      BY <1>1, <1>2, <2>1 DEF IsRemoved
    <2>2. ASSUME NEW m \in (j + 1)..Len(s), k = m - 1
          PROVE  \E i \in 1..Len(s) : /\ i = (IF k < j THEN k ELSE k + 1)
                                      /\ i # j /\ r[k] = s[i]
      <3>1. r[k] = s[m] /\ m \in 1..Len(s) /\ m # j /\ ~ (k < j) /\ k + 1 = m
        BY <1>1, <1>2, <2>2 DEF IsRemoved
      <3> QED
        BY <3>1
    <2> QED
      BY <1>1, <2>1, <2>2 DEF IsRemoved
  <1>4. ASSUME NEW i \in 1..Len(r), NEW k \in 1..Len(r), r[i] = r[k]
        PROVE  i = k
    <2>1. (IF i < j THEN i ELSE i + 1) = (IF k < j THEN k ELSE k + 1)
      BY <1>3, <1>4 DEF Distinct
    <2> QED
      BY <1>2, <2>1
  <1>5. Elements(r) = Elements(s) \ {s[j]}
    <2>1. ASSUME NEW x \in Elements(r)
          PROVE  x \in Elements(s) /\ x # s[j]
      <3>1. PICK k \in 1..Len(r) : x = r[k]
        BY DEF Elements
      <3>2. PICK m \in 1..Len(s) : m # j /\ r[k] = s[m]
        BY <1>3
      <3> QED
        BY <3>1, <3>2 DEF Elements, Distinct
    <2>2. ASSUME NEW x \in Elements(s), x # s[j]
          PROVE  x \in Elements(r)
      <3>1. PICK k \in 1..Len(s) : x = s[k]
        BY DEF Elements
      <3>2. k \in 1..(j - 1) \/ k \in (j + 1)..Len(s)
        BY <1>2, <2>2, <3>1
      <3> QED
        BY <1>1, <3>1, <3>2 DEF Elements, IsRemoved
    <2> QED
      BY <2>1, <2>2
  <1> QED
    BY <1>4, <1>5 DEF r, Distinct

\* An event is linked behind the j-th one, or becomes the head.
LEMMA ListInserted ==
    ASSUME NEW s \in Seq(Events), NEW first, NEW link, IsList(s, first, link),
           NEW j \in 0..Len(s), NEW e \in Events, NEW other,
           other[e] = (IF j = Len(s) THEN "null" ELSE s[j + 1]),
           j > 0 => other[s[j]] = e,
           \A k \in 1..Len(s) : k # j => other[s[k]] = link[s[k]]
    PROVE  IsList(Inserted(s, j, e), IF j = 0 THEN e ELSE first, other)
  <1> DEFINE r == Inserted(s, j, e)
  <1>1. IsInserted(r, s, j, e)
    BY InsertedAt
  <1> HIDE DEF r
  <1>2. Len(s) \in Nat /\ j \in Nat /\ j <= Len(s)
    OBVIOUS
  <1>3. /\ first = IF s = << >> THEN "null" ELSE s[1]
        /\ \A k \in 1..Len(s) : link[s[k]] = IF k = Len(s) THEN "null" ELSE s[k + 1]
    BY DEF IsList
  <1>4. (IF j = 0 THEN e ELSE first) = r[1]
    <2>1. CASE j = 0
      BY <1>1, <2>1 DEF IsInserted
    <2>2. CASE j # 0
      <3>1. 1 \in 1..j /\ s # << >>
        BY <1>2, <2>2
      <3> QED
        BY <1>1, <1>3, <2>2, <3>1 DEF IsInserted
    <2> QED
      BY <2>1, <2>2
  <1>5. ASSUME NEW k \in 1..Len(r)
        PROVE  other[r[k]] = IF k = Len(r) THEN "null" ELSE r[k + 1]
    <2>1. CASE k \in 1..j
      <3>1. r[k] = s[k] /\ k \in 1..Len(s) /\ k # Len(r)
        BY <1>1, <1>2, <2>1 DEF IsInserted
      <3>2. CASE k = j
        BY <1>1, <1>2, <3>1, <3>2 DEF IsInserted
      <3>3. CASE k # j
        <4>1. k + 1 \in 1..j /\ k # Len(s)
          BY <1>2, <2>1, <3>3
        <4> QED
          BY <1>1, <1>3, <3>1, <3>3, <4>1 DEF IsInserted
      <3> QED
        BY <3>2, <3>3
    <2>2. CASE k = j + 1
      <3>1. CASE j = Len(s)
        BY <1>1, <2>2, <3>1 DEF IsInserted
      <3>2. CASE j # Len(s)
        <4>1. j + 1 \in (j + 1)..Len(s) /\ k # Len(r)
          BY <1>1, <1>2, <2>2, <3>2 DEF IsInserted
        <4>2. r[j + 1 + 1] = s[j + 1]
          BY <1>1, <4>1 DEF IsInserted
        <4> QED
          BY <1>1, <2>2, <3>2, <4>1, <4>2 DEF IsInserted
      <3> QED
        BY <3>1, <3>2
    <2>3. ASSUME NEW m \in (j + 1)..Len(s), k = m + 1
          PROVE  other[r[k]] = IF k = Len(r) THEN "null" ELSE r[k + 1]
      <3>1. r[k] = s[m] /\ m \in 1..Len(s) /\ m # j /\ (k = Len(r) <=> m = Len(s))
        BY <1>1, <1>2, <2>3 DEF IsInserted
      <3>2. other[r[k]] = IF m = Len(s) THEN "null" ELSE s[m + 1]
        BY <1>3, <3>1
      <3>3. CASE m # Len(s)
        <4>1. m + 1 \in (j + 1)..Len(s)
          BY <1>2, <3>3
        <4>2. r[k + 1] = s[m + 1]
          BY <1>1, <2>3, <4>1 DEF IsInserted
        <4> QED
          BY <3>1, <3>2, <4>2
      <3> QED
        BY <3>1, <3>2, <3>3
    <2> QED
      BY <1>1, <2>1, <2>2, <2>3 DEF IsInserted
  <1> QED
    BY <1>1, <1>4, <1>5 DEF IsList, r, IsInserted

\* The j-th event is unlinked.
LEMMA ListRemoved ==
    ASSUME NEW s \in Seq(Events), NEW first, NEW link, IsList(s, first, link),
           NEW j \in 1..Len(s), NEW other,
           j > 1 => other[s[j - 1]] = link[s[j]],
           \A k \in 1..Len(s) : k # j /\ k # j - 1 => other[s[k]] = link[s[k]]
    PROVE  IsList(Removed(s, j), IF j = 1 THEN link[s[j]] ELSE first, other)
  <1> DEFINE r == Removed(s, j)
  <1>1. IsRemoved(r, s, j)
    BY RemovedAt
  <1> HIDE DEF r
  <1>2. Len(s) \in Nat \ {0} /\ j \in Nat \ {0} /\ j <= Len(s)
    OBVIOUS
  <1>3. /\ first = IF s = << >> THEN "null" ELSE s[1]
        /\ \A k \in 1..Len(s) : link[s[k]] = IF k = Len(s) THEN "null" ELSE s[k + 1]
    BY DEF IsList
  <1>4. (IF j = 1 THEN link[s[j]] ELSE first) = IF r = << >> THEN "null" ELSE r[1]
    <2>1. r = << >> <=> Len(s) = 1
      BY <1>1, <1>2 DEF IsRemoved
    <2>2. CASE j = 1 /\ Len(s) = 1
      BY <1>3, <2>1, <2>2
    <2>3. CASE j = 1 /\ Len(s) # 1
      <3>1. 2 \in (j + 1)..Len(s) /\ 1 \in 1..Len(s)
        BY <1>2, <2>3
      <3>2. r[2 - 1] = s[2] /\ link[s[1]] = s[1 + 1]
        BY <1>1, <1>3, <2>3, <3>1 DEF IsRemoved
      <3> QED
        BY <2>1, <2>3, <3>2
    <2>4. CASE j # 1
      <3>1. 1 \in 1..(j - 1) /\ Len(s) # 1 /\ s # << >>
        BY <1>2, <2>4
      <3> QED
        BY <1>1, <1>3, <2>1, <2>4, <3>1 DEF IsRemoved
    <2> QED
      BY <2>2, <2>3, <2>4
  <1>5. ASSUME NEW k \in 1..Len(r)
        PROVE  other[r[k]] = IF k = Len(r) THEN "null" ELSE r[k + 1]
    <2>1. CASE k \in 1..(j - 1)
      <3>1. r[k] = s[k] /\ k \in 1..Len(s) /\ k # Len(s) /\ k # j
        BY <1>1, <1>2, <2>1 DEF IsRemoved
      <3>2. CASE k = j - 1
        <4>1. other[r[k]] = IF j = Len(s) THEN "null" ELSE s[j + 1]
          BY <1>2, <1>3, <2>1, <3>1, <3>2
        <4>2. CASE j = Len(s)
          BY <1>1, <3>2, <4>1, <4>2 DEF IsRemoved
        <4>3. CASE j # Len(s)
          <5>1. j + 1 \in (j + 1)..Len(s) /\ k # Len(r) /\ (j + 1) - 1 = k + 1
            BY <1>1, <1>2, <3>2, <4>3 DEF IsRemoved
          <5>2. r[(j + 1) - 1] = s[j + 1]
            BY <1>1, <5>1 DEF IsRemoved
          <5> QED
            BY <4>1, <4>3, <5>1, <5>2
        <4> QED
          BY <4>2, <4>3
      <3>3. CASE k # j - 1
        <4>1. k + 1 \in 1..(j - 1) /\ k # Len(r)
          BY <1>1, <1>2, <2>1, <3>3 DEF IsRemoved
        <4> QED
          BY <1>1, <1>3, <3>1, <3>3, <4>1 DEF IsRemoved
      <3> QED
        BY <3>2, <3>3
    <2>2. ASSUME NEW m \in (j + 1)..Len(s), k = m - 1
          PROVE  other[r[k]] = IF k = Len(r) THEN "null" ELSE r[k + 1]
      <3>1. /\ r[k] = s[m] /\ m \in 1..Len(s) /\ m # j /\ m # j - 1
            /\ k = Len(r) <=> m = Len(s)
        BY <1>1, <1>2, <2>2 DEF IsRemoved
      <3>2. other[r[k]] = IF m = Len(s) THEN "null" ELSE s[m + 1]
        BY <1>3, <3>1
      <3>3. CASE m # Len(s)
        <4>1. m + 1 \in (j + 1)..Len(s) /\ (m + 1) - 1 = k + 1
          BY <1>2, <2>2, <3>3
        <4>2. r[(m + 1) - 1] = s[m + 1]
          BY <1>1, <4>1 DEF IsRemoved
        <4> QED
          BY <3>1, <3>2, <4>1, <4>2
      <3> QED
        BY <3>1, <3>2, <3>3
    <2> QED
      BY <1>1, <2>1, <2>2 DEF IsRemoved
  <1> QED
    BY <1>4, <1>5 DEF IsList, r


-----------------------------------------------------------------------------
(* The order of the events in the future, and their backward pointers.     *)

Clocks == [Events -> Nat]

\* Events in the future are sorted, and behind all that are pending.
Ordered(s, tm, n) ==
    \A j, k \in 1..Len(s) : j < k /\ n < tm[s[j]] => tm[s[j]] <= tm[s[k]]

\* The k-th event points back to the j-th one, or to none for 0: it starts
\* earlier, all between them start at the same time.
BackTo(s, tm, prev, j, k) ==
    /\ prev[s[k]] = IF j = 0 THEN "null" ELSE s[j]
    /\ j # 0 => tm[s[j]] < tm[s[k]]
    /\ \A i \in (j + 1)..k : tm[s[i]] = tm[s[k]]

Back(s, tm, prev, n) ==
    \A k \in 1..Len(s) : n < tm[s[k]] => \E j \in 0..(k - 1) : BackTo(s, tm, prev, j, k)

\* The positions of the events from the j-th one on that start at its time.
Block(s, tm, j) == { m \in j..Len(s) : \A i \in j..m : tm[s[i]] = tm[s[j]] }

\* An event behind a block points back into it, or behind it.
LEMMA BehindBlock ==
    ASSUME NEW s \in Seq(Events), NEW tm, NEW prev,
           NEW j \in 1..Len(s), NEW m \in j..Len(s), NEW b \in 0..(m - 1),
           BackTo(s, tm, prev, b, m), m \notin Block(s, tm, j)
    PROVE  j <= b
  <1> SUFFICES ASSUME b < j
               PROVE  FALSE
    OBVIOUS
  <1>1. Len(s) \in Nat /\ j \in (b + 1)..m
    OBVIOUS
  <1>2. \A i \in (b + 1)..m : tm[s[i]] = tm[s[m]]
    BY DEF BackTo
  <1>3. \A i \in j..m : i \in (b + 1)..m
    BY <1>1
  <1> QED
    BY <1>1, <1>2, <1>3 DEF Block

\* An event that is inserted where it belongs keeps the order: in the future
\* behind all events that do not start later, otherwise at the head.
LEMMA OrderedInserted ==
    ASSUME NEW s \in Seq(Events), NEW tm \in Clocks, NEW n \in Nat, Ordered(s, tm, n),
           NEW j \in 0..Len(s), NEW e \in Events, e \notin Elements(s),
           NEW t \in Nat, NEW new, new = [tm EXCEPT ![e] = t],
           n < t => \A k \in (j + 1)..Len(s) : t < tm[s[k]],
           0 < j => n < t /\ tm[s[j]] <= t
    PROVE  Ordered(Inserted(s, j, e), new, n)
  <1> DEFINE r == Inserted(s, j, e)
  <1>1. IsInserted(r, s, j, e)
    BY InsertedAt
  <1> HIDE DEF r
  <1>2. Len(s) \in Nat /\ j \in Nat /\ j <= Len(s)
    OBVIOUS
  <1>3. /\ \A k \in 1..Len(s) : s[k] \in Events /\ new[s[k]] = tm[s[k]] /\ tm[s[k]] \in Nat
        /\ new[e] = t
    BY DEF Elements, Clocks
  <1>4. ASSUME NEW i \in 1..Len(r), NEW k \in 1..Len(r), i < k, n < new[r[i]]
        PROVE  new[r[i]] <= new[r[k]]
    <2>1. CASE k \in 1..j
      <3>1. i \in 1..j
        BY <1>2, <1>4, <2>1
      <3> QED
        BY <1>1, <1>3, <1>4, <2>1, <3>1 DEF Ordered, IsInserted
    <2>2. CASE k = j + 1
      <3>1. i \in 1..j /\ 0 < j
        BY <1>2, <1>4, <2>2
      <3>2. r[i] = s[i] /\ i \in 1..Len(s) /\ j \in 1..Len(s) /\ r[k] = e
        BY <1>1, <1>2, <2>2, <3>1 DEF IsInserted
      <3>3. tm[s[i]] <= tm[s[j]]
        BY <1>2, <1>3, <1>4, <3>1, <3>2 DEF Ordered
      <3> QED
        BY <1>3, <3>1, <3>2, <3>3
    <2>3. ASSUME NEW m \in (j + 1)..Len(s), k = m + 1
          PROVE  new[r[i]] <= new[r[k]]
      <3>1. r[k] = s[m] /\ m \in 1..Len(s)
        BY <1>1, <2>3 DEF IsInserted
      <3>2. CASE i \in 1..j
        <4>1. i < m /\ r[i] = s[i] /\ i \in 1..Len(s)
          BY <1>1, <1>2, <3>2 DEF IsInserted
        <4> QED
          BY <1>3, <1>4, <3>1, <4>1 DEF Ordered
      <3>3. CASE i = j + 1
        BY <1>1, <1>3, <1>4, <3>1, <3>3 DEF IsInserted
      <3>4. ASSUME NEW l \in (j + 1)..Len(s), i = l + 1
            PROVE  new[r[i]] <= new[r[k]]
        <4>1. r[i] = s[l] /\ l \in 1..Len(s) /\ l < m
          BY <1>1, <1>2, <1>4, <2>3, <3>4 DEF IsInserted
        <4> QED
          BY <1>3, <1>4, <3>1, <4>1 DEF Ordered
      <3> QED
        BY <1>1, <3>2, <3>3, <3>4 DEF IsInserted
    <2> QED
      BY <1>1, <2>1, <2>2, <2>3 DEF IsInserted
  <1> QED
    BY <1>4 DEF Ordered, r

\* The order does not depend on an event that is removed.
LEMMA OrderedRemoved ==
    ASSUME NEW s \in Seq(Events), NEW tm, NEW n, Ordered(s, tm, n),
           NEW j \in 1..Len(s)
    PROVE  Ordered(Removed(s, j), tm, n)
  <1> DEFINE r == Removed(s, j)
  <1>1. IsRemoved(r, s, j)
    BY RemovedAt
  <1> HIDE DEF r
  <1>2. Len(s) \in Nat /\ j \in Nat /\ j <= Len(s)
    OBVIOUS
  <1>3. ASSUME NEW i \in 1..Len(r), NEW k \in 1..Len(r), i < k
        PROVE  \E l, m \in 1..Len(s) : l < m /\ r[i] = s[l] /\ r[k] = s[m]
    <2>1. CASE k \in 1..(j - 1)
      <3>1. i \in 1..(j - 1)
        BY <1>2, <1>3, <2>1
      <3> QED
        BY <1>1, <1>3, <2>1, <3>1 DEF IsRemoved
    <2>2. ASSUME NEW m \in (j + 1)..Len(s), k = m - 1
          PROVE  \E l \in 1..Len(s) : l < m /\ r[i] = s[l]
      <3>1. CASE i \in 1..(j - 1)
        BY <1>1, <1>2, <3>1 DEF IsRemoved
      <3>2. ASSUME NEW l \in (j + 1)..Len(s), i = l - 1
            PROVE  l \in 1..Len(s) /\ l < m /\ r[i] = s[l]
        BY <1>1, <1>2, <1>3, <2>2, <3>2 DEF IsRemoved
      <3> QED
        BY <1>1, <3>1, <3>2 DEF IsRemoved
    <2> QED
      BY <1>1, <2>1, <2>2 DEF IsRemoved
  <1> QED
    BY <1>3 DEF Ordered, r


\* The pointers prev2 are prev after e for time t is linked behind the j-th
\* event, where it belongs.
LinkedBack(s, tm, n, prev, j, e, t, prev2) ==
    /\ \A k \in (j + 1)..Len(s) : n < tm[s[k]] => t < tm[s[k]]
    /\ 0 < j => n < t /\ tm[s[j]] <= t
    /\ \A m \in 1..Len(s) : n < tm[s[m]] =>
          prev2[s[m]] = IF m \in Block(s, tm, j + 1) THEN e ELSE prev[s[m]]
    /\ n < t => prev2[e] = IF j = 0 THEN "null"
                           ELSE IF tm[s[j]] = t THEN prev[s[j]] ELSE s[j]

\* The backward pointers after an insertion: the events of the block behind
\* the new one, if it starts later, point to it, and it points where the one
\* before it points if that starts at the same time.
LEMMA BackInserted ==
    ASSUME NEW s \in Seq(Events), NEW tm \in Clocks, NEW n \in Nat,
           NEW prev, Back(s, tm, prev, n),
           NEW j \in 0..Len(s), NEW e \in Events, e \notin Elements(s),
           NEW t \in Nat, NEW new, new = [tm EXCEPT ![e] = t],
           NEW prev2, LinkedBack(s, tm, n, prev, j, e, t, prev2)
    PROVE  Back(Inserted(s, j, e), new, prev2, n)
  <1> USE DEF LinkedBack
  <1> DEFINE r == Inserted(s, j, e)
  <1>1. IsInserted(r, s, j, e)
    BY InsertedAt
  <1> HIDE DEF r
  <1>2. Len(s) \in Nat /\ j \in Nat /\ j <= Len(s)
    OBVIOUS
  <1>3. /\ \A k \in 1..Len(s) : s[k] \in Events /\ new[s[k]] = tm[s[k]] /\ tm[s[k]] \in Nat
        /\ new[e] = t
    BY DEF Elements, Clocks
  <1>4. ASSUME NEW k \in 1..j, n < tm[s[k]]
        PROVE  \E b \in 0..(k - 1) : BackTo(r, new, prev2, b, k)
    <2>0. k \in 1..Len(s) /\ r[k] = s[k]
      BY <1>1, <1>4 DEF IsInserted
    <2>1. PICK b \in 0..(k - 1) : BackTo(s, tm, prev, b, k)
      BY <1>4, <2>0 DEF Back
    <2>2. prev2[s[k]] = prev[s[k]]
      BY <1>2, <1>4, <2>0 DEF Block
    <2>3. \A i \in (b + 1)..k : i \in 1..j
      BY <1>2, <2>1
    <2>4. b # 0 => b \in 1..j
      BY <1>2, <2>1
    <2>5. BackTo(r, new, prev2, b, k)
      BY <1>1, <1>3, <2>0, <2>1, <2>2, <2>3, <2>4 DEF BackTo, IsInserted
    <2> QED
      BY <2>5
  <1>5. ASSUME n < t
        PROVE  \E b \in 0..j : BackTo(r, new, prev2, b, j + 1)
    <2>1. CASE 0 < j /\ tm[s[j]] = t
      <3>0. j \in 1..j /\ j \in 1..Len(s) /\ n < tm[s[j]]
        BY <1>2, <1>5, <2>1
      <3>1. PICK b \in 0..(j - 1) : BackTo(s, tm, prev, b, j)
        BY <3>0 DEF Back
      <3>2. \A i \in (b + 1)..(j + 1) : i \in 1..j \/ i = j + 1
        BY <1>2, <3>1
      <3>3. b # 0 => b \in 1..j
        BY <1>2, <3>1
      <3>4. \A i \in (b + 1)..(j + 1) : new[r[i]] = new[r[j + 1]]
        <4> SUFFICES ASSUME NEW i \in (b + 1)..(j + 1), i \in 1..j
                     PROVE  new[r[i]] = t
          BY <1>1, <1>3, <3>2 DEF IsInserted
        <4>1. i \in (b + 1)..j
          BY <1>2, <3>1
        <4> QED
          BY <1>1, <1>3, <2>1, <3>1, <4>1 DEF BackTo, IsInserted
      <3>5. BackTo(r, new, prev2, b, j + 1)
        BY <1>1, <1>3, <1>5, <2>1, <3>1, <3>3, <3>4 DEF BackTo, IsInserted
      <3> QED
        BY <1>2, <3>5
    <2>2. CASE 0 < j /\ tm[s[j]] # t
      <3>1. j \in 1..j /\ j \in 1..Len(s) /\ j # 0 /\ j \in 0..j
        BY <1>2, <2>2
      <3>2. tm[s[j]] < t
        BY <1>3, <2>2, <3>1
      <3>3. \A i \in (j + 1)..(j + 1) : i = j + 1
        BY <1>2
      <3>4. BackTo(r, new, prev2, j, j + 1)
        BY <1>1, <1>3, <1>5, <2>2, <3>1, <3>2, <3>3 DEF BackTo, IsInserted
      <3> QED
        BY <3>1, <3>4
    <2>3. CASE j = 0
      <3>1. \A i \in (0 + 1)..(j + 1) : i = j + 1
        BY <2>3
      <3>2. BackTo(r, new, prev2, 0, j + 1)
        BY <1>1, <1>3, <1>5, <2>3, <3>1 DEF BackTo, IsInserted
      <3> QED
        BY <2>3, <3>2
    <2>4. j = 0 \/ 0 < j
      BY <1>2
    <2> QED
      BY <2>1, <2>2, <2>3, <2>4, Zenon
  <1>6. ASSUME NEW m \in (j + 1)..Len(s), n < tm[s[m]]
        PROVE  \E b \in 0..m : BackTo(r, new, prev2, b, m + 1)
    <2>0. m \in 1..Len(s) /\ r[m + 1] = s[m] /\ m + 1 \in 1..Len(r) /\ j + 1 \in 1..Len(s)
          /\ m \in Nat
      BY <1>1, <1>2 DEF IsInserted
    <2>1. CASE m \in Block(s, tm, j + 1)
      <3>1. prev2[s[m]] = e
        BY <1>6, <2>0, <2>1
      <3>2. ASSUME NEW i \in (j + 1 + 1)..(m + 1)
            PROVE  new[r[i]] = new[r[m + 1]]
        <4>1. i - 1 \in (j + 1)..m /\ m \in (j + 1)..m /\ i - 1 \in (j + 1)..Len(s)
              /\ (i - 1) + 1 = i
          BY <1>2, <2>0
        <4>2. tm[s[i - 1]] = tm[s[j + 1]] /\ tm[s[m]] = tm[s[j + 1]]
          BY <2>1, <4>1 DEF Block
        <4>3. r[i] = s[i - 1] /\ i - 1 \in 1..Len(s)
          BY <1>1, <4>1 DEF IsInserted
        <4> QED
          BY <1>3, <2>0, <4>2, <4>3
      <3>3. t < tm[s[m]]
        BY <1>6
      <3>4. BackTo(r, new, prev2, j + 1, m + 1)
        BY <1>1, <1>2, <1>3, <2>0, <3>1, <3>2, <3>3 DEF BackTo, IsInserted
      <3>5. j + 1 \in 0..m
        BY <1>2
      <3> QED
        BY <3>4, <3>5
    <2>2. CASE m \notin Block(s, tm, j + 1)
      <3>1. prev2[s[m]] = prev[s[m]]
        BY <1>6, <2>0, <2>2
      <3>2. PICK b \in 0..(m - 1) : BackTo(s, tm, prev, b, m)
        BY <1>6, <2>0 DEF Back
      <3>3. j + 1 <= b
        BY <2>0, <2>2, <3>2, BehindBlock
      <3>4. /\ b \in (j + 1)..Len(s) /\ b # 0 /\ b + 1 \in 0..m /\ b + 1 # 0
            /\ r[b + 1] = s[b] /\ b \in 1..Len(s)
        BY <1>1, <1>2, <2>0, <3>2, <3>3 DEF IsInserted
      <3>5. ASSUME NEW i \in (b + 1 + 1)..(m + 1)
            PROVE  new[r[i]] = new[r[m + 1]]
        <4>1. i - 1 \in (b + 1)..m /\ i - 1 \in (j + 1)..Len(s) /\ (i - 1) + 1 = i
          BY <1>2, <2>0, <3>2, <3>3
        <4>2. tm[s[i - 1]] = tm[s[m]]
          BY <3>2, <4>1 DEF BackTo
        <4>3. r[i] = s[i - 1] /\ i - 1 \in 1..Len(s)
          BY <1>1, <4>1 DEF IsInserted
        <4> QED
          BY <1>3, <2>0, <4>2, <4>3
      <3>6. BackTo(r, new, prev2, b + 1, m + 1)
        BY <1>3, <2>0, <3>1, <3>2, <3>4, <3>5 DEF BackTo
      <3> QED
        BY <3>4, <3>6
    <2> QED
      BY <2>1, <2>2
  <1>7. ASSUME NEW k \in 1..Len(r), n < new[r[k]]
        PROVE  \E b \in 0..(k - 1) : BackTo(r, new, prev2, b, k)
    <2>1. CASE k \in 1..j
      BY <1>1, <1>3, <1>4, <1>7, <2>1 DEF IsInserted
    <2>2. CASE k = j + 1
      <3>1. n < t /\ k - 1 = j
        BY <1>1, <1>2, <1>3, <1>7, <2>2 DEF IsInserted
      <3> QED
        BY <1>5, <2>2, <3>1
    <2>3. ASSUME NEW m \in (j + 1)..Len(s), k = m + 1
          PROVE  \E b \in 0..(k - 1) : BackTo(r, new, prev2, b, k)
      <3>1. n < tm[s[m]] /\ k - 1 = m
        BY <1>1, <1>2, <1>3, <1>7, <2>3 DEF IsInserted
      <3> QED
        BY <1>6, <2>3, <3>1
    <2> QED
      BY <1>1, <2>1, <2>2, <2>3 DEF IsInserted
  <1> QED
    BY <1>7 DEF Back, r

\* The backward pointers after a removal: the events of the block behind the
\* one that is removed, if they start later, point to the one before it.
LEMMA BackRemoved ==
    ASSUME NEW s \in Seq(Events), NEW tm \in Clocks, NEW n \in Nat,
           NEW prev, Ordered(s, tm, n), Back(s, tm, prev, n),
           NEW j \in 1..Len(s), NEW prev2,
           \A m \in 1..Len(s) : m # j /\ n < tm[s[m]] =>
              prev2[s[m]] = IF m \in Block(s, tm, j + 1) /\ tm[s[j]] # tm[s[j + 1]]
                            THEN (IF j = 1 THEN "null" ELSE s[j - 1])
                            ELSE prev[s[m]]
    PROVE  Back(Removed(s, j), tm, prev2, n)
  <1> DEFINE r == Removed(s, j)
  <1>1. IsRemoved(r, s, j)
    BY RemovedAt
  <1> HIDE DEF r
  <1>2. Len(s) \in Nat /\ j \in Nat \ {0} /\ j <= Len(s)
    OBVIOUS
  <1>3. \A k \in 1..Len(s) : s[k] \in Events /\ tm[s[k]] \in Nat
    BY DEF Clocks
  <1>4. ASSUME NEW k \in 1..(j - 1), n < tm[s[k]]
        PROVE  \E b \in 0..(k - 1) : BackTo(r, tm, prev2, b, k)
    <2>0. k \in 1..Len(s) /\ r[k] = s[k] /\ k # j
      BY <1>1, <1>2, <1>4 DEF IsRemoved
    <2>1. PICK b \in 0..(k - 1) : BackTo(s, tm, prev, b, k)
      BY <1>4, <2>0 DEF Back
    <2>2. prev2[s[k]] = prev[s[k]]
      BY <1>2, <1>4, <2>0 DEF Block
    <2>3. \A i \in (b + 1)..k : i \in 1..(j - 1)
      BY <1>2, <2>1
    <2>4. b # 0 => b \in 1..(j - 1)
      BY <1>2, <2>1
    <2>5. BackTo(r, tm, prev2, b, k)
      BY <1>1, <2>0, <2>1, <2>2, <2>3, <2>4 DEF BackTo, IsRemoved
    <2> QED
      BY <2>5
  <1>5. ASSUME NEW m \in (j + 1)..Len(s), n < tm[s[m]]
        PROVE  \E b \in 0..(m - 2) : BackTo(r, tm, prev2, b, m - 1)
    <2>0. m \in 1..Len(s) /\ r[m - 1] = s[m] /\ j + 1 \in 1..Len(s) /\ m # j /\ m \in Nat
      BY <1>1, <1>2 DEF IsRemoved
    <2>1. PICK b \in 0..(m - 1) : BackTo(s, tm, prev, b, m)
      BY <1>5, <2>0 DEF Back
    <2>2. CASE m \in Block(s, tm, j + 1) /\ tm[s[j]] # tm[s[j + 1]]
      <3>1. prev2[s[m]] = IF j = 1 THEN "null" ELSE s[j - 1]
        BY <1>5, <2>0, <2>2
      <3>2. j - 1 \in 0..(m - 2) /\ (j - 1 = 0 <=> j = 1)
        BY <1>2
      <3>3. ASSUME NEW i \in (j - 1 + 1)..(m - 1)
            PROVE  tm[r[i]] = tm[r[m - 1]]
        <4>1. i + 1 \in (j + 1)..m /\ m \in (j + 1)..m /\ i + 1 \in (j + 1)..Len(s)
              /\ (i + 1) - 1 = i
          BY <1>2, <2>0
        <4>2. tm[s[i + 1]] = tm[s[j + 1]] /\ tm[s[m]] = tm[s[j + 1]]
          BY <2>2, <4>1 DEF Block
        <4>3. r[i] = s[i + 1]
          BY <1>1, <4>1 DEF IsRemoved
        <4> QED
          BY <2>0, <4>2, <4>3
      <3>4. ASSUME j # 1
            PROVE  r[j - 1] = s[j - 1] /\ tm[s[j - 1]] < tm[s[m]]
        <4>1. j - 1 \in 1..(j - 1) /\ j - 1 \in 1..Len(s) /\ j - 1 < j /\ j - 1 < j + 1
              /\ j < j + 1
          BY <1>2, <3>4
        <4>2. m \in (j + 1)..m /\ j + 1 \in (j + 1)..m
          BY <1>2
        <4>3. tm[s[m]] = tm[s[j + 1]]
          BY <2>2, <4>2 DEF Block
        <4>4. CASE n < tm[s[j - 1]]
          <5>1. tm[s[j - 1]] <= tm[s[j]]
            BY <4>1, <4>4 DEF Ordered
          <5>2. n < tm[s[j]]
            BY <1>3, <4>1, <4>4, <5>1
          <5>3. tm[s[j]] <= tm[s[j + 1]]
            BY <2>0, <4>1, <5>2 DEF Ordered
          <5>4. tm[s[j]] < tm[s[j + 1]]
            BY <1>3, <2>0, <2>2, <5>3
          <5>5. tm[s[j - 1]] < tm[s[m]]
            BY <1>3, <2>0, <4>1, <4>3, <5>1, <5>4
          <5> QED
            BY <1>1, <4>1, <5>5 DEF IsRemoved
        <4>5. CASE ~ (n < tm[s[j - 1]])
          BY <1>1, <1>3, <1>5, <2>0, <4>1, <4>5 DEF IsRemoved
        <4> QED
          BY <4>4, <4>5
      <3>5. BackTo(r, tm, prev2, j - 1, m - 1)
        BY <2>0, <3>1, <3>2, <3>3, <3>4 DEF BackTo
      <3> QED
        BY <3>2, <3>5
    <2>3. CASE ~ (m \in Block(s, tm, j + 1) /\ tm[s[j]] # tm[s[j + 1]])
      <3>1. prev2[s[m]] = prev[s[m]]
        BY <1>5, <2>0, <2>3
      <3>2. b # j
        <4> SUFFICES ASSUME b = j
                     PROVE  FALSE
          OBVIOUS
        <4>1. /\ tm[s[j]] < tm[s[m]]
              /\ \A i \in (j + 1)..m : tm[s[i]] = tm[s[m]]
          BY <1>2, <2>1 DEF BackTo
        <4>2. j + 1 \in (j + 1)..m
          BY <1>2
        <4>3. m \in Block(s, tm, j + 1)
          BY <4>1, <4>2 DEF Block
        <4> QED
          BY <1>3, <2>0, <2>3, <4>1, <4>2, <4>3
      <3>3. CASE b < j
        <4>1. b \in 0..(m - 2) /\ (b # 0 => b \in 1..(j - 1))
          BY <1>2, <2>1, <3>3
        <4>2. ASSUME NEW i \in (b + 1)..(m - 1)
              PROVE  tm[r[i]] = tm[r[m - 1]]
          <5>1. CASE i < j
            <6>1. i \in 1..(j - 1) /\ i \in (b + 1)..m
              BY <1>2, <2>1, <5>1
            <6> QED
              BY <1>1, <2>0, <2>1, <6>1 DEF BackTo, IsRemoved
          <5>2. CASE ~ (i < j)
            <6>1. i + 1 \in (j + 1)..Len(s) /\ i + 1 \in (b + 1)..m /\ (i + 1) - 1 = i
              BY <1>2, <2>0, <2>1, <5>2
            <6>2. r[i] = s[i + 1]
              BY <1>1, <6>1 DEF IsRemoved
            <6> QED
              BY <2>0, <2>1, <6>1, <6>2 DEF BackTo
          <5> QED
            BY <5>1, <5>2
        <4>3. BackTo(r, tm, prev2, b, m - 1)
          BY <1>1, <2>0, <2>1, <3>1, <4>1, <4>2 DEF BackTo, IsRemoved
        <4> QED
          BY <4>1, <4>3
      <3>4. CASE j < b
        <4>1. /\ b \in (j + 1)..Len(s) /\ b # 0 /\ b - 1 \in 0..(m - 2) /\ b - 1 # 0
              /\ r[b - 1] = s[b]
          BY <1>1, <1>2, <2>0, <2>1, <3>4 DEF IsRemoved
        <4>2. ASSUME NEW i \in (b - 1 + 1)..(m - 1)
              PROVE  tm[r[i]] = tm[r[m - 1]]
          <5>1. i + 1 \in (j + 1)..Len(s) /\ i + 1 \in (b + 1)..m /\ (i + 1) - 1 = i
            BY <1>2, <2>0, <2>1, <3>4
          <5>2. r[i] = s[i + 1]
            BY <1>1, <5>1 DEF IsRemoved
          <5> QED
            BY <2>0, <2>1, <5>1, <5>2 DEF BackTo
        <4>3. BackTo(r, tm, prev2, b - 1, m - 1)
          BY <2>0, <2>1, <3>1, <4>1, <4>2 DEF BackTo
        <4> QED
          BY <4>1, <4>3
      <3> QED
        BY <1>2, <2>1, <3>2, <3>3, <3>4
    <2> QED
      BY <2>2, <2>3
  <1>6. ASSUME NEW k \in 1..Len(r), n < tm[r[k]]
        PROVE  \E b \in 0..(k - 1) : BackTo(r, tm, prev2, b, k)
    <2>1. CASE k \in 1..(j - 1)
      BY <1>1, <1>4, <1>6, <2>1 DEF IsRemoved
    <2>2. ASSUME NEW m \in (j + 1)..Len(s), k = m - 1
          PROVE  \E b \in 0..(k - 1) : BackTo(r, tm, prev2, b, k)
      <3>1. n < tm[s[m]] /\ k - 1 = m - 2
        BY <1>1, <1>2, <1>6, <2>2 DEF IsRemoved
      <3> QED
        BY <1>5, <2>2, <3>1
    <2> QED
      BY <1>1, <2>1, <2>2 DEF IsRemoved
  <1> QED
    BY <1>6 DEF Back, r


-----------------------------------------------------------------------------
(* The invariant.                                                          *)

Types ==
    /\ { queueHead, queueTail, nonePendingHead, got } \subseteq Pointers
    /\ next \in [Events -> Pointers]
    /\ previous \in [Events -> Pointers]
    /\ queued \in [Events -> BOOLEAN]
    /\ time \in [Events -> Times]
    /\ now \in Times
    /\ timerStarted \in BOOLEAN

\* The pointers stand for the sequence q.
Linked(q) ==
    /\ q \in Seq(Events) /\ Distinct(q)
    /\ IsList(q, queueHead, next)
    /\ queueTail = IF q = << >> THEN "null" ELSE q[Len(q)]
    /\ nonePendingHead # "null" => nonePendingHead \in Elements(q)

\* An event that is not in the list is not marked, and does not point back
\* into it if it has left the list before its time came.
Outside(q) ==
    \A e \in Events \ Elements(q) :
       ~queued[e] /\ (now < time[e] => previous[e] = "null")

QueueInv(q) ==
    /\ Types /\ Linked(q) /\ Outside(q)
    /\ Ordered(q, time, now) /\ Back(q, time, previous, now)

\* The list is one as long as no event is linked twice.
ClockInv ==
    /\ relinked \in BOOLEAN
    /\ ~relinked => \E q : QueueInv(q)

\* Times are numbers.
LEMMA TimesAreNumbers ==
    Types => /\ time \in Clocks /\ now \in Nat
             /\ \A e \in Events : time[e] \in Nat
  BY ClockAssumption DEF Types, Clocks, Times

\* Queue reads the sequence.
LEMMA QueueReads ==
    ASSUME NEW q, Linked(q)
    PROVE  Queue = q /\ Range(Queue) = Elements(q) /\ DOMAIN Queue = 1..Len(q)
  <1>1. Queue = q
    BY DistinctIsShort, ChainOfList DEF Queue, From, Linked
  <1>2. DOMAIN q = 1..Len(q)
    BY DEF Linked
  <1> QED
    BY <1>1, <1>2 DEF Range, Elements

\* The same in the next state.
LEMMA QueueReadsNext ==
    ASSUME NEW q, Linked(q)'
    PROVE  Queue' = q /\ Range(Queue)' = Elements(q) /\ DOMAIN Queue' = 1..Len(q)
  <1>1. Queue' = q
    BY DistinctIsShort, ChainOfList DEF Queue, From, Linked
  <1>2. DOMAIN q = 1..Len(q)
    BY DEF Linked
  <1> QED
    BY <1>1, <1>2 DEF Range, Elements

\* The list from the i-th event on.
LEMMA FromAt ==
    ASSUME NEW q, Linked(q), NEW i \in 1..Len(q)
    PROVE  LET c == From(q[i]) IN
           /\ DOMAIN c = 1..(Len(q) - i + 1)
           /\ \A k \in 1..(Len(q) - i + 1) : c[k] = q[i + k - 1]
  <1> DEFINE c == [k \in 1..(Len(q) - i + 1) |-> q[i + k - 1]]
             n == Len(q) - i + 1
  <1>1. q \in Seq(Events) /\ Len(q) \in Nat /\ i \in Nat /\ 1 <= i /\ i <= Len(q)
    BY DEF Linked
  <1>2. n \in Nat \ {0} /\ \A k \in 1..n : i + k - 1 \in 1..Len(q)
    BY <1>1
  <1>3. c \in Seq(Events) /\ Len(c) = n /\ \A k \in 1..n : c[k] = q[i + k - 1]
    <2>1. \A k \in 1..n : c[k] = q[i + k - 1] /\ c[k] \in Events
      BY <1>1, <1>2
    <2>2. c \in [1..n -> Events]
      BY <2>1
    <2> QED
      BY <1>2, <2>1, <2>2
  <1> HIDE DEF c
  <1>4. IsList(c, q[i], next)
    <2>1. c # << >> /\ c[1] = q[i]
      BY <1>1, <1>2, <1>3
    <2>2. ASSUME NEW k \in 1..n
          PROVE  next[c[k]] = IF k = n THEN "null" ELSE c[k + 1]
      <3>1. next[q[i + k - 1]] = IF i + k - 1 = Len(q) THEN "null" ELSE q[i + k - 1 + 1]
        BY <1>2 DEF Linked, IsList
      <3>2. k # n => k + 1 \in 1..n
        BY <1>2
      <3>3. i + k - 1 = Len(q) <=> k = n
        BY <1>1
      <3>4. k # n => c[k + 1] = q[i + k - 1 + 1]
        <4>1. i + (k + 1) - 1 = i + k - 1 + 1
          BY <1>1
        <4> QED
          BY <1>3, <3>2, <4>1
      <3> QED
        BY <1>3, <3>1, <3>3, <3>4
    <2> QED
      BY <1>3, <2>1, <2>2 DEF IsList
  <1>5. Len(c) <= Cardinality(Events) /\ Cardinality(Events) \in Nat
    <2>1. Len(q) <= Cardinality(Events) /\ Cardinality(Events) \in Nat
      BY DistinctIsShort DEF Linked
    <2> QED
      BY <1>1, <1>3, <2>1
  <1>6. From(q[i]) = c
    BY <1>3, <1>4, <1>5, ChainOfList DEF From
  <1> QED
    BY <1>3, <1>6

\* A run of events, by their positions.
LEMMA RunAt ==
    ASSUME NEW q, Linked(q), NEW i \in 1..Len(q), NEW S
    PROVE  RunOf(q[i], S) =
              { q[m] : m \in { l \in i..Len(q) : \A k \in i..l : q[k] \in S } }
  <1> DEFINE c == From(q[i])
             n == Len(q) - i + 1
             P == { l \in i..Len(q) : \A k \in i..l : q[k] \in S }
             J == { j \in DOMAIN c : \A k \in 1..j : c[k] \in S }
  <1>1. DOMAIN c = 1..n /\ \A k \in 1..n : c[k] = q[i + k - 1]
    BY FromAt
  <1>2. Len(q) \in Nat /\ i \in Nat /\ 1 <= i /\ i <= Len(q)
    BY DEF Linked
  <1>3. RunOf(q[i], S) = { c[k] : k \in J }
    BY DEF RunOf
  <1> HIDE DEF c
  <1>4. ASSUME NEW j \in J
        PROVE  i + j - 1 \in P /\ c[j] = q[i + j - 1]
    <2>1. j \in 1..n /\ \A k \in 1..j : c[k] \in S
      BY <1>1
    <2>2. ASSUME NEW k \in i..(i + j - 1)
          PROVE  q[k] \in S
      <3>1. k - i + 1 \in 1..j /\ k - i + 1 \in 1..n /\ i + (k - i + 1) - 1 = k
        BY <1>2, <2>1
      <3>2. c[k - i + 1] = q[k]
        BY <1>1, <3>1
      <3> QED
        BY <2>1, <3>1, <3>2
    <2>3. i + j - 1 \in i..Len(q)
      BY <1>2, <2>1
    <2> QED
      BY <1>1, <2>1, <2>2, <2>3
  <1>5. ASSUME NEW m \in P
        PROVE  m - i + 1 \in J /\ c[m - i + 1] = q[m]
    <2>1. m \in i..Len(q) /\ \A k \in i..m : q[k] \in S
      OBVIOUS
    <2>2. m - i + 1 \in 1..n /\ i + (m - i + 1) - 1 = m
      BY <1>2, <2>1
    <2>3. ASSUME NEW k \in 1..(m - i + 1)
          PROVE  c[k] \in S
      <3>1. i + k - 1 \in i..m /\ k \in 1..n
        BY <1>2, <2>1, <2>2
      <3> QED
        BY <1>1, <2>1, <3>1
    <2>4. c[m - i + 1] = q[m]
      BY <1>1, <2>2
    <2> QED
      BY <1>1, <2>2, <2>3, <2>4
  <1> HIDE DEF J, P
  <1>6. { c[k] : k \in J } = { q[m] : m \in P }
    BY <1>4, <1>5
  <1> QED
    BY <1>3, <1>6 DEF P

\* The events of a block.
LEMMA BlockAt ==
    ASSUME NEW q, Linked(q), NEW i \in 1..Len(q)
    PROVE  SameTime(q[i]) = { q[m] : m \in Block(q, time, i) }
  <1> DEFINE S == { e \in Events : time[e] = time[q[i]] }
  <1>1. SameTime(q[i]) = { q[m] : m \in { l \in i..Len(q) : \A k \in i..l : q[k] \in S } }
    BY RunAt DEF SameTime
  <1>2. ASSUME NEW k \in i..Len(q)
        PROVE  q[k] \in S <=> time[q[k]] = time[q[i]]
    BY DEF Linked
  <1>3. ASSUME NEW l \in i..Len(q), NEW k \in i..l
        PROVE  k \in i..Len(q)
    BY DEF Linked
  <1> HIDE DEF S
  <1>4. { l \in i..Len(q) : \A k \in i..l : q[k] \in S } = Block(q, time, i)
    BY <1>2, <1>3 DEF Block
  <1> QED
    BY <1>1, <1>4


-----------------------------------------------------------------------------
(* The search from the tail.                                               *)

\* The place of an event for time t: behind the last one that does not start
\* later.
IsPlace(q, j, t) ==
    /\ \A k \in (j + 1)..Len(q) : t < time[q[k]]
    /\ 0 < j => time[q[j]] <= t

LEMMA PlaceExists ==
    ASSUME NEW q \in Seq(Events), Types, NEW t \in Nat
    PROVE  \E j \in 0..Len(q) : IsPlace(q, j, t)
  <1> DEFINE T == { j \in 0..Len(q) : \A k \in (j + 1)..Len(q) : t < time[q[k]] }
  <1>1. Len(q) \in Nat /\ \A k \in 1..Len(q) : q[k] \in Events /\ time[q[k]] \in Nat
    BY TimesAreNumbers
  <1>2. T \in SUBSET Nat /\ T # {}
    <2>1. Len(q) \in T
      BY <1>1
    <2> QED
      BY <2>1
  <1> HIDE DEF T
  <1>3. PICK j \in T : \A i \in T : j <= i
    BY <1>2, LeastNumber
  <1>a. j \in 0..Len(q) /\ \A k \in (j + 1)..Len(q) : t < time[q[k]]
    BY DEF T
  <1>b. 0 < j => j - 1 \notin T
    BY <1>3, <1>a
  <1> USE DEF T
  <1>4. ASSUME 0 < j
        PROVE  time[q[j]] <= t
    <2>1. j - 1 \in 0..Len(q) /\ j - 1 \notin T /\ j \in 1..Len(q)
      BY <1>1, <1>4, <1>a, <1>b
    <2>2. PICK k \in ((j - 1) + 1)..Len(q) : ~ (t < time[q[k]])
      BY <2>1
    <2>3. k = j
      BY <1>1, <1>3, <2>2
    <2> QED
      BY <1>1, <2>1, <2>2, <2>3
  <1> QED
    BY <1>4, <1>a DEF IsPlace

\* The search over the backward pointers finds it, although they skip events.
LEMMA SearchFinds ==
    ASSUME NEW q, QueueInv(q), NEW t \in Nat, now < t,
           NEW j \in 0..Len(q), IsPlace(q, j, t)
    PROVE  SearchBack(t) = IF j = 0 THEN "null" ELSE q[j]
  <1> DEFINE g == IF j = 0 THEN "null" ELSE q[j]
             back[e \in Pointers] ==
                IF e # Null /\ time[e] > t THEN back[previous[e]] ELSE e
             Step(f) == [e \in Pointers |->
                           IF e # Null /\ time[e] > t THEN f[previous[e]] ELSE e]
             walk == [e \in Pointers |->
                        IF e # "null" /\ time[e] > t
                        THEN IF e \in Elements(q) THEN g ELSE "null"
                        ELSE e]
  <1>0. /\ Types /\ Linked(q) /\ Outside(q) /\ Ordered(q, time, now)
        /\ Back(q, time, previous, now)
    BY DEF QueueInv
  <1>1. /\ Len(q) \in Nat /\ now \in Nat /\ j \in Nat /\ j <= Len(q)
        /\ \A k \in 1..Len(q) : q[k] \in Events /\ time[q[k]] \in Nat
                                /\ q[k] # "null" /\ q[k] \in Elements(q)
    BY <1>0, TimesAreNumbers, ClockAssumption DEF Linked, Elements
  <1>2. ASSUME NEW k \in 1..Len(q)
        PROVE  t < time[q[k]] <=> j < k
    <2>1. CASE j < k
      <3>1. k \in (j + 1)..Len(q)
        BY <1>1, <2>1
      <3> QED
        BY <2>1, <3>1 DEF IsPlace
    <2>2. CASE k = j
      BY <1>1, <2>2 DEF IsPlace
    <2>3. CASE k < j
      <3>1. j \in 1..Len(q) /\ time[q[j]] <= t
        BY <1>1, <2>3 DEF IsPlace
      <3>2. t < time[q[k]] => time[q[k]] <= time[q[j]]
        BY <1>0, <1>1, <2>3, <3>1 DEF Ordered
      <3> QED
        BY <1>1, <2>3, <3>1, <3>2
    <2> QED
      BY <1>1, <2>1, <2>2, <2>3
  \* The predecessor of an event that starts later.
  <1>3. ASSUME NEW k \in 1..Len(q), t < time[q[k]]
        PROVE  \E b \in 0..(k - 1) : /\ previous[q[k]] = IF b = 0 THEN "null" ELSE q[b]
                                     /\ j <= b
    <2>1. now < time[q[k]]
      BY <1>1, <1>3
    <2>2. PICK b \in 0..(k - 1) : BackTo(q, time, previous, b, k)
      BY <1>0, <2>1 DEF Back
    <2>3. j <= b
      <3> SUFFICES ASSUME b < j
                   PROVE  FALSE
        BY <1>1
      <3>1. j \in (b + 1)..k /\ j \in 1..Len(q)
        BY <1>1, <1>2, <1>3
      <3>2. time[q[j]] = time[q[k]]
        BY <2>2, <3>1 DEF BackTo
      <3> QED
        BY <1>1, <1>2, <1>3, <3>1, <3>2
    <2> QED
      BY <2>2, <2>3 DEF BackTo
  <1>4. ASSUME NEW e \in Pointers
        PROVE  walk[e] = IF e # Null /\ time[e] > t THEN walk[previous[e]] ELSE e
    <2>1. CASE ~ (e # "null" /\ time[e] > t)
      BY <2>1
    <2>2. CASE e # "null" /\ time[e] > t /\ e \in Elements(q)
      <3>1. PICK k \in 1..Len(q) : e = q[k]
        BY <2>2 DEF Elements
      <3>2. t < time[q[k]]
        BY <1>1, <2>2, <3>1
      <3>3. PICK b \in 0..(k - 1) : /\ previous[q[k]] = IF b = 0 THEN "null" ELSE q[b]
                                    /\ j <= b
        BY <1>3, <3>2
      <3>4. CASE b = 0
        <4>1. j = 0 /\ previous[e] = "null" /\ walk["null"] = "null"
          BY <1>1, <3>1, <3>3, <3>4 DEF Pointers
        <4> QED
          BY <2>2, <4>1
      <3>5. CASE b # 0
        <4>1. b \in 1..Len(q) /\ previous[e] = q[b] /\ q[b] \in Pointers
              /\ q[b] \in Elements(q) /\ q[b] # "null"
          BY <1>1, <3>1, <3>3, <3>5 DEF Pointers
        <4>2. CASE j < b
          <5>1. time[q[b]] > t
            BY <1>1, <1>2, <4>1, <4>2
          <5> QED
            BY <2>2, <4>1, <5>1
        <4>3. CASE j = b
          <5>1. ~ (time[q[b]] > t) /\ g = q[b]
            BY <1>1, <1>2, <3>5, <4>1, <4>3
          <5> QED
            BY <2>2, <4>1, <5>1
        <4> QED
          BY <1>1, <3>3, <4>2, <4>3
      <3> QED
        BY <3>4, <3>5
    <2>3. CASE e # "null" /\ time[e] > t /\ e \notin Elements(q)
      <3>1. e \in Events \ Elements(q) /\ now < time[e]
        <4>1. e \in Events
          BY <2>3 DEF Pointers
        <4>2. time[e] \in Nat
          BY <1>0, <4>1, TimesAreNumbers
        <4> QED
          BY <1>1, <2>3, <4>1, <4>2
      <3>2. previous[e] = "null" /\ walk["null"] = "null"
        BY <1>0, <3>1 DEF Outside, Pointers
      <3> QED
        BY <2>3, <3>2
    <2> QED
      BY <2>1, <2>2, <2>3
  <1>5. back = CHOOSE f : f = Step(f)
    OBVIOUS
  <1>6. SearchBack(t) = back[queueTail]
    BY DEF SearchBack, SearchBackIn
  <1> HIDE DEF back
  <1>7. back = Step(back)
    <2>1. walk = Step(walk)
      BY <1>4
    <2> HIDE DEF walk, Step
    <2> QED
      BY <1>5, <2>1
  <1>8. \A e \in Pointers :
           back[e] = IF e # Null /\ time[e] > t THEN back[previous[e]] ELSE e
    BY <1>7
  <1> DEFINE Wrong == { k \in 1..Len(q) : back[q[k]] # walk[q[k]] }
  <1>9. ASSUME Wrong # {}
        PROVE  FALSE
    <2>1. Wrong \in SUBSET Nat
      OBVIOUS
    <2>2. PICK k \in Wrong : \A i \in Wrong : k <= i
      BY <1>9, <2>1, LeastNumber
    <2> HIDE DEF walk
    <2>3. k \in 1..Len(q) /\ q[k] \in Pointers /\ back[q[k]] # walk[q[k]]
      BY <1>1, <2>2 DEF Pointers
    <2>4. time[q[k]] > t /\ back[q[k]] = back[previous[q[k]]]
          /\ walk[q[k]] = walk[previous[q[k]]]
      BY <1>4, <1>8, <2>3
    <2>5. PICK b \in 0..(k - 1) : previous[q[k]] = IF b = 0 THEN "null" ELSE q[b]
      BY <1>1, <1>3, <2>3, <2>4
    <2>6. CASE b = 0
      <3>1. back["null"] = "null"
        BY <1>8 DEF Pointers
      <3>2. walk["null"] = "null"
        BY <1>4 DEF Pointers
      <3> QED
        BY <2>3, <2>4, <2>5, <2>6, <3>1, <3>2
    <2>7. CASE b # 0
      <3>1. b \in 1..Len(q) /\ b < k
        BY <1>1, <2>3, <2>7
      <3>2. b \notin Wrong
        BY <2>2, <2>3, <3>1
      <3> QED
        BY <2>3, <2>4, <2>5, <2>7, <3>1, <3>2
    <2> QED
      BY <2>6, <2>7
  <1>10. CASE q = << >>
    <2>1. queueTail = "null" /\ j = 0
      BY <1>0, <1>1, <1>10 DEF Linked
    <2>2. back["null"] = "null"
      BY <1>8 DEF Pointers
    <2> QED
      BY <1>6, <2>1, <2>2
  <1>11. CASE q # << >>
    <2>1. Len(q) \in 1..Len(q) /\ queueTail = q[Len(q)]
      <3>1. q \in Seq(Events)
        BY <1>0 DEF Linked
      <3> QED
        BY <1>0, <1>11, <3>1 DEF Linked
    <2>2. back[q[Len(q)]] = walk[q[Len(q)]]
      BY <1>9, <2>1
    <2>3. q[Len(q)] \in Pointers /\ q[Len(q)] # "null" /\ q[Len(q)] \in Elements(q)
          /\ time[q[Len(q)]] \in Nat
      BY <1>1, <2>1 DEF Pointers
    <2>4. CASE j = Len(q)
      <3>1. ~ (time[q[Len(q)]] > t) /\ g = q[Len(q)]
        BY <1>1, <1>2, <2>1, <2>3, <2>4
      <3>2. walk[q[Len(q)]] = q[Len(q)]
        BY <2>3, <3>1
      <3> QED
        BY <1>6, <2>1, <2>2, <3>1, <3>2
    <2>5. CASE j # Len(q)
      <3>1. time[q[Len(q)]] > t
        BY <1>1, <1>2, <2>1, <2>3, <2>5
      <3>2. walk[q[Len(q)]] = g
        BY <2>3, <3>1
      <3> QED
        BY <1>6, <2>1, <2>2, <3>2
    <2> QED
      BY <2>4, <2>5
  <1> QED
    BY <1>10, <1>11

-----------------------------------------------------------------------------
(* What an operation does to the list.                                     *)

\* One more event, where it belongs.
LEMMA InsertedInv ==
    ASSUME NEW q, QueueInv(q), NEW e \in Events, e \notin Elements(q),
           NEW t \in Times, NEW j \in 0..Len(q), Types',
           \A k \in (j + 1)..Len(q) : now < time[q[k]] \/ now < t => t < time[q[k]],
           0 < j => now < t /\ time[q[j]] <= t,
           time' = [time EXCEPT ![e] = t], now' = now,
           queueHead' = (IF j = 0 THEN e ELSE queueHead),
           queueTail' = (IF j = Len(q) THEN e ELSE queueTail),
           nonePendingHead' \in { nonePendingHead, e },
           next'[e] = (IF j = Len(q) THEN "null" ELSE q[j + 1]),
           j > 0 => next'[q[j]] = e,
           \A k \in 1..Len(q) : k # j => next'[q[k]] = next[q[k]],
           \A m \in 1..Len(q) : now < time[q[m]] =>
              previous'[q[m]] = IF m \in Block(q, time, j + 1) THEN e ELSE previous[q[m]],
           now < t => previous'[e] = IF j = 0 THEN "null"
                                     ELSE IF time[q[j]] = t THEN previous[q[j]] ELSE q[j],
           \A x \in Events \ Elements(q) :
              x # e => previous'[x] = previous[x] /\ queued'[x] = queued[x]
    PROVE  QueueInv(Inserted(q, j, e))'
  <1> DEFINE r == Inserted(q, j, e)
  <1>1. /\ Types /\ Linked(q) /\ Outside(q) /\ Ordered(q, time, now)
        /\ Back(q, time, previous, now)
    BY DEF QueueInv
  <1>2. /\ q \in Seq(Events) /\ Distinct(q) /\ IsList(q, queueHead, next)
        /\ Len(q) \in Nat /\ time \in Clocks /\ now \in Nat /\ t \in Nat
    BY <1>1, TimesAreNumbers, ClockAssumption DEF Linked, Times
  <1>3. IsInserted(r, q, j, e)
    BY <1>2, InsertedAt
  <1>4. Distinct(r) /\ Elements(r) = Elements(q) \cup {e}
    BY <1>2, InsertedDistinct
  <1>5. IsList(r, queueHead, next)'
    BY <1>2, ListInserted
  <1>6. queueTail' = IF r = << >> THEN "null" ELSE r[Len(r)]
    <2>1. CASE j = Len(q)
      BY <1>3, <2>1 DEF IsInserted
    <2>2. CASE j # Len(q)
      <3>1. Len(q) \in (j + 1)..Len(q) /\ q # << >>
        BY <1>2, <2>2
      <3> QED
        BY <1>1, <1>3, <2>2, <3>1 DEF IsInserted, Linked
    <2> QED
      BY <2>1, <2>2
  <1>7. nonePendingHead' # "null" => nonePendingHead' \in Elements(r)
    BY <1>1, <1>4 DEF Linked
  <1>8. Ordered(r, time, now)'
    <2>1. now < t => \A k \in (j + 1)..Len(q) : t < time[q[k]]
      OBVIOUS
    <2>2. Ordered(r, time', now)
      BY <1>1, <1>2, <2>1, OrderedInserted
    <2> QED
      BY <2>2
  <1>9. Back(r, time, previous, now)'
    <2>1. \A k \in (j + 1)..Len(q) : now < time[q[k]] => t < time[q[k]]
      OBVIOUS
    <2>2. LinkedBack(q, time, now, previous, j, e, t, previous')
      BY <2>1 DEF LinkedBack
    <2>3. Back(r, time', previous', now)
      BY <1>1, <1>2, <2>2, BackInserted
    <2> QED
      BY <2>3
  <1> HIDE DEF r
  <1>10. Outside(r)'
    BY <1>1, <1>2, <1>4 DEF Outside
  <1>11. Linked(r)'
    BY <1>3, <1>4, <1>5, <1>6, <1>7 DEF Linked, IsInserted
  <1> QED
    BY <1>8, <1>9, <1>10, <1>11 DEF QueueInv, r

\* One event less.
LEMMA RemovedInv ==
    ASSUME NEW q, QueueInv(q), NEW j \in 1..Len(q), Types',
           time' = time, now' = now,
           queueHead' = (IF j = 1 THEN next[q[j]] ELSE queueHead),
           queueTail' = (IF j = Len(q) THEN IF j = 1 THEN "null" ELSE q[j - 1]
                                       ELSE queueTail),
           nonePendingHead' = (IF q[j] = nonePendingHead THEN next[q[j]]
                                                         ELSE nonePendingHead),
           j > 1 => next'[q[j - 1]] = next[q[j]],
           \A k \in 1..Len(q) : k # j /\ k # j - 1 => next'[q[k]] = next[q[k]],
           \A m \in 1..Len(q) : m # j /\ now < time[q[m]] =>
              previous'[q[m]] = IF m \in Block(q, time, j + 1) /\ time[q[j]] # time[q[j + 1]]
                                THEN (IF j = 1 THEN "null" ELSE q[j - 1])
                                ELSE previous[q[m]],
           now < time[q[j]] => previous'[q[j]] = "null", queued'[q[j]] = FALSE,
           \A x \in Events \ Elements(q) :
              previous'[x] = previous[x] /\ queued'[x] = queued[x]
    PROVE  QueueInv(Removed(q, j))'
  <1> DEFINE r == Removed(q, j)
  <1>1. /\ Types /\ Linked(q) /\ Outside(q) /\ Ordered(q, time, now)
        /\ Back(q, time, previous, now)
    BY DEF QueueInv
  <1>2. /\ q \in Seq(Events) /\ Distinct(q) /\ IsList(q, queueHead, next)
        /\ Len(q) \in Nat \ {0} /\ time \in Clocks /\ now \in Nat
    BY <1>1, TimesAreNumbers, ClockAssumption DEF Linked, Times
  <1>3. IsRemoved(r, q, j)
    BY <1>2, RemovedAt
  <1>4. Distinct(r) /\ Elements(r) = Elements(q) \ {q[j]}
    BY <1>2, RemovedDistinct
  <1>5. IsList(r, queueHead, next)'
    BY <1>2, ListRemoved
  <1>6. next[q[j]] = IF j = Len(q) THEN "null" ELSE q[j + 1]
    BY <1>2 DEF IsList
  <1>7. queueTail' = IF r = << >> THEN "null" ELSE r[Len(r)]
    <2>1. r = << >> <=> Len(q) = 1
      BY <1>2, <1>3 DEF IsRemoved
    <2>2. CASE j = Len(q) /\ j # 1
      <3>1. j - 1 \in 1..(j - 1) /\ Len(r) = j - 1
        BY <1>2, <1>3, <2>2 DEF IsRemoved
      <3> QED
        BY <1>3, <2>1, <2>2, <3>1 DEF IsRemoved
    <2>3. CASE j # Len(q)
      <3>1. Len(q) \in (j + 1)..Len(q) /\ q # << >> /\ Len(q) # 1
        BY <1>2, <2>3
      <3> QED
        BY <1>1, <1>3, <2>1, <2>3, <3>1 DEF IsRemoved, Linked
    <2> QED
      BY <2>1, <2>2, <2>3
  <1>8. nonePendingHead' # "null" => nonePendingHead' \in Elements(r)
    <2>1. j # Len(q) => q[j + 1] \in Elements(q) /\ q[j + 1] # q[j]
      <3> SUFFICES ASSUME j # Len(q)
                   PROVE  q[j + 1] \in Elements(q) /\ q[j + 1] # q[j]
        OBVIOUS
      <3>1. j + 1 \in 1..Len(q) /\ j + 1 # j
        BY <1>2
      <3> QED
        BY <1>2, <3>1 DEF Elements, Distinct
    <2> QED
      BY <1>1, <1>4, <1>6, <2>1 DEF Linked
  <1>9. Ordered(r, time, now)'
    BY <1>1, <1>2, OrderedRemoved
  <1>10. Back(r, time, previous, now)'
    BY <1>1, <1>2, BackRemoved
  <1> HIDE DEF r
  <1>11. Outside(r)'
    BY <1>1, <1>2, <1>4 DEF Outside
  <1>12. Linked(r)'
    BY <1>3, <1>4, <1>5, <1>7, <1>8 DEF Linked, IsRemoved
  <1> QED
    BY <1>9, <1>10, <1>11, <1>12 DEF QueueInv, r


\* The pointers after the events of a block are linked.
LEMMA LinkBlock ==
    ASSUME NEW q, Types, Linked(q), NEW i \in 1..(Len(q) + 1), NEW to \in Pointers, NEW S,
           i <= Len(q) => S = { q[m] : m \in Block(q, time, i) },
           i > Len(q) => S = {}
    PROVE  /\ Link(S, to) \in [Events -> Pointers]
           /\ \A m \in 1..Len(q) : Link(S, to)[q[m]] = IF m \in Block(q, time, i)
                                                       THEN to ELSE previous[q[m]]
           /\ \A e \in Events \ Elements(q) : Link(S, to)[e] = previous[e]
  <1> DEFINE P == Block(q, time, i)
  <1>1. Len(q) \in Nat
    BY DEF Linked
  <1>2. P \in SUBSET (1..Len(q)) /\ (i > Len(q) => P = {})
    BY <1>1 DEF Block
  <1>3. S = { q[m] : m \in P }
    BY <1>1, <1>2
  <1>4. Link(S, to) \in [Events -> Pointers]
    BY DEF Link, Types
  <1> HIDE DEF P
  <1>5. /\ \A m \in 1..Len(q) : Link(S, to)[q[m]] = IF m \in P THEN to ELSE previous[q[m]]
        /\ \A e \in Events \ Elements(q) : Link(S, to)[e] = previous[e]
    <2>1. \A m \in 1..Len(q) : q[m] \in Events /\ (q[m] \in S <=> m \in P)
      BY <1>2, <1>3 DEF Linked, Distinct
    <2>2. \A e \in Events \ Elements(q) : e \notin S
      BY <1>2, <1>3 DEF Elements
    <2> QED
      BY <2>1, <2>2 DEF Link
  <1> QED
    BY <1>4, <1>5 DEF P

\* When all events are in the future, those without a predecessor are the
\* first block.
LEMMA FirstBlock ==
    ASSUME NEW q, QueueInv(q), q # << >>, \A k \in 1..Len(q) : now < time[q[k]]
    PROVE  RunOf(queueHead, { x \in Events : previous[x] = Null })
              = { q[m] : m \in Block(q, time, 1) }
  <1> DEFINE S == { x \in Events : previous[x] = Null }
             P == { l \in 1..Len(q) : \A k \in 1..l : q[k] \in S }
  <1>1. Types /\ Linked(q) /\ Back(q, time, previous, now)
    BY DEF QueueInv
  <1>2. /\ Len(q) \in Nat /\ 1 \in 1..Len(q) /\ queueHead = q[1]
        /\ \A k \in 1..Len(q) : q[k] \in Events /\ q[k] # "null" /\ time[q[k]] \in Nat
    <2>1. q \in Seq(Events) /\ Len(q) # 0
      BY <1>1 DEF Linked
    <2> QED
      BY <1>1, <2>1, ClockAssumption, TimesAreNumbers DEF Linked, IsList
  <1>3. RunOf(queueHead, S) = { q[m] : m \in P }
    BY <1>1, <1>2, RunAt
  <1>4. ASSUME NEW k \in 1..Len(q)
        PROVE  \E b \in 0..(k - 1) :
                  /\ BackTo(q, time, previous, b, k)
                  /\ q[k] \in S <=> b = 0
    <2>1. PICK b \in 0..(k - 1) : BackTo(q, time, previous, b, k)
      BY <1>1 DEF Back
    <2>2. b # 0 => b \in 1..Len(q)
      BY <1>2
    <2> QED
      BY <1>2, <2>1, <2>2 DEF BackTo
  <1> HIDE DEF S
  <1>5. ASSUME NEW l \in P
        PROVE  l \in Block(q, time, 1)
    <2>1. l \in 1..Len(q) /\ q[l] \in S
      BY <1>2
    <2>2. BackTo(q, time, previous, 0, l)
      BY <1>4, <2>1
    <2>3. \A i \in 1..l : time[q[i]] = time[q[l]]
      BY <2>2 DEF BackTo
    <2>4. 1 \in 1..l
      BY <2>1
    <2> QED
      BY <2>1, <2>3, <2>4 DEF Block
  <1>6. ASSUME NEW l \in Block(q, time, 1)
        PROVE  l \in P
    <2>1. l \in 1..Len(q) /\ \A i \in 1..l : time[q[i]] = time[q[1]]
      BY DEF Block
    <2>2. ASSUME NEW k \in 1..l
          PROVE  q[k] \in S
      <3>1. k \in 1..Len(q)
        BY <1>2, <2>1
      <3>2. PICK b \in 0..(k - 1) : /\ BackTo(q, time, previous, b, k)
                                    /\ q[k] \in S <=> b = 0
        BY <1>4, <3>1
      <3>3. ASSUME b # 0
            PROVE  FALSE
        <4>1. b \in 1..l /\ b \in 1..Len(q)
          BY <1>2, <2>1, <3>1, <3>3
        <4>2. time[q[b]] = time[q[k]] /\ time[q[b]] < time[q[k]]
          BY <2>1, <3>2, <3>3, <4>1 DEF BackTo
        <4> QED
          BY <1>2, <3>1, <4>1, <4>2
      <3> QED
        BY <3>2, <3>3
    <2> QED
      BY <2>1, <2>2
  <1> HIDE DEF P
  <1>7. P = Block(q, time, 1)
    BY <1>5, <1>6
  <1> QED
    BY <1>3, <1>7 DEF S


\* An event that starts in the future is inserted at its place.
LEMMA StartFutureInserts ==
    ASSUME NEW q, QueueInv(q), NEW e \in Events, e \notin Elements(q), NEW t \in Times,
           StartFuture(e, t)
    PROVE  \E j \in 0..Len(q) : /\ IsPlace(q, j, t)
                                /\ SearchBack(t) = IF j = 0 THEN "null" ELSE q[j]
                                /\ QueueInv(Inserted(q, j, e))'
  <1>1. /\ Types /\ Linked(q) /\ Back(q, time, previous, now)
        /\ Ordered(q, time, now)
    BY DEF QueueInv
  <1>2. /\ q \in Seq(Events) /\ Len(q) \in Nat /\ now \in Nat /\ t \in Nat
        /\ \A k \in 1..Len(q) : q[k] \in Events /\ q[k] # "null" /\ q[k] \in Elements(q)
                                /\ time[q[k]] \in Nat
        /\ queueHead = "null" <=> q = << >>
        /\ q = << >> <=> Len(q) = 0
    <2>1. q \in Seq(Events)
      BY <1>1 DEF Linked
    <2>2. \A k \in 1..Len(q) : q[k] \in Events
      BY <2>1
    <2>3. q = << >> <=> Len(q) = 0
      BY <2>1
    <2>4. queueHead = "null" <=> q = << >>
      BY <1>1, <2>1, <2>2, <2>3, ClockAssumption DEF Linked, IsList
    <2> QED
      BY <1>1, <2>1, <2>2, <2>3, <2>4, ClockAssumption, TimesAreNumbers
         DEF Times, Elements
  <1>3. now < t /\ now' = now /\ time' = [time EXCEPT ![e] = t]
        /\ queued' = [queued EXCEPT ![e] = TRUE]
    BY <1>2 DEF StartFuture
  <1>4. PICK j \in 0..Len(q) : IsPlace(q, j, t)
    BY <1>1, <1>2, PlaceExists
  <1>5. SearchBack(t) = IF j = 0 THEN "null" ELSE q[j]
    BY <1>2, <1>3, <1>4, SearchFinds
  <1>6. /\ \A k \in (j + 1)..Len(q) : t < time[q[k]]
        /\ 0 < j => time[q[j]] <= t
    BY <1>4 DEF IsPlace
  <1>7. CASE j = 0
    <2> DEFINE S == RunOf(queueHead, { x \in Events : previous[x] = Null })
    <2>1. EnqueueFirst(e)
      BY <1>5, <1>7 DEF StartFuture
    <2>2. previous' = [Link(S, e) EXCEPT ![e] = "null"]
      BY <2>1 DEF EnqueueFirst
    <2>3. q # << >> => S = { q[m] : m \in Block(q, time, 1) }
      <3>1. \A k \in 1..Len(q) : now < time[q[k]]
        BY <1>2, <1>3, <1>6, <1>7
      <3> QED
        BY <3>1, FirstBlock
    <2>4. q = << >> => S = {}
      <3>1. q = << >> => From(queueHead) = << >>
        BY <1>1, <1>2, QueueReads DEF Queue
      <3> QED
        BY <3>1 DEF S, RunOf
    <2> HIDE DEF S
    <2>5. /\ Link(S, e) \in [Events -> Pointers]
          /\ \A m \in 1..Len(q) : Link(S, e)[q[m]] = IF m \in Block(q, time, 1)
                                                     THEN e ELSE previous[q[m]]
          /\ \A x \in Events \ Elements(q) : Link(S, e)[x] = previous[x]
      <3>1. e \in Pointers
        BY DEF Pointers
      <3>2. /\ 1 \in 1..(Len(q) + 1)
            /\ 1 <= Len(q) => S = { q[m] : m \in Block(q, time, 1) }
            /\ 1 > Len(q) => S = {}
        BY <1>2, <2>3, <2>4
      <3> QED
        BY <1>1, <3>1, <3>2, LinkBlock
    <2>6. /\ \A m \in 1..Len(q) :
                previous'[q[m]] = IF m \in Block(q, time, 1) THEN e ELSE previous[q[m]]
          /\ \A x \in Events \ Elements(q) : x # e => previous'[x] = previous[x]
          /\ previous'[e] = "null" /\ previous' \in [Events -> Pointers]
      <3>1. \A m \in 1..Len(q) : q[m] # e
        BY <1>2
      <3>2. DOMAIN Link(S, e) = Events /\ "null" \in Pointers
        BY <2>5 DEF Pointers
      <3> QED
        BY <1>2, <2>2, <2>5, <3>1, <3>2
    <2>7. /\ next' = [next EXCEPT ![e] = queueHead] /\ queueHead' = e
          /\ queueTail' = (IF j = Len(q) THEN e ELSE queueTail)
          /\ nonePendingHead' \in { nonePendingHead, e }
      BY <1>2, <1>7, <2>1 DEF EnqueueFirst
    <2>8. /\ next'[e] = IF j = Len(q) THEN "null" ELSE q[j + 1]
          /\ \A k \in 1..Len(q) : next'[q[k]] = next[q[k]]
      <3>1. \A k \in 1..Len(q) : q[k] # e
        BY <1>2
      <3>2. next'[e] = queueHead /\ \A x \in Events : x # e => next'[x] = next[x]
        BY <1>1, <2>7 DEF Types
      <3>3. queueHead = IF j = Len(q) THEN "null" ELSE q[j + 1]
        BY <1>1, <1>2, <1>7 DEF Linked, IsList
      <3> QED
        BY <1>2, <3>1, <3>2, <3>3
    <2>9. Types'
      BY <1>1, <1>2, <1>3, <2>6, <2>7 DEF Types, Pointers, StartFuture, EarliestStart
    <2>10. QueueInv(Inserted(q, j, e))'
      <3>1. /\ \A k \in (j + 1)..Len(q) : now < time[q[k]] \/ now < t => t < time[q[k]]
            /\ 0 < j => now < t /\ time[q[j]] <= t
        BY <1>3, <1>6
      <3>2. queueHead' = (IF j = 0 THEN e ELSE queueHead)
        BY <1>7, <2>7
      <3>3. previous'[e] = IF j = 0 THEN "null"
                           ELSE IF time[q[j]] = t THEN previous[q[j]] ELSE q[j]
        BY <1>7, <2>6
      <3>4. \A x \in Events \ Elements(q) : x # e => queued'[x] = queued[x]
        BY <1>1, <1>3 DEF Types
      <3>5. \A m \in 1..Len(q) :
               previous'[q[m]] = IF m \in Block(q, time, j + 1) THEN e ELSE previous[q[m]]
        BY <1>7, <2>6
      <3>6. ~ (j > 0)
        BY <1>7
      <3> QED
        BY <1>3, <2>6, <2>7, <2>8, <2>9, <3>1, <3>2, <3>3, <3>4, <3>5, <3>6, InsertedInv
    <2> QED
      BY <1>4, <1>5, <2>10
  <1>8. CASE j # 0
    <2> DEFINE p == q[j]
               n == next[p]
               S == IF n = Null THEN {} ELSE SameTime(n)
    <2>1. /\ j \in 1..Len(q) /\ p \in Events /\ p # "null" /\ p # e
          /\ n = IF j = Len(q) THEN "null" ELSE q[j + 1]
      BY <1>1, <1>2, <1>8 DEF Linked, IsList
    <2>2. EnqueueBehind(e, p, t)
      BY <1>5, <1>8, <2>1 DEF StartFuture
    <2>3. /\ previous' = [Link(S, e) EXCEPT ![e] = IF time[p] = t THEN previous[p] ELSE p]
          /\ next' = [next EXCEPT ![e] = n, ![p] = e]
          /\ queueTail' = (IF j = Len(q) THEN e ELSE queueTail)
          /\ nonePendingHead' \in { nonePendingHead, e } /\ queueHead' = queueHead
      <3>1. n = "null" <=> j = Len(q)
        <4>1. j # Len(q) => j + 1 \in 1..Len(q)
          BY <1>2
        <4> QED
          BY <1>2, <2>1, <4>1
      <3> QED
        BY <2>2, <3>1 DEF EnqueueBehind
    <2>4. /\ j + 1 \in 1..(Len(q) + 1)
          /\ j + 1 <= Len(q) => S = { q[m] : m \in Block(q, time, j + 1) }
          /\ j + 1 > Len(q) => S = {}
      <3>1. ASSUME j + 1 <= Len(q)
            PROVE  S = { q[m] : m \in Block(q, time, j + 1) }
        <4>1. j + 1 \in 1..Len(q) /\ j # Len(q)
          BY <1>2, <3>1
        <4>2. S = SameTime(q[j + 1])
          BY <1>2, <2>1, <4>1
        <4> QED
          BY <1>1, <4>1, <4>2, BlockAt
      <3>2. j + 1 > Len(q) => S = {}
        BY <1>2, <2>1
      <3> QED
        BY <1>2, <3>1, <3>2
    <2> HIDE DEF S
    <2>5. /\ Link(S, e) \in [Events -> Pointers]
          /\ \A m \in 1..Len(q) : Link(S, e)[q[m]] = IF m \in Block(q, time, j + 1)
                                                     THEN e ELSE previous[q[m]]
          /\ \A x \in Events \ Elements(q) : Link(S, e)[x] = previous[x]
      <3>1. e \in Pointers
        BY DEF Pointers
      <3> QED
        BY <1>1, <2>4, <3>1, LinkBlock
    <2>6. /\ \A m \in 1..Len(q) :
                previous'[q[m]] = IF m \in Block(q, time, j + 1) THEN e ELSE previous[q[m]]
          /\ \A x \in Events \ Elements(q) : x # e => previous'[x] = previous[x]
          /\ previous'[e] = IF time[p] = t THEN previous[p] ELSE p
          /\ previous' \in [Events -> Pointers]
      <3>1. \A m \in 1..Len(q) : q[m] # e
        BY <1>2
      <3>2. DOMAIN Link(S, e) = Events /\ p \in Pointers /\ previous[p] \in Pointers
        BY <1>1, <2>1, <2>5 DEF Pointers, Types
      <3> QED
        BY <1>2, <2>3, <2>5, <3>1, <3>2
    <2>7. /\ next'[e] = (IF j = Len(q) THEN "null" ELSE q[j + 1]) /\ next'[p] = e
          /\ \A k \in 1..Len(q) : k # j => next'[q[k]] = next[q[k]]
          /\ next' \in [Events -> Pointers]
      <3>1. \A k \in 1..Len(q) : q[k] # e /\ (k # j => q[k] # p)
        BY <1>1, <1>2, <2>1 DEF Linked, Distinct
      <3>2. next \in [Events -> Pointers] /\ n \in Pointers /\ e \in Pointers
        BY <1>1, <2>1 DEF Types, Pointers
      <3> QED
        BY <1>2, <2>1, <2>3, <3>1, <3>2
    <2>8. Types'
      BY <1>1, <1>2, <1>3, <2>3, <2>6, <2>7 DEF Types, Pointers, StartFuture, EarliestStart
    <2>9. QueueInv(Inserted(q, j, e))'
      <3>1. /\ \A k \in (j + 1)..Len(q) : now < time[q[k]] \/ now < t => t < time[q[k]]
            /\ 0 < j => now < t /\ time[q[j]] <= t
        BY <1>3, <1>6
      <3>2. j > 0
        BY <1>8, <1>2
      <3>3. queueHead' = (IF j = 0 THEN e ELSE queueHead)
        BY <1>8, <2>3
      <3>4. previous'[e] = IF j = 0 THEN "null"
                           ELSE IF time[q[j]] = t THEN previous[q[j]] ELSE q[j]
        BY <1>8, <2>6
      <3>5. \A x \in Events \ Elements(q) : x # e => queued'[x] = queued[x]
        BY <1>1, <1>3 DEF Types
      <3> QED
        BY <1>3, <2>3, <2>6, <2>7, <2>8, <3>1, <3>2, <3>3, <3>4, <3>5, InsertedInv
    <2> QED
      BY <1>4, <1>5, <2>9
  <1> QED
    BY <1>7, <1>8

\* The list stays as it is.
LEMMA SameInv ==
    ASSUME NEW q, QueueInv(q), Types', time' = time, now' \in { now, now + 1 },
           queueHead' = queueHead, queueTail' = queueTail,
           nonePendingHead' = "null" \/ nonePendingHead' \in Elements(q),
           \A k \in 1..Len(q) : next'[q[k]] = next[q[k]] /\ previous'[q[k]] = previous[q[k]],
           \A x \in Events \ Elements(q) : /\ previous'[x] \in { previous[x], "null" }
                                           /\ queued'[x] => queued[x]
    PROVE  QueueInv(q)'
  <1>1. /\ Types /\ Linked(q) /\ Outside(q) /\ Ordered(q, time, now)
        /\ Back(q, time, previous, now)
    BY DEF QueueInv
  <1>2. /\ q \in Seq(Events) /\ now \in Nat /\ now' \in Nat /\ now <= now'
        /\ Len(q) \in Nat /\ \A x \in Events : time[x] \in Nat
        /\ \A k \in 1..Len(q) : q[k] \in Events /\ time[q[k]] \in Nat
    BY <1>1, TimesAreNumbers DEF Linked
  <1>3. Linked(q)'
    BY <1>1 DEF Linked, IsList
  <1>4. Outside(q)'
    <2>1. \A x \in Events : now' < time[x] => now < time[x]
      BY <1>2
    <2> QED
      BY <1>1, <2>1 DEF Outside
  <1>5. \A k \in 1..Len(q) : now' < time[q[k]] => now < time[q[k]]
    BY <1>2
  <1>6. Ordered(q, time, now)'
    BY <1>1, <1>5 DEF Ordered
  <1>7. Back(q, time, previous, now)'
    <2> SUFFICES ASSUME NEW k \in 1..Len(q), now' < time[q[k]]
                 PROVE  \E j \in 0..(k - 1) : BackTo(q, time, previous', j, k)
      BY DEF Back
    <2>1. PICK j \in 0..(k - 1) : BackTo(q, time, previous, j, k)
      BY <1>1, <1>5 DEF Back
    <2> QED
      BY <2>1 DEF BackTo
  <1> QED
    BY <1>3, <1>4, <1>6, <1>7 DEF QueueInv

\* What the conditions of the invariant say about the ends of the list.
LEMMA Ends ==
    ASSUME NEW q, QueueInv(q)
    PROVE  /\ Types /\ Linked(q) /\ q \in Seq(Events) /\ Distinct(q)
           /\ Len(q) \in Nat /\ now \in Nat
           /\ \A k \in 1..Len(q) : q[k] \in Events /\ q[k] # "null" /\ q[k] \in Elements(q)
                                   /\ time[q[k]] \in Nat
           /\ q = << >> <=> Len(q) = 0
           /\ queueHead = IF Len(q) = 0 THEN "null" ELSE q[1]
           /\ queueTail = IF Len(q) = 0 THEN "null" ELSE q[Len(q)]
           /\ \A k \in 1..Len(q) : next[q[k]] = IF k = Len(q) THEN "null" ELSE q[k + 1]
  <1>1. Types /\ Linked(q) /\ q \in Seq(Events) /\ Distinct(q) /\ IsList(q, queueHead, next)
    BY DEF QueueInv, Linked
  <1>2. Len(q) \in Nat /\ now \in Nat /\ (q = << >> <=> Len(q) = 0)
    BY <1>1, TimesAreNumbers
  <1>3. \A k \in 1..Len(q) : q[k] \in Events /\ q[k] # "null" /\ q[k] \in Elements(q)
                             /\ time[q[k]] \in Nat
    BY <1>1, ClockAssumption, TimesAreNumbers DEF Elements
  <1> QED
    BY <1>1, <1>2, <1>3 DEF IsList, Linked

\* An event whose time has come becomes the head.
LEMMA StartNowInserts ==
    ASSUME NEW q, QueueInv(q), NEW e \in Events, e \notin Elements(q), NEW t \in Times,
           StartNow(e, t)
    PROVE  QueueInv(Inserted(q, 0, e))'
  <1> DEFINE S == IF queueHead # Null /\ t < time[queueHead] THEN SameTime(queueHead)
                                                             ELSE {}
             P == IF S = {} THEN {} ELSE Block(q, time, 1)
  <1>1. /\ Types /\ Linked(q) /\ q \in Seq(Events) /\ Len(q) \in Nat /\ now \in Nat
        /\ \A k \in 1..Len(q) : q[k] \in Events /\ q[k] # "null" /\ q[k] # e
                                /\ time[q[k]] \in Nat
        /\ queueHead = IF Len(q) = 0 THEN "null" ELSE q[1]
    BY Ends
  <1>2. /\ t <= now /\ now' = now /\ time' = [time EXCEPT ![e] = t] /\ t \in Nat
        /\ queued' = queued /\ nonePendingHead' = nonePendingHead
        /\ got' = "null" /\ timerStarted' = FALSE
        /\ previous' = [Link(S, e) EXCEPT ![e] = "null"]
        /\ next' = [next EXCEPT ![e] = queueHead] /\ queueHead' = e
        /\ queueTail' = IF queueHead = "null" THEN e ELSE queueTail
    BY DEF StartNow, EnqueueHead, NoResult, Times
  <1>3. queueHead = "null" <=> Len(q) = 0
    BY <1>1
  \* The first block, if it is in the future.
  <1>4. /\ Link(S, e) \in [Events -> Pointers]
        /\ \A m \in 1..Len(q) : now < time[q[m]] =>
              Link(S, e)[q[m]] = IF m \in Block(q, time, 1) THEN e ELSE previous[q[m]]
        /\ \A x \in Events \ Elements(q) : Link(S, e)[x] = previous[x]
    <2>1. e \in Pointers /\ 1 \in 1..(Len(q) + 1)
      BY <1>1 DEF Pointers
    <2>2. CASE queueHead # "null" /\ t < time[queueHead]
      <3>1. 1 \in 1..Len(q) /\ queueHead = q[1]
        BY <1>1, <2>2
      <3>2. S = { q[m] : m \in Block(q, time, 1) }
        BY <1>1, <2>2, <3>1, BlockAt
      <3> HIDE DEF S
      <3> QED
        BY <1>1, <2>1, <3>1, <3>2, LinkBlock
    <2>3. CASE ~ (queueHead # "null" /\ t < time[queueHead])
      <3>1. S = {}
        BY <2>3
      <3>2. ASSUME NEW m \in 1..Len(q), now < time[q[m]]
            PROVE  m \notin Block(q, time, 1)
        <4>1. 1 \in 1..Len(q) /\ queueHead = q[1] /\ m \in 1..m
          BY <1>1
        <4>2. time[q[1]] <= now
          BY <1>1, <1>2, <2>3, <4>1
        <4>3. time[q[m]] # time[q[1]]
          BY <1>1, <3>2, <4>1, <4>2
        <4> QED
          BY <4>1, <4>3 DEF Block
      <3> HIDE DEF S
      <3>3. Link(S, e) \in [Events -> Pointers] /\ \A x \in Events : Link(S, e)[x] = previous[x]
        BY <1>1, <3>1 DEF Link, Types
      <3> QED
        BY <1>1, <3>2, <3>3
    <2> QED
      BY <2>2, <2>3
  <1> HIDE DEF S
  <1>5. /\ \A m \in 1..Len(q) : now < time[q[m]] =>
              previous'[q[m]] = IF m \in Block(q, time, 0 + 1) THEN e ELSE previous[q[m]]
        /\ \A x \in Events \ Elements(q) : x # e => previous'[x] = previous[x]
        /\ previous' \in [Events -> Pointers]
    <2>1. DOMAIN Link(S, e) = Events /\ "null" \in Pointers /\ 0 + 1 = 1
      BY <1>4 DEF Pointers
    <2> QED
      BY <1>1, <1>2, <1>4, <2>1
  <1>6. /\ next'[e] = IF 0 = Len(q) THEN "null" ELSE q[0 + 1]
        /\ \A k \in 1..Len(q) : k # 0 => next'[q[k]] = next[q[k]]
    BY <1>1, <1>2 DEF Types
  <1>7. Types'
    <2>1. { queueHead', queueTail', nonePendingHead', got' } \subseteq Pointers
      BY <1>1, <1>2 DEF Types, Pointers
    <2>2. next' \in [Events -> Pointers] /\ time' \in [Events -> Times]
      BY <1>1, <1>2 DEF Types
    <2> QED
      BY <1>1, <1>2, <1>5, <2>1, <2>2 DEF Types
  <1>8. /\ \A k \in (0 + 1)..Len(q) : now < time[q[k]] \/ now < t => t < time[q[k]]
        /\ ~ (0 > 0) /\ ~ (now < t) /\ ~ (0 < 0) /\ 0 \in 0..Len(q)
    BY <1>1, <1>2
  <1>9. /\ queueHead' = (IF 0 = 0 THEN e ELSE queueHead)
        /\ queueTail' = (IF 0 = Len(q) THEN e ELSE queueTail)
        /\ nonePendingHead' \in { nonePendingHead, e }
    BY <1>2, <1>3
  <1> QED
    BY <1>2, <1>5, <1>6, <1>7, <1>8, <1>9, InsertedInv


\* The predecessor of an event in the list.
LEMMA BeforeAt ==
    ASSUME NEW q, QueueInv(q), NEW j \in 1..Len(q)
    PROVE  Before(q[j]) = IF j = 1 THEN "null" ELSE q[j - 1]
  <1>1. /\ Linked(q) /\ Distinct(q) /\ Len(q) \in Nat
        /\ \A k \in 1..Len(q) : q[k] \in Elements(q) /\ q[k] # "null"
        /\ \A k \in 1..Len(q) : next[q[k]] = IF k = Len(q) THEN "null" ELSE q[k + 1]
        /\ queueHead = q[1]
    BY Ends
  <1>2. CASE j = 1
    BY <1>1, <1>2 DEF Before
  <1>3. CASE j # 1
    <2>1. j - 1 \in 1..Len(q) /\ 1 \in 1..Len(q) /\ (j - 1) + 1 = j /\ j - 1 # Len(q)
      BY <1>1, <1>3
    <2>2. q[j] # queueHead
      BY <1>1, <1>3, <2>1 DEF Distinct
    <2>3. next[q[j - 1]] = q[j] /\ q[j - 1] \in Elements(q)
      BY <1>1, <2>1
    <2>4. ASSUME NEW p \in Elements(q), next[p] = q[j]
          PROVE  p = q[j - 1]
      <3>1. PICK k \in 1..Len(q) : p = q[k]
        BY DEF Elements
      <3>2. k # Len(q) /\ q[k + 1] = q[j]
        BY <1>1, <2>4, <3>1
      <3>3. k + 1 \in 1..Len(q)
        BY <1>1, <3>2
      <3>4. k + 1 = j
        BY <1>1, <3>2, <3>3 DEF Distinct
      <3> QED
        BY <1>1, <3>1, <3>4
    <2>5. Range(Queue) = Elements(q)
      BY <1>1, QueueReads
    <2>6. (CHOOSE p \in Elements(q) : next[p] = q[j]) = q[j - 1]
      BY <2>3, <2>4
    <2> QED
      BY <1>3, <2>2, <2>5, <2>6 DEF Before
  <1> QED
    BY <1>2, <1>3

\* An event that is dequeued leaves the list; what is not in it changes nothing.
LEMMA DequeueRemoves ==
    ASSUME NEW q, QueueInv(q), NEW j \in 1..Len(q), Dequeue(q[j])
    PROVE  QueueInv(Removed(q, j))'
  <1> DEFINE e == q[j]
             p == Before(e)
             n == next[e]
             S == IF n # Null /\ time[e] # time[n] THEN SameTime(n) ELSE {}
  <1>1. /\ Types /\ Linked(q) /\ Distinct(q) /\ q \in Seq(Events) /\ Len(q) \in Nat
        /\ \A k \in 1..Len(q) : q[k] \in Events /\ q[k] # "null" /\ q[k] \in Elements(q)
        /\ queueTail = q[Len(q)] /\ now \in Nat
        /\ \A k \in 1..Len(q) : next[q[k]] = IF k = Len(q) THEN "null" ELSE q[k + 1]
    BY Ends
  <1>2. p = IF j = 1 THEN "null" ELSE q[j - 1]
    BY BeforeAt
  <1>3. e \in Events /\ n = IF j = Len(q) THEN "null" ELSE q[j + 1]
    BY <1>1
  <1>4. /\ p \in Pointers /\ n \in Pointers /\ (p = "null" <=> j = 1)
        /\ (n = "null" <=> j = Len(q)) /\ (e = queueTail <=> j = Len(q))
    <2>1. j # 1 => j - 1 \in 1..Len(q)
      BY <1>1
    <2>2. j # Len(q) => j + 1 \in 1..Len(q)
      BY <1>1
    <2>3. Len(q) \in 1..Len(q)
      BY <1>1
    <2> QED
      BY <1>1, <1>2, <1>3, <2>1, <2>2, <2>3 DEF Pointers, Distinct
  <1>5. /\ nonePendingHead' = (IF e = nonePendingHead THEN n ELSE nonePendingHead)
        /\ queued' = [queued EXCEPT ![e] = FALSE] /\ time' = time /\ now' = now
        /\ got' = "null" /\ timerStarted' = FALSE
        /\ queueHead' = (IF p = Null THEN n ELSE queueHead)
        /\ queueTail' = (IF e = queueTail THEN p ELSE queueTail)
        /\ next' = [x \in Events |-> CASE x = e -> Null [] x = p -> n [] OTHER -> next[x]]
        /\ previous' = [Link(S, p) EXCEPT ![e] = "null"]
    <2>1. e \in Range(Queue)
      BY <1>1, QueueReads
    <2> QED
      BY <2>1 DEF Dequeue, AdvanceCache, NoResult
  <1> HIDE DEF p, n
  <1>6. /\ Link(S, p) \in [Events -> Pointers]
        /\ \A m \in 1..Len(q) :
              Link(S, p)[q[m]] = IF m \in Block(q, time, j + 1) /\ time[e] # time[q[j + 1]]
                                 THEN p ELSE previous[q[m]]
        /\ \A x \in Events \ Elements(q) : Link(S, p)[x] = previous[x]
    <2>1. CASE j # Len(q) /\ time[e] # time[n]
      <3>1. j + 1 \in 1..Len(q) /\ j + 1 \in 1..(Len(q) + 1) /\ n = q[j + 1]
            /\ ~ (j + 1 > Len(q))
        BY <1>1, <1>3, <2>1
      <3>2. S = { q[m] : m \in Block(q, time, j + 1) }
        BY <1>1, <1>4, <2>1, <3>1, BlockAt
      <3> HIDE DEF S
      <3>3. /\ Link(S, p) \in [Events -> Pointers]
            /\ \A m \in 1..Len(q) : Link(S, p)[q[m]] = IF m \in Block(q, time, j + 1)
                                                       THEN p ELSE previous[q[m]]
            /\ \A x \in Events \ Elements(q) : Link(S, p)[x] = previous[x]
        <4>1. /\ j + 1 <= Len(q) => S = { q[m] : m \in Block(q, time, j + 1) }
              /\ j + 1 > Len(q) => S = {}
          BY <3>1, <3>2
        <4> QED
          BY <1>1, <1>4, <3>1, <4>1, LinkBlock
      <3> QED
        BY <2>1, <3>1, <3>3
    <2>2. CASE ~ (j # Len(q) /\ time[e] # time[n])
      <3>1. S = {}
        BY <1>4, <2>2
      <3> HIDE DEF S
      <3>2. Link(S, p) \in [Events -> Pointers] /\ \A x \in Events : Link(S, p)[x] = previous[x]
        BY <1>1, <3>1 DEF Link, Types
      <3>3. ~ (\E m \in 1..Len(q) : m \in Block(q, time, j + 1) /\ time[e] # time[q[j + 1]])
        BY <1>1, <1>3, <2>2 DEF Block
      <3> QED
        BY <1>1, <3>2, <3>3
    <2> QED
      BY <2>1, <2>2
  <1> HIDE DEF S
  <1>7. /\ \A m \in 1..Len(q) : m # j =>
              previous'[q[m]] = IF m \in Block(q, time, j + 1) /\ time[q[j]] # time[q[j + 1]]
                                THEN (IF j = 1 THEN "null" ELSE q[j - 1])
                                ELSE previous[q[m]]
        /\ previous'[q[j]] = "null" /\ previous' \in [Events -> Pointers]
        /\ \A x \in Events \ Elements(q) : previous'[x] = previous[x]
    <2>1. DOMAIN Link(S, p) = Events /\ "null" \in Pointers
      BY <1>6 DEF Pointers
    <2>2. \A m \in 1..Len(q) : m # j => q[m] # e
      BY <1>1 DEF Distinct
    <2>3. \A x \in Events \ Elements(q) : x # e
      BY <1>1
    <2>4. /\ \A x \in Events : x # e => previous'[x] = Link(S, p)[x]
          /\ previous'[e] = "null" /\ previous' \in [Events -> Pointers]
      BY <1>3, <1>5, <1>6, <2>1
    <2> QED
      BY <1>1, <1>2, <1>6, <2>2, <2>3, <2>4
  <1>8. /\ j > 1 => next'[q[j - 1]] = n
        /\ \A k \in 1..Len(q) : k # j /\ k # j - 1 => next'[q[k]] = next[q[k]]
        /\ next' \in [Events -> Pointers]
    <2>1. j > 1 => j - 1 \in 1..Len(q) /\ j - 1 # j /\ p = q[j - 1]
      BY <1>1, <1>2
    <2>2. \A k \in 1..Len(q) : k # j /\ k # j - 1 => q[k] # e /\ q[k] # p
      <3> SUFFICES ASSUME NEW k \in 1..Len(q), k # j, k # j - 1
                   PROVE  q[k] # e /\ q[k] # p
        OBVIOUS
      <3>1. j # 1 => j - 1 \in 1..Len(q)
        BY <1>1
      <3> QED
        BY <1>1, <1>2, <3>1 DEF Distinct
    <2>3. j > 1 => q[j - 1] # e /\ q[j - 1] \in Events
      BY <1>1, <2>1 DEF Distinct
    <2>4. next' \in [Events -> Pointers]
      BY <1>1, <1>4, <1>5 DEF Types, Pointers
    <2> QED
      BY <1>1, <1>5, <2>1, <2>2, <2>3, <2>4
  <1>9. Types'
    <2>1. { queueHead', queueTail', nonePendingHead', got' } \subseteq Pointers
      BY <1>1, <1>4, <1>5 DEF Types, Pointers
    <2>2. queued' \in [Events -> BOOLEAN]
      BY <1>1, <1>5 DEF Types
    <2> QED
      BY <1>1, <1>5, <1>7, <1>8, <2>1, <2>2 DEF Types
  <1>10. /\ queued'[e] = FALSE
         /\ \A x \in Events \ Elements(q) : queued'[x] = queued[x]
    BY <1>1, <1>3, <1>5 DEF Types
  <1>11. /\ queueHead' = (IF j = 1 THEN next[q[j]] ELSE queueHead)
         /\ queueTail' = (IF j = Len(q) THEN IF j = 1 THEN "null" ELSE q[j - 1]
                                        ELSE queueTail)
         /\ nonePendingHead' = (IF q[j] = nonePendingHead THEN next[q[j]]
                                                          ELSE nonePendingHead)
         /\ j > 1 => next'[q[j - 1]] = next[q[j]]
    BY <1>2, <1>4, <1>5, <1>8 DEF n
  <1> QED
    BY <1>5, <1>7, <1>8, <1>9, <1>10, <1>11, RemovedInv

\* To dequeue an event that is not in the list changes nothing in it.
LEMMA DequeueOutside ==
    ASSUME NEW q, QueueInv(q), NEW e \in Events, e \notin Elements(q), Dequeue(e)
    PROVE  QueueInv(q)'
  <1>1. /\ Types /\ Linked(q)
        /\ \A k \in 1..Len(q) : q[k] \in Events /\ q[k] # e
    BY Ends
  <1>2. e # "null" /\ e # nonePendingHead /\ e \notin Range(Queue)
    BY <1>1, ClockAssumption, QueueReads DEF Linked
  <1>3. /\ nonePendingHead' = nonePendingHead /\ queueHead' = queueHead
        /\ queueTail' = queueTail /\ time' = time /\ now' = now
        /\ next' = [next EXCEPT ![e] = "null"] /\ previous' = [previous EXCEPT ![e] = "null"]
        /\ queued' = [queued EXCEPT ![e] = FALSE] /\ got' = "null" /\ timerStarted' = FALSE
    BY <1>2 DEF Dequeue, AdvanceCache, NoResult
  <1>4. Types'
    BY <1>1, <1>3 DEF Types, Pointers
  <1>5. /\ \A k \in 1..Len(q) : next'[q[k]] = next[q[k]] /\ previous'[q[k]] = previous[q[k]]
        /\ \A x \in Events \ Elements(q) : /\ previous'[x] \in { previous[x], "null" }
                                           /\ queued'[x] => queued[x]
    BY <1>1, <1>3 DEF Types
  <1>6. nonePendingHead' = "null" \/ nonePendingHead' \in Elements(q)
    BY <1>1, <1>3 DEF Linked
  <1> QED
    BY <1>3, <1>4, <1>5, <1>6, SameInv


\* The event that is delivered was the head of the list.
LEMMA ReadFirstRemoves ==
    ASSUME NEW q, QueueInv(q), ReadFirstPending
    PROVE  /\ 1 \in 1..Len(q) /\ got' = q[1] /\ time[q[1]] <= now
           /\ QueueInv(Removed(q, 1))'
  <1> DEFINE e == queueHead
             n == next[e]
             S == IF n # Null /\ previous[n] # Null THEN SameTime(n) ELSE {}
  <1>1. /\ Types /\ Linked(q) /\ Distinct(q) /\ q \in Seq(Events) /\ Len(q) \in Nat
        /\ \A k \in 1..Len(q) : q[k] \in Events /\ q[k] # "null" /\ q[k] \in Elements(q)
                                /\ time[q[k]] \in Nat
        /\ queueHead = (IF Len(q) = 0 THEN "null" ELSE q[1])
        /\ queueTail = (IF Len(q) = 0 THEN "null" ELSE q[Len(q)]) /\ now \in Nat
        /\ \A k \in 1..Len(q) : next[q[k]] = IF k = Len(q) THEN "null" ELSE q[k + 1]
    BY Ends
  <1>2. 1 \in 1..Len(q) /\ e = q[1] /\ e \in Events /\ e \in Elements(q)
    BY <1>1 DEF ReadFirstPending
  <1>3. /\ time[e] <= now
        /\ nonePendingHead' = (IF e = nonePendingHead THEN n ELSE nonePendingHead)
        /\ queued' = [queued EXCEPT ![e] = FALSE] /\ time' = time /\ now' = now
        /\ got' = e /\ timerStarted' = FALSE /\ queueHead' = n
        /\ queueTail' = (IF n = Null THEN Null ELSE queueTail)
        /\ next' = [next EXCEPT ![e] = "null"] /\ previous' = Link(S, "null")
    BY DEF ReadFirstPending, AdvanceCache
  <1>4. n = (IF 1 = Len(q) THEN "null" ELSE q[2]) /\ n \in Pointers
        /\ (1 # Len(q) => 2 \in 1..Len(q) /\ n # "null" /\ n \in Events)
    <2>0. Len(q) \in Nat /\ 1 <= Len(q)
      BY <1>1, <1>2
    <2>a. \A l \in Nat : 1 <= l /\ 1 # l => 2 \in 1..l
      OBVIOUS
    <2>1. 1 # Len(q) => 2 \in 1..Len(q)
      BY <2>0, <2>a
    <2>2. n = IF 1 = Len(q) THEN "null" ELSE q[1 + 1]
      BY <1>1, <1>2
    <2>3. 1 + 1 = 2
      OBVIOUS
    <2> HIDE DEF n
    <2> QED
      BY <1>1, <2>1, <2>2, <2>3 DEF Pointers
  <1> HIDE DEF n
  <1>5. /\ previous' \in [Events -> Pointers]
        /\ \A m \in 1..Len(q) : m # 1 /\ now < time[q[m]] =>
              previous'[q[m]] = IF m \in Block(q, time, 2) /\ time[q[1]] # time[q[2]]
                                THEN "null" ELSE previous[q[m]]
        /\ \A x \in Events \ Elements(q) : previous'[x] = previous[x]
    <2>1. "null" \in Pointers
      BY DEF Pointers
    <2>2. CASE 1 # Len(q) /\ now < time[q[2]]
      <3>1. 2 \in 1..Len(q) /\ 2 \in 1..(Len(q) + 1) /\ n = q[2] /\ ~ (2 > Len(q))
        BY <1>1, <1>4, <2>2
      <3>2. previous[n] # "null"
        <4>1. Back(q, time, previous, now)
          BY DEF QueueInv
        <4>2. PICK b \in 0..(2 - 1) : BackTo(q, time, previous, b, 2)
          BY <2>2, <3>1, <4>1 DEF Back
        <4>3. 2 - 1 = 1 /\ 1 \in 1..2
          OBVIOUS
        <4>4. b # 0
          BY <1>1, <1>2, <1>3, <2>2, <3>1, <4>2, <4>3 DEF BackTo
        <4>5. b = 1
          BY <4>3, <4>4
        <4> QED
          BY <1>1, <1>2, <3>1, <4>2, <4>5 DEF BackTo
      <3>3. S = { q[m] : m \in Block(q, time, 2) }
        <4>1. S = SameTime(q[2])
          BY <1>4, <2>2, <3>1, <3>2
        <4>2. SameTime(q[2]) = { q[m] : m \in Block(q, time, 2) }
          <5>1. Linked(q)
            BY <1>1
          <5> QED
            BY <3>1, <5>1, BlockAt
        <4> HIDE DEF S
        <4> QED
          BY <4>1, <4>2
      <3> HIDE DEF S
      <3>4. /\ 2 <= Len(q) => S = { q[m] : m \in Block(q, time, 2) }
            /\ 2 > Len(q) => S = {}
        BY <3>1, <3>3
      <3>5. /\ Link(S, "null") \in [Events -> Pointers]
            /\ \A m \in 1..Len(q) : Link(S, "null")[q[m]] = IF m \in Block(q, time, 2)
                                                            THEN "null" ELSE previous[q[m]]
            /\ \A x \in Events \ Elements(q) : Link(S, "null")[x] = previous[x]
        BY <1>1, <2>1, <3>1, <3>4, LinkBlock
      <3>6. time[q[1]] # time[q[2]]
        BY <1>1, <1>2, <1>3, <2>2, <3>1
      <3> QED
        BY <1>3, <3>5, <3>6
    \* The events with the time of a pending one are not looked at any more.
    <2>3. CASE ~ (1 # Len(q) /\ now < time[q[2]])
      <3>1. 1 # Len(q) => ~ (now < time[q[2]]) /\ 2 \in 1..Len(q) /\ n = q[2]
        BY <1>4, <2>3
      <3>2. ASSUME NEW m \in 1..Len(q), m \in Block(q, time, 2)
            PROVE  1 # Len(q) /\ time[q[m]] = time[q[2]]
        BY <1>1, <3>2 DEF Block
      <3>3. \A x \in S : ~ (now < time[x]) /\ x \in Elements(q)
        <4> SUFFICES ASSUME NEW x \in S
                     PROVE  ~ (now < time[x]) /\ x \in Elements(q)
          OBVIOUS
        <4>1. n # "null" /\ x \in SameTime(n)
          OBVIOUS
        <4>2. 1 # Len(q) /\ n = q[2] /\ 2 \in 1..Len(q)
          BY <1>4, <4>1
        <4>a. SameTime(q[2]) = { q[m] : m \in Block(q, time, 2) }
          <5>1. Linked(q) /\ 2 \in 1..Len(q)
            BY <1>1, <4>2
          <5> HIDE DEF S
          <5> QED
            BY <5>1, BlockAt
        <4>3. x \in { q[m] : m \in Block(q, time, 2) }
          BY <4>1, <4>2, <4>a, Zenon
        <4>4. PICK m \in Block(q, time, 2) : x = q[m]
          BY <4>3
        <4>5. m \in 1..Len(q)
          BY <1>1 DEF Block
        <4>6. time[q[m]] = time[q[2]] /\ ~ (now < time[q[2]]) /\ q[m] \in Elements(q)
          BY <1>1, <3>1, <3>2, <4>2, <4>5
        <4> HIDE DEF S
        <4> QED
          BY <4>4, <4>6
      <3> HIDE DEF S
      <3>4. previous' \in [Events -> Pointers]
        BY <1>1, <1>3, <2>1 DEF Link, Types
      <3>5. \A x \in Events : x \notin S => previous'[x] = previous[x]
        BY <1>3 DEF Link
      <3>6. ASSUME NEW m \in 1..Len(q), now < time[q[m]]
            PROVE  q[m] \notin S /\ m \notin Block(q, time, 2)
        BY <1>1, <3>1, <3>2, <3>3, <3>6
      <3> QED
        BY <1>1, <3>3, <3>4, <3>5, <3>6
    <2> QED
      BY <2>2, <2>3
  <1> HIDE DEF S
  <1>6. /\ \A k \in 1..Len(q) : k # 1 => next'[q[k]] = next[q[k]]
        /\ next' \in [Events -> Pointers]
    <2>1. \A k \in 1..Len(q) : k # 1 => q[k] # e
      BY <1>1, <1>2 DEF Distinct
    <2>2. "null" \in Pointers
      BY DEF Pointers
    <2> QED
      BY <1>1, <1>2, <1>3, <2>1, <2>2 DEF Types
  <1>7. Types'
    <2>1. { queueHead', queueTail', nonePendingHead', got' } \subseteq Pointers
      BY <1>1, <1>2, <1>3, <1>4 DEF Types, Pointers
    <2>2. queued' \in [Events -> BOOLEAN]
      BY <1>1, <1>3 DEF Types
    <2> QED
      BY <1>1, <1>3, <1>5, <1>6, <2>1, <2>2 DEF Types
  <1>8. /\ queueHead' = (IF 1 = 1 THEN next[q[1]] ELSE queueHead)
        /\ queueTail' = (IF 1 = Len(q) THEN IF 1 = 1 THEN "null" ELSE q[1 - 1]
                                       ELSE queueTail)
        /\ nonePendingHead' = (IF q[1] = nonePendingHead THEN next[q[1]]
                                                         ELSE nonePendingHead)
        /\ ~ (1 > 1) /\ ~ (now < time[q[1]])
    <2>1. n = "null" <=> 1 = Len(q)
      BY <1>4
    <2>2. ~ (1 > 1) /\ ~ (now < time[q[1]])
      BY <1>1, <1>2, <1>3
    <2> QED
      BY <1>2, <1>3, <2>1, <2>2 DEF n
  <1>9. /\ queued'[q[1]] = FALSE
        /\ \A x \in Events \ Elements(q) : queued'[x] = queued[x]
    BY <1>1, <1>2, <1>3 DEF Types
  <1>10. \A m \in 1..Len(q) : m # 1 /\ now < time[q[m]] =>
            previous'[q[m]] = IF m \in Block(q, time, 1 + 1) /\ time[q[1]] # time[q[1 + 1]]
                              THEN (IF 1 = 1 THEN "null" ELSE q[1 - 1])
                              ELSE previous[q[m]]
    <2>1. 1 + 1 = 2
      OBVIOUS
    <2> QED
      BY <1>5, <2>1
  <1>11. QueueInv(Removed(q, 1))'
    BY <1>2, <1>3, <1>5, <1>6, <1>7, <1>8, <1>9, <1>10, RemovedInv
  <1> QED
    BY <1>2, <1>3, <1>11

\* The list is empty when all events are dequeued.
LEMMA DequeueAllEmpties ==
    ASSUME NEW q, QueueInv(q), DequeueAll
    PROVE  QueueInv(<< >>)'
  <1>1. Types /\ Linked(q) /\ Outside(q)
    BY DEF QueueInv
  <1>2. /\ nonePendingHead' = "null" /\ queueHead' = "null" /\ queueTail' = "null"
        /\ queued' = [e \in Events |-> queued[e] /\ e \notin Elements(q)]
        /\ next' = [e \in Events |-> IF e \in Elements(q) THEN "null" ELSE next[e]]
        /\ previous' = [e \in Events |-> IF e \in Elements(q) THEN "null" ELSE previous[e]]
        /\ time' = time /\ now' = now /\ got' = "null" /\ timerStarted' = FALSE
    BY <1>1, QueueReads DEF DequeueAll, Link, NoResult
  <1>3. Types'
    BY <1>1, <1>2 DEF Types, Pointers
  <1>4. Linked(<< >>)'
    BY <1>2 DEF Linked, Distinct, IsList
  <1>5. Outside(<< >>)'
    <2>1. ASSUME NEW e \in Events
          PROVE  ~queued'[e] /\ (now' < time'[e] => previous'[e] = "null")
      BY <1>1, <1>2 DEF Outside
    <2> QED
      BY <2>1 DEF Outside
  <1> QED
    BY <1>3, <1>4, <1>5 DEF QueueInv, Ordered, Back


\* The search for the next start time ends at an event of the list that is in
\* the future, or finds none because there is none.
LEMMA NextStartFound ==
    ASSUME NEW q, QueueInv(q), GetNextStartTime
    PROVE  /\ nonePendingHead' # "null" =>
                 nonePendingHead' \in Elements(q) /\ time[nonePendingHead'] > now
           /\ nonePendingHead' = "null" => \A x \in Elements(q) : ~ (time[x] > now)
  <1> DEFINE start == IF nonePendingHead = Null THEN queueHead ELSE nonePendingHead
             c == From(start)
             future == { k \in DOMAIN c : time[c[k]] > now }
  <1>1. /\ Types /\ Linked(q) /\ Len(q) \in Nat /\ now \in Nat
        /\ \A k \in 1..Len(q) : q[k] \in Events /\ q[k] # "null" /\ q[k] \in Elements(q)
                                /\ time[q[k]] \in Nat
        /\ queueHead = (IF Len(q) = 0 THEN "null" ELSE q[1])
        /\ (q = << >> <=> Len(q) = 0) /\ Ordered(q, time, now)
    <2>1. Ordered(q, time, now)
      BY DEF QueueInv
    <2> QED
      BY <2>1, Ends
  <1>2. nonePendingHead' = IF future = {} THEN "null" ELSE c[Min(future)]
    BY DEF GetNextStartTime
  <1>3. CASE Len(q) = 0
    <2>1. nonePendingHead = "null"
      BY <1>1, <1>3 DEF Linked, Elements
    <2>2. c = << >>
      BY <1>1, <1>3, <2>1, QueueReads DEF Queue
    <2>3. future = {}
      BY <2>2
    <2> HIDE DEF future
    <2> QED
      BY <1>2, <1>3, <2>3 DEF Elements
  <1>4. ASSUME NEW i \in 1..Len(q), start = q[i]
        PROVE  /\ nonePendingHead' # "null" =>
                     nonePendingHead' \in Elements(q) /\ time[nonePendingHead'] > now
               /\ nonePendingHead' = "null" => \A k \in i..Len(q) : ~ (time[q[k]] > now)
    <2> DEFINE n == Len(q) - i + 1
    <2>1. DOMAIN c = 1..n /\ \A k \in 1..n : c[k] = q[i + k - 1]
      BY <1>1, <1>4, FromAt
    <2>2. \A k \in 1..n : i + k - 1 \in 1..Len(q)
      BY <1>1
    <2>3. \A k \in i..Len(q) : k - i + 1 \in 1..n /\ i + (k - i + 1) - 1 = k
      BY <1>1
    <2> HIDE DEF c, n
    <2>4. CASE future = {}
      <3>1. ASSUME NEW k \in i..Len(q)
            PROVE  ~ (time[q[k]] > now)
        <4>1. k - i + 1 \in 1..n /\ c[k - i + 1] = q[k]
          BY <2>1, <2>3
        <4> QED
          BY <2>1, <2>4, <4>1
      <3>2. nonePendingHead' = "null"
        BY <1>2, <2>4
      <3> QED
        BY <3>1, <3>2
    <2>5. CASE future # {}
      <3>1. \E x \in future : \A y \in future : x <= y
        <4>1. future \in SUBSET Nat
          BY <2>1
        <4> HIDE DEF future
        <4> QED
          BY <2>5, <4>1, LeastNumber
      <3>2. Min(future) \in future
        <4> HIDE DEF future
        <4> QED
          BY <3>1 DEF Min
      <3>3. Min(future) \in 1..n /\ time[c[Min(future)]] > now
        BY <2>1, <3>2
      <3>4. nonePendingHead' = c[Min(future)]
        BY <1>2, <2>5
      <3> HIDE DEF future
      <3>5. c[Min(future)] \in Elements(q) /\ c[Min(future)] # "null"
        BY <1>1, <2>1, <2>2, <3>3
      <3> QED
        BY <3>3, <3>4, <3>5
    <2> QED
      BY <2>4, <2>5
  <1>5. CASE Len(q) # 0
    <2>1. 1 \in 1..Len(q)
      BY <1>1, <1>5
    <2>2. \A x \in Elements(q) : \E k \in 1..Len(q) : x = q[k]
      BY DEF Elements
    <2>3. CASE nonePendingHead = "null"
      <3>1. start = q[1]
        BY <1>1, <1>5, <2>3
      <3> QED
        BY <1>4, <2>1, <2>2, <3>1
    <2>4. CASE nonePendingHead # "null"
      <3>1. PICK i \in 1..Len(q) : nonePendingHead = q[i]
        BY <1>1, <2>2, <2>4 DEF Linked
      <3>2. start = q[i]
        BY <2>4, <3>1
      <3>3. nonePendingHead' = "null" =>
               \A k \in 1..Len(q) : ~ (time[q[k]] > now)
        <4> SUFFICES ASSUME nonePendingHead' = "null", NEW k \in 1..Len(q)
                     PROVE  ~ (time[q[k]] > now)
          OBVIOUS
        <4>1. \A m \in i..Len(q) : ~ (time[q[m]] > now)
          BY <1>4, <3>2
        <4>2. CASE i <= k
          <5>1. k \in i..Len(q)
            BY <1>1, <4>2
          <5> QED
            BY <4>1, <5>1
        <4>3. CASE k < i
          <5>1. i \in i..Len(q)
            BY <1>1
          <5>2. ~ (time[q[i]] > now)
            BY <4>1, <5>1
          <5>3. now < time[q[k]] => time[q[k]] <= time[q[i]]
            BY <1>1, <4>3 DEF Ordered
          <5> QED
            BY <1>1, <5>2, <5>3
        <4> QED
          BY <1>1, <4>2, <4>3
      <3> QED
        BY <1>4, <2>2, <3>2, <3>3
    <2> QED
      BY <2>3, <2>4
  <1> QED
    BY <1>3, <1>5


-----------------------------------------------------------------------------
(* Each step keeps the invariant, and is a step of the set of events.      *)

\* A step of the queue after which the list is r.
LEMMA SetStep ==
    ASSUME NEW q, QueueInv(q), NEW r, QueueInv(r)',
           \A x \in Elements(q) \cap Elements(r) : queued'[x] = queued[x],
           \/ got' = "null" /\ now' = now /\ time' = time /\ Elements(r) = Elements(q)
           \/ \E e \in Events, t \in Times :
                 /\ e \notin Elements(q) /\ got' = "null" /\ now' = now
                 /\ time' = [time EXCEPT ![e] = t] /\ queued'[e] = (t > now)
                 /\ Elements(r) = Elements(q) \cup {e}
           \/ \E e \in Events : /\ got' = "null" /\ now' = now /\ time' = time
                                /\ Elements(r) = Elements(q) \ {e}
           \/ \E e \in Elements(q) : /\ got' = e /\ now' = now /\ time' = time
                                     /\ time[e] <= now
                                     /\ Elements(r) = Elements(q) \ {e}
           \/ got' = "null" /\ now' = now /\ Elements(r) = {}
           \/ /\ got' = "null" /\ now < MaxTime /\ now' = now + 1
              /\ time' = time /\ Elements(r) = Elements(q)
    PROVE  Set!Operation
  <1> DEFINE D == { << e, time[e], queued[e] >> : e \in Range(Queue) }
             D0 == { << e, time[e], queued[e] >> : e \in Elements(q) }
             D1 == { << e, time'[e], queued'[e] >> : e \in Elements(r) }
  <1>1. D = D0 /\ D' = D1
    <2>1. Range(Queue) = Elements(q) /\ Range(Queue)' = Elements(r)
      BY QueueReads, QueueReadsNext DEF QueueInv
    <2> QED
      BY <2>1
  <1>2. \A x \in Elements(q) : x \in Events
    BY Ends DEF Elements
  <1> HIDE DEF D
  <1>3. CASE got' = "null" /\ now' = now /\ time' = time /\ Elements(r) = Elements(q)
    <2>1. D' = D
      BY <1>1, <1>3
    <2> QED
      BY <1>3, <2>1 DEF Set!Operation, Set!NoEffect, Set!Null, D
  <1>4. ASSUME NEW e \in Events, NEW t \in Times,
               e \notin Elements(q), got' = "null", now' = now,
               time' = [time EXCEPT ![e] = t], queued'[e] = (t > now),
               Elements(r) = Elements(q) \cup {e}
        PROVE  Set!Operation
    <2>1. time'[e] = t /\ \A x \in Elements(q) : time'[x] = time[x]
      BY <1>2, <1>4, Ends DEF Types
    <2>2. D1 = D0 \cup { << e, t, t > now >> } /\ e \notin { d[1] : d \in D0 }
      BY <1>4, <2>1
    <2> HIDE DEF D0, D1
    <2>3. Set!StartAt(e, t)
      BY <1>1, <1>4, <2>2 DEF Set!StartAt, Set!Queued, Set!Null, D
    <2> QED
      BY <2>3 DEF Set!Operation, Times
  <1>5. ASSUME NEW e \in Events, got' = "null", now' = now, time' = time,
               Elements(r) = Elements(q) \ {e}
        PROVE  Set!Operation
    <2>1. D1 = { d \in D0 : d[1] # e }
      BY <1>5
    <2> HIDE DEF D0, D1
    <2>2. Set!Dequeue(e)
      BY <1>1, <1>5, <2>1 DEF Set!Dequeue, Set!Null, D
    <2> QED
      BY <2>2 DEF Set!Operation
  <1>6. ASSUME NEW e \in Elements(q), got' = e, now' = now, time' = time, time[e] <= now,
               Elements(r) = Elements(q) \ {e}
        PROVE  Set!Operation
    <2> DEFINE d == << e, time[e], queued[e] >>
    <2>1. d \in D0 /\ d[1] = e /\ d[2] = time[e] /\ D1 = D0 \ {d}
      BY <1>6
    <2> HIDE DEF D0, D1
    <2>2. d \in Set!Pending
      BY <1>1, <1>6, <2>1 DEF Set!Pending, D
    <2>3. Set!ReadFirstPending
      BY <1>1, <1>6, <2>1, <2>2 DEF Set!ReadFirstPending, D
    <2> QED
      BY <2>3 DEF Set!Operation
  <1>7. CASE got' = "null" /\ now' = now /\ Elements(r) = {}
    <2>1. D' = {}
      BY <1>1, <1>7
    <2> QED
      BY <1>7, <2>1 DEF Set!Operation, Set!DequeueAll, Set!Null, D
  <1>8. CASE /\ got' = "null" /\ now < MaxTime /\ now' = now + 1
             /\ time' = time /\ Elements(r) = Elements(q)
    <2>1. D' = D
      BY <1>1, <1>8
    <2> QED
      BY <1>8, <2>1 DEF Set!Operation, Set!Tick, Set!Null, D
  <1> QED
    BY <1>3, <1>4, <1>5, <1>6, <1>7, <1>8

\* An event that may be started is not in the list.
LEMMA StartsOutside ==
    ASSUME NEW q, QueueInv(q), NEW e \in Events, ~ListedUnmarked(e), ~queued[e]
    PROVE  e \notin Elements(q)
  BY QueueReads DEF ListedUnmarked, QueueInv

\* An operation that leaves the list as it is.
LEMMA SameStep ==
    ASSUME NEW q, QueueInv(q), time' = time, queueHead' = queueHead,
           queueTail' = queueTail, next' = next, previous' = previous, queued' = queued,
           got' = "null", timerStarted' = FALSE,
           nonePendingHead' = "null" \/ nonePendingHead' \in Elements(q),
           now' = now \/ (now < MaxTime /\ now' = now + 1)
    PROVE  QueueInv(q)' /\ Set!Operation
  <1>1. /\ Types /\ \A k \in 1..Len(q) : q[k] \in Events
        /\ \A x \in Elements(q) : x \in Events
    BY Ends DEF Elements
  <1>2. now' \in Times /\ now' \in { now, now + 1 }
    BY <1>1, ClockAssumption DEF Types, Times
  <1>3. Types'
    BY <1>1, <1>2 DEF Types, Pointers
  <1>4. QueueInv(q)'
    <2>1. \A x \in Events \ Elements(q) : /\ previous'[x] \in { previous[x], "null" }
                                          /\ queued'[x] => queued[x]
      OBVIOUS
    <2>2. \A k \in 1..Len(q) : next'[q[k]] = next[q[k]] /\ previous'[q[k]] = previous[q[k]]
      OBVIOUS
    <2> QED
      BY <1>2, <1>3, <2>1, <2>2, SameInv
  <1>5. Set!Operation
    BY <1>4, SetStep
  <1> QED
    BY <1>4, <1>5

\* One event is started.
LEMMA StartStep ==
    ASSUME NEW q, QueueInv(q), NEW e \in Events, Start(e),
           \A t \in Times : ~StartAgain(e, t)
    PROVE  (\E r : QueueInv(r)') /\ Set!Operation
  <1>1. /\ Types /\ Linked(q) /\ Distinct(q) /\ q \in Seq(Events) /\ Len(q) \in Nat
        /\ \A x \in Elements(q) : x \in Events
    BY Ends DEF Elements
  <1>2. CASE StartQueued(e)
    <2>1. nonePendingHead' = "null" \/ nonePendingHead' \in Elements(q)
      BY <1>1, <1>2 DEF StartQueued, Linked
    <2>2. QueueInv(q)' /\ Set!Operation
      BY <1>2, <2>1, SameStep DEF StartQueued, NoResult
    <2> QED
      BY <2>2
  <1>3. ASSUME NEW t \in Times, ~ListedUnmarked(e), StartFuture(e, t) \/ StartNow(e, t)
        PROVE  (\E r : QueueInv(r)') /\ Set!Operation
    <2>1. /\ e \notin Elements(q) /\ got' = "null" /\ now' = now
          /\ time' = [time EXCEPT ![e] = t]
      BY <1>3, StartsOutside DEF StartFuture, StartNow, NoResult
    <2>2. PICK j \in 0..Len(q) : QueueInv(Inserted(q, j, e))'
      <3>1. 0 \in 0..Len(q)
        BY <1>1
      <3> QED
        BY <1>3, <2>1, <3>1, StartFutureInserts, StartNowInserts
    <2>3. Elements(Inserted(q, j, e)) = Elements(q) \cup {e}
      BY <1>1, <2>1, <2>2, InsertedDistinct
    <2>4. queued \in [Events -> BOOLEAN]
      BY <1>1 DEF Types
    <2>5. queued'[e] = (t > now)
      <3>1. now \in Nat /\ t \in Nat
        BY Ends, ClockAssumption DEF Times
      <3>2. CASE StartFuture(e, t)
        <4>1. queued'[e] = TRUE /\ t > now
          BY <2>4, <3>2 DEF StartFuture
        <4> QED
          BY <4>1
      <3>3. CASE StartNow(e, t)
        <4>1. queued'[e] = queued[e] /\ ~queued[e] /\ t <= now
          BY <3>3 DEF StartNow
        <4>2. queued[e] = FALSE /\ (t > now) = FALSE
          BY <2>4, <3>1, <4>1
        <4> QED
          BY <4>1, <4>2
      <3> QED
        BY <1>3, <3>2, <3>3
    <2>6. \A x \in Elements(q) : queued'[x] = queued[x]
      BY <1>1, <1>3, <2>1, <2>4 DEF StartFuture, StartNow
    <2> DEFINE r == Inserted(q, j, e)
    <2>7. \A x \in Elements(q) \cap Elements(r) : queued'[x] = queued[x]
      BY <2>6
    <2> HIDE DEF r
    <2>8. QueueInv(r)' /\ Elements(r) = Elements(q) \cup {e}
      BY <2>2, <2>3 DEF r
    <2>9. Set!Operation
      BY <2>1, <2>5, <2>7, <2>8, SetStep
    <2> QED
      BY <2>8, <2>9
  <1> QED
    BY <1>2, <1>3 DEF Start

\* One event leaves the list.
LEMMA DequeueStep ==
    ASSUME NEW q, QueueInv(q), NEW e \in Events, Dequeue(e)
    PROVE  (\E r : QueueInv(r)') /\ Set!Operation
  <1>1. /\ Distinct(q) /\ q \in Seq(Events) /\ Types
        /\ \A x \in Elements(q) : x \in Events
    BY Ends DEF Elements
  <1>2. /\ got' = "null" /\ now' = now /\ time' = time
        /\ \A x \in Elements(q) : x # e => queued'[x] = queued[x]
    BY <1>1 DEF Dequeue, NoResult, Types
  <1>3. CASE e \in Elements(q)
    <2>1. PICK j \in 1..Len(q) : e = q[j]
      BY <1>3 DEF Elements
    <2>2. QueueInv(Removed(q, j))'
      BY <2>1, DequeueRemoves
    <2>3. Elements(Removed(q, j)) = Elements(q) \ {e}
      BY <1>1, <2>1, RemovedDistinct
    <2> DEFINE r == Removed(q, j)
    <2>4. \A x \in Elements(q) \cap Elements(r) : queued'[x] = queued[x]
      BY <1>2, <2>3
    <2> HIDE DEF r
    <2>5. QueueInv(r)' /\ Elements(r) = Elements(q) \ {e}
      BY <2>2, <2>3 DEF r
    <2>6. Set!Operation
      BY <1>2, <2>4, <2>5, SetStep
    <2> QED
      BY <2>5, <2>6
  <1>4. CASE e \notin Elements(q)
    <2>1. QueueInv(q)'
      BY <1>4, DequeueOutside
    <2>2. \A x \in Elements(q) \cap Elements(q) : queued'[x] = queued[x]
      BY <1>2, <1>4
    <2>3. Set!Operation
      BY <1>2, <2>1, <2>2, SetStep
    <2> QED
      BY <2>1, <2>3
  <1> QED
    BY <1>3, <1>4

\* The start that links an event twice.
LEMMA StartAgainStep ==
    ASSUME NEW q, QueueInv(q), ~relinked, NEW e \in Events, NEW t \in Times,
           StartAgain(e, t)
    PROVE  ClockInv' /\ Set!Next
  <1>1. relinked' = TRUE /\ e \in Range(Queue) /\ ~queued[e]
    BY DEF StartAgain, ListedUnmarked
  <1> DEFINE D == { << x, time[x], queued[x] >> : x \in Range(Queue) }
  <1>2. \E d \in D : d[1] = e /\ ~d[3]
    <2>1. << e, time[e], queued[e] >> \in D
      BY <1>1
    <2> QED
      BY <1>1, <2>1
  <1> HIDE DEF D
  <1>3. Set!StartAgain(e)
    BY <1>1, <1>2 DEF Set!StartAgain, D
  <1> QED
    BY <1>1, <1>3 DEF Set!Next, ClockInv

\* Every other operation.
LEMMA OperationStep ==
    ASSUME NEW q, QueueInv(q), Operation,
           \A e \in Events, t \in Times : ~StartAgain(e, t)
    PROVE  (\E r : QueueInv(r)') /\ Set!Operation
  <1>1. /\ Types /\ Linked(q) /\ Distinct(q) /\ q \in Seq(Events) /\ Len(q) \in Nat
        /\ \A x \in Elements(q) : x \in Events
    BY Ends DEF Elements
  <1>2. nonePendingHead = "null" \/ nonePendingHead \in Elements(q)
    BY <1>1 DEF Linked
  <1>3. CASE \E e \in Events : Start(e) \/ Dequeue(e)
    BY <1>3, StartStep, DequeueStep
  <1>4. CASE ReadFirstPending
    <2> DEFINE r == Removed(q, 1)
    <2>1. 1 \in 1..Len(q) /\ got' = q[1] /\ time[q[1]] <= now /\ QueueInv(r)'
      BY <1>4, ReadFirstRemoves
    <2>2. /\ q[1] \in Elements(q) /\ now' = now /\ time' = time
          /\ \A x \in Elements(q) : x # q[1] => queued'[x] = queued[x]
      BY <1>1, <1>4, <2>1 DEF Elements, ReadFirstPending, Types
    <2>3. Elements(r) = Elements(q) \ {q[1]}
      BY <1>1, <2>1, RemovedDistinct
    <2> HIDE DEF r
    <2>4. \A x \in Elements(q) \cap Elements(r) : queued'[x] = queued[x]
      BY <2>2, <2>3
    <2>5. Set!Operation
      BY <2>1, <2>2, <2>3, <2>4, SetStep
    <2> QED
      BY <2>1, <2>5
  <1>5. CASE NonePending
    <2>1. QueueInv(q)' /\ Set!Operation
      BY <1>2, <1>5, SameStep DEF NonePending, NoResult
    <2> QED
      BY <2>1
  <1>6. CASE DequeueAll
    <2>1. QueueInv(<< >>)'
      BY <1>6, DequeueAllEmpties
    <2>2. got' = "null" /\ now' = now /\ Elements(<< >>) = {}
      BY <1>6 DEF DequeueAll, NoResult, Elements
    <2>3. Set!Operation
      BY <2>1, <2>2, SetStep
    <2> QED
      BY <2>1, <2>3
  <1>7. CASE GetNextStartTime
    <2>1. nonePendingHead' = "null" \/ nonePendingHead' \in Elements(q)
      BY <1>7, NextStartFound
    <2>2. QueueInv(q)' /\ Set!Operation
      BY <1>7, <2>1, SameStep DEF GetNextStartTime, NoResult
    <2> QED
      BY <2>2
  <1>8. CASE Tick
    <2>1. QueueInv(q)' /\ Set!Operation
      BY <1>2, <1>8, SameStep DEF Tick, NoResult
    <2> QED
      BY <2>1
  <1> QED
    BY <1>3, <1>4, <1>5, <1>6, <1>7, <1>8 DEF Operation

\* Only the start that links an event twice sets relinked.
LEMMA RelinkedKept ==
    ASSUME Operation, \A e \in Events, t \in Times : ~StartAgain(e, t)
    PROVE  relinked' = relinked
  BY DEF Operation, Start, StartQueued, StartFuture, StartNow, Dequeue, ReadFirstPending,
         NonePending, DequeueAll, GetNextStartTime, Tick

\* Every step.
LEMMA ClockStep ==
    ASSUME ClockInv, [Next]_vars
    PROVE  ClockInv' /\ [Set!Next]_(Set!vars)
  <1>1. CASE relinked /\ Destroyed
    <2>1. Set!Next
      BY <1>1 DEF Destroyed, vars, Set!Next
    <2> QED
      BY <1>1, <2>1 DEF Destroyed, vars, ClockInv
  <1>2. ASSUME ~relinked, Operation
        PROVE  ClockInv' /\ [Set!Next]_(Set!vars)
    <2>1. PICK q : QueueInv(q)
      BY <1>2 DEF ClockInv
    <2>2. CASE \E e \in Events, t \in Times : StartAgain(e, t)
      BY <1>2, <2>1, <2>2, StartAgainStep
    <2>3. CASE \A e \in Events, t \in Times : ~StartAgain(e, t)
      <3>1. (\E r : QueueInv(r)') /\ Set!Operation
        BY <1>2, <2>1, <2>3, OperationStep
      <3>2. relinked' = relinked /\ relinked \in BOOLEAN
        BY <1>2, <2>3, RelinkedKept DEF ClockInv
      <3>3. Set!Next
        BY <1>2, <3>1, <3>2 DEF Set!Next
      <3> QED
        BY <1>2, <3>1, <3>2, <3>3 DEF ClockInv
    <2> QED
      BY <2>2, <2>3
  <1>3. CASE ~relinked /\ UNCHANGED vars
    <2>1. PICK q : QueueInv(q)
      BY <1>3 DEF ClockInv
    <2>2. /\ Types /\ Linked(q) /\ q \in Seq(Events)
          /\ \A x \in Elements(q) : x \in Events
      BY <2>1, Ends DEF Elements
    <2>3. Types' /\ time' = time /\ now' = now /\ got' = got /\ queued' = queued
      BY <2>2, <1>3 DEF vars, Types
    <2>4. nonePendingHead = "null" \/ nonePendingHead \in Elements(q)
      BY <2>2 DEF Linked
    <2>5. QueueInv(q)'
      BY <2>1, <2>4, <1>3, <2>3, SameInv DEF vars, pointers
    <2>6. Range(Queue)' = Range(Queue)
      BY <2>1, <2>5, QueueReads, QueueReadsNext DEF QueueInv
    <2> DEFINE D == { << e, time[e], queued[e] >> : e \in Range(Queue) }
    <2>7. D' = D
      BY <2>3, <2>6
    <2>8. relinked' = relinked
      BY <1>3 DEF vars
    <2> HIDE DEF D
    <2>9. UNCHANGED Set!vars
      BY <2>3, <2>7, <2>8 DEF Set!vars, D
    <2> QED
      BY <1>3, <2>5, <2>8, <2>9 DEF ClockInv
  <1>4. CASE relinked /\ UNCHANGED vars
    BY <1>1, <1>4 DEF Destroyed
  <1>5. CASE UNCHANGED vars
    BY <1>3, <1>4, <1>5
  <1>6. CASE Next
    <2>1. CASE ~relinked /\ Operation
      BY <1>2, <2>1
    <2>2. CASE Destroyed
      BY <1>1, <2>2 DEF Destroyed
    <2> QED
      BY <1>6, <2>1, <2>2 DEF Next
  <1> QED
    BY <1>5, <1>6

\* At the beginning the list is empty.
LEMMA ClockStarts ==
    ASSUME Init
    PROVE  ClockInv /\ Set!Init
  <1>1. Types
    <2>1. 0 \in Times /\ "null" \in Pointers
      BY ClockAssumption DEF Times, Pointers
    <2> QED
      BY <2>1 DEF Init, Types
  <1>2. Linked(<< >>)
    BY DEF Init, Linked, Distinct, IsList
  <1>3. Outside(<< >>)
    BY DEF Init, Outside
  <1>4. QueueInv(<< >>)
    BY <1>1, <1>2, <1>3 DEF QueueInv, Ordered, Back
  <1>5. Range(Queue) = {}
    BY <1>2, QueueReads DEF Elements
  <1>6. Set!Init
    BY <1>5 DEF Init, Set!Init, Set!Null
  <1>7. relinked \in BOOLEAN
    BY DEF Init
  <1> QED
    BY <1>4, <1>6, <1>7 DEF ClockInv


-----------------------------------------------------------------------------
(* The theorems.                                                           *)

\* The sequence that the pointers stand for, as the properties read it.
LEMMA LinkedMeans ==
    ClockInv => WellLinked
  <1> SUFFICES ASSUME ClockInv, ~relinked, NEW q, QueueInv(q)
               PROVE  WellLinked
    BY DEF ClockInv, WellLinked
  <1>1. /\ Types /\ Linked(q) /\ Distinct(q) /\ q \in Seq(Events) /\ Len(q) \in Nat
        /\ \A k \in 1..Len(q) : q[k] \in Events /\ q[k] \in Elements(q)
                                /\ time[q[k]] \in Nat
        /\ now \in Nat
    BY Ends
  <1>2. /\ Outside(q) /\ Ordered(q, time, now) /\ Back(q, time, previous, now)
    BY DEF QueueInv
  <1>3. Queue = q /\ Range(Queue) = Elements(q) /\ Range(q) = Elements(q)
        /\ DOMAIN q = 1..Len(q)
    BY <1>1, QueueReads
  <1>4. TypeOK
    BY <1>1, <1>2, <1>3 DEF TypeOK, Types, Outside, ClockInv
  <1>5. IsInjective(q)
    BY <1>1, <1>3 DEF IsInjective, Distinct
  <1>6. queueTail = IF q = << >> THEN Null ELSE q[Len(q)]
    BY <1>1 DEF Linked
  <1>7. \A k \in 1..Len(q) : q[k] \in Future <=> now < time[q[k]]
    BY <1>1, <1>3 DEF Future
  <1>8. \A j, k \in DOMAIN q : j < k /\ q[j] \in Future
           => q[k] \in Future /\ time[q[j]] <= time[q[k]]
    <2> SUFFICES ASSUME NEW j \in 1..Len(q), NEW k \in 1..Len(q), j < k, q[j] \in Future
                 PROVE  q[k] \in Future /\ time[q[j]] <= time[q[k]]
      BY <1>3
    <2>1. now < time[q[j]] /\ time[q[j]] <= time[q[k]]
      BY <1>2, <1>7 DEF Ordered
    <2> QED
      BY <1>1, <1>7, <2>1
  <1>9. ASSUME NEW k \in DOMAIN q, q[k] \in Future
        PROVE  previous[q[k]] = Earlier(q, k)
    <2>1. k \in 1..Len(q) /\ now < time[q[k]]
      BY <1>3, <1>7, <1>9
    <2>2. PICK b \in 0..(k - 1) : BackTo(q, time, previous, b, k)
      BY <1>2, <2>1 DEF Back
    <2> DEFINE before == { j \in 1..(k - 1) : time[q[j]] < time[q[k]] }
    <2>3. ASSUME NEW j \in before
          PROVE  j <= b
      <3>1. j \in 1..(k - 1) /\ j \in 1..Len(q) /\ time[q[j]] < time[q[k]]
        BY <1>1, <2>1
      <3>2. ASSUME b < j
            PROVE  FALSE
        <4>1. j \in (b + 1)..k
          BY <2>1, <3>1, <3>2
        <4>2. time[q[j]] = time[q[k]]
          BY <2>2, <4>1 DEF BackTo
        <4> QED
          BY <1>1, <2>1, <3>1, <4>2
      <3> QED
        BY <2>1, <3>1, <3>2
    <2>4. CASE b = 0
      <3>1. before = {}
        BY <2>1, <2>3, <2>4
      <3> QED
        BY <2>2, <2>4, <3>1 DEF Earlier, BackTo
    <2>5. CASE b # 0
      <3>1. b \in before
        BY <2>1, <2>2, <2>5 DEF BackTo
      <3>2. before \in SUBSET Nat
        BY <2>1
      <3> HIDE DEF before
      <3>3. Max(before) = b
        <4>1. \A j \in before : b >= j
          BY <2>3, <3>1, <3>2
        <4>2. \A x \in before : (\A j \in before : x >= j) => x = b
          BY <3>1, <3>2, <4>1
        <4> QED
          BY <3>1, <4>1, <4>2 DEF Max
      <3>4. Earlier(q, k) = q[b]
        BY <3>1, <3>3 DEF Earlier, before
      <3> QED
        BY <2>2, <2>5, <3>4 DEF BackTo
    <2> QED
      BY <2>4, <2>5
  <1>10. nonePendingHead # Null => nonePendingHead \in Range(q)
    BY <1>1, <1>3 DEF Linked
  <1> QED
    BY <1>3, <1>4, <1>5, <1>6, <1>8, <1>9, <1>10 DEF WellLinked

\* The place of a new event, and what of the future is behind it.
LEMMA TimerStep ==
    ASSUME ClockInv, [Next]_vars, NEW e \in Events, ~queued[e], queued'[e], ~relinked'
    PROVE  timerStarted' <=> \A f \in Future : time[f] > time'[e]
  <1>0. ~relinked /\ Operation
    BY DEF Next, Destroyed, vars
  <1>1. PICK q : QueueInv(q)
    BY <1>0 DEF ClockInv
  <1>2. /\ Types /\ Linked(q) /\ q \in Seq(Events) /\ Len(q) \in Nat
        /\ \A k \in 1..Len(q) : q[k] \in Events /\ q[k] # "null" /\ q[k] \in Elements(q)
                                /\ time[q[k]] \in Nat
        /\ now \in Nat /\ Ordered(q, time, now)
    <2>1. Ordered(q, time, now)
      BY <1>1 DEF QueueInv
    <2> QED
      BY <1>1, <2>1, Ends
  <1>3. PICK t \in Times : StartFuture(e, t) /\ ~ListedUnmarked(e)
    <2>1. ASSUME NEW x \in Events, x # e, Start(x)
          PROVE  FALSE
      BY <1>2, <2>1 DEF Start, StartQueued, StartFuture, StartNow, StartAgain, Types
    <2>2. ASSUME NEW x \in Events, Dequeue(x)
          PROVE  FALSE
      BY <1>2, <2>2 DEF Dequeue, Types
    <2>3. Start(e)
      BY <1>0, <1>2, <2>1, <2>2 DEF Operation, ReadFirstPending, NonePending, DequeueAll,
            GetNextStartTime, Tick, Types
    <2> QED
      BY <2>3 DEF Start, StartQueued, StartNow, StartAgain
  <1>4. e \notin Elements(q)
    BY <1>1, <1>3, StartsOutside
  <1>5. PICK j \in 0..Len(q) : IsPlace(q, j, t)
                               /\ SearchBack(t) = IF j = 0 THEN "null" ELSE q[j]
    BY <1>1, <1>3, <1>4, StartFutureInserts
  <1>6. /\ t \in Nat /\ now < t /\ time'[e] = t
        /\ timerStarted' <=> EarliestStart(SearchBack(t), t)
    <2>1. t \in Nat /\ now < t
      BY <1>2, <1>3, ClockAssumption DEF StartFuture, Times
    <2>2. time'[e] = t
      BY <1>2, <1>3 DEF StartFuture, Types
    <2> QED
      BY <1>3, <2>1, <2>2 DEF StartFuture
  <1>7. Future = { x \in Elements(q) : time[x] > now }
    BY <1>2, QueueReads DEF Future
  <1>8. (\A f \in Future : time[f] > t)
           <=> (\A k \in 1..Len(q) : now < time[q[k]] => t < time[q[k]])
    <2>1. \A x \in Elements(q) : \E k \in 1..Len(q) : x = q[k]
      BY DEF Elements
    <2> QED
      BY <1>2, <1>6, <1>7, <2>1
  <1>9. CASE j = 0
    <2>1. \A k \in 1..Len(q) : t < time[q[k]]
      BY <1>5, <1>9 DEF IsPlace
    <2> QED
      BY <1>5, <1>6, <1>8, <1>9, <2>1 DEF EarliestStart
  <1>10. CASE j # 0
    <2>1. j \in 1..Len(q) /\ time[q[j]] <= t
          /\ \A k \in (j + 1)..Len(q) : t < time[q[k]]
      BY <1>2, <1>5, <1>10 DEF IsPlace
    <2>2. timerStarted' <=> time[q[j]] <= now
      BY <1>2, <1>5, <1>6, <1>10, <2>1 DEF EarliestStart
    <2>3. ASSUME time[q[j]] <= now, NEW k \in 1..Len(q), now < time[q[k]]
          PROVE  t < time[q[k]]
      <3>1. CASE k <= j
        <4>1. k # j
          BY <1>2, <2>3
        <4>2. time[q[k]] <= time[q[j]]
          BY <1>2, <2>1, <2>3, <3>1, <4>1 DEF Ordered
        <4> QED
          BY <1>2, <2>1, <2>3, <4>2
      <3>2. CASE ~ (k <= j)
        <4>1. k \in (j + 1)..Len(q)
          BY <1>2, <2>1, <3>2
        <4> QED
          BY <2>1, <4>1
      <3> QED
        BY <3>1, <3>2
    <2>4. ~ (time[q[j]] <= now) => now < time[q[j]] /\ ~ (t < time[q[j]])
      BY <1>2, <1>6, <2>1
    <2> QED
      BY <1>6, <1>8, <2>1, <2>2, <2>3, <2>4
  <1> QED
    BY <1>9, <1>10

\* The invariant holds in every state.
LEMMA ClockInvariant ==
    Spec => []ClockInv
  <1>1. Init => ClockInv
    BY ClockStarts
  <1>2. ClockInv /\ [Next]_vars => ClockInv'
    BY ClockStep
  <1> QED
    BY <1>1, <1>2, PTL DEF Spec

\* Whatever is started, delivered and dequeued, the list of the clock has no
\* cycle and no gap, events in the future are sorted and behind all pending
\* ones, and their backward pointers skip just the events of the same time;
\* until an event that was started at once is started again before it is
\* delivered, which links it twice (ListedOnce).
THEOREM ListStaysLinked == Spec => []WellLinked
  BY ClockInvariant, LinkedMeans, PTL

\* The timer is started for an event exactly when it becomes the earliest one
\* in the future.
THEOREM TimerStarted == Spec => TimerForFirst
  <1>1. ClockInv /\ [Next]_vars =>
           [ \A e \in Events : ~queued[e] /\ queued'[e] /\ ~relinked'
                => (timerStarted' <=> \A f \in Future : time[f] > time'[e]) ]_vars
    BY TimerStep
  <1> QED
    BY <1>1, ClockInvariant, PTL DEF Spec, TimerForFirst

\* The clock thread sleeps without a limit only when no event is in the
\* future, and never until a time at which none starts.
THEOREM SleepBounded == Spec => SleepIsBounded
  <1>1. ASSUME ClockInv, ~relinked, GetNextStartTime
        PROVE  IF nonePendingHead' = Null THEN Future = {} ELSE nonePendingHead' \in Future
    <2>1. PICK q : QueueInv(q)
      BY <1>1 DEF ClockInv
    <2>2. Future = { x \in Elements(q) : time[x] > now }
      BY <2>1, QueueReads DEF Future, QueueInv
    <2> QED
      BY <1>1, <2>1, <2>2, NextStartFound
  <1>2. ClockInv /\ [Next]_vars =>
           [ ~relinked /\ GetNextStartTime =>
                IF nonePendingHead' = Null THEN Future = {}
                                           ELSE nonePendingHead' \in Future ]_vars
    BY <1>1
  <1> QED
    BY <1>2, ClockInvariant, PTL DEF Spec, SleepIsBounded

\* The queue of the clock is a set of events: each that is started is delivered
\* once and not before its time, unless it is dequeued.  The set stops to promise
\* that only with the start of an event that was started at once and is not
\* delivered yet.
THEOREM QueueImplementsEventSet == Spec => ImplementsEventSet
  <1>1. Init => Set!Init
    BY ClockStarts
  <1>2. ClockInv /\ [Next]_vars => [Set!Next]_(Set!vars)
    BY ClockStep
  <1> QED
    BY <1>1, <1>2, ClockInvariant, PTL DEF Spec, ImplementsEventSet, Set!Spec

=============================================================================
