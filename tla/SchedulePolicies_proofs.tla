---------------------- MODULE SchedulePolicies_proofs ----------------------
(***************************************************************************)
(* Proof that the schedule policies Fifo, Priority and PSlot implement     *)
(* RunQueue, for any number of tasks, any priorities and any number of     *)
(* slots.  The invariant says which sequence of tasks the pointers stand   *)
(* for (IsList); Chain reads it back (ChainOfList), each operation changes *)
(* it as the run queue does, and for PSlot the lists of the slots are      *)
(* piled up.  The recursive functions of Chain and of PSlot!Waiting are    *)
(* pinned down by the smallest index at which they could be wrong.         *)
(***************************************************************************)
EXTENDS SchedulePolicies, Chains, TLAPS, FiniteSetTheorems,
        WellFoundedInduction, SequenceTheorems

-----------------------------------------------------------------------------
(* Linked lists and the sequences they stand for.                          *)

\* The sequence s is the list from first on along link.
IsList(s, first, link) ==
    /\ first = IF s = << >> THEN "null" ELSE s[1]
    /\ \A k \in 1..Len(s) : link[s[k]] = IF k = Len(s) THEN "null" ELSE s[k + 1]

\* Each set of numbers that is not empty has a least one.
LEMMA LeastNumber ==
    ASSUME NEW T \in SUBSET Nat, T # {}
    PROVE  \E x \in T : \A y \in T : x <= y
  <1> DEFINE R == { p \in Nat \X Nat : p[1] < p[2] }
  <1>0. IsWellFoundedOn(R, Nat)
    BY NatLessThanWellFounded DEF OpToRel
  <1>a. \A x, y \in Nat : y < x => << y, x >> \in R
    OBVIOUS
  <1> HIDE DEF R
  <1>1. PICK x \in T : \A y \in T : ~ (<<y, x>> \in R)
    BY <1>0, WFMin
  <1>2. \A y \in T : ~ (y < x)
    BY <1>1, <1>a
  <1> QED
    BY <1>2

\* Chain reads the sequence that a list stands for.
LEMMA ChainOfList ==
    ASSUME NEW s \in Seq(Tasks), NEW first, NEW link, NEW n \in Nat,
           Len(s) <= n, IsList(s, first, link)
    PROVE  Chain(first, link, "null", n) = s
  <1> DEFINE at[k \in 1..(n + 1)] ==
                 IF k = 1 THEN first
                 ELSE LET before == at[k - 1]
                      IN  IF before = "null" THEN "null" ELSE link[before]
             walk == [k \in 1..(n + 1) |-> IF k <= Len(s) THEN s[k] ELSE "null"]
             Step(f) == [k \in 1..(n + 1) |->
                            IF k = 1 THEN first
                            ELSE LET before == f[k - 1]
                                 IN  IF before = "null" THEN "null" ELSE link[before]]
  <1>0. Len(s) \in Nat /\ \A k \in 1..Len(s) : s[k] \in Tasks /\ s[k] # "null"
    BY PolicyAssumption
  <1>1. walk = Step(walk)
    <2>1. ASSUME NEW k \in 1..(n + 1)
          PROVE  walk[k] = Step(walk)[k]
      <3>1. CASE k = 1
        <4>1. s = << >> <=> Len(s) = 0
          OBVIOUS
        <4> QED
          BY <1>0, <3>1, <4>1 DEF IsList
      <3>2. CASE k # 1
        <4>1. k - 1 \in 1..(n + 1) /\ k - 1 + 1 = k
          BY <3>2
        <4>2. CASE k - 1 <= Len(s)
          <5>1. walk[k - 1] = s[k - 1] /\ s[k - 1] # "null"
            BY <1>0, <4>1, <4>2
          <5>2. link[s[k - 1]] = IF k - 1 = Len(s) THEN "null" ELSE s[k]
            BY <1>0, <4>1, <4>2 DEF IsList
          <5> QED
            BY <1>0, <3>2, <4>1, <4>2, <5>1, <5>2
        <4>3. CASE ~ (k - 1 <= Len(s))
          BY <1>0, <3>2, <4>1, <4>3
        <4> QED
          BY <4>2, <4>3
      <3> QED
        BY <3>1, <3>2
    <2> QED
      BY <2>1
  <1>2. at = CHOOSE f : f = Step(f)
    OBVIOUS
  <1> HIDE DEF walk
  <1>3. at = Step(at)
    BY <1>1, <1>2
  <1>4. Chain(first, link, "null", n)
           = SubSeq(at, 1, Cardinality({ k \in 1..(n + 1) : at[k] # "null" }))
    BY DEF Chain
  <1> HIDE DEF at
  <1>5. at = walk
    <2> DEFINE Wrong == { k \in 1..(n + 1) : at[k] # walk[k] }
    <2>1. ASSUME Wrong # {}
          PROVE  FALSE
      <3>0. Wrong \in SUBSET Nat
        OBVIOUS
      <3>1. PICK k \in Wrong : \A j \in Wrong : k <= j
        BY <2>1, <3>0, LeastNumber
      <3>2. at[k] = Step(at)[k] /\ walk[k] = Step(walk)[k]
        BY <1>1, <1>3
      <3>3. k # 1
        BY <3>2
      <3>4. k - 1 \in 1..(n + 1) /\ at[k - 1] = walk[k - 1]
        BY <3>1, <3>3
      <3> QED
        BY <3>1, <3>2, <3>3, <3>4
    <2>2. at = [k \in 1..(n + 1) |-> at[k]]
      BY <1>3
    <2>3. walk = [k \in 1..(n + 1) |-> walk[k]]
      BY <1>1
    <2> QED
      BY <2>1, <2>2, <2>3
  <1> USE DEF walk
  <1>6. { k \in 1..(n + 1) : at[k] # "null" } = 1..Len(s)
    BY <1>0, <1>5
  <1>7. Cardinality(1..Len(s)) = Len(s)
    <2>1. Cardinality(1..Len(s)) = IF 1 > Len(s) THEN 0 ELSE Len(s) - 1 + 1
      <3>1. 1 \in Int /\ Len(s) \in Int
        BY <1>0
      <3> QED
        BY <3>1, FS_Interval, Zenon
    <2> QED
      BY <1>0, <2>1
  <1>8. SubSeq(walk, 1, Len(s)) = s
    <2>1. walk \in Seq(Tasks \cup {"null"}) /\ Len(walk) = n + 1
      BY <1>0
    <2>2. /\ SubSeq(walk, 1, Len(s)) \in Seq(Tasks \cup {"null"})
          /\ Len(SubSeq(walk, 1, Len(s))) = Len(s)
          /\ \A k \in 1..Len(s) : SubSeq(walk, 1, Len(s))[k] = walk[k]
      BY <1>0, <2>1, SubSeqProperties
    <2> QED
      BY <1>0, <2>2, SeqEqual
  <1> QED
    BY <1>4, <1>5, <1>6, <1>7, <1>8

\* No task is twice in the sequence.
Distinct(s) == \A j, k \in 1..Len(s) : s[j] = s[k] => j = k

\* A task leads the list.
LEMMA ListHead ==
    ASSUME NEW s \in Seq(Tasks), NEW first, NEW link, IsList(s, first, link)
    PROVE  /\ (first = "null") <=> (s = << >>)
           /\ s # << >> => first = s[1] /\ first \in Tasks /\ 1 \in 1..Len(s)
  <1>1. s # << >> => 1 \in 1..Len(s)
    OBVIOUS
  <1>2. s # << >> => s[1] \in Tasks /\ s[1] # "null"
    BY <1>1, PolicyAssumption
  <1> QED
    BY <1>1, <1>2 DEF IsList

\* Without a task twice there are not more of them than tasks.
LEMMA DistinctIsShort ==
    ASSUME NEW s \in Seq(Tasks), Distinct(s)
    PROVE  Len(s) \in Nat /\ Cardinality(Tasks) \in Nat /\ Len(s) <= Cardinality(Tasks)
  <1>1. Len(s) \in Nat /\ s \in [1..Len(s) -> Tasks]
    OBVIOUS
  <1>2. Cardinality(Tasks) \in Nat
    BY PolicyAssumption, FS_CardinalityType
  <1>3. IsFiniteSet(1..Len(s)) /\ Cardinality(1..Len(s)) = Len(s)
    <2>1. /\ IsFiniteSet(1..Len(s))
          /\ Cardinality(1..Len(s)) = IF 1 > Len(s) THEN 0 ELSE Len(s) - 1 + 1
      <3>1. 1 \in Int /\ Len(s) \in Int
        BY <1>1
      <3> QED
        BY <3>1, FS_Interval, Zenon
    <2> QED
      BY <1>1, <2>1
  <1>4. ASSUME Cardinality(Tasks) < Len(s)
        PROVE  FALSE
    <2>1. \E j, k \in 1..Len(s) : j # k /\ s[j] = s[k]
      BY <1>1, <1>3, <1>4, PolicyAssumption, FS_PigeonHole
    <2> QED
      BY <2>1 DEF Distinct
  <1> QED
    BY <1>1, <1>2, <1>4

\* The list does not change when other tasks are linked.
LEMMA ListKept ==
    ASSUME NEW s \in Seq(Tasks), NEW first, NEW link, NEW other,
           IsList(s, first, link),
           \A k \in 1..Len(s) : other[s[k]] = link[s[k]]
    PROVE  IsList(s, first, other)
  BY DEF IsList

\* The first task is taken from the list.
LEMMA ListPop ==
    ASSUME NEW s \in Seq(Tasks), NEW first, NEW link, IsList(s, first, link),
           s # << >>
    PROVE  /\ IsList(Tail(s), link[first], link) /\ Tail(s) \in Seq(Tasks)
           /\ Len(Tail(s)) = Len(s) - 1
           /\ \A k \in 1..Len(Tail(s)) : Tail(s)[k] = s[k + 1]
           /\ Distinct(s) => Distinct(Tail(s))
  <1> DEFINE r == Tail(s)
  <1>1. /\ r \in Seq(Tasks) /\ Len(r) = Len(s) - 1
        /\ \A k \in 1..Len(r) : r[k] = s[k + 1]
    BY HeadTailProperties
  <1> HIDE DEF r
  <1>2. Len(s) \in Nat \ {0} /\ (r = << >> <=> Len(s) = 1)
    BY <1>1
  <1>3. \A k \in 1..Len(r) : k \in 1..Len(s) /\ k + 1 \in 1..Len(s)
    BY <1>1, <1>2
  <1>a. \A k \in 1..Len(s) : link[s[k]] = IF k = Len(s) THEN "null" ELSE s[k + 1]
    BY DEF IsList
  <1>4. link[first] = IF r = << >> THEN "null" ELSE r[1]
    BY <1>1, <1>2 DEF IsList
  <1>5. ASSUME NEW k \in 1..Len(r)
        PROVE  link[r[k]] = IF k = Len(r) THEN "null" ELSE r[k + 1]
    <2>1. link[s[k + 1]] = IF k + 1 = Len(s) THEN "null" ELSE s[k + 1 + 1]
      BY <1>3, <1>a
    <2>2. k # Len(r) => k + 1 \in 1..Len(r)
      BY <1>1, <1>2
    <2> QED
      BY <1>1, <1>2, <2>1, <2>2
  <1>6. Distinct(s) => Distinct(r)
    BY <1>1, <1>2, <1>3 DEF Distinct
  <1> QED
    BY <1>1, <1>4, <1>5, <1>6 DEF IsList, r

\* A task becomes the head of the list.
LEMMA ListPush ==
    ASSUME NEW s \in Seq(Tasks), NEW first, NEW link, NEW other,
           IsList(s, first, link), NEW t \in Tasks, other[t] = first,
           \A k \in 1..Len(s) : other[s[k]] = link[s[k]]
    PROVE  IsList(<< t >> \o s, t, other)
  <1> DEFINE r == << t >> \o s
  <1>1. Len(s) \in Nat /\ << t >> \in Seq(Tasks) /\ Len(<< t >>) = 1
    OBVIOUS
  <1>2. /\ r \in Seq(Tasks) /\ Len(r) = Len(s) + 1
        /\ \A i \in 1..(1 + Len(s)) : r[i] = IF i <= 1 THEN << t >>[i] ELSE s[i - 1]
    BY <1>1, ConcatProperties
  <1> HIDE DEF r
  <1>3. r # << >> /\ r[1] = t
    BY <1>1, <1>2
  <1>4. ASSUME NEW k \in 1..Len(r)
        PROVE  other[r[k]] = IF k = Len(r) THEN "null" ELSE r[k + 1]
    <2>1. CASE k = 1
      BY <1>1, <1>2, <1>3, <2>1 DEF IsList
    <2>2. CASE k # 1
      <3>1. PICK j \in 1..Len(s) : k = j + 1
        BY <1>1, <1>2, <2>2
      <3>2. other[s[j]] = IF j = Len(s) THEN "null" ELSE s[j + 1]
        BY DEF IsList
      <3>3. r[k] = s[j] /\ (j # Len(s) => r[k + 1] = s[j + 1])
        BY <1>1, <1>2, <3>1
      <3> QED
        BY <1>1, <1>2, <3>1, <3>2, <3>3
    <2> QED
      BY <2>1, <2>2
  <1> QED
    BY <1>3, <1>4 DEF IsList, r

\* A task becomes the successor of one in the list.
LEMMA ListInsert ==
    ASSUME NEW a \in Seq(Tasks), a # << >>, NEW b \in Seq(Tasks),
           NEW first, NEW link, NEW other, IsList(a \o b, first, link),
           Distinct(a \o b), NEW t \in Tasks,
           other[t] = link[a[Len(a)]], other[a[Len(a)]] = t,
           \A x \in Tasks \ { t, a[Len(a)] } : other[x] = link[x],
           \A k \in 1..(Len(a) + Len(b)) : (a \o b)[k] # t
    PROVE  IsList((a \o << t >>) \o b, first, other)
  <1> DEFINE s == a \o b
             c == a \o << t >>
             r == c \o b
  <1>1. Len(a) \in Nat \ {0} /\ Len(b) \in Nat /\ << t >> \in Seq(Tasks)
        /\ Len(<< t >>) = 1 /\ << t >>[1] = t
    OBVIOUS
  <1>2. /\ s \in Seq(Tasks) /\ Len(s) = Len(a) + Len(b)
        /\ \A i \in 1..(Len(a) + Len(b)) :
              s[i] = IF i <= Len(a) THEN a[i] ELSE b[i - Len(a)]
    BY ConcatProperties
  <1>3. /\ c \in Seq(Tasks) /\ Len(c) = Len(a) + 1
        /\ \A i \in 1..(Len(a) + 1) :
              c[i] = IF i <= Len(a) THEN a[i] ELSE << t >>[i - Len(a)]
    BY <1>1, ConcatProperties
  <1>4. /\ r \in Seq(Tasks) /\ Len(r) = Len(c) + Len(b)
        /\ \A i \in 1..(Len(c) + Len(b)) :
              r[i] = IF i <= Len(c) THEN c[i] ELSE b[i - Len(c)]
    BY <1>3, ConcatProperties
  <1>5. /\ s = a \o b /\ r = (a \o << t >>) \o b
    OBVIOUS
  <1>6. /\ IsList(s, first, link) /\ Distinct(s) /\ \A k \in 1..Len(s) : s[k] # t
    BY <1>2
  <1> HIDE DEF s, c, r
  <1>7. /\ Len(r) = Len(s) + 1
        /\ \A i \in 1..Len(a) : i \in 1..Len(s) /\ r[i] = s[i] /\ s[i] = a[i]
        /\ r[Len(a) + 1] = t
        /\ \A i \in (Len(a) + 1)..Len(s) : i \in 1..Len(s) /\ r[i + 1] = s[i]
    <2>1. \A i \in 1..Len(a) : i \in 1..Len(s) /\ r[i] = s[i] /\ s[i] = a[i]
      BY <1>1, <1>2, <1>3, <1>4
    <2>2. r[Len(a) + 1] = t
      BY <1>1, <1>3, <1>4
    <2>3. ASSUME NEW i \in (Len(a) + 1)..Len(s)
          PROVE  i \in 1..Len(s) /\ r[i + 1] = s[i]
      <3>1. r[i + 1] = b[i + 1 - (Len(a) + 1)] /\ s[i] = b[i - Len(a)]
        BY <1>1, <1>2, <1>3, <1>4
      <3>2. i + 1 - (Len(a) + 1) = i - Len(a)
        BY <1>1
      <3> QED
        BY <1>1, <3>1, <3>2
    <2> QED
      BY <1>1, <1>2, <1>3, <1>4, <2>1, <2>2, <2>3
  <1>8. Len(s) \in Nat \ {0} /\ Len(a) \in 1..Len(s) /\ s # << >> /\ r # << >>
    BY <1>1, <1>2, <1>7
  <1>9. /\ first = s[1]
        /\ \A k \in 1..Len(s) : link[s[k]] = IF k = Len(s) THEN "null" ELSE s[k + 1]
    BY <1>6, <1>8 DEF IsList
  <1>10. \A k \in 1..Len(s) : k # Len(a) => other[s[k]] = link[s[k]]
    BY <1>2, <1>6, <1>7, <1>8 DEF Distinct
  <1>11. ASSUME NEW k \in 1..Len(r)
         PROVE  other[r[k]] = IF k = Len(r) THEN "null" ELSE r[k + 1]
    <2>1. CASE k < Len(a)
      <3>1. k \in 1..Len(a) /\ k + 1 \in 1..Len(a) /\ k # Len(r) /\ k # Len(s)
        BY <1>1, <1>7, <1>8, <2>1
      <3> QED
        BY <1>7, <1>9, <1>10, <2>1, <3>1
    <2>2. CASE k = Len(a)
      BY <1>1, <1>7, <1>8, <2>2
    <2>3. CASE k = Len(a) + 1
      <3>1. other[r[k]] = link[s[Len(a)]]
        BY <1>1, <1>7, <2>3
      <3>2. CASE Len(a) = Len(s)
        BY <1>7, <1>8, <1>9, <2>3, <3>1, <3>2
      <3>3. CASE Len(a) # Len(s)
        <4>1. Len(a) + 1 \in (Len(a) + 1)..Len(s)
          BY <1>8, <3>3
        <4> QED
          BY <1>7, <1>8, <1>9, <2>3, <3>1, <3>3, <4>1
      <3> QED
        BY <3>2, <3>3
    <2>4. CASE k > Len(a) + 1
      <3>0. /\ k \in 1..(Len(s) + 1) /\ Len(a) \in Nat /\ Len(s) \in Nat
            /\ k - 1 \in Int
        BY <1>1, <1>7, <1>8
      <3>a. k - 1 \in (Len(a) + 1)..Len(s) /\ k = (k - 1) + 1
        BY <3>0, <2>4
      <3>1. PICK j \in (Len(a) + 1)..Len(s) : k = j + 1
        BY <3>a, Zenon
      <3>2. r[k] = s[j] /\ j \in 1..Len(s) /\ j # Len(a)
        BY <1>1, <1>7, <3>1
      <3>3. other[r[k]] = IF j = Len(s) THEN "null" ELSE s[j + 1]
        BY <1>9, <1>10, <3>2
      <3>4. j # Len(s) => r[k + 1] = s[j + 1]
        <4>1. j # Len(s) => j + 1 \in (Len(a) + 1)..Len(s)
          BY <1>1, <1>8
        <4> QED
          BY <1>7, <3>1, <4>1
      <3>5. Len(s) \in Nat /\ j \in Int /\ Len(r) = Len(s) + 1
        <4>1. Len(a) \in Nat /\ Len(s) \in Nat
          BY <1>1, <1>8
        <4>2. j \in Int
          BY <4>1
        <4> QED
          BY <1>7, <4>1, <4>2
      <3>6. k = Len(r) <=> j = Len(s)
        <4>1. ASSUME NEW x \in Nat, NEW y \in Nat, y = x + 1
              PROVE  j + 1 = y <=> j = x
          BY <3>5, <4>1
        <4>2. Len(s) \in Nat /\ Len(r) \in Nat
          BY <3>5
        <4> QED
          BY <3>1, <3>5, <4>1, <4>2
      <3> QED
        BY <3>3, <3>4, <3>6
    <2> QED
      BY <1>1, <1>7, <1>8, <2>1, <2>2, <2>3, <2>4
  <1> QED
    <2>1. first = r[1]
      BY <1>1, <1>7, <1>9
    <2>2. IsList(r, first, other)
      BY <1>8, <1>11, <2>1 DEF IsList
    <2> QED
      BY <1>5, <2>2

\* A sequence with one more task, that was not in it.
LEMMA DistinctInsert ==
    ASSUME NEW a \in Seq(Tasks), NEW b \in Seq(Tasks), NEW t \in Tasks,
           Distinct(a \o b), \A k \in 1..(Len(a) + Len(b)) : (a \o b)[k] # t
    PROVE  /\ (a \o << t >>) \o b \in Seq(Tasks)
           /\ Distinct((a \o << t >>) \o b)
           /\ Len((a \o << t >>) \o b) = Len(a) + 1 + Len(b)
           /\ \A k \in 1..(Len(a) + 1 + Len(b)) :
                 ((a \o << t >>) \o b)[k] =
                    IF k <= Len(a) THEN (a \o b)[k]
                    ELSE IF k = Len(a) + 1 THEN t ELSE (a \o b)[k - 1]
  <1> DEFINE s == a \o b
             c == a \o << t >>
             r == c \o b
  <1>1. Len(a) \in Nat /\ Len(b) \in Nat /\ << t >> \in Seq(Tasks)
        /\ Len(<< t >>) = 1 /\ << t >>[1] = t
    OBVIOUS
  <1>2. /\ s \in Seq(Tasks) /\ Len(s) = Len(a) + Len(b)
        /\ \A i \in 1..(Len(a) + Len(b)) :
              s[i] = IF i <= Len(a) THEN a[i] ELSE b[i - Len(a)]
    BY ConcatProperties
  <1>3. /\ c \in Seq(Tasks) /\ Len(c) = Len(a) + 1
        /\ \A i \in 1..(Len(a) + 1) :
              c[i] = IF i <= Len(a) THEN a[i] ELSE << t >>[i - Len(a)]
    BY <1>1, ConcatProperties
  <1>4. /\ r \in Seq(Tasks) /\ Len(r) = Len(c) + Len(b)
        /\ \A i \in 1..(Len(c) + Len(b)) :
              r[i] = IF i <= Len(c) THEN c[i] ELSE b[i - Len(c)]
    BY <1>3, ConcatProperties
  <1>5. /\ s = a \o b /\ r = (a \o << t >>) \o b
    OBVIOUS
  <1>6. Distinct(s) /\ \A k \in 1..Len(s) : s[k] # t
    BY <1>2
  <1> HIDE DEF s, c, r
  <1>7. ASSUME NEW k \in 1..(Len(a) + 1 + Len(b))
        PROVE  r[k] = IF k <= Len(a) THEN s[k]
                      ELSE IF k = Len(a) + 1 THEN t ELSE s[k - 1]
    <2>1. CASE k <= Len(a)
      <3>1. k \in 1..(Len(a) + Len(b)) /\ k \in 1..(Len(a) + 1)
            /\ k \in 1..(Len(c) + Len(b)) /\ k <= Len(c)
        BY <1>1, <1>3, <2>1
      <3> QED
        BY <1>2, <1>3, <1>4, <2>1, <3>1
    <2>2. CASE k = Len(a) + 1
      BY <1>1, <1>3, <1>4, <2>2
    <2>3. CASE k > Len(a) + 1
      <3>1. r[k] = b[k - (Len(a) + 1)] /\ s[k - 1] = b[k - 1 - Len(a)]
        BY <1>1, <1>2, <1>3, <1>4, <2>3
      <3>2. k - 1 - Len(a) = k - (Len(a) + 1)
        BY <1>1
      <3> QED
        BY <1>1, <2>3, <3>1, <3>2
    <2> QED
      BY <1>1, <2>1, <2>2, <2>3
  <1>8. Distinct(r)
    <2> SUFFICES ASSUME NEW j \in 1..Len(r), NEW k \in 1..Len(r), r[j] = r[k]
                 PROVE  j = k
      BY DEF Distinct
    <2>1. Len(r) = Len(s) + 1 /\ Len(r) = Len(a) + 1 + Len(b)
      BY <1>1, <1>2, <1>3, <1>4
    <2>2. \A i \in 1..Len(r) :
             /\ i <= Len(a) => i \in 1..Len(s)
             /\ i > Len(a) + 1 => i - 1 \in 1..Len(s) /\ i - 1 > Len(a)
      BY <1>1, <2>1, <1>2
    <2>3. CASE j = Len(a) + 1 \/ k = Len(a) + 1
      BY <1>1, <1>6, <1>7, <2>1, <2>2, <2>3
    <2>4. CASE j # Len(a) + 1 /\ k # Len(a) + 1
      <3> DEFINE At(i) == IF i <= Len(a) THEN i ELSE i - 1
      <3>1. \A i \in 1..Len(r) : i # Len(a) + 1 => r[i] = s[At(i)]
        BY <1>1, <1>7, <2>1
      <3>2. \A i \in 1..Len(r) : i # Len(a) + 1 => At(i) \in 1..Len(s)
        <4>1. Len(a) \in Nat
          BY <1>1
        <4> QED
          BY <2>2, <4>1
      <3> HIDE DEF At
      <3>3. At(j) = At(k)
        BY <1>6, <2>4, <3>1, <3>2 DEF Distinct
      <3> USE DEF At
      <3> QED
        BY <1>1, <2>1, <2>4, <3>3
    <2> QED
      BY <2>3, <2>4
  <1> QED
    <2>1. Len(r) = Len(a) + 1 + Len(b)
      BY <1>1, <1>3, <1>4
    <2> QED
      BY <1>4, <1>5, <1>7, <1>8, <2>1


-----------------------------------------------------------------------------
(* The abstract run queue.                                                 *)

\* The policies of Init.
Policies == { "fifo", "priority", "pslot" }

\* The numbers from 1 on.
LEMMA UpToCardinality ==
    ASSUME NEW n \in Nat
    PROVE  Cardinality(1..n) = n
  <1>1. Cardinality(1..n) = IF 1 > n THEN 0 ELSE n - 1 + 1
    BY FS_Interval
  <1> QED
    BY <1>1

\* InsertAt puts a task between those with at least its rank and the others.
LEMMA InsertBetween ==
    ASSUME NEW rank \in [Tasks -> Nat], NEW a \in Seq(Tasks), NEW b \in Seq(Tasks),
           NEW t \in Tasks,
           \A k \in 1..Len(a) : rank[a[k]] >= rank[t],
           \A k \in 1..Len(b) : rank[b[k]] < rank[t]
    PROVE  LET ahead == { k \in DOMAIN (a \o b) : rank[(a \o b)[k]] >= rank[t] }
           IN  Order!InsertAt(a \o b, Cardinality(ahead) + 1, t)
                  = (a \o << t >>) \o b
  <1> DEFINE s == a \o b
             ahead == { k \in DOMAIN s : rank[s[k]] >= rank[t] }
  <1>1. Len(a) \in Nat /\ Len(b) \in Nat
    OBVIOUS
  <1>2. /\ s \in Seq(Tasks) /\ Len(s) = Len(a) + Len(b)
        /\ \A i \in 1..(Len(a) + Len(b)) :
              s[i] = IF i <= Len(a) THEN a[i] ELSE b[i - Len(a)]
    BY ConcatProperties
  <1>3. s = a \o b
    OBVIOUS
  <1> HIDE DEF s
  <1>4. ahead = 1..Len(a)
    <2>1. DOMAIN s = 1..(Len(a) + Len(b))
      BY <1>2
    <2>2. ASSUME NEW k \in 1..(Len(a) + Len(b))
          PROVE  rank[s[k]] >= rank[t] <=> k <= Len(a)
      <3>1. CASE k <= Len(a)
        <4>1. k \in 1..Len(a) /\ s[k] = a[k]
          BY <1>1, <1>2, <3>1
        <4> QED
          BY <3>1, <4>1
      <3>2. CASE k > Len(a)
        <4>1. k - Len(a) \in 1..Len(b) /\ s[k] = b[k - Len(a)]
          BY <1>1, <1>2, <3>2
        <4>2. rank[s[k]] < rank[t] /\ rank[s[k]] \in Nat /\ rank[t] \in Nat
          BY <4>1
        <4> QED
          BY <1>1, <3>2, <4>2
      <3> QED
        BY <1>1, <3>1, <3>2
    <2> QED
      BY <1>1, <2>1, <2>2
  <1>5. Cardinality(ahead) = Len(a)
    BY <1>1, <1>4, UpToCardinality
  <1> HIDE DEF ahead
  <1>6. Order!InsertAt(s, Cardinality(ahead) + 1, t)
           = (SubSeq(s, 1, Len(a)) \o << t >>) \o SubSeq(s, Len(a) + 1, Len(s))
    <2>1. PICK i \in Nat : i = Cardinality(ahead) + 1
      BY <1>1, <1>5
    <2>2. i = Len(a) + 1 /\ i - 1 = Len(a)
      BY <1>1, <1>5, <2>1
    <2>3. Order!InsertAt(s, i, t)
             = (SubSeq(s, 1, i - 1) \o << t >>) \o SubSeq(s, i, Len(s))
      BY Zenon DEF Order!InsertAt
    <2> QED
      BY <2>1, <2>2, <2>3, Zenon
  <1>7. SubSeq(s, 1, Len(a)) = a
    <2>1. \A i \in 1..Len(a) : s[i] \in Tasks /\ s[i] = a[i]
      BY <1>1, <1>2
    <2>2. /\ SubSeq(s, 1, Len(a)) \in Seq(Tasks)
          /\ Len(SubSeq(s, 1, Len(a)))
                = IF 1 <= Len(a) THEN Len(a) - 1 + 1 ELSE 0
          /\ \A i \in 1..(Len(a) - 1 + 1) : SubSeq(s, 1, Len(a))[i] = s[1 + i - 1]
      BY <1>1, <2>1, SubSeqProperties
    <2>3. Len(SubSeq(s, 1, Len(a))) = Len(a)
      BY <1>1, <2>2
    <2>4. \A i \in 1..Len(a) : SubSeq(s, 1, Len(a))[i] = a[i]
      BY <1>1, <2>1, <2>2
    <2> QED
      BY <2>2, <2>3, <2>4, SeqEqual
  <1>8. SubSeq(s, Len(a) + 1, Len(s)) = b
    <2> DEFINE m == Len(a) + 1
               r == SubSeq(s, m, Len(s))
    <2>0. m \in Int /\ Len(s) \in Int
      BY <1>1, <1>2
    <2>1. \A i \in m..Len(s) : s[i] \in Tasks
      BY <1>1, <1>2
    <2>2. /\ r \in Seq(Tasks)
          /\ Len(r) = IF m <= Len(s) THEN Len(s) - m + 1 ELSE 0
          /\ \A i \in 1..(Len(s) - m + 1) : r[i] = s[m + i - 1]
      BY <2>0, <2>1, SubSeqProperties
    <2> HIDE DEF r
    <2>3. Len(r) = Len(b)
      BY <1>1, <1>2, <2>2
    <2>4. ASSUME NEW i \in 1..Len(b)
          PROVE  r[i] = b[i]
      <3>0. i \in 1..(Len(s) - m + 1) /\ m + i - 1 = Len(a) + i
        BY <1>1, <1>2
      <3>1. r[i] = s[Len(a) + i]
        BY <2>2, <3>0
      <3>2. s[Len(a) + i] = b[i]
        <4>1. /\ Len(a) + i \in 1..(Len(a) + Len(b)) /\ ~ (Len(a) + i <= Len(a))
              /\ Len(a) + i - Len(a) = i
          BY <1>1
        <4> QED
          BY <1>2, <4>1
      <3> QED
        BY <3>1, <3>2
    <2>5. r = b
      BY <2>2, <2>3, <2>4, SeqEqual
    <2> QED
      BY <2>5 DEF r
  <1> QED
    BY <1>3, <1>6, <1>7, <1>8 DEF ahead, s

\* The ranks of the tasks are those of the policy.
LEMMA RankType ==
    ASSUME policy \in Policies
    PROVE  Rank \in [Tasks -> Nat]
  <1>1. \A t \in Tasks : PSlot!SlotOf(t) \in Nat
    BY PolicyAssumption DEF PSlot!SlotOf
  <1>2. CASE policy = "fifo"
    BY <1>2 DEF Rank
  <1>3. CASE policy = "priority"
    BY <1>3, PolicyAssumption DEF Rank
  <1>4. CASE policy = "pslot"
    BY <1>1, <1>4 DEF Rank
  <1> QED
    BY <1>2, <1>3, <1>4 DEF Policies

\* They stay the same.
LEMMA RankKept == policy \in Policies /\ policy' = policy => Rank' = Rank
  <1> SUFFICES ASSUME policy \in Policies, policy' = policy
               PROVE  Rank' = Rank
    OBVIOUS
  <1>1. CASE policy = "fifo"
    BY <1>1 DEF Rank
  <1>2. CASE policy = "priority"
    BY <1>2 DEF Rank
  <1>3. CASE policy = "pslot"
    BY <1>3 DEF Rank, PSlot!SlotOf
  <1> QED
    BY <1>1, <1>2, <1>3 DEF Policies

\* An insertion behind all tasks of the same or a higher rank is a step of the
\* abstract run queue.
LEMMA QueueMaps ==
    ASSUME policy \in Policies, policy' = policy, got' = got,
           NEW a \in Seq(Tasks), NEW b \in Seq(Tasks), NEW t \in Tasks,
           Waiting = a \o b, Waiting' = (a \o << t >>) \o b,
           wasEmpty' = (a \o b = << >>),
           \A k \in 1..Len(a) : Rank[a[k]] >= Rank[t],
           \A k \in 1..Len(b) : Rank[b[k]] < Rank[t],
           \A k \in 1..(Len(a) + Len(b)) : (a \o b)[k] # t
    PROVE  Order!Next
  <1>1. Rank \in [Tasks -> Nat] /\ Rank' = Rank
    BY RankType, RankKept
  <1>2. t \notin Order!Range(Waiting)
    <2>1. DOMAIN (a \o b) = 1..(Len(a) + Len(b))
      BY ConcatProperties
    <2> QED
      BY <2>1 DEF Order!Range
  <1>3. Waiting' =
           LET ahead == { k \in DOMAIN Waiting : Rank[Waiting[k]] >= Rank[t] }
           IN  Order!InsertAt(Waiting, Cardinality(ahead) + 1, t)
    <2>1. LET ahead == { k \in DOMAIN (a \o b) : Rank[(a \o b)[k]] >= Rank[t] }
          IN  Order!InsertAt(a \o b, Cardinality(ahead) + 1, t)
                 = (a \o << t >>) \o b
      BY <1>1, InsertBetween
    <2> QED
      BY <2>1
  <1>4. Order!Queue(t)
    <2>1. \A S : Order!Cardinality(S) = Cardinality(S)
      BY DEF Order!Cardinality, Cardinality
    <2> QED
      BY <1>1, <1>2, <1>3, <2>1 DEF Order!Queue
  <1> QED
    BY <1>4 DEF Order!Next

\* The removal of the first task, or nothing, is a step of it, too.
LEMMA NextTaskMaps ==
    ASSUME policy \in Policies, policy' = policy, wasEmpty' = wasEmpty,
           got' = IF Waiting = << >> THEN "null" ELSE Head(Waiting),
           Waiting' = IF Waiting = << >> THEN << >> ELSE Tail(Waiting)
    PROVE  Order!Next
  <1>1. Rank' = Rank
    BY RankKept
  <1> QED
    BY <1>1 DEF Order!Next, Order!NextTask, Order!Null


-----------------------------------------------------------------------------
(* The list of Fifo, which each slot of PSlot has, too.                    *)

\* The tasks s wait in a list from first to last.
IsFifo(s, first, last, link) ==
    /\ s \in Seq(Tasks)
    /\ Distinct(s)
    /\ IsList(s, first, link)
    /\ s # << >> => last = s[Len(s)]

\* The next pointers of the tasks.
Pointers == [Tasks -> Tasks \cup {"null"}]

\* The pointers to the first task and behind the tasks, when t was put behind
\* the last one.
FirstOf(first, t) == IF first = "null" THEN t ELSE first
LinkedLast(first, last, link, t) ==
    IF first = "null" THEN [link EXCEPT ![t] = "null"]
                      ELSE [link EXCEPT ![t] = "null", ![last] = t]

\* A task that does not wait is put at the tail.
LEMMA FifoAppend ==
    ASSUME NEW s, NEW first, NEW last, NEW link \in Pointers,
           IsFifo(s, first, last, link),
           NEW t \in Tasks, \A k \in 1..Len(s) : s[k] # t
    PROVE  LET link1 == LinkedLast(first, last, link, t) IN
           /\ IsFifo(s \o << t >>, FirstOf(first, t), t, link1)
           /\ link1 \in Pointers
           /\ \A x \in Tasks : x # t /\ (\A k \in 1..Len(s) : s[k] # x)
                 => link1[x] = link[x]
  <1> DEFINE link1 == LinkedLast(first, last, link, t)
             first1 == FirstOf(first, t)
  <1>z. /\ first1 = IF first = "null" THEN t ELSE first
        /\ link1 = IF first = "null" THEN [link EXCEPT ![t] = "null"]
                                     ELSE [link EXCEPT ![t] = "null", ![last] = t]
    BY DEF LinkedLast, FirstOf
  <1> HIDE DEF link1, first1
  <1>0. s \in Seq(Tasks) /\ << >> \in Seq(Tasks) /\ Len(<< >>) = 0 /\ Len(s) \in Nat
        /\ s \o << >> = s /\ Distinct(s) /\ IsList(s, first, link)
    BY ConcatEmptySeq DEF IsFifo
  <1>1. \A k \in 1..(Len(s) + Len(<< >>)) : (s \o << >>)[k] # t
    BY <1>0
  <1>2. /\ (s \o << t >>) \o << >> \in Seq(Tasks)
        /\ Distinct((s \o << t >>) \o << >>)
        /\ Len((s \o << t >>) \o << >>) = Len(s) + 1 + Len(<< >>)
        /\ ((s \o << t >>) \o << >>)[Len(s) + 1] = t
    <2>1. /\ (s \o << t >>) \o << >> \in Seq(Tasks)
          /\ Distinct((s \o << t >>) \o << >>)
          /\ Len((s \o << t >>) \o << >>) = Len(s) + 1 + Len(<< >>)
          /\ \A k \in 1..(Len(s) + 1 + Len(<< >>)) :
                ((s \o << t >>) \o << >>)[k] =
                   IF k <= Len(s) THEN (s \o << >>)[k]
                   ELSE IF k = Len(s) + 1 THEN t ELSE (s \o << >>)[k - 1]
      BY <1>0, <1>1, DistinctInsert, ZenonT(60)
    <2>2. Len(s) + 1 \in 1..(Len(s) + 1 + Len(<< >>))
          /\ ~ (Len(s) + 1 <= Len(s))
      BY <1>0
    <2> QED
      BY <2>1, <2>2
  <1>3. (s \o << t >>) \o << >> = s \o << t >>
    <2>1. s \o << t >> \in Seq(Tasks)
      BY <1>0
    <2> QED
      BY <2>1, ConcatEmptySeq
  <1>4. /\ s \o << t >> \in Seq(Tasks) /\ Distinct(s \o << t >>)
        /\ (s \o << t >>)[Len(s \o << t >>)] = t
    <2>1. Len(s \o << t >>) = Len(s) + 1
      BY <1>0, <1>2, <1>3
    <2> QED
      BY <1>2, <1>3, <2>1
  <1>a. (first = "null") <=> (s = << >>)
    BY <1>0, ListHead
  <1>b. link1[t] = first /\ (\A k \in 1..Len(s) : link1[s[k]] = link[s[k]])
        => IsList(<< t >> \o s, t, link1)
    <2>1. \A other : other[t] = first /\ (\A k \in 1..Len(s) : other[s[k]] = link[s[k]])
             => IsList(<< t >> \o s, t, other)
      BY <1>0, ListPush
    <2> QED
      BY <2>1
  <1>c. /\ s # << >> /\ link1[t] = link[s[Len(s)]] /\ link1[s[Len(s)]] = t
        /\ \A x \in Tasks \ { t, s[Len(s)] } : link1[x] = link[x]
        => IsList((s \o << t >>) \o << >>, first, link1)
    <2>1. \A other : /\ s # << >> /\ other[t] = link[s[Len(s)]] /\ other[s[Len(s)]] = t
                     /\ \A x \in Tasks \ { t, s[Len(s)] } : other[x] = link[x]
             => IsList((s \o << t >>) \o << >>, first, other)
      BY <1>0, <1>1, ListInsert, ZenonT(60)
    <2> QED
      BY <2>1
  <1>5. ASSUME s = << >>
        PROVE  /\ IsFifo(s \o << t >>, first1, t, link1)
               /\ link1 \in Pointers
               /\ \A x \in Tasks : x # t /\ (\A k \in 1..Len(s) : s[k] # x)
                     => link1[x] = link[x]
    <2>1. first = "null"
      BY <1>5, <1>a
    <2>2. << t >> \o s = s \o << t >>
      <3>1. << t >> \in Seq(Tasks)
        OBVIOUS
      <3> QED
        BY <1>5, <3>1, ConcatEmptySeq
    <2>3. /\ link1[t] = first
          /\ \A k \in 1..Len(s) : link1[s[k]] = link[s[k]]
      BY <1>0, <1>5, <1>z, <2>1 DEF Pointers
    <2>4. IsList(<< t >> \o s, t, link1)
      BY <1>b, <2>3
    <2> QED
      BY <1>4, <1>5, <1>z, <2>1, <2>2, <2>4 DEF IsFifo, Pointers
  <1>6. ASSUME s # << >>
        PROVE  /\ IsFifo(s \o << t >>, first1, t, link1)
               /\ link1 \in Pointers
               /\ \A x \in Tasks : x # t /\ (\A k \in 1..Len(s) : s[k] # x)
                     => link1[x] = link[x]
    <2>1. first # "null" /\ first \in Tasks
      BY <1>0, <1>6, ListHead
    <2>2. last = s[Len(s)] /\ Len(s) \in 1..Len(s) /\ last \in Tasks /\ last # t
      BY <1>0, <1>6 DEF IsFifo
    <2>3. link[last] = "null"
      BY <1>0, <2>2 DEF IsList
    <2>4. /\ link1[t] = link[last] /\ link1[last] = t /\ link1 \in Pointers
          /\ \A x \in Tasks \ {t, last} : link1[x] = link[x]
      BY <1>z, <2>1, <2>2, <2>3 DEF Pointers
    <2>5. IsList((s \o << t >>) \o << >>, first, link1)
      BY <1>6, <1>c, <2>2, <2>4
    <2> QED
      BY <1>3, <1>4, <1>z, <2>1, <2>2, <2>4, <2>5 DEF IsFifo
  <1>7. /\ IsFifo(s \o << t >>, first1, t, link1)
        /\ link1 \in Pointers
        /\ \A x \in Tasks : x # t /\ (\A k \in 1..Len(s) : s[k] # x)
              => link1[x] = link[x]
    BY <1>5, <1>6
  <1> QED
    BY <1>7 DEF link1, first1

\* The first task is taken.
LEMMA FifoPop ==
    ASSUME NEW s, NEW first, NEW last, NEW link,
           IsFifo(s, first, last, link), s # << >>,
           NEW last1, link[first] # "null" => last1 = last
    PROVE  IsFifo(Tail(s), link[first], last1, link) /\ first = Head(s)
  <1>0. s \in Seq(Tasks) /\ Distinct(s) /\ IsList(s, first, link) /\ Len(s) \in Nat
    BY DEF IsFifo
  <1>1. /\ IsList(Tail(s), link[first], link) /\ Tail(s) \in Seq(Tasks)
        /\ Len(Tail(s)) = Len(s) - 1
        /\ \A k \in 1..Len(Tail(s)) : Tail(s)[k] = s[k + 1]
        /\ Distinct(Tail(s))
    BY <1>0, ListPop
  <1>2. ASSUME Tail(s) # << >>
        PROVE  last1 = Tail(s)[Len(Tail(s))]
    <2>1. link[first] # "null"
      BY <1>1, <1>2, ListHead
    <2>2. Len(Tail(s)) \in 1..Len(Tail(s)) /\ Len(Tail(s)) + 1 = Len(s)
      <3> DEFINE r == Tail(s)
      <3>1. r \in Seq(Tasks) /\ r # << >> /\ Len(r) = Len(s) - 1
        BY <1>1, <1>2
      <3> HIDE DEF r
      <3>2. Len(r) \in 1..Len(r) /\ Len(r) + 1 = Len(s)
        BY <1>0, <3>1
      <3> QED
        BY <3>2 DEF r
    <2> QED
      BY <1>1, <2>1, <2>2 DEF IsFifo
  <1>3. first = Head(s)
    BY <1>0 DEF IsList
  <1> QED
    BY <1>1, <1>2, <1>3 DEF IsFifo

-----------------------------------------------------------------------------
(* The policy Fifo.                                                        *)

\* The run queue is what the pointers link.
LEMMA FifoWaiting ==
    /\ Fifo!Waiting = Chain(head, next, "null", Cardinality(Tasks))
    /\ Fifo!Waiting' = Chain(head', next', "null", Cardinality(Tasks))
  BY DEF Fifo!Waiting, Fifo!Chain, Chain, Fifo!Null, Fifo!Cardinality, Cardinality

\* The pointers of Fifo stand for s.
FifoLinks(s) == next \in Pointers /\ IsFifo(s, head, tail, next)

FifoInv == policy = "fifo" => \E s : FifoLinks(s)

\* With linked tasks the run queue is their sequence.
LEMMA FifoReads ==
    ASSUME policy = "fifo", NEW s
    PROVE  /\ FifoLinks(s) => Waiting = s
           /\ policy' = "fifo" /\ FifoLinks(s)' => Waiting' = s
  <1>1. ASSUME NEW first, NEW last, NEW link, IsFifo(s, first, last, link)
        PROVE  Chain(first, link, "null", Cardinality(Tasks)) = s
    BY <1>1, DistinctIsShort, ChainOfList DEF IsFifo
  <1>2. Waiting = Fifo!Waiting /\ (policy' = "fifo" => Waiting' = Fifo!Waiting')
    BY DEF Waiting
  <1> QED
    BY <1>1, <1>2, FifoWaiting DEF FifoLinks


\* Each operation of Fifo is one of the run queue.
LEMMA FifoStep ==
    ASSUME policy = "fifo", policy' = "fifo", NEW s, FifoLinks(s), Fifo!Next
    PROVE  Order!Next /\ FifoInv'
  <1>0. /\ s \in Seq(Tasks) /\ << >> \in Seq(Tasks) /\ Len(<< >>) = 0 /\ Len(s) \in Nat
        /\ s \o << >> = s /\ IsFifo(s, head, tail, next) /\ next \in Pointers
        /\ IsList(s, head, next) /\ policy \in Policies /\ policy' = policy
    BY ConcatEmptySeq DEF FifoLinks, IsFifo, Policies
  <1>1. Waiting = s /\ Fifo!Waiting = s
    BY FifoReads DEF Waiting
  <1>a. (head = "null") <=> (s = << >>)
    BY <1>0, ListHead
  <1>2. ASSUME NEW t \in Tasks, Fifo!Queue(t)
        PROVE  Order!Next /\ FifoInv'
    <2>1. \A k \in 1..Len(s) : s[k] # t
      <3>1. DOMAIN s = 1..Len(s)
        BY <1>0
      <3>2. t \notin Fifo!Range(s)
        BY <1>1, <1>2 DEF Fifo!Queue
      <3> QED
        BY <3>1, <3>2 DEF Fifo!Range
    <2>2. /\ head' = IF head = "null" THEN t ELSE head
          /\ next' = IF head = "null" THEN [next EXCEPT ![t] = "null"]
                                      ELSE [next EXCEPT ![t] = "null", ![tail] = t]
          /\ tail' = t /\ got' = got
      BY <1>2 DEF Fifo!Queue, Fifo!Null
    <2>3. wasEmpty' = (s = << >>)
      <3>1. wasEmpty' = (head = "null")
        BY <1>2 DEF Fifo!Queue, Fifo!Null
      <3> QED
        BY <1>a, <3>1, Zenon
    <2>4. IsFifo(s \o << t >>, head', t, next') /\ next' \in Pointers
      <3>1. head' = FirstOf(head, t) /\ next' = LinkedLast(head, tail, next, t)
        BY <2>2 DEF FirstOf, LinkedLast
      <3> QED
        BY <1>0, <2>1, <3>1, FifoAppend
    <2>5. FifoLinks(s \o << t >>)'
      BY <2>2, <2>4 DEF FifoLinks
    <2>6. Waiting' = (s \o << t >>) \o << >>
      <3>1. Waiting' = s \o << t >>
        BY <2>5, FifoReads
      <3>2. s \o << t >> \in Seq(Tasks)
        BY <2>4 DEF IsFifo
      <3> QED
        BY <3>1, <3>2, ConcatEmptySeq
    <2>7. /\ \A k \in 1..Len(s) : Rank[s[k]] >= Rank[t]
          /\ \A k \in 1..Len(<< >>) : Rank[<< >>[k]] < Rank[t]
          /\ \A k \in 1..(Len(s) + Len(<< >>)) : (s \o << >>)[k] # t
      <3>1. \A x \in Tasks : Rank[x] = 0
        BY DEF Rank
      <3> QED
        BY <1>0, <2>1, <3>1
    <2>8. Waiting = s \o << >> /\ wasEmpty' = (s \o << >> = << >>)
      BY <1>0, <1>1, <2>3, Zenon
    <2>9. Order!Next
      BY <1>0, <2>2, <2>6, <2>7, <2>8, QueueMaps
    <2> QED
      BY <2>5, <2>9 DEF FifoInv
  <1>3. ASSUME Fifo!NextTask
        PROVE  Order!Next /\ FifoInv'
    <2>1. /\ got' = head /\ head' = (IF head = "null" THEN "null" ELSE next[head])
          /\ tail' = (IF head # "null" /\ next[head] = "null" THEN "null" ELSE tail)
          /\ next' = next /\ wasEmpty' = wasEmpty
      BY <1>3 DEF Fifo!NextTask, Fifo!Null
    <2>2. CASE s = << >>
      <3>1. FifoLinks(s)'
        BY <1>0, <1>a, <2>1, <2>2 DEF FifoLinks, IsFifo
      <3>2. Waiting' = s
        BY <3>1, FifoReads
      <3> QED
        BY <1>0, <1>1, <1>a, <2>1, <2>2, <3>1, <3>2, NextTaskMaps DEF FifoInv
    <2>3. CASE s # << >>
      <3>1. head # "null"
        BY <1>a, <2>3
      <3>2. IsFifo(Tail(s), next[head], tail', next) /\ head = Head(s)
        <4>1. next[head] # "null" => tail' = tail
          BY <2>1
        <4> QED
          BY <1>0, <2>3, <4>1, FifoPop
      <3>3. FifoLinks(Tail(s))'
        BY <1>0, <2>1, <3>1, <3>2 DEF FifoLinks
      <3>4. Waiting' = Tail(s)
        BY <3>3, FifoReads
      <3> QED
        BY <1>0, <1>1, <2>1, <2>3, <3>2, <3>3, <3>4, NextTaskMaps DEF FifoInv
    <2> QED
      BY <2>2, <2>3
  <1> QED
    BY <1>2, <1>3 DEF Fifo!Next


-----------------------------------------------------------------------------
(* The policy Priority.                                                    *)

\* The run queue is what the pointers link.
LEMMA PriorityWaiting ==
    /\ ByPriority!Waiting = Chain(head, next, "null", Cardinality(Tasks))
    /\ ByPriority!Waiting' = Chain(head', next', "null", Cardinality(Tasks))
  BY DEF ByPriority!Waiting, ByPriority!Chain, Chain, ByPriority!Null,
         ByPriority!Cardinality, Cardinality

\* No task is behind one of a lower priority.
Sorted(s) == \A j, k \in 1..Len(s) : j < k => Priority[s[j]] >= Priority[s[k]]

IsSortedList(s, first, link) ==
    s \in Seq(Tasks) /\ Distinct(s) /\ IsList(s, first, link) /\ Sorted(s)

PriorityLinks(s) == next \in Pointers /\ IsSortedList(s, head, next)

PriorityInv == policy = "priority" => \E s : PriorityLinks(s)

\* With linked tasks the run queue is their sequence.
LEMMA PriorityReads ==
    ASSUME policy = "priority", NEW s
    PROVE  /\ PriorityLinks(s) => Waiting = s
           /\ policy' = "priority" /\ PriorityLinks(s)' => Waiting' = s
  <1>1. ASSUME NEW first, NEW link, IsSortedList(s, first, link)
        PROVE  Chain(first, link, "null", Cardinality(Tasks)) = s
    BY <1>1, DistinctIsShort, ChainOfList DEF IsSortedList
  <1>2. Waiting = ByPriority!Waiting
        /\ (policy' = "priority" => Waiting' = ByPriority!Waiting')
    BY DEF Waiting
  <1> QED
    BY <1>1, <1>2, PriorityWaiting DEF PriorityLinks

\* The search stops between the tasks with at least the priority of t and the
\* others.
LEMMA SearchStops ==
    ASSUME policy = "priority", NEW s, PriorityLinks(s), NEW t \in Tasks,
           ~ ByPriority!BecomesHead(t)
    PROVE  \E p \in 1..Len(s) :
              /\ ByPriority!SearchPosition(t) = s[p]
              /\ \A k \in 1..p : Priority[s[k]] >= Priority[t]
              /\ \A k \in (p + 1)..Len(s) : Priority[s[k]] < Priority[t]
  <1>0. /\ s \in Seq(Tasks) /\ IsList(s, head, next) /\ Sorted(s) /\ Len(s) \in Nat
        /\ Waiting = s /\ ByPriority!Waiting = s
    BY PriorityReads DEF PriorityLinks, IsSortedList, Waiting
  <1>1. /\ s # << >> /\ head = s[1] /\ 1 \in 1..Len(s) /\ Len(s) \in 1..Len(s)
        /\ Priority[t] <= Priority[s[1]]
    <2>1. head # "null" /\ ~ (Priority[t] > Priority[head])
      BY DEF ByPriority!BecomesHead, ByPriority!Null
    <2>2. s # << >> /\ head = s[1] /\ 1 \in 1..Len(s) /\ head \in Tasks
      BY <1>0, <2>1, ListHead
    <2>3. Priority[t] \in Nat /\ Priority[head] \in Nat
      BY <2>2, PolicyAssumption
    <2> QED
      BY <1>0, <2>1, <2>2, <2>3
  <1>2. \A k \in 1..Len(s) : s[k] \in Tasks /\ Priority[s[k]] \in Nat
        /\ Priority[t] \in Nat /\ s[k] # "null"
    BY <1>0, PolicyAssumption
  <1>3. \A k \in 1..Len(s) : next[s[k]] = IF k = Len(s) THEN "null" ELSE s[k + 1]
    BY <1>0 DEF IsList
  <1> DEFINE stops == { k \in DOMAIN s : \/ next[s[k]] = "null"
                                        \/ Priority[t] > Priority[next[s[k]]] }
  <1>4. ByPriority!SearchPosition(t) = s[ByPriority!Min(stops)]
    BY <1>0 DEF ByPriority!SearchPosition, ByPriority!Null
  <1>5. stops \in SUBSET Nat /\ stops # {} /\ stops \subseteq 1..Len(s)
    <2>1. DOMAIN s = 1..Len(s)
      BY <1>0
    <2>2. Len(s) \in stops
      BY <1>1, <1>3, <2>1
    <2> QED
      BY <2>1, <2>2
  <1>6. \A k \in 1..Len(s) : k \in stops <=>
           k = Len(s) \/ Priority[t] > Priority[s[k + 1]]
    <2>1. DOMAIN s = 1..Len(s)
      BY <1>0
    <2>2. \A k \in 1..Len(s) : k # Len(s) => k + 1 \in 1..Len(s)
      BY <1>0
    <2> QED
      BY <1>2, <1>3, <2>1, <2>2
  <1> HIDE DEF stops
  <1> DEFINE p == ByPriority!Min(stops)
  <1>7. p \in stops /\ \A y \in stops : p <= y
    <2>1. \E x \in stops : \A y \in stops : x <= y
      BY <1>5, LeastNumber
    <2> QED
      BY <2>1 DEF ByPriority!Min
  <1> HIDE DEF p
  <1>8. p \in 1..Len(s)
    BY <1>5, <1>7
  <1>9. ASSUME NEW k \in 1..p
        PROVE  Priority[s[k]] >= Priority[t]
    <2>1. CASE k = 1
      BY <1>1, <1>2, <2>1
    <2>2. CASE k # 1
      <3>1. PICK j \in 1..Len(s) : k = j + 1
        BY <1>0, <1>8, <2>2
      <3>2. j \notin stops
        BY <1>0, <1>7, <1>8, <3>1
      <3>3. k \in 1..Len(s)
        BY <1>0, <1>8
      <3>4. ~ (Priority[t] > Priority[s[k]])
        BY <1>6, <3>1, <3>2
      <3> QED
        BY <1>2, <3>3, <3>4
    <2> QED
      BY <2>1, <2>2
  <1>10. ASSUME NEW k \in (p + 1)..Len(s)
         PROVE  Priority[s[k]] < Priority[t]
    <2>1. p # Len(s) /\ p + 1 \in 1..Len(s) /\ k \in 1..Len(s)
      BY <1>0, <1>8
    <2>2. Priority[t] > Priority[s[p + 1]]
      BY <1>6, <1>7, <1>8, <2>1
    <2>3. Priority[s[p + 1]] >= Priority[s[k]]
      <3>1. CASE k = p + 1
        BY <1>2, <2>1, <3>1
      <3>2. CASE k # p + 1
        <4>1. p + 1 < k
          BY <1>0, <1>8, <3>2
        <4> QED
          BY <1>0, <2>1, <4>1 DEF Sorted
      <3> QED
        BY <3>1, <3>2
    <2> QED
      BY <1>2, <2>1, <2>2, <2>3
  <1> QED
    <2>1. ByPriority!SearchPosition(t) = s[p]
      BY <1>4 DEF p
    <2> QED
      BY <1>8, <1>9, <1>10, <2>1

\* A sequence stays sorted with a task between those of its priority or a
\* higher one and the others.
LEMMA SortedInsert ==
    ASSUME NEW a \in Seq(Tasks), NEW b \in Seq(Tasks), NEW t \in Tasks,
           Sorted(a \o b), Distinct(a \o b),
           \A k \in 1..(Len(a) + Len(b)) : (a \o b)[k] # t,
           \A k \in 1..Len(a) : Priority[(a \o b)[k]] >= Priority[t],
           \A k \in (Len(a) + 1)..(Len(a) + Len(b)) : Priority[(a \o b)[k]] < Priority[t]
    PROVE  Sorted((a \o << t >>) \o b)
  <1> DEFINE s == a \o b
             r == (a \o << t >>) \o b
  <1>1. Len(a) \in Nat /\ Len(b) \in Nat
    OBVIOUS
  <1>2. s \in Seq(Tasks) /\ Len(s) = Len(a) + Len(b)
    BY ConcatProperties
  <1>3. /\ Len(r) = Len(a) + 1 + Len(b)
        /\ \A k \in 1..(Len(a) + 1 + Len(b)) :
              r[k] = IF k <= Len(a) THEN s[k]
                     ELSE IF k = Len(a) + 1 THEN t ELSE s[k - 1]
    BY DistinctInsert
  <1>4. Sorted(s)
    OBVIOUS
  <1>5. \A k \in 1..Len(s) : Priority[s[k]] \in Nat /\ Priority[t] \in Nat
    BY <1>2, PolicyAssumption
  <1>6. /\ \A k \in 1..Len(a) : Priority[s[k]] >= Priority[t]
        /\ \A k \in (Len(a) + 1)..Len(s) : Priority[s[k]] < Priority[t]
    BY <1>2
  <1> HIDE DEF s, r
  <1>7. Sorted(r)
    <2> SUFFICES ASSUME NEW j \in 1..Len(r), NEW k \in 1..Len(r), j < k
                 PROVE  Priority[r[j]] >= Priority[r[k]]
      BY DEF Sorted
    <2> DEFINE At(i) == IF i <= Len(a) THEN i ELSE i - 1
    <2>1. \A i \in 1..Len(r) : i # Len(a) + 1 => At(i) \in 1..Len(s) /\ r[i] = s[At(i)]
      BY <1>1, <1>2, <1>3
    <2>2. CASE j = Len(a) + 1
      <3>1. k # Len(a) + 1 /\ At(k) \in (Len(a) + 1)..Len(s) /\ r[j] = t
        BY <1>1, <1>2, <1>3, <2>2
      <3> HIDE DEF At
      <3>2. r[k] = s[At(k)] /\ At(k) \in 1..Len(s)
        BY <2>1, <3>1
      <3> QED
        BY <1>5, <1>6, <3>1, <3>2
    <2>3. CASE k = Len(a) + 1
      <3>1. j # Len(a) + 1 /\ At(j) \in 1..Len(a) /\ r[k] = t
        BY <1>1, <1>2, <1>3, <2>3
      <3> HIDE DEF At
      <3>2. r[j] = s[At(j)]
        BY <2>1, <3>1
      <3> QED
        BY <1>6, <3>1, <3>2
    <2>4. CASE j # Len(a) + 1 /\ k # Len(a) + 1
      <3>1. At(j) < At(k)
        BY <1>1, <1>3, <2>4
      <3> HIDE DEF At
      <3>2. /\ At(j) \in 1..Len(s) /\ At(k) \in 1..Len(s)
            /\ r[j] = s[At(j)] /\ r[k] = s[At(k)]
        BY <2>1, <2>4
      <3> QED
        BY <1>4, <3>1, <3>2 DEF Sorted
    <2> QED
      BY <2>2, <2>3, <2>4
  <1> QED
    BY <1>7 DEF r


\* The head of the list, and the pointers, when t was linked behind the tasks a.
Leading(a, first, t) == IF a = << >> THEN t ELSE first
LinkedBehind(a, first, link, t) ==
    IF a = << >> THEN [link EXCEPT ![t] = first]
    ELSE [link EXCEPT ![t] = link[a[Len(a)]], ![a[Len(a)]] = t]

\* The list with t between the tasks of at least its priority and the others.
LEMMA SortedLink ==
    ASSUME NEW a \in Seq(Tasks), NEW b \in Seq(Tasks), NEW t \in Tasks,
           NEW first, NEW link \in Pointers, IsSortedList(a \o b, first, link),
           \A k \in 1..(Len(a) + Len(b)) : (a \o b)[k] # t,
           \A k \in 1..Len(a) : Priority[(a \o b)[k]] >= Priority[t],
           \A k \in (Len(a) + 1)..(Len(a) + Len(b)) : Priority[(a \o b)[k]] < Priority[t]
    PROVE  /\ IsSortedList((a \o << t >>) \o b, Leading(a, first, t),
                           LinkedBehind(a, first, link, t))
           /\ LinkedBehind(a, first, link, t) \in Pointers
  <1> DEFINE other == LinkedBehind(a, first, link, t)
             first1 == Leading(a, first, t)
             r == (a \o << t >>) \o b
  <1>1. IsList(a \o b, first, link) /\ Distinct(a \o b) /\ Sorted(a \o b)
        /\ a \o b \in Seq(Tasks) /\ Len(a) \in Nat /\ Len(b) \in Nat
        /\ Len(a \o b) = Len(a) + Len(b)
    BY DEF IsSortedList
  <1>2. r \in Seq(Tasks) /\ Distinct(r) /\ Sorted(r)
    BY <1>1, DistinctInsert, SortedInsert
  <1>3. ASSUME a = << >>
        PROVE  IsList(r, first1, other) /\ other \in Pointers
    <2>1. first1 = t /\ other = [link EXCEPT ![t] = first]
      BY <1>3 DEF Leading, LinkedBehind
    <2>2. first \in Tasks \cup {"null"}
      BY <1>1, ListHead
    <2>3. /\ other[t] = first /\ other \in Pointers
          /\ \A k \in 1..Len(a \o b) : other[(a \o b)[k]] = link[(a \o b)[k]]
      BY <1>1, <2>1, <2>2 DEF Pointers
    <2>4. \A f : f[t] = first
                 /\ (\A k \in 1..Len(a \o b) : f[(a \o b)[k]] = link[(a \o b)[k]])
             => IsList(<< t >> \o (a \o b), t, f)
      BY <1>1, ListPush
    <2>5. << t >> \o (a \o b) = r
      <3>1. << t >> \in Seq(Tasks)
        OBVIOUS
      <3>2. a \o b = b /\ a \o << t >> = << t >>
        BY <1>3, <3>1, ConcatEmptySeq
      <3> QED
        BY <3>2
    <2> HIDE DEF other
    <2>6. IsList(<< t >> \o (a \o b), t, other)
      BY <2>3, <2>4
    <2> QED
      BY <2>1, <2>3, <2>5, <2>6
  <1>4. ASSUME a # << >>
        PROVE  IsList(r, first1, other) /\ other \in Pointers
    <2>1. /\ first1 = first
          /\ other = [link EXCEPT ![t] = link[a[Len(a)]], ![a[Len(a)]] = t]
      BY <1>4 DEF Leading, LinkedBehind
    <2>2. /\ a[Len(a)] \in Tasks /\ a[Len(a)] = (a \o b)[Len(a)]
          /\ Len(a) \in 1..(Len(a) + Len(b))
      BY <1>1, <1>4, ConcatProperties
    <2>3. a[Len(a)] # t
      BY <2>2
    <2>4. /\ other[t] = link[a[Len(a)]] /\ other[a[Len(a)]] = t /\ other \in Pointers
          /\ \A x \in Tasks \ { t, a[Len(a)] } : other[x] = link[x]
      BY <2>1, <2>2, <2>3 DEF Pointers
    <2>5. \A f : /\ f[t] = link[a[Len(a)]] /\ f[a[Len(a)]] = t
                 /\ \A x \in Tasks \ { t, a[Len(a)] } : f[x] = link[x]
             => IsList((a \o << t >>) \o b, first, f)
      BY <1>1, <1>4, ListInsert
    <2> HIDE DEF other
    <2>6. IsList(r, first, other)
      BY <2>4, <2>5
    <2> QED
      BY <2>1, <2>4, <2>6
  <1> HIDE DEF other, first1, r
  <1>5. IsSortedList(r, first1, other) /\ other \in Pointers
    BY <1>2, <1>3, <1>4 DEF IsSortedList
  <1> QED
    BY <1>5 DEF r, first1, other

\* A task is queued between those with at least its priority and the others.
LEMMA PriorityQueues ==
    ASSUME policy = "priority", policy' = "priority", got' = got,
           NEW a \in Seq(Tasks), NEW b \in Seq(Tasks), NEW t \in Tasks,
           PriorityLinks(a \o b),
           \A k \in 1..(Len(a) + Len(b)) : (a \o b)[k] # t,
           \A k \in 1..Len(a) : Priority[(a \o b)[k]] >= Priority[t],
           \A k \in (Len(a) + 1)..(Len(a) + Len(b)) : Priority[(a \o b)[k]] < Priority[t],
           head' = Leading(a, head, t), next' = LinkedBehind(a, head, next, t),
           wasEmpty' = (head = "null")
    PROVE  Order!Next /\ PriorityInv'
  <1> DEFINE r == (a \o << t >>) \o b
  <1>1. IsSortedList(a \o b, head, next) /\ next \in Pointers
        /\ policy \in Policies /\ policy' = policy
    BY DEF PriorityLinks, Policies
  <1>2. IsSortedList(r, head', next') /\ next' \in Pointers
    BY <1>1, SortedLink
  <1>3. PriorityLinks(r)'
    BY <1>2 DEF PriorityLinks
  <1>4. Waiting = a \o b /\ Waiting' = r
    BY <1>3, PriorityReads
  <1>5. wasEmpty' = (a \o b = << >>)
    <2>1. (head = "null") <=> (a \o b = << >>)
      BY <1>1, ListHead DEF IsSortedList
    <2> QED
      BY <2>1, Zenon
  <1>6. /\ \A k \in 1..Len(a) : Rank[a[k]] >= Rank[t]
        /\ \A k \in 1..Len(b) : Rank[b[k]] < Rank[t]
    <2>1. Rank = Priority
      BY DEF Rank
    <2>2. \A k \in 1..Len(a) : (a \o b)[k] = a[k]
      OBVIOUS
    <2>3. ASSUME NEW k \in 1..Len(b)
          PROVE  Rank[b[k]] < Rank[t]
      <3>1. PICK i \in (Len(a) + 1)..(Len(a) + Len(b)) : i - Len(a) = k
        <4>1. Len(a) + k \in (Len(a) + 1)..(Len(a) + Len(b)) /\ Len(a) + k - Len(a) = k
          OBVIOUS
        <4> QED
          BY <4>1, SMTT(30)
      <3>2. (a \o b)[i] = b[k]
        <4>1. (a \o b)[i] = b[i - Len(a)]
          BY <3>1
        <4> QED
          BY <3>1, <4>1
      <3> QED
        BY <2>1, <3>2
    <2> QED
      BY <2>1, <2>2, <2>3
  <1>7. Order!Next
    BY <1>1, <1>4, <1>5, <1>6, QueueMaps
  <1> QED
    BY <1>3, <1>7 DEF PriorityInv


\* Each operation of Priority is one of the run queue.
LEMMA PriorityStep ==
    ASSUME policy = "priority", policy' = "priority", NEW s, PriorityLinks(s),
           ByPriority!Next
    PROVE  Order!Next /\ PriorityInv'
  <1>0. /\ s \in Seq(Tasks) /\ << >> \in Seq(Tasks) /\ Len(<< >>) = 0 /\ Len(s) \in Nat
        /\ << >> \o s = s /\ IsSortedList(s, head, next) /\ next \in Pointers
        /\ IsList(s, head, next) /\ Sorted(s) /\ Distinct(s)
        /\ policy \in Policies /\ policy' = policy
    BY ConcatEmptySeq DEF PriorityLinks, IsSortedList, Policies
  <1>1. Waiting = s /\ ByPriority!Waiting = s
    BY PriorityReads DEF Waiting
  <1>a. (head = "null") <=> (s = << >>)
    BY <1>0, ListHead
  <1>2. ASSUME NEW t \in Tasks, ByPriority!Queue(t)
        PROVE  Order!Next /\ PriorityInv'
    <2>1. \A k \in 1..Len(s) : s[k] # t
      <3>1. DOMAIN s = 1..Len(s)
        BY <1>0
      <3>2. t \notin ByPriority!Range(s)
        BY <1>1, <1>2 DEF ByPriority!Queue
      <3> QED
        BY <3>1, <3>2 DEF ByPriority!Range
    <2>2. wasEmpty' = (head = "null") /\ got' = got
      BY <1>2 DEF ByPriority!Queue, ByPriority!Null
    <2>a. \A k \in 1..Len(s) : s[k] \in Tasks /\ Priority[s[k]] \in Nat
          /\ Priority[t] \in Nat
      BY <1>0, PolicyAssumption
    <2>3. CASE ByPriority!BecomesHead(t)
      <3>1. head' = t /\ next' = [next EXCEPT ![t] = head]
        BY <1>2, <2>3 DEF ByPriority!Queue
      <3>2. ASSUME NEW k \in 1..Len(s)
            PROVE  Priority[s[k]] < Priority[t]
        <4>1. s # << >> /\ 1 \in 1..Len(s)
          BY <1>0, <3>2
        <4>2. head # "null" /\ head = s[1]
          BY <1>0, <4>1, ListHead
        <4>3. Priority[t] > Priority[s[1]]
          BY <2>3, <4>2 DEF ByPriority!BecomesHead, ByPriority!Null
        <4>4. Priority[s[1]] >= Priority[s[k]]
          BY <1>0, <2>a, <4>1 DEF Sorted
        <4> QED
          BY <2>a, <4>1, <4>3, <4>4
      <3>3. head' = Leading(<< >>, head, t)
            /\ next' = LinkedBehind(<< >>, head, next, t)
        BY <3>1 DEF Leading, LinkedBehind
      <3>4. /\ PriorityLinks(<< >> \o s)
            /\ \A k \in 1..(Len(<< >>) + Len(s)) : (<< >> \o s)[k] # t
            /\ \A k \in 1..Len(<< >>) : Priority[(<< >> \o s)[k]] >= Priority[t]
            /\ \A k \in (Len(<< >>) + 1)..(Len(<< >>) + Len(s)) :
                  Priority[(<< >> \o s)[k]] < Priority[t]
        BY <1>0, <2>1, <3>2
      <3> QED
        BY <1>0, <2>2, <3>3, <3>4, PriorityQueues
    <2>4. CASE ~ ByPriority!BecomesHead(t)
      <3>1. PICK p \in 1..Len(s) :
               /\ ByPriority!SearchPosition(t) = s[p]
               /\ \A k \in 1..p : Priority[s[k]] >= Priority[t]
               /\ \A k \in (p + 1)..Len(s) : Priority[s[k]] < Priority[t]
        BY <2>4, SearchStops
      <3>2. head' = head
            /\ next' = [next EXCEPT ![t] = next[s[p]], ![s[p]] = t]
        BY <1>2, <2>4, <3>1 DEF ByPriority!Queue
      <3> DEFINE a == SubSeq(s, 1, p)
                 b == SubSeq(s, p + 1, Len(s))
      <3>3. /\ a \in Seq(Tasks) /\ Len(a) = p /\ a # << >> /\ a[p] = s[p]
            /\ b \in Seq(Tasks) /\ a \o b = s
        <4>1. \A i \in 1..Len(s) : s[i] \in Tasks
          BY <1>0
        <4>2. /\ a \in Seq(Tasks) /\ Len(a) = IF 1 <= p THEN p - 1 + 1 ELSE 0
              /\ \A i \in 1..(p - 1 + 1) : a[i] = s[1 + i - 1]
          BY <1>0, <4>1, SubSeqProperties
        <4>3. b \in Seq(Tasks)
          BY <1>0, <4>1, SubSeqProperties
        <4>4. a \o b = s
          <5>1. /\ 1 \in 1..(Len(s) + 1) /\ p \in (1 - 1)..Len(s) /\ Len(s) \in p..Len(s)
            BY <1>0
          <5>2. SubSeq(s, 1, p) \o SubSeq(s, p + 1, Len(s)) = SubSeq(s, 1, Len(s))
            BY <1>0, <5>1, ConcatAdjacentSubSeq
          <5>3. SubSeq(s, 1, Len(s)) = s
            BY <1>0
          <5> QED
            BY <5>2, <5>3
        <4> HIDE DEF a, b
        <4>5. Len(a) = p /\ a[p] = s[p]
          BY <4>2
        <4> QED
          BY <4>2, <4>3, <4>4, <4>5
      <3> HIDE DEF a, b
      <3>4. head' = Leading(a, head, t) /\ next' = LinkedBehind(a, head, next, t)
        BY <3>2, <3>3 DEF Leading, LinkedBehind
      <3>5. Len(a) + Len(b) = Len(s)
        BY <3>3, ConcatProperties
      <3>6. /\ PriorityLinks(a \o b)
            /\ \A k \in 1..(Len(a) + Len(b)) : (a \o b)[k] # t
            /\ \A k \in 1..Len(a) : Priority[(a \o b)[k]] >= Priority[t]
            /\ \A k \in (Len(a) + 1)..(Len(a) + Len(b)) :
                  Priority[(a \o b)[k]] < Priority[t]
        BY <2>1, <3>1, <3>3, <3>5
      <3> QED
        BY <1>0, <2>2, <3>3, <3>4, <3>6, PriorityQueues
    <2> QED
      BY <2>3, <2>4
  <1>3. ASSUME ByPriority!NextTask
        PROVE  Order!Next /\ PriorityInv'
    <2>1. /\ got' = head /\ head' = (IF head = "null" THEN "null" ELSE next[head])
          /\ next' = next /\ wasEmpty' = wasEmpty
      BY <1>3 DEF ByPriority!NextTask, ByPriority!Null
    <2>2. CASE s = << >>
      <3>1. PriorityLinks(s)'
        BY <1>0, <1>a, <2>1, <2>2 DEF PriorityLinks
      <3>2. Waiting' = s
        BY <3>1, PriorityReads
      <3> QED
        BY <1>0, <1>1, <1>a, <2>1, <2>2, <3>1, <3>2, NextTaskMaps DEF PriorityInv
    <2>3. CASE s # << >>
      <3>1. head # "null" /\ head = Head(s)
        BY <1>0, <1>a, <2>3 DEF IsList
      <3>2. /\ IsList(Tail(s), next[head], next) /\ Tail(s) \in Seq(Tasks)
            /\ Len(Tail(s)) = Len(s) - 1
            /\ \A k \in 1..Len(Tail(s)) : Tail(s)[k] = s[k + 1]
            /\ Distinct(Tail(s))
        BY <1>0, <2>3, ListPop
      <3>3. Sorted(Tail(s))
        <4> DEFINE r == Tail(s)
        <4>1. r \in Seq(Tasks) /\ Len(r) = Len(s) - 1
              /\ \A k \in 1..Len(r) : r[k] = s[k + 1]
          BY <3>2
        <4> HIDE DEF r
        <4>2. \A k \in 1..Len(r) : k + 1 \in 1..Len(s)
          BY <1>0, <4>1
        <4>3. Sorted(r)
          BY <1>0, <4>1, <4>2 DEF Sorted
        <4> QED
          BY <4>3 DEF r
      <3>4. PriorityLinks(Tail(s))'
        BY <1>0, <2>1, <3>1, <3>2, <3>3 DEF PriorityLinks, IsSortedList
      <3>5. Waiting' = Tail(s)
        BY <3>4, PriorityReads
      <3> QED
        BY <1>0, <1>1, <2>1, <2>3, <3>1, <3>4, <3>5, NextTaskMaps DEF PriorityInv
    <2> QED
      BY <2>2, <2>3
  <1> QED
    BY <1>2, <1>3 DEF ByPriority!Next


-----------------------------------------------------------------------------
(* The policy PSlot: the lists of the slots, one behind the other.         *)

\* What holds for i and, with a number below n, for the next one, holds from i
\* to n.
LEMMA Upward ==
    ASSUME NEW n \in Nat, NEW i \in 0..n, NEW T, i \in T,
           \A m \in i..n : m < n /\ m \in T => m + 1 \in T
    PROVE  \A m \in i..n : m \in T
  <1> DEFINE Bad == { m \in i..n : m \notin T }
  <1>1. ASSUME Bad # {}
        PROVE  FALSE
    <2>0. Bad \in SUBSET Nat
      OBVIOUS
    <2>1. PICK m \in Bad : \A j \in Bad : m <= j
      BY <1>1, <2>0, LeastNumber
    <2>2. m \in i..n /\ m \notin T /\ m # i
      OBVIOUS
    <2>3. m - 1 \in i..n /\ m - 1 \notin Bad /\ m - 1 < n /\ m - 1 + 1 = m
      BY <2>1, <2>2
    <2> QED
      BY <2>2, <2>3
  <1> QED
    BY <1>1

\* The slots of PSlot.
SlotNumbers == 0..(maxPrioritySlot - 1)

\* The lists L of the slots below m, the highest slot first, are U[m].
Piled(L, U) ==
    /\ U[0] = << >>
    /\ \A m \in SlotNumbers : U[m + 1] = L[m] \o U[m]

\* PSlot!Waiting with the pointers as parameters.
PileOf(heads, link) ==
    LET upTo[s \in 0..maxPrioritySlot] ==
            IF s = 0 THEN << >>
            ELSE Chain(heads[s - 1], link, "null", Cardinality(Tasks)) \o upTo[s - 1]
    IN  upTo[maxPrioritySlot]

\* The run queue is what the pointers of the slots link.
LEMMA PSlotWaiting ==
    PSlot!Waiting = PileOf(head, next) /\ PSlot!Waiting' = PileOf(head', next')
  BY DEF PSlot!Waiting, PSlot!InSlot, PSlot!Chain, Chain, PSlot!Null, PileOf,
         PSlot!Cardinality, Cardinality

\* The recursive function of PSlot!Waiting piles the lists of the slots.
LEMMA PileOfLists ==
    ASSUME NEW heads, NEW link, NEW L,
           \A s \in SlotNumbers :
              Chain(heads[s], link, "null", Cardinality(Tasks)) = L[s]
    PROVE  \E U : Piled(L, U) /\ PileOf(heads, link) = U[maxPrioritySlot]
  <1> DEFINE M == maxPrioritySlot
             row(s) == Chain(heads[s], link, "null", Cardinality(Tasks))
             Step(f, n) == [s \in 0..n |-> IF s = 0 THEN << >> ELSE row(s - 1) \o f[s - 1]]
             upTo[s \in 0..M] == IF s = 0 THEN << >> ELSE row(s - 1) \o upTo[s - 1]
             T == { n \in Nat : \E f : f = Step(f, n) }
  <1>0. M \in Nat \ {0}
    BY PolicyAssumption
  <1>1. PileOf(heads, link) = upTo[M]
    BY DEF PileOf
  <1>2. upTo = CHOOSE f : f = Step(f, M)
    OBVIOUS
  <1> HIDE DEF row, upTo
  <1>3. 0 \in T
    <2> DEFINE f == [s \in 0..0 |-> << >>]
    <2>1. f = Step(f, 0)
      OBVIOUS
    <2> QED
      BY <2>1
  <1>4. ASSUME NEW n \in 0..M, n \in T
        PROVE  n + 1 \in T
    <2>1. PICK f : f = Step(f, n)
      BY <1>4
    <2> DEFINE g == [s \in 0..(n + 1) |-> IF s = n + 1 THEN row(n) \o f[n] ELSE f[s]]
    <2>2. ASSUME NEW s \in 0..(n + 1)
          PROVE  g[s] = Step(g, n + 1)[s]
      <3>1. CASE s = 0
        BY <2>1, <3>1
      <3>2. CASE s = n + 1
        BY <2>1, <3>2
      <3>3. CASE s # 0 /\ s # n + 1
        <4>1. s \in 0..n /\ s - 1 \in 0..n /\ s - 1 # n + 1 /\ s - 1 \in 0..(n + 1)
          BY <3>3
        <4>2. g[s] = f[s] /\ g[s - 1] = f[s - 1]
          BY <3>3, <4>1
        <4>3. f[s] = row(s - 1) \o f[s - 1]
          BY <2>1, <3>3, <4>1
        <4> QED
          BY <3>3, <4>2, <4>3
      <3> QED
        BY <3>1, <3>2, <3>3
    <2>3. g = Step(g, n + 1)
      BY <2>2
    <2>4. n + 1 \in Nat
      BY <1>0
    <2>5. \E f1 : f1 = Step(f1, n + 1)
      <3> HIDE DEF g, Step
      <3> QED
        BY <2>3, Zenon
    <2> HIDE DEF Step
    <2> QED
      BY <2>4, <2>5
  <1>5. M \in T
    <2> HIDE DEF T
    <2> QED
      BY <1>0, <1>3, <1>4, Upward
  <1>6. upTo = Step(upTo, M)
    BY <1>2, <1>5
  <1>7. Piled(L, upTo)
    <2>1. upTo[0] = << >>
      BY <1>0, <1>6
    <2>2. ASSUME NEW m \in SlotNumbers
          PROVE  upTo[m + 1] = L[m] \o upTo[m]
      <3>1. PICK s \in 0..M : s = m + 1 /\ s # 0 /\ s - 1 = m
        <4>1. m + 1 \in 0..M /\ m + 1 # 0 /\ m + 1 - 1 = m
          BY <1>0 DEF SlotNumbers
        <4> QED
          BY <1>0, <4>1 DEF SlotNumbers
      <3>2. upTo[m + 1] = row(m) \o upTo[m]
        <4>1. upTo[s] = row(s - 1) \o upTo[s - 1]
          BY <1>6, <3>1
        <4> QED
          BY <3>1, <4>1, Zenon
      <3> QED
        BY <3>2 DEF row
    <2> QED
      BY <2>1, <2>2 DEF Piled
  <1> QED
    BY <1>1, <1>7


\* The tasks of a concatenation are those of its parts.
LEMMA ConcatElements ==
    ASSUME NEW x \in Seq(Tasks), NEW y \in Seq(Tasks)
    PROVE  /\ x \o y \in Seq(Tasks)
           /\ \A k \in 1..Len(x \o y) : \/ \E j \in 1..Len(x) : (x \o y)[k] = x[j]
                                        \/ \E j \in 1..Len(y) : (x \o y)[k] = y[j]
           /\ \A j \in 1..Len(x) : \E k \in 1..Len(x \o y) : (x \o y)[k] = x[j]
           /\ \A j \in 1..Len(y) : \E k \in 1..Len(x \o y) : (x \o y)[k] = y[j]
  <1> DEFINE r == x \o y
  <1>1. /\ r \in Seq(Tasks) /\ Len(r) = Len(x) + Len(y)
        /\ \A i \in 1..(Len(x) + Len(y)) :
              r[i] = IF i <= Len(x) THEN x[i] ELSE y[i - Len(x)]
        /\ Len(x) \in Nat /\ Len(y) \in Nat
    BY ConcatProperties
  <1> HIDE DEF r
  <1>2. ASSUME NEW k \in 1..Len(r)
        PROVE  \/ \E j \in 1..Len(x) : r[k] = x[j]
               \/ \E j \in 1..Len(y) : r[k] = y[j]
    <2>1. k <= Len(x) => k \in 1..Len(x) /\ r[k] = x[k]
      BY <1>1
    <2>2. ~ (k <= Len(x)) => k - Len(x) \in 1..Len(y) /\ r[k] = y[k - Len(x)]
      BY <1>1
    <2> QED
      BY <2>1, <2>2
  <1>3. ASSUME NEW j \in 1..Len(x)
        PROVE  \E k \in 1..Len(r) : r[k] = x[j]
    <2>1. j \in 1..Len(r) /\ r[j] = x[j]
      BY <1>1
    <2> QED
      BY <2>1
  <1>4. ASSUME NEW j \in 1..Len(y)
        PROVE  \E k \in 1..Len(r) : r[k] = y[j]
    <2>1. /\ Len(x) + j \in 1..Len(r) /\ ~ (Len(x) + j <= Len(x))
          /\ Len(x) + j - Len(x) = j
      BY <1>1
    <2>2. r[Len(x) + j] = y[j]
      BY <1>1, <2>1
    <2> QED
      BY <2>1, <2>2
  <1> QED
    BY <1>1, <1>2, <1>3, <1>4 DEF r

\* Each slot has its own tasks.
AreRows(L) ==
    \A s \in SlotNumbers :
        L[s] \in Seq(Tasks) /\ \A k \in 1..Len(L[s]) : PSlot!SlotOf(L[s][k]) = s

\* The tasks of the slots below m are tasks of these slots.
LEMMA PileType ==
    ASSUME NEW L, NEW U, Piled(L, U), AreRows(L), NEW n \in 0..maxPrioritySlot
    PROVE  U[n] \in Seq(Tasks) /\ \A k \in 1..Len(U[n]) : PSlot!SlotOf(U[n][k]) < n
  <1> DEFINE T == { m \in 0..maxPrioritySlot :
                      /\ U[m] \in Seq(Tasks)
                      /\ \A k \in 1..Len(U[m]) : PSlot!SlotOf(U[m][k]) < m }
  <1>0. maxPrioritySlot \in Nat \ {0}
    BY PolicyAssumption
  <1>1. 0 \in T
    <2>1. U[0] = << >> /\ << >> \in Seq(Tasks) /\ Len(<< >>) = 0
      BY DEF Piled
    <2>2. U[0] \in Seq(Tasks) /\ Len(U[0]) = 0
      BY <2>1
    <2> QED
      BY <1>0, <2>2
  <1>2. ASSUME NEW m \in 0..maxPrioritySlot, m < maxPrioritySlot, m \in T
        PROVE  m + 1 \in T
    <2>1. m \in SlotNumbers /\ m + 1 \in 0..maxPrioritySlot
      BY <1>0, <1>2 DEF SlotNumbers
    <2>2. U[m + 1] = L[m] \o U[m]
      BY <2>1 DEF Piled
    <2>3. /\ L[m] \in Seq(Tasks) /\ U[m] \in Seq(Tasks)
          /\ \A k \in 1..Len(L[m]) : PSlot!SlotOf(L[m][k]) = m
          /\ \A k \in 1..Len(U[m]) : PSlot!SlotOf(U[m][k]) < m
      BY <1>2, <2>1 DEF AreRows
    <2> DEFINE r == L[m] \o U[m]
    <2>4. r \in Seq(Tasks)
      BY <2>3
    <2>b. ASSUME NEW k \in 1..Len(r)
          PROVE  \/ \E j \in 1..Len(L[m]) : r[k] = L[m][j]
                 \/ \E j \in 1..Len(U[m]) : r[k] = U[m][j]
      BY <2>3, ConcatElements, Zenon
    <2>a. U[m + 1] = r
      BY <2>2
    <2> HIDE DEF r
    <2>5. ASSUME NEW k \in 1..Len(r)
          PROVE  PSlot!SlotOf(r[k]) < m + 1
      <3>1. r[k] \in Tasks
        BY <2>4
      <3>2. PSlot!SlotOf(r[k]) \in Int
        BY <3>1, PolicyAssumption DEF PSlot!SlotOf
      <3>3. PSlot!SlotOf(r[k]) = m \/ PSlot!SlotOf(r[k]) < m
        BY <2>3, <2>4, <2>b
      <3> QED
        BY <3>2, <3>3
    <2> QED
      BY <2>1, <2>4, <2>5, <2>a
  <1> HIDE DEF T
  <1>3. \A m \in 0..maxPrioritySlot : m \in T
    BY <1>0, <1>1, <1>2, Upward
  <1> QED
    BY <1>3 DEF T

\* Piles of the same lists are the same.
LEMMA PileSame ==
    ASSUME NEW L, NEW U, Piled(L, U), NEW K, NEW V, Piled(K, V),
           NEW n \in 0..maxPrioritySlot,
           \A s \in SlotNumbers : s < n => K[s] = L[s]
    PROVE  V[n] = U[n]
  <1> DEFINE T == { m \in 0..n : V[m] = U[m] }
  <1>0. n \in Nat /\ maxPrioritySlot \in Nat \ {0}
    BY PolicyAssumption
  <1>1. 0 \in T
    BY <1>0 DEF Piled
  <1>2. ASSUME NEW m \in 0..n, m < n, m \in T
        PROVE  m + 1 \in T
    <2>1. m \in SlotNumbers /\ m + 1 \in 0..n
      BY <1>0, <1>2 DEF SlotNumbers
    <2>2. U[m + 1] = L[m] \o U[m] /\ V[m + 1] = K[m] \o V[m]
      BY <2>1 DEF Piled
    <2>3. K[m] = L[m] /\ V[m] = U[m]
      BY <1>2, <2>1
    <2> QED
      BY <2>1, <2>2, <2>3
  <1> HIDE DEF T
  <1>3. \A m \in 0..n : m \in T
    BY <1>0, <1>1, <1>2, Upward
  <1> QED
    BY <1>0, <1>3 DEF T

\* The tasks of a slot are in the pile.
LEMMA PileHas ==
    ASSUME NEW L, NEW U, Piled(L, U), AreRows(L), NEW s \in SlotNumbers,
           NEW k \in 1..Len(L[s])
    PROVE  \E i \in 1..Len(U[maxPrioritySlot]) : U[maxPrioritySlot][i] = L[s][k]
  <1> DEFINE M == maxPrioritySlot
             Has(m) == \E i \in 1..Len(U[m]) : U[m][i] = L[s][k]
             T == { m \in (s + 1)..M : Has(m) }
  <1>0. M \in Nat \ {0} /\ s \in Nat /\ s + 1 \in 0..M /\ s + 1 \in (s + 1)..M /\ s \in 0..M
    BY PolicyAssumption DEF SlotNumbers
  <1>1. \A m \in SlotNumbers : /\ U[m + 1] = L[m] \o U[m] /\ m \in 0..M
                              /\ U[m] \in Seq(Tasks) /\ L[m] \in Seq(Tasks)
    <2>1. ASSUME NEW m \in SlotNumbers
          PROVE  m \in 0..M
      BY <1>0 DEF SlotNumbers
    <2> QED
      BY <2>1, PileType DEF Piled, AreRows
  <1>2. s + 1 \in T
    <2>1. /\ U[s + 1] = L[s] \o U[s] /\ U[s] \in Seq(Tasks) /\ L[s] \in Seq(Tasks)
      BY <1>1
    <2>2. \E i \in 1..Len(L[s] \o U[s]) : (L[s] \o U[s])[i] = L[s][k]
      BY <2>1, ConcatElements, Zenon
    <2>3. Has(s + 1)
      BY <2>1, <2>2
    <2> QED
      BY <1>0, <2>3
  <1>3. ASSUME NEW m \in (s + 1)..M, m < M, m \in T
        PROVE  m + 1 \in T
    <2>1. m \in SlotNumbers /\ m + 1 \in (s + 1)..M
      BY <1>0, <1>3 DEF SlotNumbers
    <2>2. /\ U[m + 1] = L[m] \o U[m] /\ U[m] \in Seq(Tasks) /\ L[m] \in Seq(Tasks)
      BY <1>1, <2>1
    <2>3. PICK j \in 1..Len(U[m]) : U[m][j] = L[s][k]
      BY <1>3
    <2>a. \E i \in 1..Len(L[m] \o U[m]) : (L[m] \o U[m])[i] = U[m][j]
      BY <2>2, ConcatElements, Zenon
    <2>4. Has(m + 1)
      BY <2>2, <2>3, <2>a
    <2> QED
      BY <2>1, <2>4
  <1> HIDE DEF T
  <1>4. \A m \in (s + 1)..M : m \in T
    BY <1>0, <1>2, <1>3, Upward
  <1>5. M \in T
    BY <1>0, <1>4
  <1> QED
    BY <1>5 DEF T


\* The first task of a concatenation is that of its first part.
LEMMA TailConcat ==
    ASSUME NEW x \in Seq(Tasks), NEW y \in Seq(Tasks), x # << >>
    PROVE  /\ x \o y # << >>
           /\ Head(x \o y) = Head(x)
           /\ Tail(x \o y) = Tail(x) \o y
  <1> DEFINE r == x \o y
             u == Tail(x)
             v == Tail(r)
             w == u \o y
  <1>1. /\ r \in Seq(Tasks) /\ Len(r) = Len(x) + Len(y)
        /\ \A i \in 1..(Len(x) + Len(y)) :
              r[i] = IF i <= Len(x) THEN x[i] ELSE y[i - Len(x)]
        /\ Len(x) \in Nat \ {0} /\ Len(y) \in Nat
    BY ConcatProperties
  <1>2. r # << >> /\ Head(r) = Head(x)
    BY <1>1
  <1>3. u \in Seq(Tasks) /\ Len(u) = Len(x) - 1 /\ \A i \in 1..Len(u) : u[i] = x[i + 1]
    BY HeadTailProperties
  <1> HIDE DEF r, u
  <1>4. v \in Seq(Tasks) /\ Len(v) = Len(r) - 1 /\ \A i \in 1..Len(v) : v[i] = r[i + 1]
    BY <1>1, <1>2, HeadTailProperties
  <1>5. /\ w \in Seq(Tasks) /\ Len(w) = Len(u) + Len(y)
        /\ \A i \in 1..(Len(u) + Len(y)) :
              w[i] = IF i <= Len(u) THEN u[i] ELSE y[i - Len(u)]
    BY <1>3, ConcatProperties
  <1> HIDE DEF v, w
  <1>6. Len(v) = Len(w)
    BY <1>1, <1>3, <1>4, <1>5
  <1>7. ASSUME NEW i \in 1..Len(v)
        PROVE  v[i] = w[i]
    <2>1. v[i] = r[i + 1] /\ i + 1 \in 1..(Len(x) + Len(y))
      BY <1>1, <1>4
    <2>2. CASE i <= Len(u)
      <3>1. i \in 1..Len(u) /\ i + 1 <= Len(x) /\ i \in 1..(Len(u) + Len(y))
        BY <1>1, <1>3, <1>4, <2>2
      <3> QED
        BY <1>1, <1>3, <1>5, <2>1, <2>2, <3>1
    <2>3. CASE ~ (i <= Len(u))
      <3>1. /\ ~ (i + 1 <= Len(x)) /\ i + 1 - Len(x) = i - Len(u)
            /\ i \in 1..(Len(u) + Len(y))
        BY <1>1, <1>3, <1>4, <2>3
      <3>2. r[i + 1] = y[i + 1 - Len(x)] /\ w[i] = y[i - Len(u)]
        BY <1>1, <1>5, <2>1, <2>3, <3>1
      <3> QED
        BY <2>1, <3>1, <3>2
    <2> QED
      BY <2>2, <2>3
  <1>8. v = w
    BY <1>4, <1>5, <1>6, <1>7, SeqEqual
  <1> QED
    BY <1>2, <1>8 DEF r, u, v, w

\* v is u with t between the tasks of the slots from s on and those of lower ones.
InsertedBetween(u, v, s, t) ==
    \E a, b \in Seq(Tasks) :
        /\ u = a \o b
        /\ v = (a \o << t >>) \o b
        /\ \A k \in 1..Len(a) : PSlot!SlotOf(a[k]) >= s
        /\ \A k \in 1..Len(b) : PSlot!SlotOf(b[k]) < s

\* A task behind those of its slot is behind all tasks of its slot and of
\* higher ones.
LEMMA PileInsert ==
    ASSUME NEW L, NEW U, Piled(L, U), AreRows(L), NEW K, NEW V, Piled(K, V),
           NEW s \in SlotNumbers, NEW t \in Tasks, K[s] = L[s] \o << t >>,
           \A r \in SlotNumbers : r # s => K[r] = L[r]
    PROVE  InsertedBetween(U[maxPrioritySlot], V[maxPrioritySlot], s, t)
  <1> DEFINE M == maxPrioritySlot
             Parts(m, a, b) == /\ U[m] = a \o b
                               /\ V[m] = (a \o << t >>) \o b
                               /\ \A k \in 1..Len(a) : PSlot!SlotOf(a[k]) >= s
                               /\ \A k \in 1..Len(b) : PSlot!SlotOf(b[k]) < s
             T == { m \in (s + 1)..M : \E a, b \in Seq(Tasks) : Parts(m, a, b) }
  <1>0. M \in Nat \ {0} /\ s \in Nat /\ s + 1 \in 0..M /\ s + 1 \in (s + 1)..M
        /\ s \in 0..M /\ M \in (s + 1)..M
    BY PolicyAssumption DEF SlotNumbers
  <1>1. s + 1 \in T
    <2>1. V[s] = U[s]
      BY <1>0, PileSame
    <2>2. /\ L[s] \in Seq(Tasks) /\ \A k \in 1..Len(L[s]) : PSlot!SlotOf(L[s][k]) = s
      BY DEF AreRows
    <2>3. U[s] \in Seq(Tasks) /\ \A k \in 1..Len(U[s]) : PSlot!SlotOf(U[s][k]) < s
      BY <1>0, PileType
    <2>4. U[s + 1] = L[s] \o U[s] /\ V[s + 1] = (L[s] \o << t >>) \o U[s]
      BY <2>1 DEF Piled
    <2>5. Parts(s + 1, L[s], U[s])
      BY <1>0, <2>2, <2>3, <2>4
    <2> QED
      BY <1>0, <2>2, <2>3, <2>5
  <1>2. ASSUME NEW m \in (s + 1)..M, m < M, m \in T
        PROVE  m + 1 \in T
    <2>1. m \in SlotNumbers /\ m + 1 \in (s + 1)..M /\ m # s /\ m >= s
      BY <1>0, <1>2 DEF SlotNumbers
    <2>2. PICK a \in Seq(Tasks), b \in Seq(Tasks) : Parts(m, a, b)
      BY <1>2
    <2>3. U[m + 1] = L[m] \o U[m] /\ V[m + 1] = L[m] \o V[m]
      BY <2>1 DEF Piled
    <2>4. /\ L[m] \in Seq(Tasks) /\ \A k \in 1..Len(L[m]) : PSlot!SlotOf(L[m][k]) = m
      BY <2>1 DEF AreRows
    <2> DEFINE c == L[m] \o a
    <2>a. \A x, y, z \in Seq(Tasks) : (x \o y) \o z = x \o (y \o z)
      BY ConcatAssociative, SMTT(30)
    <2>5. U[m + 1] = c \o b
      <3>1. (L[m] \o a) \o b = L[m] \o (a \o b)
        BY <2>4, <2>a, Zenon
      <3> QED
        BY <2>2, <2>3, <3>1
    <2>6. V[m + 1] = (c \o << t >>) \o b
      <3>1. << t >> \in Seq(Tasks) /\ a \o << t >> \in Seq(Tasks)
        OBVIOUS
      <3>2. L[m] \o ((a \o << t >>) \o b) = (L[m] \o (a \o << t >>)) \o b
        BY <2>4, <2>a, <3>1, Zenon
      <3>3. L[m] \o (a \o << t >>) = c \o << t >>
        BY <2>4, <2>a, <3>1, Zenon
      <3> QED
        BY <2>2, <2>3, <3>2, <3>3
    <2>7. c \in Seq(Tasks)
      BY <2>4
    <2>8. ASSUME NEW k \in 1..Len(c)
          PROVE  PSlot!SlotOf(c[k]) >= s
      <3>1. \/ \E j \in 1..Len(L[m]) : c[k] = L[m][j]
            \/ \E j \in 1..Len(a) : c[k] = a[j]
        BY <2>4, ConcatElements, Zenon
      <3> QED
        BY <2>1, <2>2, <2>4, <3>1
    <2> HIDE DEF c
    <2>9. Parts(m + 1, c, b)
      BY <2>2, <2>5, <2>6, <2>8
    <2> QED
      BY <2>1, <2>7, <2>9
  <1> HIDE DEF T
  <1>3. \A m \in (s + 1)..M : m \in T
    BY <1>0, <1>1, <1>2, Upward
  <1> QED
    BY <1>0, <1>3 DEF T, InsertedBetween

\* The first task of the highest slot that is not empty is the first of all.
LEMMA PilePop ==
    ASSUME NEW L, NEW U, Piled(L, U), AreRows(L), NEW K, NEW V, Piled(K, V),
           NEW s \in SlotNumbers, L[s] # << >>, K[s] = Tail(L[s]),
           \A r \in SlotNumbers : r # s => K[r] = L[r],
           \A r \in SlotNumbers : r > s => L[r] = << >>
    PROVE  /\ U[maxPrioritySlot] # << >>
           /\ Head(U[maxPrioritySlot]) = Head(L[s])
           /\ V[maxPrioritySlot] = Tail(U[maxPrioritySlot])
  <1> DEFINE M == maxPrioritySlot
             T == { m \in (s + 1)..M : U[m] = L[s] \o U[s] /\ V[m] = Tail(L[s]) \o U[s] }
  <1>0. M \in Nat \ {0} /\ s \in Nat /\ s + 1 \in 0..M /\ s + 1 \in (s + 1)..M
        /\ s \in 0..M /\ M \in (s + 1)..M
    BY PolicyAssumption DEF SlotNumbers
  <1>1. L[s] \in Seq(Tasks) /\ U[s] \in Seq(Tasks) /\ Tail(L[s]) \in Seq(Tasks)
    BY <1>0, PileType DEF AreRows
  <1>2. s + 1 \in T
    <2>1. V[s] = U[s]
      BY <1>0, PileSame
    <2> QED
      BY <1>0, <2>1 DEF Piled
  <1>3. ASSUME NEW m \in (s + 1)..M, m < M, m \in T
        PROVE  m + 1 \in T
    <2>1. m \in SlotNumbers /\ m + 1 \in (s + 1)..M /\ m # s /\ m > s
      BY <1>0, <1>3 DEF SlotNumbers
    <2>2. U[m + 1] = << >> \o U[m] /\ V[m + 1] = << >> \o V[m]
      BY <2>1 DEF Piled
    <2>3. U[m] = L[s] \o U[s] /\ V[m] = Tail(L[s]) \o U[s]
      BY <1>3
    <2>4. << >> \o U[m] = U[m] /\ << >> \o V[m] = V[m]
      <3>1. U[m] \in Seq(Tasks) /\ V[m] \in Seq(Tasks)
        BY <1>1, <2>3
      <3> QED
        BY <3>1, ConcatEmptySeq
    <2> QED
      BY <2>1, <2>2, <2>3, <2>4
  <1> HIDE DEF T
  <1>4. \A m \in (s + 1)..M : m \in T
    BY <1>0, <1>2, <1>3, Upward
  <1>5. U[M] = L[s] \o U[s] /\ V[M] = Tail(L[s]) \o U[s]
    BY <1>0, <1>4 DEF T
  <1> QED
    BY <1>1, <1>5, TailConcat

\* Without a task in a slot no task is in the pile.
LEMMA PileEmpty ==
    ASSUME NEW L, NEW U, Piled(L, U), \A s \in SlotNumbers : L[s] = << >>
    PROVE  U[maxPrioritySlot] = << >>
  <1> DEFINE M == maxPrioritySlot
             T == { m \in 0..M : U[m] = << >> }
  <1>0. M \in Nat \ {0} /\ M \in 0..M
    BY PolicyAssumption
  <1>1. 0 \in T
    BY <1>0 DEF Piled
  <1>2. ASSUME NEW m \in 0..M, m < M, m \in T
        PROVE  m + 1 \in T
    <2>1. m \in SlotNumbers /\ m + 1 \in 0..M
      BY <1>0, <1>2 DEF SlotNumbers
    <2>2. U[m + 1] = << >> \o << >>
      BY <1>2, <2>1 DEF Piled
    <2> QED
      BY <2>1, <2>2
  <1> HIDE DEF T
  <1>3. \A m \in 0..M : m \in T
    BY <1>0, <1>1, <1>2, Upward
  <1> QED
    BY <1>0, <1>3 DEF T


\* What the pointers of PSlot stand for: the list L[s] of each slot s, and the
\* highest slot with a task.
IsSlots(L, heads, tails, link, highest) ==
    /\ link \in Pointers
    /\ heads = [s \in SlotNumbers |-> heads[s]]
    /\ tails = [s \in SlotNumbers |-> tails[s]]
    /\ AreRows(L)
    /\ \A s \in SlotNumbers : IsFifo(L[s], heads[s], tails[s], link)
    /\ highest \in 0..maxPrioritySlot
    /\ \A s \in SlotNumbers : s > highest => L[s] = << >>
    /\ highest < maxPrioritySlot => L[highest] # << >>
    /\ highest = maxPrioritySlot => \A s \in SlotNumbers : L[s] = << >>

PSlotLinks(L) == IsSlots(L, head, tail, next, highestPriorSlot)

PSlotInv == policy = "pslot" => \E L : PSlotLinks(L)

\* With linked tasks in the slots the run queue is their pile.
LEMMA PSlotReads ==
    ASSUME policy = "pslot", NEW L
    PROVE  /\ PSlotLinks(L) => \E U : Piled(L, U) /\ Waiting = U[maxPrioritySlot]
           /\ policy' = "pslot" /\ PSlotLinks(L)'
                 => \E U : Piled(L, U) /\ Waiting' = U[maxPrioritySlot]
  <1>1. ASSUME NEW s, NEW first, NEW last, NEW link, IsFifo(s, first, last, link)
        PROVE  Chain(first, link, "null", Cardinality(Tasks)) = s
    BY <1>1, DistinctIsShort, ChainOfList DEF IsFifo
  <1>2. ASSUME NEW heads, NEW tails, NEW link, NEW highest,
               IsSlots(L, heads, tails, link, highest)
        PROVE  \E U : Piled(L, U) /\ PileOf(heads, link) = U[maxPrioritySlot]
    <2>1. ASSUME NEW s \in SlotNumbers
          PROVE  Chain(heads[s], link, "null", Cardinality(Tasks)) = L[s]
      BY <1>1, <1>2 DEF IsSlots
    <2> QED
      BY <2>1, PileOfLists
  <1>3. Waiting = PSlot!Waiting /\ (policy' = "pslot" => Waiting' = PSlot!Waiting')
    BY DEF Waiting
  <1>4. PSlotLinks(L) => \E U : Piled(L, U) /\ PileOf(head, next) = U[maxPrioritySlot]
    BY <1>2 DEF PSlotLinks
  <1>5. PSlotLinks(L)' => \E U : Piled(L, U) /\ PileOf(head', next') = U[maxPrioritySlot]
    BY <1>2 DEF PSlotLinks
  <1> QED
    BY <1>3, <1>4, <1>5, PSlotWaiting

\* The tasks of a slot have its number.
LEMMA SlotOfType ==
    ASSUME NEW t \in Tasks
    PROVE  PSlot!SlotOf(t) \in SlotNumbers
  BY PolicyAssumption DEF PSlot!SlotOf, SlotNumbers

\* A number below the highest priority slot is that of a slot.
LEMMA SlotRange ==
    ASSUME NEW s \in 0..maxPrioritySlot
    PROVE  s < maxPrioritySlot => s \in SlotNumbers
  BY PolicyAssumption DEF SlotNumbers

\* No task waits if and only if there is no highest slot.
LEMMA NoneWaits ==
    ASSUME NEW L, NEW U, Piled(L, U), NEW heads, NEW tails, NEW link,
           NEW highest, IsSlots(L, heads, tails, link, highest)
    PROVE  U[maxPrioritySlot] = << >> <=> highest = maxPrioritySlot
  <1>1. highest = maxPrioritySlot => U[maxPrioritySlot] = << >>
    BY PileEmpty DEF IsSlots
  <1>2. ASSUME highest # maxPrioritySlot
        PROVE  U[maxPrioritySlot] # << >>
    <2>1. highest \in SlotNumbers /\ L[highest] # << >>
      <3>1. highest \in 0..maxPrioritySlot /\ highest < maxPrioritySlot
        BY <1>2, PolicyAssumption DEF IsSlots
      <3> QED
        BY <3>1, SlotRange DEF IsSlots
    <2>2. AreRows(L) /\ L[highest] \in Seq(Tasks)
      BY <2>1 DEF IsSlots, AreRows
    <2>3. 1 \in 1..Len(L[highest])
      BY <2>1, <2>2
    <2>4. \E i \in 1..Len(U[maxPrioritySlot]) :
             U[maxPrioritySlot][i] = L[highest][1]
      BY <2>1, <2>2, <2>3, PileHas
    <2> QED
      BY <2>4
  <1> QED
    BY <1>1, <1>2

\* The pointers after t was put behind the tasks of its slot.
LEMMA SlotAppend ==
    ASSUME NEW L, NEW heads, NEW tails, NEW link, NEW highest,
           IsSlots(L, heads, tails, link, highest), NEW t \in Tasks,
           NEW s, s = PSlot!SlotOf(t), \A k \in 1..Len(L[s]) : L[s][k] # t
    PROVE  IsSlots([r \in SlotNumbers |-> IF r = s THEN L[s] \o << t >> ELSE L[r]],
                   IF heads[s] = "null" THEN [heads EXCEPT ![s] = t] ELSE heads,
                   [tails EXCEPT ![s] = t],
                   LinkedLast(heads[s], tails[s], link, t),
                   IF highest = maxPrioritySlot \/ s > highest THEN s ELSE highest)
  <1> DEFINE K == [r \in SlotNumbers |-> IF r = s THEN L[s] \o << t >> ELSE L[r]]
             heads1 == IF heads[s] = "null" THEN [heads EXCEPT ![s] = t] ELSE heads
             tails1 == [tails EXCEPT ![s] = t]
             link1 == LinkedLast(heads[s], tails[s], link, t)
             highest1 == IF highest = maxPrioritySlot \/ s > highest THEN s ELSE highest
  <1>0. /\ link \in Pointers /\ AreRows(L) /\ s \in SlotNumbers
        /\ IsFifo(L[s], heads[s], tails[s], link)
        /\ heads = [r \in SlotNumbers |-> heads[r]]
        /\ tails = [r \in SlotNumbers |-> tails[r]]
    BY SlotOfType DEF IsSlots
  <1>1. /\ IsFifo(L[s] \o << t >>, FirstOf(heads[s], t), t, link1)
        /\ link1 \in Pointers
        /\ \A x \in Tasks : x # t /\ (\A k \in 1..Len(L[s]) : L[s][k] # x)
              => link1[x] = link[x]
    <2>1. ASSUME NEW q, q = L[s], NEW first, first = heads[s], NEW last, last = tails[s]
          PROVE  LET link2 == LinkedLast(first, last, link, t) IN
                 /\ IsFifo(q \o << t >>, FirstOf(first, t), t, link2)
                 /\ link2 \in Pointers
                 /\ \A x \in Tasks : x # t /\ (\A k \in 1..Len(q) : q[k] # x)
                       => link2[x] = link[x]
      <3>1. IsFifo(q, first, last, link) /\ \A k \in 1..Len(q) : q[k] # t
        BY <1>0, <2>1
      <3> QED
        BY <1>0, <3>1, FifoAppend
    <2> QED
      BY <2>1
  <1> HIDE DEF link1
  <1>2. /\ heads1 = [r \in SlotNumbers |-> heads1[r]]
        /\ tails1 = [r \in SlotNumbers |-> tails1[r]]
        /\ heads1[s] = FirstOf(heads[s], t) /\ tails1[s] = t
        /\ \A r \in SlotNumbers : r # s => heads1[r] = heads[r] /\ tails1[r] = tails[r]
    BY <1>0 DEF FirstOf
  <1> HIDE DEF heads1, tails1
  <1>3. K[s] = L[s] \o << t >> /\ \A r \in SlotNumbers : r # s => K[r] = L[r]
    BY <1>0
  <1> HIDE DEF K
  <1>4. AreRows(K)
    <2> SUFFICES ASSUME NEW r \in SlotNumbers
                 PROVE  K[r] \in Seq(Tasks)
                        /\ \A k \in 1..Len(K[r]) : PSlot!SlotOf(K[r][k]) = r
      BY DEF AreRows
    <2>1. CASE r # s
      BY <1>0, <1>3, <2>1 DEF AreRows
    <2>2. CASE r = s
      <3>1. L[s] \in Seq(Tasks) /\ \A k \in 1..Len(L[s]) : PSlot!SlotOf(L[s][k]) = s
        BY <1>0 DEF AreRows
      <3>2. << t >> \in Seq(Tasks) /\ \A k \in 1..Len(<< t >>) : PSlot!SlotOf(<< t >>[k]) = s
        OBVIOUS
      <3> DEFINE q == L[s] \o << t >>
      <3>3. q \in Seq(Tasks)
        BY <3>1, <3>2
      <3>4. ASSUME NEW k \in 1..Len(q)
            PROVE  \/ \E j \in 1..Len(L[s]) : q[k] = L[s][j]
                   \/ \E j \in 1..Len(<< t >>) : q[k] = << t >>[j]
        BY <3>1, <3>2, ConcatElements
      <3> HIDE DEF q
      <3>5. \A k \in 1..Len(q) : PSlot!SlotOf(q[k]) = s
        BY <3>1, <3>2, <3>4
      <3>6. K[r] = q
        BY <1>3, <2>2 DEF q
      <3> QED
        BY <2>2, <3>3, <3>5, <3>6
    <2> QED
      BY <2>1, <2>2
  <1>5. ASSUME NEW r \in SlotNumbers
        PROVE  IsFifo(K[r], heads1[r], tails1[r], link1)
    <2>1. CASE r = s
      BY <1>1, <1>2, <1>3, <2>1
    <2>2. CASE r # s
      <3>1. /\ IsFifo(L[r], heads[r], tails[r], link) /\ L[r] \in Seq(Tasks)
            /\ \A k \in 1..Len(L[r]) : L[r][k] \in Tasks /\ PSlot!SlotOf(L[r][k]) = r
            /\ \A k \in 1..Len(L[s]) : PSlot!SlotOf(L[s][k]) = s
        BY <1>0 DEF IsSlots, AreRows
      <3>2. \A k \in 1..Len(L[r]) : link1[L[r][k]] = link[L[r][k]]
        BY <1>1, <2>2, <3>1
      <3>3. IsFifo(L[r], heads[r], tails[r], link1)
        BY <3>1, <3>2 DEF IsFifo, IsList
      <3> QED
        BY <1>2, <1>3, <2>2, <3>3
    <2> QED
      BY <2>1, <2>2
  <1>6. K[s] # << >>
    <2>1. L[s] \in Seq(Tasks)
      BY <1>0 DEF AreRows
    <2> QED
      BY <1>3, <2>1
  <1>7. /\ highest1 \in 0..maxPrioritySlot
        /\ \A r \in SlotNumbers : r > highest1 => K[r] = << >>
        /\ highest1 < maxPrioritySlot => K[highest1] # << >>
        /\ highest1 = maxPrioritySlot => \A r \in SlotNumbers : K[r] = << >>
    <2>0. /\ maxPrioritySlot \in Nat /\ s \in 0..maxPrioritySlot /\ s < maxPrioritySlot
          /\ SlotNumbers \subseteq Nat
      BY <1>0, PolicyAssumption DEF SlotNumbers
    <2>1. /\ highest \in 0..maxPrioritySlot
          /\ \A r \in SlotNumbers : r > highest => L[r] = << >>
          /\ highest < maxPrioritySlot => L[highest] # << >>
          /\ highest = maxPrioritySlot => \A r \in SlotNumbers : L[r] = << >>
      BY DEF IsSlots
    <2>2. CASE highest = maxPrioritySlot \/ s > highest
      BY <1>3, <1>6, <2>0, <2>1, <2>2
    <2>3. CASE ~ (highest = maxPrioritySlot \/ s > highest)
      <3>1. highest < maxPrioritySlot /\ highest1 = highest /\ s <= highest
            /\ highest \in SlotNumbers
        BY <2>0, <2>1, <2>3, SlotRange
      <3>2. K[highest] # << >>
        BY <1>3, <1>6, <2>1, <3>1
      <3>3. ASSUME NEW r \in SlotNumbers, r > highest
            PROVE  K[r] = << >>
        BY <1>3, <2>0, <2>1, <3>1, <3>3
      <3> QED
        BY <2>1, <3>1, <3>2, <3>3
    <2> QED
      BY <2>2, <2>3
  <1> HIDE DEF highest1
  <1>8. IsSlots(K, heads1, tails1, link1, highest1)
    BY <1>1, <1>2, <1>4, <1>5, <1>7 DEF IsSlots
  <1> QED
    BY <1>8 DEF K, heads1, tails1, link1, highest1


\* Each set of numbers up to n that is not empty has a greatest one.
LEMMA GreatestNumber ==
    ASSUME NEW n \in Nat, NEW T \in SUBSET (0..n), T # {}
    PROVE  \E x \in T : \A y \in T : x >= y
  <1> DEFINE D == { d \in 0..n : n - d \in T }
  <1>1. D \in SUBSET Nat /\ D # {}
    <2>1. PICK x \in T : TRUE
      OBVIOUS
    <2>2. n - x \in 0..n /\ n - (n - x) = x
      OBVIOUS
    <2>3. n - x \in D
      BY <2>1, <2>2
    <2>4. D \in SUBSET Nat
      OBVIOUS
    <2> HIDE DEF D
    <2> QED
      BY <2>3, <2>4
  <1>2. PICK d \in D : \A y \in D : d <= y
    BY <1>1, LeastNumber
  <1>3. n - d \in T /\ d \in 0..n
    OBVIOUS
  <1>4. ASSUME NEW y \in T
        PROVE  n - d >= y
    <2>1. n - y \in 0..n /\ n - (n - y) = y /\ y \in 0..n
      OBVIOUS
    <2>2. n - y \in D
      BY <2>1
    <2>3. d <= n - y
      BY <1>2, <2>2
    <2> QED
      BY <1>3, <2>1, <2>3
  <1> QED
    BY <1>3, <1>4

\* The lists and the pointers after the first task of slot s was taken.
WithoutFirst(L, s) == [r \in SlotNumbers |-> IF r = s THEN Tail(L[s]) ELSE L[r]]
HeadsAfter(heads, link, s) == [heads EXCEPT ![s] = link[heads[s]]]
TailsAfter(heads, tails, link, s) ==
    IF link[heads[s]] = "null" THEN [tails EXCEPT ![s] = "null"] ELSE tails

\* The highest slot is searched from there on.
LEMMA SlotPop ==
    ASSUME NEW L, NEW heads, NEW tails, NEW link, NEW s,
           IsSlots(L, heads, tails, link, s), s < maxPrioritySlot
    PROVE  /\ IsSlots(WithoutFirst(L, s), HeadsAfter(heads, link, s),
                      TailsAfter(heads, tails, link, s), link,
                      PSlot!HighestOccupied(s, HeadsAfter(heads, link, s)))
           /\ L[s] # << >> /\ heads[s] = Head(L[s])
  <1> DEFINE heads1 == [heads EXCEPT ![s] = link[heads[s]]]
             tails1 == IF link[heads[s]] = "null"
                       THEN [tails EXCEPT ![s] = "null"] ELSE tails
             K == [r \in SlotNumbers |-> IF r = s THEN Tail(L[s]) ELSE L[r]]
             highest1 == PSlot!HighestOccupied(s, heads1)
  <1>0. /\ link \in Pointers /\ AreRows(L) /\ s \in SlotNumbers /\ L[s] # << >>
        /\ s \in Nat
        /\ maxPrioritySlot \in Nat /\ SlotNumbers = 0..(maxPrioritySlot - 1)
        /\ heads = [r \in SlotNumbers |-> heads[r]]
        /\ tails = [r \in SlotNumbers |-> tails[r]]
        /\ \A r \in SlotNumbers : r > s => L[r] = << >>
        /\ \A r \in SlotNumbers : IsFifo(L[r], heads[r], tails[r], link)
    <2>1. s \in SlotNumbers
      BY SlotRange DEF IsSlots
    <2> QED
      BY <2>1, PolicyAssumption DEF IsSlots, SlotNumbers
  <1>1. IsFifo(Tail(L[s]), link[heads[s]], tails1[s], link) /\ heads[s] = Head(L[s])
    <2>1. IsFifo(L[s], heads[s], tails[s], link)
      BY <1>0
    <2>2. link[heads[s]] # "null" => tails1[s] = tails[s]
      OBVIOUS
    <2> HIDE DEF tails1
    <2>3. \A q, first, last, last1 :
             IsFifo(q, first, last, link) /\ q # << >>
             /\ (link[first] # "null" => last1 = last)
             => IsFifo(Tail(q), link[first], last1, link) /\ first = Head(q)
      BY FifoPop
    <2> QED
      BY <1>0, <2>1, <2>2, <2>3, Zenon
  <1>2. /\ heads1 = [r \in SlotNumbers |-> heads1[r]]
        /\ tails1 = [r \in SlotNumbers |-> tails1[r]]
        /\ heads1[s] = link[heads[s]]
        /\ \A r \in SlotNumbers : r # s => heads1[r] = heads[r] /\ tails1[r] = tails[r]
    BY <1>0
  <1>3. K[s] = Tail(L[s]) /\ \A r \in SlotNumbers : r # s => K[r] = L[r]
    BY <1>0
  <1> HIDE DEF K, heads1, tails1
  <1>4. ASSUME NEW r \in SlotNumbers
        PROVE  IsFifo(K[r], heads1[r], tails1[r], link)
    BY <1>0, <1>1, <1>2, <1>3
  <1>5. AreRows(K)
    <2> SUFFICES ASSUME NEW r \in SlotNumbers
                 PROVE  K[r] \in Seq(Tasks)
                        /\ \A k \in 1..Len(K[r]) : PSlot!SlotOf(K[r][k]) = r
      BY DEF AreRows
    <2>1. CASE r # s
      BY <1>0, <1>3, <2>1 DEF AreRows
    <2>2. CASE r = s
      <3>1. L[s] \in Seq(Tasks) /\ \A k \in 1..Len(L[s]) : PSlot!SlotOf(L[s][k]) = s
        BY <1>0 DEF AreRows
      <3> DEFINE q == Tail(L[s])
      <3>2. q \in Seq(Tasks) /\ Len(q) = Len(L[s]) - 1
            /\ \A k \in 1..Len(q) : q[k] = L[s][k + 1]
        BY <1>0, <3>1, HeadTailProperties
      <3>3. Len(L[s]) \in Nat
        BY <3>1
      <3> HIDE DEF q
      <3>4. \A k \in 1..Len(q) : PSlot!SlotOf(q[k]) = s
        BY <3>1, <3>2, <3>3
      <3>5. K[r] = q
        BY <1>3, <2>2 DEF q
      <3> QED
        BY <2>2, <3>2, <3>4, <3>5
    <2> QED
      BY <2>1, <2>2
  <1>6. \A r \in SlotNumbers : heads1[r] = "null" <=> K[r] = << >>
    <2>1. \A q, first, last : IsFifo(q, first, last, link)
                                 => (first = "null" <=> q = << >>)
      BY ListHead DEF IsFifo
    <2> QED
      BY <1>4, <2>1
  <1> DEFINE occupied == { r \in 0..s : heads1[r] # "null" }
  <1>7. highest1 = IF occupied = {} THEN maxPrioritySlot ELSE PSlot!Max(occupied)
    BY DEF PSlot!HighestOccupied, PSlot!Null
  <1>8. occupied \in SUBSET (0..s)
        /\ \A r \in SlotNumbers : r \notin occupied => K[r] = << >>
    <2>1. \A r \in SlotNumbers : r > s => K[r] = << >>
      BY <1>0, <1>3
    <2>2. \A r \in SlotNumbers : ~ (r > s) => r \in 0..s
      BY <1>0
    <2> QED
      BY <1>6, <2>1, <2>2
  <1>9. \A r \in occupied : r \in SlotNumbers /\ K[r] # << >>
    <2>1. \A r \in 0..s : r \in SlotNumbers
      BY <1>0
    <2> QED
      BY <1>6, <2>1
  <1> HIDE DEF occupied, highest1
  <1>10. /\ highest1 \in 0..maxPrioritySlot
         /\ \A r \in SlotNumbers : r > highest1 => K[r] = << >>
         /\ highest1 < maxPrioritySlot => K[highest1] # << >>
         /\ highest1 = maxPrioritySlot => \A r \in SlotNumbers : K[r] = << >>
    <2>1. CASE occupied = {}
      BY <1>0, <1>7, <1>8, <2>1
    <2>2. CASE occupied # {}
      <3>1. highest1 \in occupied /\ \A y \in occupied : highest1 >= y
        <4>1. \E x \in occupied : \A y \in occupied : x >= y
          BY <1>0, <1>8, <2>2, GreatestNumber
        <4> QED
          BY <1>7, <2>2, <4>1 DEF PSlot!Max
      <3>2. highest1 \in SlotNumbers /\ K[highest1] # << >>
        BY <1>9, <3>1
      <3>3. highest1 \in 0..maxPrioritySlot /\ highest1 < maxPrioritySlot
        BY <1>0, <3>2
      <3>4. ASSUME NEW r \in SlotNumbers, r > highest1
            PROVE  K[r] = << >>
        <4>1. r \notin occupied
          BY <1>0, <3>1, <3>3, <3>4
        <4> QED
          BY <1>8, <4>1
      <3>5. highest1 # maxPrioritySlot
        BY <1>0, <3>3
      <3> QED
        BY <3>2, <3>3, <3>4, <3>5
    <2> QED
      BY <2>1, <2>2
  <1>11. IsSlots(K, heads1, tails1, link, highest1)
    BY <1>0, <1>2, <1>4, <1>5, <1>10 DEF IsSlots
  <1> QED
    BY <1>0, <1>1, <1>11 DEF K, highest1, heads1, tails1, WithoutFirst,
         HeadsAfter, TailsAfter


\* Each operation of PSlot is one of the run queue.
LEMMA PSlotStep ==
    ASSUME policy = "pslot", policy' = "pslot", NEW L, PSlotLinks(L), PSlot!Next
    PROVE  Order!Next /\ PSlotInv'
  <1> DEFINE M == maxPrioritySlot
  <1>0. /\ IsSlots(L, head, tail, next, highestPriorSlot) /\ AreRows(L)
        /\ policy \in Policies /\ policy' = policy
        /\ M \in Nat /\ M \in 0..M /\ highestPriorSlot \in 0..M
    BY PolicyAssumption DEF PSlotLinks, IsSlots, Policies
  <1>1. PICK U : Piled(L, U) /\ Waiting = U[M]
    BY PSlotReads
  <1>2. U[M] \in Seq(Tasks) /\ PSlot!Waiting = U[M]
    BY <1>0, <1>1, PileType DEF Waiting
  <1>3. U[M] = << >> <=> highestPriorSlot = M
    BY <1>0, <1>1, NoneWaits
  <1>4. \A x \in Tasks : Rank[x] = PSlot!SlotOf(x)
    BY DEF Rank
  <1>5. ASSUME NEW t \in Tasks, PSlot!Queue(t)
        PROVE  Order!Next /\ PSlotInv'
    <2> DEFINE s == PSlot!SlotOf(t)
    <2>0. s \in SlotNumbers
      BY SlotOfType
    <2>1. /\ t \notin PSlot!Range(U[M])
          /\ wasEmpty' = (highestPriorSlot = M)
          /\ highestPriorSlot' = IF highestPriorSlot = M \/ s > highestPriorSlot
                                 THEN s ELSE highestPriorSlot
          /\ head' = IF head[s] = "null" THEN [head EXCEPT ![s] = t] ELSE head
          /\ next' = IF head[s] = "null" THEN [next EXCEPT ![t] = "null"]
                                     ELSE [next EXCEPT ![t] = "null", ![tail[s]] = t]
          /\ tail' = [tail EXCEPT ![s] = t]
          /\ got' = got
      BY <1>2, <1>5, Zenon DEF PSlot!Queue, PSlot!Null
    <2>a. next' = LinkedLast(head[s], tail[s], next, t)
      BY <2>1, Zenon DEF LinkedLast
    <2> HIDE DEF s
    <2>2. \A i \in 1..Len(U[M]) : U[M][i] # t
      <3>1. DOMAIN U[M] = 1..Len(U[M])
        BY <1>2
      <3> QED
        BY <2>1, <3>1 DEF PSlot!Range
    <2>3. \A k \in 1..Len(L[s]) : L[s][k] # t
      BY <1>0, <1>1, <2>0, <2>2, PileHas
    <2> DEFINE K == [r \in SlotNumbers |-> IF r = s THEN L[s] \o << t >> ELSE L[r]]
    <2>4. PSlotLinks(K)'
      <3>1. IsSlots(K, IF head[s] = "null" THEN [head EXCEPT ![s] = t] ELSE head,
                    [tail EXCEPT ![s] = t],
                    LinkedLast(head[s], tail[s], next, t),
                    IF highestPriorSlot = M \/ s > highestPriorSlot
                    THEN s ELSE highestPriorSlot)
        <4>1. s = PSlot!SlotOf(t)
          BY DEF s
        <4> QED
          BY <1>0, <2>3, <4>1, SlotAppend, SMTT(30)
      <3> HIDE DEF K
      <3>2. IsSlots(K, head', tail', next', highestPriorSlot')
        BY <2>1, <2>a, <3>1, Zenon
      <3> QED
        BY <3>2 DEF PSlotLinks
    <2>5. K[s] = L[s] \o << t >> /\ \A r \in SlotNumbers : r # s => K[r] = L[r]
      BY <2>0
    <2> HIDE DEF K
    <2>6. PICK V : Piled(K, V) /\ Waiting' = V[M]
      BY <2>4, PSlotReads
    <2>7. PICK a \in Seq(Tasks), b \in Seq(Tasks) :
             /\ U[M] = a \o b
             /\ V[M] = (a \o << t >>) \o b
             /\ \A k \in 1..Len(a) : PSlot!SlotOf(a[k]) >= s
             /\ \A k \in 1..Len(b) : PSlot!SlotOf(b[k]) < s
      <3>1. Piled(L, U) /\ AreRows(L) /\ Piled(K, V)
        BY <1>0, <1>1, <2>6
      <3> QED
        <4>1. InsertedBetween(U[M], V[M], s, t)
          BY <2>0, <2>5, <3>1, PileInsert
        <4> QED
          BY <4>1 DEF InsertedBetween
    <2>8. /\ \A k \in 1..Len(a) : Rank[a[k]] >= Rank[t]
          /\ \A k \in 1..Len(b) : Rank[b[k]] < Rank[t]
      BY <1>4, <2>7 DEF s
    <2>9. \A k \in 1..(Len(a) + Len(b)) : (a \o b)[k] # t
      <3>1. Len(a \o b) = Len(a) + Len(b)
        BY ConcatProperties
      <3> QED
        BY <2>2, <2>7, <3>1
    <2>10. wasEmpty' = (a \o b = << >>)
      <3>1. (highestPriorSlot = M) <=> (a \o b = << >>)
        BY <1>3, <2>7
      <3>2. wasEmpty' = (highestPriorSlot = M)
        BY <2>1
      <3> QED
        BY <3>1, <3>2, Zenon
    <2>11. Waiting = a \o b /\ Waiting' = (a \o << t >>) \o b /\ got' = got
      BY <1>1, <2>1, <2>6, <2>7
    <2>12. Order!Next
      BY <1>0, <2>8, <2>9, <2>10, <2>11, QueueMaps
    <2> QED
      BY <2>4, <2>12 DEF PSlotInv
  <1>6. ASSUME PSlot!NextTask
        PROVE  Order!Next /\ PSlotInv'
    <2>1. CASE highestPriorSlot = M
      <3>1. /\ got' = "null"
            /\ head' = head /\ tail' = tail /\ next' = next
            /\ highestPriorSlot' = highestPriorSlot /\ wasEmpty' = wasEmpty
        BY <1>0, <1>6, <2>1 DEF PSlot!NextTask, PSlot!Null
      <3>2. PSlotLinks(L)'
        BY <1>0, <3>1 DEF PSlotLinks
      <3>3. PICK V : Piled(L, V) /\ Waiting' = V[M]
        BY <3>2, PSlotReads
      <3>4. V[M] = << >> /\ U[M] = << >>
        BY <1>0, <1>1, <1>3, <2>1, <3>3, NoneWaits
      <3>5. Order!Next
        BY <1>0, <1>1, <3>1, <3>3, <3>4, NextTaskMaps
      <3> QED
        BY <3>2, <3>5 DEF PSlotInv
    <2>2. CASE highestPriorSlot # M
      <3>s. PICK s \in SlotNumbers : s = highestPriorSlot /\ s < M
        <4>1. highestPriorSlot < M /\ highestPriorSlot \in SlotNumbers
          BY <1>0, <2>2, SlotRange
        <4> QED
          BY <4>1
      <3> DEFINE K == WithoutFirst(L, s)
      <3>1. /\ got' = head[s]
            /\ head' = [head EXCEPT ![s] = next[head[s]]]
            /\ tail' = IF next[head[s]] = "null" THEN [tail EXCEPT ![s] = "null"] ELSE tail
            /\ highestPriorSlot' = PSlot!HighestOccupied(s, head')
            /\ next' = next /\ wasEmpty' = wasEmpty
        <4>1. highestPriorSlot # M
          BY <2>2
        <4> QED
          BY <1>6, <3>s, <4>1, Zenon DEF PSlot!NextTask, PSlot!Null
      <3>2. IsSlots(L, head, tail, next, s) /\ s < M
        BY <1>0, <3>s
      <3>3. /\ IsSlots(K, head', tail', next, PSlot!HighestOccupied(s, head'))
            /\ L[s] # << >> /\ head[s] = Head(L[s])
        <4>1. /\ IsSlots(WithoutFirst(L, s), HeadsAfter(head, next, s),
                        TailsAfter(head, tail, next, s), next,
                        PSlot!HighestOccupied(s, HeadsAfter(head, next, s)))
              /\ L[s] # << >> /\ head[s] = Head(L[s])
          BY <3>2, SlotPop
        <4>2. head' = HeadsAfter(head, next, s) /\ tail' = TailsAfter(head, tail, next, s)
          BY <3>1 DEF HeadsAfter, TailsAfter
        <4> QED
          BY <4>1, <4>2
      <3>4. K[s] = Tail(L[s]) /\ \A r \in SlotNumbers : r # s => K[r] = L[r]
        BY DEF WithoutFirst
      <3> HIDE DEF K
      <3>5. PSlotLinks(K)'
        BY <3>1, <3>3 DEF PSlotLinks
      <3>6. PICK V : Piled(K, V) /\ Waiting' = V[M]
        BY <3>5, PSlotReads
      <3>7. \A r \in SlotNumbers : r > s => L[r] = << >>
        BY <3>2 DEF IsSlots
      <3>8. U[M] # << >> /\ Head(U[M]) = Head(L[s]) /\ V[M] = Tail(U[M])
        BY <1>0, <1>1, <3>3, <3>4, <3>6, <3>7, PilePop
      <3>9. Order!Next
        BY <1>0, <1>1, <3>1, <3>3, <3>6, <3>8, NextTaskMaps
      <3> QED
        BY <3>5, <3>9 DEF PSlotInv
    <2> QED
      BY <2>1, <2>2
  <1> QED
    BY <1>5, <1>6 DEF PSlot!Next


-----------------------------------------------------------------------------
(* All policies.                                                           *)

\* The pointers of the policy in use stand for lists of tasks.
PolicyInv == policy \in Policies /\ FifoInv /\ PriorityInv /\ PSlotInv

\* At first nothing is linked, and the run queue is empty.
LEMMA PolicyInit == Init => PolicyInv /\ Order!Init
  <1> SUFFICES ASSUME Init
               PROVE  PolicyInv /\ Order!Init
    OBVIOUS
  <1>0. << >> \in Seq(Tasks) /\ Len(<< >>) = 0 /\ Distinct(<< >>) /\ Sorted(<< >>)
        /\ (\A link : IsList(<< >>, "null", link))
        /\ [t \in Tasks |-> "null"] \in Pointers
    BY DEF Distinct, Sorted, IsList, Pointers
  <1>1. CASE policy = "fifo" /\ Fifo!Init
    <2>1. head = "null" /\ next = [t \in Tasks |-> "null"] /\ wasEmpty = TRUE /\ got = "null"
      BY <1>1 DEF Fifo!Init, Fifo!Null
    <2>2. FifoLinks(<< >>)
      BY <1>0, <2>1 DEF FifoLinks, IsFifo
    <2>3. Waiting = << >>
      BY <1>1, <2>2, FifoReads
    <2>4. policy \in Policies /\ Rank \in [Tasks -> Nat]
      BY <1>1, RankType DEF Policies
    <2> QED
      BY <1>1, <2>1, <2>2, <2>3, <2>4
         DEF PolicyInv, FifoInv, PriorityInv, PSlotInv, Order!Init, Order!Null
  <1>2. CASE policy = "priority" /\ ByPriority!Init
    <2>1. head = "null" /\ next = [t \in Tasks |-> "null"] /\ wasEmpty = TRUE /\ got = "null"
      BY <1>2 DEF ByPriority!Init, ByPriority!Null
    <2>2. PriorityLinks(<< >>)
      BY <1>0, <2>1 DEF PriorityLinks, IsSortedList
    <2>3. Waiting = << >>
      BY <1>2, <2>2, PriorityReads
    <2>4. policy \in Policies /\ Rank \in [Tasks -> Nat]
      BY <1>2, RankType DEF Policies
    <2> QED
      BY <1>2, <2>1, <2>2, <2>3, <2>4
         DEF PolicyInv, FifoInv, PriorityInv, PSlotInv, Order!Init, Order!Null
  <1>3. CASE policy = "pslot" /\ PSlot!Init
    <2> DEFINE L == [s \in SlotNumbers |-> << >>]
    <2>1. /\ head = [s \in SlotNumbers |-> "null"] /\ tail = [s \in SlotNumbers |-> "null"]
          /\ next = [t \in Tasks |-> "null"] /\ wasEmpty = TRUE /\ got = "null"
          /\ highestPriorSlot = maxPrioritySlot
      BY <1>3 DEF PSlot!Init, PSlot!Null, PSlot!Slots, SlotNumbers
    <2>2. maxPrioritySlot \in 0..maxPrioritySlot /\ ~ (maxPrioritySlot < maxPrioritySlot)
      BY PolicyAssumption
    <2>3. \A s \in SlotNumbers : L[s] = << >> /\ head[s] = "null"
      BY <2>1
    <2> HIDE DEF L
    <2>4. AreRows(L)
      <3>1. ASSUME NEW s \in SlotNumbers
            PROVE  L[s] \in Seq(Tasks) /\ Len(L[s]) = 0
        BY <1>0, <2>3
      <3> QED
        BY <3>1 DEF AreRows
    <2>5. \A s \in SlotNumbers : IsFifo(L[s], head[s], tail[s], next)
      BY <1>0, <2>3 DEF IsFifo
    <2>6. PSlotLinks(L)
      <3>1. head = [s \in SlotNumbers |-> head[s]] /\ tail = [s \in SlotNumbers |-> tail[s]]
        BY <2>1
      <3> QED
        BY <1>0, <2>1, <2>2, <2>3, <2>4, <2>5, <3>1 DEF PSlotLinks, IsSlots
    <2>7. PICK U : Piled(L, U) /\ Waiting = U[maxPrioritySlot]
      BY <1>3, <2>6, PSlotReads
    <2>8. Waiting = << >>
      BY <2>3, <2>7, PileEmpty
    <2>9. policy \in Policies /\ Rank \in [Tasks -> Nat]
      BY <1>3, RankType DEF Policies
    <2> QED
      BY <1>3, <2>1, <2>6, <2>8, <2>9
         DEF PolicyInv, FifoInv, PriorityInv, PSlotInv, Order!Init, Order!Null
  <1> QED
    BY <1>1, <1>2, <1>3 DEF Init

\* Each step is one of the run queue or leaves it alone.
LEMMA PolicyStep == PolicyInv /\ [Next]_vars => PolicyInv' /\ [Order!Next]_(Order!vars)
  <1> SUFFICES ASSUME PolicyInv, [Next]_vars
               PROVE  PolicyInv' /\ [Order!Next]_(Order!vars)
    OBVIOUS
  <1>0. policy \in Policies /\ policy' = policy
    BY DEF PolicyInv, Next, vars
  <1>1. CASE UNCHANGED vars
    <2>0. UNCHANGED << policy, head, tail, next, highestPriorSlot, wasEmpty, got >>
      BY <1>1 DEF vars
    <2>1. PolicyInv'
      BY <2>0 DEF PolicyInv, FifoInv, PriorityInv, PSlotInv, FifoLinks,
                  PriorityLinks, PSlotLinks
    <2>2. Rank' = Rank
      BY <1>0, RankKept
    <2>3. Waiting' = Waiting
      BY <1>0, <2>0, FifoWaiting, PriorityWaiting, PSlotWaiting DEF Waiting, Policies
    <2> QED
      BY <2>0, <2>1, <2>2, <2>3 DEF Order!vars
  <1>2. CASE policy = "fifo" /\ Fifo!Next
    <2>1. Order!Next /\ FifoInv'
      BY <1>0, <1>2, FifoStep DEF PolicyInv, FifoInv
    <2> QED
      BY <1>0, <1>2, <2>1 DEF PolicyInv, PriorityInv, PSlotInv
  <1>3. CASE policy = "priority" /\ ByPriority!Next
    <2>1. Order!Next /\ PriorityInv'
      BY <1>0, <1>3, PriorityStep DEF PolicyInv, PriorityInv
    <2> QED
      BY <1>0, <1>3, <2>1 DEF PolicyInv, FifoInv, PSlotInv
  <1>4. CASE policy = "pslot" /\ PSlot!Next
    <2>1. Order!Next /\ PSlotInv'
      BY <1>0, <1>4, PSlotStep DEF PolicyInv, PSlotInv
    <2> QED
      BY <1>0, <1>4, <2>1 DEF PolicyInv, FifoInv, PriorityInv
  <1> QED
    BY <1>1, <1>2, <1>3, <1>4 DEF Next

\* Whatever stale pointers are left in the tasks, each policy delivers each
\* queued task once and in its order, and nullptr exactly when none waits, and
\* queue tells when the run queue was empty: the pointers that queue and
\* nextTask of the policies change stand for the abstract run queue, for any
\* tasks, priorities and number of slots.
THEOREM PoliciesImplementRunQueue == Spec => ImplementsRunQueue
  <1>1. Init => PolicyInv /\ Order!Init
    BY PolicyInit
  <1>2. PolicyInv /\ [Next]_vars => PolicyInv' /\ [Order!Next]_(Order!vars)
    BY PolicyStep
  <1> QED
    BY <1>1, <1>2, PTL DEF Spec, ImplementsRunQueue, Order!Spec


=============================================================================
