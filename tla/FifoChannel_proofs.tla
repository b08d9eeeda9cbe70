-------------------------- MODULE FifoChannel_proofs --------------------------
(***************************************************************************)
(* Proofs that the fifo channel loses none of its elements, that no        *)
(* pointer of a reader dangles, that a reader finds in the list the        *)
(* elements which the counters of its input announce, so that synchronize  *)
(* never walks behind its end, and that the channel is a mailbox for each  *)
(* of its consumers (Mailboxes), for every number of elements and readers. *)
(* Most of this ends with `broken' (README, section 5): what is proved of  *)
(* all states is the part of the invariant that does not need it.          *)
(***************************************************************************)
EXTENDS MCFifoChannel, FiniteSetTheorems, WellFoundedInduction, TLAPS

\* The groups of variables in UNCHANGED.
USE DEF listVars, readerVars, windowVars, pushVars, inputVars, taskVars

-----------------------------------------------------------------------------
(* The inductive invariant.                                                *)

\* A push has an element.
PushPlace ==
    /\ push = "taken" => writer \in Elements
    /\ push \in {"idle", "linked"} => writer = Null

\* The serial numbers order the list.
Numbered ==
    /\ \A e \in fifo : serial[e] <= sent
    /\ \A e, f \in fifo : serial[e] = serial[f] => e = f

\* Each associated reader has a bit of its own.
Registered ==
    /\ associated = {} => mask = {0}
    /\ \A r \in associated : bit[r] \in mask
    /\ \A r, s \in associated : bit[r] = bit[s] => r = s

\* A reader has read a beginning of the list, and the elements it may pop
\* begin with the first one it has not read.
InOrder(r) ==
    /\ \A e \in popped[r] : e \in fifo /\ bit[r] \in expects[e]
    /\ \A e \in fifo, f \in Unread(r) : e \in Unread(r) \/ serial[e] < serial[f]
    /\ first[r] # Null =>
          /\ first[r] \in Unread(r) /\ last[r] \in Unread(r)
          /\ serial[first[r]] <= serial[last[r]]
          /\ \A e \in Unread(r) : serial[first[r]] <= serial[e]

\* Who is not associated has nothing.
Outside(r) == popped[r] = {} /\ first[r] = Null

AllInOrder ==
    /\ \A r \in associated : InOrder(r)
    /\ \A r \in Readers \ associated : Outside(r)

ChannelInv ==
    /\ TypeOK /\ ElementsAccounted /\ PushPlace /\ Numbered /\ Registered
    /\ ~broken => AllInOrder

-----------------------------------------------------------------------------
(* Oldest and newest elements exist.                                       *)

\* Each set of numbers that is not empty has a least one.
LEMMA LeastNumber ==
    ASSUME NEW T \in SUBSET Nat, T # {}
    PROVE  \E x \in T : \A y \in T : x <= y
  <1> DEFINE R == { p \in Nat \X Nat : p[1] < p[2] }
  <1>0. IsWellFoundedOn(R, Nat)
    BY NatLessThanWellFounded DEF OpToRel
  <1>a. \A x, y \in Nat : y < x => << y, x >> \in R
    OBVIOUS
  <1> HIDE DEF R
  <1>1. PICK x \in T : \A y \in T : ~ (<<y, x>> \in R)
    BY <1>0, WFMin
  <1>2. \A y \in T : ~ (y < x)
    BY <1>1, <1>a
  <1> QED
    BY <1>2

\* The oldest element of a set of elements.
LEMMA OldestExists ==
    ASSUME TypeOK, NEW S \in SUBSET Elements, S # {}
    PROVE  /\ Oldest(S) \in S
           /\ \A f \in S : serial[Oldest(S)] <= serial[f]
  <1> DEFINE T == { serial[e] : e \in S }
  <1>1. T \in SUBSET Nat /\ T # {}
    BY DEF TypeOK
  <1>2. PICK x \in T : \A y \in T : x <= y
    BY <1>1, LeastNumber
  <1>3. PICK e \in S : x = serial[e]
    BY <1>2
  <1>4. \E d \in S : \A f \in S : serial[d] <= serial[f]
    BY <1>2, <1>3
  <1> QED
    BY <1>4 DEF Oldest

\* The newest element of a set of listed elements.
LEMMA NewestExists ==
    ASSUME TypeOK, Numbered, NEW S \in SUBSET fifo, S # {}
    PROVE  Newest(S) \in S /\ \A f \in S : serial[f] <= serial[Newest(S)]
  <1> DEFINE T == { sent - serial[e] : e \in S }
  <1>1. \A e \in S : serial[e] \in Nat /\ sent \in Nat /\ serial[e] <= sent
    BY DEF TypeOK, Numbered
  <1>2. T \in SUBSET Nat /\ T # {}
    BY <1>1
  <1>3. PICK x \in T : \A y \in T : x <= y
    BY <1>2, LeastNumber
  <1>4. PICK e \in S : x = sent - serial[e]
    BY <1>3
  <1>5. \A f \in S : sent - serial[e] <= sent - serial[f]
    BY <1>3, <1>4
  <1>6. \A f \in S : serial[f] <= serial[e]
    BY <1>1, <1>5
  <1> QED
    BY <1>6 DEF Newest

-----------------------------------------------------------------------------
(* Types.                                                                  *)

\* Only elements of the list are given back.
LEMMA FinishedListed ==
    ASSUME NEW S, NEW b
    PROVE  Finished(S, b) \subseteq fifo
  BY DEF Finished

\* A reader that may pop more than one element has a next one.
LEMMA NextElement ==
    ASSUME ChannelInv, ~broken, NEW r \in Readers,
           first[r] # Null, first[r] # last[r]
    PROVE  LET next == Oldest(Behind(first[r])) IN
           /\ next \in fifo /\ serial[first[r]] < serial[next]
           /\ \A e \in fifo :
                serial[first[r]] < serial[e] => serial[next] <= serial[e]
  <1>1. r \in associated /\ InOrder(r)
    BY DEF ChannelInv, AllInOrder, Outside
  <1>2. last[r] \in Behind(first[r])
    BY <1>1 DEF InOrder, Behind, Unread, ChannelInv, Numbered, TypeOK
  <1>3. Behind(first[r]) \in SUBSET Elements
    BY DEF Behind, ChannelInv, TypeOK
  <1>4. /\ Oldest(Behind(first[r])) \in Behind(first[r])
        /\ \A f \in Behind(first[r]) :
              serial[Oldest(Behind(first[r]))] <= serial[f]
    BY <1>2, <1>3, OldestExists DEF ChannelInv
  <1> QED
    BY <1>4 DEF Behind

\* The search for a bit ends at the first one that is free.
LEMMA FreeBitIsFree ==
    ASSUME mask \subseteq Bits, associated # {},
           ~ (1..(MaskWidth - 1) \subseteq mask)
    PROVE  FreeBit \in Bits \ {0} /\ FreeBit \notin mask
  <1> DEFINE Free == { b \in 1..(MaskWidth - 1) : b \notin mask }
  <1>1. Free \in SUBSET Nat /\ Free # {}
    OBVIOUS
  <1>2. PICK b \in Free : \A c \in Free : b <= c
    BY <1>1, LeastNumber
  <1>3. /\ b \in Bits \ {0} /\ b \notin mask
        /\ \A c \in 1..(b - 1) : c \in mask
    BY <1>2, FifoAssumption DEF Bits
  <1>4. \E d \in Bits \ {0} : d \notin mask /\ \A c \in 1..(d - 1) : c \in mask
    BY <1>3
  <1> QED
    BY <1>4 DEF FreeBit

\* The types hold at the beginning.
LEMMA TypeInit == Init => TypeOK
  <1> SUFFICES ASSUME Init
               PROVE  TypeOK
    OBVIOUS
  <1> USE FifoAssumption DEF Init, Bits, PushPCs, TaskStates
  <1>1. /\ unused \subseteq Elements /\ allocated \subseteq Elements
        /\ fifo \subseteq Elements /\ tail \in Elements \cup {Null}
        /\ serial \in [Elements -> Nat] /\ expects \in [Elements -> SUBSET Bits]
    OBVIOUS
  <1>2. /\ mask \subseteq Bits /\ associated \subseteq Readers
        /\ bit \in [Readers -> Bits]
    OBVIOUS
  <1>3. /\ first \in [Readers -> Elements \cup {Null}]
        /\ last \in [Readers -> Elements \cup {Null}]
        /\ popped \in [Readers -> SUBSET Elements]
    OBVIOUS
  <1>4. /\ push \in PushPCs /\ writer \in Elements \cup {Null}
        /\ seen \subseteq Bits /\ sent \in Nat
    OBVIOUS
  <1>5. /\ task \in [Readers -> TaskStates] /\ notifications \in [Readers -> Nat]
        /\ missed \in [Readers -> Nat] /\ volume \in [Readers -> Nat]
    OBVIOUS
  <1>6. broken \in BOOLEAN /\ cut \in BOOLEAN /\ ahead = {} /\ behind = {}
    OBVIOUS
  <1> QED
    BY <1>1, <1>2, <1>3, <1>4, <1>5, <1>6 DEF TypeOK

\* The types of what is remembered.
LEMMA HistoryTypes ==
    ASSUME TypeOK, Next
    PROVE  /\ broken' \in BOOLEAN /\ cut' \in BOOLEAN
           /\ ahead' \subseteq Readers /\ behind' \subseteq Readers
  <1>1. associated \subseteq Readers /\ ahead \subseteq Readers
        /\ behind \subseteq Readers
    BY DEF TypeOK
  <1>2. associated' \subseteq Readers
    BY <1>1 DEF Next, Write, Register, Read, Allocate, Release, PushTake, PushLink,
               PushCrash, PushNotify, Pop, AssociateReader, ReleaseReader,
               StartTask, Synchronize, SynchronizeCrash, PopElement, EndTask,
               ReleaseElement
  <1>3. History
    BY DEF Next
  <1> QED
    BY <1>1, <1>2, <1>3 DEF History

\* Each operation preserves the types.
LEMMA TypeStep ==
    ASSUME ChannelInv, Next
    PROVE  TypeOK'
  <1>0. TypeOK /\ Numbered /\ PushPlace
    BY DEF ChannelInv
  <1>a. \A S \in SUBSET Elements : S # {} => Oldest(S) \in S
    BY <1>0, OldestExists
  <1>b. \A S \in SUBSET fifo : S # {} => Newest(S) \in S
    BY <1>0, NewestExists
  <1>c. ~broken
    BY DEF Next
  <1>d. /\ broken' \in BOOLEAN /\ cut' \in BOOLEAN
        /\ ahead' \subseteq Readers /\ behind' \subseteq Readers
    BY <1>0, HistoryTypes
  <1> USE <1>0, <1>d, FifoAssumption DEF TypeOK
  <1>1. ASSUME NEW e \in Elements, Allocate(e)
        PROVE  TypeOK'
    BY <1>1 DEF Allocate, Bits
  <1>2. ASSUME NEW e \in Elements, Release(e)
        PROVE  TypeOK'
    BY <1>2 DEF Release
  <1>3. ASSUME NEW e \in Elements, PushTake(e)
        PROVE  TypeOK'
    BY <1>3 DEF PushTake, PushPCs
  <1>4. CASE PushLink
    <2>1. writer \in Elements
      BY <1>4 DEF PushLink, PushPlace
    <2> QED
      BY <1>4, <2>1 DEF PushLink, PushPCs
  <1>5. CASE PushNotify
    BY <1>5 DEF PushNotify, PushPCs
  <1>6. CASE Pop
    <2>1. Oldest(fifo) \in fifo
      BY <1>6, <1>a DEF Pop
    <2> QED
      BY <1>6, <2>1 DEF Pop
  <1>7. ASSUME NEW r \in Readers, AssociateReader(r)
        PROVE  TypeOK'
    <2>1. FreeBit \in Bits
      BY <1>7, FreeBitIsFree DEF AssociateReader, FreeBit, Bits
    <2>2. expects' \in [Elements -> SUBSET Bits]
      BY <1>7, <2>1 DEF AssociateReader, Welcome
    <2> QED
      BY <1>7, <2>1, <2>2 DEF AssociateReader
  <1>8. ASSUME NEW r \in Readers, ReleaseReader(r)
        PROVE  TypeOK'
    <2>1. Finished(Left(r), bit[r]) \subseteq fifo
      BY FinishedListed
    <2>2. MaskWithout(r) \subseteq Bits
      <3>1. 0 \in Bits
        BY DEF Bits
      <3> QED
        BY <3>1 DEF MaskWithout
    <2>3. expects' \in [Elements -> SUBSET Bits]
      BY <1>8 DEF ReleaseReader, ReleaseFor
    <2>4. /\ unused' \subseteq Elements /\ fifo' \subseteq Elements
      BY <1>8, <2>1 DEF ReleaseReader, ReleaseFor
    <2> QED
      BY <1>8, <2>2, <2>3, <2>4 DEF ReleaseReader
  <1>9. ASSUME NEW r \in Readers, StartTask(r)
        PROVE  TypeOK'
    BY <1>9 DEF StartTask, TaskStates
  <1>10. ASSUME NEW r \in Readers, Synchronize(r)
         PROVE  TypeOK'
    <2>1. NewElements(r) \in SUBSET Elements
      BY DEF NewElements, Behind
    <2>2. r \in associated => Oldest(NewElements(r)) \in Elements
      BY <1>10, <2>1, <1>a DEF Synchronize
    <2>3. first' \in [Readers -> Elements \cup {Null}]
          /\ last' \in [Readers -> Elements \cup {Null}]
      BY <1>10, <2>1, <2>2 DEF Synchronize
    <2> QED
      BY <1>10, <2>3 DEF Synchronize, TaskStates
  <1>11. ASSUME NEW r \in Readers, PopElement(r)
         PROVE  TypeOK'
    <2>1. first[r] \in Elements
      BY <1>11 DEF PopElement
    <2>2. first[r] # last[r] => Oldest(Behind(first[r])) \in Elements
      BY <1>c, <1>11, NextElement DEF PopElement
    <2> QED
      BY <1>11, <2>1, <2>2 DEF PopElement
  <1>12. ASSUME NEW r \in Readers, NEW e \in Elements, ReleaseElement(r, e)
         PROVE  TypeOK'
    <2> DEFINE gone == Finished({e}, bit[r])
    <2>1. gone \subseteq fifo
      BY FinishedListed
    <2>2. TailWithout(gone) \in Elements \cup {Null}
      <3>1. ASSUME ~ (fifo \subseteq gone)
            PROVE  Newest(fifo \ gone) \in Elements
        <4>1. fifo \ gone \in SUBSET fifo /\ fifo \ gone # {}
          BY <3>1
        <4>2. Newest(fifo \ gone) \in fifo
          BY <4>1, <1>b
        <4> QED
          BY <4>2
      <3> QED
        BY <3>1 DEF TailWithout
    <2>3. expects' \in [Elements -> SUBSET Bits]
      BY <1>12 DEF ReleaseElement, ReleaseFor
    <2>4. unused' \subseteq Elements /\ fifo' \subseteq Elements
      BY <1>12, <2>1 DEF ReleaseElement, ReleaseFor
    <2>5. popped' \in [Readers -> SUBSET Elements]
      BY <1>12 DEF ReleaseElement
    <2> QED
      BY <1>12, <2>2, <2>3, <2>4, <2>5 DEF ReleaseElement
  <1>13. ASSUME NEW r \in Readers, EndTask(r)
         PROVE  TypeOK'
    BY <1>13 DEF EndTask, Overtakes, TaskStates
  <1>14. CASE PushCrash
    BY <1>14 DEF PushCrash, PushPCs
  <1>15. ASSUME NEW r \in Readers, SynchronizeCrash(r)
         PROVE  TypeOK'
    BY <1>15 DEF SynchronizeCrash, TaskStates
  <1> QED
    BY <1>1, <1>2, <1>3, <1>4, <1>5, <1>6, <1>7, <1>8, <1>9, <1>10, <1>11,
       <1>12, <1>13, <1>14, <1>15 DEF Next, Write, Register, Read

-----------------------------------------------------------------------------
(* Elements, numbers and bits.                                             *)

\* Each operation moves an element from one list to one other list.
LEMMA AccountedStep ==
    ASSUME ChannelInv, Next
    PROVE  ElementsAccounted' /\ PushPlace'
  <1> USE FifoAssumption DEF ElementsAccounted, PushPlace, Writing
  <1>0. TypeOK /\ ElementsAccounted /\ PushPlace
    BY DEF ChannelInv
  <1> USE <1>0
  <1>1. ASSUME NEW e \in Elements, Allocate(e)
        PROVE  ElementsAccounted' /\ PushPlace'
    BY <1>1 DEF Allocate
  <1>2. ASSUME NEW e \in Elements, Release(e)
        PROVE  ElementsAccounted' /\ PushPlace'
    BY <1>2 DEF Release
  <1>3. ASSUME NEW e \in Elements, PushTake(e)
        PROVE  ElementsAccounted' /\ PushPlace'
    <2>1. e # Null /\ Null \notin fifo
      BY DEF TypeOK
    <2> QED
      BY <1>3, <2>1 DEF PushTake
  <1>4. CASE PushLink
    <2>1. writer # Null
      BY <1>4 DEF PushLink
    <2> QED
      BY <1>4, <2>1 DEF PushLink
  <1>5. CASE PushNotify
    BY <1>5 DEF PushNotify
  <1>6. CASE Pop
    <2>1. Oldest(fifo) \in fifo
      BY <1>6, OldestExists DEF Pop, TypeOK
    <2> QED
      BY <1>6, <2>1 DEF Pop
  <1>7. ASSUME NEW r \in Readers, AssociateReader(r)
        PROVE  ElementsAccounted' /\ PushPlace'
    BY <1>7 DEF AssociateReader
  <1>8. ASSUME NEW r \in Readers, ReleaseReader(r)
        PROVE  ElementsAccounted' /\ PushPlace'
    <2>1. Finished(Left(r), bit[r]) \subseteq fifo
      BY FinishedListed
    <2> QED
      BY <1>8, <2>1 DEF ReleaseReader, ReleaseFor
  <1>9. ASSUME NEW r \in Readers, NEW e \in Elements, ReleaseElement(r, e)
        PROVE  ElementsAccounted' /\ PushPlace'
    <2>1. Finished({e}, bit[r]) \subseteq fifo
      BY FinishedListed
    <2> QED
      BY <1>9, <2>1 DEF ReleaseElement, ReleaseFor
  <1>10. ASSUME NEW r \in Readers,
                \/ StartTask(r) \/ Synchronize(r) \/ SynchronizeCrash(r)
                \/ PopElement(r) \/ EndTask(r)
         PROVE  ElementsAccounted' /\ PushPlace'
    BY <1>10 DEF StartTask, Synchronize, SynchronizeCrash, PopElement, EndTask
  <1>11. CASE PushCrash
    BY <1>11 DEF PushCrash
  <1> QED
    BY <1>1, <1>2, <1>3, <1>4, <1>5, <1>6, <1>7, <1>8, <1>9, <1>10, <1>11
       DEF Next, Write, Register, Read

\* Elements get their numbers in the order in which they are linked.
LEMMA NumberedStep ==
    ASSUME ChannelInv, Next
    PROVE  Numbered'
  <1>0. TypeOK /\ ElementsAccounted /\ PushPlace /\ Numbered
    BY DEF ChannelInv
  <1> USE <1>0 DEF Numbered
  <1>1. ASSUME fifo' \subseteq fifo, serial' = serial, sent' = sent
        PROVE  Numbered'
    BY <1>1
  <1>2. CASE PushLink
    <2>1. writer \in Elements /\ sent \in Nat /\ serial \in [Elements -> Nat]
          /\ fifo \subseteq Elements
      BY <1>2 DEF PushLink, PushPlace, TypeOK
    <2>2. /\ fifo' = fifo \cup {writer} /\ sent' = sent + 1
          /\ serial' = [serial EXCEPT ![writer] = sent + 1]
      BY <1>2 DEF PushLink
    <2>3. writer \notin fifo
      BY <2>1, FifoAssumption DEF ElementsAccounted, Writing
    <2>4. /\ serial'[writer] = sent + 1
          /\ \A e \in fifo : serial'[e] = serial[e] /\ serial[e] \in Nat
      BY <2>1, <2>2, <2>3
    <2>5. \A e \in fifo : serial[e] <= sent
      OBVIOUS
    <2> QED
      BY <2>1, <2>2, <2>4, <2>5
  <1>3. CASE Write /\ ~ PushLink
    BY <1>1, <1>3 DEF Write, Allocate, Release, PushTake, PushCrash, PushNotify, Pop
  <1>4. CASE Register
    <2>1. \A r \in Readers : Finished(Left(r), bit[r]) \subseteq fifo
      BY FinishedListed
    <2> QED
      BY <1>1, <1>4, <2>1 DEF Register, AssociateReader, ReleaseReader, ReleaseFor
  <1>5. ASSUME NEW r \in Readers, Read(r)
        PROVE  Numbered'
    <2>1. fifo' \subseteq fifo /\ serial' = serial /\ sent' = sent
      BY <1>5 DEF Read, StartTask, Synchronize, SynchronizeCrash, PopElement,
                  EndTask, ReleaseElement, ReleaseFor
    <2> QED
      BY <1>1, <2>1
  <1> QED
    BY <1>2, <1>3, <1>4, <1>5 DEF Next

\* The bits of the readers stay different and in the mask.
LEMMA RegisteredStep ==
    ASSUME ChannelInv, Next
    PROVE  Registered'
  <1>0. TypeOK /\ Registered
    BY DEF ChannelInv
  <1> USE <1>0 DEF Registered
  <1>1. ASSUME NEW r \in Readers, AssociateReader(r)
        PROVE  Registered'
    <2>1. /\ bit' = [bit EXCEPT ![r] = FreeBit]
          /\ mask' = mask \cup {FreeBit}
          /\ associated' = associated \cup {r} /\ r \notin associated
      BY <1>1 DEF AssociateReader
    <2>2. associated # {} => FreeBit \notin mask
      BY <1>1, FreeBitIsFree DEF AssociateReader, TypeOK
    <2>3. \A s \in associated : s # r /\ bit'[s] = bit[s] /\ bit[s] # FreeBit
      BY <2>1, <2>2 DEF TypeOK
    <2>4. bit'[r] = FreeBit
      BY <2>1 DEF TypeOK
    <2> QED
      BY <2>1, <2>3, <2>4
  <1>2. ASSUME NEW r \in Readers, ReleaseReader(r)
        PROVE  Registered'
    <2>1. /\ mask' = MaskWithout(r) /\ bit' = bit
          /\ associated' = associated \ {r} /\ r \in associated
      BY <1>2 DEF ReleaseReader
    <2>2. CASE associated = {r}
      BY <2>1, <2>2 DEF MaskWithout
    <2>3. CASE associated # {r}
      BY <2>1, <2>3 DEF MaskWithout
    <2> QED
      BY <2>2, <2>3
  <1>3. ASSUME UNCHANGED readerVars
        PROVE  Registered'
    BY <1>3
  <1>4. CASE Write
    BY <1>3, <1>4 DEF Write, Allocate, Release, PushTake, PushLink, PushCrash,
                      PushNotify, Pop
  <1>5. ASSUME NEW r \in Readers, Read(r)
        PROVE  Registered'
    BY <1>3, <1>5 DEF Read, StartTask, Synchronize, SynchronizeCrash, PopElement,
                      EndTask, ReleaseElement
  <1> QED
    BY <1>1, <1>2, <1>4, <1>5 DEF Next, Register

-----------------------------------------------------------------------------
(* Readers.                                                                *)

\* What InOrder and Outside depend on does not change.
LEMMA OrderUnchanged ==
    ASSUME AllInOrder, associated' = associated, fifo' = fifo,
           TypeOK, bit' = bit, windowVars' = windowVars,
           \A e \in fifo : expects'[e] = expects[e] /\ serial'[e] = serial[e]
    PROVE  AllInOrder'
  <1>1. ASSUME NEW r \in associated
        PROVE  InOrder(r)'
    <2>1. Unread(r)' = Unread(r) /\ Unread(r) \subseteq fifo
      BY DEF Unread
    <2>2. InOrder(r)
      BY DEF AllInOrder
    <2> QED
      BY <2>1, <2>2 DEF InOrder
  <1>2. \A r \in Readers \ associated : Outside(r)'
    BY DEF AllInOrder, Outside
  <1> QED
    BY <1>1, <1>2 DEF AllInOrder

\* A pushed element is behind all that a reader has popped or may pop.
LEMMA WriteOrder ==
    ASSUME ChannelInv, ~broken, Write, ~LinksOldMask
    PROVE  AllInOrder'
  <1>0. /\ TypeOK /\ ElementsAccounted /\ PushPlace /\ Numbered /\ Registered
        /\ AllInOrder
    BY DEF ChannelInv, AllInOrder
  <1>1. ASSUME NEW e \in Elements, Allocate(e)
        PROVE  AllInOrder'
    <2>1. e \notin fifo
      BY <1>0, <1>1 DEF Allocate, ElementsAccounted
    <2>2. \A f \in fifo : expects'[f] = expects[f]
      BY <1>0, <1>1, <2>1 DEF Allocate, TypeOK
    <2> QED
      BY <1>0, <1>1, <2>2, OrderUnchanged DEF Allocate
  <1>2. ASSUME NEW e \in Elements, Release(e)
        PROVE  AllInOrder'
    <2>1. e \notin fifo
      BY <1>0, <1>2 DEF Release, ElementsAccounted
    <2>2. \A f \in fifo : expects'[f] = expects[f]
      BY <1>0, <1>2, <2>1 DEF Release, TypeOK
    <2> QED
      BY <1>0, <1>2, <2>2, OrderUnchanged DEF Release
  <1>3. ASSUME NEW e \in Elements, PushTake(e)
        PROVE  AllInOrder'
    BY <1>0, <1>3, OrderUnchanged DEF PushTake
  <1>4. CASE PushNotify
    BY <1>0, <1>4, OrderUnchanged DEF PushNotify
  <1>5. CASE Pop
    <2>1. associated = {}
      BY <1>5 DEF Pop
    <2> QED
      BY <1>0, <1>5, <2>1 DEF Pop, AllInOrder, Outside
  <1>6. CASE PushLink
    <2>1. /\ writer \in Elements /\ writer \notin fifo /\ seen = mask
          /\ fifo \subseteq Elements /\ sent \in Nat
      BY <1>0, <1>6, FifoAssumption
         DEF PushLink, LinksOldMask, PushPlace, ElementsAccounted, Writing, TypeOK
    <2>2. /\ fifo' = fifo \cup {writer}
          /\ serial' = [serial EXCEPT ![writer] = sent + 1]
          /\ expects' = [expects EXCEPT ![writer] = seen]
          /\ bit' = bit /\ associated' = associated
          /\ first' = first /\ last' = last /\ popped' = popped
      BY <1>6 DEF PushLink
    <2>3. /\ serial'[writer] = sent + 1 /\ expects'[writer] = mask
          /\ \A e \in fifo : /\ serial'[e] = serial[e] /\ serial[e] \in Nat
                              /\ expects'[e] = expects[e]
                              /\ serial[e] < sent + 1
      BY <1>0, <2>1, <2>2 DEF TypeOK, Numbered
    <2>4. ASSUME NEW r \in associated
          PROVE  InOrder(r)'
      <3>1. InOrder(r)
        BY <1>0 DEF AllInOrder
      <3>2. Unread(r)' = Unread(r) \cup {writer} /\ Unread(r) \subseteq fifo
        BY <1>0, <2>1, <2>2, <2>3, <3>1 DEF Unread, InOrder, Registered
      <3>3. \A e \in popped'[r] : e \in fifo' /\ bit'[r] \in expects'[e]
        BY <2>2, <2>3, <3>1 DEF InOrder
      <3>4. \A e \in fifo', f \in Unread(r)' :
               e \in Unread(r)' \/ serial'[e] < serial'[f]
        BY <2>2, <2>3, <3>1, <3>2 DEF InOrder
      <3>5. ASSUME first'[r] # Null
            PROVE  /\ first'[r] \in Unread(r)' /\ last'[r] \in Unread(r)'
                   /\ serial'[first'[r]] <= serial'[last'[r]]
                   /\ \A e \in Unread(r)' : serial'[first'[r]] <= serial'[e]
        <4>1. /\ first[r] \in Unread(r) /\ last[r] \in Unread(r)
              /\ serial[first[r]] <= serial[last[r]]
              /\ \A e \in Unread(r) : serial[first[r]] <= serial[e]
          BY <2>2, <3>1, <3>5 DEF InOrder
        <4>2. serial[first[r]] \in Nat /\ serial[first[r]] <= sent + 1
          BY <2>1, <2>3, <3>2, <4>1
        <4> QED
          BY <2>2, <2>3, <3>2, <4>1, <4>2
      <3> QED
        BY <2>2, <3>1, <3>3, <3>4, <3>5 DEF InOrder
    <2> QED
      BY <1>0, <2>2, <2>4 DEF AllInOrder, Outside
  <1>7. CASE PushCrash
    BY <1>0, <1>7, OrderUnchanged DEF PushCrash
  <1> QED
    BY <1>1, <1>2, <1>3, <1>4, <1>5, <1>6, <1>7 DEF Write

\* A reader that comes waits for all that is listed, and changes nothing for
\* the others.
LEMMA AssociateOrder ==
    ASSUME ChannelInv, ~broken, NEW r \in Readers, AssociateReader(r)
    PROVE  /\ AllInOrder'
           /\ Unread(r)' = fifo
           /\ \A s \in associated : Unread(s)' = Unread(s)
  <1>0. TypeOK /\ Registered /\ AllInOrder
    BY DEF ChannelInv
  <1>1. /\ r \notin associated /\ associated' = associated \cup {r}
        /\ fifo' = fifo /\ serial' = serial /\ fifo \subseteq Elements
        /\ popped' = popped /\ first' = first /\ last' = last
        /\ associated \subseteq Readers
        /\ bit' = [bit EXCEPT ![r] = FreeBit]
        /\ expects' = [e \in Elements |->
              IF e \in fifo THEN expects[e] \cup {FreeBit} ELSE expects[e]]
    BY <1>0 DEF AssociateReader, Welcome, TypeOK
  <1>2. popped[r] = {} /\ first[r] = Null
    BY <1>0, <1>1 DEF AllInOrder, Outside
  <1>3. bit'[r] = FreeBit /\ \A s \in associated : bit'[s] = bit[s]
    BY <1>0, <1>1 DEF TypeOK
  <1>4. \A s \in associated : bit[s] # FreeBit
    <2>1. associated # {} => FreeBit \notin mask
      BY <1>0, FreeBitIsFree DEF AssociateReader, TypeOK
    <2> QED
      BY <1>0, <2>1 DEF Registered
  <1>5. \A e \in fifo : expects'[e] = expects[e] \cup {FreeBit}
    BY <1>1
  <1>6. Unread(r)' = fifo
    BY <1>1, <1>2, <1>3, <1>5 DEF Unread
  <1>7. InOrder(r)'
    BY <1>1, <1>2, <1>6 DEF InOrder
  <1>8. ASSUME NEW s \in associated
        PROVE  Unread(s)' = Unread(s) /\ InOrder(s)'
    <2>1. InOrder(s)
      BY <1>0 DEF AllInOrder
    <2>2. \A e \in fifo : bit'[s] \in expects'[e] <=> bit[s] \in expects[e]
      BY <1>3, <1>4, <1>5
    <2>3. Unread(s)' = Unread(s)
      BY <1>1, <2>2 DEF Unread
    <2> QED
      BY <1>1, <2>1, <2>2, <2>3 DEF InOrder
  <1>9. \A s \in Readers \ associated' : Outside(s)'
    BY <1>0, <1>1 DEF AllInOrder, Outside
  <1> QED
    BY <1>1, <1>6, <1>7, <1>8, <1>9 DEF AllInOrder

\* A reader that goes gives back for itself only: what others have popped or
\* not read stays what it is.
LEMMA LeaveOrder ==
    ASSUME ChannelInv, ~broken, NEW r \in Readers, ReleaseReader(r)
    PROVE  /\ AllInOrder' /\ fifo' \subseteq fifo
           /\ \A s \in associated' : s \in associated /\ Unread(s)' = Unread(s)
  <1>0. TypeOK /\ Registered /\ AllInOrder
    BY DEF ChannelInv
  <1>1. /\ r \in associated /\ associated \subseteq Readers
        /\ associated' = associated \ {r} /\ bit' = bit /\ serial' = serial
        /\ popped' = [popped EXCEPT ![r] = {}]
        /\ first' = [first EXCEPT ![r] = Null] /\ last' = last
        /\ fifo' = fifo \ Finished(Left(r), bit[r]) /\ fifo \subseteq Elements
        /\ expects' = [e \in Elements |->
              IF e \in Left(r) THEN expects[e] \ {bit[r]} ELSE expects[e]]
    BY <1>0 DEF ReleaseReader, ReleaseFor, TypeOK
  <1>2. fifo' \subseteq fifo
    BY <1>1
  <1>3. ASSUME NEW s \in associated'
        PROVE  s \in associated /\ Unread(s)' = Unread(s) /\ InOrder(s)'
    <2>1. s # r /\ s \in associated /\ InOrder(s) /\ bit[s] # bit[r]
      BY <1>0, <1>1 DEF AllInOrder, Registered
    <2>2. \A e \in fifo : bit[s] \in expects'[e] <=> bit[s] \in expects[e]
      BY <1>1, <2>1
    <2>3. \A e \in fifo : bit[s] \in expects[e] => e \in fifo'
      BY <1>1, <2>1 DEF Finished
    <2>4. popped'[s] = popped[s] /\ first'[s] = first[s]
      BY <1>0, <1>1, <2>1 DEF TypeOK
    <2>5. Unread(s)' = Unread(s)
      BY <1>1, <1>2, <2>2, <2>3, <2>4 DEF Unread
    <2>6. \A e \in popped'[s] : e \in fifo' /\ bit'[s] \in expects'[e]
      BY <1>1, <2>1, <2>2, <2>3, <2>4 DEF InOrder
    <2> QED
      BY <1>1, <1>2, <2>1, <2>4, <2>5, <2>6 DEF InOrder
  <1>4. \A s \in Readers \ associated' : Outside(s)'
    BY <1>0, <1>1 DEF AllInOrder, Outside, TypeOK
  <1> QED
    BY <1>2, <1>3, <1>4 DEF AllInOrder

\* A reader that leaves the list as it is disturbs no other one.
LEMMA OthersInOrder ==
    ASSUME AllInOrder, NEW r \in associated, UNCHANGED << listVars, readerVars >>,
           InOrder(r)',
           \A s \in Readers \ {r} :
              /\ first'[s] = first[s] /\ last'[s] = last[s]
              /\ popped'[s] = popped[s],
           associated \subseteq Readers
    PROVE  AllInOrder'
  <1>1. ASSUME NEW s \in associated, s # r
        PROVE  InOrder(s)'
    <2>1. InOrder(s) /\ Unread(s)' = Unread(s)
      BY <1>1 DEF AllInOrder, Unread
    <2> QED
      BY <1>1, <2>1 DEF InOrder
  <1>2. \A s \in Readers \ associated : Outside(s)'
    BY DEF AllInOrder, Outside
  <1> QED
    BY <1>1, <1>2 DEF AllInOrder

\* A reader gives back what it has popped only, and for itself only: what is
\* not read stays what it is.
LEMMA ReleaseOrder ==
    ASSUME ChannelInv, ~broken, NEW r \in Readers, NEW e \in Elements,
           ReleaseElement(r, e)
    PROVE  AllInOrder' /\ \A s \in associated : Unread(s)' = Unread(s)
  <1>0. TypeOK /\ Registered /\ AllInOrder
    BY DEF ChannelInv, AllInOrder
  <1>1. /\ e \in popped[r] /\ serial' = serial /\ bit' = bit
        /\ associated' = associated /\ first' = first /\ last' = last
        /\ popped' = [popped EXCEPT ![r] = @ \ {e}]
        /\ fifo' = fifo \ Finished({e}, bit[r])
        /\ expects' = [f \in Elements |->
              IF f \in {e} THEN expects[f] \ {bit[r]} ELSE expects[f]]
    BY DEF ReleaseElement, ReleaseFor
  <1>2. /\ r \in associated /\ associated \subseteq Readers
        /\ fifo \subseteq Elements
    BY <1>0, <1>1 DEF AllInOrder, Outside, TypeOK
  <1>3. ASSUME NEW s \in associated
        PROVE  InOrder(s)' /\ Unread(s)' = Unread(s)
    <2>1. InOrder(s)
      BY <1>0 DEF AllInOrder
    <2>2. s # r => bit[s] # bit[r]
      BY <1>0, <1>2, <1>3 DEF Registered
    <2>3. /\ popped'[s] \subseteq popped[s]
          /\ s = r => popped'[s] = popped[s] \ {e}
          /\ s # r => popped'[s] = popped[s]
      BY <1>0, <1>1, <1>2 DEF TypeOK
    <2>4. \A f \in Elements : f # e => expects'[f] = expects[f]
      BY <1>1
    <2>5. expects'[e] = expects[e] \ {bit[r]}
      BY <1>1
    <2>6. \A f \in fifo : f \in fifo' \/ (f = e /\ expects[e] \subseteq {bit[r]})
      BY <1>1 DEF Finished
    <2>7. fifo' \subseteq fifo
      BY <1>1
    <2>8. \A f \in popped'[s] : f \in fifo' /\ bit'[s] \in expects'[f]
      BY <1>1, <1>2, <2>1, <2>2, <2>3, <2>4, <2>5, <2>6 DEF InOrder
    <2>9. Unread(s)' = Unread(s)
      <3>1. \A f \in Unread(s) : f \in Unread(s)'
        BY <1>1, <1>2, <2>2, <2>3, <2>4, <2>5, <2>6 DEF Unread
      <3>2. \A f \in Unread(s)' : f \in Unread(s)
        BY <1>1, <1>2, <2>2, <2>3, <2>4, <2>5, <2>7 DEF Unread
      <3> QED
        BY <3>1, <3>2
    <2> QED
      BY <1>1, <2>1, <2>3, <2>7, <2>8, <2>9 DEF InOrder
  <1>4. \A s \in Readers \ associated : Outside(s)'
    BY <1>0, <1>1, <1>2 DEF AllInOrder, Outside, TypeOK
  <1> QED
    BY <1>1, <1>3, <1>4 DEF AllInOrder

\* synchronize hands out elements that wait for the reader.
LEMMA SynchronizeOrder ==
    ASSUME ChannelInv, ~broken, NEW r \in Readers, Synchronize(r),
           ~DeliversAgain(r)
    PROVE  AllInOrder'
  <1>0. TypeOK /\ AllInOrder
    BY DEF ChannelInv, AllInOrder
  <1>1. /\ task[r] = "starting" /\ UNCHANGED << listVars, readerVars, popped >>
        /\ task'[r] = "run"
    BY <1>0 DEF Synchronize, TypeOK
  <1>2. /\ associated \subseteq Readers /\ fifo \subseteq Elements
    BY <1>0 DEF TypeOK
  <1>3. CASE r \notin associated
    BY <1>0, <1>1, <1>3, OrderUnchanged DEF Synchronize
  <1>4. CASE r \in associated
    <2>1. PICK e \in NewElements(r) : last' = [last EXCEPT ![r] = e]
      BY <1>4 DEF Synchronize
    <2>2. first' = [first EXCEPT ![r] =
                      IF @ = Null THEN Oldest(NewElements(r)) ELSE @]
      BY <1>4 DEF Synchronize
    <2>3. InOrder(r) /\ (first[r] = Null => popped[r] = {})
      BY <1>0, <1>1, <1>4 DEF AllInOrder, DeliversAgain
    <2>4. Unread(r)' = Unread(r) /\ Unread(r) \subseteq fifo
      BY <1>1 DEF Unread
    <2>5. \A f \in Unread(r), g \in fifo :
             serial[f] <= serial[g] => g \in Unread(r)
      BY <1>0, <1>2, <2>3, <2>4 DEF InOrder, TypeOK
    <2>6. last'[r] = e /\ popped'[r] = popped[r]
      BY <1>0, <1>1, <2>1 DEF TypeOK
    <2>7. CASE first[r] = Null
      <3> DEFINE expecting == { f \in fifo : bit[r] \in expects[f] }
      <3>1. NewElements(r) = { f \in fifo :
                /\ expecting # {}
                /\ serial[Oldest(expecting)] <= serial[f] }
        BY <2>7 DEF NewElements
      <3>2. expecting \in SUBSET Elements /\ expecting # {} /\ expecting = Unread(r)
        BY <1>2, <2>1, <2>3, <2>7, <3>1 DEF Unread
      <3> HIDE DEF expecting
      <3>3. /\ Oldest(expecting) \in Unread(r)
            /\ \A f \in Unread(r) : serial[Oldest(expecting)] <= serial[f]
        BY <1>0, <3>2, OldestExists
      <3>4. NewElements(r) = Unread(r)
        BY <2>4, <2>5, <3>1, <3>2, <3>3
      <3>5. NewElements(r) \in SUBSET Elements
        BY <1>2, <2>4, <3>4
      <3>6. /\ Oldest(NewElements(r)) \in NewElements(r)
            /\ \A f \in NewElements(r) :
                  serial[Oldest(NewElements(r))] <= serial[f]
        BY <1>0, <2>1, <3>5, OldestExists
      <3>7. first'[r] = Oldest(NewElements(r))
        BY <1>0, <2>2, <2>7 DEF TypeOK
      <3>8. InOrder(r)'
        BY <1>1, <2>1, <2>3, <2>4, <2>6, <3>4, <3>6, <3>7 DEF InOrder
      <3> QED
        BY <1>0, <1>1, <1>2, <1>4, <2>1, <2>2, <3>8, OthersInOrder DEF TypeOK
    <2>8. CASE first[r] # Null
      <3>1. NewElements(r) = Behind(last[r])
        BY <2>8 DEF NewElements
      <3>2. /\ first[r] \in Unread(r) /\ last[r] \in Unread(r)
            /\ serial[first[r]] <= serial[last[r]]
            /\ \A f \in Unread(r) : serial[first[r]] <= serial[f]
        BY <2>3, <2>8 DEF InOrder
      <3>3. e \in fifo /\ serial[last[r]] < serial[e]
        BY <2>1, <3>1 DEF Behind
      <3>4. /\ serial[e] \in Nat /\ serial[last[r]] \in Nat
            /\ serial[first[r]] \in Nat
        BY <1>0, <1>2, <2>4, <3>2, <3>3 DEF TypeOK
      <3>5. e \in Unread(r) /\ serial[first[r]] <= serial[e]
        BY <2>5, <3>2, <3>3, <3>4
      <3>6. first'[r] = first[r]
        BY <1>0, <2>2, <2>8 DEF TypeOK
      <3>7. InOrder(r)'
        BY <1>1, <2>3, <2>4, <2>6, <3>2, <3>5, <3>6 DEF InOrder
      <3> QED
        BY <1>0, <1>1, <1>2, <1>4, <2>1, <2>2, <3>7, OthersInOrder DEF TypeOK
    <2> QED
      BY <2>7, <2>8
  <1> QED
    BY <1>3, <1>4

\* A reader pops the first element that it may pop.
LEMMA PopOrder ==
    ASSUME ChannelInv, ~broken, NEW r \in Readers, PopElement(r)
    PROVE  AllInOrder'
  <1>0. TypeOK /\ Numbered /\ AllInOrder
    BY DEF ChannelInv, AllInOrder
  <1> DEFINE head == first[r]
             next == Oldest(Behind(first[r]))
  <1>1. /\ first[r] # Null /\ UNCHANGED << listVars, readerVars >>
        /\ popped' = [popped EXCEPT ![r] = @ \cup {first[r]}]
    BY DEF PopElement
  <1>2. /\ r \in associated /\ associated \subseteq Readers
        /\ fifo \subseteq Elements
    BY <1>0, <1>1 DEF AllInOrder, Outside, TypeOK
  <1>3. InOrder(r)
    BY <1>0, <1>2 DEF AllInOrder
  <1>4. /\ head \in Unread(r) /\ last[r] \in Unread(r)
        /\ serial[head] <= serial[last[r]]
        /\ \A f \in Unread(r) : serial[head] <= serial[f]
    BY <1>1, <1>3 DEF InOrder
  <1>5. Unread(r) \subseteq fifo /\ head \in fifo /\ bit[r] \in expects[head]
    BY <1>4 DEF Unread
  <1>6. popped'[r] = popped[r] \cup {head}
    BY <1>0, <1>1 DEF TypeOK
  <1>7. Unread(r)' = Unread(r) \ {head}
    BY <1>1, <1>6 DEF Unread
  <1>8. \A f \in fifo : serial[f] \in Nat
    BY <1>0, <1>2 DEF TypeOK
  <1>9. \A f \in Unread(r)' : serial[head] < serial[f]
    BY <1>0, <1>4, <1>5, <1>7, <1>8 DEF Numbered
  <1>10. \A f \in fifo', g \in Unread(r)' :
            f \in Unread(r)' \/ serial'[f] < serial'[g]
    BY <1>1, <1>3, <1>7, <1>9 DEF InOrder
  <1>11. \A f \in popped'[r] : f \in fifo' /\ bit'[r] \in expects'[f]
    BY <1>1, <1>3, <1>5, <1>6 DEF InOrder
  <1>13. \A s \in Readers \ {r} :
            /\ first'[s] = first[s] /\ last'[s] = last[s]
            /\ popped'[s] = popped[s]
    BY <1>0 DEF PopElement, TypeOK
  <1>14. CASE first[r] = last[r]
    <2>1. first'[r] = Null
      BY <1>0, <1>14 DEF PopElement, TypeOK
    <2>2. InOrder(r)'
      BY <1>10, <1>11, <2>1 DEF InOrder
    <2> QED
      BY <1>0, <1>1, <1>2, <1>13, <2>2, OthersInOrder
  <1>15. CASE first[r] # last[r]
    <2>1. /\ next \in fifo /\ serial[head] < serial[next]
          /\ \A f \in fifo : serial[head] < serial[f] => serial[next] <= serial[f]
      BY <1>1, <1>15, NextElement
    <2>2. first'[r] = next /\ last'[r] = last[r]
      BY <1>0, <1>15 DEF PopElement, TypeOK
    <2>3. next \in Unread(r)
      BY <1>3, <1>4, <1>5, <1>8, <2>1 DEF InOrder
    <2>4. next \in Unread(r)' /\ last[r] \in Unread(r)'
      BY <1>4, <1>7, <1>8, <1>5, <1>15, <2>1, <2>3
    <2>5. \A f \in Unread(r)' : serial[next] <= serial[f]
      BY <1>5, <1>7, <1>9, <2>1
    <2>6. InOrder(r)'
      <3> HIDE DEF next
      <3> QED
        BY <1>1, <1>10, <1>11, <2>2, <2>4, <2>5 DEF InOrder
    <2> QED
      BY <1>0, <1>1, <1>2, <1>13, <2>6, OthersInOrder
  <1> QED
    BY <1>14, <1>15

\* The steps of the task of a reader.
LEMMA ReadOrder ==
    ASSUME ChannelInv, ~broken, NEW r \in Readers, Read(r), ~DeliversAgain(r)
    PROVE  AllInOrder'
  <1>0. TypeOK /\ AllInOrder
    BY DEF ChannelInv
  <1>1. ASSUME StartTask(r) \/ SynchronizeCrash(r) \/ EndTask(r)
        PROVE  AllInOrder'
    BY <1>0, <1>1, OrderUnchanged DEF StartTask, SynchronizeCrash, EndTask
  <1> QED
    BY <1>1, SynchronizeOrder, PopOrder, ReleaseOrder DEF Read

-----------------------------------------------------------------------------
(* The theorems.                                                           *)

\* Each step of the channel preserves the invariant.
LEMMA ChannelStep == ChannelInv /\ [Next]_vars => ChannelInv'
  <1>1. ASSUME ChannelInv, Next
        PROVE  ChannelInv'
    <2>1. ASSUME ~broken'
          PROVE  AllInOrder'
      <3>1. ~broken /\ ~LinksOldMask /\ \A r \in Readers : ~DeliversAgain(r)
        BY <1>1, <2>1 DEF Next, History
      <3> QED
        BY <1>1, <3>1, WriteOrder, AssociateOrder, LeaveOrder, ReadOrder
           DEF Next, Register
    <2> QED
      BY <1>1, <2>1, TypeStep, AccountedStep, NumberedStep, RegisteredStep
         DEF ChannelInv
  <1>2. ASSUME ChannelInv, UNCHANGED vars
        PROVE  ChannelInv'
    <2>1. ~broken' => AllInOrder'
      BY <1>2, OrderUnchanged DEF ChannelInv, vars, history
    <2>2. /\ TypeOK' /\ ElementsAccounted' /\ PushPlace' /\ Numbered'
          /\ Registered'
      BY <1>2 DEF ChannelInv, TypeOK, ElementsAccounted, Writing, PushPlace,
                  Numbered, Registered, vars, history
    <2> QED
      BY <2>1, <2>2 DEF ChannelInv
  <1> QED
    BY <1>1, <1>2

\* The channel is empty at the beginning.
LEMMA ChannelInit == Init => ChannelInv
  <1> SUFFICES ASSUME Init
               PROVE  ChannelInv
    OBVIOUS
  <1>1. TypeOK
    BY TypeInit
  <1>2. ElementsAccounted /\ PushPlace /\ Numbered /\ Registered
    BY DEF Init, ElementsAccounted, Writing, PushPlace, Numbered, Registered
  <1>3. associated = {} /\ \A r \in Readers : Outside(r)
    BY DEF Init, Outside
  <1> QED
    BY <1>1, <1>2, <1>3 DEF ChannelInv, AllInOrder

\* What is in order is in the list and not given back.
LEMMA ChannelHolds == ChannelInv => ReadersHold
  <1> SUFFICES ASSUME ChannelInv, ~broken, NEW r \in associated
               PROVE  /\ \A e \in popped[r] : e \in fifo /\ bit[r] \in expects[e]
                      /\ first[r] # Null =>
                            /\ {first[r], last[r]} \subseteq Unread(r)
                            /\ \A e \in fifo :
                                  serial[first[r]] <= serial[e] => e \in Unread(r)
    BY DEF ReadersHold
  <1>1. InOrder(r) /\ TypeOK
    BY DEF ChannelInv, AllInOrder
  <1>2. ASSUME first[r] # Null, NEW e \in fifo, serial[first[r]] <= serial[e]
        PROVE  e \in Unread(r)
    BY <1>1, <1>2 DEF InOrder, TypeOK, Unread
  <1> QED
    BY <1>1, <1>2 DEF InOrder

\* ChannelInv is an invariant of the channel.
THEOREM ChannelInvariant == Spec => []ChannelInv
  BY ChannelInit, ChannelStep, PTL DEF Spec

\* The types of the state: fifo_first, fifo_last and the masks.
THEOREM ChannelTypes == Spec => []TypeOK
  <1>1. ChannelInv => TypeOK
    BY DEF ChannelInv
  <1> QED
    BY <1>1, ChannelInvariant, PTL

\* allocate, release, push, pop and releaseElement lose no element and link
\* none twice, however many elements, readers and threads there are.
THEOREM ElementsNeverLost == Spec => []ElementsAccounted
  <1>1. ChannelInv => ElementsAccounted
    BY DEF ChannelInv
  <1> QED
    BY <1>1, ChannelInvariant, PTL

\* What a reader has popped or may pop is in the list and waits for it, also
\* while other readers come and go, as long as nothing is broken.
THEOREM NoDanglingReader == Spec => []ReadersHold
  BY ChannelInvariant, ChannelHolds, PTL

-----------------------------------------------------------------------------
(* m_fifo_last.                                                            *)

TailLast ==
    /\ cut => fifo # {} /\ tail = Null
    /\ ~cut => \/ fifo = {} /\ tail = Null
               \/ tail \in fifo /\ \A f \in fifo : serial[f] <= serial[tail]

\* The elements have different numbers, so there is one last element.
LEMMA LastIsNewest == ChannelInv /\ TailLast => TailIsLast
  <1> SUFFICES ASSUME ChannelInv, TailLast, fifo # {}, ~cut
               PROVE  tail = Newest(fifo)
    BY DEF TailLast, TailIsLast, Last
  <1>1. /\ Newest(fifo) \in fifo
        /\ \A f \in fifo : serial[f] <= serial[Newest(fifo)]
    BY NewestExists DEF ChannelInv
  <1>2. \A f \in fifo : serial[f] \in Nat
    BY DEF ChannelInv, TypeOK
  <1>3. serial[tail] = serial[Newest(fifo)]
    BY <1>1, <1>2 DEF TailLast
  <1> QED
    BY <1>1, <1>3 DEF ChannelInv, Numbered, TailLast

\* Each operation on the list corrects m_fifo_last, but the release of a reader.
LEMMA TailStep ==
    ASSUME ChannelInv, TailLast, [Next]_vars
    PROVE  TailLast'
  <1>0. TypeOK /\ Numbered /\ PushPlace /\ Null \notin fifo
    BY FifoAssumption DEF ChannelInv, TypeOK
  <1>a. Next => (cut' <=> (fifo' # {} /\ (cut \/ associated \ associated' # {})))
    <2> SUFFICES ASSUME History
                 PROVE  cut' <=> (fifo' # {} /\ (cut \/ associated \ associated' # {}))
      BY DEF Next
    <2>1. cut' = (fifo' # {} /\ (cut \/ associated \ associated' # {}))
      BY Zenon DEF History
    <2> QED
      BY <2>1, Zenon
  <1>1. ASSUME UNCHANGED << fifo, tail, serial >>, cut' <=> cut
        PROVE  TailLast'
    BY <1>1 DEF TailLast
  <1>2. ASSUME UNCHANGED << fifo, tail, serial >>, Next,
               associated \subseteq associated'
        PROVE  TailLast'
    <2>1. cut' <=> cut
      BY <1>a, <1>2 DEF TailLast
    <2> QED
      BY <1>1, <1>2, <2>1
  <1>3. CASE PushLink /\ Next
    <2>1. /\ tail' = writer /\ fifo' = fifo \cup {writer} /\ writer \in Elements
          /\ serial' = [serial EXCEPT ![writer] = sent + 1]
          /\ associated' = associated /\ ~NoTail
      BY <1>0, <1>3 DEF PushLink, PushPlace
    <2>2. serial'[writer] = sent + 1
      BY <1>0, <2>1 DEF TypeOK
    <2>3. \A f \in fifo : f = writer \/ serial'[f] = serial[f]
      BY <1>0, <2>1 DEF TypeOK
    <2>4. \A f \in fifo : serial[f] \in Nat /\ sent \in Nat /\ serial[f] <= sent
      BY <1>0 DEF TypeOK, Numbered
    <2>5. sent \in Nat
      BY <1>0 DEF TypeOK
    <2>6. ~cut'
      BY <1>a, <1>3, <2>1 DEF TailLast, NoTail
    <2>7. tail' \in fifo' /\ \A f \in fifo' : serial'[f] <= serial'[tail']
      BY <2>1, <2>2, <2>3, <2>4, <2>5
    <2> QED
      BY <2>6, <2>7 DEF TailLast
  <1>4. CASE Pop /\ Next
    <2>1. /\ fifo # {} /\ fifo' = fifo \ {Oldest(fifo)} /\ serial' = serial
          /\ tail' = (IF fifo' = {} THEN Null ELSE tail)
          /\ associated' = associated
      BY <1>4 DEF Pop
    <2>2. Oldest(fifo) \in fifo /\ \A f \in fifo : serial[Oldest(fifo)] <= serial[f]
      BY <1>0, <2>1, OldestExists DEF TypeOK
    <2>3. \A f \in fifo : serial[f] \in Nat
      BY <1>0 DEF TypeOK
    <2>4. ASSUME ~cut, tail = Oldest(fifo)
          PROVE  fifo' = {}
      <3>1. \A f \in fifo : serial[f] = serial[tail]
        BY <1>0, <2>1, <2>2, <2>3, <2>4 DEF TailLast
      <3> QED
        BY <1>0, <2>1, <2>2, <2>4, <3>1 DEF Numbered
    <2>5. CASE fifo' = {}
      BY <1>a, <1>4, <2>1, <2>5 DEF TailLast
    <2>6. CASE fifo' # {}
      <3>1. (cut' <=> cut) /\ tail' = tail
        BY <1>a, <1>4, <2>1, <2>6 DEF TailLast
      <3> QED
        BY <2>1, <2>4, <2>6, <3>1 DEF TailLast
    <2> QED
      BY <2>5, <2>6
  <1>5. ASSUME NEW r \in Readers, ReleaseReader(r), Next
        PROVE  TailLast'
    <2>1. tail' = Null /\ associated \ associated' # {}
      BY <1>5 DEF ReleaseReader
    <2>2. cut' <=> fifo' # {}
      BY <1>a, <1>5, <2>1
    <2> QED
      BY <2>1, <2>2 DEF TailLast
  <1>6. ASSUME NEW r \in Readers, NEW e \in Elements, ReleaseElement(r, e), Next
        PROVE  TailLast'
    <2> DEFINE gone == Finished({e}, bit[r])
    <2>1. /\ fifo' = fifo \ gone /\ tail' = TailWithout(gone) /\ serial' = serial
          /\ gone \subseteq fifo /\ associated' = associated
      BY <1>6, FinishedListed DEF ReleaseElement, ReleaseFor
    <2> HIDE DEF gone
    <2>2. CASE fifo' = {}
      <3>1. ~cut'
        BY <1>a, <1>6, <2>2
      <3>2. tail' = Null
        BY <1>0, <2>1, <2>2 DEF TailWithout, TailLast
      <3> QED
        BY <2>2, <3>1, <3>2 DEF TailLast
    <2>3. CASE fifo' # {}
      <3>1. (cut' <=> cut) /\ fifo # {}
        BY <1>a, <1>6, <2>1, <2>3 DEF TailLast
      <3>2. CASE cut
        BY <1>0, <2>1, <2>3, <3>1, <3>2 DEF TailLast, TailWithout
      <3>3. CASE ~cut /\ tail \notin gone
        BY <2>1, <3>1, <3>3 DEF TailWithout, TailLast
      <3>4. CASE ~cut /\ tail \in gone
        <4>1. tail' = Newest(fifo')
          BY <2>1, <2>3, <3>4 DEF TailWithout
        <4>2. fifo' \in SUBSET fifo
          BY <2>1
        <4>3. tail' \in fifo' /\ \A f \in fifo' : serial[f] <= serial[tail']
          BY <1>0, <2>3, <4>1, <4>2, NewestExists
        <4> QED
          BY <2>1, <3>1, <3>4, <4>3 DEF TailLast
      <3> QED
        BY <3>2, <3>3, <3>4
    <2> QED
      BY <2>2, <2>3
  <1>7. CASE Write /\ Next
    BY <1>2, <1>3, <1>4, <1>7
       DEF Write, Allocate, Release, PushTake, PushCrash, PushNotify
  <1>8. ASSUME NEW r \in Readers, AssociateReader(r) \/ Read(r), Next
        PROVE  TailLast'
    BY <1>2, <1>6, <1>8 DEF AssociateReader, Read, StartTask, Synchronize,
                            SynchronizeCrash, PopElement, EndTask
  <1>9. CASE UNCHANGED vars
    BY <1>1, <1>9 DEF vars, history
  <1> QED
    BY <1>5, <1>7, <1>8, <1>9 DEF Next, Register

\* push can follow m_fifo_last, whatever was popped or given back before, if no
\* reader was released with messages in the list for others; if one was,
\* m_fifo_last is null until the list is empty.
THEOREM TailFollows == Spec => []TailIsLast
  <1>1. Init => TailLast
    BY DEF Init, TailLast
  <1>2. ChannelInv /\ TailLast /\ [Next]_vars => TailLast'
    BY TailStep
  <1> QED
    BY <1>1, <1>2, ChannelInvariant, LastIsNewest, PTL DEF Spec

-----------------------------------------------------------------------------
(* The elements that synchronize finds.                                    *)

\* What a reader has not read and may not pop yet.
Waiting(r) ==
    IF first[r] = Null THEN Unread(r)
    ELSE { e \in Unread(r) : serial[last[r]] < serial[e] }

\* Each notification of a reader stands for an element that waits for it, and
\* with a synchronous input each element that waits has its notification.
Covered(r) ==
    /\ r \notin ahead => Announced(r) <= Cardinality(Waiting(r))
    /\ r \in Synchron \ behind => Cardinality(Waiting(r)) <= Announced(r)

\* A synchronous input has a notification as long as its task works with it,
\* and as long as it has missed ones.
Activated(r) ==
    /\ task[r] = "starting" => volume[r] = notifications[r]
    /\ missed[r] > 0 \/ task[r] \in { "starting", "run" } => notifications[r] > 0

VolumeInv ==
    /\ IsFiniteSet(fifo)
    /\ \A r \in Readers : task[r] = "starting" => volume[r] <= notifications[r]
    /\ \A r \in Synchron : Activated(r)
    /\ ~broken => \A r \in associated : Covered(r)

\* Whether a reader has more or less notifications than messages is not decided
\* again while it is associated.
Decided(s) == (s \in ahead' <=> s \in ahead) /\ (s \in behind' <=> s \in behind)

\* What waits for a reader is part of the list, and finite like it.
LEMMA WaitingFinite ==
    ASSUME IsFiniteSet(fifo), NEW r
    PROVE  /\ Waiting(r) \subseteq Unread(r) /\ Unread(r) \subseteq fifo
           /\ IsFiniteSet(Waiting(r)) /\ Cardinality(Waiting(r)) \in Nat
  <1>1. Waiting(r) \subseteq Unread(r) /\ Unread(r) \subseteq fifo
    BY DEF Waiting, Unread
  <1>2. IsFiniteSet(Waiting(r))
    BY <1>1, FS_Subset
  <1> QED
    BY <1>1, <1>2, FS_CardinalityType

\* The elements behind newItem of synchronize that a reader has not read are the
\* ones that wait for it.
LEMMA NewIsWaiting ==
    ASSUME ChannelInv, NEW r \in Readers
    PROVE  { e \in NewElements(r) : e \in Unread(r) } = Waiting(r)
  <1>0. TypeOK /\ fifo \subseteq Elements
    BY DEF ChannelInv, TypeOK
  <1>1. CASE first[r] = Null
    <2> DEFINE expecting == { f \in fifo : bit[r] \in expects[f] }
    <2>1. NewElements(r) = { f \in fifo : /\ expecting # {}
                                          /\ serial[Oldest(expecting)] <= serial[f] }
      BY <1>1 DEF NewElements
    <2>2. expecting \in SUBSET Elements /\ Unread(r) \subseteq expecting
          /\ expecting \subseteq fifo
      BY <1>0 DEF Unread
    <2> HIDE DEF expecting
    <2>3. \A f \in expecting : serial[Oldest(expecting)] <= serial[f]
      BY <1>0, <2>2, OldestExists
    <2>4. \A e : e \in NewElements(r) /\ e \in Unread(r) <=> e \in Unread(r)
      BY <2>1, <2>2, <2>3
    <2> QED
      BY <1>1, <2>4 DEF Waiting
  <1>2. CASE first[r] # Null
    <2>1. NewElements(r) = { f \in fifo : serial[last[r]] < serial[f] }
      BY <1>2 DEF NewElements, Behind
    <2>2. Unread(r) \subseteq fifo
      BY DEF Unread
    <2> QED
      BY <1>2, <2>1, <2>2 DEF Waiting
  <1> QED
    BY <1>1, <1>2

\* A reader whose task synchronizes finds only elements that wait for it.
LEMMA NewWaits ==
    ASSUME ChannelInv, ~broken, NEW r \in associated,
           first[r] = Null => popped[r] = {}
    PROVE  NewElements(r) = Waiting(r)
  <1>0. TypeOK /\ InOrder(r) /\ r \in Readers /\ fifo \subseteq Elements
    BY DEF ChannelInv, AllInOrder, TypeOK
  <1>1. \A f \in Unread(r), g \in fifo : serial[f] <= serial[g] => g \in Unread(r)
    BY <1>0 DEF InOrder, Unread, TypeOK
  <1>2. NewElements(r) \subseteq fifo
    BY DEF NewElements, Behind
  <1>3. NewElements(r) \subseteq Unread(r)
    <2>1. CASE first[r] = Null
      <3> DEFINE expecting == { f \in fifo : bit[r] \in expects[f] }
      <3>1. NewElements(r) = { f \in fifo :
                /\ expecting # {}
                /\ serial[Oldest(expecting)] <= serial[f] }
        BY <2>1 DEF NewElements
      <3>2. expecting \in SUBSET Elements /\ expecting = Unread(r)
        BY <1>0, <2>1 DEF Unread
      <3> HIDE DEF expecting
      <3>3. expecting # {} => Oldest(expecting) \in Unread(r)
        BY <1>0, <3>2, OldestExists
      <3> QED
        BY <1>1, <3>1, <3>3
    <2>2. CASE first[r] # Null
      <3>1. last[r] \in Unread(r) /\ Unread(r) \subseteq fifo
        BY <1>0, <2>2 DEF InOrder, Unread
      <3>2. \A f \in NewElements(r) : serial[last[r]] < serial[f]
        BY <2>2 DEF NewElements, Behind
      <3>3. \A f \in fifo : serial[f] \in Nat
        BY <1>0 DEF TypeOK
      <3> QED
        BY <1>1, <1>2, <3>1, <3>2, <3>3
    <2> QED
      BY <2>1, <2>2
  <1> QED
    BY <1>0, <1>3, NewIsWaiting

\* A reader that nothing of happens to stays covered.
LEMMA CoveredKept ==
    ASSUME NEW s, Covered(s), Decided(s), Unread(s)' = Unread(s), first'[s] = first[s],
           last'[s] = last[s], \A e \in Unread(s) : serial'[e] = serial[e],
           serial'[last[s]] = serial[last[s]],
           push' = push, task'[s] = task[s],
           notifications'[s] = notifications[s], missed'[s] = missed[s]
    PROVE  Covered(s)'
  <1>1. Waiting(s)' = Waiting(s)
    BY DEF Waiting
  <1>2. Announced(s)' = Announced(s)
    BY DEF Announced, Unannounced
  <1> QED
    BY <1>1, <1>2 DEF Covered, Decided

\* The numbers in Announced.
LEMMA AnnouncedTypes ==
    ASSUME TypeOK, NEW r \in Readers
    PROVE  /\ Unannounced \in Nat /\ notifications[r] \in Nat
           /\ missed[r] \in Nat /\ volume[r] \in Nat
  BY DEF TypeOK, Unannounced

\* Writing and announcing.
LEMMA WriteVolume ==
    ASSUME ChannelInv, VolumeInv, ~broken, Write, ~LinksOldMask,
           NEW s \in associated, Decided(s)
    PROVE  Covered(s)'
  <1>0. /\ TypeOK /\ ElementsAccounted /\ PushPlace /\ Numbered /\ Registered
        /\ s \in Readers /\ fifo \subseteq Elements /\ IsFiniteSet(fifo)
        /\ InOrder(s) /\ Covered(s)
    BY DEF ChannelInv, AllInOrder, TypeOK, VolumeInv
  <1>1. ASSUME fifo' = fifo, serial' = serial, push' = push,
               UNCHANGED << readerVars, windowVars, task, inputVars >>,
               \A f \in fifo : expects'[f] = expects[f]
        PROVE  Covered(s)'
    <2>1. Unread(s)' = Unread(s)
      BY <1>1 DEF Unread
    <2> QED
      BY <1>0, <1>1, <2>1, CoveredKept
  <1>2. ASSUME NEW e \in Elements, Allocate(e) \/ Release(e)
        PROVE  Covered(s)'
    <2>1. e \in unused \/ e \in allocated
      BY <1>2 DEF Allocate, Release
    <2>2. e \notin fifo
      BY <1>0, <2>1 DEF ElementsAccounted
    <2>3. \A f \in fifo : expects'[f] = expects[f]
      BY <1>0, <1>2, <2>2 DEF Allocate, Release, TypeOK
    <2>4. /\ fifo' = fifo /\ serial' = serial /\ push' = push
          /\ UNCHANGED << readerVars, windowVars, task, inputVars >>
      BY <1>2 DEF Allocate, Release
    <2> QED
      BY <1>1, <2>3, <2>4
  <1>3. ASSUME (\E e \in Elements : PushTake(e)) \/ PushCrash
        PROVE  Covered(s)'
    <2>1. /\ UNCHANGED << fifo, serial, expects, readerVars, windowVars, taskVars >>
          /\ Unannounced' = Unannounced
      BY <1>3 DEF PushTake, PushCrash, Unannounced
    <2>2. Waiting(s)' = Waiting(s)
      BY <2>1 DEF Waiting, Unread
    <2>3. Announced(s)' = Announced(s)
      BY <2>1 DEF Announced
    <2> QED
      BY <1>0, <2>2, <2>3 DEF Covered, Decided
  <1>4. CASE PushLink
    <2>1. /\ writer \in Elements /\ writer \notin fifo /\ seen = mask
          /\ sent \in Nat
      BY <1>0, <1>4, FifoAssumption
         DEF PushLink, LinksOldMask, PushPlace, ElementsAccounted, Writing, TypeOK
    <2>2. /\ fifo' = fifo \cup {writer}
          /\ serial' = [serial EXCEPT ![writer] = sent + 1]
          /\ expects' = [expects EXCEPT ![writer] = seen]
          /\ UNCHANGED << readerVars, windowVars, taskVars >>
          /\ push = "taken" /\ push' = "linked"
      BY <1>4 DEF PushLink
    <2>3. /\ serial'[writer] = sent + 1 /\ expects'[writer] = mask
          /\ \A e \in fifo : /\ serial'[e] = serial[e] /\ serial[e] \in Nat
                              /\ expects'[e] = expects[e]
                              /\ serial[e] < sent + 1
      BY <1>0, <2>1, <2>2 DEF TypeOK, Numbered
    <2>4. Unread(s)' = Unread(s) \cup {writer} /\ Unread(s) \subseteq fifo
      BY <1>0, <2>1, <2>2, <2>3 DEF Unread, InOrder, Registered
    <2>5. Waiting(s)' = Waiting(s) \cup {writer}
      <3>1. CASE first[s] = Null
        BY <2>2, <2>4, <3>1 DEF Waiting
      <3>2. CASE first[s] # Null
        <4>1. last[s] \in fifo
          BY <1>0, <2>4, <3>2 DEF InOrder
        <4>2. Waiting(s) = { e \in Unread(s) : serial[last[s]] < serial[e] }
          BY <3>2 DEF Waiting
        <4>3. Waiting(s)' = { e \in Unread(s)' : serial'[last[s]] < serial'[e] }
          BY <2>2, <3>2 DEF Waiting
        <4> QED
          BY <2>3, <2>4, <4>1, <4>2, <4>3
      <3> QED
        BY <3>1, <3>2
    <2>6. /\ IsFiniteSet(Waiting(s)) /\ Waiting(s) \subseteq fifo
          /\ Cardinality(Waiting(s)) \in Nat
      BY <1>0, WaitingFinite
    <2>7. Cardinality(Waiting(s)') = Cardinality(Waiting(s)) + 1
      BY <2>1, <2>5, <2>6, FS_AddElement
    <2>8. Announced(s)' = Announced(s) + 1 /\ Announced(s) \in Nat
      BY <1>0, <2>2, AnnouncedTypes DEF Announced, Unannounced
    <2> QED
      BY <1>0, <2>6, <2>7, <2>8 DEF Covered, Decided
  <1>5. CASE PushNotify
    <2>1. /\ UNCHANGED << listVars, readerVars, windowVars, task, volume >>
          /\ Unannounced = 1 /\ Unannounced' = 0
      BY <1>5 DEF PushNotify, Unannounced
    <2>2. /\ notifications[s] \in Nat /\ missed[s] \in Nat
          /\ notifications'[s] = (IF Surplus(s) THEN notifications[s]
                                                ELSE notifications[s] + 1)
          /\ missed'[s] = (IF Surplus(s) THEN missed[s] + 1 ELSE missed[s])
      BY <1>0, <1>5 DEF PushNotify, TypeOK
    <2>3. Waiting(s)' = Waiting(s) /\ Cardinality(Waiting(s)) \in Nat
      BY <1>0, <2>1, WaitingFinite DEF Waiting, Unread
    <2>4. /\ Announced(s) = 1 + missed[s]
                             + (IF task[s] = "run" THEN 0 ELSE notifications[s])
          /\ Announced(s)' = missed'[s]
                     + (IF task[s] = "run" THEN 0 ELSE notifications'[s])
      BY <2>1, <2>2 DEF Announced
    <2>5. /\ Announced(s)' <= Announced(s)
          /\ s \in Synchron => Announced(s)' = Announced(s)
      <3>1. CASE Surplus(s)
        BY <2>2, <2>4, <3>1
      <3>2. CASE ~Surplus(s)
        <4>1. s \in Synchron => task[s] # "run"
          BY <2>2, <3>2 DEF VolumeInv, Activated, Surplus
        <4> QED
          BY <2>2, <2>4, <3>2, <4>1
      <3> QED
        BY <3>1, <3>2
    <2>6. Announced(s) \in Nat /\ Announced(s)' \in Nat
      <3>1. CASE task[s] = "run"
        BY <2>2, <2>4, <3>1
      <3>2. CASE task[s] # "run"
        BY <2>2, <2>4, <3>2
      <3> QED
        BY <3>1, <3>2
    <2> QED
      BY <1>0, <2>3, <2>5, <2>6 DEF Covered, Decided
  <1>6. CASE Pop
    BY <1>6 DEF Pop
  <1> QED
    BY <1>2, <1>3, <1>4, <1>5, <1>6 DEF Write

\* A reader that comes has the elements it has been notified of, or is ahead.
LEMMA AssociateVolume ==
    ASSUME ChannelInv, VolumeInv, ~broken, NEW r \in Readers,
           AssociateReader(r), History, NEW s \in associated'
    PROVE  Covered(s)'
  <1>0. TypeOK /\ AllInOrder /\ associated \subseteq Readers
    BY DEF ChannelInv, TypeOK
  <1>1. /\ r \notin associated /\ associated' = associated \cup {r}
        /\ UNCHANGED << fifo, serial, windowVars, push, taskVars >>
    BY DEF AssociateReader
  <1>2. /\ ahead' = (ahead \cap associated')
                      \cup { q \in associated' \ associated :
                                Announced(q) > Cardinality(fifo) }
        /\ behind' = (behind \cap associated')
                       \cup { q \in associated' \ associated :
                                 Announced(q) < Cardinality(fifo) }
    BY DEF History
  <1>3. CASE s = r
    <2>1. /\ r \notin ahead' => ~ (Announced(r) > Cardinality(fifo))
          /\ r \notin behind' => ~ (Announced(r) < Cardinality(fifo))
      BY <1>1, <1>2
    <2>2. first[r] = Null /\ Unread(r)' = fifo
      BY <1>0, <1>1, AssociateOrder DEF AllInOrder, Outside
    <2>3. Waiting(r)' = fifo
      BY <1>1, <2>2 DEF Waiting
    <2>4. Announced(r)' = Announced(r)
      BY <1>1 DEF Announced, Unannounced
    <2>5. Announced(r) \in Nat /\ Cardinality(fifo) \in Nat
      BY <1>0, AnnouncedTypes, FS_CardinalityType DEF VolumeInv, Announced
    <2> QED
      BY <1>3, <2>1, <2>3, <2>4, <2>5 DEF Covered, Decided
  <1>4. CASE s # r
    <2>1. s \in associated /\ Decided(s)
      BY <1>1, <1>2, <1>4 DEF Decided
    <2>2. Covered(s) /\ Unread(s)' = Unread(s)
      BY <2>1, AssociateOrder DEF VolumeInv
    <2> QED
      BY <1>1, <2>1, <2>2, CoveredKept
  <1> QED
    BY <1>3, <1>4

\* What waits for the others stays.
LEMMA LeaveVolume ==
    ASSUME ChannelInv, VolumeInv, ~broken, NEW r \in Readers,
           ReleaseReader(r), History, NEW s \in associated'
    PROVE  Covered(s)'
  <1>1. /\ TypeOK /\ associated' = associated \ {r} /\ associated \subseteq Readers
        /\ UNCHANGED << serial, last, push, taskVars >>
        /\ first' = [first EXCEPT ![r] = Null]
    BY DEF ReleaseReader, ChannelInv, TypeOK
  <1>2. s \in associated /\ s # r /\ Decided(s)
    BY <1>1 DEF History, Decided
  <1>3. Covered(s) /\ Unread(s)' = Unread(s)
    BY <1>2, LeaveOrder DEF VolumeInv
  <1>4. first'[s] = first[s]
    BY <1>1, <1>2 DEF TypeOK
  <1> QED
    BY <1>1, <1>2, <1>3, <1>4, CoveredKept

\* What synchronize hands out waits no more, the rest does.
LEMMA SynchronizeVolume ==
    ASSUME ChannelInv, VolumeInv, ~broken, NEW r \in Readers, Synchronize(r),
           ~DeliversAgain(r), NEW s \in associated, Decided(s)
    PROVE  Covered(s)'
  <1>0. /\ TypeOK /\ associated \subseteq Readers /\ fifo \subseteq Elements
        /\ Covered(s) /\ IsFiniteSet(fifo)
    BY DEF ChannelInv, VolumeInv, TypeOK
  <1>1. /\ task[r] = "starting" /\ push = "idle" /\ task'[r] = "run"
        /\ UNCHANGED << listVars, readerVars, popped, pushVars, inputVars >>
        /\ \A q \in Readers \ {r} :
              /\ task'[q] = task[q] /\ first'[q] = first[q] /\ last'[q] = last[q]
    BY <1>0 DEF Synchronize, TypeOK
  <1>2. Unread(s)' = Unread(s)
    BY <1>1 DEF Unread
  <1>3. CASE s # r
    <2>1. s \in Readers \ {r}
      BY <1>0, <1>3
    <2> QED
      BY <1>0, <1>1, <1>2, <2>1, CoveredKept
  <1>4. CASE s = r
    <2>1. NewElements(r) = Waiting(r)
      BY <1>1, <1>4, NewWaits DEF DeliversAgain
    <2>2. PICK e \in Waiting(r) : /\ UpTo(e, Waiting(r)) = volume[r]
                                  /\ last' = [last EXCEPT ![r] = e]
      BY <1>4, <2>1 DEF Synchronize
    <2>3. /\ Waiting(r) \subseteq Unread(r) /\ Unread(r) \subseteq fifo
          /\ IsFiniteSet(Waiting(r)) /\ Cardinality(Waiting(r)) \in Nat
      BY <1>0, WaitingFinite
    <2>4. first'[r] # Null /\ last'[r] = e
      <3>1. Waiting(r) \in SUBSET Elements /\ Waiting(r) # {}
        BY <1>0, <2>2, <2>3
      <3>2. Oldest(Waiting(r)) \in Elements
        BY <1>0, <3>1, OldestExists
      <3>3. Oldest(Waiting(r)) # Null
        BY <3>2, FifoAssumption
      <3>4. first'[r] = IF first[r] = Null THEN Oldest(Waiting(r)) ELSE first[r]
        BY <1>0, <1>4, <2>1 DEF Synchronize, TypeOK
      <3>5. last'[r] = e
        BY <1>0, <2>2 DEF TypeOK
      <3> QED
        BY <3>3, <3>4, <3>5
    <2>5. \A f \in fifo : serial[f] \in Nat
      BY <1>0 DEF TypeOK
    <2> DEFINE Taken == { f \in Waiting(r) : serial[f] <= serial[e] }
               Rest == { f \in Waiting(r) : serial[e] < serial[f] }
    <2>6. Waiting(r)' = Rest
      <3>1. Waiting(r)' = { f \in Unread(r) : serial[e] < serial[f] }
        BY <1>1, <1>2, <1>4, <2>4 DEF Waiting
      <3>2. CASE first[r] = Null
        BY <3>1, <3>2 DEF Waiting
      <3>3. CASE first[r] # Null
        <4>1. Waiting(r) = { f \in Unread(r) : serial[last[r]] < serial[f] }
          BY <3>3 DEF Waiting
        <4>2. last[r] \in Unread(r)
          BY <1>4, <3>3 DEF ChannelInv, AllInOrder, InOrder
        <4>3. e \in Unread(r) /\ serial[last[r]] < serial[e]
          BY <2>2, <4>1
        <4>4. \A f \in Unread(r) :
                 serial[e] < serial[f] => serial[last[r]] < serial[f]
          BY <2>3, <2>5, <4>2, <4>3
        <4> QED
          BY <3>1, <4>1, <4>4
      <3> QED
        BY <3>2, <3>3
    <2>7. Cardinality(Rest) = Cardinality(Waiting(r)) - volume[r]
      <3>1. Taken \subseteq Waiting(r) /\ Cardinality(Taken) = volume[r]
        BY <2>2 DEF UpTo
      <3>2. Waiting(r) \ Taken = Rest
        BY <2>2, <2>3, <2>5
      <3>3. Waiting(r) \cap Taken = Taken
        BY <3>1
      <3> HIDE DEF Taken, Rest
      <3>4. Cardinality(Waiting(r) \ Taken)
               = Cardinality(Waiting(r)) - Cardinality(Waiting(r) \cap Taken)
        BY <2>3, FS_Difference, Zenon
      <3> QED
        BY <3>1, <3>2, <3>3, <3>4
    <2>8. /\ Announced(r) = missed[r] + notifications[r]
          /\ Announced(r)' = missed[r]
          /\ volume[r] <= notifications[r]
          /\ r \in Synchron => volume[r] = notifications[r]
      BY <1>0, <1>1, AnnouncedTypes DEF Announced, Unannounced, VolumeInv, Activated
    <2> HIDE DEF Rest
    <2> QED
      BY <1>0, <1>4, <2>3, <2>6, <2>7, <2>8, AnnouncedTypes DEF Covered, Decided
  <1> QED
    BY <1>3, <1>4

\* Popping moves the window over elements that wait no more.
LEMMA PopVolume ==
    ASSUME ChannelInv, VolumeInv, ~broken, NEW r \in Readers, PopElement(r),
           NEW s \in associated, Decided(s)
    PROVE  Covered(s)'
  <1>0. /\ TypeOK /\ Numbered /\ associated \subseteq Readers
        /\ fifo \subseteq Elements /\ Covered(s)
    BY DEF ChannelInv, TypeOK, VolumeInv
  <1> DEFINE head == first[r]
  <1>1. /\ first[r] # Null /\ UNCHANGED << listVars, readerVars, pushVars, taskVars >>
        /\ popped' = [popped EXCEPT ![r] = @ \cup {first[r]}]
    BY DEF PopElement
  <1>2. r \in associated
    BY <1>1 DEF ChannelInv, AllInOrder, Outside
  <1>3. /\ head \in Unread(r) /\ last[r] \in Unread(r)
        /\ serial[head] <= serial[last[r]]
        /\ \A f \in Unread(r) : serial[head] <= serial[f]
    BY <1>1, <1>2 DEF ChannelInv, AllInOrder, InOrder
  <1>4. /\ Unread(r) \subseteq fifo /\ \A f \in fifo : serial[f] \in Nat
    BY <1>0 DEF Unread, TypeOK
  <1>5. Unread(r)' = Unread(r) \ {head}
    <2>1. popped'[r] = popped[r] \cup {head}
      BY <1>0, <1>1 DEF TypeOK
    <2> QED
      BY <1>1, <2>1 DEF Unread
  <1>6. \A f \in Unread(r) \ {head} : serial[head] < serial[f]
    BY <1>0, <1>3, <1>4 DEF Numbered
  <1>7. Waiting(r) = { f \in Unread(r) : serial[last[r]] < serial[f] }
    BY <1>1 DEF Waiting
  <1>8. ASSUME first[r] = last[r]
        PROVE  Waiting(r)' = Waiting(r)
    <2>1. first'[r] = Null
      BY <1>0, <1>8 DEF PopElement, TypeOK
    <2>2. Waiting(r)' = Unread(r) \ {head}
      BY <1>5, <2>1 DEF Waiting
    <2> QED
      BY <1>3, <1>4, <1>6, <1>7, <1>8, <2>2
  <1>9. ASSUME first[r] # last[r]
        PROVE  Waiting(r)' = Waiting(r)
    <2>1. Oldest(Behind(first[r])) \in fifo
      BY <1>1, <1>9, NextElement
    <2>2. first'[r] # Null /\ last' = last
      BY <1>0, <1>9, <2>1, FifoAssumption DEF PopElement, TypeOK
    <2>3. Waiting(r)' = { f \in Unread(r) \ {head} : serial[last[r]] < serial[f] }
      BY <1>1, <1>5, <2>2 DEF Waiting
    <2>4. ~ (serial[last[r]] < serial[head])
      BY <1>3, <1>4
    <2> QED
      BY <1>7, <2>3, <2>4
  <1>10. CASE s = r
    <2>1. Waiting(s)' = Waiting(s)
      BY <1>8, <1>9, <1>10
    <2>2. Announced(s)' = Announced(s)
      BY <1>1 DEF Announced, Unannounced
    <2> QED
      BY <1>0, <2>1, <2>2 DEF Covered, Decided
  <1>11. CASE s # r
    <2>1. /\ first'[s] = first[s] /\ last'[s] = last[s]
          /\ popped'[s] = popped[s]
      BY <1>0, <1>11 DEF PopElement, TypeOK
    <2>2. Unread(s)' = Unread(s)
      BY <1>1, <2>1 DEF Unread
    <2> QED
      BY <1>0, <1>1, <2>1, <2>2, CoveredKept
  <1> QED
    BY <1>10, <1>11

\* The steps of the task of a reader.
LEMMA ReadVolume ==
    ASSUME ChannelInv, VolumeInv, ~broken, NEW r \in Readers, Read(r),
           ~DeliversAgain(r), ~SynchronizeCrash(r), NEW s \in associated, Decided(s)
    PROVE  Covered(s)'
  <1>0. TypeOK /\ s \in Readers /\ Covered(s) /\ IsFiniteSet(fifo)
    BY DEF ChannelInv, TypeOK, VolumeInv
  <1>1. ASSUME StartTask(r)
        PROVE  Covered(s)'
    <2>1. /\ UNCHANGED << listVars, readerVars, windowVars, pushVars, inputVars >>
          /\ (task[s] # "run" /\ task'[s] # "run") \/ task'[s] = task[s]
      BY <1>0, <1>1 DEF StartTask, TypeOK
    <2>2. Waiting(s)' = Waiting(s)
      BY <2>1 DEF Waiting, Unread
    <2>3. Announced(s)' = Announced(s)
      BY <2>1 DEF Announced, Unannounced
    <2> QED
      BY <1>0, <2>2, <2>3 DEF Covered, Decided
  <1>2. ASSUME EndTask(r)
        PROVE  Covered(s)'
    <2>1. UNCHANGED << listVars, readerVars, windowVars, pushVars >>
      BY <1>2 DEF EndTask
    <2>2. Waiting(s)' = Waiting(s) /\ Unannounced' = Unannounced
      BY <2>1 DEF Waiting, Unread, Unannounced
    <2>3. CASE s # r
      <3>1. /\ task'[s] = task[s] /\ notifications'[s] = notifications[s]
            /\ missed'[s] = missed[s]
        BY <1>0, <1>2, <2>3 DEF EndTask, TypeOK
      <3>2. Announced(s)' = Announced(s)
        BY <2>2, <3>1 DEF Announced
      <3> QED
        BY <1>0, <2>2, <3>2 DEF Covered, Decided
    <2>4. CASE s = r
      <3>1. /\ task[r] = "run" /\ task'[r] = "wait"
            /\ notifications[r] \in Nat /\ missed[r] \in Nat
        BY <1>0, <1>2 DEF EndTask, TypeOK
      <3>2. Announced(r)' = Announced(r)
        <4>1. CASE Overtakes(r)
          <5>1. notifications'[r] = 1 /\ missed'[r] = missed[r] - 1
            BY <1>0, <1>2, <4>1 DEF EndTask, TypeOK
          <5> QED
            BY <2>2, <3>1, <5>1, <1>0, AnnouncedTypes DEF Announced
        <4>2. CASE ~Overtakes(r)
          <5>1. notifications'[r] = 0 /\ missed'[r] = missed[r]
            BY <1>0, <1>2, <4>2 DEF EndTask, TypeOK
          <5> QED
            BY <2>2, <3>1, <5>1, <1>0, AnnouncedTypes DEF Announced
        <4> QED
          BY <4>1, <4>2
      <3> QED
        BY <1>0, <2>2, <2>4, <3>2 DEF Covered, Decided
    <2> QED
      BY <2>3, <2>4
  <1>3. ASSUME NEW e \in Elements, ReleaseElement(r, e)
        PROVE  Covered(s)'
    <2>1. /\ UNCHANGED << serial, first, last, push, task, notifications, missed >>
      BY <1>3 DEF ReleaseElement
    <2>2. Unread(s)' = Unread(s)
      BY <1>3, ReleaseOrder
    <2> QED
      BY <1>0, <2>1, <2>2, CoveredKept
  <1> QED
    BY <1>1, <1>2, <1>3, SynchronizeVolume, PopVolume DEF Read

\* The list stays finite, and a task that starts has read its notifications
\* before they could become more.
LEMMA CountedStep ==
    ASSUME ChannelInv, VolumeInv, Next
    PROVE  /\ IsFiniteSet(fifo')
           /\ \A r \in Readers :
                 task'[r] = "starting" => volume'[r] <= notifications'[r]
  <1>0. /\ TypeOK /\ IsFiniteSet(fifo)
        /\ \A r \in Readers : task[r] = "starting" => volume[r] <= notifications[r]
        /\ \A r \in Readers : notifications[r] \in Nat /\ volume[r] \in Nat
    BY DEF ChannelInv, VolumeInv, TypeOK
  <1>1. CASE PushLink
    <2>1. fifo' = fifo \cup {writer} /\ UNCHANGED taskVars
      BY <1>1 DEF PushLink
    <2>2. IsFiniteSet(fifo')
      BY <1>0, <2>1, FS_AddElement
    <2> QED
      BY <1>0, <2>1, <2>2
  <1>2. CASE PushNotify
    <2>1. /\ UNCHANGED << fifo, task, volume >>
          /\ \A r \in Readers : notifications'[r] = notifications[r]
                             \/ notifications'[r] = notifications[r] + 1
      BY <1>2 DEF PushNotify
    <2> QED
      BY <1>0, <2>1
  <1>3. ASSUME fifo' \subseteq fifo, UNCHANGED << task, notifications, volume >>
        PROVE  /\ IsFiniteSet(fifo')
               /\ \A r \in Readers :
                     task'[r] = "starting" => volume'[r] <= notifications'[r]
    BY <1>0, <1>3, FS_Subset
  <1>4. CASE Write /\ ~PushLink /\ ~PushNotify
    BY <1>3, <1>4 DEF Write, Allocate, Release, PushTake, PushCrash, Pop
  <1>5. CASE Register
    BY <1>3, <1>5 DEF Register, AssociateReader, ReleaseReader, ReleaseFor
  <1>6. ASSUME NEW r \in Readers, PopElement(r) \/ \E e \in Elements : ReleaseElement(r, e)
        PROVE  /\ IsFiniteSet(fifo')
               /\ \A q \in Readers :
                     task'[q] = "starting" => volume'[q] <= notifications'[q]
    BY <1>3, <1>6 DEF PopElement, ReleaseElement, ReleaseFor
  <1>7. ASSUME NEW r \in Readers, StartTask(r) \/ Synchronize(r)
                                    \/ SynchronizeCrash(r) \/ EndTask(r)
        PROVE  /\ IsFiniteSet(fifo')
               /\ \A q \in Readers :
                     task'[q] = "starting" => volume'[q] <= notifications'[q]
    <2>1. fifo' = fifo
      BY <1>7 DEF StartTask, Synchronize, SynchronizeCrash, EndTask
    <2>2. \A q \in Readers \ {r} :
             /\ task'[q] = task[q] /\ volume'[q] = volume[q]
             /\ notifications'[q] = notifications[q]
      BY <1>0, <1>7 DEF StartTask, Synchronize, SynchronizeCrash, EndTask, TypeOK
    <2>3. task'[r] = "starting" => volume'[r] <= notifications'[r]
      BY <1>0, <1>7 DEF StartTask, Synchronize, SynchronizeCrash, EndTask, TypeOK
    <2> QED
      BY <1>0, <2>1, <2>2, <2>3
  <1> QED
    BY <1>1, <1>2, <1>4, <1>5, <1>6, <1>7 DEF Next, Read

\* A synchronous input loses its notifications only at the end of an execution,
\* and then takes a missed one if there is one.
LEMMA ActivatedStep ==
    ASSUME ChannelInv, VolumeInv, Next, NEW s \in Synchron
    PROVE  Activated(s)'
  <1>0. TypeOK /\ s \in Readers /\ Activated(s)
    BY FifoAssumption DEF ChannelInv, VolumeInv
  <1>1. /\ notifications[s] \in Nat /\ missed[s] \in Nat
    BY <1>0 DEF TypeOK
  <1>2. CASE PushNotify
    <2>1. /\ UNCHANGED << task, volume >>
          /\ IF notifications[s] > 0
             THEN notifications'[s] = notifications[s] /\ missed'[s] = missed[s] + 1
             ELSE notifications'[s] = notifications[s] + 1 /\ missed'[s] = missed[s]
      BY <1>0, <1>2 DEF PushNotify, Surplus
    <2>2. CASE notifications[s] > 0
      BY <1>0, <1>1, <2>1, <2>2 DEF Activated
    <2>3. CASE ~ (notifications[s] > 0)
      BY <1>0, <1>1, <2>1, <2>3 DEF Activated
    <2> QED
      BY <2>2, <2>3
  <1>3. ASSUME UNCHANGED << task, notifications, missed, volume >>
        PROVE  Activated(s)'
    BY <1>0, <1>3 DEF Activated
  <1>4. CASE Write /\ ~PushNotify
    BY <1>3, <1>4 DEF Write, Allocate, Release, PushTake, PushLink, PushCrash, Pop,
                      taskVars, inputVars
  <1>5. CASE Register
    BY <1>3, <1>5 DEF Register, AssociateReader, ReleaseReader, taskVars, inputVars
  <1>6. ASSUME NEW r \in Readers, Read(r)
        PROVE  Activated(s)'
    <2>1. CASE r # s
      <3>1. /\ task'[s] = task[s] /\ volume'[s] = volume[s]
            /\ notifications'[s] = notifications[s] /\ missed'[s] = missed[s]
        BY <1>0, <1>6, <2>1 DEF Read, StartTask, Synchronize, SynchronizeCrash,
              PopElement, EndTask, ReleaseElement, TypeOK, taskVars, inputVars
      <3> QED
        BY <1>0, <3>1 DEF Activated
    <2>2. ASSUME r = s, StartTask(r)
          PROVE  Activated(s)'
      BY <1>0, <1>1, <2>2 DEF StartTask, Activated, TypeOK, inputVars
    <2>3. ASSUME r = s, Synchronize(r) \/ SynchronizeCrash(r)
          PROVE  Activated(s)'
      <3>1. /\ task[s] = "starting" /\ task'[s] # "starting"
            /\ notifications' = notifications /\ missed' = missed
        BY <1>0, <2>3 DEF Synchronize, SynchronizeCrash, TypeOK, inputVars
      <3> QED
        BY <1>0, <3>1 DEF Activated
    <2>4. ASSUME PopElement(r) \/ \E e \in Elements : ReleaseElement(r, e)
          PROVE  Activated(s)'
      BY <1>3, <2>4 DEF PopElement, ReleaseElement, taskVars, inputVars
    <2>5. ASSUME r = s, EndTask(r)
          PROVE  Activated(s)'
      <3>1. task'[s] = "wait"
        BY <1>0, <2>5 DEF EndTask, TypeOK
      <3>2. CASE Overtakes(s)
        <4>1. notifications'[s] = 1
          BY <1>0, <2>5, <3>2 DEF EndTask, TypeOK
        <4> QED
          BY <3>1, <4>1 DEF Activated
      <3>3. CASE ~Overtakes(s)
        <4>1. missed'[s] = missed[s] /\ ~ (missed[s] > 0)
          BY <1>0, <2>5, <3>3 DEF EndTask, Overtakes, TypeOK
        <4> QED
          BY <3>1, <4>1 DEF Activated
      <3> QED
        BY <3>2, <3>3
    <2> QED
      BY <1>6, <2>1, <2>2, <2>3, <2>4, <2>5 DEF Read
  <1> QED
    BY <1>2, <1>4, <1>5, <1>6 DEF Next

\* What synchronize asserts follows from the invariant.
LEMMA VolumeFound == ChannelInv /\ VolumeInv => VolumeAvailable
  <1> SUFFICES ASSUME ChannelInv, VolumeInv, ~broken, NEW r \in associated \ ahead,
                      task[r] = "starting", push = "idle"
               PROVE  Cardinality({ e \in NewElements(r) : e \in Unread(r) })
                         >= volume[r]
    BY DEF VolumeAvailable
  <1>0. TypeOK /\ r \in Readers /\ IsFiniteSet(fifo)
    BY DEF ChannelInv, TypeOK, VolumeInv
  <1>1. { e \in NewElements(r) : e \in Unread(r) } = Waiting(r)
    BY <1>0, NewIsWaiting
  <1>2. Cardinality(Waiting(r)) \in Nat
    BY <1>0, WaitingFinite
  <1>3. /\ notifications[r] \in Nat /\ missed[r] \in Nat /\ volume[r] \in Nat
    BY <1>0, AnnouncedTypes
  <1>4. Announced(r) = missed[r] + notifications[r]
    BY <1>3 DEF Announced, Unannounced
  <1>5. Announced(r) <= Cardinality(Waiting(r)) /\ volume[r] <= notifications[r]
    BY <1>0 DEF VolumeInv, Covered
  <1>6. Cardinality(Waiting(r)) >= volume[r]
    BY <1>2, <1>3, <1>4, <1>5
  <1> QED
    BY <1>1, <1>6, Zenon

\* What is announced and what waits belongs together in every reachable state.
THEOREM VolumeInvariant == Spec => []VolumeInv
  <1>1. Init => VolumeInv
    BY FifoAssumption, FS_EmptySet DEF Init, VolumeInv, Activated
  <1>2. ChannelInv /\ VolumeInv /\ [Next]_vars => VolumeInv'
    <2>1. ASSUME ChannelInv, VolumeInv, Next
          PROVE  VolumeInv'
      <3>1. ASSUME ~broken', NEW s \in associated'
            PROVE  Covered(s)'
        <4>1. /\ ~broken /\ History /\ ~LinksOldMask
              /\ \A r \in Readers : ~DeliversAgain(r) /\ task'[r] # "crashed"
          BY <2>1, <3>1 DEF Next, History
        <4>2. ASSUME associated' = associated
              PROVE  s \in associated /\ Decided(s)
          BY <3>1, <4>1, <4>2 DEF History, Decided
        <4>3. CASE Write
          <5>1. associated' = associated
            BY <4>3 DEF Write, Allocate, Release, PushTake, PushLink, PushCrash,
                        PushNotify, Pop
          <5> QED
            BY <2>1, <4>1, <4>2, <4>3, <5>1, WriteVolume
        <4>4. CASE Register
          BY <2>1, <3>1, <4>1, <4>4, AssociateVolume, LeaveVolume DEF Register
        <4>5. ASSUME NEW r \in Readers, Read(r)
              PROVE  Covered(s)'
          <5>1. associated' = associated
            BY <4>5 DEF Read, StartTask, Synchronize, SynchronizeCrash, PopElement,
                        EndTask, ReleaseElement
          <5>2. ~SynchronizeCrash(r)
            BY <2>1, <4>1 DEF SynchronizeCrash, ChannelInv, TypeOK
          <5> QED
            BY <2>1, <4>1, <4>2, <4>5, <5>1, <5>2, ReadVolume
        <4> QED
          BY <2>1, <4>3, <4>4, <4>5 DEF Next
      <3> QED
        BY <2>1, <3>1, CountedStep, ActivatedStep DEF VolumeInv
    <2>2. ASSUME VolumeInv, UNCHANGED vars
          PROVE  VolumeInv'
      BY <2>2 DEF VolumeInv, Covered, Activated, Waiting, Unread, Announced,
                  Unannounced, vars, history
    <2> QED
      BY <2>1, <2>2
  <1> QED
    BY <1>1, <1>2, ChannelInvariant, PTL DEF Spec

\* The assertions of synchronize hold: a task that starts finds the elements
\* that its input was notified of, whatever is pushed, read and released, and
\* whoever comes and goes between the notification and the start; unless the
\* input had more notifications than there were messages when its reader was
\* associated.
THEOREM VolumeFits == Spec => []VolumeAvailable
  BY ChannelInvariant, VolumeInvariant, VolumeFound, PTL

\* That nothing is forgotten follows from the invariant.
LEMMA FreshAnnounced == ChannelInv /\ VolumeInv => NoMessageForgotten
  <1> SUFFICES ASSUME ChannelInv, VolumeInv, ~broken,
                      NEW r \in (Synchron \cap associated) \ (ahead \cup behind)
               PROVE  /\ Cardinality(Fresh(r)) = Announced(r)
                      /\ task[r] = "wait" /\ Fresh(r) # {} =>
                            notifications[r] > 0 \/ push = "linked"
    BY DEF NoMessageForgotten
  <1>0. TypeOK /\ r \in Readers /\ IsFiniteSet(fifo) /\ Covered(r) /\ Activated(r)
    BY DEF ChannelInv, TypeOK, VolumeInv
  <1>1. Fresh(r) = Waiting(r)
    BY DEF Fresh, Waiting
  <1>2. IsFiniteSet(Waiting(r)) /\ Cardinality(Waiting(r)) \in Nat
    BY <1>0, WaitingFinite
  <1>3. /\ Unannounced \in Nat /\ notifications[r] \in Nat /\ missed[r] \in Nat
    BY <1>0, AnnouncedTypes
  <1>4. Announced(r) \in Nat
    BY <1>3 DEF Announced
  <1>5. Cardinality(Waiting(r)) = Announced(r)
    BY <1>0, <1>2, <1>4 DEF Covered
  <1>6. ASSUME task[r] = "wait", Waiting(r) # {}
        PROVE  notifications[r] > 0 \/ push = "linked"
    <2>1. Announced(r) # 0
      BY <1>2, <1>5, <1>6, FS_EmptySet
    <2>2. Announced(r) = Unannounced + missed[r] + notifications[r]
      BY <1>6 DEF Announced
    <2>3. push # "linked" => Unannounced = 0
      BY DEF Unannounced
    <2> QED
      BY <1>0, <1>3, <2>1, <2>2, <2>3 DEF Activated
  <1> QED
    BY <1>1, <1>5, <1>6

\* No message for a reader with a synchronous input is forgotten: each one that
\* it was not synchronized with has its notification, and its task does not rest
\* meanwhile, whatever is pushed before, during and after its executions.
THEOREM NothingForgotten == Spec => []NoMessageForgotten
  BY ChannelInvariant, VolumeInvariant, FreshAnnounced, PTL

-----------------------------------------------------------------------------
(* The mailboxes.                                                          *)

\* What a consumer has not taken is listed.
LEMMA TakenFromList == \A c : NotTaken(c) \subseteq fifo
  BY DEF NotTaken, Unread

\* Who has what: associated readers what they have not read, Direct without
\* readers the whole list, and nobody else anything.
LEMMA WhoHasWhat ==
    ASSUME ChannelInv
    PROVE  /\ associated \subseteq Readers /\ Open \in SUBSET Consumers
           /\ \A r \in associated : NotTaken(r) = Unread(r)
           /\ associated = {} => NotTaken(Direct) = fifo
           /\ \A c : c \notin Open => NotTaken(c) = {}
  <1>1. associated \subseteq Readers /\ Direct \notin associated
    BY ConsumersDiffer DEF ChannelInv, TypeOK
  <1> QED
    BY <1>1 DEF NotTaken, Open, Consumers

\* The mailboxes.
Boxes == [c \in Consumers |-> NumbersOf(NotTaken(c))]
mail == << Open, Boxes, NumbersOf(fifo), sent, broken >>

\* A step that takes nothing from a consumer and gives it nothing.
LEMMA BoxesKept ==
    ASSUME ChannelInv, associated' = associated, serial' = serial,
           \A r \in associated : Unread(r)' = Unread(r),
           associated = {} => fifo' = fifo
    PROVE  UNCHANGED << Open, Boxes >>
  <1>1. ASSUME NEW c \in Consumers
        PROVE  NumbersOf(NotTaken(c))' = NumbersOf(NotTaken(c))
    <2>1. NotTaken(c)' = NotTaken(c)
      BY DEF NotTaken
    <2> QED
      BY <2>1 DEF NumbersOf
  <1>2. Boxes' = Boxes
    BY <1>1 DEF Boxes
  <1>3. Open' = Open
    BY DEF Open
  <1> QED
    BY <1>2, <1>3

\* Only the numbers of messages that are listed are in a mailbox.
LEMMA BoxesListed == \A c \in Consumers : Boxes[c] \subseteq NumbersOf(fifo)
  BY TakenFromList DEF Boxes, NumbersOf

\* Of the steps of the writer only PushLink and Pop change a mailbox.
LEMMA IdleWrite ==
    ASSUME ChannelInv, Write, ~ PushLink, ~ Pop
    PROVE  UNCHANGED << Open, Boxes, NumbersOf(fifo), sent >>
  <1>1. ASSUME NEW e \in Elements, Allocate(e) \/ Release(e)
        PROVE  UNCHANGED << Open, Boxes, NumbersOf(fifo), sent >>
    <2>1. /\ e \notin fifo /\ fifo' = fifo /\ sent' = sent /\ serial' = serial
          /\ associated' = associated /\ bit' = bit /\ popped' = popped
          /\ expects' = [expects EXCEPT ![e] = expects'[e]]
      BY <1>1 DEF Allocate, Release, ElementsAccounted, ChannelInv, TypeOK
    <2>2. \A f \in fifo : expects'[f] = expects[f]
      BY <2>1 DEF ChannelInv, TypeOK
    <2>3. \A r \in associated : Unread(r)' = Unread(r)
      BY <2>1, <2>2 DEF Unread
    <2> QED
      BY <2>1, <2>3, BoxesKept DEF NumbersOf
  <1>2. ASSUME (\E e \in Elements : PushTake(e)) \/ PushCrash \/ PushNotify
        PROVE  UNCHANGED << Open, Boxes, NumbersOf(fifo), sent >>
    <2>1. UNCHANGED << fifo, serial, expects, readerVars, popped, sent >>
      BY <1>2 DEF PushTake, PushCrash, PushNotify
    <2>2. \A r \in associated : Unread(r)' = Unread(r)
      BY <2>1 DEF Unread
    <2> QED
      BY <2>1, <2>2, BoxesKept DEF NumbersOf
  <1> QED
    BY <1>1, <1>2 DEF Write

\* Nor does a task that starts, synchronizes or ends.
LEMMA IdleRead ==
    ASSUME ChannelInv, NEW r \in Readers,
           StartTask(r) \/ Synchronize(r) \/ EndTask(r)
    PROVE  UNCHANGED << Open, Boxes, NumbersOf(fifo), sent >>
  <1>1. UNCHANGED << fifo, serial, expects, readerVars, popped, sent >>
    BY DEF StartTask, Synchronize, EndTask
  <1>2. \A s \in associated : Unread(s)' = Unread(s)
    BY <1>1 DEF Unread
  <1> QED
    BY <1>1, <1>2, BoxesKept DEF NumbersOf

\* An element that is given back is forgotten, if nobody waits for it.
LEMMA MailTidy ==
    ASSUME ChannelInv, ~broken, NEW r \in Readers, NEW e \in Elements,
           ReleaseElement(r, e)
    PROVE  Mail!Tidy
  <1>1. /\ \A s \in associated : Unread(s)' = Unread(s)
        /\ associated # {}
    BY ReleaseOrder DEF ReleaseElement, ChannelInv, AllInOrder, Outside
  <1>2. /\ associated' = associated /\ sent' = sent /\ serial' = serial
        /\ fifo' \subseteq fifo
    BY DEF ReleaseElement, ReleaseFor
  <1>3. UNCHANGED << Open, Boxes >>
    BY <1>1, <1>2, BoxesKept
  <1>4. NumbersOf(fifo)' \subseteq NumbersOf(fifo)
    BY <1>2 DEF NumbersOf
  <1>5. \A c \in Consumers : Boxes'[c] \subseteq NumbersOf(fifo)'
    <2>1. \A c : NotTaken(c)' \subseteq fifo'
      BY DEF NotTaken, Unread
    <2> QED
      BY <2>1 DEF Boxes, NumbersOf
  <1> QED
    BY <1>2, <1>3, <1>4, <1>5 DEF Mail!Tidy, Mail!Forget, Boxes

\* A pushed message is put into each open mailbox.
LEMMA MailPush ==
    ASSUME ChannelInv, ~broken, PushLink, ~LinksOldMask
    PROVE  Mail!Push
  <1>0. /\ TypeOK /\ Numbered /\ Registered /\ ElementsAccounted /\ PushPlace
        /\ AllInOrder
    BY DEF ChannelInv
  <1>1. /\ writer \in Elements /\ writer \notin fifo /\ seen = mask
        /\ fifo \subseteq Elements /\ sent \in Nat
    BY <1>0, FifoAssumption
       DEF PushLink, LinksOldMask, PushPlace, ElementsAccounted, Writing, TypeOK
  <1>2. /\ fifo' = fifo \cup {writer} /\ sent' = sent + 1
        /\ bit' = bit /\ associated' = associated /\ popped' = popped
        /\ serial' = [serial EXCEPT ![writer] = sent + 1]
        /\ expects' = [expects EXCEPT ![writer] = seen]
    BY DEF PushLink
  <1>3. /\ serial'[writer] = sent + 1 /\ expects'[writer] = mask
        /\ \A e \in fifo : serial'[e] = serial[e] /\ expects'[e] = expects[e]
    BY <1>0, <1>1, <1>2 DEF TypeOK
  <1>4. ASSUME NEW S \in SUBSET fifo
        PROVE  /\ { serial'[e] : e \in S } = { serial[e] : e \in S }
               /\ { serial'[e] : e \in S \cup {writer} }
                    = { serial[e] : e \in S } \cup {sent + 1}
    BY <1>3
  <1>5. ASSUME NEW c \in Open
        PROVE  NotTaken(c)' = NotTaken(c) \cup {writer}
    <2>1. CASE associated = {}
      BY <1>2, <2>1 DEF Open, NotTaken
    <2>2. CASE associated # {}
      <3>1. c \in associated
        BY <2>2 DEF Open
      <3>2. writer \notin popped[c] /\ bit[c] \in mask
        BY <1>0, <1>1, <3>1 DEF AllInOrder, InOrder, Registered
      <3>3. Unread(c)' = Unread(c) \cup {writer}
        BY <1>1, <1>2, <1>3, <3>2 DEF Unread
      <3> QED
        BY <1>2, <3>1, <3>3 DEF NotTaken
    <2> QED
      BY <2>1, <2>2
  <1>6. ASSUME NEW c \in Consumers
        PROVE  NumbersOf(NotTaken(c))' =
                 IF c \in Open THEN NumbersOf(NotTaken(c)) \cup {sent + 1}
                               ELSE NumbersOf(NotTaken(c))
    <2>1. CASE c \in Open
      BY <1>4, <1>5, <2>1, TakenFromList DEF NumbersOf
    <2>2. CASE c \notin Open
      <3>1. NotTaken(c) = {} /\ NotTaken(c)' = {}
        BY <1>2, <2>2 DEF NotTaken, Open
      <3> QED
        BY <2>2, <3>1 DEF NumbersOf
    <2> QED
      BY <2>1, <2>2
  <1>7. NumbersOf(fifo)' = NumbersOf(fifo) \cup {sent + 1}
    BY <1>2, <1>4 DEF NumbersOf
  <1>8. Open' = Open
    BY <1>2 DEF Open
  <1> QED
    BY <1>2, <1>6, <1>7, <1>8 DEF Mail!Push

\* The oldest message that a consumer has not taken is the first one in its
\* mailbox.
LEMMA MailTake ==
    ASSUME ChannelInv, NEW c \in Consumers, NEW e \in NotTaken(c),
           \A f \in NotTaken(c) : serial[e] <= serial[f],
           NotTaken(c)' = NotTaken(c) \ {e},
           \A d \in Consumers \ {c} : NotTaken(d)' = NotTaken(d),
           serial' = serial, sent' = sent, associated' = associated,
           fifo' \subseteq fifo
    PROVE  Mail!Take(c)
  <1>1. NotTaken(c) \subseteq fifo
    BY TakenFromList
  <1>2. \A f \in NotTaken(c) : serial[f] = serial[e] => f = e
    BY <1>1 DEF ChannelInv, Numbered
  <1>3. NumbersOf(NotTaken(c))' = NumbersOf(NotTaken(c)) \ {serial[e]}
    BY <1>2 DEF NumbersOf
  <1>4. /\ serial[e] \in NumbersOf(NotTaken(c))
        /\ \A n \in NumbersOf(NotTaken(c)) : serial[e] <= n
    BY DEF NumbersOf
  <1>5. \A d \in Consumers \ {c} :
           NumbersOf(NotTaken(d))' = NumbersOf(NotTaken(d))
    BY DEF NumbersOf
  <1>6. Boxes' = [Boxes EXCEPT ![c] = @ \ {serial[e]}]
    BY <1>3, <1>5 DEF Boxes
  <1>7. Open' = Open
    BY DEF Open
  <1>8. NumbersOf(fifo)' \subseteq NumbersOf(fifo)
    BY DEF NumbersOf
  <1>9. \A d \in Consumers : Boxes'[d] \subseteq NumbersOf(fifo)'
    <2>1. \A d : NotTaken(d)' \subseteq fifo'
      BY DEF NotTaken, Unread
    <2> QED
      BY <2>1 DEF Boxes, NumbersOf
  <1>10. Boxes[c] = NumbersOf(NotTaken(c))
    BY DEF Boxes
  <1>11. /\ serial[e] \in Boxes[c] /\ \A n \in Boxes[c] : serial[e] <= n
    BY <1>4, <1>10
  <1> QED
    BY <1>6, <1>7, <1>8, <1>9, <1>11 DEF Mail!Take, Mail!Forget, Boxes

\* Pop takes the oldest message of all, the task of a reader the oldest one
\* that the reader has not read.
LEMMA MailTaken ==
    ASSUME ChannelInv, ~broken, Pop \/ \E r \in Readers : PopElement(r)
    PROVE  \E c \in Consumers : Mail!Take(c)
  <1>1. CASE Pop
    <2>1. /\ associated = {} /\ fifo \in SUBSET Elements /\ fifo # {}
          /\ fifo' = fifo \ {Oldest(fifo)} /\ associated' = associated
          /\ serial' = serial /\ sent' = sent
      BY <1>1 DEF Pop, ChannelInv, TypeOK
    <2>2. /\ Oldest(fifo) \in fifo
          /\ \A f \in fifo : serial[Oldest(fifo)] <= serial[f]
      BY <2>1, OldestExists DEF ChannelInv
    <2>3. NotTaken(Direct) = fifo /\ NotTaken(Direct)' = fifo'
      BY <2>1 DEF NotTaken
    <2>4. \A d \in Consumers \ {Direct} : NotTaken(d)' = NotTaken(d)
      BY <2>1 DEF NotTaken
    <2>5. Mail!Take(Direct)
      BY <2>1, <2>2, <2>3, <2>4, MailTake DEF Consumers
    <2> QED
      BY <2>5 DEF Consumers
  <1>2. ASSUME NEW r \in Readers, PopElement(r)
        PROVE  Mail!Take(r)
    <2>1. /\ r \in associated /\ InOrder(r) /\ first[r] # Null
          /\ UNCHANGED << fifo, serial, expects, associated, bit, sent >>
          /\ popped' = [popped EXCEPT ![r] = @ \cup {first[r]}]
      BY <1>2 DEF PopElement, ChannelInv, AllInOrder, Outside
    <2>2. /\ first[r] \in Unread(r)
          /\ \A f \in Unread(r) : serial[first[r]] <= serial[f]
      BY <2>1 DEF InOrder
    <2>3. /\ popped'[r] = popped[r] \cup {first[r]}
          /\ \A s \in Readers \ {r} : popped'[s] = popped[s]
      BY <2>1 DEF ChannelInv, TypeOK
    <2>4. Unread(r)' = Unread(r) \ {first[r]}
      BY <2>1, <2>3 DEF Unread
    <2>5. /\ NotTaken(r) = Unread(r) /\ NotTaken(r)' = Unread(r)'
      BY <2>1 DEF NotTaken
    <2>6. ASSUME NEW d \in Consumers \ {r}
          PROVE  NotTaken(d)' = NotTaken(d)
      <3>1. d \in associated => Unread(d)' = Unread(d)
        BY <2>1, <2>3, WhoHasWhat DEF Unread
      <3> QED
        BY <2>1, <3>1 DEF NotTaken
    <2>7. r \in Consumers
      BY DEF Consumers
    <2> QED
      BY <2>1, <2>2, <2>4, <2>5, <2>6, <2>7, MailTake
  <1> QED
    BY <1>1, <1>2 DEF Consumers

\* A reader that comes finds all that is listed; when one goes, the mailboxes of
\* the others stay as they are, and pop takes what is left when none is left.
LEMMA MailReopen ==
    ASSUME ChannelInv, ChannelInv', ~broken, Register
    PROVE  Mail!Reopen
  <1>0. /\ Open' \in SUBSET Consumers
        /\ associated \subseteq Readers /\ associated' \subseteq Readers
    BY WhoHasWhat DEF Open, Consumers, ChannelInv, TypeOK
  <1>1. /\ fifo' \subseteq fifo /\ serial' = serial /\ sent' = sent
        /\ \A s \in associated \cap associated' : Unread(s)' = Unread(s)
        /\ \A s \in associated' \ associated : Unread(s)' = fifo'
    <2>1. ASSUME NEW r \in Readers, AssociateReader(r)
          PROVE  /\ fifo' = fifo /\ serial' = serial /\ sent' = sent
                 /\ \A s \in associated : Unread(s)' = Unread(s)
                 /\ \A s \in associated' \ associated : Unread(s)' = fifo'
      BY <2>1, AssociateOrder DEF AssociateReader
    <2>2. ASSUME NEW r \in Readers, ReleaseReader(r)
          PROVE  /\ fifo' \subseteq fifo /\ serial' = serial /\ sent' = sent
                 /\ \A s \in associated' : s \in associated /\ Unread(s)' = Unread(s)
      BY <2>2, LeaveOrder DEF ReleaseReader
    <2> QED
      BY <2>1, <2>2 DEF Register
  <1>2. \A S : { serial'[e] : e \in S } = { serial[e] : e \in S }
    BY <1>1
  <1>3. associated' # associated
    BY DEF Register, AssociateReader, ReleaseReader
  <1>4. ASSUME NEW c \in Consumers
        PROVE  NotTaken(c)' = IF c \notin Open' THEN {}
                              ELSE IF c \in Open THEN NotTaken(c) ELSE fifo'
    <2>1. CASE c \notin Open'
      BY <2>1 DEF NotTaken, Open
    <2>2. CASE c \in associated'
      <3>1. c \in Open' /\ (c \in Open <=> c \in associated) /\ NotTaken(c)' = Unread(c)'
        BY <1>0, <2>2, ConsumersDiffer DEF Open, NotTaken
      <3> QED
        BY <1>1, <2>2, <3>1 DEF NotTaken
    <2>3. CASE c \in Open' /\ c \notin associated'
      <3>1. c = Direct /\ associated' = {} /\ associated # {}
        BY <1>3, <2>3 DEF Open
      <3>2. c \notin Open
        BY <1>0, <3>1, ConsumersDiffer DEF Open
      <3>3. NotTaken(c)' = fifo'
        BY <3>1 DEF NotTaken
      <3> QED
        BY <2>3, <3>2, <3>3
    <2> QED
      BY <2>1, <2>2, <2>3
  <1>5. ASSUME NEW c \in Consumers
        PROVE  NumbersOf(NotTaken(c))' =
                 IF c \notin Open' THEN {}
                 ELSE IF c \in Open THEN NumbersOf(NotTaken(c)) ELSE NumbersOf(fifo)'
    BY <1>2, <1>4 DEF NumbersOf
  <1>6. NumbersOf(fifo)' \subseteq NumbersOf(fifo)
    BY <1>1 DEF NumbersOf
  <1>7. \A c \in Consumers : Boxes'[c] \subseteq NumbersOf(fifo)'
    <2>1. \A c : NotTaken(c)' \subseteq fifo'
      BY DEF NotTaken, Unread
    <2> QED
      BY <2>1 DEF Boxes, NumbersOf
  <1>8. Boxes' = [c \in Consumers |->
                    IF c \notin Open' THEN {}
                    ELSE IF c \in Open THEN Boxes[c] ELSE NumbersOf(fifo)']
    BY <1>5 DEF Boxes
  <1> QED
    BY <1>0, <1>1, <1>6, <1>7, <1>8 DEF Mail!Reopen, Mail!Forget, Boxes

\* At first all mailboxes are empty.
LEMMA MailInit == Init => Mail!Init
  <1> SUFFICES ASSUME Init
               PROVE  Mail!Init
    OBVIOUS
  <1>1. \A c \in Consumers : NotTaken(c) = {}
    BY DEF Init, NotTaken
  <1>2. \A c \in Consumers : NumbersOf(NotTaken(c)) = {}
    BY <1>1 DEF NumbersOf
  <1>3. Open \in SUBSET Consumers /\ sent = 0 /\ NumbersOf(fifo) = {} /\ ~broken
    BY DEF Init, Open, Consumers, NumbersOf
  <1> QED
    BY <1>2, <1>3 DEF Mail!Init, Init

\* The channel is a mailbox for each consumer: every associated reader, and
\* pop without readers, takes all messages that are listed when it comes or
\* pushed until it goes, each once and in the order of the pushes, although the
\* readers share the elements, release them in any order, come and go.
THEOREM ChannelIsMailboxes == Spec => ImplementsMailboxes
  <1>1. ChannelInv /\ ChannelInv' /\ [Next]_vars => [Mail!Next]_mail
    <2>1. ASSUME ChannelInv, ChannelInv', Next
          PROVE  Mail!Next \/ UNCHANGED mail
      <3>1. ~broken /\ History
        BY <2>1 DEF Next
      <3>2. CASE broken'
        BY <3>1, <3>2 DEF Mail!Next
      <3>3. CASE ~broken'
        <4>1. /\ ~LinksOldMask /\ broken' = broken
              /\ \A r \in Readers : task'[r] # "crashed"
          BY <2>1, <3>1, <3>3 DEF History, ChannelInv, TypeOK
        <4>2. CASE PushLink
          BY <2>1, <3>1, <3>3, <4>1, <4>2, MailPush DEF Mail!Next
        <4>3. CASE Pop \/ \E r \in Readers : PopElement(r)
          BY <2>1, <3>1, <3>3, <4>3, MailTaken DEF Mail!Next
        <4>4. CASE Register
          BY <2>1, <3>1, <3>3, <4>4, MailReopen DEF Mail!Next
        <4>5. CASE Write /\ ~ PushLink /\ ~ Pop
          BY <2>1, <4>1, <4>5, IdleWrite DEF mail
        <4>6. ASSUME NEW r \in Readers, Read(r), ~ PopElement(r)
              PROVE  Mail!Next \/ UNCHANGED mail
          <5>1. ~SynchronizeCrash(r)
            BY <2>1, <4>1 DEF SynchronizeCrash, ChannelInv, TypeOK
          <5>2. CASE \E e \in Elements : ReleaseElement(r, e)
            BY <2>1, <3>1, <3>3, <5>2, MailTidy DEF Mail!Next
          <5>3. CASE StartTask(r) \/ Synchronize(r) \/ EndTask(r)
            BY <2>1, <4>1, <5>3, IdleRead DEF mail
          <5> QED
            BY <4>6, <5>1, <5>2, <5>3 DEF Read
        <4> QED
          BY <2>1, <4>2, <4>3, <4>4, <4>5, <4>6 DEF Next
      <3> QED
        BY <3>2, <3>3
    <2>2. ASSUME ChannelInv, UNCHANGED vars
          PROVE  UNCHANGED mail
      <3>1. \A r \in associated : Unread(r)' = Unread(r)
        BY <2>2 DEF Unread, vars
      <3> QED
        BY <2>2, <3>1, BoxesKept DEF vars, history, mail, NumbersOf
    <2> QED
      BY <2>1, <2>2
  <1>2. ChannelInv /\ [Next]_vars => ChannelInv'
    BY ChannelStep
  <1> QED
    BY <1>1, <1>2, MailInit, ChannelInvariant, PTL
       DEF Spec, ImplementsMailboxes, Mail!Spec, Mail!vars, mail, Boxes

=============================================================================
