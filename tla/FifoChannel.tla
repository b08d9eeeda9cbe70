----------------------------- MODULE FifoChannel -----------------------------
(***************************************************************************)
(* Fifo<T, size>: a channel with a pool of elements, read by several       *)
(* reader tasks or, without readers, by pop.                               *)
(*                                                                         *)
(* The elements of the list m_fifo_first ... m_fifo_last are always in the *)
(* order in which they were pushed, so the list is the set fifo with the   *)
(* serial number of each element; the order of the lists m_unused and      *)
(* m_allocated only decides which memory is handed out.  A bit mask is the *)
(* set of the numbers of its bits.                                         *)
(*                                                                         *)
(* One step is one critical section of m_mutex or of m_readerMutex, or an  *)
(* unprotected access.  m_fifo_mutex is held from PushTake to PushNotify.  *)
(* The task of a reader has one input with threshold 1; TaskActivation     *)
(* models the notification and the reset of inputs in detail.  The inputs  *)
(* are connected to the channel all the time, whether their reader is      *)
(* associated or not.                                                      *)
(***************************************************************************)
EXTENDS Naturals, FiniteSets

CONSTANTS
    Elements,       \* the chain elements in m_management
    Readers,
    MaskWidth,      \* bits of m_readerBitMask
    Synchron,       \* readers whose input is synchronous
    MaxPush         \* bound: number of messages

Null == "null"

ASSUME FifoAssumption ==
    /\ Null \notin Elements
    /\ MaskWidth \in Nat \ {0}
    /\ Synchron \subseteq Readers
    /\ MaxPush \in Nat

Bits == 0..MaskWidth
PushPCs == { "idle", "taken", "linked", "crashed" }
TaskStates == { "wait", "starting", "run", "crashed" }

VARIABLES
    unused, allocated,  \* m_unused and m_allocated
    fifo,               \* the elements of the list
    tail,               \* m_fifo_last
    serial,             \* position of each element in the order of pushes
    expects,            \* expectedReadsBitMask of each element
    mask,               \* m_readerBitMask
    associated,         \* the list m_readers
    bit,                \* readerId of each reader
    first, last,        \* fifo_first and fifo_last of each reader
    popped,             \* allocated_elements of each reader
    push,               \* place of the thread in Fifo::push, if there is one
    writer,             \* the element it pushes
    seen,               \* the value of m_readerBitMask it has read, until used
    sent,               \* number of messages so far
    task,               \* state of the task of each reader
    notifications, missed,  \* counters of its input
    volume,             \* the number of notifications read at its start, until used
    \* History.
    broken,             \* what happened before the program is not modelled on
    cut,                \* m_fifo_last was reset while the list was not empty
    ahead, behind       \* readers with more or less notifications than messages
                        \* when they were associated

listVars == << unused, allocated, fifo, tail, serial, expects >>
readerVars == << mask, associated, bit >>
windowVars == << first, last, popped >>
pushVars == << push, writer, seen, sent >>
inputVars == << notifications, missed >>
taskVars == << task, inputVars, volume >>
history == << broken, cut, ahead, behind >>
vars == << listVars, readerVars, windowVars, pushVars, taskVars, history >>

TypeOK ==
    /\ unused \subseteq Elements
    /\ allocated \subseteq Elements
    /\ fifo \subseteq Elements
    /\ tail \in Elements \cup {Null}
    /\ serial \in [Elements -> Nat]
    /\ expects \in [Elements -> SUBSET Bits]
    /\ mask \subseteq Bits
    /\ associated \subseteq Readers
    /\ bit \in [Readers -> Bits]
    /\ first \in [Readers -> Elements \cup {Null}]
    /\ last \in [Readers -> Elements \cup {Null}]
    /\ popped \in [Readers -> SUBSET Elements]
    /\ push \in PushPCs
    /\ writer \in Elements \cup {Null}
    /\ seen \subseteq Bits
    /\ sent \in Nat
    /\ task \in [Readers -> TaskStates]
    /\ notifications \in [Readers -> Nat]
    /\ missed \in [Readers -> Nat]
    /\ volume \in [Readers -> Nat]
    /\ broken \in BOOLEAN /\ cut \in BOOLEAN
    /\ ahead \subseteq Readers /\ behind \subseteq Readers

-----------------------------------------------------------------------------
(* The list.                                                               *)

Oldest(S) == CHOOSE e \in S : \A f \in S : serial[e] <= serial[f]
Newest(S) == CHOOSE e \in S : \A f \in S : serial[f] <= serial[e]
Behind(e) == { f \in fifo : serial[e] < serial[f] }

\* Mutant: the element is given back as soon as one reader has released it.
Finished_Anyone(S, b) == S \cap fifo

\* The elements of S that nobody expects any more without the bit b.
Finished(S, b) == { e \in S \cap fifo : expects[e] \subseteq {b} }

\* Mutant: the last element is not corrected.
TailWithout_Kept(gone) == tail

\* m_fifo_last after the removal of elements.
TailWithout(gone) ==
    IF tail \notin gone THEN tail
    ELSE IF fifo \subseteq gone THEN Null ELSE Newest(fifo \ gone)

\* Mutant: the element stays linked in the list.
ReleaseFor_Linked(S, b) ==
    /\ expects' = [e \in Elements |->
                     IF e \in S THEN expects[e] \ {b} ELSE expects[e]]
    /\ unused' = unused \cup Finished(S, b)
    /\ UNCHANGED fifo

\* FifoGeneric::releaseElement for the elements of S, without m_fifo_last.
ReleaseFor(S, b) ==
    /\ expects' = [e \in Elements |->
                     IF e \in S THEN expects[e] \ {b} ELSE expects[e]]
    /\ fifo' = fifo \ Finished(S, b)
    /\ unused' = unused \cup Finished(S, b)

-----------------------------------------------------------------------------
(* Writing: allocate, release, push and, without readers, pop.             *)

Allocate(e) ==
    /\ push = "idle"
    /\ e \in unused
    /\ unused' = unused \ {e}
    /\ allocated' = allocated \cup {e}
    /\ expects' = [expects EXCEPT ![e] = {0}]
    /\ UNCHANGED << fifo, tail, serial, readerVars, windowVars, pushVars,
                    taskVars >>

Release(e) ==
    /\ push = "idle"
    /\ e \in allocated
    /\ expects' = [expects EXCEPT ![e] = @ \ {0}]
    /\ IF expects[e] \subseteq {0}
       THEN /\ allocated' = allocated \ {e}
            /\ unused' = unused \cup {e}
       ELSE UNCHANGED << allocated, unused >>
    /\ UNCHANGED << fifo, tail, serial, readerVars, windowVars, pushVars,
                    taskVars >>

\* The first critical section of push; m_readerBitMask is read behind it.
PushTake(e) ==
    /\ push = "idle"
    /\ e \in allocated
    /\ sent < MaxPush
    /\ allocated' = allocated \ {e}
    /\ push' = "taken"
    /\ writer' = e
    /\ seen' = mask
    /\ UNCHANGED << unused, fifo, tail, serial, expects, readerVars,
                    windowVars, sent, taskVars >>

\* m_fifo_last is null although there are elements.
NoTail == fifo # {} /\ tail = Null

\* The second one.  It follows m_fifo_last if there are elements.
PushLink ==
    /\ push = "taken"
    /\ ~NoTail
    /\ fifo' = fifo \cup {writer}
    /\ tail' = writer
    /\ sent' = sent + 1
    /\ serial' = [serial EXCEPT ![writer] = sent']
    /\ expects' = [expects EXCEPT ![writer] = seen]
    /\ push' = "linked"
    /\ writer' = Null
    /\ seen' = {}
    /\ UNCHANGED << unused, allocated, readerVars, windowVars, taskVars >>

PushCrash ==
    /\ push = "taken"
    /\ NoTail
    /\ push' = "crashed"
    /\ UNCHANGED << listVars, readerVars, windowVars, writer, seen, sent, taskVars >>

\* An activated synchronous input keeps a notification for later.
Surplus(r) == r \in Synchron /\ notifications[r] > 0

\* Channel::push notifies all inputs.
PushNotify ==
    /\ push = "linked"
    /\ notifications' = [r \in Readers |->
          IF Surplus(r) THEN notifications[r] ELSE notifications[r] + 1]
    /\ missed' = [r \in Readers |->
          IF Surplus(r) THEN missed[r] + 1 ELSE missed[r]]
    /\ push' = "idle"
    /\ UNCHANGED << listVars, readerVars, windowVars, writer, seen, sent, task,
                    volume >>

Pop ==
    /\ associated = {}
    /\ fifo # {}
    /\ fifo' = fifo \ {Oldest(fifo)}
    /\ allocated' = allocated \cup {Oldest(fifo)}
    /\ tail' = IF fifo' = {} THEN Null ELSE tail
    /\ UNCHANGED << unused, serial, expects, readerVars, windowVars, pushVars,
                    taskVars >>

-----------------------------------------------------------------------------
(* Readers come and go.                                                    *)

\* Mutant: a reader gets the bit that follows the number of readers.
FreeBit_Count == Cardinality(associated)

\* The first reader takes over the bit of pop; the others search a bit from
\* the second one on.
FreeBit ==
    IF associated = {} THEN 0
    ELSE CHOOSE b \in Bits \ {0} : b \notin mask
                              /\ \A c \in 1..(b - 1) : c \in mask

\* Mutant: the elements in the list are not corrected for the new reader.
Welcome_Nobody(b) == UNCHANGED expects

\* The elements in the list become visible to the new reader.
Welcome(b) ==
    expects' = [e \in Elements |->
                  IF e \in fifo THEN expects[e] \cup {b} ELSE expects[e]]

\* Its two critical sections are one step: a push that links its element in
\* between has the same effect as before.  The mask holds all readers.
AssociateReader(r) ==
    /\ r \notin associated
    /\ associated # {} => ~ (1..(MaskWidth - 1) \subseteq mask)
    /\ bit' = [bit EXCEPT ![r] = FreeBit]
    /\ mask' = mask \cup {FreeBit}
    /\ associated' = associated \cup {r}
    /\ Welcome(FreeBit)
    /\ UNCHANGED << unused, allocated, fifo, tail, serial, windowVars, pushVars,
                    taskVars >>

MaskWithout(r) == IF associated = {r} THEN {0} ELSE mask \ {bit[r]}

\* What the reader has popped, and the elements from its first one on.
Left(r) ==
    popped[r] \cup IF first[r] = Null THEN fifo ELSE {first[r]} \cup Behind(first[r])

\* The task of the reader does not run (fifoGeneric.h).  m_fifo_last is reset
\* whatever is left in the list for others.
ReleaseReader(r) ==
    /\ r \in associated
    /\ task[r] = "wait"
    /\ ReleaseFor(Left(r), bit[r])
    /\ tail' = Null
    /\ popped' = [popped EXCEPT ![r] = {}]
    /\ first' = [first EXCEPT ![r] = Null]
    /\ mask' = MaskWithout(r)
    /\ associated' = associated \ {r}
    /\ UNCHANGED << allocated, serial, bit, last, pushVars, taskVars >>

-----------------------------------------------------------------------------
(* Reading, by the task of a reader.                                       *)

\* Input::synchronizeStart reads the notifications before it waits for
\* m_fifo_mutex.
StartTask(r) ==
    /\ task[r] = "wait"
    /\ notifications[r] > 0
    /\ task' = [task EXCEPT ![r] = "starting"]
    /\ volume' = [volume EXCEPT ![r] = notifications[r]]
    /\ UNCHANGED << listVars, readerVars, windowVars, pushVars, inputVars >>

\* The elements from newItem on: an empty reader skips what it has read, the
\* others continue behind their last element.
NewElements(r) ==
    IF first[r] = Null
    THEN LET expecting == { e \in fifo : bit[r] \in expects[e] } IN
         { e \in fifo : /\ expecting # {}
                        /\ serial[Oldest(expecting)] <= serial[e] }
    ELSE Behind(last[r])

\* Mutant: one element more than notified.
UpTo_OneMore(e, S) == Cardinality({ f \in S : serial[f] < serial[e] })

UpTo(e, S) == Cardinality({ f \in S : serial[f] <= serial[e] })

\* FifoGeneric::synchronize.  Its assertions are the guard that there are as
\* many elements; VolumeAvailable says that they hold.  A task without an
\* associated reader just starts.
Synchronize(r) ==
    /\ task[r] = "starting"
    /\ push = "idle"
    /\ IF r \in associated
       THEN /\ \E e \in NewElements(r) :
                  /\ UpTo(e, NewElements(r)) = volume[r]
                  /\ last' = [last EXCEPT ![r] = e]
            /\ first' = [first EXCEPT ![r] =
                            IF @ = Null THEN Oldest(NewElements(r)) ELSE @]
       ELSE UNCHANGED << first, last >>
    /\ task' = [task EXCEPT ![r] = "run"]
    /\ volume' = [volume EXCEPT ![r] = 0]
    /\ UNCHANGED << listVars, readerVars, popped, pushVars, inputVars >>

SynchronizeCrash(r) ==
    /\ task[r] = "starting"
    /\ push = "idle"
    /\ r \in associated
    /\ \A e \in NewElements(r) : UpTo(e, NewElements(r)) # volume[r]
    /\ task' = [task EXCEPT ![r] = "crashed"]
    /\ UNCHANGED << listVars, readerVars, windowVars, pushVars, inputVars, volume >>

\* FifoGenericReader::pop.
PopElement(r) ==
    /\ task[r] = "run"
    /\ first[r] # Null
    /\ popped' = [popped EXCEPT ![r] = @ \cup {first[r]}]
    /\ IF first[r] = last[r]
       THEN /\ first' = [first EXCEPT ![r] = Null]
            /\ last' = [last EXCEPT ![r] = Null]
       ELSE /\ first' = [first EXCEPT ![r] = Oldest(Behind(first[r]))]
            /\ UNCHANGED last
    /\ UNCHANGED << listVars, readerVars, pushVars, taskVars >>

\* FifoGenericReader::release.
ReleaseElement(r, e) ==
    /\ task[r] = "run"
    /\ e \in popped[r]
    /\ ReleaseFor({e}, bit[r])
    /\ tail' = TailWithout(Finished({e}, bit[r]))
    /\ popped' = [popped EXCEPT ![r] = @ \ {e}]
    /\ UNCHANGED << allocated, serial, readerVars, first, last, pushVars,
                    taskVars >>

\* Mutant: missed notifications are not looked at.
Overtakes_Always(r) == r \in Synchron

\* Mutant: missed notifications are forgotten.
Overtakes_Never(r) == FALSE

\* A missed notification takes the place of the one that is consumed.
Overtakes(r) == r \in Synchron /\ missed[r] > 0

\* Input::reset at the end of the execution.
EndTask(r) ==
    /\ task[r] = "run"
    /\ task' = [task EXCEPT ![r] = "wait"]
    /\ IF Overtakes(r)
       THEN /\ notifications' = [notifications EXCEPT ![r] = 1]
            /\ missed' = [missed EXCEPT ![r] = @ - 1]
       ELSE /\ notifications' = [notifications EXCEPT ![r] = 0]
            /\ UNCHANGED missed
    /\ UNCHANGED << listVars, readerVars, windowVars, pushVars, volume >>

-----------------------------------------------------------------------------
(* What is remembered of the steps.  Nothing is modelled after a failed    *)
(* assertion or a null pointer, after a push that links its element with a *)
(* mask that has changed meanwhile, and after synchronize begins with an   *)
(* element that the reader has popped already.                             *)

\* The element gets the mask that push has read before.
LinksOldMask == push = "taken" /\ push' = "linked" /\ seen # mask

\* The reader still has an element that it popped in an earlier execution, and
\* is otherwise empty.
DeliversAgain(r) ==
    /\ task[r] = "starting" /\ task'[r] = "run"
    /\ r \in associated
    /\ first[r] = Null /\ popped[r] # {}

\* The message that is linked and not notified yet.
Unannounced == IF push = "linked" THEN 1 ELSE 0

\* The notifications of a task that runs are spent, but not its missed ones.
Announced(r) ==
    Unannounced + missed[r] + IF task[r] = "run" THEN 0 ELSE notifications[r]

History ==
    LET joining == associated' \ associated
    IN
    /\ broken' = \/ push' = "crashed"
                 \/ LinksOldMask
                 \/ \E r \in Readers : task'[r] = "crashed" \/ DeliversAgain(r)
    /\ cut' = (fifo' # {} /\ (cut \/ associated \ associated' # {}))
    /\ ahead' = (ahead \cap associated')
                  \cup { r \in joining : Announced(r) > Cardinality(fifo) }
    /\ behind' = (behind \cap associated')
                  \cup { r \in joining : Announced(r) < Cardinality(fifo) }

-----------------------------------------------------------------------------
Init ==
    /\ unused = Elements /\ allocated = {} /\ fifo = {} /\ tail = Null
    /\ serial = [e \in Elements |-> 0]
    /\ expects = [e \in Elements |-> {}]
    /\ mask = {0} /\ associated = {}
    /\ bit = [r \in Readers |-> 0]
    /\ first = [r \in Readers |-> Null] /\ last = [r \in Readers |-> Null]
    /\ popped = [r \in Readers |-> {}]
    /\ push = "idle" /\ writer = Null /\ seen = {} /\ sent = 0
    /\ task = [r \in Readers |-> "wait"]
    /\ notifications = [r \in Readers |-> 0]
    /\ missed = [r \in Readers |-> 0]
    /\ volume = [r \in Readers |-> 0]
    /\ broken = FALSE /\ cut = FALSE /\ ahead = {} /\ behind = {}

Write ==
    \/ \E e \in Elements : Allocate(e) \/ Release(e) \/ PushTake(e)
    \/ PushLink \/ PushCrash \/ PushNotify \/ Pop

Register == \E r \in Readers : AssociateReader(r) \/ ReleaseReader(r)

Read(r) ==
    \/ StartTask(r) \/ Synchronize(r) \/ SynchronizeCrash(r)
    \/ PopElement(r) \/ EndTask(r)
    \/ \E e \in Elements : ReleaseElement(r, e)

Next ==
    /\ ~broken
    /\ Write \/ Register \/ \E r \in Readers : Read(r)
    /\ History

Spec == Init /\ [][Next]_vars

-----------------------------------------------------------------------------
(* Properties.                                                             *)

Writing == IF writer = Null THEN {} ELSE {writer}

\* No element gets lost and none is in two lists: each is unused, allocated,
\* in the list or in the hands of the thread that pushes it.
ElementsAccounted ==
    /\ Elements = unused \cup allocated \cup fifo \cup Writing
    /\ unused \cap (allocated \cup fifo \cup Writing) = {}
    /\ allocated \cap (fifo \cup Writing) = {}
    /\ fifo \cap Writing = {}

\* What a reader has not read, whether it is synchronized with it or not.
Unread(r) == { e \in fifo : bit[r] \in expects[e] } \ popped[r]

\* No pointer dangles: what a reader has popped and what it may pop until
\* its last element is in the list and waits for this reader, whatever the
\* others release meanwhile and whoever comes and goes.
ReadersHold ==
    ~broken =>
    \A r \in associated :
       /\ \A e \in popped[r] : e \in fifo /\ bit[r] \in expects[e]
       /\ first[r] # Null =>
             /\ {first[r], last[r]} \subseteq Unread(r)
             /\ \A e \in fifo :
                   serial[first[r]] <= serial[e] => e \in Unread(r)

\* The assertions of synchronize hold: a task that starts finds as many new
\* elements as its input was notified of, unless it had been notified of more
\* messages than there were when its reader was associated.
VolumeAvailable ==
    ~broken =>
    \A r \in associated \ ahead :
       task[r] = "starting" /\ push = "idle" =>
          Cardinality({ e \in NewElements(r) : e \in Unread(r) }) >= volume[r]

Last == IF fifo = {} THEN Null ELSE Newest(fifo)

\* push can follow m_fifo_last: it is the last element of the list, and null
\* if the list is empty; and after the release of a reader with messages left
\* for others, until they are given back.
TailIsLast == tail = IF cut THEN Null ELSE Last

\* The messages behind those that a reader was synchronized with.
Fresh(r) ==
    { e \in Unread(r) : first[r] # Null => serial[last[r]] < serial[e] }

\* No message for a reader with a synchronous input is forgotten: there is a
\* notification, counted or missed, for each message it was not synchronized
\* with, whether that was pushed before, during or after its executions, and
\* its task does not rest as long as there is one.  The reader must have been
\* notified of just the messages it found when it was associated.
NoMessageForgotten ==
    ~broken =>
    \A r \in (Synchron \cap associated) \ (ahead \cup behind) :
       /\ Cardinality(Fresh(r)) = Announced(r)
       /\ task[r] = "wait" /\ Fresh(r) # {} =>
             notifications[r] > 0 \/ push = "linked"

\* The next three are what comments say, and do not hold (README, section 5).

\* "Pointer to the last item in the FIFO stack. This item is the last pushed."
\* (fifoGeneric.h, m_fifo_last)
LastIsLastPushed == tail = Last

\* "Mutex to prevent race condition in push()" (fifo.h, m_fifo_mutex): a message
\* that is pushed is for all readers that are associated.
PushedForAll ==
    push = "linked" =>
       \A e \in fifo, r \in associated : serial[e] = sent => bit[r] \in expects[e]

\* "Request the oldest data in the FIFO stack and consume it." (fifoGeneric.h,
\* pop): a reader pops no message that it holds already.
ConsumedOnce == \A r \in Readers : first[r] # Null => first[r] \notin popped[r]
=============================================================================
