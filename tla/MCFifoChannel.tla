---------------------------- MODULE MCFifoChannel ----------------------------
(* A small instance of FifoChannel, and the mailboxes it implements.       *)
EXTENDS FifoChannel, TLC

Direct == "direct"
Consumers == Readers \cup {Direct}

ASSUME ConsumersDiffer == Direct \notin Readers

\* The memory of the elements makes no difference.
Symmetry == Permutations(Elements)

Open == IF associated = {} THEN {Direct} ELSE associated

\* The elements that a consumer has not taken, and the numbers of their messages.
NotTaken(c) ==
    CASE c \in associated -> Unread(c)
      [] c = Direct /\ associated = {} -> fifo
      [] OTHER -> {}

NumbersOf(S) == { serial[e] : e \in S }

Mail == INSTANCE Mailboxes WITH
    open <- Open,
    box <- [c \in Consumers |-> NumbersOf(NotTaken(c))],
    kept <- NumbersOf(fifo),
    void <- broken

\* Each reader, and pop without readers, takes all messages that are in the
\* list when it is associated or pushed until it is released, each once and in
\* the order in which they were pushed, although the readers share the elements
\* and release them in any order, come and go.
ImplementsMailboxes == Mail!Spec
=============================================================================
