------------------------------ MODULE Mailboxes ------------------------------
(***************************************************************************)
(* What the fifo channel promises: every consumer has a mailbox of its     *)
(* own.  A message that is pushed is put into the mailboxes of all open    *)
(* consumers.  Each consumer takes messages in the order in which they     *)
(* were pushed, and a message leaves a mailbox in no other way unless the  *)
(* consumer is closed.  A consumer that is opened finds all messages that  *)
(* are still kept.                                                         *)
(***************************************************************************)
EXTENDS Naturals

CONSTANT Consumers

VARIABLES
    open,       \* the consumers that receive messages
    box,        \* the messages each consumer has not taken yet
    kept,       \* the messages that are not forgotten
    sent,       \* number of messages so far; it names the last one
    void        \* nothing is promised any more

vars == << open, box, kept, sent, void >>

Init ==
    /\ open \in SUBSET Consumers
    /\ box = [c \in Consumers |-> {}]
    /\ kept = {}
    /\ sent = 0
    /\ void = FALSE

Push ==
    /\ sent' = sent + 1
    /\ kept' = kept \cup {sent'}
    /\ box' = [c \in Consumers |->
                 IF c \in open THEN box[c] \cup {sent'} ELSE box[c]]
    /\ UNCHANGED open

\* Only what nobody waits for is forgotten.
Forget ==
    /\ kept' \subseteq kept
    /\ \A c \in Consumers : box'[c] \subseteq kept'
    /\ UNCHANGED sent

Take(c) ==
    /\ \E n \in box[c] :
          /\ \A m \in box[c] : n <= m
          /\ box' = [box EXCEPT ![c] = @ \ {n}]
    /\ Forget
    /\ UNCHANGED open

\* A consumer that is closed loses its mailbox.
Reopen ==
    /\ open' \in SUBSET Consumers
    /\ box' = [c \in Consumers |->
                 IF c \notin open' THEN {}
                 ELSE IF c \in open THEN box[c] ELSE kept']
    /\ Forget

Tidy == Forget /\ UNCHANGED << open, box >>

Next ==
    /\ ~void
    /\ \/ void'
       \/ /\ ~void'
          /\ Push \/ Reopen \/ Tidy \/ \E c \in Consumers : Take(c)

Spec == Init /\ [][Next]_vars
=============================================================================
