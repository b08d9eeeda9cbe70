---------------------------- MODULE MCClockQueue ----------------------------
(* Small clock queues for the model checker.  The events are               *)
(* interchangeable: every property treats them alike.                      *)
EXTENDS ClockQueue, TLC

Symmetry == Permutations(Events)
=============================================================================
