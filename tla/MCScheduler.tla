----------------------------- MODULE MCScheduler -----------------------------
(* Instance of Scheduler for TLC. *)
EXTENDS Scheduler, TLC

CONSTANTS i1, i2, a1

MCTo == [t \in Tasks |-> a1]
=============================================================================
