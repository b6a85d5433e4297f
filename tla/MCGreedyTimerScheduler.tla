----------------------- MODULE MCGreedyTimerScheduler -----------------------
(* A small instance of GreedyTimerScheduler for TLC. *)
EXTENDS GreedyTimerScheduler

CONSTANTS e1, e2

OneEach == [e \in Executions |-> 1]
=============================================================================
