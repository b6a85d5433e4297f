--------------------------- MODULE MCTimerProcessor ---------------------------
(* Small instances of TimerProcessor for TLC. *)
EXTENDS TimerProcessor

CONSTANTS e1, e2

\* The last timer of an execution has the command id "a", the others have none.
LastHasId ==
  [t \in Executions \X (1..TimerCommands) |-> IF t[2] = TimerCommands THEN "a" ELSE NoId]
=============================================================================
