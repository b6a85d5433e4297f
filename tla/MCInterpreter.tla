---------------------------- MODULE MCInterpreter ----------------------------
(* Small instances of Interpreter for TLC. *)
EXTENDS Interpreter

CONSTANTS A, B, S, I

Cmd(target, id) == [target |-> target, id |-> id]
AllOf(cmds) ==
  [trigger |-> "ALL_COMMAND_COMPLETED", cmds |-> cmds, combos |-> << >>]
AnyOf(cmds) ==
  [trigger |-> "ANY_COMMAND_COMPLETED", cmds |-> cmds, combos |-> << >>]
CombinationOf(cmds, combos) ==
  [trigger |-> "ANY_COMMAND_COMBINATION_COMPLETED", cmds |-> cmds, combos |-> combos]
Go(next) == [condClose |-> NoChannel, next |-> next]
CloseOnEmpty(c, next) == [condClose |-> c, next |-> next]

NoProceed == [s \in StateIds |-> NoState]
\* A, which waits for commands, proceeds to B.
ProceedFromA == [s \in StateIds |-> IF s = A THEN B ELSE NoState]

\* Lifecycle: all ways to end an execution and the workflow.
LifecycleRequests == {NoCommands, AllOf(<<Cmd(S, 1)>>)}
LifecycleDecisions ==
  {Go(<<A>>), Go(<<B, B>>), Go(<< >>), Go(<<GracefulCompletingWorkflowStateId>>),
   Go(<<ForceCompletingWorkflowStateId>>), Go(<<ForceFailingWorkflowStateId>>),
   Go(<<DeadEndWorkflowStateId>>), Go(<<A, DeadEndWorkflowStateId>>),
   CloseOnEmpty(I, <<B>>), CloseOnEmpty(S, <<GracefulCompletingWorkflowStateId>>)}

\* Core: executions compete for messages and end in all ways.
CoreRequests ==
  {NoCommands, AnyOf(<<Cmd(S, 1), Cmd(I, 2)>>),
   CombinationOf(<<Cmd(S, 1), Cmd(Timer, 2)>>, <<<<1>>, <<2>>>>)}
CoreDecisions ==
  {Go(<<B, B>>), Go(<<GracefulCompletingWorkflowStateId>>), Go(<<ForceFailingWorkflowStateId>>),
   Go(<<ForceCompletingWorkflowStateId>>), Go(<<DeadEndWorkflowStateId>>),
   Go(<<B, DeadEndWorkflowStateId>>), CloseOnEmpty(S, <<B>>)}

\* Liveness: one command to wait for, one way on, one way to end.
LivenessRequests == {NoCommands, AllOf(<<Cmd(S, 1)>>)}
LivenessDecisions ==
  {Go(<<A>>), Go(<<A, A>>), Go(<<GracefulCompletingWorkflowStateId>>),
   Go(<<DeadEndWorkflowStateId>>), CloseOnEmpty(S, << >>)}
=============================================================================
