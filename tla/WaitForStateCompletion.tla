----------------------- MODULE WaitForStateCompletion -----------------------
(***************************************************************************)
(* How the completion of a state reaches the clients that wait for it: a   *)
(* workflow of its own that ends with the signal of the completion         *)
(* (WaitForStateCompletionWorkflowImpl) and that either side starts: a     *)
(* request that waits (ApiService) or the state execution that completes   *)
(* (invokeStateExecute, signalWithStart).                                  *)
(*                                                                         *)
(* One state of a workflow is waited for.  The sender runs inside a        *)
(* workflow task: the task may fail after a signal was sent and is then    *)
(* executed again.                                                         *)
(***************************************************************************)
EXTENDS Engine

CONSTANTS
  SignalWithStartOn,   \* "old", "both" or "new"
  WaitForOn            \* "old" or "new"

ASSUME MigrationAssumption ==
  SignalWithStartOn \in {"old", "both", "new"} /\ WaitForOn \in {"old", "new"}

VARIABLES
  executed,    \* chains (first runs) whose waited state has run Execute
  sentTo,      \* [chains -> ids signalled in this attempt of the task]
  committed    \* chains whose task has been committed

waitVars == <<executed, sentTo, committed>>

\* GetWorkflowIdForWaitForStateExecution
WaitIdOfWorkflow(wf) == <<"waitForWorkflow", wf[2]>>
WaitIdOfFirstRun(first) == <<"waitForRun", first>>
IsWaitRun(r) == runs[r].wf \notin WorkflowIds

\* The ids to signal, in this order; on Cadence always that of the workflow.
SignalIds(first) ==
  LET old == WaitIdOfWorkflow(runs[first].wf)
      new == WaitIdOfFirstRun(first)
  IN  CASE Backend = "cadence" \/ SignalWithStartOn = "old"     -> <<old>>
        [] Backend = "temporal" /\ SignalWithStartOn = "both"   -> <<old, new>>
        [] Backend = "temporal" /\ SignalWithStartOn = "new"    -> <<new>>

\* Whether a request waits under the id that is made of the first run.
WaitsByRun == WaitForOn = "new" /\ Backend = "temporal"

WaitInit == executed = {} /\ sentTo = [f \in {} |-> 0] /\ committed = {}

\* The chain of a running interpreter run in which the state is completing.
Completing(first) ==
  /\ first \in executed \ committed
  /\ runs[End(first)].status = "RUNNING"

ExecuteSucceeds(r) ==
  /\ InterpreterRun(r) /\ runs[r].status = "RUNNING"
  /\ runs[r].first \notin executed
  /\ executed' = executed \cup {runs[r].first}
  /\ sentTo' = [f \in executed' |-> IF f \in executed THEN sentTo[f] ELSE 0]
  /\ UNCHANGED <<runs, committed>>

\* Mutant: a wait workflow that has timed out is not started again.
SignalWithStartNoReuse(id) ==
  LET current == Current(id)
  IN  runs' = IF current = 0
              THEN Append(runs, [NewRun(id, NoRequestId, {}) EXCEPT !.signalled = TRUE])
              ELSE IF runs[current].status = "RUNNING"
              THEN [runs EXCEPT ![current].signalled = TRUE]
              ELSE runs

\* SignalWithStartWaitForStateCompletionWorkflow: a running wait workflow gets the
\* signal; one that has completed refuses, which is ignored.
SignalWithStart(id) ==
  LET current == Current(id)
  IN  runs' = IF current # 0 /\ runs[current].status = "RUNNING"
              THEN [runs EXCEPT ![current].signalled = TRUE]
              ELSE IF MayStart(id, "ALLOW_DUPLICATE_FAILED_ONLY")
              THEN Append(runs, [NewRun(id, NoRequestId, {}) EXCEPT !.signalled = TRUE])
              ELSE runs

SendCompletion(first) ==
  /\ Completing(first) /\ sentTo[first] < Len(SignalIds(first))
  /\ SignalWithStart(SignalIds(first)[sentTo[first] + 1])
  /\ sentTo' = [sentTo EXCEPT ![first] = @ + 1]
  /\ UNCHANGED <<executed, committed>>

\* The call panics, or the worker is lost: the task is executed again.
RetryTask(first) ==
  /\ Completing(first) /\ sentTo[first] > 0
  /\ sentTo' = [sentTo EXCEPT ![first] = 0]
  /\ UNCHANGED <<runs, executed, committed>>

CommitTask(first) ==
  /\ Completing(first) /\ sentTo[first] = Len(SignalIds(first))
  /\ committed' = committed \cup {first}
  /\ UNCHANGED <<runs, executed, sentTo>>

\* WaitForStateCompletionWorkflowImpl
WaitWorkflowCompletes(r) ==
  /\ IsWaitRun(r) /\ runs[r].status = "RUNNING" /\ runs[r].signalled
  /\ runs' = [runs EXCEPT ![r].status = "COMPLETED"]
  /\ UNCHANGED waitVars

\* After an hour, or a minute if the signal has started it.
WaitWorkflowTimesOut(r) ==
  /\ IsWaitRun(r) /\ runs[r].status = "RUNNING"
  /\ runs' = [runs EXCEPT ![r].status = "TIMEOUT"]
  /\ UNCHANGED waitVars

\* A completion that has been committed has reached a wait workflow under each of
\* its ids: one that has completed, will, or has timed out with the signal (the
\* minute that signalWithStart gives it).  A wait workflow that had timed out before
\* the state completed does not swallow it.  The id of the first run is that of the
\* chain; under the id of the workflow the signal may be that of an earlier chain.
CompletionKept ==
  \A f \in committed : \A k \in DOMAIN SignalIds(f) :
    \E i \in RunsOf(SignalIds(f)[k]) : runs[i].signalled
=============================================================================
