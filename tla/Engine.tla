------------------------------- MODULE Engine -------------------------------
(***************************************************************************)
(* What the server sees of Temporal or Cadence through service/client: the *)
(* runs of workflows.  A run has the number of its start as its run id.    *)
(* The engine itself is not part of the repository; what is modelled is    *)
(* what the calls of client.go do to the runs and what they answer.        *)
(***************************************************************************)
EXTENDS Naturals, Sequences, FiniteSetsExt

CONSTANTS
  Backend,       \* GetBackendType
  WorkflowIds,   \* the users' workflows, <<"workflow", number>>
  NoRequestId    \* a start without a request id

ASSUME BackendAssumption == Backend \in {"temporal", "cadence"}
ASSUME WorkflowIdsAssumption == WorkflowIds \subseteq {"workflow"} \X Nat

VARIABLE runs    \* in the order of their starts

\* iwfidl.WorkflowStatus, to which mapToIwfWorkflowStatus maps every status.
Statuses == {"RUNNING", "COMPLETED", "FAILED", "TIMEOUT", "TERMINATED", "CANCELED",
             "CONTINUED_AS_NEW"}
Abnormal == {"FAILED", "TIMEOUT", "TERMINATED", "CANCELED"}

\* The policy of a start that asks for none is that of the engine's client.
DefaultPolicy ==
  IF Backend = "temporal" THEN "ALLOW_DUPLICATE" ELSE "ALLOW_DUPLICATE_FAILED_ONLY"

\* GetWorkflowIdReusePolicy: the policies of the API and the engine's.
IdReusePolicy(p) ==
  CASE p = "NONE"                               -> DefaultPolicy
    [] p = "ALLOW_IF_NO_RUNNING"                -> "ALLOW_DUPLICATE"
    [] p = "ALLOW_IF_PREVIOUS_EXITS_ABNORMALLY" -> "ALLOW_DUPLICATE_FAILED_ONLY"
    [] p = "DISALLOW_REUSE"                     -> "REJECT_DUPLICATE"
    [] p = "ALLOW_TERMINATE_IF_RUNNING"         -> "TERMINATE_IF_RUNNING"

RunsOf(wf) == {i \in DOMAIN runs : runs[i].wf = wf}

\* The run that a call without a run id means; 0 when the engine does not know
\* the workflow, or no longer.
Current(wf) ==
  LET known == {i \in RunsOf(wf) : runs[i].kept}
  IN  IF known = {} THEN 0 ELSE Max(known)
\* The run that a call means; a run id of 0 is no run id.
Resolve(wf, run) ==
  IF run = 0 THEN Current(wf)
  ELSE IF run \in RunsOf(wf) /\ runs[run].kept THEN run ELSE 0

Chain(run) == {i \in DOMAIN runs : runs[i].first = runs[run].first}
\* The last run of the chain of continue-as-news that a run belongs to.
End(run) == Max(Chain(run))

NewRun(wf, memo, objs) ==
  [wf |-> wf, status |-> "RUNNING", first |-> Len(runs) + 1, memo |-> memo,
   objs |-> objs, kept |-> TRUE, cancelRequested |-> FALSE, signalled |-> FALSE]

\* Whether the engine starts a run or refuses with WorkflowExecutionAlreadyStarted.
MayStart(wf, policy) ==
  \A i \in {Current(wf)} \ {0} :
    \/ policy = "TERMINATE_IF_RUNNING"
    \/ runs[i].status # "RUNNING" /\ policy = "ALLOW_DUPLICATE"
    \/ runs[i].status \in Abnormal /\ policy = "ALLOW_DUPLICATE_FAILED_ONLY"

\* The runs after a start that the engine does not refuse.
Started(wf, memo, objs) ==
  LET current == Current(wf)
  IN  Append([i \in DOMAIN runs |->
                IF i = current /\ runs[i].status = "RUNNING"
                THEN [runs[i] EXCEPT !.status = "TERMINATED"] ELSE runs[i]],
             NewRun(wf, memo, objs))

-----------------------------------------------------------------------------
(* What happens to the runs of the interpreter workflow.  What a run does in   *)
(* between is the subject of Interpreter and of RunCycle.                      *)

InterpreterRun(r) == r \in DOMAIN runs /\ runs[r].wf \in WorkflowIds

Close(r, status) ==
  /\ InterpreterRun(r) /\ runs[r].status = "RUNNING"
  /\ status = "CANCELED" => runs[r].cancelRequested
  /\ runs' = [runs EXCEPT ![r].status = status]

\* Memo and input go to the next run.
ContinueAsNew(r) ==
  /\ InterpreterRun(r) /\ runs[r].status = "RUNNING"
  /\ runs' = Append([runs EXCEPT ![r].status = "CONTINUED_AS_NEW"],
                    [NewRun(runs[r].wf, runs[r].memo, runs[r].objs)
                       EXCEPT !.first = runs[r].first])

\* A closed run is forgotten at the end of its retention, the older ones first.
Retention(r) ==
  /\ runs[r].kept /\ runs[r].status # "RUNNING"
  /\ \A i \in RunsOf(runs[r].wf) : i < r => ~runs[i].kept
  /\ runs' = [runs EXCEPT ![r].kept = FALSE]
=============================================================================
