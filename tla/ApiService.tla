----------------------------- MODULE ApiService -----------------------------
(***************************************************************************)
(* The handlers of service/api/service.go that make several calls, as      *)
(* processes: every call to the engine or to the blob store is a step, and *)
(* between two steps other requests, the runs (Engine), the wait workflows *)
(* (WaitForStateCompletion) and the cleanup (BlobStore) go on.  The        *)
(* handlers that send one signal or one query are left to Interpreter and  *)
(* TimerProcessor.                                                         *)
(***************************************************************************)
EXTENDS WaitForStateCompletion, BlobStore

CONSTANTS
  Slots,     \* one request each
  Requests,  \* [Slots -> what clients may ask for]
  RequestIds,
  MaxRuns    \* bound: runs of all workflows

ASSUME RequestsAssumption ==
  \A q \in Slots : \A req \in Requests[q] :
    /\ req.api \in {"start", "get", "wait", "stop"} /\ req.wf \in WorkflowIds
    /\ req.api \in {"get", "stop"} => req.run \in Nat
    /\ req.api = "stop" => req.stopType \in {"TERMINATE", "CANCEL"}

VARIABLE call   \* [Slots -> state of the request's handler]

vars == <<runs, waitVars, blobVars, call>>

\* pc is the next call to be made; run is descResp.RunId, or the run that is
\* answered; target is the run whose result is waited for.
NoCall == [req |-> [api |-> "none"], pc |-> "idle", run |-> 0, target |-> 0,
           status |-> "none", objs |-> {}, answer |-> "none"]

FirstPc(req) ==
  CASE req.api = "start" -> IF req.large THEN "write" ELSE "start"
    [] req.api = "get"   -> "describe"
    [] req.api = "stop"  -> "stop"
    [] req.api = "wait"  -> IF WaitsByRun THEN "describeFirst" ELSE "startWait"

At(q, pc) == call[q].pc = pc
Go(q, pc) == call' = [call EXCEPT ![q].pc = pc]
AnswerRun(q, run, status) ==
  call' = [call EXCEPT ![q] = [NoCall EXCEPT !.req = call[q].req, !.pc = "done",
                                 !.answer = "ok", !.run = run, !.status = status]]
Answer(q, answer) ==
  call' = [call EXCEPT ![q] = [NoCall EXCEPT !.pc = "done", !.answer = answer]]

Receive(q, req) ==
  /\ At(q, "idle")
  /\ call' = [call EXCEPT ![q] = [NoCall EXCEPT !.req = req, !.pc = FirstPc(req)]]
  /\ UNCHANGED <<runs, waitVars, blobVars>>

\* A call that fails for a reason of its own; handleError answers with 500.
CallFails(q) ==
  /\ call[q].pc \notin {"idle", "done"}
  /\ Answer(q, "error")
  /\ UNCHANGED <<runs, waitVars, blobVars>>

-----------------------------------------------------------------------------
(* ApiV1WorkflowStartPost *)

WriteInput(q) ==
  /\ At(q, "write")
  /\ WriteObject(call[q].req.wf)
  /\ call' = [call EXCEPT ![q].pc = "start", ![q].objs = {written'}]
  /\ UNCHANGED <<runs, waitVars>>

\* The answer of a start that took effect may be lost.
StartInterpreterWorkflow(q) ==
  LET req == call[q].req
  IN  /\ At(q, "start") /\ Len(runs) < MaxRuns
      /\ MayStart(req.wf, IdReusePolicy(req.policy))
      /\ runs' = Started(req.wf, req.requestId, call[q].objs)
      /\ \/ AnswerRun(q, Len(runs'), "RUNNING")
         \/ Answer(q, "error")
      /\ UNCHANGED <<waitVars, blobVars>>

AlreadyStarted(q) ==
  LET req == call[q].req
      current == Current(req.wf)
  IN  /\ At(q, "start")
      /\ ~MayStart(req.wf, IdReusePolicy(req.policy))
      /\ \/ ~req.ignoreAlreadyStarted /\ Answer(q, "alreadyStarted")
         \/ /\ req.ignoreAlreadyStarted /\ req.requestId = NoRequestId
            /\ AnswerRun(q, current, "RUNNING")
         \/ /\ req.ignoreAlreadyStarted /\ req.requestId # NoRequestId
            /\ call' = [call EXCEPT ![q].pc = "describeStarted", ![q].run = current]
      /\ UNCHANGED <<runs, waitVars, blobVars>>

\* Mutant: the workflow is described without the run id of the error.
DescribedCurrent(q) == Current(call[q].req.wf)
\* The run that the error named.
DescribedStarted(q) == Resolve(call[q].req.wf, call[q].run)

\* A run without a request id makes the handler panic, which is answered as 500.
CompareRequestId(q) ==
  LET described == DescribedStarted(q)
  IN  /\ At(q, "describeStarted")
      /\ IF described = 0 THEN Answer(q, "alreadyStarted")
         ELSE IF runs[described].memo = NoRequestId THEN Answer(q, "error")
         ELSE IF runs[described].memo = call[q].req.requestId
         THEN AnswerRun(q, call[q].run, "RUNNING")
         ELSE Answer(q, "alreadyStarted")
      /\ UNCHANGED <<runs, waitVars, blobVars>>

-----------------------------------------------------------------------------
(* doApiV1WorkflowGetPost *)

GetDescribe(q) ==
  LET req == call[q].req
      described == Resolve(req.wf, req.run)
      status == runs[described].status
  IN  /\ At(q, "describe")
      /\ IF described = 0 THEN Answer(q, "notExists")
         ELSE IF req.withWait \/ (status # "RUNNING" /\ req.needsResults)
         THEN call' = [call EXCEPT ![q].pc = "result", ![q].run = described]
         ELSE AnswerRun(q, described, status)
      /\ UNCHANGED <<runs, waitVars, blobVars>>

\* GetWorkflowResult finds its run anew.
GetWorkflowResult(q) ==
  LET target == Resolve(call[q].req.wf, call[q].req.run)
  IN  /\ At(q, "result")
      /\ call' = IF target = 0 THEN [call EXCEPT ![q].pc = "describeAgain"]
                 ELSE [call EXCEPT ![q].pc = "resultOf", ![q].target = target]
      /\ UNCHANGED <<runs, waitVars, blobVars>>

\* ... and waits for the end of its chain, or for the deadline of the request.  A
\* failure that carries an application error is answered at once.
ResultArrives(q) ==
  LET end == End(call[q].target)
  IN  /\ At(q, "resultOf")
      /\ \/ runs[end].kept /\ runs[end].status = "COMPLETED"
            /\ AnswerRun(q, call[q].run, "COMPLETED")
         \/ runs[end].kept /\ runs[end].status = "FAILED"
            /\ AnswerRun(q, call[q].run, "FAILED")
         \/ (~runs[end].kept \/ runs[end].status \in Abnormal) /\ Go(q, "describeAgain")
         \/ Answer(q, "longPollTimeout")
      /\ UNCHANGED <<runs, waitVars, blobVars>>

\* Mutant: whatever the second describe says is answered.
NoFinalStatusNever == {}
\* "We cannot return these status, which will be a wrong results."
NoFinalStatus == {"RUNNING", "CONTINUED_AS_NEW", "COMPLETED"}

DescribeAgain(q) ==
  LET described == Resolve(call[q].req.wf, call[q].req.run)
  IN  /\ At(q, "describeAgain")
      /\ IF described = 0 THEN Answer(q, "notExists")
         ELSE IF runs[described].status \in NoFinalStatus THEN Answer(q, "error")
         ELSE AnswerRun(q, described, runs[described].status)
      /\ UNCHANGED <<runs, waitVars, blobVars>>

-----------------------------------------------------------------------------
(* ApiV1WorkflowWaitForStateCompletion; target is the wait workflow's run *)

\* On Temporal, and only there, the first run of the chain is asked for.
DescribeFirst(q) ==
  LET described == Current(call[q].req.wf)
  IN  /\ At(q, "describeFirst")
      /\ IF described = 0 THEN Answer(q, "notExists")
         ELSE call' = [call EXCEPT ![q].pc = "startWait",
                                   ![q].run = runs[described].first]
      /\ UNCHANGED <<runs, waitVars, blobVars>>

\* Mutant: the id of the wait workflow is made of the workflow id.
WaitIdOld(q) == WaitIdOfWorkflow(call[q].req.wf)
WaitId(q) == IF WaitsByRun THEN WaitIdOfFirstRun(call[q].run)
             ELSE WaitIdOfWorkflow(call[q].req.wf)

\* The engine answers with the run there is instead of an error.
StartWaitForStateCompletionWorkflow(q) ==
  /\ At(q, "startWait")
  /\ \/ /\ MayStart(WaitId(q), "ALLOW_DUPLICATE_FAILED_ONLY") /\ Len(runs) < MaxRuns
        /\ runs' = Started(WaitId(q), NoRequestId, {})
        /\ call' = [call EXCEPT ![q].pc = "waitResult", ![q].target = Len(runs')]
     \/ /\ ~MayStart(WaitId(q), "ALLOW_DUPLICATE_FAILED_ONLY")
        /\ call' = [call EXCEPT ![q].pc = "waitResult", ![q].target = Current(WaitId(q))]
        /\ UNCHANGED runs
  /\ UNCHANGED <<waitVars, blobVars>>

WaitResult(q) ==
  LET wait == runs[call[q].target]
  IN  /\ At(q, "waitResult")
      /\ \/ wait.kept /\ wait.status = "COMPLETED"
            /\ AnswerRun(q, call[q].run, "COMPLETED")
         \/ ~wait.kept /\ Answer(q, "notExists")
         \/ Answer(q, "longPollTimeout")
      /\ UNCHANGED <<runs, waitVars, blobVars>>

-----------------------------------------------------------------------------
(* ApiV1WorkflowStopPost; stop type FAIL is a signal *)

StopWorkflow(q) ==
  LET req == call[q].req
      run == Resolve(req.wf, req.run)
  IN  /\ At(q, "stop")
      /\ IF run = 0 \/ runs[run].status # "RUNNING"
         THEN Answer(q, "notExists") /\ UNCHANGED runs
         ELSE /\ Answer(q, "ok")
              /\ runs' = CASE req.stopType = "TERMINATE" ->
                                [runs EXCEPT ![run].status = "TERMINATED"]
                           [] req.stopType = "CANCEL" ->
                                [runs EXCEPT ![run].cancelRequested = TRUE]
      /\ UNCHANGED <<waitVars, blobVars>>

-----------------------------------------------------------------------------
(* Everything else that happens *)

\* An activity of a run writes a large value.
ActivityWrites(r) ==
  /\ InterpreterRun(r) /\ runs[r].status = "RUNNING"
  /\ WriteObject(runs[r].wf)
  /\ runs' = [runs EXCEPT ![r].objs = @ \cup {written'}]
  /\ UNCHANGED waitVars

\* A run does not end between the calls of the task that completes the state.
InterpreterSteps(r) ==
  \/ \E s \in Abnormal \cup {"COMPLETED"} :
       s # "TERMINATED" /\ Close(r, s) /\ UNCHANGED waitVars
  \/ /\ Len(runs) < MaxRuns /\ ~Completing(runs[r].first)
     /\ ContinueAsNew(r) /\ UNCHANGED waitVars
  \/ Retention(r) /\ UNCHANGED waitVars
  \/ ExecuteSucceeds(r)
  \/ WaitWorkflowCompletes(r) \/ WaitWorkflowTimesOut(r)

CompletionSteps(first) ==
  \/ Len(runs) < MaxRuns /\ SendCompletion(first)
  \/ RetryTask(first)
  \/ CommitTask(first)

Init ==
  /\ \/ runs = << >>
     \/ \E wf \in WorkflowIds, id \in RequestIds \cup {NoRequestId} :
          runs = <<[wf |-> wf, status |-> "RUNNING", first |-> 1, memo |-> id, objs |-> {},
                    kept |-> TRUE, cancelRequested |-> FALSE, signalled |-> FALSE]>>
  /\ WaitInit /\ BlobInit
  /\ call = [q \in Slots |-> NoCall]

HandlerStep(q) ==
  \/ WriteInput(q) \/ StartInterpreterWorkflow(q) \/ AlreadyStarted(q)
  \/ CompareRequestId(q)
  \/ GetDescribe(q) \/ GetWorkflowResult(q) \/ ResultArrives(q) \/ DescribeAgain(q)
  \/ DescribeFirst(q) \/ StartWaitForStateCompletionWorkflow(q) \/ WaitResult(q)
  \/ StopWorkflow(q)

Next ==
  \/ \E q \in Slots : (\E req \in Requests[q] : Receive(q, req)) \/ CallFails(q) \/ HandlerStep(q)
  \/ \E r \in DOMAIN runs :
       \/ InterpreterSteps(r) /\ UNCHANGED <<blobVars, call>>
       \/ ActivityWrites(r) /\ UNCHANGED call
  \/ \E f \in executed : CompletionSteps(f) /\ UNCHANGED <<blobVars, call>>
  \/ (NextDay \/ CleanupStep) /\ UNCHANGED <<waitVars, call>>

Spec == Init /\ [][Next]_vars

-----------------------------------------------------------------------------
(* Properties *)

Answered(api) == {q \in Slots : At(q, "done") /\ call[q].req.api = api /\ call[q].answer = "ok"}

TypeOK ==
  /\ \A i \in DOMAIN runs :
       /\ runs[i].status \in Statuses /\ runs[i].first \in 1..i
       /\ runs[i].objs \subseteq 1..written
  /\ executed \subseteq DOMAIN runs /\ committed \subseteq executed
  /\ \A o \in objects : o.id \in 1..written /\ o.dir \in (0..today) \X WorkflowIds
  /\ \A q \in Answered("start") \cup Answered("get") :
       call[q].run \in DOMAIN runs /\ call[q].status \in Statuses

\* A start with a request id that is answered with a run is answered with a run
\* that was started for this request id, although the runs of the workflow may
\* have changed between the refusal of the engine and the describe.
StartAnsweredByItsOwnRun ==
  \A q \in Answered("start") :
    call[q].req.requestId # NoRequestId =>
      runs[call[q].run].memo = call[q].req.requestId

\* A get that waits, or that asks for the results of a run that has ended, is
\* answered with the final status of the run's chain; without a run id it may also
\* be that of a chain that has started since.
GetAnswerIsFinal ==
  \A q \in Answered("get") :
    LET req == call[q].req
        chains == {i \in RunsOf(req.wf) :
                     End(i) = End(call[q].run) \/ (req.run = 0 /\ i > call[q].run)}
    IN  req.withWait \/ (req.needsResults /\ call[q].status # "RUNNING") =>
          \E i \in chains : runs[End(i)].status = call[q].status /\ call[q].status # "RUNNING"

\* A client that is told that a state has completed asked about a chain in which
\* the state has been executed.  With the old ids, and always on Cadence, it may be
\* any chain of the workflow: one that ended before the current one was started.
WaitAnswerIsTrue ==
  \A q \in Answered("wait") :
    IF WaitsByRun THEN call[q].run \in executed
    ELSE \E f \in executed : runs[f].wf = call[q].req.wf
=============================================================================
