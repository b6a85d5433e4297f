----------------------------- MODULE Interpreter -----------------------------
(***************************************************************************)
(* The interpreter workflow (service/interpreter/workflowImpl.go) with the *)
(* objects it drives: the state request queue, the state execution         *)
(* counter, the internal and signal channels, the signal handlers, the     *)
(* output collector and the continue-as-newer.                             *)
(*                                                                         *)
(* A workflow run is a set of cooperative coroutines: the main loop, one   *)
(* thread per state execution, one per command, one per signal handler.  A *)
(* coroutine keeps the processor until it blocks in provider.Await or in   *)
(* an activity, so an action here is the code between two such points.     *)
(* The threads that the main loop spawns run to their first blocking point *)
(* before the main loop is scheduled again, hence TakeAll starts them.     *)
(*                                                                         *)
(* When the continue-as-new threshold is met the run drains its threads,   *)
(* closes, and a new run loads the snapshot of the closed one.  The memory *)
(* of the closed run is what its dump query answers: while main is         *)
(* "loading" the variables still hold it, and Load rebuilds them.          *)
(***************************************************************************)
EXTENDS Integers, Sequences, FiniteSets, DeciderTrigger

CONSTANTS
  StateIds,            \* ids of the user's workflow states
  StartStateId,        \* the starting state, or NoState
  NoState,             \* "no state id"
  SkipWaitUntil,       \* states whose options skip the WaitUntil API
  ProceedOnWaitUntilFailure,  \* states with PROCEED_TO_DECIDE_ON_START_API_FAILURE
  ExecuteApiFailureProceedStateId, \* [StateIds -> StateIds \cup {NoState}]
  SignalChannels,      \* channels fed by the clients
  InternalChannels,    \* channels fed by state APIs and RPCs
  Timer,               \* the target of a timer command
  NoChannel,           \* "no channel"
  CommandRequests,     \* what a WaitUntil API may answer
  Decisions,           \* what an Execute API may answer
  MaxExecutions,       \* bound: executions of one state id
  MaxMessages,         \* bound: messages on all channels
  MaxRpcs,             \* bound: RPCs
  MaxRuns,             \* bound: continue-as-news
  MayFailByClient      \* whether a client may send the FailWorkflow signal

Channels == SignalChannels \cup InternalChannels
GracefulCompletingWorkflowStateId == "_SYS_GRACEFUL_COMPLETING_WORKFLOW"
ForceCompletingWorkflowStateId    == "_SYS_FORCE_COMPLETING_WORKFLOW"
ForceFailingWorkflowStateId       == "_SYS_FORCE_FAILING_WORKFLOW"
DeadEndWorkflowStateId            == "_SYS_DEAD_END"
ValidClosingWorkflowStateId ==
  {GracefulCompletingWorkflowStateId, ForceCompletingWorkflowStateId,
   ForceFailingWorkflowStateId, DeadEndWorkflowStateId}

\* A state execution id is the state id and the number of the execution.
ExeIds   == StateIds \X (1..MaxExecutions)
Messages == 1..MaxMessages
CmdIdx   == UNION {DOMAIN r.cmds : r \in CommandRequests}
NextIdx  == UNION {DOMAIN d.next : d \in Decisions}
NoCommands == [trigger |-> "ALL_COMMAND_COMPLETED", cmds |-> << >>, combos |-> << >>]
NoDecision == [condClose |-> NoChannel, next |-> << >>]

ASSUME StatesAssumption ==
  /\ IsFiniteSet(StateIds) /\ NoState \notin StateIds
  /\ StateIds \cap ValidClosingWorkflowStateId = {}
  /\ StartStateId \in StateIds \cup {NoState}
  /\ SkipWaitUntil \subseteq StateIds
  /\ ProceedOnWaitUntilFailure \subseteq StateIds
  /\ ExecuteApiFailureProceedStateId \in [StateIds -> StateIds \cup {NoState}]

ASSUME ChannelsAssumption ==
  /\ SignalChannels \cap InternalChannels = {}
  /\ Timer \notin Channels /\ NoChannel \notin Channels

ASSUME RequestsAssumption ==
  /\ NoCommands \in CommandRequests
  /\ \A r \in CommandRequests :
       /\ r.trigger \in TriggerTypes /\ CheckCommandRequestFromWaitUntilResponse(r)
       /\ r.cmds \in Seq([target : Channels \cup {Timer}, id : Nat])
       /\ r.combos \in Seq(Seq(Nat))
  /\ \A d \in Decisions :
       /\ d.condClose \in Channels \cup {NoChannel}
       /\ d.next \in Seq(StateIds \cup ValidClosingWorkflowStateId)

ASSUME BoundsAssumption ==
  /\ MaxExecutions \in Nat /\ MaxMessages \in Nat /\ MaxRpcs \in Nat /\ MaxRuns \in Nat
  /\ MayFailByClient \in BOOLEAN

VARIABLES
  main,        \* where the main loop waits
  run,         \* number of continue-as-news so far
  result,      \* how the workflow closed
  startQ,      \* StateRequestQueue: queued start requests of each state id
  resumeQ,     \* StateRequestQueue: queued resume requests
  errToFailWf, forceCompleteWf, shouldGracefulComplete,
  thresholdMet,  \* ContinueAsNewCounter.IsThresholdMet
  started,     \* stateIdStartedCounts
  total,       \* totalCurrentlyExecutingCount
  thread,      \* where the thread of an execution waits; "none" without thread
  commandReq, completedCmds, cmdValues, \* command request and completed commands
  cmdThreads,  \* commands whose thread is running
  decision,    \* decision of an execution that yields in a conditional close
  toResume,    \* StateExecutionToResumeMap
  received,    \* receivedSignals and receivedData
  inbox,       \* messages the engine holds: of signals, and carried by ExecuteRpc
  rpcInbox,    \* ExecuteRpc signals the engine holds: state to start, channel fed
  failSent,    \* a FailWorkflow signal the engine holds
  failWorkflowByClient,
  handlers,    \* signal handler threads that are running
  inflight,    \* inflightUpdateOperations
  outputs,     \* OutputCollector: executions whose output was collected
  nextMsg, rpcs, \* identities given out
  delivered,   \* history: how often a message was passed to an Execute API
  decided,     \* history: how often an execution made its decision
  completers   \* history: executions that decided to complete the workflow

mainVars    == <<main, run, result>>
queueVars   == <<startQ, resumeQ>>
flagVars    == <<errToFailWf, forceCompleteWf, shouldGracefulComplete>>
counterVars == <<started, total>>
threadVars  == <<thread, commandReq, completedCmds, cmdValues, cmdThreads, decision>>
signalVars  == <<inbox, rpcInbox, failSent, failWorkflowByClient>>
idVars      == <<nextMsg, rpcs>>
histVars    == <<delivered, decided, completers>>
vars == <<mainVars, queueVars, flagVars, thresholdMet, counterVars, threadVars, toResume,
          received, signalVars, handlers, inflight, outputs, idVars, histVars>>

Handlers == {"fail-workflow", "execute-rpc", "user-signal"}
Rpcs == [next : StateIds \cup {NoState}, chan : InternalChannels \cup {NoChannel}]

-----------------------------------------------------------------------------
(* State request queue *)

QueueIsEmpty == resumeQ = {} /\ \A s \in StateIds : startQ[s] = 0

\* How many of the sequence's states are s.
CountOf(s, next) == Cardinality({i \in DOMAIN next : next[i] = s})
AddStateStartRequests(q, next) == [s \in StateIds |-> q[s] + CountOf(s, next)]

\* Bound on the executions, so that every execution id exists.
MayRequest(next) ==
  \A s \in StateIds :
    started[s] + startQ[s] + CountOf(s, next)
      + Cardinality({i \in DOMAIN rpcInbox : rpcInbox[i].next = s})
      + Cardinality({p \in ExeIds \X NextIdx : p[2] \in DOMAIN decision[p[1]].next
                                             /\ decision[p[1]].next[p[2]] = s}) <= MaxExecutions

-----------------------------------------------------------------------------
(* Channels and signal draining *)

\* ProcessPublishing of at most one message; the identity is fresh.
Publishes == InternalChannels \cup {NoChannel}
ProcessPublishing(recv, pub) ==
  IF pub = NoChannel THEN recv ELSE [recv EXCEPT ![pub] = Append(@, nextMsg)]
AllocateMessage(pub) ==
  /\ pub # NoChannel => nextMsg <= MaxMessages
  /\ nextMsg' = IF pub = NoChannel THEN nextMsg ELSE nextMsg + 1

\* The states that the ExecuteRpc signals rs ask to start.
RpcStates(rs) == [i \in DOMAIN rs |-> rs[i].next]
First(q) == IF q = << >> THEN << >> ELSE <<Head(q)>>
Rest(q)  == IF q = << >> THEN << >> ELSE Tail(q)

\* Mutant: the ExecuteRpc signals are drained without what they publish.
DrainedSignals(recv) ==
  [c \in Channels |-> IF c \in SignalChannels THEN recv[c] \o inbox[c] ELSE recv[c]]

\* DrainAllReceivedButUnprocessedSignals: everything the engine holds is
\* processed, whatever handler thread it was meant for.
DrainedReceived(recv) == [c \in Channels |-> recv[c] \o inbox[c]]
DrainedStartQ == AddStateStartRequests(startQ, RpcStates(rpcInbox))
\* Mutant: the drain overlooks the FailWorkflow signal.
DrainedFailForgotten == failWorkflowByClient
DrainedFail   == failWorkflowByClient \/ failSent
EmptyInbox    == [c \in Channels |-> << >>]
DrainAllReceivedButUnprocessedSignals(recv) ==
  /\ received' = DrainedReceived(recv)
  /\ startQ' = DrainedStartQ
  /\ failWorkflowByClient' = DrainedFail
  /\ inbox' = EmptyInbox
  /\ rpcInbox' = << >>
  /\ failSent' = FALSE

-----------------------------------------------------------------------------
(* Clients: signals, RPCs and updates reach the engine at any time *)

Open == main # "closed"
\* The run is executing workflow code (its handlers are registered).
Running == main \notin {"closed", "loading"}

SignalWorkflow(c) ==
  /\ Open /\ nextMsg <= MaxMessages
  /\ inbox' = [inbox EXCEPT ![c] = Append(@, nextMsg)]
  /\ nextMsg' = nextMsg + 1
  /\ UNCHANGED <<mainVars, queueVars, flagVars, thresholdMet, counterVars, threadVars, toResume,
                 received, rpcInbox, failSent, failWorkflowByClient, handlers, inflight,
                 outputs, rpcs, histVars>>

FailWorkflow ==
  /\ Open /\ MayFailByClient /\ ~failSent /\ ~failWorkflowByClient
  /\ failSent' = TRUE
  /\ UNCHANGED <<mainVars, queueVars, flagVars, thresholdMet, counterVars, threadVars, toResume,
                 received, inbox, rpcInbox, failWorkflowByClient, handlers, inflight,
                 outputs, idVars, histVars>>

\* An RPC without locking: a query, the worker call, then a signal to the run.
ExecuteRpcSignal(next, pub) ==
  /\ Open /\ rpcs < MaxRpcs
  /\ next # NoState => MayRequest(<<next>>)
  /\ rpcInbox' = Append(rpcInbox, [next |-> next, chan |-> pub])
  /\ inbox' = ProcessPublishing(inbox, pub)
  /\ AllocateMessage(pub)
  /\ rpcs' = rpcs + 1
  /\ UNCHANGED <<mainVars, queueVars, flagVars, thresholdMet, counterVars, threadVars, toResume,
                 received, failSent, failWorkflowByClient, handlers, inflight,
                 outputs, histVars>>

\* An RPC with locking: an update whose handler runs in the workflow.
UpdateHandlerStart ==
  /\ Running /\ rpcs < MaxRpcs
  /\ inflight' = inflight + 1
  /\ rpcs' = rpcs + 1
  /\ UNCHANGED <<mainVars, queueVars, flagVars, thresholdMet, counterVars, threadVars, toResume,
                 received, signalVars, handlers, outputs, nextMsg, histVars>>

UpdateHandlerFinish(next, pub) ==
  /\ Running /\ inflight > 0
  /\ next # NoState => MayRequest(<<next>>)
  /\ inflight' = inflight - 1
  /\ received' = ProcessPublishing(received, pub)
  /\ AllocateMessage(pub)
  /\ startQ' = AddStateStartRequests(startQ, <<next>>)
  /\ UNCHANGED <<mainVars, resumeQ, flagVars, thresholdMet, counterVars, threadVars, toResume,
                 signalVars, handlers, outputs, rpcs, histVars>>

\* Mutant: the counter is decremented on the error path and again when deferred.
UpdateHandlerFailTwice ==
  /\ Running /\ inflight > 0
  /\ inflight' = inflight - 2
  /\ UNCHANGED <<mainVars, queueVars, flagVars, thresholdMet, counterVars, threadVars, toResume,
                 received, signalVars, handlers, outputs, idVars, histVars>>

\* The activity of the update failed: nothing is applied.
UpdateHandlerFail ==
  /\ Running /\ inflight > 0
  /\ inflight' = inflight - 1
  /\ UNCHANGED <<mainVars, queueVars, flagVars, thresholdMet, counterVars, threadVars, toResume,
                 received, signalVars, handlers, outputs, idVars, histVars>>

\* The threshold is met: TriggerByAPI, or a counter of executed state APIs,
\* signals and updates reached continueAsNewThreshold.
MeetThreshold ==
  /\ Running /\ ~thresholdMet /\ run < MaxRuns
  /\ thresholdMet' = TRUE
  /\ UNCHANGED <<mainVars, queueVars, flagVars, counterVars, threadVars, toResume,
                 received, signalVars, handlers, inflight, outputs, idVars, histVars>>

-----------------------------------------------------------------------------
(* Signal handler threads *)

HandlerHasSignal(h) ==
  CASE h = "fail-workflow" -> failSent
    [] h = "execute-rpc"   -> rpcInbox # << >>
    [] h = "user-signal"   -> \E c \in SignalChannels : inbox[c] # << >>

FailWorkflowHandler ==
  /\ Running /\ "fail-workflow" \in handlers /\ failSent
  /\ failSent' = FALSE
  /\ failWorkflowByClient' = TRUE
  /\ UNCHANGED <<mainVars, queueVars, flagVars, thresholdMet, counterVars, threadVars, toResume,
                 received, inbox, rpcInbox, handlers, inflight, outputs, idVars, histVars>>

ExecuteRpcHandler ==
  /\ Running /\ "execute-rpc" \in handlers /\ rpcInbox # << >>
  /\ LET rpc == Head(rpcInbox) IN
       /\ received' = [c \in Channels |->
                         IF c = rpc.chan THEN received[c] \o First(inbox[c]) ELSE received[c]]
       /\ inbox' = [c \in Channels |-> IF c = rpc.chan THEN Rest(inbox[c]) ELSE inbox[c]]
       /\ startQ' = AddStateStartRequests(startQ, <<rpc.next>>)
  /\ rpcInbox' = Tail(rpcInbox)
  /\ UNCHANGED <<mainVars, resumeQ, flagVars, thresholdMet, counterVars, threadVars, toResume,
                 failSent, failWorkflowByClient, handlers, inflight, outputs, idVars, histVars>>

UserSignalHandler ==
  /\ Running /\ "user-signal" \in handlers /\ HandlerHasSignal("user-signal")
  /\ received' = [c \in Channels |->
                    IF c \in SignalChannels THEN received[c] \o inbox[c] ELSE received[c]]
  /\ inbox' = [c \in Channels |-> IF c \in SignalChannels THEN << >> ELSE inbox[c]]
  /\ UNCHANGED <<mainVars, queueVars, flagVars, thresholdMet, counterVars, threadVars, toResume,
                 rpcInbox, failSent, failWorkflowByClient, handlers, inflight, outputs, idVars,
                 histVars>>

\* A handler that found nothing to receive ends once the threshold is met.
HandlerExit(h) ==
  /\ Running /\ h \in handlers /\ thresholdMet /\ ~HandlerHasSignal(h)
  /\ handlers' = handlers \ {h}
  /\ UNCHANGED <<mainVars, queueVars, flagVars, thresholdMet, counterVars, threadVars, toResume,
                 received, signalVars, inflight, outputs, idVars, histVars>>

-----------------------------------------------------------------------------
(* State execution threads: processStateExecution and invokeStateExecute *)

Commands(e)   == DOMAIN commandReq[e].cmds
TriggerMet(e) == IsDeciderTriggerConditionMet(commandReq[e], completedCmds[e])

\* The WaitUntil API answered req; or it failed, the state proceeds on such a
\* failure, and there are no commands to wait for.
StartWaiting(e, req, pub) ==
  /\ thread[e] = "waitUntil"
  /\ received' = ProcessPublishing(received, pub)
  /\ AllocateMessage(pub)
  /\ commandReq' = [commandReq EXCEPT ![e] = req]
  /\ completedCmds' = [completedCmds EXCEPT ![e] = {}]
  /\ cmdThreads' = [cmdThreads EXCEPT ![e] = DOMAIN req.cmds]
  /\ toResume' = toResume \cup {e}
  /\ thread' = [thread EXCEPT ![e] = "waiting"]
  /\ UNCHANGED <<mainVars, queueVars, flagVars, thresholdMet, counterVars, cmdValues, decision,
                 signalVars, handlers, inflight, outputs, rpcs, histVars>>
WaitUntilCompleted(e, req, pub) == Running /\ StartWaiting(e, req, pub)
WaitUntilFailedAndProceed(e) ==
  /\ Running /\ e[1] \in ProceedOnWaitUntilFailure
  /\ StartWaiting(e, NoCommands, NoChannel)

\* A failed API call fails the workflow; the execution is not marked completed.
FailExecution(e) ==
  /\ errToFailWf' = TRUE
  /\ thread' = [thread EXCEPT ![e] = "none"]
  /\ UNCHANGED <<mainVars, queueVars, forceCompleteWf, shouldGracefulComplete, thresholdMet,
                 counterVars, commandReq, completedCmds, cmdValues, cmdThreads, decision,
                 toResume, received, signalVars, handlers, inflight, outputs, idVars, histVars>>
WaitUntilFailed(e) ==
  /\ Running /\ thread[e] = "waitUntil" /\ e[1] \notin ProceedOnWaitUntilFailure
  /\ FailExecution(e)
ExecuteFailed(e) ==
  /\ Running /\ thread[e] = "execute" /\ ExecuteApiFailureProceedStateId[e[1]] = NoState
  /\ FailExecution(e)

\* A signal or internal channel command thread retrieves the oldest message.
\* It does so even after the request was done or canceled.
CommandReceive(e, i) ==
  /\ Running /\ i \in cmdThreads[e]
  /\ LET c == commandReq[e].cmds[i].target IN
       /\ c # Timer
       /\ received[c] # << >>
       /\ cmdValues' = [cmdValues EXCEPT ![e][i] = Head(received[c])]
       /\ received' = [received EXCEPT ![c] = Tail(@)]
  /\ completedCmds' = [completedCmds EXCEPT ![e] = @ \cup {i}]
  /\ cmdThreads' = [cmdThreads EXCEPT ![e] = @ \ {i}]
  /\ UNCHANGED <<mainVars, queueVars, flagVars, thresholdMet, counterVars, thread, commandReq,
                 decision, toResume, signalVars, handlers, inflight, outputs, idVars, histVars>>

\* WaitForTimerFiredOrSkipped returned "fired" or "skipped".
TimerFired(e, i) ==
  /\ Running /\ i \in cmdThreads[e] /\ commandReq[e].cmds[i].target = Timer
  /\ completedCmds' = [completedCmds EXCEPT ![e] = @ \cup {i}]
  /\ cmdValues' = [cmdValues EXCEPT ![e][i] = 0]
  /\ cmdThreads' = [cmdThreads EXCEPT ![e] = @ \ {i}]
  /\ UNCHANGED <<mainVars, queueVars, flagVars, thresholdMet, counterVars, thread, commandReq,
                 decision, toResume, received, signalVars, handlers, inflight, outputs, idVars,
                 histVars>>

\* commandReqDoneOrCanceled ends a command thread that has nothing to receive.
CommandCancel(e, i) ==
  /\ Running /\ i \in cmdThreads[e] /\ thread[e] = "draining"
  /\ LET c == commandReq[e].cmds[i].target IN c # Timer => received[c] = << >>
  /\ cmdThreads' = [cmdThreads EXCEPT ![e] = @ \ {i}]
  /\ UNCHANGED <<mainVars, queueVars, flagVars, thresholdMet, counterVars, thread, commandReq,
                 completedCmds, cmdValues, decision, toResume, received, signalVars, handlers,
                 inflight, outputs, idVars, histVars>>

\* Mutant: the Await of the state thread ignores the threshold.
CommandReqDoneOnly(e) ==
  /\ Running /\ thread[e] = "waiting" /\ TriggerMet(e)
  /\ thread' = [thread EXCEPT ![e] = "draining"]
  /\ UNCHANGED <<mainVars, queueVars, flagVars, thresholdMet, counterVars, commandReq,
                 completedCmds, cmdValues, cmdThreads, decision, toResume, received, signalVars,
                 handlers, inflight, outputs, idVars, histVars>>

\* The trigger is met or the run must continue as new: the request is done.
CommandReqDoneOrCanceled(e) ==
  /\ Running /\ thread[e] = "waiting"
  /\ TriggerMet(e) \/ thresholdMet
  /\ thread' = [thread EXCEPT ![e] = "draining"]
  /\ UNCHANGED <<mainVars, queueVars, flagVars, thresholdMet, counterVars, commandReq,
                 completedCmds, cmdValues, cmdThreads, decision, toResume, received, signalVars,
                 handlers, inflight, outputs, idVars, histVars>>

\* All command threads ended.
CommandThreadsDrained(e) == thread[e] = "draining" /\ cmdThreads[e] = {}

\* The trigger is not met: the execution stays in StateExecutionToResumeMap.
ReturnWaitingCommands(e) ==
  /\ Running /\ CommandThreadsDrained(e) /\ ~TriggerMet(e)
  /\ thread' = [thread EXCEPT ![e] = "none"]
  /\ UNCHANGED <<mainVars, queueVars, flagVars, thresholdMet, counterVars, commandReq,
                 completedCmds, cmdValues, cmdThreads, decision, toResume, received, signalVars,
                 handlers, inflight, outputs, idVars, histVars>>

\* Mutant: Execute is invoked while command threads may still receive messages
\* (what the code did before its version 10).
InvokeStateExecuteEarly(e) ==
  /\ Running /\ thread[e] = "draining" /\ TriggerMet(e)
  /\ thread' = [thread EXCEPT ![e] = "execute"]
  /\ delivered' = [m \in Messages |->
       delivered[m] + Cardinality({i \in completedCmds[e] : cmdValues[e][i] = m})]
  /\ UNCHANGED <<mainVars, queueVars, flagVars, thresholdMet, counterVars, commandReq,
                 completedCmds, cmdValues, cmdThreads, decision, toResume, received, signalVars,
                 handlers, inflight, outputs, idVars, decided, completers>>

\* The command results are passed to the Execute API.
InvokeStateExecute(e) ==
  /\ Running /\ CommandThreadsDrained(e) /\ TriggerMet(e)
  /\ thread' = [thread EXCEPT ![e] = "execute"]
  /\ delivered' = [m \in Messages |->
       delivered[m] + Cardinality({i \in completedCmds[e] : cmdValues[e][i] = m})]
  /\ UNCHANGED <<mainVars, queueVars, flagVars, thresholdMet, counterVars, commandReq,
                 completedCmds, cmdValues, cmdThreads, decision, toResume, received, signalVars,
                 handlers, inflight, outputs, idVars, decided, completers>>

-----------------------------------------------------------------------------
(* Decisions: checkClosingWorkflow and what the state thread does with it *)

Moves(d, s)      == \E i \in DOMAIN d.next : d.next[i] = s
HasClosing(d)    == \E s \in ValidClosingWorkflowStateId : Moves(d, s)
IllegalMove(d)   == HasClosing(d) /\ Len(d.next) > 1
\* Mutant: only an empty list of next states asks for graceful completion.
GracefulMoveIfEmpty(d) == d.next = << >>
GracefulMove(d)  == Moves(d, GracefulCompletingWorkflowStateId) \/ d.next = << >>
CanGoNext(d)     == ~HasClosing(d) /\ d.next # << >>
HasOutput(d)     == \E s \in ValidClosingWorkflowStateId \ {DeadEndWorkflowStateId} : Moves(d, s)

\* MarkStateExecutionCompleted and the end of the thread.
MarkStateExecutionCompleted(e) ==
  /\ total' = total - 1
  /\ thread' = [thread EXCEPT ![e] = "none"]
CollectOutput(e, hasOutput) ==
  /\ outputs' = IF hasOutput THEN Append(outputs, e) ELSE outputs
  /\ completers' = IF hasOutput THEN completers \cup {e} ELSE completers

\* Mutant: RemoveStateExecutionToResume is not called.
ExecuteCompletedStillResumed(e, d, pub) ==
  /\ Running /\ thread[e] = "execute" /\ d.condClose = NoChannel
  /\ CanGoNext(d) => MayRequest(d.next)
  /\ received' = ProcessPublishing(received, pub)
  /\ AllocateMessage(pub)
  /\ decided' = [decided EXCEPT ![e] = @ + 1]
  /\ shouldGracefulComplete' = (shouldGracefulComplete \/ GracefulMove(d))
  /\ forceCompleteWf' = (forceCompleteWf \/ Moves(d, ForceCompletingWorkflowStateId))
  /\ errToFailWf' = (errToFailWf \/ Moves(d, ForceFailingWorkflowStateId) \/ IllegalMove(d))
  /\ CollectOutput(e, HasOutput(d))
  /\ startQ' = IF CanGoNext(d) THEN AddStateStartRequests(startQ, d.next) ELSE startQ
  /\ MarkStateExecutionCompleted(e)
  /\ UNCHANGED <<mainVars, resumeQ, thresholdMet, started, commandReq, completedCmds, cmdValues,
                 cmdThreads, decision, toResume, signalVars, handlers, inflight, rpcs, delivered>>

\* The Execute API answered a decision without conditional close.
ExecuteCompleted(e, d, pub) ==
  /\ Running /\ thread[e] = "execute" /\ d.condClose = NoChannel
  /\ CanGoNext(d) => MayRequest(d.next)
  /\ received' = ProcessPublishing(received, pub)
  /\ AllocateMessage(pub)
  /\ toResume' = toResume \ {e}
  /\ decided' = [decided EXCEPT ![e] = @ + 1]
  /\ shouldGracefulComplete' = (shouldGracefulComplete \/ GracefulMove(d))
  /\ forceCompleteWf' = (forceCompleteWf \/ Moves(d, ForceCompletingWorkflowStateId))
  /\ errToFailWf' = (errToFailWf \/ Moves(d, ForceFailingWorkflowStateId) \/ IllegalMove(d))
  /\ CollectOutput(e, HasOutput(d))
  /\ startQ' = IF CanGoNext(d) THEN AddStateStartRequests(startQ, d.next) ELSE startQ
  /\ MarkStateExecutionCompleted(e)
  /\ UNCHANGED <<mainVars, resumeQ, thresholdMet, started, commandReq, completedCmds, cmdValues,
                 cmdThreads, decision, signalVars, handlers, inflight, rpcs, delivered>>

\* With a conditional close all received signals are drained first, then the
\* thread yields to the others.
ExecuteCompletedConditionally(e, d, pub) ==
  /\ Running /\ thread[e] = "execute" /\ d.condClose # NoChannel
  /\ MayRequest(d.next)
  /\ DrainAllReceivedButUnprocessedSignals(ProcessPublishing(received, pub))
  /\ AllocateMessage(pub)
  /\ toResume' = toResume \ {e}
  /\ decided' = [decided EXCEPT ![e] = @ + 1]
  /\ decision' = [decision EXCEPT ![e] = d]
  /\ thread' = [thread EXCEPT ![e] = "closing"]
  /\ UNCHANGED <<mainVars, resumeQ, flagVars, thresholdMet, counterVars, commandReq,
                 completedCmds, cmdValues, cmdThreads, handlers, inflight, outputs, rpcs,
                 delivered, completers>>

ConditionalClose(e) ==
  LET d == decision[e]
      conditionMet == received[d.condClose] = << >>
  IN
  /\ Running /\ thread[e] = "closing"
  /\ forceCompleteWf' = (forceCompleteWf \/ conditionMet)
  /\ errToFailWf' = (errToFailWf \/ (~conditionMet /\ HasClosing(d)))
  /\ CollectOutput(e, conditionMet)
  /\ startQ' = IF ~conditionMet /\ ~HasClosing(d)
               THEN AddStateStartRequests(startQ, d.next) ELSE startQ
  /\ decision' = [decision EXCEPT ![e] = NoDecision]
  /\ MarkStateExecutionCompleted(e)
  /\ UNCHANGED <<mainVars, resumeQ, shouldGracefulComplete, thresholdMet, started, commandReq,
                 completedCmds, cmdValues, cmdThreads, toResume, received, signalVars,
                 handlers, inflight, idVars, delivered, decided>>

\* The Execute API failed and the state proceeds to its configured state.
ExecuteApiFailedAndProceed(e) ==
  LET proceed == ExecuteApiFailureProceedStateId[e[1]] IN
  /\ Running /\ thread[e] = "execute" /\ proceed # NoState
  /\ MayRequest(<<proceed>>)
  /\ startQ' = AddStateStartRequests(startQ, <<proceed>>)
  /\ decided' = [decided EXCEPT ![e] = @ + 1]
  /\ MarkStateExecutionCompleted(e)
  /\ UNCHANGED <<mainVars, resumeQ, flagVars, thresholdMet, started, commandReq, completedCmds,
                 cmdValues, cmdThreads, decision, toResume, received, signalVars, handlers,
                 inflight, outputs, idVars, delivered, completers>>

-----------------------------------------------------------------------------
(* Main loop of InterpreterImpl *)

Close(r) == main' = "closed" /\ result' = r /\ UNCHANGED run
CloseNow(err) == Close(IF err THEN "failed" ELSE "completed")
UnchangedButMain ==
  UNCHANGED <<queueVars, flagVars, thresholdMet, counterVars, threadVars, toResume, received,
              signalVars, handlers, inflight, outputs, idVars, histVars>>

\* The executions that the start requests in the queue become.
NewExeIds ==
  {e \in ExeIds : started[e[1]] < e[2] /\ e[2] <= started[e[1]] + startQ[e[1]]}

\* Mutant: a resumed execution is counted again.
TakeAllCountingResumes ==
  /\ thread' = [e \in ExeIds |->
       CASE e \in resumeQ   -> "waiting"
         [] e \in NewExeIds -> IF e[1] \in SkipWaitUntil THEN "execute" ELSE "waitUntil"
         [] OTHER -> thread[e]]
  /\ cmdThreads' = [e \in ExeIds |->
       IF e \in resumeQ THEN Commands(e) \ completedCmds[e] ELSE cmdThreads[e]]
  /\ toResume' = toResume \cup resumeQ
  /\ total' = total + Cardinality(NewExeIds) + Cardinality(resumeQ)
  /\ started' = [s \in StateIds |-> started[s] + startQ[s]]
  /\ startQ' = [s \in StateIds |-> 0]
  /\ resumeQ' = {}
  /\ UNCHANGED <<commandReq, completedCmds, cmdValues, decision>>

\* Every request of the queue becomes a thread; a resumed execution goes back
\* to waiting for the commands that are not completed yet.
TakeAll ==
  /\ thread' = [e \in ExeIds |->
       CASE e \in resumeQ   -> "waiting"
         [] e \in NewExeIds -> IF e[1] \in SkipWaitUntil THEN "execute" ELSE "waitUntil"
         [] OTHER -> thread[e]]
  /\ cmdThreads' = [e \in ExeIds |->
       IF e \in resumeQ THEN Commands(e) \ completedCmds[e] ELSE cmdThreads[e]]
  /\ toResume' = toResume \cup resumeQ
  /\ total' = total + Cardinality(NewExeIds)
  /\ started' = [s \in StateIds |-> started[s] + startQ[s]]
  /\ startQ' = [s \in StateIds |-> 0]
  /\ resumeQ' = {}
  /\ UNCHANGED <<commandReq, completedCmds, cmdValues, decision>>

EnterInnerLoop ==
  /\ IF thresholdMet
     THEN UNCHANGED <<queueVars, counterVars, threadVars, toResume>>
     ELSE TakeAll
  /\ main' = "inner"
  /\ UNCHANGED <<run, result, flagVars, thresholdMet, received, signalVars, handlers, inflight,
                 outputs, idVars, histVars>>

OuterFailByClient ==
  /\ main = "outer" /\ failWorkflowByClient
  /\ Close("failed") /\ UnchangedButMain
OuterComplete ==
  /\ main = "outer" /\ ~failWorkflowByClient
  /\ shouldGracefulComplete /\ QueueIsEmpty
  /\ CloseNow(errToFailWf) /\ UnchangedButMain
OuterEnterInner ==
  /\ main = "outer" /\ ~failWorkflowByClient /\ ~QueueIsEmpty
  /\ EnterInnerLoop
OuterDrain ==
  /\ main = "outer" /\ ~failWorkflowByClient /\ QueueIsEmpty
  /\ ~shouldGracefulComplete /\ thresholdMet
  /\ main' = "drain" /\ UNCHANGED <<run, result>> /\ UnchangedButMain

FailOrForce == errToFailWf \/ forceCompleteWf

InnerClose ==
  /\ main = "inner" /\ ~thresholdMet
  /\ FailOrForce \/ failWorkflowByClient
  /\ CloseNow(errToFailWf \/ failWorkflowByClient) /\ UnchangedButMain
InnerNextIteration ==
  /\ main = "inner" /\ ~thresholdMet /\ ~FailOrForce /\ ~failWorkflowByClient
  /\ ~QueueIsEmpty
  /\ EnterInnerLoop
InnerNoMoreState ==
  /\ main = "inner" /\ ~thresholdMet /\ ~FailOrForce /\ ~failWorkflowByClient
  /\ QueueIsEmpty /\ total = 0
  /\ main' = "outer" /\ UNCHANGED <<run, result>> /\ UnchangedButMain
InnerDrain ==
  /\ main = "inner" /\ thresholdMet
  /\ errToFailWf' = (errToFailWf \/ failWorkflowByClient)
  /\ main' = "innerDrain"
  /\ UNCHANGED <<run, result, queueVars, forceCompleteWf, shouldGracefulComplete, thresholdMet,
                 counterVars, threadVars, toResume, received, signalVars, handlers, inflight,
                 outputs, idVars, histVars>>

\* DrainThreads waits for every thread and every update handler.
AllThreadsDrained ==
  handlers = {} /\ inflight = 0 /\ \A e \in ExeIds : thread[e] = "none"

InnerDrained ==
  /\ main = "innerDrain" /\ AllThreadsDrained
  /\ IF FailOrForce
     THEN CloseNow(errToFailWf)
     ELSE main' = "drain" /\ UNCHANGED <<run, result>>
  /\ UnchangedButMain

\* Mutant: the executions to resume are not looked at before completing.
ContinueAsNewForgettingResumes ==
  /\ main = "drain" /\ AllThreadsDrained
  /\ DrainAllReceivedButUnprocessedSignals(received)
  /\ IF DrainedFail
     THEN Close("failed")
     ELSE IF resumeQ = {} /\ (\A s \in StateIds : DrainedStartQ[s] = 0) /\ shouldGracefulComplete
     THEN CloseNow(errToFailWf)
     ELSE main' = "loading" /\ run' = run + 1 /\ UNCHANGED result
  /\ UNCHANGED <<resumeQ, flagVars, thresholdMet, counterVars, threadVars, toResume, handlers,
                 inflight, outputs, idVars, histVars>>

\* Mutant: the run continues as new without draining the engine's signals.
ContinueAsNewUndrained ==
  /\ main = "drain" /\ AllThreadsDrained
  /\ IF shouldGracefulComplete /\ QueueIsEmpty /\ toResume = {}
     THEN CloseNow(errToFailWf)
     ELSE main' = "loading" /\ run' = run + 1 /\ UNCHANGED result
  /\ inbox' = EmptyInbox /\ rpcInbox' = << >> /\ failSent' = FALSE
  /\ UNCHANGED <<queueVars, flagVars, thresholdMet, counterVars, threadVars, toResume, received,
                 failWorkflowByClient, handlers, inflight, outputs, idVars, histVars>>

\* After the second DrainThreads: drain the signals, then fail, complete or
\* continue as new.  What the engine holds for a closed run is gone.
ContinueAsNew ==
  /\ main = "drain" /\ AllThreadsDrained
  /\ DrainAllReceivedButUnprocessedSignals(received)
  /\ IF DrainedFail
     THEN Close("failed")
     ELSE IF resumeQ = {} /\ (\A s \in StateIds : DrainedStartQ[s] = 0)
             /\ toResume = {} /\ shouldGracefulComplete
     THEN CloseNow(errToFailWf)
     ELSE main' = "loading" /\ run' = run + 1 /\ UNCHANGED result
  /\ UNCHANGED <<resumeQ, flagVars, thresholdMet, counterVars, threadVars, toResume, handlers,
                 inflight, outputs, idVars, histVars>>

\* Mutant: the outputs of the previous run are not loaded.
LoadInternalsWithoutOutputs ==
  /\ main = "loading"
  /\ main' = "outer"
  /\ resumeQ' = toResume \cup resumeQ
  /\ toResume' = {}
  /\ errToFailWf' = FALSE /\ forceCompleteWf' = FALSE /\ shouldGracefulComplete' = FALSE
  /\ thresholdMet' = FALSE
  /\ failWorkflowByClient' = FALSE
  /\ handlers' = Handlers
  /\ outputs' = << >>
  /\ UNCHANGED <<run, result, startQ, counterVars, threadVars, received, inbox, rpcInbox,
                 failSent, inflight, idVars, histVars>>

\* The new run loads GetSnapshot of the closed run and rebuilds its objects:
\* channels, counters, command requests and outputs are carried over, every
\* execution to resume becomes a resume request, the rest starts from nothing.
LoadInternalsFromPreviousRun ==
  /\ main = "loading"
  /\ main' = "outer"
  /\ resumeQ' = toResume \cup resumeQ
  /\ toResume' = {}
  /\ errToFailWf' = FALSE /\ forceCompleteWf' = FALSE /\ shouldGracefulComplete' = FALSE
  /\ thresholdMet' = FALSE
  /\ failWorkflowByClient' = FALSE
  /\ handlers' = Handlers
  /\ UNCHANGED <<run, result, startQ, counterVars, threadVars, received, inbox, rpcInbox,
                 failSent, inflight, outputs, idVars, histVars>>

-----------------------------------------------------------------------------
Init ==
  /\ main = "outer" /\ run = 0 /\ result = "running"
  /\ startQ = [s \in StateIds |-> IF s = StartStateId THEN 1 ELSE 0]
  /\ resumeQ = {}
  /\ errToFailWf = FALSE /\ forceCompleteWf = FALSE /\ shouldGracefulComplete = FALSE
  /\ thresholdMet = FALSE
  /\ started = [s \in StateIds |-> 0] /\ total = 0
  /\ thread = [e \in ExeIds |-> "none"]
  /\ commandReq = [e \in ExeIds |-> NoCommands]
  /\ completedCmds = [e \in ExeIds |-> {}]
  /\ cmdValues = [e \in ExeIds |-> [i \in CmdIdx |-> 0]]
  /\ cmdThreads = [e \in ExeIds |-> {}]
  /\ decision = [e \in ExeIds |-> NoDecision]
  /\ toResume = {}
  /\ received = [c \in Channels |-> << >>]
  /\ inbox = EmptyInbox /\ rpcInbox = << >>
  /\ failSent = FALSE /\ failWorkflowByClient = FALSE
  /\ handlers = Handlers /\ inflight = 0
  /\ outputs = << >>
  /\ nextMsg = 1 /\ rpcs = 0
  /\ delivered = [m \in Messages |-> 0]
  /\ decided = [e \in ExeIds |-> 0]
  /\ completers = {}

Clients ==
  \/ \E c \in SignalChannels : SignalWorkflow(c)
  \/ FailWorkflow
  \/ \E next \in StateIds \cup {NoState}, pub \in Publishes : ExecuteRpcSignal(next, pub)
  \/ UpdateHandlerStart
  \/ MeetThreshold

UpdateHandler ==
  \/ \E next \in StateIds \cup {NoState}, pub \in Publishes : UpdateHandlerFinish(next, pub)
  \/ UpdateHandlerFail

SignalHandlers ==
  \/ FailWorkflowHandler \/ ExecuteRpcHandler \/ UserSignalHandler
  \/ \E h \in Handlers : HandlerExit(h)

\* The answer of the worker to the API call of an execution.
ApiCall(e) ==
  \/ \E req \in CommandRequests, pub \in Publishes : WaitUntilCompleted(e, req, pub)
  \/ WaitUntilFailedAndProceed(e)
  \/ WaitUntilFailed(e)
  \/ \E d \in Decisions, pub \in Publishes : ExecuteCompleted(e, d, pub)
  \/ \E d \in Decisions, pub \in Publishes : ExecuteCompletedConditionally(e, d, pub)
  \/ ExecuteApiFailedAndProceed(e)
  \/ ExecuteFailed(e)

CommandThread(e, i) == CommandReceive(e, i) \/ CommandCancel(e, i)

StateThread(e) ==
  \/ CommandReqDoneOrCanceled(e)
  \/ ReturnWaitingCommands(e)
  \/ InvokeStateExecute(e)
  \/ ConditionalClose(e)

MainLoop ==
  \/ OuterFailByClient \/ OuterComplete \/ OuterEnterInner \/ OuterDrain
  \/ InnerClose \/ InnerNextIteration \/ InnerNoMoreState \/ InnerDrain \/ InnerDrained
  \/ ContinueAsNew \/ LoadInternalsFromPreviousRun

Next ==
  \/ Clients \/ UpdateHandler \/ SignalHandlers \/ MainLoop
  \/ \E e \in ExeIds :
       \/ ApiCall(e) \/ StateThread(e)
       \/ \E i \in CmdIdx : CommandThread(e, i) \/ TimerFired(e, i)

Spec == Init /\ [][Next]_vars

(***************************************************************************)
(* Fairness: the engine's dispatcher runs every coroutine that is not      *)
(* blocked, and an activity ends: with an answer or with its retry policy  *)
(* exhausted.  Clients, timers and the threshold promise nothing.          *)
(***************************************************************************)
Fairness ==
  /\ WF_vars(MainLoop)
  /\ WF_vars(UpdateHandler)
  /\ WF_vars(FailWorkflowHandler) /\ WF_vars(ExecuteRpcHandler) /\ WF_vars(UserSignalHandler)
  /\ \A h \in Handlers : WF_vars(HandlerExit(h))
  /\ \A e \in ExeIds :
       /\ WF_vars(ApiCall(e))
       /\ WF_vars(StateThread(e))
       /\ \A i \in CmdIdx : WF_vars(CommandThread(e, i))

FairSpec == Spec /\ Fairness

-----------------------------------------------------------------------------
(* Properties *)

\* The types of the variables.
TypeOK ==
  /\ main \in {"outer", "inner", "innerDrain", "drain", "loading", "closed"}
  /\ run \in 0..MaxRuns
  /\ result \in {"running", "completed", "failed"}
  /\ startQ \in [StateIds -> Nat] /\ resumeQ \subseteq ExeIds
  /\ errToFailWf \in BOOLEAN /\ forceCompleteWf \in BOOLEAN
  /\ shouldGracefulComplete \in BOOLEAN /\ thresholdMet \in BOOLEAN
  /\ started \in [StateIds -> Nat] /\ total \in Int
  /\ thread \in [ExeIds -> {"none", "waitUntil", "waiting", "draining", "execute", "closing"}]
  /\ commandReq \in [ExeIds -> CommandRequests]
  /\ completedCmds \in [ExeIds -> SUBSET CmdIdx]
  /\ cmdValues \in [ExeIds -> [CmdIdx -> 0..MaxMessages]]
  /\ cmdThreads \in [ExeIds -> SUBSET CmdIdx]
  /\ decision \in [ExeIds -> Decisions \cup {NoDecision}]
  /\ toResume \subseteq ExeIds
  /\ received \in [Channels -> Seq(Messages)]
  /\ inbox \in [Channels -> Seq(Messages)]
  /\ rpcInbox \in Seq(Rpcs)
  /\ failSent \in BOOLEAN /\ failWorkflowByClient \in BOOLEAN
  /\ handlers \subseteq Handlers /\ inflight \in Nat
  /\ outputs \in Seq(ExeIds)
  /\ nextMsg \in 1..(MaxMessages + 1) /\ rpcs \in 0..MaxRpcs
  /\ delivered \in [Messages -> Nat] /\ decided \in [ExeIds -> Nat]
  /\ completers \subseteq ExeIds

\* The executions that were started and have not reached their decision: they
\* have a thread, or they are parked for the next run, or queued to resume.
PendingExes == {e \in ExeIds : thread[e] # "none"} \cup toResume \cup resumeQ

\* totalCurrentlyExecutingCount, which the main loop compares with 0 to find the
\* dead ends, counts exactly the pending executions, over continue-as-new and all
\* interleavings, unless an error is about to fail the workflow.
CounterMatchesExecutions == ~errToFailWf => total = Cardinality(PendingExes)

\* The workflow completes gracefully only when no execution is running, parked or
\* queued: closing earlier would abandon a state that was promised to run.
GracefulCompletionIsLast ==
  (result = "completed" /\ ~forceCompleteWf) => (PendingExes = {} /\ QueueIsEmpty)

\* Where a message can be: with the engine, in a received queue, kept by a command
\* of a pending execution that has not passed it to Execute.
Holders == {e \in ExeIds : \/ thread[e] \in {"waiting", "draining"}
                          \/ (thread[e] = "none" /\ e \in toResume \cup resumeQ)}
Copies(m) ==
  Cardinality(
    (UNION {{<<"inbox", c, i>> : i \in {j \in DOMAIN inbox[c] : inbox[c][j] = m}}
              : c \in Channels}) \cup
    (UNION {{<<"received", c, i>> : i \in {j \in DOMAIN received[c] : received[c][j] = m}}
              : c \in Channels}) \cup
    (UNION {{<<"held", e, i>> : i \in {j \in completedCmds[e] : cmdValues[e][j] = m}}
              : e \in Holders}))
  + delivered[m]

\* Every message that a client or a state sent is in exactly one place: it is not
\* lost and not duplicated, whatever the order of receiving, canceling, draining
\* and continuing as new, until an error fails the workflow.
MessagesConserved ==
  ~errToFailWf => \A m \in 1..(nextMsg - 1) : Copies(m) = 1

\* An execution makes one decision, or fails over to its proceed state once: no
\* interleaving of its commands with continue-as-new executes the state again.
DecidesOnce == \A e \in ExeIds : decided[e] <= 1

\* The Execute API is called with enough completed commands, by the reference
\* definition of the trigger; and an execution that has enough of them is not left to
\* the next run, whatever its late command threads have completed since its own
\* thread gave up waiting.
TriggeredExecutionsExecute ==
  LET triggered == {e \in ExeIds : TriggerReference(commandReq[e], completedCmds[e])}
  IN  /\ {e \in ExeIds : thread[e] = "execute"} \subseteq triggered
      /\ main = "loading" => toResume \cap triggered = {}

\* The output of every execution that completed the workflow is in the collected
\* outputs once, also when it was collected several runs ago.
OutputsPreserved ==
  /\ {outputs[i] : i \in DOMAIN outputs} = completers
  /\ Len(outputs) = Cardinality(completers)

\* Once the threshold is met the run closes or the next one is started: no thread
\* can wait forever for another one while the threads are drained.
ContinueAsNewCompletes == thresholdMet ~> (main = "loading" \/ main = "closed")

\* A client's request to fail the workflow is never forgotten.
FailRequestCloses == failSent ~> (main = "closed")

\* When all executions have ended and one of them asked for graceful completion,
\* the workflow closes, or an RPC has started another state.
GracefulCompletes ==
  (completers # {} /\ PendingExes = {} /\ QueueIsEmpty /\ rpcInbox = << >>)
     ~> (main = "closed" \/ ~QueueIsEmpty)

\* The same if they all have ended in the first run, also when it is just being
\* drained for continue-as-new: shouldGracefulComplete is decided upon before it
\* would be forgotten.
GracefulCompletesInFirstRun ==
  (run = 0 /\ completers # {} /\ PendingExes = {} /\ QueueIsEmpty /\ rpcInbox = << >>)
     ~> (main = "closed" \/ ~QueueIsEmpty)

(***************************************************************************)
(* The refinement: a signal channel is what was received followed by what  *)
(* the engine holds; an execution is active as long as it is pending.      *)
(***************************************************************************)
AbstractQueue ==
  [c \in Channels |-> IF c \in SignalChannels THEN received[c] \o inbox[c] ELSE received[c]]
AbstractStatus ==
  [e \in ExeIds |-> IF e[2] > started[e[1]] THEN "unborn"
                    ELSE IF e \in PendingExes THEN "active" ELSE "ended"]
AbstractKept ==
  [e \in ExeIds |-> IF e \in Holders
                    THEN {cmdValues[e][i] : i \in completedCmds[e]} \ {0} ELSE {}]
AbstractConsumed == {m \in Messages : delivered[m] > 0}

Durable == INSTANCE DurableWorkflow WITH
  Executions <- ExeIds, Queues <- Channels,
  queue <- AbstractQueue, status <- AbstractStatus, kept <- AbstractKept,
  consumed <- AbstractConsumed, open <- (Open /\ ~errToFailWf)

\* The interpreter implements the durable workflow: continue-as-new, the signal
\* handlers and the command threads are invisible to the workflow's author.
ImplementsDurableWorkflow == Durable!Contract
=============================================================================
