--------------------------- MODULE InterpreterProofs ---------------------------
(***************************************************************************)
(* Proofs about Interpreter for any workflow: any state ids, channels,     *)
(* command requests, decisions and bounds.                                 *)
(*                                                                         *)
(* Part 1 is type correctness.  Part 2 is the life cycle of executions:    *)
(* the counter, the uniqueness of decisions, the outputs and graceful      *)
(* completion depend on each other (the main loop leaves its inner loop    *)
(* because the counter is 0, the counter is right because no execution     *)
(* that ended is resumed, ...), so that LifeInv holds them together.       *)
(* The rest is about messages.  Copies(m) is the size of a set of places:  *)
(* part 3 is what appending, moving and taking messages does to such sets, *)
(* part 4 is the invariant that no message is lost or duplicated, part 5   *)
(* the refinement of DurableWorkflow.                                      *)
(***************************************************************************)
EXTENDS Interpreter, FiniteSetTheorems, SequenceTheorems, TLAPS

\* The threads and the results of commands belong to the execution's request.
CommandsOK ==
  \A e \in ExeIds : cmdThreads[e] \subseteq Commands(e) /\ completedCmds[e] \subseteq Commands(e)

\* Runs are drained only when the threshold is met, and there is a run left then.
RunBound ==
  /\ main \in {"innerDrain", "drain"} => thresholdMet
  /\ (thresholdMet /\ main \notin {"loading", "closed"}) => run < MaxRuns

TypeInv == TypeOK /\ CommandsOK /\ RunBound

\* The number of requests for a state in a list of movements is a natural number.
LEMMA CountOfType ==
  ASSUME NEW s, NEW n \in Nat, NEW next, DOMAIN next = 1..n
  PROVE  CountOf(s, next) \in Nat
<1>1. IsFiniteSet(1..n)
  BY FS_Interval
<1>2. IsFiniteSet({i \in DOMAIN next : next[i] = s})
  BY <1>1, FS_Subset
<1> QED BY <1>2, FS_CardinalityType DEF CountOf

\* Adding requests keeps the queue a count per state id: for any list of states,
LEMMA AddType ==
  ASSUME NEW q \in [StateIds -> Nat], NEW n \in Nat, NEW next, DOMAIN next = 1..n
  PROVE  AddStateStartRequests(q, next) \in [StateIds -> Nat]
  BY CountOfType DEF AddStateStartRequests

\* for one state,
LEMMA AddOneType ==
  ASSUME NEW q \in [StateIds -> Nat], NEW s
  PROVE  AddStateStartRequests(q, <<s>>) \in [StateIds -> Nat]
<1>1. 1 \in Nat /\ DOMAIN <<s>> = 1..1
  OBVIOUS
<1> QED BY <1>1, AddType

\* and for the states of the ExecuteRpc signals that are drained.
LEMMA DrainedStartQType ==
  ASSUME startQ \in [StateIds -> Nat], rpcInbox \in Seq(Rpcs)
  PROVE  DrainedStartQ \in [StateIds -> Nat]
<1>1. Len(rpcInbox) \in Nat /\ DOMAIN RpcStates(rpcInbox) = 1..Len(rpcInbox)
  BY DEF RpcStates
<1> QED BY <1>1, AddType DEF DrainedStartQ

\* Publishing a message with a fresh identity keeps the channels typed.
LEMMA PublishType ==
  ASSUME NEW recv \in [Channels -> Seq(Messages)], NEW pub \in Publishes,
         AllocateMessage(pub), nextMsg \in 1..(MaxMessages + 1)
  PROVE  /\ ProcessPublishing(recv, pub) \in [Channels -> Seq(Messages)]
         /\ nextMsg' \in 1..(MaxMessages + 1)
  BY BoundsAssumption DEF ProcessPublishing, AllocateMessage, Publishes, Messages, Channels

\* The initial state has the types.
LEMMA InitType == Init => TypeInv
<1> SUFFICES ASSUME Init PROVE TypeInv
  OBVIOUS
<1>1. /\ main \in {"outer", "inner", "innerDrain", "drain", "loading", "closed"}
      /\ run \in 0..MaxRuns
      /\ result \in {"running", "completed", "failed"}
      /\ startQ \in [StateIds -> Nat] /\ started \in [StateIds -> Nat]
      /\ nextMsg \in 1..(MaxMessages + 1) /\ rpcs \in 0..MaxRpcs
      /\ delivered \in [Messages -> Nat] /\ decided \in [ExeIds -> Nat]
  BY BoundsAssumption DEF Init
<1>2. commandReq \in [ExeIds -> CommandRequests]
  <2>1. NoCommands \in CommandRequests
    BY RequestsAssumption
  <2> QED BY <2>1 DEF Init
<1>3. cmdValues \in [ExeIds -> [CmdIdx -> 0..MaxMessages]]
  BY BoundsAssumption DEF Init
<1>4. /\ received \in [Channels -> Seq(Messages)]
      /\ inbox \in [Channels -> Seq(Messages)]
      /\ rpcInbox \in Seq(Rpcs) /\ outputs \in Seq(ExeIds)
  BY DEF Init, EmptyInbox
<1>5. /\ thread \in [ExeIds -> {"none", "waitUntil", "waiting", "draining", "execute", "closing"}]
      /\ completedCmds \in [ExeIds -> SUBSET CmdIdx] /\ cmdThreads \in [ExeIds -> SUBSET CmdIdx]
      /\ decision \in [ExeIds -> Decisions \cup {NoDecision}]
      /\ inflight \in Nat /\ total \in Int
  BY DEF Init
<1>6. /\ errToFailWf \in BOOLEAN /\ forceCompleteWf \in BOOLEAN
      /\ shouldGracefulComplete \in BOOLEAN /\ thresholdMet \in BOOLEAN
      /\ failSent \in BOOLEAN /\ failWorkflowByClient \in BOOLEAN
      /\ resumeQ \subseteq ExeIds /\ toResume \subseteq ExeIds /\ completers \subseteq ExeIds
      /\ handlers \subseteq Handlers
  BY Zenon DEF Init
<1>7. TypeOK
  BY <1>1, <1>2, <1>3, <1>4, <1>5, <1>6 DEF TypeOK
<1>8. CommandsOK /\ RunBound
  BY DEF Init, CommandsOK, RunBound
<1> QED BY <1>7, <1>8 DEF TypeInv

\* Signals, RPCs and the threshold preserve the types.
LEMMA ClientsType == ASSUME TypeInv, Clients PROVE TypeInv'
<1> USE BoundsAssumption
    DEF TypeInv, RunBound, CommandsOK, Commands, mainVars, queueVars, flagVars, counterVars,
        threadVars, signalVars, idVars, histVars
<1>1. ASSUME NEW c \in SignalChannels, SignalWorkflow(c) PROVE TypeInv'
  BY <1>1 DEF SignalWorkflow, TypeOK, Messages, Channels
<1>2. CASE FailWorkflow
  BY <1>2 DEF FailWorkflow, TypeOK
<1>3. ASSUME NEW next \in StateIds \cup {NoState}, NEW pub \in Publishes, ExecuteRpcSignal(next, pub)
      PROVE  TypeInv'
  <2>1. AllocateMessage(pub) /\ [next |-> next, chan |-> pub] \in Rpcs
    BY <1>3 DEF ExecuteRpcSignal, Rpcs, Publishes
  <2>2. inbox' \in [Channels -> Seq(Messages)] /\ nextMsg' \in 1..(MaxMessages + 1)
    BY <1>3, <2>1, PublishType DEF ExecuteRpcSignal, TypeOK
  <2>3. rpcInbox' \in Seq(Rpcs)
    BY <1>3, <2>1 DEF ExecuteRpcSignal, TypeOK
  <2> QED BY <1>3, <2>2, <2>3 DEF ExecuteRpcSignal, TypeOK
<1>4. CASE UpdateHandlerStart
  BY <1>4 DEF UpdateHandlerStart, TypeOK
<1>5. CASE MeetThreshold
  BY <1>5 DEF MeetThreshold, Running, TypeOK
<1> QED BY <1>1, <1>2, <1>3, <1>4, <1>5 DEF Clients

\* What the provers need to know of a sequence that is a field of a record.
LEMMA SeqFacts ==
  ASSUME NEW S, NEW q \in Seq(S)
  PROVE  /\ Len(q) \in Nat /\ DOMAIN q = 1..Len(q)
         /\ \A i \in DOMAIN q : q[i] \in S
  OBVIOUS

\* A command request of a WaitUntil API has finitely many commands on known channels.
LEMMA RequestType ==
  ASSUME NEW r \in CommandRequests
  PROVE  /\ Len(r.cmds) \in Nat /\ DOMAIN r.cmds = 1..Len(r.cmds)
         /\ DOMAIN r.cmds \subseteq CmdIdx
         /\ \A i \in DOMAIN r.cmds : r.cmds[i].target \in Channels \cup {Timer}
<1>1. r.cmds \in Seq([target : Channels \cup {Timer}, id : Nat])
  BY Zenon, RequestsAssumption
<1>2. /\ Len(r.cmds) \in Nat /\ DOMAIN r.cmds = 1..Len(r.cmds)
      /\ \A i \in DOMAIN r.cmds : r.cmds[i] \in [target : Channels \cup {Timer}, id : Nat]
  BY <1>1, SeqFacts, Zenon
<1>3. DOMAIN r.cmds \subseteq CmdIdx
  BY Zenon DEF CmdIdx
<1> QED BY <1>2, <1>3

\* The commands of a request are finitely many.
LEMMA CommandsFinite == ASSUME NEW r \in CommandRequests PROVE IsFiniteSet(DOMAIN r.cmds)
<1>1. IsFiniteSet(1..Len(r.cmds))
  BY RequestType, FS_Interval
<1> QED BY <1>1, RequestType

\* There are finitely many execution ids.
LEMMA ExeIdsFinite == IsFiniteSet(ExeIds)
<1>1. IsFiniteSet(1..MaxExecutions)
  BY BoundsAssumption, FS_Interval
<1>2. IsFiniteSet(StateIds)
  BY StatesAssumption
<1> QED BY <1>1, <1>2, FS_Product, Zenon DEF ExeIds

\* The next states of a decision are a list.
LEMMA DecisionType ==
  ASSUME NEW d \in Decisions \cup {NoDecision}
  PROVE  Len(d.next) \in Nat /\ DOMAIN d.next = 1..Len(d.next)
<1>1. CASE d \in Decisions
  <2>1. d.next \in Seq(StateIds \cup ValidClosingWorkflowStateId)
    BY <1>1, RequestsAssumption
  <2> QED BY <2>1
<1>2. CASE d = NoDecision
  BY <1>2 DEF NoDecision
<1> QED BY <1>1, <1>2

\* DrainAllReceivedButUnprocessedSignals preserves the types.
LEMMA DrainType ==
  ASSUME TypeOK, NEW recv \in [Channels -> Seq(Messages)],
         DrainAllReceivedButUnprocessedSignals(recv)
  PROVE  /\ received' \in [Channels -> Seq(Messages)] /\ inbox' \in [Channels -> Seq(Messages)]
         /\ startQ' \in [StateIds -> Nat] /\ rpcInbox' \in Seq(Rpcs)
         /\ failWorkflowByClient' \in BOOLEAN /\ failSent' \in BOOLEAN
<1> USE DEF DrainAllReceivedButUnprocessedSignals
<1>1. received' \in [Channels -> Seq(Messages)]
  <2>1. inbox \in [Channels -> Seq(Messages)]
    BY DEF TypeOK
  <2>2. \A c \in Channels : recv[c] \o inbox[c] \in Seq(Messages)
    BY <2>1
  <2> QED BY <2>2 DEF DrainedReceived
<1>2. inbox' \in [Channels -> Seq(Messages)] /\ rpcInbox' \in Seq(Rpcs)
  BY DEF EmptyInbox
<1>3. startQ' \in [StateIds -> Nat]
  BY DrainedStartQType DEF TypeOK
<1>4. failWorkflowByClient' \in BOOLEAN /\ failSent' \in BOOLEAN
  BY Zenon DEF TypeOK, DrainedFail
<1> QED BY <1>1, <1>2, <1>3, <1>4

\* The update handler preserves the types.
LEMMA UpdateHandlerType == ASSUME TypeInv, UpdateHandler PROVE TypeInv'
<1> USE BoundsAssumption
    DEF TypeInv, RunBound, CommandsOK, Commands, mainVars, queueVars, flagVars, counterVars,
        threadVars, signalVars, idVars, histVars
<1>1. ASSUME NEW next \in StateIds \cup {NoState}, NEW pub \in Publishes,
             UpdateHandlerFinish(next, pub)
      PROVE  TypeInv'
  <2>1. received' \in [Channels -> Seq(Messages)] /\ nextMsg' \in 1..(MaxMessages + 1)
    BY <1>1, PublishType DEF UpdateHandlerFinish, TypeOK
  <2>2. startQ' \in [StateIds -> Nat]
    BY <1>1, AddOneType DEF UpdateHandlerFinish, TypeOK
  <2>3. inflight' \in Nat
    BY <1>1 DEF UpdateHandlerFinish, TypeOK
  <2>4. TypeOK'
    BY <1>1, <2>1, <2>2, <2>3, ZenonT(60) DEF UpdateHandlerFinish, TypeOK
  <2> QED BY <1>1, <2>4 DEF UpdateHandlerFinish
<1>2. CASE UpdateHandlerFail
  BY <1>2 DEF UpdateHandlerFail, TypeOK
<1> QED BY <1>1, <1>2 DEF UpdateHandler

\* The signal handler threads preserve the types.
LEMMA SignalHandlersType == ASSUME TypeInv, SignalHandlers PROVE TypeInv'
<1> USE BoundsAssumption
    DEF TypeInv, RunBound, CommandsOK, Commands, mainVars, queueVars, flagVars, counterVars,
        threadVars, signalVars, idVars, histVars
<1>1. CASE FailWorkflowHandler
  BY <1>1 DEF FailWorkflowHandler, TypeOK
<1>2. CASE ExecuteRpcHandler
  <2>1. rpcInbox \in Seq(Rpcs) /\ rpcInbox # << >>
    BY <1>2 DEF ExecuteRpcHandler, TypeOK
  <2>2. rpcInbox' \in Seq(Rpcs)
    BY <1>2, <2>1 DEF ExecuteRpcHandler
  <2>3. startQ' \in [StateIds -> Nat]
    BY <1>2, AddOneType DEF ExecuteRpcHandler, TypeOK
  <2>4. \A c \in Channels : First(inbox[c]) \in Seq(Messages) /\ Rest(inbox[c]) \in Seq(Messages)
    BY DEF TypeOK, First, Rest
  <2>5. received' \in [Channels -> Seq(Messages)] /\ inbox' \in [Channels -> Seq(Messages)]
    BY <1>2, <2>4 DEF ExecuteRpcHandler, TypeOK
  <2> QED BY <1>2, <2>2, <2>3, <2>5, ZenonT(60) DEF ExecuteRpcHandler, TypeOK
<1>3. CASE UserSignalHandler
  <2>1. received' \in [Channels -> Seq(Messages)] /\ inbox' \in [Channels -> Seq(Messages)]
    BY <1>3 DEF UserSignalHandler, TypeOK
  <2> QED BY <1>3, <2>1 DEF UserSignalHandler, TypeOK
<1>4. ASSUME NEW h \in Handlers, HandlerExit(h) PROVE TypeInv'
  BY <1>4 DEF HandlerExit, TypeOK
<1> QED BY <1>1, <1>2, <1>3, <1>4 DEF SignalHandlers

\* The answers and failures of WaitUntil and Execute preserve the types.
LEMMA ApiCallType == ASSUME TypeInv, NEW e \in ExeIds, ApiCall(e) PROVE TypeInv'
<1> USE BoundsAssumption
    DEF TypeInv, RunBound, Commands, mainVars, queueVars, flagVars, counterVars, threadVars,
        signalVars, idVars, histVars
<1>1. ASSUME NEW req \in CommandRequests, NEW pub \in Publishes, StartWaiting(e, req, pub) PROVE TypeInv'
  <2>1. received' \in [Channels -> Seq(Messages)] /\ nextMsg' \in 1..(MaxMessages + 1)
    BY <1>1, PublishType DEF StartWaiting, TypeOK
  <2>2. /\ commandReq' \in [ExeIds -> CommandRequests] /\ completedCmds' \in [ExeIds -> SUBSET CmdIdx]
        /\ cmdThreads' \in [ExeIds -> SUBSET CmdIdx] /\ toResume' \subseteq ExeIds
        /\ thread' \in [ExeIds -> {"none", "waitUntil", "waiting", "draining", "execute", "closing"}]
    BY <1>1, RequestType DEF StartWaiting, TypeOK
  <2>3. TypeOK'
    BY <1>1, <2>1, <2>2 DEF StartWaiting, TypeOK
  <2>4. CommandsOK'
    BY <1>1 DEF StartWaiting, TypeOK, CommandsOK
  <2> QED BY <1>1, <2>3, <2>4 DEF StartWaiting
<1>2. CASE FailExecution(e)
  BY <1>2 DEF FailExecution, TypeOK, CommandsOK
<1>3. ASSUME NEW d \in Decisions, NEW pub \in Publishes, ExecuteCompleted(e, d, pub) PROVE TypeInv'
  <2>1. received' \in [Channels -> Seq(Messages)] /\ nextMsg' \in 1..(MaxMessages + 1)
    BY <1>3, PublishType DEF ExecuteCompleted, TypeOK
  <2>2. startQ' \in [StateIds -> Nat]
    BY <1>3, DecisionType, AddType DEF ExecuteCompleted, TypeOK
  <2>3. /\ outputs' \in Seq(ExeIds) /\ completers' \subseteq ExeIds
        /\ total' \in Int /\ decided' \in [ExeIds -> Nat] /\ toResume' \subseteq ExeIds
        /\ thread' \in [ExeIds -> {"none", "waitUntil", "waiting", "draining", "execute", "closing"}]
    BY <1>3 DEF ExecuteCompleted, TypeOK, CollectOutput, MarkStateExecutionCompleted
  <2>4. /\ shouldGracefulComplete' \in BOOLEAN
        /\ forceCompleteWf' \in BOOLEAN /\ errToFailWf' \in BOOLEAN
    BY <1>3, Zenon DEF ExecuteCompleted
  <2>5. TypeOK'
    BY <1>3, <2>1, <2>2, <2>3, <2>4 DEF ExecuteCompleted, TypeOK
  <2> QED BY <1>3, <2>5 DEF ExecuteCompleted, CommandsOK
<1>4. ASSUME NEW d \in Decisions, NEW pub \in Publishes, ExecuteCompletedConditionally(e, d, pub)
      PROVE  TypeInv'
  <2>1. /\ ProcessPublishing(received, pub) \in [Channels -> Seq(Messages)]
        /\ nextMsg' \in 1..(MaxMessages + 1)
    BY <1>4, PublishType DEF ExecuteCompletedConditionally, TypeOK
  <2>2. /\ received' \in [Channels -> Seq(Messages)] /\ inbox' \in [Channels -> Seq(Messages)]
        /\ startQ' \in [StateIds -> Nat] /\ rpcInbox' \in Seq(Rpcs)
        /\ failWorkflowByClient' \in BOOLEAN /\ failSent' \in BOOLEAN
    BY <1>4, <2>1, DrainType DEF ExecuteCompletedConditionally
  <2>3. /\ toResume' \subseteq ExeIds /\ decided' \in [ExeIds -> Nat]
        /\ decision' \in [ExeIds -> Decisions \cup {NoDecision}]
        /\ thread' \in [ExeIds -> {"none", "waitUntil", "waiting", "draining", "execute", "closing"}]
    BY <1>4 DEF ExecuteCompletedConditionally, TypeOK
  <2>4. TypeOK'
    BY <1>4, <2>1, <2>2, <2>3 DEF ExecuteCompletedConditionally, TypeOK
  <2> QED BY <1>4, <2>4 DEF ExecuteCompletedConditionally, CommandsOK
<1>5. CASE ExecuteApiFailedAndProceed(e)
  <2>1. startQ' \in [StateIds -> Nat]
    BY <1>5, AddOneType DEF ExecuteApiFailedAndProceed, TypeOK
  <2>2. /\ total' \in Int /\ decided' \in [ExeIds -> Nat]
        /\ thread' \in [ExeIds -> {"none", "waitUntil", "waiting", "draining", "execute", "closing"}]
    BY <1>5 DEF ExecuteApiFailedAndProceed, TypeOK, MarkStateExecutionCompleted
  <2>3. TypeOK'
    BY <1>5, <2>1, <2>2, ZenonT(60) DEF ExecuteApiFailedAndProceed, TypeOK
  <2> QED BY <1>5, <2>3 DEF ExecuteApiFailedAndProceed, CommandsOK
<1>6. NoCommands \in CommandRequests /\ NoChannel \in Publishes
  BY RequestsAssumption, Zenon DEF Publishes
<1> QED BY <1>1, <1>2, <1>3, <1>4, <1>5, <1>6
  DEF ApiCall, WaitUntilCompleted, WaitUntilFailedAndProceed, WaitUntilFailed, ExecuteFailed

\* The command threads preserve the types.
LEMMA CommandThreadType ==
  ASSUME TypeInv, NEW e \in ExeIds, NEW i \in CmdIdx, CommandThread(e, i) \/ TimerFired(e, i)
  PROVE  TypeInv'
<1> USE BoundsAssumption
    DEF TypeInv, RunBound, Commands, mainVars, queueVars, flagVars, counterVars, threadVars,
        signalVars, idVars, histVars
<1>1. CASE CommandReceive(e, i)
  <2> DEFINE c == commandReq[e].cmds[i].target
  <2>1. i \in DOMAIN commandReq[e].cmds /\ commandReq[e] \in CommandRequests
    BY <1>1 DEF CommandReceive, CommandsOK, TypeOK
  <2>2. c \in Channels
    BY <1>1, <2>1, RequestType DEF CommandReceive
  <2>3. Head(received[c]) \in Messages /\ Tail(received[c]) \in Seq(Messages)
    BY <1>1, <2>2 DEF CommandReceive, TypeOK
  <2>4. received' \in [Channels -> Seq(Messages)]
    BY <1>1, <2>2, <2>3 DEF CommandReceive, TypeOK
  <2>5. cmdValues' \in [ExeIds -> [CmdIdx -> 0..MaxMessages]]
    <3>1. Head(received[c]) \in 0..MaxMessages
      BY <2>3 DEF Messages
    <3> QED BY <1>1, <3>1 DEF CommandReceive, TypeOK
  <2>6. completedCmds' \in [ExeIds -> SUBSET CmdIdx] /\ cmdThreads' \in [ExeIds -> SUBSET CmdIdx]
    BY <1>1 DEF CommandReceive, TypeOK
  <2>7. TypeOK'
    BY <1>1, <2>4, <2>5, <2>6, ZenonT(60) DEF CommandReceive, TypeOK
  <2>8. CommandsOK'
    BY <1>1, <2>1 DEF CommandReceive, TypeOK, CommandsOK
  <2> QED BY <1>1, <2>7, <2>8 DEF CommandReceive
<1>2. CASE CommandCancel(e, i)
  <2>1. cmdThreads' \in [ExeIds -> SUBSET CmdIdx]
    BY <1>2 DEF CommandCancel, TypeOK
  <2>2. TypeOK'
    BY <1>2, <2>1 DEF CommandCancel, TypeOK
  <2>3. CommandsOK'
    BY <1>2 DEF CommandCancel, TypeOK, CommandsOK
  <2> QED BY <1>2, <2>2, <2>3 DEF CommandCancel
<1>3. CASE TimerFired(e, i)
  <2>1. /\ completedCmds' \in [ExeIds -> SUBSET CmdIdx] /\ cmdThreads' \in [ExeIds -> SUBSET CmdIdx]
        /\ cmdValues' \in [ExeIds -> [CmdIdx -> 0..MaxMessages]]
    BY <1>3 DEF TimerFired, TypeOK
  <2>2. TypeOK'
    BY <1>3, <2>1 DEF TimerFired, TypeOK
  <2>3. CommandsOK'
    BY <1>3 DEF TimerFired, TypeOK, CommandsOK
  <2> QED BY <1>3, <2>2, <2>3 DEF TimerFired
<1> QED BY <1>1, <1>2, <1>3 DEF CommandThread

\* The steps of a state thread between its API calls preserve the types.
LEMMA StateThreadType == ASSUME TypeInv, NEW e \in ExeIds, StateThread(e) PROVE TypeInv'
<1> USE BoundsAssumption
    DEF TypeInv, RunBound, Commands, mainVars, queueVars, flagVars, counterVars, threadVars,
        signalVars, idVars, histVars
<1>1. CASE CommandReqDoneOrCanceled(e)
  BY <1>1 DEF CommandReqDoneOrCanceled, TypeOK, CommandsOK
<1>2. CASE ReturnWaitingCommands(e)
  BY <1>2 DEF ReturnWaitingCommands, TypeOK, CommandsOK
<1>3. CASE InvokeStateExecute(e)
  <2>1. delivered' \in [Messages -> Nat]
    <3>1. IsFiniteSet(DOMAIN commandReq[e].cmds)
      BY CommandsFinite DEF TypeOK
    <3>2. \A m \in Messages :
            {i \in completedCmds[e] : cmdValues[e][i] = m} \subseteq DOMAIN commandReq[e].cmds
      BY DEF CommandsOK
    <3>3. \A m \in Messages : Cardinality({i \in completedCmds[e] : cmdValues[e][i] = m}) \in Nat
      BY <3>1, <3>2, FS_Subset, FS_CardinalityType
    <3> DEFINE held == [m \in Messages |-> Cardinality({i \in completedCmds[e] : cmdValues[e][i] = m})]
    <3>4. held \in [Messages -> Nat]
      BY <3>3
    <3>5. delivered' = [m \in Messages |-> delivered[m] + held[m]]
      BY <1>3 DEF InvokeStateExecute
    <3>6. delivered \in [Messages -> Nat]
      BY DEF TypeOK
    <3> HIDE DEF held
    <3> QED BY <3>4, <3>5, <3>6
  <2>2. thread' \in [ExeIds -> {"none", "waitUntil", "waiting", "draining", "execute", "closing"}]
    BY <1>3 DEF InvokeStateExecute, TypeOK
  <2>3. TypeOK'
    BY <1>3, <2>1, <2>2 DEF InvokeStateExecute, TypeOK
  <2> QED BY <1>3, <2>3 DEF InvokeStateExecute, CommandsOK
<1>4. CASE ConditionalClose(e)
  <2>1. decision[e] \in Decisions \cup {NoDecision}
    BY DEF TypeOK
  <2>2. startQ' \in [StateIds -> Nat]
    BY <1>4, <2>1, DecisionType, AddType DEF ConditionalClose, TypeOK
  <2>3. /\ outputs' \in Seq(ExeIds) /\ completers' \subseteq ExeIds
        /\ total' \in Int /\ decision' \in [ExeIds -> Decisions \cup {NoDecision}]
        /\ thread' \in [ExeIds -> {"none", "waitUntil", "waiting", "draining", "execute", "closing"}]
    BY <1>4 DEF ConditionalClose, TypeOK, CollectOutput, MarkStateExecutionCompleted
  <2>4. forceCompleteWf' \in BOOLEAN /\ errToFailWf' \in BOOLEAN
    BY <1>4, Zenon DEF ConditionalClose
  <2>5. TypeOK'
    BY <1>4, <2>2, <2>3, <2>4 DEF ConditionalClose, TypeOK
  <2> QED BY <1>4, <2>5 DEF ConditionalClose, CommandsOK
<1> QED BY <1>1, <1>2, <1>3, <1>4 DEF StateThread

\* The main loop, continue-as-new and loading preserve the types.
LEMMA MainLoopType == ASSUME TypeInv, MainLoop PROVE TypeInv'
<1> USE BoundsAssumption
    DEF TypeInv, RunBound, Commands, mainVars, queueVars, flagVars, counterVars, threadVars,
        signalVars, idVars, histVars
<1>1. CASE UnchangedButMain /\ UNCHANGED run /\ (thresholdMet' => run < MaxRuns \/ main' = "closed")
            /\ main' \in {"outer", "drain", "closed"} /\ (main' = "drain" => thresholdMet)
            /\ result' \in {"running", "completed", "failed"}
  BY <1>1 DEF UnchangedButMain, TypeOK, CommandsOK
<1>2. CASE OuterFailByClient \/ OuterComplete \/ InnerClose
  BY <1>1, <1>2 DEF OuterFailByClient, OuterComplete, InnerClose, Close, CloseNow
<1>3. CASE OuterDrain \/ InnerNoMoreState
  <2>1. CASE OuterDrain
    BY <1>1, <2>1 DEF OuterDrain, TypeOK
  <2>2. CASE InnerNoMoreState
    BY <1>1, <2>2 DEF InnerNoMoreState, UnchangedButMain, TypeOK
  <2> QED BY <1>3, <2>1, <2>2
<1>4. CASE InnerDrained
  BY <1>1, <1>4 DEF InnerDrained, Close, CloseNow, TypeOK
<1>5. CASE InnerDrain
  <2>1. errToFailWf' \in BOOLEAN
    BY <1>5, Zenon DEF InnerDrain
  <2>2. TypeOK'
    BY <1>5, <2>1 DEF InnerDrain, TypeOK
  <2> QED BY <1>5, <2>2 DEF InnerDrain, CommandsOK
<1>6. ASSUME EnterInnerLoop, main \in {"outer", "inner"} PROVE TypeInv'
  <2>1. CASE TakeAll
    <3> USE <1>6, <2>1 DEF TakeAll
    <3>1. /\ thread' \in [ExeIds -> {"none", "waitUntil", "waiting", "draining", "execute", "closing"}]
          /\ toResume' \subseteq ExeIds /\ resumeQ' \subseteq ExeIds
      BY DEF TypeOK
    <3>2. started' \in [StateIds -> Nat] /\ startQ' \in [StateIds -> Nat]
      BY DEF TypeOK
    <3>3. total' \in Int
      <4>1. IsFiniteSet(ExeIds) /\ NewExeIds \subseteq ExeIds
        BY ExeIdsFinite DEF NewExeIds
      <4>2. Cardinality(NewExeIds) \in Nat
        BY <4>1, FS_Subset, FS_CardinalityType
      <4> QED BY <4>2 DEF TypeOK
    <3>4. cmdThreads' \in [ExeIds -> SUBSET CmdIdx]
      BY RequestType DEF TypeOK
    <3>5. TypeOK'
      BY <3>1, <3>2, <3>3, <3>4 DEF EnterInnerLoop, TypeOK
    <3>6. CommandsOK'
      BY DEF TypeOK, CommandsOK
    <3> QED BY <3>5, <3>6 DEF EnterInnerLoop
  <2>2. CASE UNCHANGED <<queueVars, counterVars, threadVars, toResume>>
    BY <1>6, <2>2 DEF EnterInnerLoop, TypeOK, CommandsOK
  <2> QED BY <1>6, <2>1, <2>2 DEF EnterInnerLoop
<1>7. CASE OuterEnterInner \/ InnerNextIteration
  BY <1>6, <1>7 DEF OuterEnterInner, InnerNextIteration
<1>8. CASE ContinueAsNew
  <2>1. /\ received' \in [Channels -> Seq(Messages)] /\ inbox' \in [Channels -> Seq(Messages)]
        /\ startQ' \in [StateIds -> Nat] /\ rpcInbox' \in Seq(Rpcs)
        /\ failWorkflowByClient' \in BOOLEAN /\ failSent' \in BOOLEAN
    <3>1. received \in [Channels -> Seq(Messages)]
      BY DEF TypeOK
    <3> QED BY <1>8, <3>1, DrainType DEF ContinueAsNew
  <2>2. /\ main' \in {"loading", "closed"} /\ result' \in {"running", "completed", "failed"}
        /\ run' \in 0..MaxRuns
    BY <1>8 DEF ContinueAsNew, Close, CloseNow, TypeOK
  <2>3. TypeOK'
    BY <1>8, <2>1, <2>2 DEF ContinueAsNew, TypeOK
  <2> QED BY <1>8, <2>2, <2>3 DEF ContinueAsNew, CommandsOK
<1>9. CASE LoadInternalsFromPreviousRun
  BY <1>9 DEF LoadInternalsFromPreviousRun, TypeOK, CommandsOK
<1> QED BY <1>2, <1>3, <1>4, <1>5, <1>7, <1>8, <1>9 DEF MainLoop

\* Every step preserves the types.
LEMMA NextType == TypeInv /\ [Next]_vars => TypeInv'
<1> SUFFICES ASSUME TypeInv, [Next]_vars PROVE TypeInv'
  OBVIOUS
<1>1. CASE UNCHANGED vars
  BY <1>1 DEF vars, mainVars, queueVars, flagVars, counterVars, threadVars, signalVars, idVars,
              histVars, TypeInv, TypeOK, CommandsOK, Commands, RunBound
<1> QED BY <1>1, ClientsType, UpdateHandlerType, SignalHandlersType, MainLoopType, ApiCallType,
           StateThreadType, CommandThreadType DEF Next

\* The strengthened type invariant of the specification.
LEMMA SpecTypeInv == Spec => []TypeInv
  BY InitType, NextType, PTL DEF Spec

\* The type invariant holds for all states, channels, requests and decisions.
THEOREM TypeCorrect == Spec => []TypeOK
<1>1. TypeInv => TypeOK
  BY DEF TypeInv
<1> QED BY <1>1, SpecTypeInv, PTL

-----------------------------------------------------------------------------
\* The hypothesis of part 2: a state that proceeds to another state when its Execute
\* API fails has no commands to wait for.  Without it the theorems are false: the code
\* keeps the failed execution in StateExecutionToResumeMap (run proceed_twice).
ProceedingStatesSkip ==
  \A s \in StateIds : ExecuteApiFailureProceedStateId[s] # NoState => s \in SkipWaitUntil

\* What the place where the main loop waits says about threads, errors and the result.
PhaseOK ==
  /\ main \in {"outer", "drain", "loading"} =>
       (~errToFailWf /\ \A e \in ExeIds : thread[e] = "none")
  /\ main = "outer" => toResume = {}
  /\ main # "closed" => result = "running"

\* A waiting execution is kept for a resume, one that yields in a conditional close is
\* not; an execution queued for a resume has no thread; pending executions were started.
ThreadsOK ==
  \A e \in ExeIds :
    /\ thread[e] \in {"waiting", "draining"} => e \in toResume
    /\ thread[e] = "closing" => e \notin toResume
    /\ thread[e] = "waitUntil" => e[1] \notin SkipWaitUntil
    /\ e \in toResume \cup resumeQ => e[1] \notin SkipWaitUntil
    /\ e \in resumeQ => thread[e] = "none"
    /\ e \in PendingExes => e[2] <= started[e[1]]

\* After its decision an execution has no thread, except to yield, and is not resumed.
DecidedOK ==
  \A e \in ExeIds :
    /\ decided[e] > 0 => /\ decided[e] = 1 /\ e \notin toResume \cup resumeQ
                         /\ thread[e] \in {"none", "closing"} /\ e[2] <= started[e[1]]
    /\ thread[e] = "closing" => decided[e] > 0
    /\ e \in completers => decided[e] > 0 /\ thread[e] = "none"

\* The inductive invariant.
LifeInv ==
  /\ PhaseOK /\ ThreadsOK /\ DecidedOK /\ OutputsPreserved /\ CounterMatchesExecutions
  /\ GracefulCompletionIsLast

\* It holds initially.
LEMMA InitLife == Init => LifeInv
<1> SUFFICES ASSUME Init PROVE LifeInv
  OBVIOUS
<1>1. PendingExes = {}
  BY DEF Init, PendingExes
<1>2. PhaseOK /\ ThreadsOK /\ DecidedOK
  BY <1>1 DEF Init, PhaseOK, ThreadsOK, DecidedOK
<1>3. OutputsPreserved
  BY FS_EmptySet DEF Init, OutputsPreserved
<1>4. CounterMatchesExecutions
  BY <1>1, FS_EmptySet DEF Init, CounterMatchesExecutions
<1>5. GracefulCompletionIsLast
  BY DEF Init, GracefulCompletionIsLast
<1> QED BY <1>2, <1>3, <1>4, <1>5 DEF LifeInv

\* The variables that LifeInv mentions, the queue of start requests apart.
lifeVars == <<main, result, resumeQ, errToFailWf, started, total, thread, toResume,
              outputs, decided, completers>>

\* Steps of clients, handlers and command threads leave them alone.
LEMMA SilentPreserves ==
  ASSUME TypeInv, LifeInv, main # "closed", UNCHANGED lifeVars
  PROVE  LifeInv'
<1> USE DEF LifeInv, lifeVars
<1>1. PendingExes' = PendingExes
  BY DEF PendingExes
<1>2. PhaseOK' /\ ThreadsOK' /\ DecidedOK'
  BY <1>1 DEF PhaseOK, ThreadsOK, DecidedOK
<1>3. OutputsPreserved'
  BY DEF OutputsPreserved
<1>4. CounterMatchesExecutions'
  BY <1>1 DEF CounterMatchesExecutions
<1>5. GracefulCompletionIsLast'
  BY DEF GracefulCompletionIsLast, PhaseOK
<1> QED BY <1>2, <1>3, <1>4, <1>5

\* There are finitely many pending executions, all with an execution id.
LEMMA PendingFinite == TypeInv => IsFiniteSet(PendingExes) /\ PendingExes \subseteq ExeIds
<1> SUFFICES ASSUME TypeInv PROVE IsFiniteSet(PendingExes) /\ PendingExes \subseteq ExeIds
  OBVIOUS
<1>1. PendingExes \subseteq ExeIds
  BY DEF TypeInv, TypeOK, PendingExes
<1> QED BY <1>1, ExeIdsFinite, FS_Subset

\* Marking a pending execution completed keeps the counter exact.
LEMMA EndCounted ==
  ASSUME TypeInv, LifeInv, NEW e \in PendingExes,
         PendingExes' = PendingExes \ {e}, total' = total - 1, errToFailWf' \/ ~errToFailWf
  PROVE  CounterMatchesExecutions'
<1>1. Cardinality(PendingExes \ {e}) = Cardinality(PendingExes) - 1
  BY PendingFinite, FS_RemoveElement
<1> QED BY <1>1 DEF LifeInv, CounterMatchesExecutions

\* The output collector gets the output of an execution that is not in it yet.
LEMMA CollectPreserves ==
  ASSUME TypeInv, LifeInv, NEW e \in ExeIds, thread[e] # "none", NEW b \in BOOLEAN,
         CollectOutput(e, b)
  PROVE  OutputsPreserved'
<1>1. e \notin completers
  BY DEF LifeInv, DecidedOK
<1>2. CASE b = FALSE
  BY <1>2 DEF CollectOutput, LifeInv, OutputsPreserved
<1>3. CASE b = TRUE
  <2>1. outputs \in Seq(ExeIds) /\ completers \subseteq ExeIds
    BY DEF TypeInv, TypeOK
  <2>2. outputs' = Append(outputs, e) /\ completers' = completers \cup {e}
    BY <1>3 DEF CollectOutput
  <2>3. {outputs'[i] : i \in DOMAIN outputs'} = {outputs[i] : i \in DOMAIN outputs} \cup {e}
    <3>1. /\ DOMAIN outputs' = 1..(Len(outputs) + 1)
          /\ DOMAIN outputs = 1..Len(outputs) /\ Len(outputs) \in Nat
      BY <2>1, <2>2
    <3>2. \A i \in DOMAIN outputs : outputs'[i] = outputs[i]
      BY <2>1, <2>2
    <3>3. outputs'[Len(outputs) + 1] = e
      BY <2>1, <2>2
    <3> QED BY <3>1, <3>2, <3>3
  <2>4. Cardinality(completers \cup {e}) = Cardinality(completers) + 1
    BY <1>1, <2>1, ExeIdsFinite, FS_Subset, FS_AddElement
  <2>5. Len(outputs') = Len(outputs) + 1
    BY <2>1, <2>2
  <2> QED BY <2>2, <2>3, <2>4, <2>5 DEF LifeInv, OutputsPreserved
<1> QED BY <1>2, <1>3

\* The answers and failures of WaitUntil and Execute preserve the invariant.
LEMMA ApiCallLife ==
  ASSUME TypeInv, LifeInv, ProceedingStatesSkip, NEW e \in ExeIds, ApiCall(e)
  PROVE  LifeInv'
<1> USE DEF LifeInv, mainVars, queueVars, flagVars, counterVars, threadVars, histVars
<1>0. /\ thread \in [ExeIds -> {"none", "waitUntil", "waiting", "draining", "execute", "closing"}]
      /\ decided \in [ExeIds -> Nat]
  BY DEF TypeInv, TypeOK
<1>1. ASSUME Running, NEW req \in CommandRequests, NEW pub \in Publishes, StartWaiting(e, req, pub)
      PROVE  LifeInv'
  <2> USE <1>0, <1>1 DEF StartWaiting
  <2>1. PendingExes' = PendingExes
    BY DEF PendingExes
  <2>2. PhaseOK'
    BY DEF PhaseOK
  <2>3. ThreadsOK'
    BY <2>1 DEF ThreadsOK
  <2>4. DecidedOK'
    BY DEF DecidedOK
  <2>5. OutputsPreserved' /\ CounterMatchesExecutions'
    BY <2>1 DEF OutputsPreserved, CounterMatchesExecutions
  <2>6. GracefulCompletionIsLast'
    BY DEF GracefulCompletionIsLast, PhaseOK, Running
  <2> QED BY <2>2, <2>3, <2>4, <2>5, <2>6
<1>2. ASSUME Running, thread[e] # "none", thread[e] # "closing", FailExecution(e)
      PROVE  LifeInv'
  <2> USE <1>0, <1>2 DEF FailExecution
  <2>1. PendingExes' \subseteq PendingExes
    BY DEF PendingExes
  <2>2. PhaseOK'
    BY DEF PhaseOK
  <2>3. ThreadsOK'
    BY <2>1 DEF ThreadsOK
  <2>4. DecidedOK'
    BY DEF DecidedOK
  <2>5. OutputsPreserved' /\ CounterMatchesExecutions'
    BY DEF OutputsPreserved, CounterMatchesExecutions
  <2>6. GracefulCompletionIsLast'
    BY DEF GracefulCompletionIsLast, PhaseOK, Running
  <2> QED BY <2>2, <2>3, <2>4, <2>5, <2>6
<1>3. ASSUME NEW d \in Decisions, NEW pub \in Publishes, ExecuteCompleted(e, d, pub)
      PROVE  LifeInv'
  <2> USE <1>0, <1>3 DEF ExecuteCompleted, MarkStateExecutionCompleted
  <2>1. e \in PendingExes /\ PendingExes' = PendingExes \ {e}
    BY DEF PendingExes, ThreadsOK
  <2>2. PhaseOK'
    BY DEF PhaseOK
  <2>3. ThreadsOK'
    BY <2>1 DEF ThreadsOK
  <2>4. DecidedOK'
    BY <2>1 DEF DecidedOK, ThreadsOK, CollectOutput
  <2>5. OutputsPreserved'
    BY CollectPreserves DEF HasOutput
  <2>6. CounterMatchesExecutions'
    BY <2>1, EndCounted
  <2>7. GracefulCompletionIsLast'
    BY DEF GracefulCompletionIsLast, PhaseOK, Running
  <2> QED BY <2>2, <2>3, <2>4, <2>5, <2>6, <2>7
<1>4. ASSUME NEW d \in Decisions, NEW pub \in Publishes, ExecuteCompletedConditionally(e, d, pub)
      PROVE  LifeInv'
  <2> USE <1>0, <1>4 DEF ExecuteCompletedConditionally
  <2>1. e \in PendingExes /\ PendingExes' = PendingExes
    BY DEF PendingExes
  <2>2. PhaseOK'
    BY DEF PhaseOK
  <2>3. ThreadsOK'
    BY <2>1 DEF ThreadsOK
  <2>4. DecidedOK'
    BY <2>1 DEF DecidedOK, ThreadsOK
  <2>5. OutputsPreserved' /\ CounterMatchesExecutions'
    BY <2>1 DEF OutputsPreserved, CounterMatchesExecutions
  <2>6. GracefulCompletionIsLast'
    BY DEF GracefulCompletionIsLast, PhaseOK, Running
  <2> QED BY <2>2, <2>3, <2>4, <2>5, <2>6
<1>5. CASE ExecuteApiFailedAndProceed(e)
  <2> USE <1>0, <1>5 DEF ExecuteApiFailedAndProceed, MarkStateExecutionCompleted
  <2>0. e[1] \in SkipWaitUntil
    BY DEF ProceedingStatesSkip, ExeIds
  <2>1. e \in PendingExes /\ PendingExes' = PendingExes \ {e} /\ e \notin toResume \cup resumeQ
    BY <2>0 DEF PendingExes, ThreadsOK
  <2>2. PhaseOK'
    BY DEF PhaseOK
  <2>3. ThreadsOK'
    BY <2>1 DEF ThreadsOK
  <2>4. DecidedOK'
    BY <2>1 DEF DecidedOK, ThreadsOK
  <2>5. OutputsPreserved'
    BY DEF OutputsPreserved
  <2>6. CounterMatchesExecutions'
    BY <2>1, EndCounted
  <2>7. GracefulCompletionIsLast'
    BY DEF GracefulCompletionIsLast, PhaseOK, Running
  <2> QED BY <2>2, <2>3, <2>4, <2>5, <2>6, <2>7
<1>6. NoCommands \in CommandRequests /\ NoChannel \in Publishes
  BY RequestsAssumption, Zenon DEF Publishes
<1>7. CASE WaitUntilFailed(e) \/ ExecuteFailed(e)
  BY <1>2, <1>7 DEF WaitUntilFailed, ExecuteFailed
<1>8. CASE WaitUntilFailedAndProceed(e)
  BY <1>1, <1>6, <1>8 DEF WaitUntilFailedAndProceed
<1>9. ASSUME NEW req \in CommandRequests, NEW pub \in Publishes, WaitUntilCompleted(e, req, pub)
      PROVE  LifeInv'
  BY <1>1, <1>9 DEF WaitUntilCompleted
<1> QED BY <1>3, <1>4, <1>5, <1>7, <1>8, <1>9 DEF ApiCall

\* The steps of a state thread between its API calls preserve it.
LEMMA StateThreadLife ==
  ASSUME TypeInv, LifeInv, NEW e \in ExeIds, StateThread(e)
  PROVE  LifeInv'
<1> USE DEF LifeInv, mainVars, queueVars, flagVars, counterVars, threadVars, histVars
<1>0. /\ thread \in [ExeIds -> {"none", "waitUntil", "waiting", "draining", "execute", "closing"}]
      /\ decided \in [ExeIds -> Nat]
  BY DEF TypeInv, TypeOK
<1>1. CASE CommandReqDoneOrCanceled(e) \/ ReturnWaitingCommands(e) \/ InvokeStateExecute(e)
  <2> USE <1>0, <1>1 DEF CommandReqDoneOrCanceled, ReturnWaitingCommands, InvokeStateExecute,
                         CommandThreadsDrained
  <2>1. PendingExes' = PendingExes
    BY DEF PendingExes, ThreadsOK
  <2>2. PhaseOK'
    BY DEF PhaseOK
  <2>3. ThreadsOK'
    BY <2>1 DEF ThreadsOK
  <2>4. DecidedOK'
    BY DEF DecidedOK
  <2>5. OutputsPreserved' /\ CounterMatchesExecutions'
    BY <2>1 DEF OutputsPreserved, CounterMatchesExecutions
  <2>6. GracefulCompletionIsLast'
    BY DEF GracefulCompletionIsLast, PhaseOK, Running
  <2> QED BY <2>2, <2>3, <2>4, <2>5, <2>6
<1>2. CASE ConditionalClose(e)
  <2> USE <1>0, <1>2 DEF ConditionalClose, MarkStateExecutionCompleted
  <2>1. e \in PendingExes /\ PendingExes' = PendingExes \ {e}
    BY DEF PendingExes, ThreadsOK
  <2>2. PhaseOK'
    BY DEF PhaseOK
  <2>3. ThreadsOK'
    BY <2>1 DEF ThreadsOK
  <2>4. DecidedOK'
    BY <2>1 DEF DecidedOK, ThreadsOK, CollectOutput
  <2>5. OutputsPreserved'
    BY CollectPreserves
  <2>6. CounterMatchesExecutions'
    BY <2>1, EndCounted
  <2>7. GracefulCompletionIsLast'
    BY DEF GracefulCompletionIsLast, PhaseOK, Running
  <2> QED BY <2>2, <2>3, <2>4, <2>5, <2>6, <2>7
<1> QED BY <1>1, <1>2 DEF StateThread

\* Taking the queue starts new executions only, and counts each of them once.
LEMMA TakeAllLife ==
  ASSUME TypeInv, LifeInv, TakeAll,
         UNCHANGED <<errToFailWf, outputs, decided, completers>>
  PROVE  ThreadsOK' /\ DecidedOK' /\ OutputsPreserved' /\ CounterMatchesExecutions'
<1> USE DEF LifeInv, TakeAll
<1>0. /\ thread \in [ExeIds -> {"none", "waitUntil", "waiting", "draining", "execute", "closing"}]
      /\ decided \in [ExeIds -> Nat] /\ resumeQ \subseteq ExeIds /\ toResume \subseteq ExeIds
      /\ total \in Int
  BY DEF TypeInv, TypeOK
<1>1. NewExeIds \cap PendingExes = {} /\ NewExeIds \subseteq ExeIds
  <2>1. \A e \in ExeIds : e[1] \in StateIds /\ e[2] \in Nat /\ started[e[1]] \in Nat
    BY BoundsAssumption DEF ExeIds, TypeInv, TypeOK
  <2> QED BY <2>1 DEF NewExeIds, ThreadsOK
<1>2. PendingExes' = PendingExes \cup NewExeIds
  BY <1>0, <1>1 DEF PendingExes
<1>3. \A e \in ExeIds : e[1] \in StateIds /\ started[e[1]] \in Nat /\ startQ[e[1]] \in Nat
                        /\ e[2] \in Nat /\ started'[e[1]] = started[e[1]] + startQ[e[1]]
  BY BoundsAssumption DEF ExeIds, TypeInv, TypeOK
<1>4. \A e \in ExeIds : e[2] <= started[e[1]] => e[2] <= started'[e[1]]
  BY <1>3
<1>5. \A e \in NewExeIds : e[2] <= started'[e[1]] /\ ~(e[2] <= started[e[1]])
  BY <1>3 DEF NewExeIds
<1>6. ThreadsOK'
  BY <1>0, <1>1, <1>2, <1>4, <1>5 DEF ThreadsOK, PendingExes
<1>7. DecidedOK'
  BY <1>0, <1>4, <1>5 DEF DecidedOK
<1>8. OutputsPreserved'
  BY DEF OutputsPreserved
<1>9. CounterMatchesExecutions'
  <2>1. IsFiniteSet(PendingExes) /\ IsFiniteSet(NewExeIds)
    BY <1>1, PendingFinite, ExeIdsFinite, FS_Subset
  <2>2. PendingExes \cap NewExeIds = {} /\ Cardinality({}) = 0
    BY <1>1, FS_EmptySet
  <2>3. Cardinality(PendingExes \cup NewExeIds) = Cardinality(PendingExes) + Cardinality(NewExeIds)
    <3>1. Cardinality(PendingExes) \in Nat /\ Cardinality(NewExeIds) \in Nat
      BY <2>1, FS_CardinalityType
    <3>2. Cardinality(PendingExes \cup NewExeIds)
            = Cardinality(PendingExes) + Cardinality(NewExeIds) - Cardinality(PendingExes \cap NewExeIds)
      BY <2>1, FS_Union, Zenon
    <3>3. Cardinality(PendingExes \cap NewExeIds) = 0
      BY <2>2, Zenon
    <3> QED BY <3>1, <3>2, <3>3
  <2> QED BY <1>2, <2>3 DEF CounterMatchesExecutions
<1> QED BY <1>6, <1>7, <1>8, <1>9

\* The main loop moves on without touching anything else.
LEMMA MainMoves ==
  ASSUME TypeInv, LifeInv, UnchangedButMain, PhaseOK', GracefulCompletionIsLast'
  PROVE  LifeInv'
<1> USE DEF LifeInv, UnchangedButMain, queueVars, flagVars, counterVars, threadVars, histVars
<1>1. PendingExes' = PendingExes
  BY DEF PendingExes
<1>2. ThreadsOK' /\ DecidedOK' /\ OutputsPreserved' /\ CounterMatchesExecutions'
  BY <1>1 DEF ThreadsOK, DecidedOK, OutputsPreserved, CounterMatchesExecutions
<1> QED BY <1>2

\* A counter of 0 means that nothing is pending.
LEMMA NoPending ==
  ASSUME TypeInv, LifeInv, ~errToFailWf, total = 0
  PROVE  PendingExes = {}
  BY PendingFinite, FS_EmptySet DEF LifeInv, CounterMatchesExecutions

\* The main loop, continue-as-new and loading preserve the invariant.
LEMMA MainLoopLife == ASSUME TypeInv, LifeInv, MainLoop PROVE LifeInv'
<1> USE DEF LifeInv, mainVars, queueVars, flagVars, counterVars, threadVars, histVars
<1>1. CASE OuterFailByClient
  BY <1>1, MainMoves DEF OuterFailByClient, Close, PhaseOK, GracefulCompletionIsLast
<1>2. CASE OuterComplete
  <2> USE <1>2 DEF OuterComplete, Close, CloseNow, UnchangedButMain
  <2>1. PendingExes' = {} /\ QueueIsEmpty'
    BY DEF PendingExes, PhaseOK, QueueIsEmpty
  <2> QED BY <2>1, MainMoves DEF PhaseOK, GracefulCompletionIsLast
<1>3. CASE OuterDrain
  BY <1>3, MainMoves DEF OuterDrain, UnchangedButMain, PhaseOK, GracefulCompletionIsLast
<1>4. CASE InnerClose
  BY <1>4, MainMoves DEF InnerClose, FailOrForce, Close, CloseNow, UnchangedButMain, PhaseOK,
                         GracefulCompletionIsLast
<1>5. CASE InnerNoMoreState
  <2> USE <1>5 DEF InnerNoMoreState, UnchangedButMain
  <2>1. PendingExes = {} /\ ~errToFailWf
    BY NoPending DEF FailOrForce
  <2>2. PhaseOK' /\ GracefulCompletionIsLast'
    BY <2>1 DEF PhaseOK, PendingExes, GracefulCompletionIsLast
  <2> QED BY <2>2, MainMoves
<1>6. CASE InnerDrained
  <2> USE <1>6 DEF InnerDrained, UnchangedButMain
  <2>1. CASE FailOrForce
    BY <2>1, MainMoves DEF FailOrForce, Close, CloseNow, PhaseOK, GracefulCompletionIsLast
  <2>2. CASE ~FailOrForce
    BY <2>2, MainMoves DEF FailOrForce, AllThreadsDrained, PhaseOK, GracefulCompletionIsLast
  <2> QED BY <2>1, <2>2
<1>7. CASE InnerDrain
  <2> USE <1>7 DEF InnerDrain
  <2>1. PendingExes' = PendingExes
    BY DEF PendingExes
  <2>2. ThreadsOK' /\ DecidedOK' /\ OutputsPreserved'
    BY <2>1 DEF ThreadsOK, DecidedOK, OutputsPreserved
  <2>3. ~errToFailWf' => ~errToFailWf
    BY Zenon
  <2>4. CounterMatchesExecutions'
    BY <2>1, <2>3 DEF CounterMatchesExecutions
  <2>5. PhaseOK' /\ GracefulCompletionIsLast'
    BY DEF PhaseOK, GracefulCompletionIsLast
  <2> QED BY <2>2, <2>4, <2>5
<1>8. ASSUME main \in {"outer", "inner"}, EnterInnerLoop PROVE LifeInv'
  <2> USE <1>8 DEF EnterInnerLoop
  <2>1. PhaseOK' /\ GracefulCompletionIsLast'
    BY DEF PhaseOK, GracefulCompletionIsLast
  <2>2. CASE TakeAll
    BY <2>1, <2>2, TakeAllLife
  <2>3. CASE UNCHANGED <<queueVars, counterVars, threadVars, toResume>>
    <3>1. PendingExes' = PendingExes
      BY <2>3 DEF PendingExes
    <3> QED BY <2>1, <2>3, <3>1 DEF ThreadsOK, DecidedOK, OutputsPreserved, CounterMatchesExecutions
  <2> QED BY <2>2, <2>3
<1>9. CASE OuterEnterInner \/ InnerNextIteration
  BY <1>8, <1>9 DEF OuterEnterInner, InnerNextIteration
<1>10. CASE ContinueAsNew
  <2> USE <1>10 DEF ContinueAsNew
  <2>1. PendingExes' = PendingExes
    BY DEF PendingExes
  <2>2. ThreadsOK' /\ DecidedOK' /\ OutputsPreserved' /\ CounterMatchesExecutions'
    BY <2>1 DEF ThreadsOK, DecidedOK, OutputsPreserved, CounterMatchesExecutions
  <2>3. PhaseOK'
    BY DEF PhaseOK, Close, CloseNow
  <2>4. GracefulCompletionIsLast'
    <3>1. SUFFICES ASSUME result' = "completed" PROVE PendingExes' = {} /\ QueueIsEmpty'
      BY DEF GracefulCompletionIsLast
    <3>2. resumeQ = {} /\ toResume = {} /\ \A s \in StateIds : DrainedStartQ[s] = 0
      BY <3>1 DEF Close, CloseNow, PhaseOK
    <3>3. startQ' = DrainedStartQ
      BY DEF DrainAllReceivedButUnprocessedSignals
    <3>4. \A e \in ExeIds : thread[e] = "none"
      BY DEF AllThreadsDrained
    <3> QED BY <3>2, <3>3, <3>4, <2>1 DEF PendingExes, QueueIsEmpty
  <2> QED BY <2>2, <2>3, <2>4
<1>11. CASE LoadInternalsFromPreviousRun
  <2> USE <1>11 DEF LoadInternalsFromPreviousRun
  <2>1. PendingExes' = PendingExes
    BY DEF PendingExes
  <2>2. ThreadsOK'
    BY <2>1 DEF ThreadsOK, PhaseOK
  <2>3. DecidedOK' /\ OutputsPreserved' /\ CounterMatchesExecutions'
    BY <2>1 DEF DecidedOK, OutputsPreserved, CounterMatchesExecutions, PhaseOK
  <2>4. PhaseOK' /\ GracefulCompletionIsLast'
    BY DEF PhaseOK, GracefulCompletionIsLast
  <2> QED BY <2>2, <2>3, <2>4
<1> QED BY <1>1, <1>2, <1>3, <1>4, <1>5, <1>6, <1>7, <1>9, <1>10, <1>11 DEF MainLoop

\* Every step preserves the invariant.
LEMMA NextLife == ProceedingStatesSkip /\ TypeInv /\ LifeInv /\ [Next]_vars => LifeInv'
<1> SUFFICES ASSUME ProceedingStatesSkip, TypeInv, LifeInv, [Next]_vars PROVE LifeInv'
  OBVIOUS
<1> USE DEF mainVars, queueVars, flagVars, counterVars, threadVars, histVars
<1>1. CASE UNCHANGED vars
  <2>1. PendingExes' = PendingExes /\ (QueueIsEmpty' <=> QueueIsEmpty)
    BY <1>1 DEF vars, PendingExes, QueueIsEmpty
  <2> QED BY <1>1, <2>1 DEF vars, LifeInv, PhaseOK, ThreadsOK, DecidedOK, OutputsPreserved,
                            CounterMatchesExecutions, GracefulCompletionIsLast
<1>2. CASE Clients
  <2>1. main # "closed" /\ UNCHANGED lifeVars
    BY <1>2 DEF Clients, SignalWorkflow, FailWorkflow, ExecuteRpcSignal, UpdateHandlerStart,
                MeetThreshold, Open, Running, lifeVars
  <2> QED BY <2>1, SilentPreserves
<1>3. CASE UpdateHandler
  <2>1. main # "closed" /\ UNCHANGED lifeVars
    BY <1>3 DEF UpdateHandler, UpdateHandlerFinish, UpdateHandlerFail, Running, lifeVars
  <2> QED BY <2>1, SilentPreserves
<1>4. CASE SignalHandlers
  <2>1. main # "closed" /\ UNCHANGED lifeVars
    BY <1>4 DEF SignalHandlers, FailWorkflowHandler, ExecuteRpcHandler, UserSignalHandler,
                HandlerExit, Running, lifeVars
  <2> QED BY <2>1, SilentPreserves
<1>5. ASSUME NEW e \in ExeIds, NEW i \in CmdIdx, CommandThread(e, i) \/ TimerFired(e, i)
      PROVE  LifeInv'
  <2>1. main # "closed" /\ UNCHANGED lifeVars
    BY <1>5 DEF CommandThread, CommandReceive, CommandCancel, TimerFired, Running, lifeVars
  <2> QED BY <2>1, SilentPreserves
<1> QED BY <1>1, <1>2, <1>3, <1>4, <1>5, MainLoopLife, ApiCallLife, StateThreadLife DEF Next

\* Both inductive invariants hold of the specification.
LEMMA SpecLife == ASSUME ProceedingStatesSkip PROVE Spec => [](TypeInv /\ LifeInv)
<1>1. Init => TypeInv /\ LifeInv
  BY InitType, InitLife
<1>2. TypeInv /\ LifeInv /\ [Next]_vars => (TypeInv /\ LifeInv)'
  BY NextType, NextLife
<1> QED BY <1>1, <1>2, PTL DEF Spec

\* totalCurrentlyExecutingCount is the number of pending executions in every run of every
\* workflow, so that the main loop never takes a running state for a dead end.
THEOREM CounterExact == ASSUME ProceedingStatesSkip PROVE Spec => []CounterMatchesExecutions
<1>1. LifeInv => CounterMatchesExecutions
  BY DEF LifeInv
<1> QED BY <1>1, SpecLife, PTL

\* No execution makes two decisions, across any number of continue-as-news.
THEOREM DecisionIsUnique == ASSUME ProceedingStatesSkip PROVE Spec => []DecidesOnce
<1>1. TypeInv /\ LifeInv => DecidesOnce
  <2> SUFFICES ASSUME TypeInv, LifeInv, NEW e \in ExeIds PROVE decided[e] <= 1
    BY DEF DecidesOnce
  <2>1. decided[e] \in Nat
    BY DEF TypeInv, TypeOK
  <2> QED BY <2>1 DEF LifeInv, DecidedOK
<1> QED BY <1>1, SpecLife, PTL

\* A workflow that completes gracefully has no execution running, parked or queued.
THEOREM CompletionIsLast == ASSUME ProceedingStatesSkip PROVE Spec => []GracefulCompletionIsLast
<1>1. LifeInv => GracefulCompletionIsLast
  BY DEF LifeInv
<1> QED BY <1>1, SpecLife, PTL

\* The collected outputs are those of the executions that completed the workflow, once each.
THEOREM OutputsKept == ASSUME ProceedingStatesSkip PROVE Spec => []OutputsPreserved
<1>1. LifeInv => OutputsPreserved
  BY DEF LifeInv
<1> QED BY <1>1, SpecLife, PTL

-----------------------------------------------------------------------------
(* Part 3: places *)

\* Where m is in the queues of a kind.
PlacesIn(kind, queues, m) ==
  UNION {{<<kind, c, i>> : i \in {j \in DOMAIN queues[c] : queues[c][j] = m}} : c \in Channels}

\* Where m is with the executions that keep messages.
PlacesHeld(holders, completed, values, m) ==
  UNION {{<<"held", e, i>> : i \in {j \in completed[e] : values[e][j] = m}} : e \in holders}

PlacesOf(inb, recv, held, m) ==
  PlacesIn("inbox", inb, m) \cup PlacesIn("received", recv, m) \cup held

\* B has no element if A has none, and one if A has one.
AsMany(A, B) ==
  /\ A = {} => B = {}
  /\ \A p : A = {p} => \E q : B = {q}

\* The elements of PlacesIn.
LEMMA InPlacesIn ==
  ASSUME NEW kind, NEW queues, NEW m, NEW p
  PROVE  p \in PlacesIn(kind, queues, m) <=>
           \E c \in Channels : \E i \in DOMAIN queues[c] : p = <<kind, c, i>> /\ queues[c][i] = m
<1>1. ASSUME NEW c \in Channels, NEW i \in DOMAIN queues[c], p = <<kind, c, i>>, queues[c][i] = m
      PROVE  p \in PlacesIn(kind, queues, m)
  <2>1. p \in {<<kind, c, j>> : j \in {k \in DOMAIN queues[c] : queues[c][k] = m}}
    BY <1>1, Zenon
  <2> QED BY <2>1, Zenon DEF PlacesIn
<1>2. ASSUME p \in PlacesIn(kind, queues, m)
      PROVE  \E c \in Channels : \E i \in DOMAIN queues[c] : p = <<kind, c, i>> /\ queues[c][i] = m
  <2>1. PICK c \in Channels : p \in {<<kind, c, i>> : i \in {j \in DOMAIN queues[c] : queues[c][j] = m}}
    BY <1>2, Zenon DEF PlacesIn
  <2> QED BY <2>1, Zenon
<1> QED BY <1>1, <1>2, Zenon

\* The elements of PlacesHeld.
LEMMA InPlacesHeld ==
  ASSUME NEW holders, NEW completed, NEW values, NEW m, NEW p
  PROVE  p \in PlacesHeld(holders, completed, values, m) <=>
           \E e \in holders : \E i \in completed[e] : p = <<"held", e, i>> /\ values[e][i] = m
<1>1. ASSUME NEW e \in holders, NEW i \in completed[e], p = <<"held", e, i>>, values[e][i] = m
      PROVE  p \in PlacesHeld(holders, completed, values, m)
  <2>1. p \in {<<"held", e, j>> : j \in {k \in completed[e] : values[e][k] = m}}
    BY <1>1, Zenon
  <2> QED BY <2>1, Zenon DEF PlacesHeld
<1>2. ASSUME p \in PlacesHeld(holders, completed, values, m)
      PROVE  \E e \in holders : \E i \in completed[e] : p = <<"held", e, i>> /\ values[e][i] = m
  <2>1. PICK e \in holders : p \in {<<"held", e, i>> : i \in {j \in completed[e] : values[e][j] = m}}
    BY <1>2, Zenon DEF PlacesHeld
  <2> QED BY <2>1, Zenon
<1> QED BY <1>1, <1>2, Zenon

\* B is the image of A under f.
IsImage(A, B, f) == (\A p \in A : f[p] \in B) /\ (\A q \in B : \E p \in A : q = f[p])

\* A set that is the image of another one has as many elements, as far as AsMany counts.
LEMMA ImageAsMany ==
  ASSUME NEW A, NEW B, NEW f, IsImage(A, B, f)
  PROVE  AsMany(A, B)
<1>1. A = {} => B = {}
  BY Zenon DEF IsImage
<1>2. ASSUME NEW p, A = {p} PROVE \E q : B = {q}
  <2>1. B = {f[p]}
    BY <1>2 DEF IsImage
  <2> QED BY <2>1, Zenon
<1> QED BY <1>1, <1>2, Zenon DEF AsMany

Appended(queues, c, x) == [queues EXCEPT ![c] = Append(@, x)]

\* A message at the end of a queue is in one more place.
AppendsPlace(kind, queues, c, x, m) ==
  /\ x = m => PlacesIn(kind, Appended(queues, c, x), m)
                = PlacesIn(kind, queues, m) \cup {<<kind, c, Len(queues[c]) + 1>>}
  /\ x # m => PlacesIn(kind, Appended(queues, c, x), m) = PlacesIn(kind, queues, m)

\* This is what Append does.
LEMMA AppendPlaces ==
  ASSUME NEW kind, NEW queues \in [Channels -> Seq(Messages)], NEW c \in Channels,
         NEW x \in Messages, NEW m
  PROVE  AppendsPlace(kind, queues, c, x, m)
<1> DEFINE q2 == [queues EXCEPT ![c] = Append(@, x)]
           n == Len(queues[c]) + 1
<1>1. \A d \in Channels : d # c => q2[d] = queues[d]
  OBVIOUS
<1>2. /\ DOMAIN q2[c] = DOMAIN queues[c] \cup {n} /\ n \notin DOMAIN queues[c]
      /\ \A i \in DOMAIN queues[c] : q2[c][i] = queues[c][i]
      /\ q2[c][n] = x
  <2>1. q2[c] = Append(queues[c], x) /\ queues[c] \in Seq(Messages)
    OBVIOUS
  <2> HIDE DEF q2
  <2> QED BY <2>1
<1> HIDE DEF q2, n
<1>3. ASSUME NEW p \in PlacesIn(kind, queues, m) PROVE p \in PlacesIn(kind, q2, m)
  <2>1. PICK d, i : d \in Channels /\ i \in DOMAIN queues[d] /\ p = <<kind, d, i>> /\ queues[d][i] = m
    BY <1>3, InPlacesIn
  <2>2. i \in DOMAIN q2[d] /\ q2[d][i] = m
    BY <1>1, <1>2, <2>1, Zenon
  <2> QED BY <2>1, <2>2, InPlacesIn
<1>4. ASSUME NEW p \in PlacesIn(kind, q2, m), p \notin PlacesIn(kind, queues, m)
      PROVE  x = m /\ p = <<kind, c, n>>
  <2>1. PICK d, i : d \in Channels /\ i \in DOMAIN q2[d] /\ p = <<kind, d, i>> /\ q2[d][i] = m
    BY <1>4, InPlacesIn
  <2>2. ~ (i \in DOMAIN queues[d] /\ queues[d][i] = m)
    BY <1>4, <2>1, InPlacesIn
  <2>3. d = c
    BY <1>1, <2>1, <2>2, Zenon
  <2>4. i = n
    BY <1>2, <2>1, <2>2, <2>3, Zenon
  <2> QED BY <1>2, <2>1, <2>3, <2>4, Zenon
<1>5. x = m => <<kind, c, n>> \in PlacesIn(kind, q2, m)
  BY <1>2, InPlacesIn
<1>6. PlacesIn(kind, queues, m) \subseteq PlacesIn(kind, q2, m)
  BY <1>3, Zenon
<1>7. x # m => PlacesIn(kind, q2, m) \subseteq PlacesIn(kind, queues, m)
  BY <1>4, Zenon
<1>8. x = m => PlacesIn(kind, q2, m) = PlacesIn(kind, queues, m) \cup {<<kind, c, n>>}
  BY <1>4, <1>5, <1>6, Zenon
<1> QED BY <1>6, <1>7, <1>8, Zenon DEF q2, n, Appended, AppendsPlace

\* n messages of q, its oldest ones, have moved to the end of r.
MovedSeq(q, r, q2, r2, n) ==
  /\ n <= Len(q) /\ Len(q2) = Len(q) - n /\ Len(r2) = Len(r) + n
  /\ \A i \in 1..Len(r) : r2[i] = r[i]
  /\ \A i \in 1..n : r2[Len(r) + i] = q[i]
  /\ \A i \in 1..Len(q2) : q2[i] = q[n + i]

\* Moving messages from the inboxes to the received queues changes their places only.
LEMMA MovePlaces ==
  ASSUME NEW inb \in [Channels -> Seq(Messages)], NEW rec \in [Channels -> Seq(Messages)],
         NEW inb2 \in [Channels -> Seq(Messages)], NEW rec2 \in [Channels -> Seq(Messages)],
         NEW n \in [Channels -> Nat],
         \A c \in Channels : MovedSeq(inb[c], rec[c], inb2[c], rec2[c], n[c]),
         NEW m, NEW held, \A p \in held : p[1] = "held"
  PROVE  AsMany(PlacesOf(inb, rec, held, m), PlacesOf(inb2, rec2, held, m))
<1> DEFINE A == PlacesOf(inb, rec, held, m)
           B == PlacesOf(inb2, rec2, held, m)
           f == [p \in A |->
                   IF p[1] = "inbox"
                   THEN IF p[3] <= n[p[2]] THEN <<"received", p[2], Len(rec[p[2]]) + p[3]>>
                                           ELSE <<"inbox", p[2], p[3] - n[p[2]]>>
                   ELSE p]
<1>1. ASSUME NEW c \in Channels
      PROVE  /\ Len(inb[c]) \in Nat /\ Len(rec[c]) \in Nat /\ Len(inb2[c]) \in Nat
             /\ Len(rec2[c]) \in Nat /\ n[c] \in Nat
             /\ DOMAIN inb[c] = 1..Len(inb[c]) /\ DOMAIN rec[c] = 1..Len(rec[c])
             /\ DOMAIN inb2[c] = 1..Len(inb2[c]) /\ DOMAIN rec2[c] = 1..Len(rec2[c])
  OBVIOUS
<1>2. ASSUME NEW c \in Channels, NEW i \in DOMAIN inb[c], inb[c][i] = m
      PROVE  /\ <<"inbox", c, i>> \in A
             /\ i <= n[c] => /\ f[<<"inbox", c, i>>] = <<"received", c, Len(rec[c]) + i>>
                             /\ <<"received", c, Len(rec[c]) + i>> \in B
             /\ ~(i <= n[c]) => /\ f[<<"inbox", c, i>>] = <<"inbox", c, i - n[c]>>
                                /\ <<"inbox", c, i - n[c]>> \in B
  <2>1. <<"inbox", c, i>> \in A
    BY <1>2, InPlacesIn DEF PlacesOf
  <2>2. MovedSeq(inb[c], rec[c], inb2[c], rec2[c], n[c])
    OBVIOUS
  <2>3. CASE i <= n[c]
    <3>1. Len(rec[c]) + i \in DOMAIN rec2[c] /\ rec2[c][Len(rec[c]) + i] = m
      BY <1>1, <1>2, <2>2, <2>3 DEF MovedSeq
    <3>2. <<"received", c, Len(rec[c]) + i>> \in B
      BY <3>1, InPlacesIn DEF PlacesOf
    <3>3. f[<<"inbox", c, i>>] = <<"received", c, Len(rec[c]) + i>>
      BY <2>1, <2>3, Zenon
    <3> QED BY <2>1, <2>3, <3>2, <3>3, Zenon
  <2>4. CASE ~(i <= n[c])
    <3>1. i - n[c] \in DOMAIN inb2[c] /\ inb2[c][i - n[c]] = m
      <4>1. i - n[c] \in 1..Len(inb2[c]) /\ n[c] + (i - n[c]) = i
        <5>1. Len(inb2[c]) = Len(inb[c]) - n[c] /\ i \in 1..Len(inb[c])
          BY <1>1, <1>2, <2>2, Zenon DEF MovedSeq
        <5> QED BY <1>1, <2>4, <5>1
      <4>2. inb2[c][i - n[c]] = inb[c][n[c] + (i - n[c])]
        BY <2>2, <4>1, Zenon DEF MovedSeq
      <4> QED BY <1>1, <1>2, <4>1, <4>2, Zenon
    <3>2. <<"inbox", c, i - n[c]>> \in B
      BY <3>1, InPlacesIn DEF PlacesOf
    <3>3. f[<<"inbox", c, i>>] = <<"inbox", c, i - n[c]>>
      BY <2>1, <2>4, Zenon
    <3> QED BY <2>1, <2>4, <3>2, <3>3, Zenon
  <2> QED BY <2>3, <2>4, Zenon
<1>3. ASSUME NEW c \in Channels, NEW i \in DOMAIN rec[c], rec[c][i] = m
      PROVE  /\ <<"received", c, i>> \in A /\ <<"received", c, i>> \in B
             /\ f[<<"received", c, i>>] = <<"received", c, i>>
  <2>1. <<"received", c, i>> \in A
    BY <1>3, InPlacesIn DEF PlacesOf
  <2>2. MovedSeq(inb[c], rec[c], inb2[c], rec2[c], n[c])
    OBVIOUS
  <2>3. i \in DOMAIN rec2[c] /\ rec2[c][i] = m
    <3>1. i \in 1..Len(rec[c]) /\ Len(rec2[c]) = Len(rec[c]) + n[c]
      BY <1>1, <1>3, <2>2, Zenon DEF MovedSeq
    <3>2. i \in 1..Len(rec2[c])
      BY <1>1, <3>1
    <3> QED BY <1>1, <1>3, <2>2, <3>1, <3>2, Zenon DEF MovedSeq
  <2>4. <<"received", c, i>> \in B
    BY <2>3, InPlacesIn DEF PlacesOf
  <2>5. f[<<"received", c, i>>] = <<"received", c, i>>
    BY <2>1
  <2> QED BY <2>1, <2>4, <2>5
<1>4. ASSUME NEW p \in held PROVE p \in A /\ p \in B /\ f[p] = p
  <2>1. p \in A /\ p \in B /\ p[1] # "inbox"
    BY <1>4 DEF PlacesOf
  <2> QED BY <2>1, Zenon
<1>5. ASSUME NEW p \in A PROVE f[p] \in B
  <2>1. CASE p \in PlacesIn("inbox", inb, m)
    <3>1. PICK c, i : c \in Channels /\ i \in DOMAIN inb[c] /\ p = <<"inbox", c, i>> /\ inb[c][i] = m
      BY <2>1, InPlacesIn
    <3> QED BY <1>2, <3>1, Zenon
  <2>2. CASE p \in PlacesIn("received", rec, m)
    <3>1. PICK c, i : c \in Channels /\ i \in DOMAIN rec[c] /\ p = <<"received", c, i>> /\ rec[c][i] = m
      BY <2>2, InPlacesIn
    <3> QED BY <1>3, <3>1, Zenon
  <2>3. CASE p \in held
    BY <1>4, <2>3, Zenon
  <2> QED BY <1>5, <2>1, <2>2, <2>3, Zenon DEF PlacesOf
<1>6. ASSUME NEW q \in B PROVE \E p \in A : q = f[p]
  <2>1. CASE q \in PlacesIn("inbox", inb2, m)
    <3>1. PICK c, i : c \in Channels /\ i \in DOMAIN inb2[c] /\ q = <<"inbox", c, i>> /\ inb2[c][i] = m
      BY <2>1, InPlacesIn
    <3>2. MovedSeq(inb[c], rec[c], inb2[c], rec2[c], n[c])
      BY <3>1
    <3>3. /\ n[c] + i \in DOMAIN inb[c] /\ inb[c][n[c] + i] = m /\ ~(n[c] + i <= n[c])
          /\ (n[c] + i) - n[c] = i
      <4>1. i \in 1..Len(inb2[c]) /\ Len(inb2[c]) = Len(inb[c]) - n[c] /\ n[c] <= Len(inb[c])
        BY <1>1, <3>1, <3>2, Zenon DEF MovedSeq
      <4>2. n[c] + i \in 1..Len(inb[c]) /\ ~(n[c] + i <= n[c]) /\ (n[c] + i) - n[c] = i
        BY <1>1, <3>1, <4>1
      <4>3. inb[c][n[c] + i] = m
        BY <3>1, <3>2, <4>1, Zenon DEF MovedSeq
      <4> QED BY <1>1, <3>1, <4>2, <4>3, Zenon
    <3>4. /\ <<"inbox", c, n[c] + i>> \in A
          /\ f[<<"inbox", c, n[c] + i>>] = <<"inbox", c, (n[c] + i) - n[c]>>
      BY <1>2, <3>1, <3>3, Zenon
    <3> QED BY <3>1, <3>3, <3>4, Zenon
  <2>2. CASE q \in PlacesIn("received", rec2, m)
    <3>1. PICK c, i : c \in Channels /\ i \in DOMAIN rec2[c] /\ q = <<"received", c, i>> /\ rec2[c][i] = m
      BY <2>2, InPlacesIn
    <3>2. MovedSeq(inb[c], rec[c], inb2[c], rec2[c], n[c])
      BY <3>1
    <3>3. CASE i <= Len(rec[c])
      <4>1. i \in DOMAIN rec[c] /\ rec[c][i] = m
        BY <1>1, <3>1, <3>2, <3>3 DEF MovedSeq
      <4> QED BY <1>3, <3>1, <4>1, Zenon
    <3>4. CASE ~(i <= Len(rec[c]))
      <4> DEFINE j == i - Len(rec[c])
      <4>1. /\ j \in DOMAIN inb[c] /\ j <= n[c] /\ j \in 1..n[c] /\ Len(rec[c]) + j = i
        <5>1. /\ Len(rec2[c]) = Len(rec[c]) + n[c] /\ n[c] <= Len(inb[c])
              /\ i \in 1..Len(rec2[c])
          BY <1>1, <3>1, <3>2, Zenon DEF MovedSeq
        <5>2. j \in 1..Len(inb[c]) /\ j <= n[c] /\ j \in 1..n[c] /\ Len(rec[c]) + j = i
          <6>1. Len(rec[c]) \in Nat /\ Len(inb[c]) \in Nat /\ Len(rec2[c]) \in Nat /\ n[c] \in Nat
            BY <1>1, <3>1
          <6> QED BY <3>4, <5>1, <6>1
        <5> QED BY <1>1, <3>1, <5>2, Zenon
      <4> HIDE DEF j
      <4>2. inb[c][j] = m
        BY <3>1, <3>2, <4>1 DEF MovedSeq
      <4>3. /\ <<"inbox", c, j>> \in A
            /\ f[<<"inbox", c, j>>] = <<"received", c, Len(rec[c]) + j>>
        BY <1>2, <3>1, <4>1, <4>2, Zenon
      <4> QED BY <3>1, <4>1, <4>3, Zenon
    <3> QED BY <3>3, <3>4
  <2>3. CASE q \in held
    BY <1>4, <2>3, Zenon
  <2> QED BY <1>6, <2>1, <2>2, <2>3, Zenon DEF PlacesOf
<1>7. IsImage(A, B, f)
  BY <1>5, <1>6, Zenon DEF IsImage
<1> HIDE DEF f, A, B
<1>8. AsMany(A, B)
  BY <1>7, ImageAsMany, Zenon
<1> QED BY <1>8 DEF A, B

\* An execution that takes the oldest message of a received queue changes its place only.
LEMMA TakePlaces ==
  ASSUME NEW inb, NEW rec \in [Channels -> Seq(Messages)], NEW c \in Channels, rec[c] # << >>,
         NEW m, NEW held, \A p \in held : p[1] = "held", NEW h, h[1] = "held",
         NEW held2, Head(rec[c]) = m => held2 = held \cup {h}, Head(rec[c]) # m => held2 = held
  PROVE  AsMany(PlacesOf(inb, rec, held, m),
                PlacesOf(inb, [rec EXCEPT ![c] = Tail(@)], held2, m))
<1> DEFINE rec2 == [rec EXCEPT ![c] = Tail(@)]
           A == PlacesOf(inb, rec, held, m)
           B == PlacesOf(inb, rec2, held2, m)
           f == [p \in A |->
                   IF p[1] = "received" /\ p[2] = c
                   THEN IF p[3] = 1 THEN h ELSE <<"received", c, p[3] - 1>>
                   ELSE p]
<1>1. rec[c] \in Seq(Messages) /\ rec2[c] = Tail(rec[c])
  OBVIOUS
<1>2. \A d \in Channels : d # c => rec2[d] = rec[d]
  OBVIOUS
<1>3. /\ 1 \in DOMAIN rec[c] /\ rec[c][1] = Head(rec[c])
      /\ \A i \in DOMAIN rec[c] : i # 1 => i - 1 \in DOMAIN rec2[c] /\ rec2[c][i - 1] = rec[c][i]
      /\ \A i \in DOMAIN rec2[c] : /\ i + 1 \in DOMAIN rec[c] /\ rec2[c][i] = rec[c][i + 1]
                                   /\ i + 1 # 1 /\ (i + 1) - 1 = i
  <2> HIDE DEF rec2
  <2> QED BY <1>1
<1> HIDE DEF rec2
<1>4. ASSUME NEW i \in DOMAIN rec[c], rec[c][i] = m
      PROVE  /\ <<"received", c, i>> \in A
             /\ i = 1 => f[<<"received", c, i>>] = h /\ h \in B
             /\ i # 1 => /\ f[<<"received", c, i>>] = <<"received", c, i - 1>>
                         /\ <<"received", c, i - 1>> \in B
  <2>1. <<"received", c, i>> \in A
    BY <1>4, InPlacesIn DEF PlacesOf
  <2>2. CASE i = 1
    <3>1. h \in B
      BY <1>3, <1>4, <2>2 DEF PlacesOf
    <3>2. f[<<"received", c, i>>] = h
      BY <2>1, <2>2, Zenon
    <3> QED BY <2>1, <2>2, <3>1, <3>2, Zenon
  <2>3. CASE i # 1
    <3>1. i - 1 \in DOMAIN rec2[c] /\ rec2[c][i - 1] = m
      BY <1>3, <1>4, <2>3, Zenon
    <3>2. <<"received", c, i - 1>> \in B
      BY <3>1, InPlacesIn DEF PlacesOf
    <3>3. f[<<"received", c, i>>] = <<"received", c, i - 1>>
      BY <2>1, <2>3, Zenon
    <3> QED BY <2>1, <2>3, <3>2, <3>3, Zenon
  <2> QED BY <2>2, <2>3, Zenon
<1>5. ASSUME NEW d \in Channels, NEW i \in DOMAIN rec[d], rec[d][i] = m, d # c
      PROVE  /\ <<"received", d, i>> \in A /\ f[<<"received", d, i>>] = <<"received", d, i>>
             /\ <<"received", d, i>> \in B
  <2>1. <<"received", d, i>> \in A
    BY <1>5, InPlacesIn DEF PlacesOf
  <2>2. i \in DOMAIN rec2[d] /\ rec2[d][i] = m
    BY <1>2, <1>5, Zenon
  <2>3. <<"received", d, i>> \in B
    BY <2>2, InPlacesIn DEF PlacesOf
  <2>4. f[<<"received", d, i>>] = <<"received", d, i>>
    BY <1>5, <2>1, Zenon
  <2> QED BY <2>1, <2>3, <2>4
<1>6. ASSUME NEW p \in PlacesIn("inbox", inb, m) PROVE p \in A /\ p \in B /\ f[p] = p
  <2>1. p \in A /\ p \in B
    BY <1>6 DEF PlacesOf
  <2>2. PICK d, i : p = <<"inbox", d, i>>
    BY <1>6, InPlacesIn
  <2>3. p[1] # "received"
    BY <2>2
  <2> QED BY <2>1, <2>3, Zenon
<1>7. ASSUME NEW p \in held PROVE p \in A /\ p \in B /\ f[p] = p
  <2>1. p \in A /\ p \in B /\ p[1] # "received"
    BY <1>7 DEF PlacesOf
  <2> QED BY <2>1, Zenon
<1>8. ASSUME NEW p \in A PROVE f[p] \in B
  <2>1. CASE p \in PlacesIn("received", rec, m)
    <3>1. PICK d, i : d \in Channels /\ i \in DOMAIN rec[d] /\ p = <<"received", d, i>> /\ rec[d][i] = m
      BY <2>1, InPlacesIn
    <3>2. CASE d = c
      BY <1>4, <3>1, <3>2, Zenon
    <3>3. CASE d # c
      BY <1>5, <3>1, <3>3, Zenon
    <3> QED BY <3>2, <3>3
  <2> QED BY <1>6, <1>7, <1>8, <2>1, Zenon DEF PlacesOf
<1>9. ASSUME NEW q \in B PROVE \E p \in A : q = f[p]
  <2>1. CASE q \in PlacesIn("received", rec2, m)
    <3>1. PICK d, i : d \in Channels /\ i \in DOMAIN rec2[d] /\ q = <<"received", d, i>> /\ rec2[d][i] = m
      BY <2>1, InPlacesIn
    <3>2. CASE d = c
      <4>1. i + 1 \in DOMAIN rec[c] /\ rec[c][i + 1] = m /\ i + 1 # 1 /\ (i + 1) - 1 = i
        BY <1>3, <3>1, <3>2, Zenon
      <4>2. /\ <<"received", c, i + 1>> \in A
            /\ f[<<"received", c, i + 1>>] = <<"received", c, (i + 1) - 1>>
        BY <1>4, <4>1, Zenon
      <4> QED BY <3>1, <3>2, <4>1, <4>2, Zenon
    <3>3. CASE d # c
      <4>1. i \in DOMAIN rec[d] /\ rec[d][i] = m
        BY <1>2, <3>1, <3>3, Zenon
      <4> QED BY <1>5, <3>1, <3>3, <4>1, Zenon
    <3> QED BY <3>2, <3>3
  <2>2. CASE q \in held2 /\ q \notin held
    <3>1. Head(rec[c]) = m /\ q = h
      BY <2>2, Zenon
    <3>2. rec[c][1] = m /\ 1 \in DOMAIN rec[c]
      BY <1>3, <3>1, Zenon
    <3> QED BY <1>4, <3>1, <3>2, ZenonT(60)
  <2> QED BY <1>6, <1>7, <1>9, <2>1, <2>2, Zenon DEF PlacesOf
<1>10. IsImage(A, B, f)
  BY <1>8, <1>9, Zenon DEF IsImage
<1> HIDE DEF f, A, B
<1>11. AsMany(A, B)
  BY <1>10, ImageAsMany, Zenon
<1> QED BY <1>11 DEF A, B, rec2

\* Execution e keeps m as the result of its command i.
KeepsAt(holders, completed, values, m, e, i) ==
  e \in holders /\ i \in completed[e] /\ values[e][i] = m

SameKept(h1, c1, v1, h2, c2, v2, m) ==
  \A e, i : KeepsAt(h1, c1, v1, m, e, i) <=> KeepsAt(h2, c2, v2, m, e, i)
OneMoreKept(h, c1, v1, c2, v2, m, e0, i0) ==
  \A e, i : KeepsAt(h, c2, v2, m, e, i) <=> (KeepsAt(h, c1, v1, m, e, i) \/ (e = e0 /\ i = i0))

\* The places depend only on who keeps what.
LEMMA SameHeld ==
  ASSUME NEW h1, NEW c1, NEW v1, NEW h2, NEW c2, NEW v2, NEW m,
         SameKept(h1, c1, v1, h2, c2, v2, m)
  PROVE  PlacesHeld(h1, c1, v1, m) = PlacesHeld(h2, c2, v2, m)
<1>1. ASSUME NEW p \in PlacesHeld(h1, c1, v1, m) PROVE p \in PlacesHeld(h2, c2, v2, m)
  <2>1. PICK e, i : e \in h1 /\ i \in c1[e] /\ p = <<"held", e, i>> /\ v1[e][i] = m
    BY <1>1, InPlacesHeld
  <2>2. e \in h2 /\ i \in c2[e] /\ v2[e][i] = m
    BY <2>1, Zenon DEF KeepsAt, SameKept, OneMoreKept
  <2> QED BY <2>1, <2>2, InPlacesHeld
<1>2. ASSUME NEW p \in PlacesHeld(h2, c2, v2, m) PROVE p \in PlacesHeld(h1, c1, v1, m)
  <2>1. PICK e, i : e \in h2 /\ i \in c2[e] /\ p = <<"held", e, i>> /\ v2[e][i] = m
    BY <1>2, InPlacesHeld
  <2>2. e \in h1 /\ i \in c1[e] /\ v1[e][i] = m
    BY <2>1, Zenon DEF KeepsAt, SameKept, OneMoreKept
  <2> QED BY <2>1, <2>2, InPlacesHeld
<1> QED BY <1>1, <1>2, Zenon

\* One more result is one more place.
LEMMA OneMoreHeld ==
  ASSUME NEW h1, NEW c1, NEW v1, NEW c2, NEW v2, NEW m, NEW e0 \in h1, NEW i0,
         OneMoreKept(h1, c1, v1, c2, v2, m, e0, i0)
  PROVE  PlacesHeld(h1, c2, v2, m) = PlacesHeld(h1, c1, v1, m) \cup {<<"held", e0, i0>>}
<1>1. ASSUME NEW p \in PlacesHeld(h1, c2, v2, m)
      PROVE  p \in PlacesHeld(h1, c1, v1, m) \cup {<<"held", e0, i0>>}
  <2>1. PICK e, i : e \in h1 /\ i \in c2[e] /\ p = <<"held", e, i>> /\ v2[e][i] = m
    BY <1>1, InPlacesHeld
  <2>2. (e \in h1 /\ i \in c1[e] /\ v1[e][i] = m) \/ (e = e0 /\ i = i0)
    BY <2>1, Zenon DEF KeepsAt, SameKept, OneMoreKept
  <2>3. CASE e = e0 /\ i = i0
    BY <2>1, <2>3, Zenon
  <2>4. CASE e \in h1 /\ i \in c1[e] /\ v1[e][i] = m
    BY <2>1, <2>4, InPlacesHeld
  <2> QED BY <2>2, <2>3, <2>4
<1>2. ASSUME NEW p \in PlacesHeld(h1, c1, v1, m) PROVE p \in PlacesHeld(h1, c2, v2, m)
  <2>1. PICK e, i : e \in h1 /\ i \in c1[e] /\ p = <<"held", e, i>> /\ v1[e][i] = m
    BY <1>2, InPlacesHeld
  <2>2. e \in h1 /\ i \in c2[e] /\ v2[e][i] = m
    BY <2>1, Zenon DEF KeepsAt, SameKept, OneMoreKept
  <2> QED BY <2>1, <2>2, InPlacesHeld
<1>3. <<"held", e0, i0>> \in PlacesHeld(h1, c2, v2, m)
  <2>1. e0 \in h1 /\ i0 \in c2[e0] /\ v2[e0][i0] = m
    BY Zenon DEF KeepsAt, SameKept, OneMoreKept
  <2> QED BY <2>1, InPlacesHeld
<1> QED BY <1>1, <1>2, <1>3, Zenon

-----------------------------------------------------------------------------
(* Part 4: messages *)

Held(m)   == PlacesHeld(Holders, completedCmds, cmdValues, m)
Places(m) == PlacesOf(inbox, received, Held(m), m)

\* A message that was sent is in one place and not delivered, or in none and delivered;
\* one that was not sent yet is nowhere.
Accounted(m) ==
  \/ m < nextMsg /\ Places(m) = {} /\ delivered[m] = 1
  \/ m < nextMsg /\ (\E p : Places(m) = {p}) /\ delivered[m] = 0
  \/ ~(m < nextMsg) /\ Places(m) = {} /\ delivered[m] = 0
MessagesOK == ~errToFailWf => \A m \in Messages : Accounted(m)

\* A command thread belongs to a waiting execution and its command has no result yet,
\* so that no result is overwritten.
CommandThreadsOK ==
  \A e \in ExeIds :
    /\ \A i \in cmdThreads[e] : i \notin completedCmds[e]
    /\ cmdThreads[e] # {} => thread[e] \in {"waiting", "draining"}

\* The inductive invariant, together with TypeInv and LifeInv.
MessageInv == MessagesOK /\ CommandThreadsOK

\* It implies the property.
LEMMA AccountedConserved == TypeInv /\ MessageInv => MessagesConserved
<1> SUFFICES ASSUME TypeInv, MessageInv, ~errToFailWf, NEW m \in 1..(nextMsg - 1)
             PROVE  Copies(m) = 1
  BY DEF MessagesConserved
<1>1. m \in Messages /\ m < nextMsg
  BY BoundsAssumption DEF TypeInv, TypeOK, Messages
<1>2. Copies(m) = Cardinality(Places(m)) + delivered[m]
  <2> DEFINE I == UNION {{<<"inbox", c, i>> : i \in {j \in DOMAIN inbox[c] : inbox[c][j] = m}}
                           : c \in Channels}
             R == UNION {{<<"received", c, i>> : i \in {j \in DOMAIN received[c] : received[c][j] = m}}
                           : c \in Channels}
             H == UNION {{<<"held", e, i>> : i \in {j \in completedCmds[e] : cmdValues[e][j] = m}}
                           : e \in Holders}
  <2>1. PlacesIn("inbox", inbox, m) = I /\ PlacesIn("received", received, m) = R
    BY DEF PlacesIn
  <2>2. Held(m) = H
    BY DEF Held, PlacesHeld
  <2>3. Copies(m) = Cardinality(I \cup R \cup H) + delivered[m]
    BY DEF Copies
  <2> HIDE DEF I, R, H
  <2>4. Places(m) = I \cup R \cup H
    BY <2>1, <2>2 DEF Places, PlacesOf
  <2> QED BY <2>3, <2>4
<1>3. Accounted(m)
  BY <1>1 DEF MessageInv, MessagesOK
<1>4. CASE Places(m) = {} /\ delivered[m] = 1
  BY <1>2, <1>4, FS_EmptySet
<1>5. CASE (\E p : Places(m) = {p}) /\ delivered[m] = 0
  <2>1. PICK p : Places(m) = {p}
    BY <1>5
  <2>2. Cardinality({p}) = 1
    BY FS_Singleton
  <2> QED BY <1>2, <1>5, <2>1, <2>2
<1> QED BY <1>1, <1>3, <1>4, <1>5 DEF Accounted

\* Nothing has been sent.
LEMMA InitMessages == Init => MessageInv
<1> SUFFICES ASSUME Init PROVE MessageInv
  OBVIOUS
<1>1. CommandThreadsOK
  BY DEF Init, CommandThreadsOK
<1>2. ASSUME NEW m \in Messages PROVE Accounted(m)
  <2>1. Holders = {}
    BY DEF Init, Holders
  <2>2. Held(m) = {}
    BY <2>1 DEF Held, PlacesHeld
  <2>3. \A c \in Channels : DOMAIN inbox[c] = {} /\ DOMAIN received[c] = {}
    BY DEF Init, EmptyInbox
  <2>4. PlacesIn("inbox", inbox, m) = {} /\ PlacesIn("received", received, m) = {}
    BY <2>3, InPlacesIn, Zenon
  <2>5. Places(m) = {}
    BY <2>2, <2>4, Zenon DEF Places, PlacesOf
  <2>6. delivered[m] = 0 /\ ~(m < nextMsg)
    BY <1>2 DEF Init, Messages
  <2> QED BY <2>5, <2>6, Zenon DEF Accounted
<1> QED BY <1>1, <1>2 DEF MessageInv, MessagesOK

\* The places of held messages are told apart by their kind.
LEMMA HeldKind == ASSUME NEW m PROVE \A p \in Held(m) : p[1] = "held"
<1> SUFFICES ASSUME NEW p \in Held(m) PROVE p[1] = "held"
  OBVIOUS
<1>1. PICK e, i : p = <<"held", e, i>>
  BY InPlacesHeld DEF Held
<1> QED BY <1>1

\* A step that sends nothing and delivers nothing preserves the invariant if it leaves as
\* many places.
LEMMA MovedAccounted ==
  ASSUME MessagesOK, ~errToFailWf' => ~errToFailWf,
         UNCHANGED <<nextMsg, delivered>>, \A m \in Messages : AsMany(Places(m), Places(m)')
  PROVE  MessagesOK'
<1> SUFFICES ASSUME ~errToFailWf, NEW m \in Messages PROVE Accounted(m)'
  BY DEF MessagesOK
<1>1. Accounted(m)
  BY DEF MessagesOK
<1>2. AsMany(Places(m), Places(m)')
  OBVIOUS
<1>3. CASE Places(m) = {}
  <2>1. Places(m)' = {}
    BY <1>2, <1>3, Zenon DEF AsMany
  <2>2. ~ \E p : Places(m) = {p}
    BY <1>3
  <2> QED BY <1>1, <1>3, <2>1, <2>2, Zenon DEF Accounted
<1>4. CASE Places(m) # {}
  <2>1. m < nextMsg /\ (\E p : Places(m) = {p}) /\ delivered[m] = 0
    BY <1>1, <1>4, Zenon DEF Accounted
  <2>2. \E q : Places(m)' = {q}
    BY <1>2, <2>1, Zenon DEF AsMany
  <2> QED BY <2>1, <2>2, Zenon DEF Accounted
<1> QED BY <1>3, <1>4

\* A step that sends one message preserves it if the message is in one place.
LEMMA SentAccounted ==
  ASSUME TypeInv, MessagesOK, ~errToFailWf' => ~errToFailWf,
         nextMsg' = nextMsg + 1, UNCHANGED delivered, NEW x \in Messages, x = nextMsg,
         \A m \in Messages : m # x => AsMany(Places(m), Places(m)'),
         ~errToFailWf => \E q : Places(x)' = {q}
  PROVE  MessagesOK'
<1> SUFFICES ASSUME ~errToFailWf, NEW m \in Messages PROVE Accounted(m)'
  BY DEF MessagesOK
<1>1. Accounted(m)
  BY DEF MessagesOK
<1>2. nextMsg \in Nat /\ m \in Nat
  BY BoundsAssumption DEF TypeInv, TypeOK, Messages
<1>3. CASE m = x
  <2>1. ~(m < nextMsg) /\ m < nextMsg'
    BY <1>2, <1>3
  <2>2. delivered[m] = 0 /\ delivered'[m] = 0
    BY <1>1, <2>1, Zenon DEF Accounted
  <2>3. \E q : Places(m)' = {q}
    BY <1>3
  <2> QED BY <2>1, <2>2, <2>3, Zenon DEF Accounted
<1>4. CASE m # x
  <2>0. (m < nextMsg) <=> (m < nextMsg')
    BY <1>2, <1>4
  <2>1. AsMany(Places(m), Places(m)')
    BY <1>4
  <2>2. CASE Places(m) = {}
    <3>1. Places(m)' = {}
      BY <2>1, <2>2, Zenon DEF AsMany
    <3>2. ~ \E p : Places(m) = {p}
      BY <2>2
    <3> QED BY <1>1, <2>0, <2>2, <3>1, <3>2, Zenon DEF Accounted
  <2>3. CASE Places(m) # {}
    <3>1. m < nextMsg /\ (\E p : Places(m) = {p}) /\ delivered[m] = 0
      BY <1>1, <2>3, Zenon DEF Accounted
    <3>2. \E q : Places(m)' = {q}
      BY <2>1, <3>1, Zenon DEF AsMany
    <3> QED BY <2>0, <3>1, <3>2, Zenon DEF Accounted
  <2> QED BY <2>2, <2>3
<1> QED BY <1>3, <1>4

\* The two ways to send a message: into a received queue,
LEMMA PublishedPlaces ==
  ASSUME TypeInv, MessagesOK, ~errToFailWf, NEW c \in Channels, nextMsg \in Messages,
         NEW m \in Messages
  PROVE  LET P == PlacesOf(inbox, Appended(received, c, nextMsg), Held(m), m)
         IN  (m # nextMsg => P = Places(m)) /\ (m = nextMsg => \E q : P = {q})
<1> DEFINE P == PlacesOf(inbox, Appended(received, c, nextMsg), Held(m), m)
           q == <<"received", c, Len(received[c]) + 1>>
<1>0. received \in [Channels -> Seq(Messages)] /\ nextMsg \in Nat
  BY BoundsAssumption DEF TypeInv, TypeOK
<1>1. m # nextMsg => P = Places(m)
  <2>1. AppendsPlace("received", received, c, nextMsg, m)
    BY <1>0, AppendPlaces
  <2> QED BY <2>1, Zenon DEF Places, PlacesOf, AppendsPlace
<1>2. m = nextMsg => P = Places(m) \cup {q}
  <2>1. AppendsPlace("received", received, c, nextMsg, m)
    BY <1>0, AppendPlaces
  <2>2. m = nextMsg => PlacesIn("received", Appended(received, c, nextMsg), m)
                         = PlacesIn("received", received, m) \cup {q}
    BY <2>1, Zenon DEF AppendsPlace
  <2> HIDE DEF q
  <2> QED BY <2>2 DEF Places, PlacesOf
<1>3. m = nextMsg => Places(m) = {}
  <2>1. m = nextMsg => ~(m < nextMsg)
    BY <1>0
  <2> QED BY <2>1, Zenon DEF MessagesOK, Accounted
<1>4. m = nextMsg => P = {q}
  <2> HIDE DEF P, q
  <2> QED BY <1>2, <1>3
<1> QED BY <1>1, <1>4, Zenon

\* and into an inbox.
LEMMA SignalledPlaces ==
  ASSUME TypeInv, MessagesOK, ~errToFailWf, NEW c \in Channels, nextMsg \in Messages,
         NEW m \in Messages
  PROVE  LET P == PlacesOf(Appended(inbox, c, nextMsg), received, Held(m), m)
         IN  (m # nextMsg => P = Places(m)) /\ (m = nextMsg => \E q : P = {q})
<1> DEFINE P == PlacesOf(Appended(inbox, c, nextMsg), received, Held(m), m)
           q == <<"inbox", c, Len(inbox[c]) + 1>>
<1>0. inbox \in [Channels -> Seq(Messages)] /\ nextMsg \in Nat
  BY BoundsAssumption DEF TypeInv, TypeOK
<1>1. m # nextMsg => P = Places(m)
  <2>1. AppendsPlace("inbox", inbox, c, nextMsg, m)
    BY <1>0, AppendPlaces
  <2> QED BY <2>1, Zenon DEF Places, PlacesOf, AppendsPlace
<1>2. m = nextMsg => P = Places(m) \cup {q}
  <2>1. AppendsPlace("inbox", inbox, c, nextMsg, m)
    BY <1>0, AppendPlaces
  <2>2. m = nextMsg => PlacesIn("inbox", Appended(inbox, c, nextMsg), m)
                         = PlacesIn("inbox", inbox, m) \cup {q}
    BY <2>1, Zenon DEF AppendsPlace
  <2> HIDE DEF q
  <2> QED BY <2>2 DEF Places, PlacesOf
<1>3. m = nextMsg => Places(m) = {}
  <2>1. m = nextMsg => ~(m < nextMsg)
    BY <1>0
  <2> QED BY <2>1, Zenon DEF MessagesOK, Accounted
<1>4. m = nextMsg => P = {q}
  <2> HIDE DEF P, q
  <2> QED BY <1>2, <1>3
<1> QED BY <1>1, <1>4, Zenon

\* A set has as many elements as itself.
LEMMA AsManySame == ASSUME NEW A, NEW B, A = B PROVE AsMany(A, B)
  BY Zenon DEF AsMany

\* Nothing happens to the messages.
LEMMA UntouchedMessages ==
  ASSUME MessagesOK, ~errToFailWf' => ~errToFailWf, UNCHANGED <<inbox, received, nextMsg, delivered>>,
         \A m \in Messages : Held(m)' = Held(m)
  PROVE  MessagesOK'
<1>1. \A m \in Messages : Places(m)' = Places(m)
  BY Zenon DEF Places
<1>2. \A m \in Messages : AsMany(Places(m), Places(m)')
  BY <1>1, AsManySame, Zenon
<1> QED BY <1>2, MovedAccounted, Zenon

\* The places in received queues after at most one publication, before anything else.
PublishedTo(pub, m) == PlacesOf(inbox, ProcessPublishing(received, pub), Held(m), m)

\* At most one message is published, and then messages may move.
LEMMA PublishThenMove ==
  ASSUME TypeInv, MessagesOK, ~errToFailWf' => ~errToFailWf, NEW pub \in Publishes,
         AllocateMessage(pub), UNCHANGED delivered,
         \A m \in Messages : AsMany(PublishedTo(pub, m), Places(m)')
  PROVE  MessagesOK'
<1>1. CASE pub = NoChannel
  <2>1. \A m \in Messages : PublishedTo(pub, m) = Places(m)
    BY <1>1, Zenon DEF PublishedTo, ProcessPublishing, Places
  <2>2. \A m \in Messages : AsMany(Places(m), Places(m)')
    BY <2>1, Zenon
  <2>3. nextMsg' = nextMsg
    BY <1>1 DEF AllocateMessage
  <2> QED BY <2>2, <2>3, MovedAccounted, Zenon
<1>2. CASE pub # NoChannel
  <2> SUFFICES ASSUME ~errToFailWf PROVE MessagesOK'
    BY Zenon DEF MessagesOK
  <2>1. pub \in Channels /\ nextMsg \in Messages /\ nextMsg' = nextMsg + 1
    BY <1>2, BoundsAssumption DEF Publishes, Channels, AllocateMessage, TypeInv, TypeOK, Messages
  <2>2. \A m \in Messages : PublishedTo(pub, m)
                              = PlacesOf(inbox, Appended(received, pub, nextMsg), Held(m), m)
    BY <1>2, Zenon DEF PublishedTo, ProcessPublishing, Appended
  <2>3. ASSUME NEW m \in Messages, m # nextMsg PROVE AsMany(Places(m), Places(m)')
    <3>1. PublishedTo(pub, m) = Places(m)
      BY <2>1, <2>2, <2>3, PublishedPlaces, Zenon
    <3> QED BY <3>1, Zenon
  <2>4. PICK x \in Messages : x = nextMsg
    BY <2>1
  <2>5. \E q : Places(x)' = {q}
    <3>1. \E q : PublishedTo(pub, x) = {q}
      <4>1. x = nextMsg => \E q : PlacesOf(inbox, Appended(received, pub, nextMsg), Held(x), x) = {q}
        BY <2>1, PublishedPlaces, Zenon
      <4>2. PublishedTo(pub, x) = PlacesOf(inbox, Appended(received, pub, nextMsg), Held(x), x)
        BY <2>2, <2>4, Zenon
      <4> QED BY <2>4, <4>1, <4>2, Zenon
    <3>2. AsMany(PublishedTo(pub, x), Places(x)')
      BY <2>4
    <3> QED BY <3>1, <3>2, Zenon DEF AsMany
  <2>6. \A m \in Messages : m # x => AsMany(Places(m), Places(m)')
    BY <2>3, <2>4, Zenon
  <2> QED BY <2>1, <2>4, <2>5, <2>6, SentAccounted, Zenon
<1> QED BY <1>1, <1>2

\* At most one message is published and nothing else happens to the messages.
LEMMA PublishOnly ==
  ASSUME TypeInv, MessagesOK, ~errToFailWf' => ~errToFailWf, NEW pub \in Publishes,
         AllocateMessage(pub), received' = ProcessPublishing(received, pub),
         UNCHANGED <<inbox, delivered>>, \A m \in Messages : Held(m)' = Held(m)
  PROVE  MessagesOK'
<1>1. \A m \in Messages : PublishedTo(pub, m) = Places(m)'
  BY Zenon DEF PublishedTo, Places
<1>2. \A m \in Messages : AsMany(PublishedTo(pub, m), Places(m)')
  BY <1>1, AsManySame, Zenon
<1> QED BY <1>2, PublishThenMove, Zenon

\* All messages move,
LEMMA MovedAll ==
  ASSUME NEW S, NEW q \in Seq(S), NEW r \in Seq(S)
  PROVE  MovedSeq(q, r, << >>, r \o q, Len(q))
<1>1. Len(q) \in Nat /\ Len(r) \in Nat /\ Len(r \o q) = Len(r) + Len(q)
  OBVIOUS
<1>2. \A i \in 1..Len(r) : (r \o q)[i] = r[i]
  OBVIOUS
<1>3. \A i \in 1..Len(q) : (r \o q)[Len(r) + i] = q[i]
  <2> SUFFICES ASSUME NEW i \in 1..Len(q) PROVE (r \o q)[Len(r) + i] = q[i]
    OBVIOUS
  <2>1. Len(r) + i \in 1..(Len(r) + Len(q)) /\ ~(Len(r) + i <= Len(r)) /\ (Len(r) + i) - Len(r) = i
    BY <1>1
  <2> QED BY <2>1
<1>4. Len(<< >>) = 0 /\ 1..0 = {}
  OBVIOUS
<1>5. Len(q) <= Len(q) /\ 0 = Len(q) - Len(q)
  BY <1>1
<1> QED BY <1>1, <1>2, <1>3, <1>4, <1>5, Zenon DEF MovedSeq

\* the oldest one moves,
LEMMA MovedFirst ==
  ASSUME NEW S, NEW q \in Seq(S), NEW r \in Seq(S), q # << >>
  PROVE  MovedSeq(q, r, Tail(q), r \o <<Head(q)>>, 1)
<1>1. /\ Len(q) \in Nat /\ Len(q) >= 1 /\ Len(r) \in Nat /\ Head(q) = q[1] /\ Head(q) \in S
      /\ Len(Tail(q)) = Len(q) - 1
  OBVIOUS
<1>2. \A i \in 1..(Len(q) - 1) : Tail(q)[i] = q[i + 1]
  BY <1>1
<1>3. \A i \in 1..Len(Tail(q)) : Tail(q)[i] = q[1 + i]
  <2>1. \A i \in 1..(Len(q) - 1) : i + 1 = 1 + i
    BY <1>1
  <2> QED BY <1>1, <1>2, <2>1, Zenon
<1>4. <<Head(q)>> \in Seq(S) /\ Len(<<Head(q)>>) = 1 /\ <<Head(q)>>[1] = q[1]
  BY <1>1
<1>5. /\ Len(r \o <<Head(q)>>) = Len(r) + 1
      /\ \A i \in 1..Len(r) : (r \o <<Head(q)>>)[i] = r[i]
      /\ (r \o <<Head(q)>>)[Len(r) + 1] = q[1]
  BY <1>1, <1>4
<1>6. \A i \in 1..1 : (r \o <<Head(q)>>)[Len(r) + i] = q[i]
  BY <1>5
<1>7. 1 <= Len(q)
  BY <1>1
<1> QED BY <1>1, <1>3, <1>5, <1>6, <1>7, Zenon DEF MovedSeq

\* or none does.
LEMMA MovedNone ==
  ASSUME NEW S, NEW q \in Seq(S), NEW r \in Seq(S)
  PROVE  MovedSeq(q, r, q, r, 0)
<1>1. /\ Len(q) \in Nat /\ Len(r) \in Nat /\ 0 <= Len(q) /\ Len(q) = Len(q) - 0
      /\ Len(r) = Len(r) + 0 /\ 1..0 = {}
  OBVIOUS
<1>2. \A i \in 1..Len(q) : 0 + i = i
  BY <1>1
<1> QED BY <1>1, <1>2, Zenon DEF MovedSeq

\* At most one message is published, and then everything the engine holds is received.
LEMMA PublishThenDrain ==
  ASSUME TypeInv, MessagesOK, ~errToFailWf' => ~errToFailWf, NEW pub \in Publishes,
         AllocateMessage(pub),
         DrainAllReceivedButUnprocessedSignals(ProcessPublishing(received, pub)),
         UNCHANGED delivered, \A m \in Messages : Held(m)' = Held(m)
  PROVE  MessagesOK'
<1> DEFINE rec == ProcessPublishing(received, pub)
           n == [c \in Channels |-> Len(inbox[c])]
<1>1. rec \in [Channels -> Seq(Messages)] /\ inbox \in [Channels -> Seq(Messages)]
  BY PublishType DEF TypeInv, TypeOK
<1>2. received' \in [Channels -> Seq(Messages)] /\ inbox' \in [Channels -> Seq(Messages)]
  <2>1. TypeOK
    BY DEF TypeInv
  <2> QED BY <1>1, <2>1, DrainType, Zenon
<1>3. /\ received' = [c \in Channels |-> rec[c] \o inbox[c]] /\ inbox' = [c \in Channels |-> << >>]
  BY DEF DrainAllReceivedButUnprocessedSignals, DrainedReceived, EmptyInbox
<1> HIDE DEF rec
<1>4. n \in [Channels -> Nat]
  BY <1>1
<1>5. ASSUME NEW c \in Channels PROVE MovedSeq(inbox[c], rec[c], inbox'[c], received'[c], n[c])
  <2>1. inbox[c] \in Seq(Messages) /\ rec[c] \in Seq(Messages) /\ n[c] = Len(inbox[c])
    BY <1>1
  <2>2. received'[c] = rec[c] \o inbox[c] /\ inbox'[c] = << >>
    BY <1>3
  <2>3. MovedSeq(inbox[c], rec[c], << >>, rec[c] \o inbox[c], Len(inbox[c]))
    BY <2>1, MovedAll, Zenon
  <2> QED BY <2>1, <2>2, <2>3, Zenon
<1> HIDE DEF n
<1>6. ASSUME NEW m \in Messages PROVE AsMany(PublishedTo(pub, m), Places(m)')
  <2>1. AsMany(PlacesOf(inbox, rec, Held(m), m), PlacesOf(inbox', received', Held(m), m))
    BY <1>1, <1>2, <1>4, <1>5, HeldKind, MovePlaces, Zenon
  <2>2. Places(m)' = PlacesOf(inbox', received', Held(m), m)
    BY Zenon DEF Places
  <2> QED BY <2>1, <2>2, Zenon DEF PublishedTo, rec
<1> QED BY <1>6, PublishThenMove, Zenon

\* Messages move from the inboxes to the received queues.
LEMMA MoveOnly ==
  ASSUME TypeInv, TypeInv', MessagesOK, ~errToFailWf' => ~errToFailWf, NEW n \in [Channels -> Nat],
         \A c \in Channels : MovedSeq(inbox[c], received[c], inbox'[c], received'[c], n[c]),
         UNCHANGED <<nextMsg, delivered>>, \A m \in Messages : Held(m)' = Held(m)
  PROVE  MessagesOK'
<1>1. /\ inbox \in [Channels -> Seq(Messages)] /\ inbox' \in [Channels -> Seq(Messages)]
      /\ received \in [Channels -> Seq(Messages)] /\ received' \in [Channels -> Seq(Messages)]
  BY Zenon DEF TypeInv, TypeOK
<1>2. ASSUME NEW m \in Messages PROVE AsMany(Places(m), Places(m)')
  <2>1. AsMany(PlacesOf(inbox, received, Held(m), m), PlacesOf(inbox', received', Held(m), m))
    BY <1>1, HeldKind, MovePlaces, Zenon
  <2>2. Places(m)' = PlacesOf(inbox', received', Held(m), m)
    BY Zenon DEF Places
  <2> QED BY <2>1, <2>2, Zenon DEF Places
<1> QED BY <1>2, MovedAccounted, Zenon

\* A message is sent to an inbox.
LEMMA SignalOnly ==
  ASSUME TypeInv, MessagesOK, ~errToFailWf' => ~errToFailWf, NEW c \in Channels,
         nextMsg <= MaxMessages, inbox' = Appended(inbox, c, nextMsg), nextMsg' = nextMsg + 1,
         UNCHANGED <<received, delivered>>, \A m \in Messages : Held(m)' = Held(m)
  PROVE  MessagesOK'
<1> SUFFICES ASSUME ~errToFailWf PROVE MessagesOK'
  BY Zenon DEF MessagesOK
<1>1. nextMsg \in Messages
  BY BoundsAssumption DEF TypeInv, TypeOK, Messages
<1>2. \A m \in Messages : Places(m)' = PlacesOf(Appended(inbox, c, nextMsg), received, Held(m), m)
  BY Zenon DEF Places
<1>3. ASSUME NEW m \in Messages, m # nextMsg PROVE AsMany(Places(m), Places(m)')
  <2>1. Places(m)' = Places(m)
    BY <1>1, <1>2, <1>3, SignalledPlaces, Zenon
  <2> QED BY <2>1, AsManySame, Zenon
<1>4. PICK x \in Messages : x = nextMsg
  BY <1>1
<1>5. \E q : Places(x)' = {q}
  <2>1. x = nextMsg => \E q : PlacesOf(Appended(inbox, c, nextMsg), received, Held(x), x) = {q}
    BY <1>1, SignalledPlaces, Zenon
  <2>2. Places(x)' = PlacesOf(Appended(inbox, c, nextMsg), received, Held(x), x)
    BY <1>2, <1>4, Zenon
  <2> QED BY <1>4, <2>1, <2>2, Zenon
<1>6. \A m \in Messages : m # x => AsMany(Places(m), Places(m)')
  BY <1>3, <1>4, Zenon
<1> QED BY <1>4, <1>5, <1>6, SentAccounted, Zenon

\* The same executions keep the same messages.
LEMMA HeldUnchanged ==
  ASSUME Holders' = Holders, UNCHANGED <<completedCmds, cmdValues>>
  PROVE  \A m \in Messages : Held(m)' = Held(m)
  BY Zenon DEF Held

\* The variables that say who keeps what.
keptVars == <<thread, toResume, resumeQ, completedCmds, cmdValues>>

\* They decide it.
LEMMA KeptUnchanged ==
  ASSUME UNCHANGED keptVars
  PROVE  \A m \in Messages : Held(m)' = Held(m)
<1>1. Holders' = Holders /\ UNCHANGED <<completedCmds, cmdValues>>
  BY DEF keptVars, Holders
<1> QED BY <1>1, HeldUnchanged

\* Signals, RPCs and the threshold preserve the invariant.
LEMMA ClientsMessages == ASSUME TypeInv, MessageInv, Clients PROVE MessageInv'
<1> USE DEF MessageInv, mainVars, queueVars, flagVars, counterVars, threadVars, signalVars, idVars,
            histVars
<1>0. UNCHANGED keptVars /\ UNCHANGED <<cmdThreads, errToFailWf>>
  BY DEF Clients, SignalWorkflow, FailWorkflow, ExecuteRpcSignal, UpdateHandlerStart,
         MeetThreshold, keptVars
<1>1. CommandThreadsOK'
  BY <1>0, Zenon DEF CommandThreadsOK, keptVars
<1>2. \A m \in Messages : Held(m)' = Held(m)
  BY <1>0, KeptUnchanged, Zenon
<1>3. ~errToFailWf' => ~errToFailWf
  BY <1>0, Zenon
<1>4. ASSUME NEW c \in SignalChannels, SignalWorkflow(c) PROVE MessagesOK'
  <2>1. /\ nextMsg <= MaxMessages /\ inbox' = Appended(inbox, c, nextMsg) /\ nextMsg' = nextMsg + 1
        /\ UNCHANGED <<received, delivered>> /\ c \in Channels
    BY <1>4, Zenon DEF SignalWorkflow, Appended, Channels
  <2> QED BY <1>2, <1>3, <2>1, SignalOnly, Zenon
<1>5. CASE FailWorkflow \/ UpdateHandlerStart \/ MeetThreshold
  <2>1. UNCHANGED <<inbox, received, nextMsg, delivered>>
    BY <1>5, Zenon DEF FailWorkflow, UpdateHandlerStart, MeetThreshold
  <2> QED BY <1>1, <1>2, <1>3, <2>1, UntouchedMessages, Zenon
<1>6. ASSUME NEW next \in StateIds \cup {NoState}, NEW pub \in Publishes, ExecuteRpcSignal(next, pub)
      PROVE  MessagesOK'
  <2>1. UNCHANGED <<received, delivered>>
    BY <1>6 DEF ExecuteRpcSignal
  <2>2. CASE pub = NoChannel
    <3>1. UNCHANGED <<inbox, received, nextMsg, delivered>>
      BY <1>6, <2>2 DEF ExecuteRpcSignal, ProcessPublishing, AllocateMessage
    <3> QED BY <1>2, <1>3, <3>1, UntouchedMessages
  <2>3. CASE pub # NoChannel
    <3>1. /\ nextMsg <= MaxMessages /\ inbox' = Appended(inbox, pub, nextMsg)
          /\ nextMsg' = nextMsg + 1 /\ pub \in Channels
      BY <1>6, <2>3, Zenon
      DEF ExecuteRpcSignal, Appended, ProcessPublishing, AllocateMessage, Publishes, Channels
    <3> QED BY <1>2, <1>3, <2>1, <3>1, SignalOnly, Zenon
  <2> QED BY <2>2, <2>3
<1> QED BY <1>1, <1>4, <1>5, <1>6 DEF Clients

\* The update handler preserves it.
LEMMA UpdateHandlerMessages == ASSUME TypeInv, MessageInv, UpdateHandler PROVE MessageInv'
<1> USE DEF MessageInv, mainVars, queueVars, flagVars, counterVars, threadVars, signalVars, idVars,
            histVars
<1>0. UNCHANGED keptVars /\ UNCHANGED <<cmdThreads, errToFailWf>>
  BY DEF UpdateHandler, UpdateHandlerFinish, UpdateHandlerFail, keptVars
<1>1. CommandThreadsOK'
  BY <1>0, Zenon DEF CommandThreadsOK, keptVars
<1>2. \A m \in Messages : Held(m)' = Held(m)
  BY <1>0, KeptUnchanged, Zenon
<1>3. ~errToFailWf' => ~errToFailWf
  BY <1>0, Zenon
<1>4. ASSUME NEW next \in StateIds \cup {NoState}, NEW pub \in Publishes,
             UpdateHandlerFinish(next, pub)
      PROVE  MessagesOK'
  <2>1. /\ received' = ProcessPublishing(received, pub) /\ AllocateMessage(pub)
        /\ UNCHANGED <<inbox, delivered>>
    BY <1>4, Zenon DEF UpdateHandlerFinish
  <2> QED BY <1>2, <1>3, <2>1, PublishOnly, Zenon
<1>5. CASE UpdateHandlerFail
  <2>1. UNCHANGED <<inbox, received, nextMsg, delivered>>
    BY <1>5, Zenon DEF UpdateHandlerFail
  <2> QED BY <1>1, <1>2, <1>3, <2>1, UntouchedMessages, Zenon
<1> QED BY <1>1, <1>4, <1>5 DEF UpdateHandler

\* The signal handlers preserve it.
LEMMA SignalHandlersMessages == ASSUME TypeInv, MessageInv, SignalHandlers PROVE MessageInv'
<1> USE DEF MessageInv, mainVars, queueVars, flagVars, counterVars, threadVars, signalVars, idVars,
            histVars
<1>0. UNCHANGED keptVars /\ UNCHANGED <<cmdThreads, errToFailWf, nextMsg, delivered>>
  BY DEF SignalHandlers, FailWorkflowHandler, ExecuteRpcHandler, UserSignalHandler, HandlerExit,
         keptVars
<1>1. CommandThreadsOK'
  BY <1>0, Zenon DEF CommandThreadsOK, keptVars
<1>2. \A m \in Messages : Held(m)' = Held(m)
  BY <1>0, KeptUnchanged, Zenon
<1>3. ~errToFailWf' => ~errToFailWf
  BY <1>0, Zenon
<1>4. CASE FailWorkflowHandler \/ \E h \in Handlers : HandlerExit(h)
  <2>1. UNCHANGED <<inbox, received, nextMsg, delivered>>
    BY <1>4, Zenon DEF FailWorkflowHandler, HandlerExit
  <2> QED BY <1>1, <1>2, <1>3, <2>1, UntouchedMessages, Zenon
<1>5. TypeInv'
  BY SignalHandlersType
<1>6. inbox \in [Channels -> Seq(Messages)] /\ received \in [Channels -> Seq(Messages)]
  BY DEF TypeInv, TypeOK
<1>7. CASE ExecuteRpcHandler
  <2> DEFINE ch == Head(rpcInbox).chan
             n == [c \in Channels |-> IF c = ch /\ inbox[c] # << >> THEN 1 ELSE 0]
  <2>1. n \in [Channels -> Nat]
    OBVIOUS
  <2>2. /\ received' = [c \in Channels |->
                          IF c = ch THEN received[c] \o First(inbox[c]) ELSE received[c]]
        /\ inbox' = [c \in Channels |-> IF c = ch THEN Rest(inbox[c]) ELSE inbox[c]]
    BY <1>7, Zenon DEF ExecuteRpcHandler
  <2> HIDE DEF ch
  <2>3. ASSUME NEW c \in Channels
        PROVE  MovedSeq(inbox[c], received[c], inbox'[c], received'[c], n[c])
    <3>0. inbox[c] \in Seq(Messages) /\ received[c] \in Seq(Messages)
      BY <1>6
    <3>1. CASE c # ch
      <4>1. received'[c] = received[c] /\ inbox'[c] = inbox[c] /\ n[c] = 0
        BY <2>2, <3>1, Zenon
      <4> QED BY <3>0, <4>1, MovedNone, Zenon
    <3>2. CASE c = ch /\ inbox[c] = << >>
      <4>1. received'[c] = received[c] \o << >> /\ inbox'[c] = inbox[c] /\ n[c] = 0
        BY <2>2, <3>2, Zenon DEF First, Rest
      <4>2. received[c] \o << >> = received[c]
        BY <3>0
      <4> QED BY <3>0, <4>1, <4>2, MovedNone, Zenon
    <3>3. CASE c = ch /\ inbox[c] # << >>
      <4>1. /\ received'[c] = received[c] \o <<Head(inbox[c])>> /\ inbox'[c] = Tail(inbox[c])
            /\ n[c] = 1
        BY <2>2, <3>3, Zenon DEF First, Rest
      <4> QED BY <3>0, <3>3, <4>1, MovedFirst, Zenon
    <3> QED BY <3>1, <3>2, <3>3
  <2> HIDE DEF n
  <2> QED BY <1>0, <1>1, <1>2, <1>3, <1>5, <2>1, <2>3, MoveOnly, Zenon
<1>8. CASE UserSignalHandler
  <2> DEFINE n == [c \in Channels |-> IF c \in SignalChannels THEN Len(inbox[c]) ELSE 0]
  <2>1. n \in [Channels -> Nat]
    BY <1>6
  <2>2. /\ received' = [c \in Channels |->
                    IF c \in SignalChannels THEN received[c] \o inbox[c] ELSE received[c]]
        /\ inbox' = [c \in Channels |-> IF c \in SignalChannels THEN << >> ELSE inbox[c]]
    BY <1>8, Zenon DEF UserSignalHandler
  <2>3. ASSUME NEW c \in Channels
        PROVE  MovedSeq(inbox[c], received[c], inbox'[c], received'[c], n[c])
    <3>0. inbox[c] \in Seq(Messages) /\ received[c] \in Seq(Messages)
      BY <1>6
    <3>1. CASE c \notin SignalChannels
      <4>1. received'[c] = received[c] /\ inbox'[c] = inbox[c] /\ n[c] = 0
        BY <2>2, <3>1, Zenon
      <4> QED BY <3>0, <4>1, MovedNone, Zenon
    <3>2. CASE c \in SignalChannels
      <4>1. /\ received'[c] = received[c] \o inbox[c] /\ inbox'[c] = << >>
            /\ n[c] = Len(inbox[c])
        BY <2>2, <3>2, Zenon
      <4> QED BY <3>0, <4>1, MovedAll, Zenon
    <3> QED BY <3>1, <3>2
  <2> HIDE DEF n
  <2> QED BY <1>0, <1>1, <1>2, <1>3, <1>5, <2>1, <2>3, MoveOnly, Zenon
<1> QED BY <1>1, <1>4, <1>7, <1>8, Zenon DEF SignalHandlers

\* The answers and failures of WaitUntil and Execute preserve it.
LEMMA ApiCallMessages ==
  ASSUME TypeInv, LifeInv, MessageInv, ProceedingStatesSkip, NEW e \in ExeIds, ApiCall(e)
  PROVE  MessageInv'
<1> USE DEF mainVars, queueVars, flagVars, counterVars, threadVars, signalVars, idVars, histVars
<1>0. /\ thread \in [ExeIds -> {"none", "waitUntil", "waiting", "draining", "execute", "closing"}]
      /\ completedCmds \in [ExeIds -> SUBSET CmdIdx] /\ cmdThreads \in [ExeIds -> SUBSET CmdIdx]
      /\ errToFailWf \in BOOLEAN
      /\ MessagesOK /\ CommandThreadsOK /\ ThreadsOK
  BY DEF TypeInv, TypeOK, MessageInv, LifeInv
<1>1. ASSUME NEW req \in CommandRequests, NEW pub \in Publishes, StartWaiting(e, req, pub)
      PROVE  MessageInv'
  <2> USE <1>1 DEF StartWaiting
  <2>1. CommandThreadsOK'
    BY <1>0 DEF CommandThreadsOK
  <2>2. e \notin Holders /\ completedCmds'[e] = {}
    BY <1>0 DEF Holders
  <2>3. \A d \in ExeIds : d # e => /\ (d \in Holders' <=> d \in Holders)
                                   /\ completedCmds'[d] = completedCmds[d]
    BY <1>0 DEF Holders
  <2>4. Holders \subseteq ExeIds /\ Holders' \subseteq ExeIds
    BY DEF Holders
  <2>5. ASSUME NEW m \in Messages PROVE Held(m)' = Held(m)
    <3>1. SameKept(Holders, completedCmds, cmdValues, Holders', completedCmds', cmdValues', m)
      BY <2>2, <2>3, <2>4, Zenon DEF KeepsAt, SameKept, OneMoreKept
    <3>2. PlacesHeld(Holders, completedCmds, cmdValues, m)
            = PlacesHeld(Holders', completedCmds', cmdValues', m)
      BY <3>1, SameHeld
    <3> QED BY <3>2, Zenon DEF Held
  <2>6. /\ received' = ProcessPublishing(received, pub) /\ AllocateMessage(pub)
        /\ UNCHANGED <<inbox, delivered>> /\ (~errToFailWf' => ~errToFailWf)
    BY Zenon
  <2>7. MessagesOK'
    BY <1>0, <2>5, <2>6, PublishOnly, Zenon
  <2> QED BY <2>1, <2>7 DEF MessageInv
<1>2. ASSUME FailExecution(e), thread[e] \in {"waitUntil", "execute"} PROVE MessageInv'
  <2>1. CommandThreadsOK'
    BY <1>0, <1>2 DEF CommandThreadsOK, FailExecution
  <2>2. errToFailWf' = TRUE
    BY <1>2 DEF FailExecution
  <2> QED BY <2>1, <2>2, Zenon DEF MessageInv, MessagesOK
<1>3. ASSUME NEW d \in Decisions, NEW pub \in Publishes, ExecuteCompleted(e, d, pub)
      PROVE  MessageInv'
  <2> USE <1>3 DEF ExecuteCompleted, MarkStateExecutionCompleted
  <2>1. CommandThreadsOK'
    BY <1>0 DEF CommandThreadsOK
  <2>2. Holders' = Holders
    BY <1>0 DEF Holders, ThreadsOK
  <2>3. \A m \in Messages : Held(m)' = Held(m)
    BY <2>2, HeldUnchanged, Zenon
  <2>4. /\ received' = ProcessPublishing(received, pub) /\ AllocateMessage(pub)
        /\ UNCHANGED <<inbox, delivered>>
    BY Zenon
  <2>5. ~errToFailWf' => ~errToFailWf
    BY Zenon
  <2>6. MessagesOK'
    BY <1>0, <2>3, <2>4, <2>5, PublishOnly, Zenon
  <2> QED BY <2>1, <2>6 DEF MessageInv
<1>4. ASSUME NEW d \in Decisions, NEW pub \in Publishes, ExecuteCompletedConditionally(e, d, pub)
      PROVE  MessageInv'
  <2> USE <1>4 DEF ExecuteCompletedConditionally
  <2>1. CommandThreadsOK'
    BY <1>0 DEF CommandThreadsOK
  <2>2. Holders' = Holders
    BY <1>0 DEF Holders, ThreadsOK
  <2>3. \A m \in Messages : Held(m)' = Held(m)
    BY <2>2, HeldUnchanged, Zenon
  <2>4. /\ DrainAllReceivedButUnprocessedSignals(ProcessPublishing(received, pub))
        /\ AllocateMessage(pub) /\ UNCHANGED delivered /\ (~errToFailWf' => ~errToFailWf)
    BY Zenon
  <2>5. MessagesOK'
    BY <1>0, <2>3, <2>4, PublishThenDrain, Zenon
  <2> QED BY <2>1, <2>5 DEF MessageInv
<1>5. CASE ExecuteApiFailedAndProceed(e)
  <2> USE <1>5 DEF ExecuteApiFailedAndProceed, MarkStateExecutionCompleted
  <2>0. e \notin toResume \cup resumeQ
    BY <1>0 DEF ProceedingStatesSkip, ExeIds, ThreadsOK
  <2>1. CommandThreadsOK'
    BY <1>0 DEF CommandThreadsOK
  <2>2. Holders' = Holders
    BY <1>0, <2>0 DEF Holders
  <2>3. \A m \in Messages : Held(m)' = Held(m)
    BY <2>2, HeldUnchanged, Zenon
  <2>4. UNCHANGED <<inbox, received, nextMsg, delivered>> /\ (~errToFailWf' => ~errToFailWf)
    BY Zenon
  <2>5. MessagesOK'
    BY <1>0, <2>3, <2>4, UntouchedMessages, Zenon
  <2> QED BY <2>1, <2>5 DEF MessageInv
<1>6. NoCommands \in CommandRequests /\ NoChannel \in Publishes
  BY RequestsAssumption, Zenon DEF Publishes
<1>7. CASE WaitUntilFailed(e) \/ ExecuteFailed(e)
  BY <1>2, <1>7 DEF WaitUntilFailed, ExecuteFailed
<1>8. CASE WaitUntilFailedAndProceed(e)
  BY <1>1, <1>6, <1>8, Zenon DEF WaitUntilFailedAndProceed
<1>9. ASSUME NEW req \in CommandRequests, NEW pub \in Publishes, WaitUntilCompleted(e, req, pub)
      PROVE  MessageInv'
  BY <1>1, <1>9, Zenon DEF WaitUntilCompleted
<1> QED BY <1>3, <1>4, <1>5, <1>7, <1>8, <1>9, Zenon DEF ApiCall

\* The command threads preserve it: a result is written once, by an execution that keeps it.
LEMMA CommandThreadMessages ==
  ASSUME TypeInv, MessageInv, NEW e \in ExeIds, NEW i \in CmdIdx, CommandThread(e, i) \/ TimerFired(e, i)
  PROVE  MessageInv'
<1> USE DEF mainVars, queueVars, flagVars, counterVars, threadVars, signalVars, idVars, histVars
<1>0. /\ completedCmds \in [ExeIds -> SUBSET CmdIdx] /\ cmdThreads \in [ExeIds -> SUBSET CmdIdx]
      /\ cmdValues \in [ExeIds -> [CmdIdx -> 0..MaxMessages]]
      /\ MessagesOK /\ CommandThreadsOK
  BY DEF TypeInv, TypeOK, MessageInv
<1>1. /\ i \in cmdThreads[e]
      /\ cmdThreads' = [cmdThreads EXCEPT ![e] = @ \ {i}]
      /\ completedCmds' \in {completedCmds, [completedCmds EXCEPT ![e] = @ \cup {i}]}
      /\ UNCHANGED <<thread, toResume, resumeQ, errToFailWf, nextMsg, delivered, inbox>>
  BY DEF CommandThread, CommandReceive, CommandCancel, TimerFired
<1>2. CommandThreadsOK'
  BY <1>0, <1>1 DEF CommandThreadsOK
<1>3. i \notin completedCmds[e] /\ e \in Holders /\ Holders' = Holders /\ Holders \subseteq ExeIds
  BY <1>0, <1>1 DEF CommandThreadsOK, Holders
<1>4. ~errToFailWf' => ~errToFailWf
  BY <1>1, Zenon
<1>5. CASE CommandCancel(e, i)
  <2>1. /\ UNCHANGED <<inbox, received, nextMsg, delivered>>
        /\ UNCHANGED <<completedCmds, cmdValues>>
    BY <1>5, Zenon DEF CommandCancel
  <2>2. \A m \in Messages : Held(m)' = Held(m)
    BY <1>3, <2>1, HeldUnchanged, Zenon
  <2>3. MessagesOK'
    BY <1>0, <1>4, <2>1, <2>2, UntouchedMessages, Zenon
  <2> QED BY <1>2, <2>3 DEF MessageInv
<1>6. ASSUME NEW x, cmdValues' = [cmdValues EXCEPT ![e][i] = x],
             completedCmds' = [completedCmds EXCEPT ![e] = @ \cup {i}], NEW m \in Messages
      PROVE  /\ x # m => Held(m)' = Held(m)
             /\ x = m => Held(m)' = Held(m) \cup {<<"held", e, i>>}
  <2>1. /\ completedCmds'[e] = completedCmds[e] \cup {i} /\ cmdValues'[e][i] = x
        /\ \A j \in completedCmds[e] : cmdValues'[e][j] = cmdValues[e][j]
        /\ \A d \in ExeIds : d # e => completedCmds'[d] = completedCmds[d] /\ cmdValues'[d] = cmdValues[d]
    BY <1>0, <1>3, <1>6
  <2>2. CASE x # m
    <3>1. SameKept(Holders, completedCmds, cmdValues, Holders', completedCmds', cmdValues', m)
      BY <1>3, <2>1, <2>2 DEF KeepsAt, SameKept
    <3>2. PlacesHeld(Holders, completedCmds, cmdValues, m)
            = PlacesHeld(Holders', completedCmds', cmdValues', m)
      BY <3>1, SameHeld
    <3> QED BY <2>2, <3>2, Zenon DEF Held
  <2>3. CASE x = m
    <3>1. OneMoreKept(Holders, completedCmds, cmdValues, completedCmds', cmdValues', m, e, i)
      BY <1>3, <2>1, <2>3 DEF KeepsAt, OneMoreKept
    <3>2. PlacesHeld(Holders, completedCmds', cmdValues', m)
            = PlacesHeld(Holders, completedCmds, cmdValues, m) \cup {<<"held", e, i>>}
      BY <1>3, <3>1, OneMoreHeld
    <3> QED BY <1>3, <2>3, <3>2, Zenon DEF Held
  <2> QED BY <2>2, <2>3, Zenon
<1>7. CASE TimerFired(e, i)
  <2>1. /\ cmdValues' = [cmdValues EXCEPT ![e][i] = 0]
        /\ completedCmds' = [completedCmds EXCEPT ![e] = @ \cup {i}]
        /\ UNCHANGED <<inbox, received, nextMsg, delivered>>
    BY <1>7, Zenon DEF TimerFired
  <2>2. \A m \in Messages : 0 # m
    BY BoundsAssumption DEF Messages
  <2>3. \A m \in Messages : Held(m)' = Held(m)
    BY <1>6, <2>1, <2>2, Zenon
  <2>4. MessagesOK'
    BY <1>0, <1>4, <2>1, <2>3, UntouchedMessages, Zenon
  <2> QED BY <1>2, <2>4 DEF MessageInv
<1>8. CASE CommandReceive(e, i)
  <2> DEFINE c == commandReq[e].cmds[i].target
  <2>1. c \in Channels
    <3>1. i \in DOMAIN commandReq[e].cmds /\ commandReq[e] \in CommandRequests
      BY <1>1 DEF CommandsOK, Commands, TypeInv, TypeOK
    <3> QED BY <1>8, <3>1, RequestType DEF CommandReceive
  <2>2. /\ received[c] # << >> /\ received' = [received EXCEPT ![c] = Tail(@)]
        /\ cmdValues' = [cmdValues EXCEPT ![e][i] = Head(received[c])]
        /\ completedCmds' = [completedCmds EXCEPT ![e] = @ \cup {i}]
    BY <1>8, Zenon DEF CommandReceive
  <2> HIDE DEF c
  <2>3. received \in [Channels -> Seq(Messages)]
    BY DEF TypeInv, TypeOK
  <2>4. ASSUME NEW m \in Messages PROVE AsMany(Places(m), Places(m)')
    <3>1. /\ Head(received[c]) # m => Held(m)' = Held(m)
          /\ Head(received[c]) = m => Held(m)' = Held(m) \cup {<<"held", e, i>>}
      BY <1>6, <2>2, Zenon
    <3>2. <<"held", e, i>>[1] = "held"
      OBVIOUS
    <3>3. AsMany(PlacesOf(inbox, received, Held(m), m),
                 PlacesOf(inbox, [received EXCEPT ![c] = Tail(@)], Held(m)', m))
      BY <2>1, <2>2, <2>3, <3>1, <3>2, HeldKind, TakePlaces, Zenon
    <3>4. Places(m)' = PlacesOf(inbox, [received EXCEPT ![c] = Tail(@)], Held(m)', m)
      BY <1>1, <2>2, Zenon DEF Places
    <3> QED BY <3>3, <3>4, Zenon DEF Places
  <2>5. MessagesOK'
    BY <1>0, <1>1, <1>4, <2>4, MovedAccounted, Zenon
  <2> QED BY <1>2, <2>5 DEF MessageInv
<1> QED BY <1>5, <1>7, <1>8, Zenon DEF CommandThread

\* Passing the results of an execution to Execute delivers the messages it keeps.
LEMMA InvokeMessages ==
  ASSUME TypeInv, MessagesOK, NEW e \in ExeIds, InvokeStateExecute(e)
  PROVE  MessagesOK'
<1> USE DEF mainVars, queueVars, flagVars, counterVars, threadVars, signalVars, idVars, histVars
<1>1. /\ thread[e] = "draining" /\ thread' = [thread EXCEPT ![e] = "execute"]
      /\ UNCHANGED <<toResume, resumeQ, completedCmds, cmdValues, inbox, received, nextMsg, errToFailWf>>
      /\ \A m \in Messages : delivered'[m]
           = delivered[m] + Cardinality({i \in completedCmds[e] : cmdValues[e][i] = m})
  BY DEF InvokeStateExecute, CommandThreadsDrained
<1>2. /\ thread \in [ExeIds -> {"none", "waitUntil", "waiting", "draining", "execute", "closing"}]
      /\ delivered \in [Messages -> Nat]
  BY DEF TypeInv, TypeOK
<1>3. e \in Holders /\ Holders' = Holders \ {e}
  BY <1>1, <1>2 DEF Holders
<1> SUFFICES ASSUME ~errToFailWf, NEW m \in Messages PROVE Accounted(m)'
  BY <1>1, Zenon DEF MessagesOK
<1> DEFINE H == {i \in completedCmds[e] : cmdValues[e][i] = m}
<1>4. Accounted(m)
  BY DEF MessagesOK
<1>5. delivered[m] \in Nat /\ delivered'[m] = delivered[m] + Cardinality(H)
  BY <1>1, <1>2
<1>6. CASE H = {}
  <2>1. SameKept(Holders, completedCmds, cmdValues, Holders', completedCmds', cmdValues', m)
    BY <1>1, <1>3, <1>6 DEF KeepsAt, SameKept
  <2>2. PlacesHeld(Holders, completedCmds, cmdValues, m)
          = PlacesHeld(Holders', completedCmds', cmdValues', m)
    BY <2>1, SameHeld
  <2>3. Places(m)' = Places(m)
    BY <1>1, <2>2, Zenon DEF Places, Held
  <2>4. Cardinality(H) = 0
    BY <1>6, FS_EmptySet, Zenon
  <2>5. delivered'[m] = delivered[m]
    <3> HIDE DEF H
    <3> QED BY <1>5, <2>4
  <2>6. nextMsg' = nextMsg
    BY <1>1
  <2> QED BY <1>4, <2>3, <2>5, <2>6, Zenon DEF Accounted
<1>7. CASE H # {}
  <2>1. PICK i : i \in H
    BY <1>7, Zenon
  <2>2. \A j \in H : <<"held", e, j>> \in Places(m)
    <3> SUFFICES ASSUME NEW j \in H PROVE <<"held", e, j>> \in Places(m)
      OBVIOUS
    <3>1. j \in completedCmds[e] /\ cmdValues[e][j] = m
      OBVIOUS
    <3>2. <<"held", e, j>> \in PlacesHeld(Holders, completedCmds, cmdValues, m)
      BY <1>3, <3>1, InPlacesHeld
    <3> QED BY <3>2 DEF Places, PlacesOf, Held
  <2>3. m < nextMsg /\ (\E p : Places(m) = {p}) /\ delivered[m] = 0
    BY <1>4, <2>1, <2>2, Zenon DEF Accounted
  <2>4. Places(m) = {<<"held", e, i>>}
    BY <2>1, <2>2, <2>3, Zenon
  <2>5. H = {i}
    <3>1. \A j \in H : <<"held", e, j>> = <<"held", e, i>>
      BY <2>2, <2>4, Zenon
    <3>2. \A j \in H : j = i
      BY <3>1
    <3> QED BY <2>1, <3>2, Zenon
  <2>6. delivered'[m] = 1
    <3>1. Cardinality({i}) = 1
      BY FS_Singleton
    <3> HIDE DEF H
    <3> QED BY <1>5, <2>3, <2>5, <3>1
  <2>7. Places(m)' = {}
    <3> SUFFICES ASSUME NEW q \in Places(m)' PROVE FALSE
      OBVIOUS
    <3>1. CASE q \in PlacesHeld(Holders', completedCmds', cmdValues', m)
      <4>1. PICK d, j : d \in Holders' /\ j \in completedCmds'[d] /\ q = <<"held", d, j>>
                        /\ cmdValues'[d][j] = m
        BY <3>1, InPlacesHeld
      <4>2. d # e /\ d \in Holders /\ j \in completedCmds[d] /\ cmdValues[d][j] = m
        BY <1>1, <1>3, <4>1
      <4>3. q \in PlacesHeld(Holders, completedCmds, cmdValues, m)
        BY <4>1, <4>2, InPlacesHeld
      <4>4. q \in Places(m)
        BY <4>3, Zenon DEF Places, PlacesOf, Held
      <4>5. <<"held", d, j>> = <<"held", e, i>>
        BY <2>4, <4>1, <4>4, Zenon
      <4> QED BY <4>2, <4>5
    <3>2. CASE q \in PlacesIn("inbox", inbox, m) \cup PlacesIn("received", received, m)
      <4>1. q \in Places(m)
        BY <3>2, Zenon DEF Places, PlacesOf
      <4>2. q = <<"held", e, i>>
        BY <2>4, <4>1, Zenon
      <4>3. q[1] = "held"
        BY <4>2
      <4>4. q[1] \in {"inbox", "received"}
        BY <3>2, InPlacesIn
      <4> QED BY <4>3, <4>4
    <3>3. Places(m)' = PlacesIn("inbox", inbox, m) \cup PlacesIn("received", received, m)
                         \cup PlacesHeld(Holders', completedCmds', cmdValues', m)
      BY <1>1, Zenon DEF Places, PlacesOf, Held
    <3> QED BY <3>1, <3>2, <3>3, Zenon
  <2>8. nextMsg' = nextMsg
    BY <1>1
  <2> QED BY <2>3, <2>6, <2>7, <2>8, Zenon DEF Accounted
<1> QED BY <1>6, <1>7

\* The steps of a state thread between its API calls preserve it.
LEMMA StateThreadMessages ==
  ASSUME TypeInv, LifeInv, MessageInv, NEW e \in ExeIds, StateThread(e)
  PROVE  MessageInv'
<1> USE DEF mainVars, queueVars, flagVars, counterVars, threadVars, signalVars, idVars, histVars
<1>0. /\ thread \in [ExeIds -> {"none", "waitUntil", "waiting", "draining", "execute", "closing"}]
      /\ MessagesOK /\ CommandThreadsOK /\ ThreadsOK
  BY DEF TypeInv, TypeOK, MessageInv, LifeInv
<1>1. CASE CommandReqDoneOrCanceled(e) \/ ReturnWaitingCommands(e) \/ ConditionalClose(e)
  <2> USE <1>1 DEF CommandReqDoneOrCanceled, ReturnWaitingCommands, ConditionalClose,
                   CommandThreadsDrained, MarkStateExecutionCompleted
  <2>1. CommandThreadsOK'
    BY <1>0 DEF CommandThreadsOK
  <2>2. Holders' = Holders
    BY <1>0 DEF Holders, ThreadsOK
  <2>3. \A m \in Messages : Held(m)' = Held(m)
    BY <2>2, HeldUnchanged
  <2>4. UNCHANGED <<inbox, received, nextMsg, delivered>>
    OBVIOUS
  <2>5. ~errToFailWf' => ~errToFailWf
    BY Zenon
  <2>6. MessagesOK'
    BY <1>0, <2>3, <2>4, <2>5, UntouchedMessages, Zenon
  <2> QED BY <2>1, <2>6 DEF MessageInv
<1>2. CASE InvokeStateExecute(e)
  <2>1. CommandThreadsOK'
    BY <1>0, <1>2 DEF CommandThreadsOK, InvokeStateExecute, CommandThreadsDrained
  <2>2. MessagesOK'
    BY <1>0, <1>2, InvokeMessages
  <2> QED BY <2>1, <2>2 DEF MessageInv
<1> QED BY <1>1, <1>2 DEF StateThread

\* What taking the requests of the queue does to the threads: an execution to resume
\* waits, a new one calls its first API, neither had a thread.
TakenThreads ==
  /\ \A d \in NewExeIds : thread[d] = "none" /\ d \notin toResume \cup resumeQ
  /\ \A d \in ExeIds :
       /\ d \in resumeQ => thread'[d] = "waiting" /\ thread[d] = "none"
       /\ d \in NewExeIds => thread'[d] \in {"execute", "waitUntil"}
       /\ d \notin resumeQ /\ d \notin NewExeIds => thread'[d] = thread[d]

\* TakeAll does this.
LEMMA TakeAllThreads == ASSUME TypeInv, LifeInv, TakeAll PROVE TakenThreads
<1>1. \A d \in NewExeIds : thread[d] = "none" /\ d \notin toResume \cup resumeQ
  <2>1. \A d \in ExeIds : d[1] \in StateIds /\ d[2] \in Nat /\ started[d[1]] \in Nat
    BY BoundsAssumption DEF ExeIds, TypeInv, TypeOK
  <2> QED BY <2>1 DEF NewExeIds, LifeInv, ThreadsOK, PendingExes
<1>2. \A d \in ExeIds : thread'[d] =
        CASE d \in resumeQ   -> "waiting"
          [] d \in NewExeIds -> IF d[1] \in SkipWaitUntil THEN "execute" ELSE "waitUntil"
          [] OTHER -> thread[d]
  BY DEF TakeAll
<1>3. \A d \in ExeIds : d \in resumeQ => thread[d] = "none"
  BY DEF LifeInv, ThreadsOK
<1> QED BY <1>1, <1>2, <1>3 DEF TakenThreads

\* The same executions keep messages.
LEMMA TakeAllHolders == ASSUME TypeInv, LifeInv, TakeAll PROVE Holders' = Holders
<1>1. toResume' = toResume \cup resumeQ /\ resumeQ' = {}
  BY DEF TakeAll
<1>2. TakenThreads
  BY TakeAllThreads
<1>3. \A d \in ExeIds : d \in Holders' <=> d \in Holders
  BY <1>1, <1>2 DEF Holders, TakenThreads
<1> QED BY <1>3 DEF Holders

\* The main loop, continue-as-new and loading preserve it.
LEMMA MainLoopMessages == ASSUME TypeInv, LifeInv, MessageInv, MainLoop PROVE MessageInv'
<1> USE DEF mainVars, queueVars, flagVars, counterVars, threadVars, signalVars, idVars, histVars
<1>0. /\ thread \in [ExeIds -> {"none", "waitUntil", "waiting", "draining", "execute", "closing"}]
      /\ completedCmds \in [ExeIds -> SUBSET CmdIdx] /\ cmdThreads \in [ExeIds -> SUBSET CmdIdx]
      /\ resumeQ \subseteq ExeIds /\ MessagesOK /\ CommandThreadsOK /\ ThreadsOK /\ PhaseOK
  BY DEF TypeInv, TypeOK, MessageInv, LifeInv
<1>1. ASSUME CommandThreadsOK', Holders' = Holders, ~errToFailWf' => ~errToFailWf,
             UNCHANGED <<inbox, received, nextMsg, delivered, completedCmds, cmdValues>>
      PROVE  MessageInv'
  <2>1. /\ UNCHANGED <<inbox, received, nextMsg, delivered>> /\ UNCHANGED <<completedCmds, cmdValues>>
    BY <1>1
  <2>2. \A m \in Messages : Held(m)' = Held(m)
    BY <1>1, <2>1, HeldUnchanged, Zenon
  <2>3. MessagesOK'
    BY <1>0, <1>1, <2>1, <2>2, UntouchedMessages, Zenon
  <2> QED BY <1>1, <2>3 DEF MessageInv
<1>2. CASE \/ OuterFailByClient \/ OuterComplete \/ OuterDrain \/ InnerClose \/ InnerNoMoreState
           \/ InnerDrain \/ InnerDrained
  <2>1. UNCHANGED <<inbox, received, nextMsg, delivered, completedCmds, cmdValues, thread, toResume,
                    resumeQ, cmdThreads>>
    BY <1>2 DEF OuterFailByClient, OuterComplete, OuterDrain, InnerClose, InnerNoMoreState,
                InnerDrain, InnerDrained, UnchangedButMain
  <2>2. ~errToFailWf' => ~errToFailWf
    BY <1>2, Zenon DEF OuterFailByClient, OuterComplete, OuterDrain, InnerClose, InnerNoMoreState,
                InnerDrain, InnerDrained, UnchangedButMain
  <2>3. CommandThreadsOK' /\ Holders' = Holders
    BY <1>0, <2>1 DEF CommandThreadsOK, Holders
  <2> QED BY <1>1, <2>1, <2>2, <2>3
<1>3. ASSUME EnterInnerLoop PROVE MessageInv'
  <2>0. UNCHANGED <<inbox, received, nextMsg, delivered, errToFailWf>>
    BY <1>3 DEF EnterInnerLoop
  <2>1. CASE TakeAll
    <3>0. UNCHANGED <<completedCmds, cmdValues>>
      BY <2>1 DEF TakeAll
    <3>1. Holders' = Holders
      BY <2>1, TakeAllHolders
    <3>2. CommandThreadsOK'
      <4>1. \A d \in ExeIds : cmdThreads'[d]
              = IF d \in resumeQ THEN Commands(d) \ completedCmds[d] ELSE cmdThreads[d]
        BY <2>1 DEF TakeAll
      <4>2. TakenThreads
        BY <2>1, TakeAllThreads
      <4> QED BY <1>0, <3>0, <4>1, <4>2 DEF CommandThreadsOK, TakenThreads
    <3> QED BY <1>1, <2>0, <3>0, <3>1, <3>2
  <2>2. CASE UNCHANGED <<queueVars, counterVars, threadVars, toResume>>
    <3>1. Holders' = Holders /\ CommandThreadsOK'
      BY <1>0, <2>2 DEF Holders, CommandThreadsOK
    <3> QED BY <1>1, <2>0, <2>2, <3>1
  <2> QED BY <1>3, <2>1, <2>2 DEF EnterInnerLoop
<1>4. CASE OuterEnterInner \/ InnerNextIteration
  BY <1>3, <1>4 DEF OuterEnterInner, InnerNextIteration
<1>5. CASE ContinueAsNew
  <2>1. /\ DrainAllReceivedButUnprocessedSignals(received)
        /\ UNCHANGED <<delivered, nextMsg, errToFailWf, thread, toResume, resumeQ, completedCmds,
                       cmdValues, cmdThreads>>
    BY <1>5 DEF ContinueAsNew
  <2>2. Holders' = Holders /\ CommandThreadsOK'
    BY <1>0, <2>1 DEF Holders, CommandThreadsOK
  <2>3. \A m \in Messages : Held(m)' = Held(m)
    BY <2>1, <2>2, HeldUnchanged
  <2>4. /\ DrainAllReceivedButUnprocessedSignals(ProcessPublishing(received, NoChannel))
        /\ AllocateMessage(NoChannel) /\ NoChannel \in Publishes
    BY <2>1, Zenon DEF ProcessPublishing, AllocateMessage, Publishes
  <2>5. MessagesOK'
    BY <1>0, <2>1, <2>3, <2>4, PublishThenDrain, Zenon
  <2> QED BY <2>2, <2>5 DEF MessageInv
<1>6. CASE LoadInternalsFromPreviousRun
  <2> USE <1>6 DEF LoadInternalsFromPreviousRun
  <2>1. ~errToFailWf /\ \A d \in ExeIds : thread[d] = "none"
    BY <1>0, Zenon DEF PhaseOK
  <2>2. Holders' = Holders
    BY <2>1 DEF Holders
  <2>3. CommandThreadsOK'
    BY <1>0, <2>1 DEF CommandThreadsOK
  <2>4. UNCHANGED <<inbox, received, nextMsg, delivered, completedCmds, cmdValues>>
    OBVIOUS
  <2> QED BY <1>1, <2>1, <2>2, <2>3, <2>4, Zenon
<1> QED BY <1>2, <1>4, <1>5, <1>6, Zenon DEF MainLoop

\* Every step preserves the invariant.
LEMMA NextMessages ==
  ProceedingStatesSkip /\ TypeInv /\ LifeInv /\ MessageInv /\ [Next]_vars => MessageInv'
<1> SUFFICES ASSUME ProceedingStatesSkip, TypeInv, LifeInv, MessageInv, [Next]_vars
             PROVE  MessageInv'
  OBVIOUS
<1>1. CASE UNCHANGED vars
  <2> USE <1>1 DEF vars, mainVars, queueVars, flagVars, counterVars, threadVars, signalVars, idVars,
                   histVars
  <2>1. UNCHANGED keptVars /\ UNCHANGED <<inbox, received, nextMsg, delivered>>
        /\ UNCHANGED <<cmdThreads, errToFailWf>>
    BY DEF keptVars
  <2> HIDE <1>1 DEF vars
  <2>2. CommandThreadsOK'
    BY <2>1, Zenon DEF CommandThreadsOK, keptVars, MessageInv
  <2>3. MessagesOK'
    BY <2>1, KeptUnchanged, UntouchedMessages, Zenon DEF MessageInv
  <2> QED BY <2>2, <2>3 DEF MessageInv
<1> QED BY <1>1, ClientsMessages, UpdateHandlerMessages, SignalHandlersMessages, MainLoopMessages,
           ApiCallMessages, StateThreadMessages, CommandThreadMessages DEF Next

\* The three inductive invariants hold of the specification.
LEMMA SpecMessages ==
  ASSUME ProceedingStatesSkip PROVE Spec => [](TypeInv /\ LifeInv /\ MessageInv)
<1>1. Init => TypeInv /\ LifeInv /\ MessageInv
  BY InitType, InitLife, InitMessages
<1>2. TypeInv /\ LifeInv /\ MessageInv /\ [Next]_vars => (TypeInv /\ LifeInv /\ MessageInv)'
  BY NextType, NextLife, NextMessages
<1> QED BY <1>1, <1>2, PTL DEF Spec

\* Until an error fails the workflow, every message that was sent is with the engine, in a
\* received queue, kept by one command or passed to one Execute call: none is lost or
\* duplicated by the handlers, the command threads, the drain or continue-as-new.
THEOREM MessagesKept == ASSUME ProceedingStatesSkip PROVE Spec => []MessagesConserved
  BY AccountedConserved, SpecMessages, PTL

-----------------------------------------------------------------------------
(* Part 5: the refinement *)

\* The workflow is neither closed nor failing.
Opened == Open /\ ~errToFailWf

\* A message that DurableWorkflow knows is delivered or has a place, and one in an
\* inbox only if it is the inbox of a signal channel.
Seen(m) ==
  \/ delivered[m] > 0
  \/ \E e, i : <<"held", e, i>> \in Places(m)
  \/ \E c, i : <<"received", c, i>> \in Places(m)
  \/ \E c, i : c \in SignalChannels /\ <<"inbox", c, i>> \in Places(m)

Has(q, x) == \E i \in DOMAIN q : q[i] = x

\* The elements of a concatenation.
LEMMA ConcatElement ==
  ASSUME NEW S, NEW q \in Seq(S), NEW r \in Seq(S), NEW x, Has(q \o r, x)
  PROVE  Has(q, x) \/ Has(r, x)
<1>0. PICK j \in DOMAIN (q \o r) : (q \o r)[j] = x
  BY DEF Has
<1>1. /\ Len(q) \in Nat /\ Len(r) \in Nat /\ j \in 1..(Len(q) + Len(r))
      /\ DOMAIN q = 1..Len(q) /\ DOMAIN r = 1..Len(r)
  BY <1>0
<1>2. CASE j <= Len(q)
  <2>1. j \in 1..Len(q)
    BY <1>1, <1>2
  <2>2. (q \o r)[j] = q[j]
    BY <1>1, <1>2
  <2> QED BY <1>0, <1>1, <2>1, <2>2, Zenon DEF Has
<1>3. CASE ~(j <= Len(q))
  <2>1. j - Len(q) \in 1..Len(r)
    BY <1>1, <1>3
  <2>2. (q \o r)[j] = r[j - Len(q)]
    BY <1>1, <1>3
  <2> QED BY <1>0, <1>1, <2>1, <2>2, Zenon DEF Has
<1> QED BY <1>2, <1>3

\* Appending to the second part of a concatenation.
LEMMA ConcatAppend ==
  ASSUME NEW q \in Seq(Messages), NEW r \in Seq(Messages), NEW x \in Messages
  PROVE  q \o Append(r, x) = Append(q \o r, x)
<1>1. <<x>> \in Seq(Messages) /\ q \o r \in Seq(Messages)
  BY ConcatProperties
<1>2. Append(r, x) = r \o <<x>> /\ Append(q \o r, x) = (q \o r) \o <<x>>
  BY <1>1, AppendIsConcat
<1>3. PICK s \in Seq(Messages) : s = <<x>>
  BY <1>1
<1>4. (q \o r) \o s = q \o (r \o s)
  BY ConcatAssociative
<1> QED BY <1>2, <1>3, <1>4

\* A message that DurableWorkflow knows.
LEMMA KnownSeen ==
  ASSUME TypeInv, NEW m \in Durable!Known
  PROVE  Seen(m)
<1>0. received \in [Channels -> Seq(Messages)] /\ inbox \in [Channels -> Seq(Messages)]
  BY DEF TypeInv, TypeOK
<1>1. CASE m \in Durable!InQueues
  <2>1. PICK c \in Channels : m \in {AbstractQueue[c][i] : i \in DOMAIN AbstractQueue[c]}
    BY <1>1, Zenon DEF Durable!InQueues
  <2>2. PICK j \in DOMAIN AbstractQueue[c] : m = AbstractQueue[c][j]
    BY <2>1, Zenon
  <2>3. ASSUME NEW i \in DOMAIN received[c], received[c][i] = m PROVE Seen(m)
    <3>1. <<"received", c, i>> \in PlacesIn("received", received, m)
      BY <2>3, InPlacesIn
    <3> QED BY <3>1, Zenon DEF Seen, Places, PlacesOf
  <2>4. CASE c \in SignalChannels
    <3>1. AbstractQueue[c] = received[c] \o inbox[c]
      BY <2>4, Zenon DEF AbstractQueue, Channels
    <3>2. \/ \E i \in DOMAIN received[c] : received[c][i] = m
          \/ \E i \in DOMAIN inbox[c] : inbox[c][i] = m
      <4>1. received[c] \in Seq(Messages) /\ inbox[c] \in Seq(Messages)
        BY <1>0, <2>1
      <4>2. Has(received[c] \o inbox[c], m)
        BY <2>2, <3>1, Zenon DEF Has
      <4>3. Has(received[c], m) \/ Has(inbox[c], m)
        BY <4>1, <4>2, ConcatElement
      <4> QED BY <4>3, Zenon DEF Has
    <3>3. ASSUME NEW i \in DOMAIN inbox[c], inbox[c][i] = m PROVE Seen(m)
      <4>1. <<"inbox", c, i>> \in PlacesIn("inbox", inbox, m)
        BY <3>3, InPlacesIn
      <4> QED BY <2>4, <4>1, Zenon DEF Seen, Places, PlacesOf
    <3> QED BY <2>3, <3>2, <3>3, Zenon
  <2>5. CASE c \notin SignalChannels
    <3>1. AbstractQueue[c] = received[c]
      BY <2>5, Zenon DEF AbstractQueue
    <3> QED BY <2>2, <2>3, <3>1, Zenon
  <2> QED BY <2>4, <2>5
<1>2. CASE m \in UNION {AbstractKept[e] : e \in ExeIds}
  <2>1. PICK e \in ExeIds : m \in AbstractKept[e]
    BY <1>2, Zenon
  <2>2. e \in Holders /\ m \in {cmdValues[e][i] : i \in completedCmds[e]}
    BY <2>1, Zenon DEF AbstractKept
  <2>3. PICK i \in completedCmds[e] : m = cmdValues[e][i]
    BY <2>2, Zenon
  <2>4. <<"held", e, i>> \in Held(m)
    BY <2>2, <2>3, InPlacesHeld DEF Held
  <2> QED BY <2>4, Zenon DEF Seen, Places, PlacesOf
<1>3. CASE m \in AbstractConsumed
  BY <1>3, Zenon DEF AbstractConsumed, Seen
<1> QED BY <1>1, <1>2, <1>3, Zenon DEF Durable!Known

\* The message that is sent next is unknown.
LEMMA NextUnknown ==
  ASSUME TypeInv, MessageInv, Opened, nextMsg \in Messages
  PROVE  nextMsg \notin Durable!Known
<1>1. Accounted(nextMsg)
  BY DEF Opened, MessageInv, MessagesOK
<1>2. ~(nextMsg < nextMsg)
  BY DEF TypeInv, TypeOK
<1>3. Places(nextMsg) = {} /\ delivered[nextMsg] = 0
  BY <1>1, <1>2, Zenon DEF Accounted
<1>4. ~Seen(nextMsg)
  BY <1>3 DEF Seen
<1> QED BY <1>4, KnownSeen

\* So are the messages that ExecuteRpc signals carry, until the signals are processed.
LEMMA InboxUnknown ==
  ASSUME TypeInv, MessageInv, Opened, NEW c \in Channels, c \notin SignalChannels,
         NEW i \in DOMAIN inbox[c]
  PROVE  inbox[c][i] \notin Durable!Known
<1>1. PICK m : m = inbox[c][i]
  OBVIOUS
<1>2. m \in Messages
  BY <1>1 DEF TypeInv, TypeOK
<1>3. <<"inbox", c, i>> \in PlacesIn("inbox", inbox, m)
  BY <1>1, InPlacesIn
<1>4. <<"inbox", c, i>> \in Places(m)
  BY <1>3, Zenon DEF Places, PlacesOf
<1>5. Accounted(m)
  BY <1>2 DEF Opened, MessageInv, MessagesOK
<1>6. Places(m) = {<<"inbox", c, i>>} /\ delivered[m] = 0
  BY <1>4, <1>5, Zenon DEF Accounted
<1>7. ~Seen(m)
  BY <1>6 DEF Seen
<1> QED BY <1>1, <1>7, KnownSeen, Zenon

\* The queue q2 is q with messages at its end that DurableWorkflow does not know.
Joined(q, q2) ==
  \E s \in Seq(Messages) : q2 = q \o s /\ \A i \in DOMAIN s : s[i] \notin Durable!Known

\* The queue of a channel, before and after a step.
LEMMA AbstractQueueAt ==
  ASSUME NEW d \in Channels
  PROVE  /\ AbstractQueue[d] = IF d \in SignalChannels THEN received[d] \o inbox[d] ELSE received[d]
         /\ AbstractQueue'[d] = IF d \in SignalChannels THEN received'[d] \o inbox'[d] ELSE received'[d]
  BY Zenon DEF AbstractQueue

\* The queues of DurableWorkflow are sequences of messages.
LEMMA AbstractQueueType == TypeInv => AbstractQueue \in [Channels -> Seq(Messages)]
<1> SUFFICES ASSUME TypeInv PROVE AbstractQueue \in [Channels -> Seq(Messages)]
  OBVIOUS
<1>1. received \in [Channels -> Seq(Messages)] /\ inbox \in [Channels -> Seq(Messages)]
  BY DEF TypeInv, TypeOK
<1>2. \A c \in Channels : received[c] \o inbox[c] \in Seq(Messages)
  BY <1>1, ConcatProperties
<1> QED BY <1>1, <1>2 DEF AbstractQueue

\* Such messages arrive.
LEMMA JoinedArrive ==
  ASSUME TypeInv, \A c \in Channels : Joined(AbstractQueue[c], AbstractQueue'[c])
  PROVE  Durable!Arrive
<1> SUFFICES ASSUME NEW c \in Channels
             PROVE  /\ Len(AbstractQueue[c]) <= Len(AbstractQueue'[c])
                    /\ SubSeq(AbstractQueue'[c], 1, Len(AbstractQueue[c])) = AbstractQueue[c]
                    /\ \A i \in (Len(AbstractQueue[c]) + 1)..Len(AbstractQueue'[c]) :
                         AbstractQueue'[c][i] \notin Durable!Known
  BY Zenon DEF Durable!Arrive
<1>1. PICK q : q = AbstractQueue[c]
  OBVIOUS
<1>2. PICK s \in Seq(Messages) : AbstractQueue'[c] = q \o s /\ \A i \in DOMAIN s : s[i] \notin Durable!Known
  BY <1>1, Zenon DEF Joined
<1>3. q \in Seq(Messages)
  BY <1>1, AbstractQueueType
<1>4. /\ Len(q) \in Nat /\ Len(s) \in Nat /\ Len(q \o s) = Len(q) + Len(s)
      /\ DOMAIN s = 1..Len(s)
  BY <1>3
<1>5. Len(q) <= Len(q \o s)
  BY <1>4
<1>6. SubSeq(q \o s, 1, Len(q)) = q
  <2>1. CASE q = << >>
    BY <2>1, <1>3, SubSeqEmpty
  <2>2. CASE q # << >>
    <3>1. Len(q) \in 1..Len(q) /\ 1 \in 1..Len(q)
      BY <1>3, <2>2
    <3>2. SubSeq(q \o s, 1, Len(q)) = SubSeq(q, 1, Len(q))
      BY <1>3, <3>1, SubSeqOfConcat1
    <3> QED BY <1>3, <3>2, SubSeqFull
  <2> QED BY <2>1, <2>2
<1>7. ASSUME NEW i \in (Len(q) + 1)..Len(q \o s) PROVE (q \o s)[i] \notin Durable!Known
  <2>1. i \in 1..(Len(q) + Len(s)) /\ ~(i <= Len(q)) /\ i - Len(q) \in DOMAIN s
    BY <1>4
  <2>2. (q \o s)[i] = s[i - Len(q)]
    BY <1>3, <2>1, ConcatProperties
  <2> QED BY <1>2, <2>1, <2>2, Zenon
<1> QED BY <1>1, <1>2, <1>5, <1>6, <1>7, Zenon

\* Nothing joins a queue,
LEMMA JoinedNone ==
  ASSUME NEW q \in Seq(Messages) PROVE Joined(q, q)
<1>1. << >> \in Seq(Messages) /\ q = q \o << >> /\ \A i \in DOMAIN << >> : FALSE
  BY ConcatEmptySeq
<1> QED BY <1>1, Zenon DEF Joined

\* or one message does.
LEMMA JoinedOne ==
  ASSUME NEW q \in Seq(Messages), NEW x \in Messages, x \notin Durable!Known
  PROVE  Joined(q, Append(q, x))
<1>1. /\ <<x>> \in Seq(Messages) /\ Append(q, x) = q \o <<x>>
      /\ \A i \in DOMAIN <<x>> : <<x>>[i] = x
  BY AppendIsConcat
<1> QED BY <1>1, Zenon DEF Joined

\* A message that is published arrives.
LEMMA PublishArrives ==
  ASSUME TypeInv, MessageInv, Opened, NEW pub \in Publishes, AllocateMessage(pub),
         received' = ProcessPublishing(received, pub), UNCHANGED inbox
  PROVE  Durable!Arrive
<1>0. received \in [Channels -> Seq(Messages)] /\ inbox \in [Channels -> Seq(Messages)]
  BY DEF TypeInv, TypeOK
<1>1. CASE pub = NoChannel
  <2>1. AbstractQueue' = AbstractQueue
    BY <1>1, Zenon DEF ProcessPublishing, AbstractQueue
  <2> QED BY <2>1, AbstractQueueType, JoinedNone, JoinedArrive
<1>2. CASE pub # NoChannel
  <2>1. /\ pub \in InternalChannels /\ pub \in Channels /\ pub \notin SignalChannels
        /\ nextMsg \in Messages
    BY <1>2, BoundsAssumption, ChannelsAssumption
    DEF Publishes, AllocateMessage, Channels, Messages, TypeInv, TypeOK
  <2>2. received' = [received EXCEPT ![pub] = Append(@, nextMsg)]
    BY <1>2 DEF ProcessPublishing
  <2>3. AbstractQueue'[pub] = Append(AbstractQueue[pub], nextMsg)
    <3>1. received'[pub] = Append(received[pub], nextMsg)
      BY <1>0, <2>1, <2>2
    <3> QED BY <2>1, <3>1, Zenon DEF AbstractQueue
  <2>4. ASSUME NEW c \in Channels, c # pub PROVE AbstractQueue'[c] = AbstractQueue[c]
    <3>1. received'[c] = received[c]
      BY <1>0, <2>2, <2>4
    <3> QED BY <3>1, Zenon DEF AbstractQueue
  <2>5. nextMsg \notin Durable!Known
    BY <2>1, NextUnknown
  <2>6. ASSUME NEW c \in Channels PROVE Joined(AbstractQueue[c], AbstractQueue'[c])
    <3>1. AbstractQueue[c] \in Seq(Messages)
      BY AbstractQueueType
    <3>2. CASE c = pub
      BY <2>1, <2>3, <2>5, <3>1, <3>2, JoinedOne, Zenon
    <3>3. CASE c # pub
      BY <2>4, <3>1, <3>3, JoinedNone, Zenon
    <3> QED BY <3>2, <3>3
  <2> QED BY <2>6, JoinedArrive
<1> QED BY <1>1, <1>2

\* A signal arrives when it is sent.
LEMMA SignalArrives ==
  ASSUME TypeInv, MessageInv, Opened, NEW c \in SignalChannels, SignalWorkflow(c)
  PROVE  Durable!Arrive
<1>0. received \in [Channels -> Seq(Messages)] /\ inbox \in [Channels -> Seq(Messages)]
  BY DEF TypeInv, TypeOK
<1>1. c \in Channels /\ nextMsg \in Messages
  BY BoundsAssumption DEF SignalWorkflow, Channels, Messages, TypeInv, TypeOK
<1>2. inbox' = [inbox EXCEPT ![c] = Append(@, nextMsg)] /\ received' = received
  BY DEF SignalWorkflow
<1>3. AbstractQueue'[c] = Append(AbstractQueue[c], nextMsg)
  <2>1. inbox'[c] = Append(inbox[c], nextMsg)
    BY <1>0, <1>1, <1>2
  <2>2. AbstractQueue[c] = received[c] \o inbox[c] /\ AbstractQueue'[c] = received[c] \o inbox'[c]
    BY <1>1, <1>2, Zenon DEF AbstractQueue
  <2>3. received[c] \in Seq(Messages) /\ inbox[c] \in Seq(Messages)
    BY <1>0, <1>1
  <2>4. received[c] \o Append(inbox[c], nextMsg) = Append(received[c] \o inbox[c], nextMsg)
    BY <1>1, <2>3, ConcatAppend, Zenon
  <2> QED BY <2>1, <2>2, <2>4, Zenon
<1>4. ASSUME NEW d \in Channels, d # c PROVE AbstractQueue'[d] = AbstractQueue[d]
  <2>1. inbox'[d] = inbox[d]
    BY <1>0, <1>2, <1>4
  <2>2. received'[d] = received[d]
    BY <1>2, Zenon
  <2> QED BY <2>1, <2>2, AbstractQueueAt, Zenon
<1>5. nextMsg \notin Durable!Known
  BY <1>1, NextUnknown
<1>6. ASSUME NEW d \in Channels PROVE Joined(AbstractQueue[d], AbstractQueue'[d])
  <2>1. AbstractQueue[d] \in Seq(Messages)
    BY AbstractQueueType
  <2>2. CASE d = c
    BY <1>1, <1>3, <1>5, <2>1, <2>2, JoinedOne, Zenon
  <2>3. CASE d # c
    BY <1>4, <2>1, <2>3, JoinedNone, Zenon
  <2> QED BY <2>2, <2>3
<1> QED BY <1>6, JoinedArrive

\* Messages that join after others join.
LEMMA JoinedTwice ==
  ASSUME NEW q \in Seq(Messages), NEW q1, NEW q2, Joined(q, q1), Joined(q1, q2)
  PROVE  Joined(q, q2)
<1>1. PICK s \in Seq(Messages) : q1 = q \o s /\ \A i \in DOMAIN s : s[i] \notin Durable!Known
  BY Zenon DEF Joined
<1>2. PICK t \in Seq(Messages) : q2 = q1 \o t /\ \A i \in DOMAIN t : t[i] \notin Durable!Known
  BY Zenon DEF Joined
<1>3. q2 = q \o (s \o t) /\ s \o t \in Seq(Messages)
  <2>1. (q \o s) \o t = q \o (s \o t)
    BY ConcatAssociative
  <2> QED BY <1>1, <1>2, <2>1, ConcatProperties
<1>4. ASSUME NEW i \in DOMAIN (s \o t) PROVE (s \o t)[i] \notin Durable!Known
  <2>1. Has(s \o t, (s \o t)[i])
    BY DEF Has
  <2>2. Has(s, (s \o t)[i]) \/ Has(t, (s \o t)[i])
    BY <2>1, ConcatElement
  <2> QED BY <1>1, <1>2, <2>2, Zenon DEF Has
<1> QED BY <1>3, <1>4, Zenon DEF Joined

\* What the engine holds is drained: the carried messages arrive.
LEMMA DrainArrives ==
  ASSUME TypeInv, MessageInv, Opened, NEW pub \in Publishes, AllocateMessage(pub),
         DrainAllReceivedButUnprocessedSignals(ProcessPublishing(received, pub))
  PROVE  Durable!Arrive
<1> SUFFICES ASSUME NEW c \in Channels PROVE Joined(AbstractQueue[c], AbstractQueue'[c])
  BY JoinedArrive
<1>0. received[c] \in Seq(Messages) /\ inbox[c] \in Seq(Messages)
  BY DEF TypeInv, TypeOK
<1>1. PICK rec : rec = ProcessPublishing(received, pub)
  OBVIOUS
<1>2. /\ rec \in [Channels -> Seq(Messages)] /\ rec[c] \in Seq(Messages)
      /\ pub # c => rec[c] = received[c]
      /\ pub = c => rec[c] = Append(received[c], nextMsg) /\ nextMsg \in Messages
  <2>1. received \in [Channels -> Seq(Messages)] /\ nextMsg \in 1..(MaxMessages + 1)
    BY DEF TypeInv, TypeOK
  <2>2. rec \in [Channels -> Seq(Messages)]
    BY <1>1, <2>1, PublishType
  <2>3. pub = c => pub # NoChannel
    BY ChannelsAssumption
  <2>4. pub # c => rec[c] = received[c]
    BY <1>1, <2>1 DEF ProcessPublishing
  <2>5. pub = c => rec[c] = Append(received[c], nextMsg)
    BY <1>1, <2>1, <2>3 DEF ProcessPublishing
  <2>6. pub = c => nextMsg \in Messages
    BY <2>1, <2>3, BoundsAssumption DEF AllocateMessage, Messages
  <2> QED BY <2>2, <2>4, <2>5, <2>6
<1>3. received'[c] = rec[c] \o inbox[c] /\ inbox'[c] = << >>
  BY <1>1 DEF DrainAllReceivedButUnprocessedSignals, DrainedReceived, EmptyInbox
<1>4. CASE c \in SignalChannels
  <2>1. c # pub
    BY <1>4, ChannelsAssumption DEF Publishes
  <2>2. received'[c] \o inbox'[c] = received[c] \o inbox[c]
    <3>1. (received[c] \o inbox[c]) \o << >> = received[c] \o inbox[c]
      <4>1. received[c] \o inbox[c] \in Seq(Messages)
        BY <1>0, ConcatProperties
      <4> QED BY <4>1, ConcatEmptySeq
    <3> QED BY <1>2, <1>3, <2>1, <3>1, Zenon
  <2>3. AbstractQueue'[c] = AbstractQueue[c]
    BY <1>4, <2>2, AbstractQueueAt, Zenon
  <2>4. AbstractQueue[c] \in Seq(Messages)
    BY AbstractQueueType
  <2> QED BY <2>3, <2>4, JoinedNone, Zenon
<1>5. CASE c \notin SignalChannels
  <2>1. AbstractQueue[c] = received[c] /\ AbstractQueue'[c] = rec[c] \o inbox[c]
    BY <1>3, <1>5, AbstractQueueAt, Zenon
  <2>2. Joined(received[c], rec[c])
    <3>1. CASE pub = c
      <4>1. nextMsg \notin Durable!Known
        BY <1>2, <3>1, NextUnknown
      <4> QED BY <1>0, <1>2, <3>1, <4>1, JoinedOne
    <3>2. CASE pub # c
      BY <1>0, <1>2, <3>2, JoinedNone
    <3> QED BY <3>1, <3>2
  <2>3. Joined(rec[c], rec[c] \o inbox[c])
    BY <1>0, <1>5, InboxUnknown, Zenon DEF Joined
  <2> QED BY <1>0, <2>1, <2>2, <2>3, JoinedTwice, Zenon
<1> QED BY <1>4, <1>5

\* An ExecuteRpc signal is processed: the message that it carries arrives.
LEMMA RpcArrives ==
  ASSUME TypeInv, MessageInv, Opened, ExecuteRpcHandler
  PROVE  Durable!Arrive
<1> SUFFICES ASSUME NEW c \in Channels PROVE Joined(AbstractQueue[c], AbstractQueue'[c])
  BY JoinedArrive
<1>0. received[c] \in Seq(Messages) /\ inbox[c] \in Seq(Messages)
  BY DEF TypeInv, TypeOK
<1>1. Head(rpcInbox).chan \in InternalChannels \cup {NoChannel}
  <2>1. rpcInbox \in Seq(Rpcs) /\ rpcInbox # << >>
    BY DEF TypeInv, TypeOK, ExecuteRpcHandler
  <2>2. Head(rpcInbox) \in Rpcs
    BY <2>1
  <2> QED BY <2>2 DEF Rpcs
<1>2. CASE c # Head(rpcInbox).chan
  <2>1. received'[c] = received[c] /\ inbox'[c] = inbox[c]
    BY <1>2 DEF ExecuteRpcHandler
  <2>2. AbstractQueue'[c] = AbstractQueue[c]
    BY <2>1, AbstractQueueAt, Zenon
  <2>3. AbstractQueue[c] \in Seq(Messages)
    BY AbstractQueueType
  <2> QED BY <2>2, <2>3, JoinedNone, Zenon
<1>3. CASE c = Head(rpcInbox).chan
  <2>1. c \notin SignalChannels
    BY <1>1, <1>3, ChannelsAssumption
  <2>2. received'[c] = received[c] \o First(inbox[c])
    BY <1>3 DEF ExecuteRpcHandler
  <2>3. AbstractQueue[c] = received[c] /\ AbstractQueue'[c] = received[c] \o First(inbox[c])
    BY <2>1, <2>2, AbstractQueueAt, Zenon
  <2>4. First(inbox[c]) \in Seq(Messages)
    BY <1>0 DEF First
  <2>5. \A i \in DOMAIN First(inbox[c]) : i \in DOMAIN inbox[c] /\ First(inbox[c])[i] = inbox[c][i]
    BY <1>0 DEF First
  <2>6. \A i \in DOMAIN First(inbox[c]) : First(inbox[c])[i] \notin Durable!Known
    BY <2>1, <2>5, InboxUnknown, Zenon
  <2> QED BY <2>3, <2>4, <2>6, Zenon DEF Joined
<1> QED BY <1>2, <1>3

\* A step that does not change what a client sees of the channels.
LEMMA SameQueueArrives ==
  ASSUME TypeInv, AbstractQueue' = AbstractQueue
  PROVE  Durable!Arrive
<1>1. ASSUME NEW c \in Channels PROVE Joined(AbstractQueue[c], AbstractQueue'[c])
  <2>1. AbstractQueue[c] \in Seq(Messages)
    BY AbstractQueueType
  <2> QED BY <2>1, JoinedNone, Zenon
<1> QED BY <1>1, JoinedArrive, Zenon

\* The user signal handler moves signals within the channels that a client sees.
LEMMA UserSignalInvisible ==
  ASSUME TypeInv, UserSignalHandler
  PROVE  AbstractQueue' = AbstractQueue
<1>1. ASSUME NEW c \in Channels PROVE AbstractQueue'[c] = AbstractQueue[c]
  <2>1. received[c] \in Seq(Messages) /\ inbox[c] \in Seq(Messages)
    BY DEF TypeInv, TypeOK
  <2>2. CASE c \in SignalChannels
    <3>1. received'[c] = received[c] \o inbox[c] /\ inbox'[c] = << >>
      BY <2>2 DEF UserSignalHandler
    <3>2. received[c] \o inbox[c] \in Seq(Messages)
      BY <2>1, ConcatProperties
    <3>3. (received[c] \o inbox[c]) \o << >> = received[c] \o inbox[c]
      BY <3>2, ConcatEmptySeq
    <3> QED BY <2>2, <3>1, <3>3, AbstractQueueAt, Zenon
  <2>3. CASE c \notin SignalChannels
    <3>1. received'[c] = received[c]
      BY <2>3 DEF UserSignalHandler
    <3> QED BY <2>3, <3>1, AbstractQueueAt, Zenon
  <2> QED BY <2>2, <2>3
<1> QED BY <1>1 DEF AbstractQueue

\* A step after which the workflow is open starts with an open workflow: what is closed
\* stays closed, and an error is forgotten only by a new run, which is not started then.
LEMMA OpenedBefore ==
  ASSUME TypeInv, LifeInv, Next, Opened'
  PROVE  Opened
<1> USE DEF mainVars, queueVars, flagVars, counterVars, threadVars, signalVars, idVars, histVars
<1>1. main # "closed"
  <2>1. CASE Clients
    BY <2>1 DEF Clients, SignalWorkflow, FailWorkflow, ExecuteRpcSignal, UpdateHandlerStart,
         MeetThreshold, Open, Running
  <2>2. CASE UpdateHandler \/ SignalHandlers
    BY <2>2 DEF UpdateHandler, UpdateHandlerFinish, UpdateHandlerFail, SignalHandlers,
         FailWorkflowHandler, ExecuteRpcHandler, UserSignalHandler, HandlerExit, Running
  <2>3. ASSUME NEW e \in ExeIds, ApiCall(e) PROVE main # "closed"
    BY <2>3 DEF ApiCall, WaitUntilCompleted, WaitUntilFailedAndProceed, WaitUntilFailed,
         ExecuteFailed, ExecuteCompleted, ExecuteCompletedConditionally,
         ExecuteApiFailedAndProceed, Running
  <2>4. ASSUME NEW e \in ExeIds, StateThread(e) PROVE main # "closed"
    BY <2>4 DEF StateThread, CommandReqDoneOrCanceled, ReturnWaitingCommands, InvokeStateExecute,
         ConditionalClose, Running
  <2>5. ASSUME NEW e \in ExeIds, NEW i \in CmdIdx, CommandThread(e, i) \/ TimerFired(e, i)
        PROVE  main # "closed"
    BY <2>5 DEF CommandThread, CommandReceive, CommandCancel, TimerFired, Running
  <2>6. CASE MainLoop
    BY <2>6 DEF MainLoop, OuterFailByClient, OuterComplete, OuterEnterInner, OuterDrain, InnerClose,
         InnerNextIteration, InnerNoMoreState, InnerDrain, InnerDrained, ContinueAsNew,
         LoadInternalsFromPreviousRun
  <2> QED BY <2>1, <2>2, <2>3, <2>4, <2>5, <2>6 DEF Next
<1>2. errToFailWf' \/ ~errToFailWf
  <2>0. errToFailWf \in BOOLEAN
    BY DEF TypeInv, TypeOK
  <2>1. CASE Clients
    BY <2>1 DEF Clients, SignalWorkflow, FailWorkflow, ExecuteRpcSignal, UpdateHandlerStart,
         MeetThreshold
  <2>2. CASE UpdateHandler \/ SignalHandlers
    BY <2>2 DEF UpdateHandler, UpdateHandlerFinish, UpdateHandlerFail, SignalHandlers,
         FailWorkflowHandler, ExecuteRpcHandler, UserSignalHandler, HandlerExit
  <2>3. ASSUME NEW e \in ExeIds, ApiCall(e) PROVE errToFailWf' \/ ~errToFailWf
    BY <2>3 DEF ApiCall, WaitUntilCompleted, WaitUntilFailedAndProceed, StartWaiting,
         WaitUntilFailed, ExecuteFailed, FailExecution, ExecuteCompleted,
         ExecuteCompletedConditionally, ExecuteApiFailedAndProceed
  <2>4. ASSUME NEW e \in ExeIds, StateThread(e) PROVE errToFailWf' \/ ~errToFailWf
    BY <2>4 DEF StateThread, CommandReqDoneOrCanceled, ReturnWaitingCommands, InvokeStateExecute,
         ConditionalClose
  <2>5. ASSUME NEW e \in ExeIds, NEW i \in CmdIdx, CommandThread(e, i) \/ TimerFired(e, i)
        PROVE  errToFailWf' \/ ~errToFailWf
    BY <2>5 DEF CommandThread, CommandReceive, CommandCancel, TimerFired
  <2>6. CASE MainLoop
    BY <2>6 DEF MainLoop, OuterFailByClient, OuterComplete, OuterEnterInner, OuterDrain, InnerClose,
         InnerNextIteration, InnerNoMoreState, InnerDrain, InnerDrained, ContinueAsNew,
         LoadInternalsFromPreviousRun, UnchangedButMain, EnterInnerLoop, LifeInv, PhaseOK
  <2> QED BY <2>1, <2>2, <2>3, <2>4, <2>5, <2>6 DEF Next
<1> QED BY <1>1, <1>2 DEF Opened, Open

\* The executions keep the same messages,
LEMMA SameKeptMessages ==
  ASSUME Holders' = Holders, UNCHANGED <<completedCmds, cmdValues>>
  PROVE  AbstractKept' = AbstractKept
  BY Zenon DEF AbstractKept

\* and are in the same phase of their life.
LEMMA SamePhases ==
  ASSUME PendingExes' = PendingExes, UNCHANGED started
  PROVE  AbstractStatus' = AbstractStatus
  BY Zenon DEF AbstractStatus

\* A step that only lets messages arrive, if it changes anything.
LEMMA MessageStep ==
  ASSUME Opened, Opened', Durable!Arrive, UNCHANGED <<started, delivered, completedCmds, cmdValues>>,
         Holders' = Holders, PendingExes' = PendingExes
  PROVE  Durable!NextContract
<1>1. AbstractKept' = AbstractKept /\ AbstractStatus' = AbstractStatus
  BY SameKeptMessages, SamePhases
<1>2. AbstractConsumed' = AbstractConsumed
  BY DEF AbstractConsumed
<1>3. (Open /\ ~errToFailWf)' = (Open /\ ~errToFailWf) /\ Open /\ ~errToFailWf
  BY DEF Opened
<1>4. Durable!Message
  BY <1>1, <1>2, <1>3, Zenon DEF Durable!Message
<1> QED BY <1>3, <1>4, Zenon DEF Durable!NextContract

\* A step that leaves the executions alone.
LEMMA QuietStep ==
  ASSUME Opened, Opened', Durable!Arrive, UNCHANGED keptVars, UNCHANGED <<started, delivered>>
  PROVE  Durable!NextContract
<1>1. /\ Holders' = Holders /\ PendingExes' = PendingExes
      /\ UNCHANGED <<started, delivered, completedCmds, cmdValues>>
  BY DEF keptVars, Holders, PendingExes
<1> QED BY <1>1, MessageStep

\* Clients and handlers only send and receive messages.
LEMMA HandlersRefine ==
  ASSUME TypeInv, MessageInv, Opened, Opened', Clients \/ UpdateHandler \/ SignalHandlers
  PROVE  Durable!NextContract
<1> USE DEF mainVars, queueVars, flagVars, counterVars, threadVars, signalVars, idVars, histVars
<1>1. UNCHANGED keptVars /\ UNCHANGED <<started, delivered>>
  BY DEF keptVars, Clients, SignalWorkflow, FailWorkflow, ExecuteRpcSignal, UpdateHandlerStart,
         MeetThreshold, UpdateHandler, UpdateHandlerFinish, UpdateHandlerFail, SignalHandlers,
         FailWorkflowHandler, ExecuteRpcHandler, UserSignalHandler, HandlerExit
<1>2. ASSUME NEW c \in SignalChannels, SignalWorkflow(c) PROVE Durable!Arrive
  BY <1>2, SignalArrives
<1>3. ASSUME UNCHANGED <<inbox, received>> PROVE Durable!Arrive
  <2>1. AbstractQueue' = AbstractQueue
    BY <1>3, Zenon DEF AbstractQueue
  <2> QED BY <2>1, SameQueueArrives
<1>4. ASSUME NEW next \in StateIds \cup {NoState}, NEW pub \in Publishes, ExecuteRpcSignal(next, pub)
      PROVE  Durable!Arrive
  <2>1. /\ received' = received /\ inbox' = ProcessPublishing(inbox, pub)
        /\ inbox \in [Channels -> Seq(Messages)]
    BY <1>4 DEF ExecuteRpcSignal, TypeInv, TypeOK
  <2>2. pub \notin SignalChannels
    BY ChannelsAssumption DEF Publishes, Channels
  <2>3. \A c \in Channels : c \in SignalChannels => inbox'[c] = inbox[c]
    BY <2>1, <2>2 DEF ProcessPublishing
  <2>4. \A c \in Channels : AbstractQueue'[c] = AbstractQueue[c]
    BY <2>1, <2>3, AbstractQueueAt, Zenon
  <2>5. AbstractQueue' = AbstractQueue
    BY <2>4 DEF AbstractQueue
  <2> QED BY <2>5, SameQueueArrives
<1>5. ASSUME NEW next \in StateIds \cup {NoState}, NEW pub \in Publishes,
             UpdateHandlerFinish(next, pub)
      PROVE  Durable!Arrive
  BY <1>5, PublishArrives DEF UpdateHandlerFinish
<1>6. CASE UserSignalHandler
  BY <1>1, <1>6, UserSignalInvisible, SameQueueArrives, QuietStep
<1>7. CASE ExecuteRpcHandler
  BY <1>1, <1>7, RpcArrives, QuietStep
<1>8. CASE \/ FailWorkflow \/ UpdateHandlerStart \/ MeetThreshold \/ UpdateHandlerFail
           \/ FailWorkflowHandler \/ \E h \in Handlers : HandlerExit(h)
  <2>1. UNCHANGED <<inbox, received>>
    BY <1>8 DEF FailWorkflow, UpdateHandlerStart, MeetThreshold, UpdateHandlerFail,
                FailWorkflowHandler, HandlerExit
  <2> QED BY <1>1, <1>3, <2>1, QuietStep
<1>9. Durable!Arrive \/ Durable!NextContract
  BY <1>2, <1>4, <1>5, <1>6, <1>7, <1>8 DEF Clients, UpdateHandler, SignalHandlers
<1> QED BY <1>1, <1>9, QuietStep

\* A step that ends an execution, which keeps no message, and may let messages arrive.
LEMMA EndStep ==
  ASSUME TypeInv, ThreadsOK, Opened, Opened', Durable!Arrive, NEW e \in ExeIds, e \notin Holders,
         e \in PendingExes, PendingExes' = PendingExes \ {e}, Holders' = Holders,
         UNCHANGED <<started, delivered, completedCmds, cmdValues>>
  PROVE  Durable!NextContract
<1>1. AbstractKept' = AbstractKept /\ AbstractKept[e] = {}
  BY SameKeptMessages DEF AbstractKept
<1>2. AbstractConsumed' = AbstractConsumed
  BY DEF AbstractConsumed
<1>3. (Open /\ ~errToFailWf)' = (Open /\ ~errToFailWf) /\ Open /\ ~errToFailWf
  BY DEF Opened
<1>4. ~(e[2] > started[e[1]])
  <2>1. e[2] <= started[e[1]] /\ e[2] \in Nat /\ started[e[1]] \in Nat
    BY BoundsAssumption DEF ThreadsOK, ExeIds, TypeInv, TypeOK
  <2> QED BY <2>1
<1>5. AbstractStatus[e] = "active"
  BY <1>4, Zenon DEF AbstractStatus
<1>6. AbstractStatus' = [AbstractStatus EXCEPT ![e] = "ended"]
  <2>1. AbstractStatus'[e] = "ended"
    BY <1>4, Zenon DEF AbstractStatus
  <2>2. ASSUME NEW d \in ExeIds, d # e PROVE AbstractStatus'[d] = AbstractStatus[d]
    <3>1. d \in PendingExes' <=> d \in PendingExes
      BY <2>2
    <3>2. /\ AbstractStatus[d] = IF d[2] > started[d[1]] THEN "unborn"
                                 ELSE IF d \in PendingExes THEN "active" ELSE "ended"
          /\ AbstractStatus'[d] = IF d[2] > started[d[1]] THEN "unborn"
                                 ELSE IF d \in PendingExes' THEN "active" ELSE "ended"
      BY Zenon DEF AbstractStatus
    <3> QED BY <3>1, <3>2
  <2>3. /\ AbstractStatus = [d \in ExeIds |-> AbstractStatus[d]]
        /\ AbstractStatus' = [d \in ExeIds |-> AbstractStatus'[d]]
    BY DEF AbstractStatus
  <2> QED BY <2>1, <2>2, <2>3
<1>7. Durable!End(e)
  BY <1>1, <1>2, <1>3, <1>5, <1>6, Zenon DEF Durable!End
<1> QED BY <1>3, <1>7, Zenon DEF Durable!NextContract

\* The thread of an execution ends after its decision.
LEMMA ThreadEndStep ==
  ASSUME TypeInv, LifeInv, Opened, Opened', Durable!Arrive, NEW e \in ExeIds,
         thread[e] \in {"execute", "closing"}, thread' = [thread EXCEPT ![e] = "none"],
         toResume' \in {toResume, toResume \ {e}}, e \notin toResume', resumeQ' = resumeQ,
         UNCHANGED <<started, delivered, completedCmds, cmdValues>>
  PROVE  Durable!NextContract
<1>0. /\ thread \in [ExeIds -> {"none", "waitUntil", "waiting", "draining", "execute", "closing"}]
      /\ toResume \subseteq ExeIds /\ resumeQ \subseteq ExeIds /\ ThreadsOK
  BY DEF LifeInv, TypeInv, TypeOK
<1>1. e \notin Holders /\ e \in PendingExes /\ e \notin resumeQ
  BY <1>0 DEF Holders, PendingExes, ThreadsOK
<1>2. PendingExes' = PendingExes \ {e}
  <2>1. \A d \in ExeIds : d \in PendingExes' <=> d \in PendingExes /\ d # e
    BY <1>0, <1>1 DEF PendingExes
  <2> QED BY <1>0, <2>1 DEF PendingExes
<1>3. Holders' = Holders
  <2>1. \A d \in ExeIds : d \in Holders' <=> d \in Holders
    BY <1>0, <1>1 DEF Holders
  <2> QED BY <2>1 DEF Holders
<1> QED BY <1>0, <1>1, <1>2, <1>3, EndStep, Zenon

\* The answers of the workers: a message may arrive, and an execution may end.
LEMMA ApiCallRefines ==
  ASSUME TypeInv, LifeInv, MessageInv, ProceedingStatesSkip, Opened, Opened',
         NEW e \in ExeIds, ApiCall(e)
  PROVE  Durable!NextContract
<1> USE DEF mainVars, queueVars, flagVars, counterVars, threadVars, signalVars, idVars, histVars
<1>0. /\ thread \in [ExeIds -> {"none", "waitUntil", "waiting", "draining", "execute", "closing"}]
      /\ toResume \subseteq ExeIds /\ resumeQ \subseteq ExeIds
      /\ completedCmds \in [ExeIds -> SUBSET CmdIdx]
      /\ ThreadsOK
  BY DEF LifeInv, TypeInv, TypeOK
<1>1. ASSUME NEW req, NEW pub \in Publishes, StartWaiting(e, req, pub) PROVE Durable!NextContract
  <2>1. Durable!Arrive
    BY <1>1, PublishArrives DEF StartWaiting
  <2>2. /\ thread[e] = "waitUntil" /\ thread' = [thread EXCEPT ![e] = "waiting"]
        /\ toResume' = toResume \cup {e} /\ resumeQ' = resumeQ
        /\ completedCmds' = [completedCmds EXCEPT ![e] = {}]
        /\ UNCHANGED <<started, delivered, cmdValues>>
    BY <1>1 DEF StartWaiting
  <2>3. PendingExes' = PendingExes
    BY <1>0, <2>2 DEF PendingExes
  <2>4. e \notin Holders /\ \A d \in ExeIds : d # e => (d \in Holders' <=> d \in Holders)
    BY <1>0, <2>2 DEF Holders
  <2>5. AbstractKept' = AbstractKept
    <3>1. AbstractKept[e] = {} /\ AbstractKept'[e] = {}
      <4>1. completedCmds'[e] = {}
        BY <1>0, <2>2
      <4>2. {cmdValues'[e][i] : i \in completedCmds'[e]} = {}
        BY <4>1
      <4> QED BY <2>4, <4>2 DEF AbstractKept
    <3>2. ASSUME NEW d \in ExeIds, d # e PROVE AbstractKept'[d] = AbstractKept[d]
      <4>1. completedCmds'[d] = completedCmds[d] /\ cmdValues' = cmdValues
        BY <1>0, <2>2, <3>2
      <4>2. d \in Holders' <=> d \in Holders
        BY <2>4, <3>2
      <4> QED BY <4>1, <4>2, Zenon DEF AbstractKept
    <3>3. \A d \in ExeIds : AbstractKept'[d] = AbstractKept[d]
      BY <3>1, <3>2, Zenon
    <3> QED BY <3>3 DEF AbstractKept
  <2>6. AbstractStatus' = AbstractStatus /\ AbstractConsumed' = AbstractConsumed
    BY <2>2, <2>3, SamePhases DEF AbstractConsumed
  <2>7. (Open /\ ~errToFailWf)' = (Open /\ ~errToFailWf) /\ Open /\ ~errToFailWf
    BY DEF Opened
  <2>8. Durable!Message
    BY <2>1, <2>5, <2>6, <2>7, Zenon DEF Durable!Message
  <2> QED BY <2>7, <2>8, Zenon DEF Durable!NextContract
<1>2. CASE \/ \E req \in CommandRequests, pub \in Publishes : WaitUntilCompleted(e, req, pub)
           \/ WaitUntilFailedAndProceed(e)
  <2>1. NoChannel \in Publishes
    BY DEF Publishes
  <2> QED BY <1>1, <1>2, <2>1 DEF WaitUntilCompleted, WaitUntilFailedAndProceed
<1>3. CASE WaitUntilFailed(e) \/ ExecuteFailed(e)
  BY <1>3 DEF WaitUntilFailed, ExecuteFailed, FailExecution, Opened
<1>4. ASSUME NEW d \in Decisions, NEW pub \in Publishes, ExecuteCompleted(e, d, pub)
      PROVE  Durable!NextContract
  <2>1. Durable!Arrive
    BY <1>4, PublishArrives DEF ExecuteCompleted
  <2>2. /\ thread[e] = "execute" /\ thread' = [thread EXCEPT ![e] = "none"]
        /\ toResume' = toResume \ {e} /\ e \notin toResume' /\ resumeQ' = resumeQ
        /\ UNCHANGED <<started, delivered, completedCmds, cmdValues>>
    BY <1>4 DEF ExecuteCompleted, MarkStateExecutionCompleted
  <2> QED BY <2>1, <2>2, ThreadEndStep
<1>5. CASE ExecuteApiFailedAndProceed(e)
  <2>1. Durable!Arrive
    <3>1. AbstractQueue' = AbstractQueue
      BY <1>5, Zenon DEF ExecuteApiFailedAndProceed, AbstractQueue
    <3> QED BY <3>1, SameQueueArrives
  <2>2. /\ thread[e] = "execute" /\ thread' = [thread EXCEPT ![e] = "none"]
        /\ toResume' = toResume /\ resumeQ' = resumeQ
        /\ ExecuteApiFailureProceedStateId[e[1]] # NoState
        /\ UNCHANGED <<started, delivered, completedCmds, cmdValues>>
    BY <1>5 DEF ExecuteApiFailedAndProceed, MarkStateExecutionCompleted
  <2>3. e \notin toResume
    BY <1>0, <2>2 DEF ProceedingStatesSkip, ThreadsOK, ExeIds
  <2> QED BY <2>1, <2>2, <2>3, ThreadEndStep
<1>6. ASSUME NEW d \in Decisions, NEW pub \in Publishes, ExecuteCompletedConditionally(e, d, pub)
      PROVE  Durable!NextContract
  <2>1. Durable!Arrive
    BY <1>6, DrainArrives DEF ExecuteCompletedConditionally
  <2>2. /\ thread[e] = "execute" /\ thread' = [thread EXCEPT ![e] = "closing"]
        /\ toResume' = toResume \ {e} /\ resumeQ' = resumeQ
        /\ UNCHANGED <<started, delivered, completedCmds, cmdValues>>
    BY <1>6 DEF ExecuteCompletedConditionally
  <2>3. PendingExes' = PendingExes
    BY <1>0, <2>2 DEF PendingExes
  <2>4. Holders' = Holders
    <3>1. \A x \in ExeIds : x \in Holders' <=> x \in Holders
      BY <1>0, <2>2 DEF Holders
    <3> QED BY <3>1 DEF Holders
  <2> QED BY <2>1, <2>2, <2>3, <2>4, MessageStep
<1> QED BY <1>2, <1>3, <1>4, <1>5, <1>6 DEF ApiCall

\* The oldest message of a channel that a client sees is the oldest one received.
LEMMA TailOfConcat ==
  ASSUME NEW q \in Seq(Messages), NEW r \in Seq(Messages), q # << >>
  PROVE  q \o r # << >> /\ Head(q \o r) = Head(q) /\ Tail(q \o r) = Tail(q) \o r
<1> DEFINE u == Tail(q \o r)
           v == Tail(q) \o r
<1>1. /\ Len(q) \in Nat /\ Len(q) >= 1 /\ Len(r) \in Nat /\ Tail(q) \in Seq(Messages)
      /\ Len(Tail(q)) = Len(q) - 1 /\ Head(q) = q[1]
      /\ \A i \in 1..(Len(q) - 1) : Tail(q)[i] = q[i + 1]
  OBVIOUS
<1>2. /\ q \o r \in Seq(Messages) /\ Len(q \o r) = Len(q) + Len(r)
      /\ \A i \in 1..(Len(q) + Len(r)) : (q \o r)[i] = IF i <= Len(q) THEN q[i] ELSE r[i - Len(q)]
  BY ConcatProperties
<1>3. q \o r # << >> /\ Head(q \o r) = (q \o r)[1]
  BY <1>1, <1>2
<1>4. Head(q \o r) = Head(q)
  <2>1. 1 \in 1..(Len(q) + Len(r)) /\ 1 <= Len(q)
    BY <1>1
  <2> QED BY <1>1, <1>2, <1>3, <2>1, Zenon
<1>5. u \in Seq(Messages) /\ Len(u) = Len(q) + Len(r) - 1
      /\ \A i \in 1..Len(u) : u[i] = (q \o r)[i + 1]
  <2>1. PICK w \in Seq(Messages) : w = q \o r
    BY <1>2
  <2>2. /\ Tail(w) \in Seq(Messages) /\ Len(Tail(w)) = Len(w) - 1
        /\ \A i \in 1..Len(Tail(w)) : Tail(w)[i] = w[i + 1]
    BY <1>3, <2>1, HeadTailProperties
  <2> QED BY <1>2, <2>1, <2>2
<1>6. /\ v \in Seq(Messages) /\ Len(v) = (Len(q) - 1) + Len(r)
      /\ \A i \in 1..((Len(q) - 1) + Len(r)) :
           v[i] = IF i <= Len(q) - 1 THEN Tail(q)[i] ELSE r[i - (Len(q) - 1)]
  <2>1. PICK w \in Seq(Messages) : w = Tail(q)
    BY <1>1
  <2>2. /\ w \o r \in Seq(Messages) /\ Len(w \o r) = Len(w) + Len(r)
        /\ \A i \in 1..(Len(w) + Len(r)) : (w \o r)[i] = IF i <= Len(w) THEN w[i] ELSE r[i - Len(w)]
    BY ConcatProperties
  <2>3. Len(w) = Len(q) - 1
    BY <1>1, <2>1
  <2> QED BY <2>1, <2>2, <2>3
<1> HIDE DEF u, v
<1>7. Len(u) = Len(v) /\ Len(u) = Len(q) + Len(r) - 1
  BY <1>1, <1>5, <1>6
<1>8. ASSUME NEW i \in 1..Len(u) PROVE u[i] = v[i]
  <2>1. /\ i + 1 \in 1..(Len(q) + Len(r)) /\ i \in 1..((Len(q) - 1) + Len(r))
        /\ (i + 1) - Len(q) = i - (Len(q) - 1) /\ (i + 1 <= Len(q) <=> i <= Len(q) - 1)
    BY <1>1, <1>7
  <2>2. u[i] = IF i + 1 <= Len(q) THEN q[i + 1] ELSE r[(i + 1) - Len(q)]
    BY <1>2, <1>5, <2>1, Zenon
  <2>3. v[i] = IF i <= Len(q) - 1 THEN Tail(q)[i] ELSE r[i - (Len(q) - 1)]
    BY <1>6, <2>1, Zenon
  <2>4. CASE i <= Len(q) - 1
    <3>1. i \in 1..(Len(q) - 1)
      BY <1>1, <2>4
    <3> QED BY <1>1, <2>1, <2>2, <2>3, <2>4, <3>1, Zenon
  <2>5. CASE ~(i <= Len(q) - 1)
    BY <2>1, <2>2, <2>3, <2>5, Zenon
  <2> QED BY <2>4, <2>5
<1>9. u = v
  BY <1>5, <1>6, <1>7, <1>8, SeqEqual
<1> QED BY <1>3, <1>4, <1>9 DEF u, v

\* A command thread takes a message for its execution; that of a timer takes none.
LEMMA CommandThreadRefines ==
  ASSUME TypeInv, LifeInv, MessageInv, Opened, Opened', NEW e \in ExeIds, NEW i \in CmdIdx,
         CommandThread(e, i) \/ TimerFired(e, i)
  PROVE  Durable!NextContract
<1> USE DEF mainVars, queueVars, flagVars, counterVars, threadVars, signalVars, idVars, histVars
<1>0. /\ completedCmds \in [ExeIds -> SUBSET CmdIdx]
      /\ cmdValues \in [ExeIds -> [CmdIdx -> 0..MaxMessages]]
      /\ received \in [Channels -> Seq(Messages)] /\ inbox \in [Channels -> Seq(Messages)]
      /\ CommandThreadsOK /\ ThreadsOK
  BY DEF TypeInv, TypeOK, MessageInv, LifeInv
<1>1. /\ i \in cmdThreads[e]
      /\ UNCHANGED <<thread, toResume, resumeQ, started, delivered, inbox>>
  BY DEF CommandThread, CommandReceive, CommandCancel, TimerFired
<1>2. /\ i \notin completedCmds[e] /\ e \in Holders /\ Holders' = Holders
      /\ e \in PendingExes /\ PendingExes' = PendingExes
  BY <1>0, <1>1 DEF CommandThreadsOK, Holders, PendingExes
<1>3. AbstractStatus' = AbstractStatus /\ AbstractConsumed' = AbstractConsumed
  BY <1>1, <1>2, SamePhases DEF AbstractConsumed
<1>4. (Open /\ ~errToFailWf)' = (Open /\ ~errToFailWf) /\ Open /\ ~errToFailWf
  BY DEF Opened
<1>5. CASE CommandCancel(e, i)
  <2>1. AbstractQueue' = AbstractQueue /\ UNCHANGED <<started, delivered, completedCmds, cmdValues>>
    BY <1>5 DEF CommandCancel, AbstractQueue
  <2> QED BY <1>2, <2>1, SameQueueArrives, MessageStep
<1>6. ASSUME NEW x, cmdValues' = [cmdValues EXCEPT ![e][i] = x],
             completedCmds' = [completedCmds EXCEPT ![e] = @ \cup {i}]
      PROVE  AbstractKept' = [AbstractKept EXCEPT ![e] = @ \cup ({x} \ {0})]
  <2>1. /\ completedCmds'[e] = completedCmds[e] \cup {i} /\ cmdValues'[e][i] = x
        /\ \A j \in completedCmds[e] : cmdValues'[e][j] = cmdValues[e][j]
        /\ \A d \in ExeIds : d # e => completedCmds'[d] = completedCmds[d] /\ cmdValues'[d] = cmdValues[d]
    BY <1>0, <1>2, <1>6
  <2>2. /\ AbstractKept[e] = {cmdValues[e][j] : j \in completedCmds[e]} \ {0}
        /\ AbstractKept'[e] = {cmdValues'[e][j] : j \in completedCmds'[e]} \ {0}
    BY <1>2, Zenon DEF AbstractKept
  <2>3. {cmdValues'[e][j] : j \in completedCmds'[e]}
          = {cmdValues[e][j] : j \in completedCmds[e]} \cup {x}
    BY <2>1
  <2>4. AbstractKept'[e] = AbstractKept[e] \cup ({x} \ {0})
    BY <2>2, <2>3
  <2>5. ASSUME NEW d \in ExeIds, d # e PROVE AbstractKept'[d] = AbstractKept[d]
    BY <1>2, <2>1, <2>5, ZenonT(60) DEF AbstractKept
  <2>6. /\ AbstractKept = [d \in ExeIds |-> AbstractKept[d]]
        /\ AbstractKept' = [d \in ExeIds |-> AbstractKept'[d]]
    BY DEF AbstractKept
  <2> QED BY <2>4, <2>5, <2>6
<1>7. CASE TimerFired(e, i)
  <2>1. AbstractKept' = [AbstractKept EXCEPT ![e] = @ \cup ({0} \ {0})]
    BY <1>6, <1>7 DEF TimerFired
  <2>2. AbstractKept' = AbstractKept
    BY <2>1 DEF AbstractKept
  <2>3. AbstractQueue' = AbstractQueue
    BY <1>7 DEF TimerFired, AbstractQueue
  <2>4. Durable!Message
    BY <1>3, <1>4, <2>2, <2>3, SameQueueArrives, Zenon DEF Durable!Message
  <2> QED BY <1>4, <2>4, Zenon DEF Durable!NextContract
<1>8. CASE CommandReceive(e, i)
  <2> DEFINE c == commandReq[e].cmds[i].target
  <2>1. c \in Channels
    <3>1. i \in DOMAIN commandReq[e].cmds /\ commandReq[e] \in CommandRequests
      BY <1>1 DEF CommandsOK, Commands, TypeInv, TypeOK
    <3> QED BY <1>8, <3>1, RequestType DEF CommandReceive
  <2>2. /\ received[c] # << >> /\ received' = [received EXCEPT ![c] = Tail(@)]
        /\ cmdValues' = [cmdValues EXCEPT ![e][i] = Head(received[c])]
        /\ completedCmds' = [completedCmds EXCEPT ![e] = @ \cup {i}]
    BY <1>8, Zenon DEF CommandReceive
  <2> HIDE DEF c
  <2>3. received[c] \in Seq(Messages) /\ inbox[c] \in Seq(Messages) /\ Head(received[c]) \in Messages
    BY <1>0, <2>1, <2>2
  <2>4. /\ AbstractQueue[c] # << >> /\ Head(AbstractQueue[c]) = Head(received[c])
        /\ AbstractQueue'[c] = Tail(AbstractQueue[c])
    <3>1. received'[c] = Tail(received[c]) /\ inbox'[c] = inbox[c]
      BY <1>0, <1>1, <2>1, <2>2
    <3>2. /\ AbstractQueue[c] = IF c \in SignalChannels THEN received[c] \o inbox[c] ELSE received[c]
          /\ AbstractQueue'[c] = IF c \in SignalChannels THEN received'[c] \o inbox'[c] ELSE received'[c]
      BY <2>1, AbstractQueueAt, Zenon
    <3>3. /\ received[c] \o inbox[c] # << >> /\ Head(received[c] \o inbox[c]) = Head(received[c])
          /\ Tail(received[c] \o inbox[c]) = Tail(received[c]) \o inbox[c]
      BY <2>2, <2>3, TailOfConcat, Zenon
    <3>4. CASE c \in SignalChannels
      BY <3>1, <3>2, <3>3, <3>4, Zenon
    <3>5. CASE c \notin SignalChannels
      BY <2>2, <3>1, <3>2, <3>5, Zenon
    <3> QED BY <3>4, <3>5
  <2>5. AbstractQueue' = [AbstractQueue EXCEPT ![c] = Tail(@)]
    <3>1. ASSUME NEW d \in Channels, d # c PROVE AbstractQueue'[d] = AbstractQueue[d]
      <4>1. received'[d] = received[d] /\ inbox'[d] = inbox[d]
        BY <1>0, <1>1, <2>2, <3>1
      <4> QED BY <4>1, AbstractQueueAt, Zenon
    <3>2. /\ AbstractQueue = [d \in Channels |-> AbstractQueue[d]]
          /\ AbstractQueue' = [d \in Channels |-> AbstractQueue'[d]]
      BY DEF AbstractQueue
    <3> QED BY <2>1, <2>4, <3>1, <3>2
  <2>6. AbstractKept' = [AbstractKept EXCEPT ![e] = @ \cup {Head(AbstractQueue[c])}]
    <3>1. {Head(received[c])} \ {0} = {Head(AbstractQueue[c])}
      <4>1. Head(received[c]) # 0
        BY <2>3, BoundsAssumption DEF Messages
      <4> QED BY <2>4, <4>1
    <3>2. AbstractKept' = [AbstractKept EXCEPT ![e] = @ \cup ({Head(received[c])} \ {0})]
      BY <1>6, <2>2, Zenon
    <3> QED BY <3>1, <3>2, Zenon
  <2>7. AbstractStatus[e] = "active"
    <3>1. e[2] <= started[e[1]] /\ e[2] \in Nat /\ started[e[1]] \in Nat
      BY <1>0, <1>2, BoundsAssumption DEF ThreadsOK, ExeIds, TypeInv, TypeOK
    <3>2. ~(e[2] > started[e[1]])
      BY <3>1
    <3> QED BY <1>2, <3>2, Zenon DEF AbstractStatus
  <2>8. Durable!Take(e, c)
    BY <1>3, <1>4, <2>4, <2>5, <2>6, <2>7, Zenon DEF Durable!Take
  <2> QED BY <1>4, <2>1, <2>8, Zenon DEF Durable!NextContract
<1> QED BY <1>5, <1>7, <1>8, Zenon DEF CommandThread

\* The results of an execution are passed to Execute: it consumes what it keeps.
LEMMA InvokeRefines ==
  ASSUME TypeInv, LifeInv, Opened, Opened', NEW e \in ExeIds, InvokeStateExecute(e)
  PROVE  Durable!NextContract
<1> USE DEF mainVars, queueVars, flagVars, counterVars, threadVars, signalVars, idVars, histVars
<1>0. /\ thread \in [ExeIds -> {"none", "waitUntil", "waiting", "draining", "execute", "closing"}]
      /\ cmdValues \in [ExeIds -> [CmdIdx -> 0..MaxMessages]]
      /\ completedCmds \in [ExeIds -> SUBSET CmdIdx]
      /\ delivered \in [Messages -> Nat] /\ ThreadsOK
  BY DEF TypeInv, TypeOK, LifeInv
<1>1. /\ thread[e] = "draining" /\ thread' = [thread EXCEPT ![e] = "execute"]
      /\ UNCHANGED <<toResume, resumeQ, completedCmds, cmdValues, inbox, received, started>>
      /\ delivered' = [m \in Messages |->
           delivered[m] + Cardinality({i \in completedCmds[e] : cmdValues[e][i] = m})]
  BY DEF InvokeStateExecute, CommandThreadsDrained
<1>2. /\ e \in Holders /\ Holders' = Holders \ {e}
      /\ e \in PendingExes /\ PendingExes' = PendingExes
  BY <1>0, <1>1 DEF Holders, PendingExes
<1>3. (Open /\ ~errToFailWf)' = (Open /\ ~errToFailWf) /\ Open /\ ~errToFailWf
  BY DEF Opened
<1>4. AbstractQueue' = AbstractQueue /\ AbstractStatus' = AbstractStatus
  BY <1>1, <1>2, SamePhases DEF AbstractQueue
<1>5. AbstractStatus[e] = "active"
  <2>1. e[2] <= started[e[1]] /\ e[2] \in Nat /\ started[e[1]] \in Nat
    BY <1>0, <1>2, BoundsAssumption DEF ThreadsOK, ExeIds, TypeInv, TypeOK
  <2>2. ~(e[2] > started[e[1]])
    BY <2>1
  <2> QED BY <1>2, <2>2, Zenon DEF AbstractStatus
<1>6. AbstractKept' = [AbstractKept EXCEPT ![e] = {}]
  <2>1. AbstractKept'[e] = {}
    BY <1>2 DEF AbstractKept
  <2>2. ASSUME NEW d \in ExeIds, d # e PROVE AbstractKept'[d] = AbstractKept[d]
    <3>1. d \in Holders' <=> d \in Holders
      BY <1>2, <2>2
    <3>2. completedCmds' = completedCmds /\ cmdValues' = cmdValues
      BY <1>1
    <3> QED BY <3>1, <3>2, Zenon DEF AbstractKept
  <2>3. /\ AbstractKept = [d \in ExeIds |-> AbstractKept[d]]
        /\ AbstractKept' = [d \in ExeIds |-> AbstractKept'[d]]
    BY DEF AbstractKept
  <2> QED BY <2>1, <2>2, <2>3
<1>7. AbstractConsumed' = AbstractConsumed \cup AbstractKept[e]
  <2>1. AbstractKept[e] = {cmdValues[e][i] : i \in completedCmds[e]} \ {0}
    BY <1>2, Zenon DEF AbstractKept
  <2>2. AbstractKept[e] \subseteq Messages
    BY <1>0, <2>1, BoundsAssumption DEF Messages
  <2>3. ASSUME NEW m \in Messages
        PROVE  delivered'[m] > 0 <=> delivered[m] > 0 \/ m \in AbstractKept[e]
    <3> DEFINE H == {i \in completedCmds[e] : cmdValues[e][i] = m}
    <3>1. m \in AbstractKept[e] <=> H # {}
      <4>1. m # 0
        BY BoundsAssumption DEF Messages
      <4> QED BY <2>1, <4>1
    <3>2. IsFiniteSet(H)
      <4>1. completedCmds[e] \subseteq DOMAIN commandReq[e].cmds /\ commandReq[e] \in CommandRequests
        BY DEF TypeInv, TypeOK, CommandsOK, Commands
      <4>2. IsFiniteSet(DOMAIN commandReq[e].cmds)
        BY <4>1, CommandsFinite
      <4>3. H \subseteq DOMAIN commandReq[e].cmds
        BY <4>1
      <4> QED BY <4>2, <4>3, FS_Subset
    <3>3. delivered'[m] = delivered[m] + Cardinality(H) /\ delivered[m] \in Nat
      BY <1>0, <1>1
    <3> HIDE DEF H
    <3>4. Cardinality(H) \in Nat /\ (Cardinality(H) = 0 <=> H = {})
      BY <3>2, FS_CardinalityType, FS_EmptySet
    <3> QED BY <3>1, <3>3, <3>4
  <2> QED BY <2>2, <2>3 DEF AbstractConsumed
<1>8. Durable!Consume(e)
  BY <1>3, <1>4, <1>5, <1>6, <1>7, Zenon DEF Durable!Consume
<1> QED BY <1>3, <1>8, Zenon DEF Durable!NextContract

\* The steps of a state thread between its API calls.
LEMMA StateThreadRefines ==
  ASSUME TypeInv, LifeInv, Opened, Opened', NEW e \in ExeIds, StateThread(e)
  PROVE  Durable!NextContract
<1> USE DEF mainVars, queueVars, flagVars, counterVars, threadVars, signalVars, idVars, histVars
<1>0. /\ thread \in [ExeIds -> {"none", "waitUntil", "waiting", "draining", "execute", "closing"}]
      /\ ThreadsOK
  BY DEF TypeInv, TypeOK, LifeInv
<1>1. CASE CommandReqDoneOrCanceled(e) \/ ReturnWaitingCommands(e)
  <2>1. /\ UNCHANGED <<inbox, received, started, delivered, completedCmds, cmdValues, toResume, resumeQ>>
        /\ thread[e] \in {"waiting", "draining"}
        /\ \/ thread' = [thread EXCEPT ![e] = "draining"]
           \/ thread' = [thread EXCEPT ![e] = "none"]
    BY <1>1 DEF CommandReqDoneOrCanceled, ReturnWaitingCommands, CommandThreadsDrained
  <2>2. e \in toResume
    BY <1>0, <2>1 DEF ThreadsOK
  <2>3. Holders' = Holders
    <3>1. \A d \in ExeIds : d \in Holders' <=> d \in Holders
      BY <1>0, <2>1, <2>2 DEF Holders
    <3> QED BY <3>1 DEF Holders
  <2>4. PendingExes' = PendingExes
    BY <1>0, <2>1, <2>2 DEF PendingExes
  <2>5. AbstractQueue' = AbstractQueue
    BY <2>1, Zenon DEF AbstractQueue
  <2> QED BY <2>1, <2>3, <2>4, <2>5, SameQueueArrives, MessageStep
<1>2. CASE InvokeStateExecute(e)
  BY <1>2, InvokeRefines
<1>3. CASE ConditionalClose(e)
  <2>1. /\ thread[e] = "closing" /\ thread' = [thread EXCEPT ![e] = "none"]
        /\ UNCHANGED <<inbox, received, started, delivered, completedCmds, cmdValues, toResume, resumeQ>>
    BY <1>3 DEF ConditionalClose, MarkStateExecutionCompleted
  <2>2. e \notin toResume
    BY <1>0, <2>1 DEF ThreadsOK
  <2>3. AbstractQueue' = AbstractQueue
    BY <2>1, Zenon DEF AbstractQueue
  <2> QED BY <2>1, <2>2, <2>3, SameQueueArrives, ThreadEndStep
<1> QED BY <1>1, <1>2, <1>3 DEF StateThread

\* Taking requests from the queue begins executions.
LEMMA TakeAllRefines ==
  ASSUME TypeInv, LifeInv, Opened, Opened', TakeAll,
         UNCHANGED <<inbox, received, delivered>>
  PROVE  Durable!NextContract
<1>0. /\ thread \in [ExeIds -> {"none", "waitUntil", "waiting", "draining", "execute", "closing"}]
      /\ toResume \subseteq ExeIds /\ resumeQ \subseteq ExeIds /\ ThreadsOK
      /\ started \in [StateIds -> Nat] /\ startQ \in [StateIds -> Nat]
  BY DEF TypeInv, TypeOK, LifeInv
<1>1. Holders' = Holders /\ UNCHANGED <<completedCmds, cmdValues>>
  BY TakeAllHolders DEF TakeAll
<1>2. AbstractKept' = AbstractKept /\ AbstractQueue' = AbstractQueue /\ AbstractConsumed' = AbstractConsumed
  BY <1>1, SameKeptMessages DEF AbstractQueue, AbstractConsumed
<1>3. (Open /\ ~errToFailWf)' = (Open /\ ~errToFailWf) /\ Open /\ ~errToFailWf
  BY DEF Opened
<1>4. ASSUME NEW d \in ExeIds
      PROVE  \/ AbstractStatus'[d] = AbstractStatus[d]
             \/ AbstractStatus[d] = "unborn" /\ AbstractStatus'[d] = "active"
  <2>1. /\ AbstractStatus[d] = IF d[2] > started[d[1]] THEN "unborn"
                               ELSE IF d \in PendingExes THEN "active" ELSE "ended"
        /\ AbstractStatus'[d] = IF d[2] > started'[d[1]] THEN "unborn"
                               ELSE IF d \in PendingExes' THEN "active" ELSE "ended"
    BY Zenon DEF AbstractStatus
  <2>2. /\ d[1] \in StateIds /\ d[2] \in Nat /\ started[d[1]] \in Nat /\ startQ[d[1]] \in Nat
        /\ started'[d[1]] = started[d[1]] + startQ[d[1]]
    BY <1>0, BoundsAssumption DEF ExeIds, TakeAll
  <2>3. toResume' = toResume \cup resumeQ /\ resumeQ' = {}
    BY DEF TakeAll
  <2>4. CASE d \in NewExeIds
    <3>1. d[2] > started[d[1]] /\ ~(d[2] > started'[d[1]])
      BY <2>2, <2>4 DEF NewExeIds
    <3>2. d \in PendingExes'
      BY <2>4, TakeAllThreads DEF PendingExes, TakenThreads
    <3> QED BY <2>1, <3>1, <3>2
  <2>5. CASE d \notin NewExeIds
    <3>1. d[2] > started'[d[1]] <=> d[2] > started[d[1]]
      BY <2>2, <2>5 DEF NewExeIds
    <3>2. d \in PendingExes' <=> d \in PendingExes
      BY <2>3, <2>5, TakeAllThreads DEF PendingExes, TakenThreads
    <3> QED BY <2>1, <3>1, <3>2
  <2> QED BY <2>4, <2>5
<1>5. Durable!Begin
  BY <1>2, <1>3, <1>4, Zenon DEF Durable!Begin
<1> QED BY <1>3, <1>5, Zenon DEF Durable!NextContract

\* The main loop: executions begin, and continuing as new is invisible.
LEMMA MainLoopRefines ==
  ASSUME TypeInv, LifeInv, MessageInv, Opened, Opened', MainLoop
  PROVE  Durable!NextContract
<1> USE DEF mainVars, queueVars, flagVars, counterVars, threadVars, signalVars, idVars, histVars
<1>1. ASSUME UNCHANGED <<inbox, received>>, UNCHANGED keptVars, UNCHANGED <<started, delivered>>
      PROVE  Durable!NextContract
  <2>1. AbstractQueue' = AbstractQueue
    BY <1>1, Zenon DEF AbstractQueue
  <2> QED BY <1>1, <2>1, SameQueueArrives, QuietStep
<1>2. CASE \/ OuterFailByClient \/ OuterComplete \/ OuterDrain \/ InnerClose \/ InnerNoMoreState
           \/ InnerDrain \/ InnerDrained
  BY <1>1, <1>2 DEF OuterFailByClient, OuterComplete, OuterDrain, InnerClose, InnerNoMoreState,
                    InnerDrain, InnerDrained, UnchangedButMain, keptVars
<1>3. ASSUME EnterInnerLoop PROVE Durable!NextContract
  <2>1. UNCHANGED <<inbox, received, delivered>>
    BY <1>3 DEF EnterInnerLoop
  <2>2. CASE TakeAll
    BY <2>1, <2>2, TakeAllRefines
  <2>3. CASE UNCHANGED <<queueVars, counterVars, threadVars, toResume>>
    BY <1>1, <2>1, <2>3 DEF keptVars
  <2> QED BY <1>3, <2>2, <2>3 DEF EnterInnerLoop
<1>4. CASE OuterEnterInner \/ InnerNextIteration
  BY <1>3, <1>4 DEF OuterEnterInner, InnerNextIteration
<1>5. CASE ContinueAsNew
  <2>1. /\ DrainAllReceivedButUnprocessedSignals(received)
        /\ UNCHANGED keptVars /\ UNCHANGED <<started, delivered, nextMsg>>
    BY <1>5 DEF ContinueAsNew, keptVars
  <2>2. /\ DrainAllReceivedButUnprocessedSignals(ProcessPublishing(received, NoChannel))
        /\ AllocateMessage(NoChannel) /\ NoChannel \in Publishes
    BY <2>1, Zenon DEF ProcessPublishing, AllocateMessage, Publishes
  <2>3. Durable!Arrive
    BY <2>2, DrainArrives
  <2> QED BY <2>1, <2>3, QuietStep
<1>6. CASE LoadInternalsFromPreviousRun
  <2>1. /\ UNCHANGED <<inbox, received, started, delivered, thread, completedCmds, cmdValues>>
        /\ resumeQ' = toResume \cup resumeQ /\ toResume' = {}
    BY <1>6 DEF LoadInternalsFromPreviousRun
  <2>2. PendingExes' = PendingExes
    BY <2>1 DEF PendingExes
  <2>3. Holders' = Holders
    BY <2>1 DEF Holders
  <2>4. AbstractQueue' = AbstractQueue
    BY <2>1, Zenon DEF AbstractQueue
  <2> QED BY <2>1, <2>2, <2>3, <2>4, SameQueueArrives, MessageStep
<1> QED BY <1>2, <1>4, <1>5, <1>6 DEF MainLoop

\* Every step of the interpreter is a step of DurableWorkflow or invisible.
LEMMA NextRefines ==
  ASSUME ProceedingStatesSkip, TypeInv, LifeInv, MessageInv, [Next]_vars
  PROVE  [Durable!NextContract]_(Durable!contractVars)
<1>1. CASE UNCHANGED vars
  <2>1. /\ UNCHANGED <<inbox, received, started, delivered, completedCmds, cmdValues, main, errToFailWf>>
        /\ Holders' = Holders /\ PendingExes' = PendingExes
    BY <1>1 DEF vars, mainVars, queueVars, flagVars, counterVars, threadVars, signalVars, histVars,
                Holders, PendingExes
  <2>2. /\ AbstractQueue' = AbstractQueue /\ AbstractStatus' = AbstractStatus
        /\ AbstractKept' = AbstractKept /\ AbstractConsumed' = AbstractConsumed
    BY <2>1, SamePhases, SameKeptMessages DEF AbstractQueue, AbstractConsumed
  <2>3. (Open /\ ~errToFailWf)' = (Open /\ ~errToFailWf)
    BY <2>1 DEF Open
  <2> QED BY <2>2, <2>3, Zenon DEF Durable!contractVars
<1>2. CASE ~Opened'
  <2>1. Durable!Closing
    BY <1>2 DEF Durable!Closing, Opened
  <2> QED BY <2>1, Zenon DEF Durable!NextContract
<1>3. CASE Next /\ Opened'
  <2>1. Opened
    BY <1>3, OpenedBefore
  <2>2. Durable!NextContract
    BY <1>3, <2>1, HandlersRefine, MainLoopRefines, ApiCallRefines, StateThreadRefines,
       CommandThreadRefines DEF Next
  <2> QED BY <2>2, Zenon
<1> QED BY <1>1, <1>2, <1>3

\* The initial state of the interpreter is the initial state of DurableWorkflow.
LEMMA InitRefines == Init => Durable!InitContract
<1> SUFFICES ASSUME Init PROVE Durable!InitContract
  OBVIOUS
<1>1. /\ received = [c \in Channels |-> << >>] /\ inbox = [c \in Channels |-> << >>]
      /\ started = [s \in StateIds |-> 0] /\ delivered = [m \in Messages |-> 0]
      /\ main = "outer" /\ errToFailWf = FALSE
  BY DEF Init, EmptyInbox
<1>2. Holders = {} /\ PendingExes = {}
  BY DEF Init, Holders, PendingExes
<1>3. AbstractQueue = [c \in Channels |-> << >>]
  <2>1. << >> \o << >> = << >>
    OBVIOUS
  <2> QED BY <1>1, <2>1 DEF AbstractQueue
<1>4. AbstractStatus = [e \in ExeIds |-> "unborn"]
  <2>1. \A e \in ExeIds : e[2] > started[e[1]]
    BY <1>1, BoundsAssumption DEF ExeIds
  <2> QED BY <2>1 DEF AbstractStatus
<1>5. AbstractKept = [e \in ExeIds |-> {}]
  BY <1>2 DEF AbstractKept
<1>6. AbstractConsumed = {}
  BY <1>1 DEF AbstractConsumed
<1>7. (Open /\ ~errToFailWf) = TRUE
  BY <1>1 DEF Open
<1> QED BY <1>3, <1>4, <1>5, <1>6, <1>7, Zenon DEF Durable!InitContract

\* The interpreter implements the durable workflow: a channel is a queue from which
\* an execution takes the oldest message, an execution begins once, ends once and has
\* consumed by then what it took, whatever the handlers, the command threads, the
\* draining and continue-as-new do, until the workflow closes or fails.
THEOREM DurableRefinement == ASSUME ProceedingStatesSkip PROVE Spec => ImplementsDurableWorkflow
<1>1. TypeInv /\ LifeInv /\ MessageInv /\ [Next]_vars
        => [Durable!NextContract]_(Durable!contractVars)
  BY NextRefines
<1> QED BY <1>1, InitRefines, SpecMessages, PTL DEF Spec, ImplementsDurableWorkflow, Durable!Contract
=============================================================================
