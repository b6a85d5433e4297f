------------------------------ MODULE RunCycle ------------------------------
(***************************************************************************)
(* A workflow as the engine executes it, task by task: the main loop of    *)
(* InterpreterImpl, the signal handlers (SignalDispatch), the threads of   *)
(* the state executions with their counter (StateExecutionCounter) and the *)
(* load of the snapshot in a new run (ContinueAsNewDump).                  *)
(*                                                                         *)
(* Interpreter leaves the order of the coroutines open.  Here it is that   *)
(* of the engine: what has happened since the last task is delivered when  *)
(* a task starts; then the coroutines are called in the order of their     *)
(* creation, each until it blocks, and again until all of them stay        *)
(* blocked.  A signal that arrives during a task makes the engine refuse   *)
(* to end the run in that task: it counts as delivered before it.          *)
(*                                                                         *)
(* Left to Interpreter: commands and messages, on which it depends whether *)
(* the condition of a conditional close is met; failures of the state      *)
(* APIs; updates.                                                          *)
(***************************************************************************)
EXTENDS StateExecutionCounter, SignalDispatch, ContinueAsNewDump

CONSTANTS
  InitialConfigs,  \* configs a workflow may be started with
  StartStateId,
  Decisions,       \* [StateIds -> decisions], records [next, close]
  MaxExecutions,   \* bound: state executions
  MaxSignals,      \* bound: signals
  MaxDeploys,      \* bound: deployments while a snapshot is loaded
  MaxRuns          \* bound: continue-as-news

ASSUME CycleAssumption ==
  /\ StartStateId \in StateIds
  /\ MaxExecutions \in Nat /\ MaxSignals \in Nat
  /\ MaxDeploys \in Nat /\ MaxRuns \in Nat

\* The fields of a config that are told apart.
WorkflowConfigs ==
  [threshold : Nat, pageSize : Nat, mode : Modes, optimizeTimer : BOOLEAN]

\* An update sets some of the fields of a config.
ASSUME ConfigsAssumption ==
  /\ InitialConfigs \subseteq WorkflowConfigs
  /\ \A u \in ConfigUpdates :
       /\ "threshold" \in DOMAIN u => u["threshold"] \in Nat
       /\ "pageSize" \in DOMAIN u => u["pageSize"] \in Nat
       /\ "mode" \in DOMAIN u => u["mode"] \in Modes

\* Next states come with a decision that does not close the workflow, or with one
\* that closes it if a channel is empty and goes on otherwise.
ASSUME DecisionsAssumption ==
  /\ RpcStates \subseteq Seq(StateIds)
  /\ Decisions \in
       [StateIds -> SUBSET [next : Seq(StateIds),
                            close : {"none", "graceful", "force", "conditional"}]]
  /\ \A s \in StateIds : \A d \in Decisions[s] :
       d.close \in {"graceful", "force"} => d.next = << >>

VARIABLES
  at,          \* where the main coroutine is: "load", "outer", "top", "inner",
               \* "drainInner", "drainOuter" or "closed"
  turn,        \* the coroutine that is called; 0 between tasks
  progressed,  \* some coroutine of this sweep did not stay blocked
  pending,     \* something happened since the last task
  threads,     \* state executions of this run, [state, phase]
  ready,       \* threads whose activity or commands have completed
  toResume,    \* StateExecutionToResumeMap: state ids of parked executions
  shouldGracefulComplete,
  closing,     \* errToFailWf or forceCompleteWf
  run, started, arrived, deployed,  \* counters for the bounds
  sentConfig,  \* history: the config that the clients have asked for
  modeChanged, \* history: the mode changed under a state execution
  revoked      \* history: a conditional close of this run took the threshold back

taskVars   == <<turn, progressed, pending>>
threadVars == <<threads, ready, toResume>>
closeVars  == <<shouldGracefulComplete, closing>>
boundVars  == <<run, started, arrived, deployed>>
historyVars == <<sentConfig, modeChanged, revoked>>
vars == <<counterVars, dispatchVars, dumpVars, at, taskVars, threadVars, closeVars,
          boundVars, historyVars>>

MainTurn  == 1
HandlerAt == [i \in 2..(1 + Len(Handlers)) |-> Handlers[i - 1]]
ThreadTurn(i) == 1 + Len(Handlers) + i

Open == at # "closed"

-----------------------------------------------------------------------------
(* Tasks and events *)

Init ==
  /\ CounterInit
  /\ config \in InitialConfigs
  /\ signalsReceived = 0 /\ executedStateApis = 0 /\ triggeredByAPI = FALSE
  /\ channel = [k \in Kinds |-> << >>]
  /\ alive = Kinds
  /\ failWorkflowByClient = FALSE
  /\ stateRequestQueue = StartRequests(<<StartStateId>>)
  /\ DumpInit
  /\ at = "outer"
  /\ turn = 0 /\ progressed = FALSE /\ pending = TRUE
  /\ threads = << >> /\ ready = {} /\ toResume = << >>
  /\ shouldGracefulComplete = FALSE /\ closing = FALSE
  /\ run = 0 /\ started = 1 /\ arrived = 0 /\ deployed = 0
  /\ sentConfig = config /\ modeChanged = FALSE /\ revoked = FALSE

\* What a client means by an update: every field that it sets.
Requested(cfg, update) ==
  [f \in DOMAIN cfg |-> IF f \in DOMAIN update THEN update[f] ELSE cfg[f]]

\* A client sends a signal.
Arrive(k, p) ==
  /\ Open /\ turn = 0 /\ arrived < MaxSignals
  /\ k = "rpc" => started + Len(p) <= MaxExecutions
  /\ channel' = [channel EXCEPT ![k] = Append(@, p)]
  /\ arrived' = arrived + 1
  /\ started' = IF k = "rpc" THEN started + Len(p) ELSE started
  /\ sentConfig' = IF k = "config" THEN Requested(sentConfig, p) ELSE sentConfig
  /\ pending' = (at # "load")
  /\ UNCHANGED <<counterVars, configVars, alive, failWorkflowByClient,
                 stateRequestQueue, dumpVars, at, turn, progressed, threadVars,
                 closeVars, run, deployed, modeChanged, revoked>>

\* The activity or the commands that a state execution waits for complete.
Ready(i) ==
  /\ Open /\ turn = 0
  /\ threads[i].phase \in {"waitUntil", "waiting", "execute"} /\ i \notin ready
  /\ ready' = ready \cup {i}
  /\ pending' = TRUE
  /\ UNCHANGED <<counterVars, dispatchVars, dumpVars, at, turn, progressed, threads,
                 toResume, closeVars, boundVars, historyVars>>

StartTask ==
  /\ Open /\ turn = 0 /\ pending
  /\ turn' = MainTurn /\ progressed' = FALSE /\ pending' = FALSE
  /\ UNCHANGED <<counterVars, dispatchVars, dumpVars, at, threadVars, closeVars,
                 boundVars, historyVars>>

\* The coroutine blocks or ends and the next one is called.  The task ends after
\* a sweep in which all stayed blocked.
Yield(progress) ==
  LET last  == turn = ThreadTurn(Len(threads'))
      moved == progressed \/ progress
  IN  /\ turn' = IF ~last THEN turn + 1 ELSE IF moved THEN MainTurn ELSE 0
      /\ progressed' = (~last /\ moved)
      /\ UNCHANGED pending

\* The coroutine goes on.
Continue == progressed' = TRUE /\ UNCHANGED <<turn, pending>>

\* The counts that were made under one mode are undone under another.
NoteModeChange ==
  modeChanged' = (modeChanged \/ (config'.mode # config.mode
                    /\ (totalCurrentlyExecutingCount # 0 \/ stateRequestQueue' # << >>)))

-----------------------------------------------------------------------------
(* The main coroutine *)

AllThreadsDrained ==
  alive = {} /\ \A i \in DOMAIN threads : threads[i].phase = "done"

\* The condition of the Await the main coroutine is in.
MainCanGo ==
  CASE at = "outer" -> \/ stateRequestQueue # << >> \/ failWorkflowByClient
                       \/ shouldGracefulComplete \/ IsThresholdMet
    [] at = "inner" -> \/ stateRequestQueue # << >> \/ failWorkflowByClient
                       \/ closing \/ totalCurrentlyExecutingCount = 0 \/ IsThresholdMet
    [] at \in {"drainInner", "drainOuter"} -> AllThreadsDrained
    [] OTHER -> TRUE

MainBlocked ==
  /\ turn = MainTurn /\ ~MainCanGo
  /\ UNCHANGED <<counterVars, dispatchVars, dumpVars, at, threadVars, closeVars,
                 boundVars, historyVars>>
  /\ Yield(FALSE)

Main(where) == turn = MainTurn /\ at = where /\ MainCanGo

Goto(where) ==
  /\ at' = where
  /\ IF where = "closed" THEN turn' = 0 /\ UNCHANGED <<progressed, pending>>
     ELSE Continue

Outer ==
  /\ Main("outer")
  /\ Goto(IF failWorkflowByClient
             \/ (shouldGracefulComplete /\ stateRequestQueue = << >>)
          THEN "closed" ELSE "top")
  /\ UNCHANGED <<counterVars, dispatchVars, dumpVars, threadVars, closeVars,
                 boundVars, historyVars>>

\* The head of the inner loop: what is queued is taken unless the run is about to
\* continue as new.
StatesToExecute ==
  /\ Main("top") /\ stateRequestQueue # << >> /\ ~IsThresholdMet
  /\ LET starts == {i \in DOMAIN stateRequestQueue : ~stateRequestQueue[i].resume}
     IN  MarkStateIdExecutingIfNotYet([i \in starts |-> stateRequestQueue[i].state],
                                      config.mode)
  /\ threads' = threads \o
       [i \in DOMAIN stateRequestQueue |->
          [state |-> stateRequestQueue[i].state,
           phase |-> IF stateRequestQueue[i].resume THEN "waiting"
                     ELSE IF stateRequestQueue[i].state \in SkipWaitUntil THEN "execute"
                     ELSE "waitUntil"]]
  /\ stateRequestQueue' = << >>
  /\ Goto("inner")
  /\ UNCHANGED <<configVars, signalVars, dumpVars, ready, toResume, closeVars,
                 boundVars, historyVars>>

Top ==
  /\ Main("top") /\ (stateRequestQueue = << >> \/ IsThresholdMet)
  /\ Goto(IF stateRequestQueue # << >> THEN "inner"
          ELSE IF IsThresholdMet THEN "drainOuter"
          ELSE "outer")
  /\ UNCHANGED <<counterVars, dispatchVars, dumpVars, threadVars, closeVars,
                 boundVars, historyVars>>

Inner ==
  /\ Main("inner")
  /\ closing' = (closing \/ failWorkflowByClient)
  /\ Goto(IF IsThresholdMet THEN "drainInner"
          ELSE IF closing' THEN "closed"
          ELSE "top")
  /\ UNCHANGED <<counterVars, dispatchVars, dumpVars, threadVars,
                 shouldGracefulComplete, boundVars, historyVars>>

DrainInner ==
  /\ Main("drainInner")
  /\ Goto(IF closing THEN "closed"
          ELSE IF IsThresholdMet THEN "drainOuter"
          ELSE "top")
  /\ UNCHANGED <<counterVars, dispatchVars, dumpVars, threadVars, closeVars,
                 boundVars, historyVars>>

\* Mutant: the new run gets the config of the old one as it was started.
CarriedConfigOfStart == CHOOSE c \in InitialConfigs : TRUE
\* input.Config: the latest config, updates that were drained included.
CarriedConfig == UpdateByAll(config, channel["config"])

\* The last drain of signals and what follows it: close, or continue as new.
DrainOuter ==
  /\ Main("drainOuter")
  /\ \/ /\ DrainAllReceivedButUnprocessedSignals
        /\ \/ failWorkflowByClient'
           \/ stateRequestQueue' = << >> /\ toResume = << >> /\ shouldGracefulComplete
        /\ Goto("closed")
        /\ UNCHANGED <<signalsReceived, executedStateApis, triggeredByAPI, alive,
                       dumpVars, threadVars, closeVars, boundVars, revoked>>
     \/ /\ run < MaxRuns
        /\ ~failWorkflowByClient /\ channel["fail"] = << >>
        /\ LET rpc == StartRequests(FlattenSeq(channel["rpc"]))
               queue == stateRequestQueue \o rpc
               resumed == [i \in DOMAIN toResume |->
                             [state |-> toResume[i], resume |-> TRUE]]
           IN  /\ ~(queue = << >> /\ toResume = << >> /\ shouldGracefulComplete)
               /\ stateRequestQueue' = queue \o resumed
        /\ config' = CarriedConfig
        /\ channel' = [k \in Kinds |-> << >>]
        /\ NewCounter
        /\ alive' = {} /\ failWorkflowByClient' = FALSE
        /\ threads' = << >> /\ ready' = {} /\ toResume' = << >>
        /\ shouldGracefulComplete' = FALSE /\ closing' = FALSE
        /\ BeginLoad(PageSize(config'.pageSize))
        /\ run' = run + 1 /\ revoked' = FALSE
        /\ at' = "load" /\ turn' = 0 /\ progressed' = FALSE /\ pending' = FALSE
        /\ UNCHANGED <<started, arrived, deployed>>
  /\ NoteModeChange
  /\ UNCHANGED <<counterVars, sentConfig>>

\* The new run loads a page; after the last one it creates its handlers and
\* enters the main loop, in the same task.
Load ==
  /\ at = "load"
  /\ LoadPage
  /\ IF loading' THEN UNCHANGED <<alive, at, taskVars>>
     ELSE /\ alive' = Kinds
          /\ at' = "outer" /\ turn' = MainTurn /\ progressed' = FALSE
          /\ UNCHANGED pending
  /\ UNCHANGED <<counterVars, configVars, channel, failWorkflowByClient,
                 stateRequestQueue, threadVars, closeVars, boundVars, historyVars>>

DeployWorkers(v) ==
  /\ loading /\ deployed < MaxDeploys
  /\ Deploy(v)
  /\ deployed' = deployed + 1
  /\ UNCHANGED <<counterVars, dispatchVars, at, taskVars, threadVars, closeVars,
                 run, started, arrived, historyVars>>

-----------------------------------------------------------------------------
(* Handlers and state executions *)

CallHandler(k) ==
  /\ turn \in DOMAIN HandlerAt /\ HandlerAt[turn] = k
  /\ IF k \in alive THEN Handle(k) ELSE UNCHANGED dispatchVars
  /\ NoteModeChange
  /\ UNCHANGED <<counterVars, dumpVars, at, threadVars, closeVars, boundVars, sentConfig,
                 revoked>>
  /\ Yield(k \in alive /\ (channel' # channel \/ k \notin alive'))

\* The thread of a state execution is called and stays where it is.
ThreadBlocked(i) ==
  /\ turn = ThreadTurn(i)
  /\ i \notin ready /\ threads[i].phase # "closing"
  /\ ~(threads[i].phase = "waiting" /\ IsThresholdMet)
  /\ UNCHANGED <<counterVars, dispatchVars, dumpVars, at, threadVars, closeVars,
                 boundVars, historyVars>>
  /\ Yield(FALSE)

\* From the WaitUntil API to the commands, and from the commands, once the
\* trigger is met, to the Execute API.
ThreadAdvances(i) ==
  /\ turn = ThreadTurn(i) /\ i \in ready
  /\ threads[i].phase \in {"waitUntil", "waiting"}
  /\ threads' = [threads EXCEPT ![i].phase =
                   IF @ = "waitUntil" THEN "waiting" ELSE "execute"]
  /\ ready' = ready \ {i}
  /\ IF threads'[i].phase = "waiting" THEN Continue ELSE Yield(TRUE)
  /\ UNCHANGED <<counterVars, dispatchVars, dumpVars, at, toResume, closeVars,
                 boundVars, historyVars>>

\* The trigger is not met but the threshold is: the execution is left to the
\* next run.
ThreadParks(i) ==
  /\ turn = ThreadTurn(i) /\ i \notin ready
  /\ threads[i].phase = "waiting" /\ IsThresholdMet
  /\ threads' = [threads EXCEPT ![i].phase = "done"]
  /\ toResume' = Append(toResume, threads[i].state)
  /\ UNCHANGED <<counterVars, dispatchVars, dumpVars, at, ready, closeVars,
                 boundVars, historyVars>>
  /\ Yield(TRUE)

\* IncExecutedStateExecution
StateApis(s) == IF s \in SkipWaitUntil THEN 1 ELSE 2

\* The end of a state execution.  The refresh of the search attribute is left to
\* the next states of its decision, whether they are queued or not.
Completes(i, next, queued) ==
  /\ started + Len(queued) <= MaxExecutions
  /\ threads' = [threads EXCEPT ![i].phase = "done"]
  /\ ready' = ready \ {i}
  /\ stateRequestQueue' = stateRequestQueue \o StartRequests(queued)
  /\ MarkStateExecutionCompleted(threads[i].state, next, config.mode)
  /\ executedStateApis' = executedStateApis + StateApis(threads[i].state)
  /\ started' = started + Len(queued)
  /\ UNCHANGED <<config, signalsReceived, triggeredByAPI, signalVars, dumpVars, at,
                 toResume, run, arrived, deployed, historyVars>>
  /\ Yield(TRUE)

\* The Execute API answers with a decision.
ThreadCompletes(i, d) ==
  /\ turn = ThreadTurn(i) /\ i \in ready
  /\ threads[i].phase = "execute" /\ d.close # "conditional"
  /\ shouldGracefulComplete' = (shouldGracefulComplete \/ d.close = "graceful")
  /\ closing' = (closing \/ d.close = "force")
  /\ Completes(i, d.next, d.next)

\* ... or with a decision that closes the workflow if a channel is empty.  All
\* signals are drained first, updates of the config included, also when the main
\* coroutine waits for the threads to end and the handlers have ended.  Then the
\* thread awaits a condition that is true; whether others run before it goes on is
\* up to the engine.
ThreadDrains(i) ==
  /\ turn = ThreadTurn(i) /\ i \in ready
  /\ threads[i].phase = "execute"
  /\ \E d \in Decisions[threads[i].state] : d.close = "conditional"
  /\ DrainAllReceivedButUnprocessedSignals
  /\ threads' = [threads EXCEPT ![i].phase = "closing"]
  /\ ready' = ready \ {i}
  /\ UNCHANGED <<counterVars, signalsReceived, executedStateApis, triggeredByAPI, alive,
                 dumpVars, at, toResume, closeVars, boundVars, sentConfig>>
  /\ NoteModeChange
  /\ revoked' = (revoked \/ (IsThresholdMet /\ ~IsThresholdMet'))
  /\ Continue \/ Yield(TRUE)

\* The condition is met and the workflow closes, or it is not and goes on.
ConditionalClose(i, d, conditionMet) ==
  /\ turn = ThreadTurn(i)
  /\ threads[i].phase = "closing" /\ d.close = "conditional"
  /\ closing' = (closing \/ conditionMet) /\ UNCHANGED shouldGracefulComplete
  /\ Completes(i, d.next, IF conditionMet THEN << >> ELSE d.next)

-----------------------------------------------------------------------------
TaskStep ==
  \/ StartTask
  \/ MainBlocked \/ Outer \/ StatesToExecute \/ Top \/ Inner \/ DrainInner \/ DrainOuter
  \/ \E k \in Kinds : CallHandler(k)
  \/ \E i \in DOMAIN threads :
       \/ ThreadBlocked(i) \/ ThreadAdvances(i) \/ ThreadParks(i)
       \/ ThreadDrains(i)
       \/ \E d \in Decisions[threads[i].state] :
            ThreadCompletes(i, d) \/ \E met \in BOOLEAN : ConditionalClose(i, d, met)

Next ==
  \/ \E k \in Kinds : \E p \in Payloads(k) : Arrive(k, p)
  \/ \E i \in DOMAIN threads : Ready(i)
  \/ \E v \in Versions : DeployWorkers(v)
  \/ Load
  \/ TaskStep

Spec == Init /\ [][Next]_vars

\* The engine runs tasks and activities: those of the state APIs and the one that
\* loads pages end.
ActivityEnds ==
  \E i \in DOMAIN threads : threads[i].phase \in {"waitUntil", "execute"} /\ Ready(i)

FairSpec ==
  /\ Spec
  /\ WF_vars(TaskStep) /\ WF_vars(Load)
  /\ WF_vars(ActivityEnds)

-----------------------------------------------------------------------------
(* Properties *)

Phases == {"waitUntil", "waiting", "execute", "closing", "done"}

TypeOK ==
  /\ CounterTypeOK /\ DumpTypeOK
  /\ config \in WorkflowConfigs
  /\ signalsReceived \in Nat /\ executedStateApis \in Nat /\ triggeredByAPI \in BOOLEAN
  /\ alive \subseteq Kinds /\ failWorkflowByClient \in BOOLEAN
  /\ \A k \in Kinds : \A i \in DOMAIN channel[k] : channel[k][i] \in Payloads(k)
  /\ \A i \in DOMAIN stateRequestQueue :
       stateRequestQueue[i] \in [state : StateIds, resume : BOOLEAN]
  /\ \A i \in DOMAIN threads : threads[i] \in [state : StateIds, phase : Phases]
  /\ ready \subseteq DOMAIN threads
  /\ at \in {"load", "outer", "top", "inner", "drainInner", "drainOuter", "closed"}
  /\ turn \in 0..ThreadTurn(Len(threads)) /\ progressed \in BOOLEAN /\ pending \in BOOLEAN

\* Between two tasks the run goes on with its states and signals.
AtRest == turn = 0 /\ ~pending /\ at \in {"outer", "inner"}

\* Once the main coroutine waits for the other threads to end, every handler has
\* ended when the task is over and the threshold stays met, although an
\* update-config signal may raise it: DrainThreads would otherwise wait for threads
\* that have no reason to end.  Only the drain of a conditional close can take the
\* threshold back.
DrainRevokedOnlyByClose ==
  turn = 0 /\ at \in {"drainInner", "drainOuter"} =>
    alive = {} /\ (IsThresholdMet \/ revoked)

\* No signal stays unhandled between tasks, whatever handlers have ended, unless a
\* conditional close took the threshold back; with the exception of skip-timer
\* signals (SkipSignalsHandled).
SignalsHandled ==
  AtRest /\ ~revoked => \A k \in Kinds \ {"skip"} : channel[k] = << >>

\* The comment on the skip-timer handler: it ends only if a continueAsNew is
\* triggered, so that no skip-timer signal stays unhandled while the run goes on.
SkipSignalsHandled == AtRest => channel["skip"] = << >>

\* Between tasks the config is the one the clients have asked for, in the order in
\* which they did, through handler, drains and continue-as-new; except OptimizeTimer
\* (UpdatesTakeEffect), and unless a conditional close took the threshold back.
ConfigIsTheOneSent ==
  AtRest /\ ~revoked => \A f \in DOMAIN config \ {"optimizeTimer"} : config[f] = sentConfig[f]

\* "update the config of a workflow": every field of the request takes effect.
UpdatesTakeEffect == AtRest /\ ~revoked => config = sentConfig

\* Between tasks IwfExecutingStateIds shows the states under way that the mode
\* counts, parked ones included, although a completion leaves the refresh to the
\* start of the next state; unless the mode has changed under a state execution.
ExecutingIdsExact ==
  AtRest /\ ~modeChanged =>
    executingStateIds =
      {s \in {threads[i].state : i \in {j \in DOMAIN threads : threads[j].phase # "done"}}
              \cup ToSet(toResume) : Counted(config.mode, s)}

\* A load ends, unless the snapshot has shrunk so that the next page is not there
\* any more: the query fails and the activity retries it for ever.
LoadEnds ==
  loading ~> (~loading \/ [](loading /\ WrongPageNum))

Draining == at \in {"drainInner", "drainOuter"}

\* A run that has begun to drain continues as new or closes, unless a conditional
\* close takes the threshold back.
DrainEnds ==
  Draining ~> (at \in {"load", "closed"} \/ (run = MaxRuns /\ AllThreadsDrained) \/ revoked)

\* "... cannot get through, there is likely something wrong in the continueAsNew
\* logic (unless state API is stuck)": as long as the state APIs end, a drain ends.
DrainGetsThrough == Draining ~> (~Draining \/ AllThreadsDrained)
=============================================================================
