--------------------------- MODULE SignalDispatch ---------------------------
(***************************************************************************)
(* The six signal handlers that NewSignalReceiver creates, the counter     *)
(* that decides when a run continues as new (continueAsNewCounter.go) and  *)
(* the config they share, which a signal changes (workflowConfiger.go).    *)
(*                                                                         *)
(* A handler is a coroutine.  Once it is called it receives every signal   *)
(* of its channel and then blocks, or ends when the threshold is met.  The *)
(* order in which the handlers are called is that of their creation        *)
(* (RunCycle); what a handler sees of the threshold depends on it.         *)
(***************************************************************************)
EXTENDS Naturals, SequencesExt

CONSTANTS
  ConfigUpdates,  \* partial configs that clients send
  RpcStates       \* states that an RPC may start, as sequences of state ids

VARIABLES
  config,               \* WorkflowConfiger.config
  signalsReceived, executedStateApis, triggeredByAPI,
  channel,              \* [kinds -> signals the engine has delivered]
  alive,                \* handlers that have not ended
  failWorkflowByClient,
  stateRequestQueue     \* requests to start or to resume a state

configVars  == <<config, signalsReceived, executedStateApis, triggeredByAPI>>
signalVars  == <<channel, alive, failWorkflowByClient>>
dispatchVars == <<configVars, signalVars, stateRequestQueue>>

\* The handlers in the order of their creation; each has its channel.
Handlers == <<"fail", "skip", "config", "trigger", "rpc", "user">>
Kinds == {"fail", "skip", "config", "trigger", "rpc", "user"}

\* What a signal of a kind may carry.
Payloads(k) ==
  CASE k = "config" -> ConfigUpdates
    [] k = "rpc"    -> RpcStates
    [] OTHER        -> {k}

StartRequests(ids) == [i \in DOMAIN ids |-> [state |-> ids[i], resume |-> FALSE]]

\* Mutant: the threshold is not among the fields that are copied.
CopiedFieldsNoThreshold ==
  {"disableSystemSearchAttribute", "mode", "pageSize", "optimizeActivity"}
\* The fields of an update that are copied; OptimizeTimer is not among them.
CopiedFields ==
  {"disableSystemSearchAttribute", "mode", "pageSize", "threshold", "optimizeActivity"}

\* A field that is not set is left alone.
UpdateByAPI(cfg, update) ==
  [f \in DOMAIN cfg |->
     IF f \in CopiedFields \cap DOMAIN update THEN update[f] ELSE cfg[f]]
UpdateByAll(cfg, updates) ==
  FoldLeft(LAMBDA c, u : UpdateByAPI(c, u), cfg, updates)

IsThresholdMetWith(cfg, signals, apis, triggered) ==
  \/ triggered
  \/ cfg.threshold # 0 /\ signals + apis >= cfg.threshold
IsThresholdMet ==
  IsThresholdMetWith(config, signalsReceived, executedStateApis, triggeredByAPI)

\* A new run: NewContinueAsCounter and NewSignalReceiver.
NewCounter ==
  signalsReceived' = 0 /\ executedStateApis' = 0 /\ triggeredByAPI' = FALSE

-----------------------------------------------------------------------------
(* What a signal does, for the handlers and for the last drain *)

Apply(k, signals) ==
  /\ config' = IF k = "config" THEN UpdateByAll(config, signals) ELSE config
  /\ failWorkflowByClient' = (failWorkflowByClient \/ (k = "fail" /\ signals # << >>))
  /\ stateRequestQueue' =
       IF k = "rpc" THEN stateRequestQueue \o StartRequests(FlattenSeq(signals))
       ELSE stateRequestQueue

\* The handler of k receives signals.  User signals are counted once for their
\* name, not for each.
Receive(k, signals) ==
  /\ Apply(k, signals)
  /\ channel' = [channel EXCEPT ![k] = SubSeq(@, Len(signals) + 1, Len(@))]
  /\ signalsReceived' = signalsReceived +
       (CASE k = "trigger" -> 0
          [] k = "user"    -> IF signals = << >> THEN 0 ELSE 1
          [] OTHER         -> Len(signals))
  /\ triggeredByAPI' = (triggeredByAPI \/ (k = "trigger" /\ signals # << >>))
  /\ UNCHANGED executedStateApis

\* Mutant: a handler takes one signal when it is called.
HandleOne(k) ==
  /\ Receive(k, IF channel[k] = << >> THEN << >> ELSE <<Head(channel[k])>>)
  /\ alive' = IF IsThresholdMet' \/ triggeredByAPI' THEN alive \ {k} ELSE alive
\* Mutant: the handler of update-config signals ends after it has received some.
HandleConfigOnce(k) ==
  /\ Receive(k, channel[k])
  /\ alive' = IF IsThresholdMet' \/ (k = "config" /\ channel[k] # << >>)
              THEN alive \ {k} ELSE alive
\* Mutant: the handler of user signals does not end at the threshold.
HandleUserForever(k) ==
  /\ Receive(k, channel[k])
  /\ alive' = IF IsThresholdMet' /\ k # "user" THEN alive \ {k} ELSE alive

\* A handler is called: it takes all signals of its channel (the trigger handler
\* takes one and ends) and ends if the threshold is met when there is none left.
Handle(k) ==
  LET taken == IF k = "trigger" /\ channel[k] # << >> THEN <<Head(channel[k])>>
               ELSE channel[k]
  IN  /\ Receive(k, taken)
      /\ alive' = IF IsThresholdMet' \/ (k = "trigger" /\ taken # << >>)
                  THEN alive \ {k} ELSE alive

\* DrainAllReceivedButUnprocessedSignals, before continue-as-new and before a
\* conditional close.  Nothing is counted, and a signal to continue as new is left
\* where it is.
DrainAllReceivedButUnprocessedSignals ==
  /\ config' = UpdateByAll(config, channel["config"])
  /\ failWorkflowByClient' = (failWorkflowByClient \/ channel["fail"] # << >>)
  /\ stateRequestQueue' =
       stateRequestQueue \o StartRequests(FlattenSeq(channel["rpc"]))
  /\ channel' = [k \in Kinds |-> IF k = "trigger" THEN channel[k] ELSE << >>]
=============================================================================
