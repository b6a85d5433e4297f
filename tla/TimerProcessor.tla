--------------------------- MODULE TimerProcessor ---------------------------
(***************************************************************************)
(* Timer commands and the requests to skip them: SimpleTimerProcessor and  *)
(* GreedyTimerProcessor (service/interpreter/timers), the threads of       *)
(* processStateExecution that wait for a timer, the skip-timer handler of  *)
(* the signal receiver and the skip-timer API.                             *)
(*                                                                         *)
(* The API validates a request with a query and sends a signal afterwards: *)
(* the timer may have completed, its state may have ended or the workflow  *)
(* may have continued as new before the signal is handled.  A request that *)
(* finds no timer is kept as a stale skip and tried again by every timer   *)
(* thread that starts.                                                     *)
(*                                                                         *)
(* An execution waits for all its timers or for another command; timers    *)
(* are <<execution, index>>.  The firing time is absolute, so a timer that *)
(* is due stays due.  GreedyTimerScheduler models when a greedy processor  *)
(* wakes up.                                                               *)
(***************************************************************************)
EXTENDS Naturals, FiniteSets, SequencesExt

CONSTANTS
  Executions,    \* state executions that wait for timers
  TimerCommands, \* number of timer commands of an execution
  CommandId,     \* [Timers -> ids], the optional id of a timer command
  NoId,          \* "no command id"
  MaxSkips,      \* bound: requests to skip a timer
  MaxRuns        \* bound: continue-as-news

Timers == Executions \X (1..TimerCommands)
Ids    == {CommandId[t] : t \in Timers}

ASSUME TimersAssumption ==
  /\ IsFiniteSet(Executions) /\ TimerCommands \in Nat \ {0}
  /\ DOMAIN CommandId = Timers
ASSUME BoundsAssumption == MaxSkips \in Nat /\ MaxRuns \in Nat

\* A skip names the timer by its command id or, without one, by its index; with
\* an id the index is left at its default.
SkipRequests ==
  [exe : Executions, id : {NoId}, idx : 1..TimerCommands] \cup
  [exe : Executions, id : Ids \ {NoId}, idx : {1}]

VARIABLES
  optimizeTimer,  \* which processor the workflow's config selects
  exec,           \* "queued", "waiting", "draining", "parked" or "ended"
  otherDone,      \* executions whose trigger is met by another command
  infos,          \* stateExecutionCurrentTimerInfos: status, "none" without entry
  thread,         \* timer thread: "none", "new" or "await"
  completed,      \* completedTimerCmds
  due,            \* timers whose firing time has come
  stale,          \* staleSkipTimerSignals
  asked,          \* skips that passed the API's query and are not sent yet
  inbox,          \* skip-timer signals the engine holds
  handler,        \* the skip-timer handler is running
  thresholdMet,   \* ContinueAsNewCounter.IsThresholdMet
  run,            \* number of continue-as-news
  skips,          \* number of skip requests
  requested       \* history: timers that a client asked to skip

requestVars == <<asked, inbox, skips, requested>>
runVars     == <<handler, thresholdMet, run>>
vars == <<optimizeTimer, exec, otherDone, infos, thread, completed, due, stale, requestVars,
          runVars>>

-----------------------------------------------------------------------------
(* Skipping *)

\* The indices that the request can mean.
Named(req) ==
  IF req.id = NoId THEN {req.idx}
  ELSE {i \in 1..TimerCommands : CommandId[<<req.exe, i>>] = req.id}

\* The timer a request means: the first with the id, or the one at the index.
RequestedTimer(req) ==
  <<req.exe, IF req.id = NoId THEN req.idx ELSE Min(Named(req))>>

\* ValidateTimerSkipRequest: by index only a pending timer, by id any status.
Valid(inf, req) ==
  /\ Named(req) # {}
  /\ inf[RequestedTimer(req)] \in
       IF req.id = NoId THEN {"Pending"} ELSE {"Pending", "Fired", "Skipped"}

\* Mutant: the index is used although the request has an id.
SkipTimerByIndex(st, req) ==
  IF Valid(st.infos, req)
  THEN [st EXCEPT !.infos[<<req.exe, req.idx>>] = "Skipped"]
  ELSE [st EXCEPT !.stale = Append(@, req)]

\* SkipTimer on the pair of timer infos and stale skips.
SkipTimer(st, req) ==
  IF Valid(st.infos, req)
  THEN [st EXCEPT !.infos[RequestedTimer(req)] = "Skipped"]
  ELSE [st EXCEPT !.stale = Append(@, req)]

\* RetryStaleSkipTimer: the skips before the first valid one are appended again
\* by SkipTimer; removeElement moves the last one to its place.
StaleFound == \E i \in DOMAIN stale : Valid(infos, stale[i])
RetryStaleSkipTimer ==
  IF ~StaleFound THEN [infos |-> infos, stale |-> stale \o stale]
  ELSE LET i == Min({j \in DOMAIN stale : Valid(infos, stale[j])})
           s == stale \o SubSeq(stale, 1, i - 1)
       IN  [infos |-> [infos EXCEPT ![RequestedTimer(stale[i])] = "Skipped"],
            stale |-> Front([s EXCEPT ![i] = Last(s)])]

-----------------------------------------------------------------------------
(* The skip-timer API and the handler of its signal *)

\* The query of ApiV1WorkflowSkipTimerPost finds the timer.
SkipTimerQuery(req) ==
  /\ skips < MaxSkips /\ Valid(infos, req)
  /\ asked' = asked \cup {req}
  /\ skips' = skips + 1
  /\ UNCHANGED <<optimizeTimer, exec, otherDone, infos, thread, completed, due, stale, inbox,
                 requested, runVars>>

SkipTimerSignal(req) ==
  /\ req \in asked
  /\ asked' = asked \ {req}
  /\ inbox' = Append(inbox, req)
  /\ requested' = requested \cup {RequestedTimer(req)}
  /\ UNCHANGED <<optimizeTimer, exec, otherDone, infos, thread, completed, due, stale, skips,
                 runVars>>

SkipTimerHandler ==
  /\ handler /\ inbox # << >>
  /\ LET st == SkipTimer([infos |-> infos, stale |-> stale], Head(inbox))
     IN  infos' = st.infos /\ stale' = st.stale
  /\ inbox' = Tail(inbox)
  /\ UNCHANGED <<optimizeTimer, exec, otherDone, thread, completed, due, asked, skips, requested,
                 runVars>>

SkipTimerHandlerExit ==
  /\ handler /\ thresholdMet /\ inbox = << >>
  /\ handler' = FALSE
  /\ UNCHANGED <<optimizeTimer, exec, otherDone, infos, thread, completed, due, stale, requestVars,
                 thresholdMet, run>>

-----------------------------------------------------------------------------
(* State execution *)

TimersOf(e) == {<<e, i>> : i \in 1..TimerCommands}
TriggerMet(e) == e \in otherDone \/ \A t \in TimersOf(e) : completed[t] # "none"

\* Mutant: a resumed execution waits again for the timers that had completed.
StartWaitingForAll(e) ==
  /\ exec[e] = "queued"
  /\ exec' = [exec EXCEPT ![e] = "waiting"]
  /\ infos' = [t \in Timers |-> IF t[1] = e THEN "Pending" ELSE infos[t]]
  /\ thread' = [t \in Timers |-> IF t[1] = e THEN "new" ELSE thread[t]]
  /\ UNCHANGED <<optimizeTimer, otherDone, completed, due, stale, requestVars, runVars>>

\* AddTimers, then a thread for every timer that is not completed yet.
StartWaiting(e) ==
  /\ exec[e] = "queued"
  /\ exec' = [exec EXCEPT ![e] = "waiting"]
  /\ infos' = [t \in Timers |->
       IF t[1] # e THEN infos[t]
       ELSE IF completed[t] # "none" THEN completed[t] ELSE "Pending"]
  /\ thread' = [t \in Timers |->
       IF t[1] = e /\ completed[t] = "none" THEN "new" ELSE thread[t]]
  /\ UNCHANGED <<optimizeTimer, otherDone, completed, due, stale, requestVars, runVars>>

\* Another command of the execution completes and meets the trigger.
OtherCommandCompletes(e) ==
  /\ exec[e] = "waiting" /\ e \notin otherDone
  /\ otherDone' = otherDone \cup {e}
  /\ UNCHANGED <<optimizeTimer, exec, infos, thread, completed, due, stale, requestVars, runVars>>

\* commandReqDoneOrCanceled becomes true.
CommandReqDoneOrCanceled(e) ==
  /\ exec[e] = "waiting" /\ (TriggerMet(e) \/ thresholdMet)
  /\ exec' = [exec EXCEPT ![e] = "draining"]
  /\ UNCHANGED <<optimizeTimer, otherDone, infos, thread, completed, due, stale, requestVars,
                 runVars>>

ThreadsDrained(e) == \A t \in TimersOf(e) : thread[t] = "none"

\* Mutant: the state does not wait for its command threads (before version 10).
ExecuteStateEarly(e) ==
  /\ exec[e] = "draining" /\ TriggerMet(e)
  /\ exec' = [exec EXCEPT ![e] = "ended"]
  /\ infos' = [t \in Timers |-> IF t[1] = e THEN "none" ELSE infos[t]]
  /\ UNCHANGED <<optimizeTimer, otherDone, thread, completed, due, stale, requestVars, runVars>>

\* The trigger is met: RemovePendingTimersOfState, then Execute.
ExecuteState(e) ==
  /\ exec[e] = "draining" /\ ThreadsDrained(e) /\ TriggerMet(e)
  /\ exec' = [exec EXCEPT ![e] = "ended"]
  /\ infos' = [t \in Timers |-> IF t[1] = e THEN "none" ELSE infos[t]]
  /\ UNCHANGED <<optimizeTimer, otherDone, thread, completed, due, stale, requestVars, runVars>>

\* It is not: the execution is parked for the next run, its timer infos remain.
ReturnWaitingCommands(e) ==
  /\ exec[e] = "draining" /\ ThreadsDrained(e) /\ ~TriggerMet(e)
  /\ exec' = [exec EXCEPT ![e] = "parked"]
  /\ UNCHANGED <<optimizeTimer, otherDone, infos, thread, completed, due, stale, requestVars,
                 runVars>>

-----------------------------------------------------------------------------
(* Timer threads: WaitForTimerFiredOrSkipped *)

Due(t) ==
  /\ t \notin due
  /\ due' = due \cup {t}
  /\ UNCHANGED <<optimizeTimer, exec, otherDone, infos, thread, completed, stale, requestVars,
                 runVars>>

\* The thread ends; status is what WaitForTimerFiredOrSkipped returns.
TimerReturns(t, status) ==
  /\ thread' = [thread EXCEPT ![t] = "none"]
  /\ completed' = [completed EXCEPT ![t] = IF status = "Pending" THEN @ ELSE status]

\* The code up to the Await.
WaitForTimerStarts(t) ==
  /\ thread[t] = "new"
  /\ IF infos[t] # "Pending"
     THEN TimerReturns(t, IF infos[t] = "none" THEN "Pending" ELSE infos[t])
          /\ UNCHANGED <<infos, stale>>
     ELSE LET st == RetryStaleSkipTimer IN
          /\ stale' = st.stale
          /\ infos' = IF StaleFound /\ optimizeTimer
                      THEN [st.infos EXCEPT ![t] = "Skipped"] ELSE st.infos
          /\ IF StaleFound THEN TimerReturns(t, "Skipped")
             ELSE thread' = [thread EXCEPT ![t] = "await"] /\ UNCHANGED completed
  /\ UNCHANGED <<optimizeTimer, exec, otherDone, due, requestVars, runVars>>

\* Mutant: the Await looks at the cancellation only.
WaitForTimerCanceled(t) ==
  /\ thread[t] = "await" /\ exec[t[1]] = "draining"
  /\ TimerReturns(t, "Pending")
  /\ UNCHANGED <<optimizeTimer, exec, otherDone, infos, due, stale, requestVars, runVars>>

\* The Await returns: skipped before fired before canceled.
WaitForTimerEnds(t) ==
  /\ thread[t] = "await"
  /\ infos[t] = "Skipped" \/ t \in due \/ exec[t[1]] = "draining"
  /\ LET status == IF infos[t] = "Skipped" THEN "Skipped"
                   ELSE IF t \in due THEN "Fired" ELSE "Pending"
     IN  /\ TimerReturns(t, status)
         /\ infos' = IF optimizeTimer THEN [infos EXCEPT ![t] = status] ELSE infos
  /\ UNCHANGED <<optimizeTimer, exec, otherDone, due, stale, requestVars, runVars>>

-----------------------------------------------------------------------------
(* Continue-as-new *)

MeetThreshold ==
  /\ ~thresholdMet /\ run < MaxRuns
  /\ thresholdMet' = TRUE
  /\ UNCHANGED <<optimizeTimer, exec, otherDone, infos, thread, completed, due, stale, requestVars,
                 handler, run>>

\* All threads ended: the signals that are left are drained into the processor
\* of the closing run.  The new run loads the stale skips and the completed
\* timer commands, and starts with no timer infos.
ContinueAsNew ==
  /\ thresholdMet /\ ~handler
  /\ \A e \in Executions : exec[e] \in {"queued", "parked", "ended"}
  /\ LET st == FoldLeft(SkipTimer, [infos |-> infos, stale |-> stale], inbox)
     IN  stale' = st.stale
  /\ infos' = [t \in Timers |-> "none"]
  /\ inbox' = << >>
  /\ exec' = [e \in Executions |-> IF exec[e] = "parked" THEN "queued" ELSE exec[e]]
  /\ handler' = TRUE /\ thresholdMet' = FALSE /\ run' = run + 1
  /\ UNCHANGED <<optimizeTimer, otherDone, thread, completed, due, asked, skips, requested>>

-----------------------------------------------------------------------------
Init ==
  /\ optimizeTimer \in BOOLEAN
  /\ exec = [e \in Executions |-> "queued"] /\ otherDone = {}
  /\ infos = [t \in Timers |-> "none"]
  /\ thread = [t \in Timers |-> "none"]
  /\ completed = [t \in Timers |-> "none"]
  /\ due = {} /\ stale = << >>
  /\ asked = {} /\ inbox = << >> /\ skips = 0 /\ requested = {}
  /\ handler = TRUE /\ thresholdMet = FALSE /\ run = 0

StateThread(e) ==
  StartWaiting(e) \/ CommandReqDoneOrCanceled(e) \/ ExecuteState(e) \/ ReturnWaitingCommands(e)
TimerThread(t) == WaitForTimerStarts(t) \/ WaitForTimerEnds(t)

Next ==
  \/ \E req \in SkipRequests : SkipTimerQuery(req) \/ SkipTimerSignal(req)
  \/ SkipTimerHandler \/ SkipTimerHandlerExit
  \/ \E e \in Executions : StateThread(e) \/ OtherCommandCompletes(e)
  \/ \E t \in Timers : TimerThread(t) \/ Due(t)
  \/ MeetThreshold \/ ContinueAsNew

Spec == Init /\ [][Next]_vars

\* The dispatcher runs every coroutine that is not blocked and the engine starts
\* the new run; nothing is assumed of clients, time and the other commands.
Fairness ==
  /\ \A e \in Executions : WF_vars(StateThread(e))
  /\ \A t \in Timers : WF_vars(TimerThread(t))
  /\ WF_vars(SkipTimerHandler) /\ WF_vars(SkipTimerHandlerExit) /\ WF_vars(ContinueAsNew)

FairSpec == Spec /\ Fairness

-----------------------------------------------------------------------------
(* Properties *)

Statuses == {"Pending", "Fired", "Skipped"}

\* The types of the variables.
TypeOK ==
  /\ optimizeTimer \in BOOLEAN
  /\ exec \in [Executions -> {"queued", "waiting", "draining", "parked", "ended"}]
  /\ otherDone \subseteq Executions
  /\ infos \in [Timers -> Statuses \cup {"none"}]
  /\ thread \in [Timers -> {"none", "new", "await"}]
  /\ completed \in [Timers -> {"none", "Fired", "Skipped"}]
  /\ due \subseteq Timers
  /\ stale \in Seq(SkipRequests) /\ inbox \in Seq(SkipRequests)
  /\ asked \subseteq SkipRequests
  /\ handler \in BOOLEAN /\ thresholdMet \in BOOLEAN
  /\ run \in 0..MaxRuns /\ skips \in 0..MaxSkips /\ requested \subseteq Timers

\* A timer thread that has not ended finds the info of its timer and of all the
\* timers of its state: the infos are not removed under it, or WaitForTimerFired-
\* OrSkipped would panic or forget a skip.
ThreadsHaveInfos ==
  \A t \in Timers : thread[t] # "none" => \A u \in TimersOf(t[1]) : infos[u] # "none"

\* A timer is completed as skipped only when a client asked to skip it.
SkippedOnlyOnRequest ==
  \A t \in Timers : completed[t] = "Skipped" => t \in requested

\* In the first run, where executions add their timers before a skip can name them,
\* no interleaving of query, signal, handler and timer threads skips another timer.
SkippedOnlyOnRequestInFirstRun == run = 0 => SkippedOnlyOnRequest

\* What a timer command completed with is never changed or forgotten: late skips,
\* stale skips and a new run leave it alone, so Execute sees one consistent result.
CompletedIsFinal ==
  [][\A t \in Timers : completed[t] # "none" => completed'[t] = completed[t]]_vars

\* A skip that the API accepted completes the timer, unless its state ended.
SkipTakesEffect ==
  \A t \in Timers : (t \in requested) ~> (completed[t] # "none" \/ exec[t[1]] = "ended")

\* The same unless the workflow continues as new before.
SkipTakesEffectInFirstRun ==
  \A t \in Timers :
    (t \in requested /\ run = 0) ~> (completed[t] # "none" \/ exec[t[1]] = "ended" \/ run > 0)

\* A state that waits for its timers ends once they all are due, whatever skips
\* arrive and however often the workflow continues as new in between.
DueTimersEndState ==
  \A e \in Executions : (TimersOf(e) \subseteq due) ~> (exec[e] = "ended")
=============================================================================
