------------------------ MODULE GreedyTimerScheduler ------------------------
(***************************************************************************)
(* The scheduler of the greedy timer processor                             *)
(* (service/interpreter/timers/greedyTimerScheduler.go), which asks the    *)
(* engine for as few timers as possible: one for the earliest pending      *)
(* timer command, and another one when it has fired.  The threads that     *)
(* wait for a timer command have no engine timer of their own: they look   *)
(* at the clock when something wakes the workflow up.                      *)
(*                                                                         *)
(* Workflow code runs in workflow tasks.  The time that it sees is that of *)
(* the task, and the task ends when every coroutine is blocked.  The next  *)
(* task is caused by a timer of the engine or by some other event; it may  *)
(* be late.  A timer command is <<execution, index>>.                      *)
(***************************************************************************)
EXTENDS Naturals, FiniteSets, SequencesExt

CONSTANTS
  Executions,    \* state executions that wait for timers
  TimerCommands, \* [Executions -> number of timer commands]
  MaxTime,       \* bound: the last instant
  MaxRuns        \* bound: continue-as-news

Timers == UNION {{<<e, i>> : i \in 1..TimerCommands[e]} : e \in Executions}
Times  == 0..MaxTime

ASSUME TimersAssumption == IsFiniteSet(Executions) /\ TimerCommands \in [Executions -> Nat]
ASSUME BoundsAssumption == MaxTime \in Nat /\ MaxRuns \in Nat

VARIABLES
  now,          \* the time of the current workflow task
  exec,         \* "new", "waiting", "done", "canceled", "parked", "resumed" or "ended"
  fireAt,       \* FiringUnixTimestampSeconds of the timer commands
  status,       \* "none", "Pending", "Fired" or "Skipped"
  waiting,      \* timers whose thread waits
  pendingScheduling, providerScheduledTimerUnixTs,
  engineTimers, \* firing times of the timers the engine has not fired yet
  scheduler,    \* the scheduler thread is running
  thresholdMet, run

schedulerVars == <<pendingScheduling, providerScheduledTimerUnixTs, engineTimers, scheduler>>
runVars == <<thresholdMet, run>>
vars == <<now, exec, fireAt, status, waiting, schedulerVars, runVars>>

TimersOf(e) == {<<e, i>> : i \in 1..TimerCommands[e]}

-----------------------------------------------------------------------------
(* The lists of the scheduler, latest first *)

\* Mutant: a timer is put in front of the list.
AddTimerInFront(fire, pending, t) == <<t>> \o pending

\* addTimer: before the first timer that does not fire later.
AddTimer(fire, pending, t) ==
  LET notLater == {i \in DOMAIN pending : fire[t] >= fire[pending[i]]}
      at == IF notLater = {} THEN Len(pending) + 1 ELSE Min(notLater)
  IN  InsertAt(pending, at, t)

\* Mutant: the timer that fires now is not pruned.
PruneProviderBefore(scheduled) ==
  SubSeq(scheduled, 1, Max({0} \cup {i \in DOMAIN scheduled : scheduled[i] >= now}))
\* Mutant: the list is forgotten as soon as one of its timers has fired.
PruneProviderToNil(scheduled) ==
  IF \A i \in DOMAIN scheduled : scheduled[i] > now THEN scheduled ELSE << >>

\* pruneToNextTimer cuts off the tail that is in the past or not pending.
PruneProvider(scheduled) ==
  SubSeq(scheduled, 1, Max({0} \cup {i \in DOMAIN scheduled : scheduled[i] > now}))
PrunePending(pending) ==
  SubSeq(pending, 1,
    Max({0} \cup {i \in DOMAIN pending :
                    fireAt[pending[i]] > now /\ status[pending[i]] = "Pending"}))

-----------------------------------------------------------------------------
(* The scheduler thread *)

\* Mutant: a timer that fires before the scheduled one is not scheduled.
ShouldScheduleFirst(pending, scheduled) == pending # << >> /\ scheduled = << >>
\* The condition of the Await on the pruned lists.
ShouldSchedule(pending, scheduled) ==
  /\ pending # << >>
  /\ scheduled # << >> => fireAt[Last(pending)] < Last(scheduled)

\* One evaluation of the Await, which prunes; if it holds, NewTimer.
SchedulerAwait ==
  LET pending   == PrunePending(pendingScheduling)
      scheduled == PruneProvider(providerScheduledTimerUnixTs)
  IN
  /\ scheduler /\ ~thresholdMet
  /\ pendingScheduling' = pending
  /\ IF ShouldSchedule(pending, scheduled)
     THEN /\ providerScheduledTimerUnixTs' = Append(scheduled, fireAt[Last(pending)])
          /\ engineTimers' = engineTimers \cup {fireAt[Last(pending)]}
     ELSE providerScheduledTimerUnixTs' = scheduled /\ UNCHANGED engineTimers
  /\ UNCHANGED <<now, exec, fireAt, status, waiting, scheduler, runVars>>

SchedulerExit ==
  /\ scheduler /\ thresholdMet
  /\ scheduler' = FALSE
  /\ UNCHANGED <<now, exec, fireAt, status, waiting, pendingScheduling,
                 providerScheduledTimerUnixTs, engineTimers, runVars>>

-----------------------------------------------------------------------------
(* The timer commands of an execution *)

\* The loop of AddTimers over the timer commands of an execution: the new ones are
\* handed to the scheduler.
AddIfNew(fire, e, new, pending, i) ==
  IF <<e, i>> \in new THEN AddTimer(fire, pending, <<e, i>>) ELSE pending
AddNewTimers(fire, e, new, pending) ==
  FoldLeft(LAMBDA p, i : AddIfNew(fire, e, new, p, i), pending, [i \in 1..TimerCommands[e] |-> i])

\* AddTimers with the firing times fire: completed timers keep their status, the
\* others are pending, are handed to the scheduler and get a thread.
AddTimers(e, fire) ==
  LET new == {t \in TimersOf(e) : status[t] = "none"}
  IN
  /\ exec' = [exec EXCEPT ![e] = "waiting"]
  /\ fireAt' = fire
  /\ pendingScheduling' = AddNewTimers(fire, e, new, pendingScheduling)
  /\ status' = [t \in Timers |-> IF t \in new THEN "Pending" ELSE status[t]]
  /\ waiting' = waiting \cup new
  /\ UNCHANGED <<now, providerScheduledTimerUnixTs, engineTimers, scheduler, runVars>>

\* The WaitUntil API answered timer commands, whose firing times are absolute after
\* FixTimerCommandFromActivityOutput and may be in the past.
StartWaiting(e, at) ==
  /\ exec[e] = "new"
  /\ AddTimers(e, [t \in Timers |-> IF t[1] = e THEN at[t[2]] ELSE fireAt[t]])
\* A resumed execution waits for the same times.
ResumeWaiting(e) == exec[e] = "resumed" /\ AddTimers(e, fireAt)

\* A skip that finds the thread waiting; TimerProcessor has the other cases.
SkipTimer(t) ==
  /\ t \in waiting /\ status[t] = "Pending"
  /\ status' = [status EXCEPT ![t] = "Skipped"]
  /\ UNCHANGED <<now, exec, fireAt, waiting, schedulerVars, runVars>>

Fired(t)    == status[t] = "Pending" /\ fireAt[t] <= now
Canceled(t) == exec[t[1]] \in {"done", "canceled"}

\* WaitForTimerFiredOrSkipped returns: skipped before fired before canceled.
WaitForTimerReturns(t) ==
  /\ t \in waiting
  /\ status[t] = "Skipped" \/ Fired(t) \/ Canceled(t)
  /\ waiting' = waiting \ {t}
  /\ status' = [status EXCEPT ![t] = IF Fired(t) THEN "Fired" ELSE @]
  /\ pendingScheduling' = IF status[t] = "Pending" /\ ~Fired(t)
                          THEN RemoveFirst(pendingScheduling, t) ELSE pendingScheduling
  /\ UNCHANGED <<now, exec, fireAt, providerScheduledTimerUnixTs, engineTimers, scheduler,
                 runVars>>

AllCompleted(e)   == \A t \in TimersOf(e) : status[t] \in {"Fired", "Skipped"}
ThreadsDrained(e) == TimersOf(e) \cap waiting = {}

\* The trigger is met by all timers or by another command.
CommandReqDone(e) ==
  /\ exec[e] = "waiting" /\ AllCompleted(e) /\ ThreadsDrained(e)
  /\ exec' = [exec EXCEPT ![e] = "done"]
  /\ UNCHANGED <<now, fireAt, status, waiting, schedulerVars, runVars>>
OtherCommandCompletes(e) ==
  /\ exec[e] = "waiting"
  /\ exec' = [exec EXCEPT ![e] = "done"]
  /\ UNCHANGED <<now, fireAt, status, waiting, schedulerVars, runVars>>
CommandReqCanceled(e) ==
  /\ exec[e] = "waiting" /\ thresholdMet
  /\ exec' = [exec EXCEPT ![e] = "canceled"]
  /\ UNCHANGED <<now, fireAt, status, waiting, schedulerVars, runVars>>

\* The loop of RemovePendingTimersOfState.
RemoveTimers(e, pending) ==
  FoldLeft(LAMBDA p, i : RemoveFirst(p, <<e, i>>), pending, [i \in 1..TimerCommands[e] |-> i])

\* RemovePendingTimersOfState, when the trigger is met: the scheduler and the
\* processor forget the timers.
RemovePendingTimersOfState(e) ==
  /\ ThreadsDrained(e)
  /\ exec[e] = "done" \/ (exec[e] = "canceled" /\ AllCompleted(e))
  /\ exec' = [exec EXCEPT ![e] = "ended"]
  /\ pendingScheduling' = RemoveTimers(e, pendingScheduling)
  /\ fireAt' = [t \in Timers |-> IF t[1] = e THEN 0 ELSE fireAt[t]]
  /\ status' = [t \in Timers |-> IF t[1] = e THEN "none" ELSE status[t]]
  /\ UNCHANGED <<now, waiting, providerScheduledTimerUnixTs, engineTimers, scheduler, runVars>>

ReturnWaitingCommands(e) ==
  /\ ThreadsDrained(e) /\ exec[e] = "canceled" /\ ~AllCompleted(e)
  /\ exec' = [exec EXCEPT ![e] = "parked"]
  /\ UNCHANGED <<now, fireAt, status, waiting, schedulerVars, runVars>>

-----------------------------------------------------------------------------
(* The engine and continue-as-new *)

\* No coroutine can go on in the current workflow task.
Quiescent ==
  /\ scheduler => /\ ~thresholdMet
                  /\ ~ShouldSchedule(PrunePending(pendingScheduling),
                                     PruneProvider(providerScheduledTimerUnixTs))
  /\ \A t \in waiting : status[t] = "Pending" /\ ~Fired(t) /\ ~Canceled(t)
  /\ \A e \in Executions :
       /\ exec[e] \in {"new", "waiting", "parked", "ended"}
       /\ exec[e] = "waiting" => ~thresholdMet /\ ~AllCompleted(e)

\* The next workflow task, at a later time; the engine has fired what was due.
WorkflowTask(at) ==
  /\ Quiescent /\ at > now
  /\ now' = at
  /\ engineTimers' = {ts \in engineTimers : ts > at}
  /\ UNCHANGED <<exec, fireAt, status, waiting, pendingScheduling, providerScheduledTimerUnixTs,
                 scheduler, runVars>>

\* The task that the engine creates because a timer fired.
TimerTask == \E at \in Times : (\E ts \in engineTimers : ts <= at) /\ WorkflowTask(at)

MeetThreshold ==
  /\ ~thresholdMet /\ run < MaxRuns
  /\ thresholdMet' = TRUE
  /\ UNCHANGED <<now, exec, fireAt, status, waiting, schedulerVars, run>>

\* The new run has a new scheduler; the engine cancels the timers of the old run.
ContinueAsNew ==
  /\ thresholdMet /\ ~scheduler
  /\ \A e \in Executions : exec[e] \in {"new", "parked", "ended"}
  /\ exec' = [e \in Executions |-> IF exec[e] = "parked" THEN "resumed" ELSE exec[e]]
  /\ status' = [t \in Timers |-> IF status[t] = "Pending" THEN "none" ELSE status[t]]
  /\ pendingScheduling' = << >> /\ providerScheduledTimerUnixTs' = << >>
  /\ engineTimers' = {} /\ scheduler' = TRUE
  /\ thresholdMet' = FALSE /\ run' = run + 1
  /\ UNCHANGED <<now, fireAt, waiting>>

-----------------------------------------------------------------------------
Init ==
  /\ now = 0
  /\ exec = [e \in Executions |-> "new"]
  /\ fireAt = [t \in Timers |-> 0] /\ status = [t \in Timers |-> "none"] /\ waiting = {}
  /\ pendingScheduling = << >> /\ providerScheduledTimerUnixTs = << >>
  /\ engineTimers = {} /\ scheduler = TRUE
  /\ thresholdMet = FALSE /\ run = 0

StateThread(e) ==
  \/ ResumeWaiting(e) \/ CommandReqDone(e) \/ CommandReqCanceled(e)
  \/ RemovePendingTimersOfState(e) \/ ReturnWaitingCommands(e)

Next ==
  \/ SchedulerAwait \/ SchedulerExit
  \/ \E e \in Executions :
       \/ \E at \in [1..TimerCommands[e] -> Times] : StartWaiting(e, at)
       \/ StateThread(e) \/ OtherCommandCompletes(e)
  \/ \E t \in Timers : SkipTimer(t) \/ WaitForTimerReturns(t)
  \/ \E at \in Times : WorkflowTask(at)
  \/ MeetThreshold \/ ContinueAsNew

Spec == Init /\ [][Next]_vars

\* The dispatcher runs every coroutine that is not blocked before the task ends, and
\* the engine creates a task when a timer fires.  Nothing else has to wake it up.
Fairness ==
  /\ WF_vars(SchedulerAwait) /\ WF_vars(SchedulerExit)
  /\ \A e \in Executions : WF_vars(StateThread(e))
  /\ \A t \in Timers : WF_vars(WaitForTimerReturns(t))
  /\ WF_vars(TimerTask) /\ WF_vars(ContinueAsNew)

FairSpec == Spec /\ Fairness

-----------------------------------------------------------------------------
(* Properties *)

\* The lists of the scheduler are in descending order and hold no timer twice, so
\* that the last element is the next to fire and removing one removes it for good;
\* skips, cancellations and late tasks in any order keep them so.
SortedLists ==
  /\ \A i, j \in DOMAIN pendingScheduling : i < j =>
       /\ pendingScheduling[i] # pendingScheduling[j]
       /\ fireAt[pendingScheduling[i]] >= fireAt[pendingScheduling[j]]
  /\ \A i, j \in DOMAIN providerScheduledTimerUnixTs : i < j =>
       providerScheduledTimerUnixTs[i] > providerScheduledTimerUnixTs[j]

\* The scheduled times that the scheduler remembers, which decide whether it creates
\* another timer, are those that the engine still holds.
ScheduledListExact ==
  {providerScheduledTimerUnixTs[i] : i \in
     {j \in DOMAIN providerScheduledTimerUnixTs : providerScheduledTimerUnixTs[j] > now}}
    = engineTimers

\* When the workflow task ends, every timer that a thread waits for has a timer of
\* the engine that fires no later: nobody waits for a wake-up that does not come.
WakeUpScheduled ==
  Quiescent => \A t \in waiting : \E ts \in engineTimers : ts <= fireAt[t]

\* Although the engine alone wakes the threads up, every timer completes or its state
\* goes on; also when the workflow continues as new while it is pending.
TimersComplete ==
  \A t \in Timers : (t \in waiting) ~> (status[t] \in {"Fired", "Skipped"} \/ exec[t[1]] = "ended")
=============================================================================
