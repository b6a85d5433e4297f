# A TLA+ model of the iWF server

iWF runs user workflows made of *states* on top of Temporal or Cadence. A
generic *interpreter workflow* calls the `WaitUntil` and `Execute` APIs of each
state on the user's worker, waits in between for the commands that `WaitUntil`
asked for (timers, signals, messages of internal channels) and does what
`Execute` decides. The engine makes the interpreter durable; the interpreter's
own difficulties are concurrency inside one run (cooperative coroutines),
requests that arrive at any moment, and *continue-as-new*: a long run must stop,
and a new run must go on as if nothing had happened.

Around it is an API service without state of its own, which answers clients by
several calls to the engine, a small workflow through which clients wait for the
completion of a state, and a store for values that are too large for the engine,
with a cleanup job.

These modules model both sides, check them with TLC on small instances and prove
their safety properties with TLAPS for all instances. `PROJECT.json` holds the same
information in machine-readable form: which definition stands for which lines,
the runs, their mutants, the hazards, the findings and the theorems.

## 1. Inventory

| Component (`service/...`) | State | Operations | Interacts with |
|---|---|---|---|
| main loop, `interpreter/workflowImpl.go` `InterpreterImpl` | `errToFailWf`, `forceCompleteWf`, `shouldGracefulComplete` (locals) | outer Await, inner loop, closing, continue-as-new | all objects below |
| state execution, `workflowImpl.go` `processStateExecution`, `invokeStateExecute`, `checkClosingWorkflow` | command request, completed commands, one thread per command | WaitUntil, wait, Execute, decide | persistence, channels, timers, queue |
| state request queue, `stateRequestQueue.go` | start and resume requests | add, take all | main loop, RPCs, decisions |
| decider trigger, `deciderTriggerer.go`; request validation, `activityImpl.go` | none | pure functions | state execution |
| state execution counter, `stateExecutionCounter.go` | started counts, counts of executing states, their total, a search attribute | create id, mark executing, mark completed | main loop |
| internal channels, `InternalChannel.go` | queue per channel | publish, retrieve | state executions, RPCs |
| signal receiver, `signalReceiver.go` | received signals, fail flag, six handler coroutines | handle, drain | clients, timers, queue |
| output collector, `outputCollector.go` | outputs | add | decisions |
| continue-as-new, `continueAsNewer.go`, `cont/continueAsNewCounter.go` | executions to resume, in-flight updates, event counters | drain threads, snapshot, paged dump, load, threshold | everything |
| persistence manager, `persistence.go` | attributes, two lock maps | lock, load, upsert, unlock | state executions, updates |
| workflow updater, `workflowUpdater.go` | none of its own | validator and handler of an RPC with locking | persistence, queue, channels |
| timer processors, `timers/simpleTimerProcessor.go`, `timers/greedyTimerProcessor.go` | timer infos, stale skips | add, wait, skip, retry, remove | state executions, signal receiver |
| greedy timer scheduler, `timers/greedyTimerScheduler.go` | pending list, list of scheduled engine timers | add, prune, schedule | engine timers |
| workflow configer, `config/workflowConfiger.go` | effective config | update by signal | threshold, counter, timers |
| activities, `activityImpl.go` | none | call the worker, fetch a page of the dump, clean up blobs | worker, engine, blob store |
| query handlers, global versioner | none, engine markers | read-only, version gates | API service, replay |
| API service, `api/service.go` | none | start, signal, stop, RPC, skip timer, wait, reset, search | engine client |
| WaitForStateCompletion workflow, `workflowImpl.go` | one run per id | started by a request or by the completing state, ends with a signal | API service, state execution |
| blob store, `common/blobstore` | S3 objects in directories `yyyymmdd$workflowId` | write, read, list, delete | activities, API service |
| HTTP layer, engine clients, provider adapters, configuration, IDL | none | binding and conversion | |

**What is hard here.** A coroutine keeps the processor until it blocks in
`provider.Await` or in an activity, so every such point is a place where others
run. Signals reach the engine at any time, also after the handler that would
receive them has ended. The API validates with a query and acts with a signal
later. At continue-as-new every coroutine has to end by itself, what was in
flight has to be in the snapshot, and everything that is not in the snapshot is
forgotten. Counters and flags decide when a workflow is complete; each is
written by several coroutines. A handler of the API service reads the state of a
workflow with one call and acts with the next one, while runs close, continue as
new, are replaced and are forgotten.

**What makes it correct.** No message is lost or delivered twice; an execution
is executed once, and its output collected once; the workflow completes when its
states have ended and never earlier; draining always ends; a request to fail the
workflow is honoured; locks exclude, lose no upsert and never deadlock; a
completed timer stays as it is, a skip hits the timer it names, and the greedy
scheduler always has a timer at the engine that is early enough. The decision to
continue as new is not revoked in the middle of a drain; a new run loads one snapshot and the latest
config; the search attribute of executing states tells the truth. An answer of
the API is about the run it names and is final; a completion reaches those who
wait for it; the cleanup deletes nothing that a workflow still refers to.

## 2. Modules

| Module | Models | Variables |
|---|---|---|
| `DeciderTrigger` | trigger condition and validation of a command request, with a reference definition | none |
| `Interpreter` | main loop, state and command threads, queue, counter, channels, signal handlers, output collector, update handlers, draining, snapshot and reload | 33 |
| `DurableWorkflow` | the abstract contract: queues, executions that begin and end once, messages consumed once; no runs, threads or continue-as-new | 5 |
| `PersistenceManager` | the locks of state APIs and of RPCs with locking | 8 |
| `TimerProcessor` | both timer processors with skip API, skip handler, stale skips and continue-as-new | 15 |
| `GreedyTimerScheduler` | scheduler lists, engine timers and workflow tasks with explicit time | 11 |
| `StateExecutionCounter` | counts per state id and the search attribute `IwfExecutingStateIds` | 3 |
| `SignalDispatch` | the six signal handlers, the threshold counter, the workflow configer | 8 |
| `ContinueAsNewDump` | pages of the snapshot and the loop that loads them | 6 |
| `RunCycle` | the three above with the main loop and the state threads, in the engine's order of coroutines | 33 |
| `Engine` | runs of workflows as the engine clients see them: start, reuse policies, chains, retention | 1 |
| `WaitForStateCompletion` | the wait workflow and the sender of a completion | 3 |
| `BlobStore` | objects, writes and the cleanup activity with its retries | 7 |
| `ApiService` | start, get, wait-for-state-completion and stop, one step per call; composes the three above | 12 |
| `InterpreterProofs`, `PersistenceManagerProofs`, `RunCycleProofs`, `TimerProcessorProofs`, `GreedyTimerSchedulerProofs`, `ApiServiceProofs`, `DeciderTriggerProofs` | proofs | |
| `NumberLemmas` | facts about numbers and finite sets of them that the proofs share | none |
| `MC...` | instances for TLC | |

`Interpreter` extends `DeciderTrigger` and instantiates `DurableWorkflow` with a
refinement mapping. Locks and timers meet the main loop only through
blocking (an API call, a timer command), so they are modules of their own; in
`Interpreter` a call may take any time and a timer may fire at any time.

`Interpreter` and `RunCycle` look at the same main loop in two ways. `Interpreter`
has the commands, messages, updates and failures, and leaves open which coroutine
runs next. That is sound for what it checks, but too coarse for the threshold: a
config update may raise it while handlers end, and what is left then depends on
the order in which the engine calls the coroutines. `RunCycle` has this order and
fewer kinds of states instead. So the flag of `Interpreter` that the threshold is
met stays set, as after a request to continue as new (`TriggerByAPI`), while in
`RunCycle` the counts are compared with a config that signals change: in the
handler, in the last drain and in the drain before a conditional close
(`ThreadDrains`), which may happen when the handlers have ended.

### How the code became actions

* **Granularity.** One action is the code between two blocking points. The
  coroutines that the main loop spawns run to their first blocking point before
  it is scheduled again, hence `TakeAll` both takes the requests and starts the
  threads. `ExecuteCompleted` contains everything from the answer of the
  activity to the end of the state thread, the marking in the counter included.
  The one blocking point inside a decision, the yield of a conditional close,
  splits it into `ExecuteCompletedConditionally` and `ConditionalClose`.
* **Signals.** `inbox`, `rpcInbox` and `failSent` are what the engine holds for
  the run; `received` is what the run has taken. The handlers move signals one
  way, `DrainAllReceivedButUnprocessedSignals` moves all of them.
* **Continue-as-new.** `ContinueAsNew` closes the run; while `main = "loading"`
  the variables are the memory of the closed run, which its dump query answers;
  `LoadInternalsFromPreviousRun` rebuilds what `GetSnapshot` contains and resets
  what it does not.
* **Data.** A message is its number, a start request is a count per state id,
  an execution id is `<<state id, number>>`. The history variables
  `delivered`, `decided` and `completers` (and `requested`, `upserts` in other
  modules) are read by properties only.
* **Locks.** Callers upsert keys that they locked; an attribute's value counts
  the upserts that its writer had seen, so that a lost update shows as a wrong
  count.
* **Time.** `TimerProcessor` only says which timers are due.
  `GreedyTimerScheduler` has a clock that changes between workflow tasks and may
  jump, since a task can be late.
* **Tasks.** In `RunCycle` the engine delivers what has happened (`Arrive`,
  `Ready`) between tasks. A task calls the main coroutine, the handlers in the
  order of their creation and the threads of the states, each until it blocks,
  and sweeps over them until nobody moves (`turn`, `Yield`). The engine does not
  let a run end in a task during which a signal has arrived, so such a signal
  counts as delivered before the task.
* **Snapshot.** A byte of a snapshot is `<<version, position>>`, a checksum is
  the version. The snapshot is made anew for each page by the worker that
  happens to answer, which may run another version of the code. A page that cuts
  a character of two bytes arrives with U+FFFD in place of both halves
  (`JsonData`).
* **Runs.** A run id is the number of the start, 0 is no run id. A run carries
  its first run (the chain of continue-as-news), the request id of its memo and
  the objects its data refers to. A call without run id means the latest run
  that the engine still knows.
* **Requests.** A slot of `ApiService` is one request; `pc` is its next call.
  Every call may fail for a reason of its own, and a start may take effect
  although its answer is lost.
* **Engines.** The constant `Backend` is the engine. The two differ where the
  server asks for it or relies on a default: on Cadence the id of a wait workflow
  is always made of the workflow id and nothing is described before the wait
  (`SignalIds`, `WaitsByRun`), and a start without a reuse policy is refused after
  a run that completed (`DefaultPolicy`).
* **Days.** Directories of the blob store have the granularity of days, and so
  has the clock of the module.
* **Versions.** The models describe the newest version of `globalVersioner.go`.
  Two mutants (`InvokeStateExecuteEarly`, `ExecuteStateEarly`) are what versions
  before 10 did.

An operator whose comment starts with "Mutant" is a plausible bug in the
definition after it; it is used only to see that the property it belongs to can
fail.

## 3. Runs

Bounds are constants with the name `Max...`. Deadlock checking is off because
the workflow really stops: it closes, or it waits for clients who promise
nothing.

| Run | Instance | Checks | Distinct states |
|---|---|---|---|
| `core` | 2 states, 2 executions each, 2 messages, 2 continue-as-news, all triggers, a timer, all decisions and failures | `MessagesConserved`, `CounterMatchesExecutions`, `GracefulCompletionIsLast`, `DecidesOnce`, `TriggeredExecutionsExecute`, `OutputsPreserved`, `ImplementsDurableWorkflow` | 1.1 M |
| `liveness` | 1 state, 2 executions, RPC, fail signal, 1 continue-as-new | `TypeOK`, `MessagesConserved`, `ContinueAsNewCompletes`, `FailRequestCloses`, `GracefulCompletesInFirstRun` | 116 k |
| `locks` | 2 state threads, 2 calls each, 1 RPC, one key of each kind | `TypeOK`, `MutualExclusion`, `NoLostUpdate`, `ApiCallsEnd` | 686 k |
| `timers` | 2 timers, the second one with an id, 2 skips, 2 continue-as-news, both processors | `ThreadsHaveInfos`, `SkippedOnlyOnRequestInFirstRun`, `CompletedIsFinal`, `SkipTakesEffectInFirstRun`, `DueTimersEndState` | 191 k |
| `greedy` | 2 executions with 1 timer each, 4 instants, 1 continue-as-new | `SortedLists`, `ScheduledListExact`, `WakeUpScheduled`, `TimersComplete` | 188 k |
| `cycle` | 2 states, 3 executions, 2 signals of any kind, 1 continue-as-new, 2 versions of the worker, 1 deployment | `TypeOK`, `DrainRevokedOnlyByClose`, `SignalsHandled`, `ConfigIsTheOneSent`, `ExecutingIdsExact`, `LoadedIsOneSnapshot`, `LoadEnds`, `DrainEnds` | 827 k |
| `service` | 1 workflow id, 2 requests, 4 runs, 2 objects, 2 days, 1 cleanup with 2 attempts | `StartAnsweredByItsOwnRun`, `GetAnswerIsFinal`, `WaitAnswerIsTrue`, `CompletionKept`, `RetainedRunsKeepObjects` | 2.0 M |

**Why the bounds are enough to be interesting.** Two executions compete for a
message, two messages show reordering and a request that is half completed when
it is parked, two continue-as-news show a command completed two runs before its
decision. Two state threads and an RPC with keys of both kinds are the smallest
instance in which the opposite lock orders meet. Two timers of two executions at
four instants give equal, earlier, later and past firing times, insertion at
both ends of the list, and removal of the timers of one execution under the
other. One RPC is enough for each race of an RPC with the drain,
since RPCs are handled one by one. In `cycle` two signals are enough for every
pair of a config update with another update or signal, and three executions for
a state that ends while another one of its id goes on, and for a conditional
close while another state waits. Snapshots of 5 and 4
bytes with pages of 2 or 3 give a last page that is short, a page that one
version has and the other has not, and a restart of the load. In `service` the
second request meets a run that was started, closed, continued or forgotten
since; the constraint `Scope` explores the blob store, the completion of a state
and the other requests one at a time, since they meet only in the engine, so a
state with two of them under way is not explored further. What grows with the bounds is the number of
similar executions; the theorems of section 5 cover all of them for the
safety properties. The run `service` is about Temporal; the theorems behind its
properties hold for both values of `Backend`, so `WaitAnswerIsTrue` and
`CompletionKept` are proved for Cadence as well.

**Fairness.** Weak fairness of every coroutine: the dispatcher of the engine
runs each coroutine that is not blocked. Weak fairness of API calls and update
handlers: an activity ends with an answer or with its retry policy exhausted (a
retry policy without limits would make this false: such a state blocks draining
in the code as well). Weak fairness of the next run being started and, in the
scheduler, of the workflow task that a fired timer creates: the engine
guarantees them. In `RunCycle`: weak fairness of the steps of a task, of the
activities of the state APIs and of the load of a page. Nothing is assumed of
clients, of the commands that are waited for, of deployments, of the threshold
or of time. `ApiService` states no fairness: its properties are safety.

### Runs that end in a violation

Each shows a disagreement between the code and what the repository says of it;
`findings` in `PROJECT.json` quotes the lines.

* `graceful_lost`. `shouldGracefulComplete` is not in the snapshot. A state asks
  for graceful completion, another one is still parked, the workflow continues
  as new, the parked state reaches a dead end, and the workflow stays open. As
  long as everything ends in the first run the promise is kept
  (`GracefulCompletesInFirstRun` in the run `liveness`).
* `proceed_twice`. When `Execute` fails and the state proceeds to its configured
  state, `RemoveStateExecutionToResume` is not called. If the execution had
  waited for commands it is resumed and executed again after continue-as-new,
  and subtracted from the counter a second time.
* `dump_split_char`. The query handler cuts the JSON of the snapshot at bytes and
  sends each page as a JSON string. A page that ends inside a character of
  several bytes is not valid UTF-8, and the encoder replaces it. The checksum is
  compared from page to page, never with what was loaded: the new run starts
  with changed data. What `LoadedIsOneSnapshot` says is true nevertheless.
* `drain_revoked`. The decision of a state may be a conditional close, and then
  the state's thread drains all signals, config updates included. This may happen
  while the main coroutine is in `DrainThreads` and the handlers have ended. An
  update that raises the threshold then takes it back: a state that waits for its
  commands is not parked any more, and `DrainThreads` does not end although no
  state API is stuck, not even if the condition was met and the workflow should
  complete. If all threads end nevertheless, the run goes on without handlers.
  What `cycle` checks is that no other step does this (`DrainRevokedOnlyByClose`).
* `blob_min_age`. The configuration promises that the cleanup stops at objects
  younger than the minimum age; the comparison is the other way round, so it
  looks at the young directories and stops at the old ones.

### Further behaviour that the models show

These come out of the same models. Each is a property that is stated without a
run, an exception in a property that holds, or a comment in a module.

* A skip that is drained at continue-as-new for a parked execution marks the
  timer info of the closing run, which the next run does not load
  (`SkipTakesEffect` in `TimerProcessor`).
* A stale skip that is retried by the thread of one timer completes that timer as
  skipped, though it named another one (`SkippedOnlyOnRequest`). In the first run
  this cannot happen: there a timer can be named only after the execution has
  added its timers, while a resumed execution adds them anew. Retried skips that
  match nothing are appended again, so the list of stale skips grows.
* The skip-timer handler is created before the update-config handler. It may end
  in the very task in which the threshold is raised again; the run goes on and
  its skips stay unhandled (`SkipSignalsHandled` in `RunCycle`). The other handlers
  are safe (`SignalsHandled`): the fail handler is the only other one before the
  update-config handler, and a signal of its own that meets the threshold closes
  the run; the later ones see the raised threshold.
* `UpdateByAPI` copies five named fields of an update. `OptimizeTimer`, which the
  request may set too, is not among them and is ignored (`UpdatesTakeEffect` in
  `RunCycle`; `ConfigIsTheOneSent` is about the other fields).
* A change of `ExecutingStateIdMode` under a state execution leaves counts that
  are not undone, or -1 (`modeChanged` in `ExecutingIdsExact`).
* A snapshot that shrinks while it is loaded lacks the next page; the query fails
  and its activity is retried without end (the exception in `LoadEnds`).
* The cleanup describes a workflow and deletes later; a run that is started in
  between and writes on the day of the directory loses its objects (`raced`).
* A wait workflow that the completing state starts has a minute to end; after
  that the completion is not seen by later requests (`CompletionKept`).
* Where the id of a wait workflow contains no run id (the old scheme, and both
  schemes on Cadence) a request is answered by a completion in an earlier chain
  of the workflow. `WaitAnswerIsTrue` says that the chain described by the
  request has completed the state where the id contains the first run, and that
  some chain of the workflow has where it does not.
* A get without run id may answer the run id of its first describe with the
  result of a run that was started later; a get without waiting, of a run that
  continued as new, waits for the end of the chain (`GetAnswerIsFinal`).
* A start that ignores running workflows and meets a run without request id
  panics and is answered with 500 (`CompareRequestId`).

A comment in the main loop (`workflowImpl.go:324`) says that a workflow whose
states all reached dead ends can complete; the code keeps it open, as
`integ/deadend_test.go` expects, and so does the model. The comment is out of
date.

## 4. Properties and hazards

`hazards` in `PROJECT.json` lists where the code is exposed and which property
covers it. The ones that took the most steps to attack:

* `ImplementsDurableWorkflow`: runs, handlers, command threads and the drain are
  invisible in the contract. A message leaves a channel only at its head, only
  into a command of an active execution, and once.
* `MessagesConserved`: each message is with the engine, in a received queue,
  kept by a command or delivered, and in one of these places only.
* `CounterMatchesExecutions`: the total that decides whether the workflow has
  reached a dead end is the number of executions with a thread, parked or queued
  to resume.
* `TriggeredExecutionsExecute`: the state thread gives up waiting because of the
  threshold, a command thread completes the command that was missing, and the
  trigger has to be looked at once more. What is enough is said by
  `TriggerReference`, not by the counting that the code does.
* `ContinueAsNewCompletes`: no coroutine can hold up draining.
* `WakeUpScheduled`: whenever all coroutines are blocked, the engine has a timer
  that fires no later than any timer someone waits for.
* `DrainRevokedOnlyByClose`, `DrainEnds`: a config update that raises the
  threshold in the middle of a drain does not leave the main coroutine waiting
  for threads that have no reason to end any more, unless a conditional close
  drains it (`drain_revoked`).
* `ConfigIsTheOneSent`: config updates pass through a handler, through the drain
  of a conditional close, through the last drain and, other than everything else,
  through the input of the next run. What was asked for (`Requested`) is every
  field of an update, what is applied are the fields that `UpdateByAPI` copies.
* `StartAnsweredByItsOwnRun`: the start is refused because of one run and
  described later, when that run may have been replaced; a lost answer and a
  retry with the same request id in between.
* `ApiCallsEnd`: state threads lock search attributes before data attributes and
  may block in between, RPCs lock in the other order but never block.

## 5. Proofs

All proofs are for every value of the constants that satisfies the named
assumptions of the modules: finitely many state ids that are not system ids,
disjoint signal and internal channels, requests that the activity's validation
accepts, disjoint key sets, configs and config updates whose fields have their
types, decisions that name states, API requests that name a workflow, bounds
that are natural numbers. Every invariant and every action property that a
passing run checks is a theorem, and so is the refinement of `DurableWorkflow`.

**`PersistenceManagerProofs`**: `TypeCorrect`, `LocksExclude`
(`MutualExclusion`), `UpdatesKept` (`NoLostUpdate`). That an upsert writes the
right value depends on the value loaded earlier, and that this value is still
current depends on the lock. The invariant `IInv` adds `HoldsDisjoint`,
`LockMapsExact` (a key is in its lock map exactly when some call holds it) and
`HeldAreFresh` (the loaded value of a held key is the current one). The
interesting step is `LoadDataAttributes`: the search attributes that were loaded
before blocking are still fresh.

**`InterpreterProofs`**: `TypeCorrect` needs, besides `TypeOK`, that threads and
results of commands belong to the request (`CommandsOK`) and that a run is
drained only when one is left (`RunBound`). The life-cycle theorems
`CounterExact`, `DecisionIsUnique`, `CompletionIsLast` and `OutputsKept` depend
on each other: the main loop leaves its inner loop because the counter is 0, the
counter is right because no ended execution is resumed, an output is collected
once because a decision is made once. `LifeInv` holds them together with
`PhaseOK` (where the main loop waits), `ThreadsOK` (what a thread's position
says about the resume map) and `DecidedOK` (an execution that decided is neither
parked nor queued).

`MessagesKept` (`MessagesConserved`) counts the places of a message. `MessageInv`
says that a message that was sent is in exactly one place and not delivered, or
in none and delivered once, and that one that was not sent is nowhere
(`MessagesOK`); and that a command thread still lives only where its command has
no result (`CommandThreadsOK`), or else a second message would replace the first.
The drain, the snapshot and the reload move whole queues; the lemmas on places
say that this neither loses nor duplicates an element. `DurableRefinement`
(`ImplementsDurableWorkflow`) shows for each action which step of the contract it
is: a message arrives, an execution begins, a command takes the head of a
channel, an execution consumes what its commands hold, it ends; everything that
belongs to threads, runs and continue-as-new is a stutter.

All these theorems but `TypeCorrect` assume `ProceedingStatesSkip`: a state that
proceeds to another one when `Execute` fails skips `WaitUntil`. Without it they
are false, as `proceed_twice` shows.

**`RunCycleProofs`**, first part: `LoadCorrect` proves `LoadedIsOneSnapshot` for
every length of snapshots, page size and sequence of deployments. Its invariant
`DumpInv` says that the bytes read so far are those that the pages before
`pageNum` cover in the snapshot with the last checksum, each at its place unless
it is half of a wide character, and that the load goes on exactly if there are
more. The arithmetic is in `PagesExact`: page n is there exactly if it begins
before the end of the snapshot. `CycleImplementsDump` shows that every step of
`RunCycle` is a step of the load loop or leaves it alone, which carries the
result over to whole workflows (`CycleLoadsOneSnapshot`).

Second part, the sweeps: `DrainStays` (`DrainRevokedOnlyByClose`),
`SignalsReachHandlers` (`SignalsHandled`), `ConfigKept` (`ConfigIsTheOneSent`).
The invariant `CycleInv` says where each coroutine is in the sweep of the
dispatcher. The main coroutine is called first, so it sees a threshold that a
signal has met only in the next sweep, when the update-config handler has emptied
its channel: what made the threshold met cannot be taken back by a handler
(`DrainOK`, `QuietOK`). A conditional close that takes it back does so in a run
whose handlers have all ended (`RevokedOK`): while one of them lives, the
update-config handler has left no update to drain. The history variable
`revoked` remembers that this has happened in the run; the theorems say nothing
about the rest of such a run. While the main loop runs, the fail handler has ended only if the
client failed the workflow, and the other handlers of `SignalsHandled` only under
a threshold that is met and with no update left (`HandlersOK`); whoever is called
after the update-config handler finds its channel empty (`OrderOK`). The updates that are still in the channel lead from
the config of the run to the one that was sent (`ConfigOK`); the proof unfolds
the loop over them update by update.

Third part, the counts: `CycleTypeCorrect` and `SearchAttributeExact`
(`ExecutingIdsExact`). `UnderWay(S)` is the number of executions of the states
in S that have a thread, are parked or are queued to resume. `CountInv` says that
the total is `UnderWay` of all state ids, that the count of each state id is
`UnderWay` of that id unless the mode was changed under it, and that the search
attribute is up to date unless a start is queued that will refresh it. A thread
that ends and starts others in the same step changes several of these counts at
once, and a conditional close whose condition is met leaves the refresh to next
states that it does not start, which is harmless since the workflow closes then
(`LoopOK`); the lemmas on sums over sets of state ids take them apart.

**`DeciderTriggerProofs`**: `TriggerIsExact`, `CompletedRequestsAreMet` and
`TriggersStayMet` are about requests and combinations of any length. The code
decrements a count per id while it goes over the completed commands
(`RemainingExact` says what is left after each); the reference asks for an
assignment of the positions of the combination to different completed commands
with their ids. `CoveredExactly` shows that there is one exactly if no id is named
more often than it is completed. `TriggeredExecute` (`TriggeredExecutionsExecute`)
is about the executions of `Interpreter`: `TriggerInv` says that the trigger of an
execution is met while it executes and not met when it has no thread and is left to
the next run. It needs that command threads belong to waiting executions
(`CommandThreadsOK` of `InterpreterProofs`), so that no command completes behind
the back of either, and `ProceedingStatesSkip` as the theorems above do.

**`TimerProcessorProofs`**: `ThreadsFindInfos` (`ThreadsHaveInfos`),
`FirstRunSkipsAreRequested` (`SkippedOnlyOnRequestInFirstRun`) and
`CompletionsAreFinal` (`CompletedIsFinal`). The invariant says that a timer
thread runs only for an execution that waits and a timer that has not completed
(`ThreadsOK`), that an execution that waits has the infos of all its timers
(`InfosOK`), and of the first run that a skip can only have been asked for after
the timers were added, so that a skip that has become stale never matches again
(`FirstRunOK`).

**`GreedyTimerSchedulerProofs`**: `ListsStaySorted` (`SortedLists`),
`ScheduledTimesAreExact` (`ScheduledListExact`) and `WakeUpsAreScheduled`
(`WakeUpScheduled`). Adding and removing the timers of an execution are loops
over its commands and over a list; the lemmas of the first part say what the
loops leave in the list. The invariant says that both lists are sorted and hold no
timer of an execution that has ended (`ListsOK`), that a timer someone waits for
is in the pending list unless its time has come (`ThreadsOK`), and that the
timers at the engine are those of the scheduled list that have not fired
(`EngineTimersOK`). The theorem about wake-ups is where the two lists meet: the
scheduler blocks only when the earliest pending timer is not before the earliest
scheduled one.

**`ApiServiceProofs`**: `TypeCorrect`, `StartsAnsweredByTheirOwnRun`,
`GetsAnsweredWithFinalStatus`, `WaitsAnsweredTruly`, `CompletionsKept` and
`ObjectsKept` (`RetainedRunsKeepObjects`), for any number of workflow ids,
requests, runs, objects and cleanups, all at the same time. What a handler learned
from one call is used in the next one, so the invariant has to say what stays
true of a run: `ChainsOK` (only the last run of a chain may be open),
`RetentionOK` (open runs are not forgotten, older runs of an id go first),
`WaitRunsOK` and `SentOK` (what a wait workflow says about the state it waits
for; `TellsTruly`: the first run it is named after, or some chain of the workflow
it is named after, has executed the state), and `CallsOK` (what each handler knows between two calls). All steps of
the engine are shown once to be of a few kinds that keep these facts. For the
blob store `ObjectsInv` adds that an object lies in a directory of its run's
workflow and belongs to one chain or one start (`OwnersOK`), what the cleanup knows about the directory it is about to
delete (`CleanupOK`), and that objects of retained runs are there unless the
cleanup raced with a start (`ReferredKept`).

**How recursion is proved.** The provers cannot use induction theorems that take
an operator. `NumberLemmas` derives induction over a *set* of natural numbers
from the least-number principle, and the folds of the library are unfolded by
giving their solution explicitly. So the loops of the scheduler, of the config
updates and of the trigger are proved for lists of any length.

**Checked, not proved.** The liveness properties: `ContinueAsNewCompletes`,
`FailRequestCloses`, `GracefulCompletesInFirstRun`, `ApiCallsEnd`,
`SkipTakesEffectInFirstRun`, `DueTimersEndState`, `TimersComplete`, `LoadEnds`
and `DrainEnds`; fairness and `ENABLED` are outside the prover's reach. The
runs that end in a violation are counterexamples and need no proof.

## 6. Not modelled

* What a cancelled run does before it ends: the engine closes it. For the API
  service both stop types are steps of `ApiService`.
* An unsupported `ConditionalCloseType`, which fails the workflow like any other
  error; both supported types, for signal and internal channels, are `condClose`.
* A snapshot that cannot be decoded, which fails the new run.
* In `RunCycle`: what `Interpreter` has already, namely commands and messages,
  failures of the APIs, and updates with the count of them that the threshold adds
  to signals and state APIs (`syncUpdateReceived`). Whether the condition of a
  conditional close is met depends on messages and is a choice. In `Interpreter`: a
  threshold that is taken back (section 2). So `ContinueAsNewCompletes` and
  `FailRequestCloses` are about runs in which no conditional close does this.
* The two Awaits of an update handler that locks. The validator has just found all
  keys unlocked and nothing runs in between, so neither blocks and
  `UpdateAccepted` is one step; `PersistenceManager` says nothing about a
  validator that does not check what the handler locks.
* The encoding of the checksum: it is the string of 16 bytes and passes through
  JSON as the data do, so that different checksums might become equal. In the
  model they differ if the snapshots do.
* Retry policies of workflows: with one, a run that failed or timed out has a
  successor in its chain (`StartInterpreterWorkflow` in both clients). In the
  model only a continued run has.
* API requests that are one call and its conversion (search, get and set of
  attributes, signal, publish) beyond the client actions of the other modules;
  reset, whose search for an event in the history is the engine's data; schedules
  and cron; the trimming of RPC timeouts.
* What Cadence refuses or lacks beyond what `Backend` stands for: data attributes
  in the memo, updates. The run `service` and the theorems on starts and gets are
  about calls that mean the same on both engines.
* Old versions of the global versioner, queries (read-only), HTTP, the SDK
  adapters, logging, configuration and start-up.
* Mocks and the generated IDL. About 29,000 of the 43,000 lines of Go outside
  the tests are generated accessors, JSON and HTTP code; what the modules model
  is a large part of the code that was written by hand and has state, and a small
  part of all lines.

## 7. Plan

1. Reset to a state or an event, and the signals that the engine applies again to
   the new run.
2. Two workflow ids in the run `service` with the cleanup and the waits at once;
   the theorems about `ApiService` cover them, the run does not.
