----------------------- MODULE StateExecutionCounter -----------------------
(***************************************************************************)
(* service/interpreter/stateExecutionCounter.go: the counts of the state   *)
(* executions that are under way and the system search attribute           *)
(* IwfExecutingStateIds, which shows the counted state ids to searches.    *)
(*                                                                         *)
(* Which executions are counted depends on ExecutingStateIdMode, which an  *)
(* update of the config may change at any time.  The counts are a map with *)
(* the keys the Go map has: a key is deleted when its count falls to zero, *)
(* and a count that was never increased falls to -1 and keeps its key.     *)
(* The versions of a workflow before ExecutingStateIdMode are left out.    *)
(***************************************************************************)
EXTENDS Integers, SequencesExt

CONSTANTS
  StateIds,
  SkipWaitUntil   \* state ids whose options skip the WaitUntil API

ASSUME StatesAssumption == SkipWaitUntil \subseteq StateIds

VARIABLES
  stateIdCurrentlyExecutingCounts,
  totalCurrentlyExecutingCount,
  executingStateIds   \* search attribute IwfExecutingStateIds

counterVars == <<stateIdCurrentlyExecutingCounts, totalCurrentlyExecutingCount,
                 executingStateIds>>

Modes == {"DISABLED", "ENABLED_FOR_ALL", "ENABLED_FOR_STATES_WITH_WAIT_UNTIL"}

\* The switch on the mode, the same for a start and for a completion.
Counted(mode, s) ==
  \/ mode = "ENABLED_FOR_ALL"
  \/ mode = "ENABLED_FOR_STATES_WITH_WAIT_UNTIL" /\ s \notin SkipWaitUntil

CountOf(counts, s) == IF s \in DOMAIN counts THEN counts[s] ELSE 0

\* NewStateExecutionCounter
CounterInit ==
  /\ stateIdCurrentlyExecutingCounts = << >>
  /\ totalCurrentlyExecutingCount = 0
  /\ executingStateIds = {}

\* The counts with the marked starts added.
AddStarts(counts, starts, marked) ==
  [s \in DOMAIN counts \cup {starts[i] : i \in marked} |->
     CountOf(counts, s) + Cardinality({i \in marked : starts[i] = s})]

\* Mutant: the search attribute is refreshed only for an id that is new.
MarkNewIdsOnly(starts, mode) ==
  LET marked == {i \in DOMAIN starts : Counted(mode, starts[i])}
  IN  /\ stateIdCurrentlyExecutingCounts' =
           AddStarts(stateIdCurrentlyExecutingCounts, starts, marked)
      /\ totalCurrentlyExecutingCount' =
           totalCurrentlyExecutingCount + Cardinality(DOMAIN starts)
      /\ executingStateIds' = IF {starts[i] : i \in marked} \subseteq executingStateIds
                              THEN executingStateIds
                              ELSE DOMAIN stateIdCurrentlyExecutingCounts'

\* Mutant: only the executions whose ids are marked count as executing.
MarkCountingMarked(starts, mode) ==
  LET marked == {i \in DOMAIN starts : Counted(mode, starts[i])}
  IN  /\ stateIdCurrentlyExecutingCounts' =
           AddStarts(stateIdCurrentlyExecutingCounts, starts, marked)
      /\ totalCurrentlyExecutingCount' = totalCurrentlyExecutingCount + Cardinality(marked)
      /\ executingStateIds' = DOMAIN stateIdCurrentlyExecutingCounts'

\* The start requests the main loop took, [positions -> state ids]; resume requests
\* are counted already.  The refresh writes the keys of the map; it is left out
\* when no id is marked.
MarkStateIdExecutingIfNotYet(starts, mode) ==
  LET marked == {i \in DOMAIN starts : Counted(mode, starts[i])}
  IN  /\ stateIdCurrentlyExecutingCounts' =
           AddStarts(stateIdCurrentlyExecutingCounts, starts, marked)
      /\ totalCurrentlyExecutingCount' =
           totalCurrentlyExecutingCount + Cardinality(DOMAIN starts)
      /\ executingStateIds' = IF marked = {} THEN executingStateIds
                              ELSE DOMAIN stateIdCurrentlyExecutingCounts'

Decrease(counts, s) ==
  LET count == CountOf(counts, s) - 1
  IN  [t \in (DOMAIN counts \cup {s}) \ (IF count = 0 THEN {s} ELSE {}) |->
         IF t = s THEN count ELSE counts[t]]

\* next: the next states of the decision that do not close the workflow.  The
\* refresh is left to the marking of a next state when one will be marked.
MarkStateExecutionCompleted(s, next, mode) ==
  /\ totalCurrentlyExecutingCount' = totalCurrentlyExecutingCount - 1
  /\ IF Counted(mode, s)
     THEN /\ stateIdCurrentlyExecutingCounts' =
               Decrease(stateIdCurrentlyExecutingCounts, s)
          /\ executingStateIds' =
               IF \E n \in ToSet(next) : Counted(mode, n) THEN executingStateIds
               ELSE DOMAIN stateIdCurrentlyExecutingCounts'
     ELSE UNCHANGED <<stateIdCurrentlyExecutingCounts, executingStateIds>>

CounterTypeOK ==
  /\ DOMAIN stateIdCurrentlyExecutingCounts \subseteq StateIds
  /\ \A s \in DOMAIN stateIdCurrentlyExecutingCounts :
       stateIdCurrentlyExecutingCounts[s] \in Int
  /\ totalCurrentlyExecutingCount \in Nat
  /\ executingStateIds \subseteq StateIds
=============================================================================
