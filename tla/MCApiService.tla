---------------------------- MODULE MCApiService ----------------------------
(* A small instance of ApiService for TLC: one workflow id. *)
EXTENDS ApiService

CONSTANTS id1, id2

wf == <<"workflow", 1>>
OneWorkflow == {wf}

Start(policy, ignore, requestId, large) ==
  [api |-> "start", wf |-> wf, policy |-> policy, ignoreAlreadyStarted |-> ignore,
   requestId |-> requestId, large |-> large]
Get(run, withWait, needsResults) ==
  [api |-> "get", wf |-> wf, run |-> run, withWait |-> withWait, needsResults |-> needsResults]

StartIgnoring(large) == Start("ALLOW_IF_NO_RUNNING", TRUE, id1, large)
\* The first slot is for starts, the second one for another start of the same
\* client and for everything else.
RequestMenu ==
  [q \in Slots |->
     IF q = 1
     THEN {StartIgnoring(TRUE), StartIgnoring(FALSE),
           Start("ALLOW_TERMINATE_IF_RUNNING", FALSE, id2, FALSE),
           Start("ALLOW_IF_PREVIOUS_EXITS_ABNORMALLY", TRUE, NoRequestId, FALSE),
           Start("DISALLOW_REUSE", FALSE, NoRequestId, FALSE)}
     ELSE {StartIgnoring(FALSE),
           Get(0, TRUE, FALSE), Get(1, TRUE, FALSE), Get(1, FALSE, TRUE),
           [api |-> "wait", wf |-> wf],
           [api |-> "stop", wf |-> wf, run |-> 0, stopType |-> "TERMINATE"],
           [api |-> "stop", wf |-> wf, run |-> 0, stopType |-> "CANCEL"]}]

Uses(apis) == \E q \in Slots : call[q].req.api \in apis
UsesBlobStore == today > 0 \/ written > 0 \/ cleanups > 0
WaitsForState == executed # {} \/ Uses({"wait"})

\* The completion of a state, the blob store and the other requests meet nowhere
\* but in the engine: they are explored one at a time, each with the starts.
Scope ==
  IF UsesBlobStore THEN ~WaitsForState /\ call[2] = NoCall /\ Len(runs) <= 2
  ELSE WaitsForState =>
         call[2].req.api \in {"none", "wait"} /\ \A i \in DOMAIN runs : runs[i].kept
=============================================================================
