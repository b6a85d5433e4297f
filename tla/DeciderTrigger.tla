--------------------------- MODULE DeciderTrigger ---------------------------
(***************************************************************************)
(* The decider trigger: when do the completed commands of a state          *)
(* execution allow its Execute API to be invoked                           *)
(* (service/interpreter/deciderTriggerer.go).                              *)
(*                                                                         *)
(* The code keeps three lists of commands (timers, signals, internal       *)
(* channels) and three maps from an index to a completed command.  They    *)
(* are one sequence of commands here: a command request is a record        *)
(*    trigger : one of TriggerTypes                                        *)
(*    cmds    : a sequence of commands, each a record with a command id    *)
(*    combos  : a sequence of combinations, each a sequence of command ids *)
(* and the completed commands are a set of indices into cmds.              *)
(***************************************************************************)
EXTENDS Naturals, Sequences, FiniteSets

TriggerTypes == {"ALL_COMMAND_COMPLETED", "ANY_COMMAND_COMPLETED",
                 "ANY_COMMAND_COMBINATION_COMPLETED"}

CommandIds(req) == {req.cmds[i].id : i \in DOMAIN req.cmds}

\* The answer of a WaitUntil API that the activity accepts: combinations are
\* given with the third trigger and name ids of commands.
CheckCommandRequestFromWaitUntilResponse(req) ==
  \/ req.cmds = << >>
  \/ /\ req.trigger \in TriggerTypes
     /\ req.trigger = "ANY_COMMAND_COMBINATION_COMPLETED" =>
          /\ req.combos # << >>
          /\ \A i \in DOMAIN req.combos : \A j \in DOMAIN req.combos[i] :
               req.combos[i][j] \in CommandIds(req)

\* How often the id occurs in a sequence of ids.
Occurrences(cid, ids) == Cardinality({i \in DOMAIN ids : ids[i] = cid})

\* The loops over one combination: acceptedCmdIds counts what the combination still
\* needs, and every completed command, in the order of the indices, lowers the
\* counter of its id.
RemainingCmdIds(comb, req, done) ==
  LET combIds == {comb[i] : i \in DOMAIN comb}
      accepted[n \in 0..Len(req.cmds)] ==
        IF n = 0
        THEN [cid \in combIds |-> Occurrences(cid, comb)]
        ELSE [cid \in combIds |->
                IF n \in done /\ cid = req.cmds[n].id /\ accepted[n - 1][cid] > 0
                THEN accepted[n - 1][cid] - 1
                ELSE accepted[n - 1][cid]]
  IN  {cid \in combIds : accepted[Len(req.cmds)][cid] > 0}

\* Mutant: "any" asks for one completed command instead of at least one.
IsDeciderTriggerConditionMetOnce(req, done) ==
  \/ req.cmds = << >>
  \/ /\ req.trigger = "ALL_COMMAND_COMPLETED"
     /\ Cardinality(done) = Len(req.cmds)
  \/ /\ req.trigger = "ANY_COMMAND_COMPLETED"
     /\ Cardinality(done) = 1
  \/ /\ req.trigger = "ANY_COMMAND_COMBINATION_COMPLETED"
     /\ \E i \in DOMAIN req.combos :
          RemainingCmdIds(req.combos[i], req, done) = {}

\* IsDeciderTriggerConditionMet of the code; a request without a command is met.
IsDeciderTriggerConditionMet(req, done) ==
  \/ req.cmds = << >>
  \/ /\ req.trigger = "ALL_COMMAND_COMPLETED"
     /\ Cardinality(done) = Len(req.cmds)
  \/ /\ req.trigger = "ANY_COMMAND_COMPLETED"
     /\ Cardinality(done) > 0
  \/ /\ req.trigger = "ANY_COMMAND_COMBINATION_COMPLETED"
     /\ \E i \in DOMAIN req.combos :
          RemainingCmdIds(req.combos[i], req, done) = {}

(***************************************************************************)
(* The reference: a combination is covered when every id occurs among the  *)
(* completed commands at least as often as in the combination, i.e. its    *)
(* positions can be assigned to different completed commands.              *)
(***************************************************************************)
CombinationCovered(comb, req, done) ==
  \E assign \in [DOMAIN comb -> done] :
     /\ \A i, j \in DOMAIN comb : i # j => assign[i] # assign[j]
     /\ \A i \in DOMAIN comb : req.cmds[assign[i]].id = comb[i]

TriggerReference(req, done) ==
  CASE req.cmds = << >> -> TRUE
    [] req.cmds # << >> /\ req.trigger = "ALL_COMMAND_COMPLETED" ->
         done = DOMAIN req.cmds
    [] req.cmds # << >> /\ req.trigger = "ANY_COMMAND_COMPLETED" ->
         done # {}
    [] OTHER ->
         \E i \in DOMAIN req.combos : CombinationCovered(req.combos[i], req, done)
=============================================================================
