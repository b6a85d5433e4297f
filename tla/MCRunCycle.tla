----------------------------- MODULE MCRunCycle -----------------------------
(* A small instance of RunCycle for TLC. *)
EXTENDS RunCycle

CONSTANTS A, B, v1, v2

WorkflowConfig(threshold, mode, size) ==
  [threshold |-> threshold, mode |-> mode, pageSize |-> size, optimizeTimer |-> FALSE]

Configs ==
  {WorkflowConfig(3, "ENABLED_FOR_ALL", 2),
   WorkflowConfig(2, "ENABLED_FOR_STATES_WITH_WAIT_UNTIL", 0)}

\* Raise the threshold to "unlimited", lower it, change the mode.
Updates ==
  {[threshold |-> 0], [threshold |-> 1, pageSize |-> 3],
   [mode |-> "DISABLED", optimizeTimer |-> TRUE]}

Starts == {<< >>, <<B>>}

CycleDecisions ==
  [s \in StateIds |->
     {[next |-> << >>, close |-> "graceful"]} \cup
     (IF s = A THEN {[next |-> <<A, B>>, close |-> "none"],
                     [next |-> <<B>>, close |-> "none"]}
      ELSE {[next |-> << >>, close |-> "none"], [next |-> << >>, close |-> "force"],
            [next |-> <<A>>, close |-> "none"], [next |-> <<A>>, close |-> "conditional"]})]

\* The second version of the code writes a shorter snapshot.
Lengths == [v \in Versions |-> IF v = v1 THEN 5 ELSE 4]
\* No character of several bytes, and one at the end of the first page.
Ascii   == [v \in Versions |-> {}]
OneWide == [v \in Versions |-> {2}]
=============================================================================
