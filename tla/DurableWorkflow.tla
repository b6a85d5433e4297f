--------------------------- MODULE DurableWorkflow ---------------------------
(***************************************************************************)
(* What the interpreter promises to the author of a workflow, without      *)
(* runs, threads, signal handlers or continue-as-new:                      *)
(*   - a channel is a queue; a message leaves it only at its head and only *)
(*     into the command of an active execution, and is consumed once;      *)
(*   - an execution begins once, ends once, and ends with every message    *)
(*     that it took consumed.                                              *)
(* Nothing is promised once the workflow is closing.                       *)
(***************************************************************************)
EXTENDS Naturals, Sequences

CONSTANTS Executions, Queues

VARIABLES
  queue,     \* [Queues -> sequence of messages]
  status,    \* [Executions -> "unborn" | "active" | "ended"]
  kept,      \* [Executions -> messages taken and not consumed yet]
  consumed,  \* messages passed to an execution's decision
  open       \* the workflow is neither closed nor failing

contractVars == <<queue, status, kept, consumed, open>>

InQueues == UNION {{queue[c][i] : i \in DOMAIN queue[c]} : c \in Queues}
Known    == InQueues \cup (UNION {kept[e] : e \in Executions}) \cup consumed

InitContract ==
  /\ queue = [c \in Queues |-> << >>]
  /\ status = [e \in Executions |-> "unborn"]
  /\ kept = [e \in Executions |-> {}]
  /\ consumed = {}
  /\ open = TRUE

\* New messages join the queues at their ends.
Arrive ==
  \A c \in Queues :
    /\ Len(queue[c]) <= Len(queue'[c])
    /\ SubSeq(queue'[c], 1, Len(queue[c])) = queue[c]
    /\ \A i \in (Len(queue[c]) + 1)..Len(queue'[c]) : queue'[c][i] \notin Known

Message == Arrive /\ UNCHANGED <<status, kept, consumed, open>>

Begin ==
  /\ \A e \in Executions :
       status'[e] = status[e] \/ (status[e] = "unborn" /\ status'[e] = "active")
  /\ UNCHANGED <<queue, kept, consumed, open>>

Take(e, c) ==
  /\ status[e] = "active" /\ queue[c] # << >>
  /\ kept' = [kept EXCEPT ![e] = @ \cup {Head(queue[c])}]
  /\ queue' = [queue EXCEPT ![c] = Tail(@)]
  /\ UNCHANGED <<status, consumed, open>>

Consume(e) ==
  /\ status[e] = "active"
  /\ consumed' = consumed \cup kept[e]
  /\ kept' = [kept EXCEPT ![e] = {}]
  /\ UNCHANGED <<queue, status, open>>

\* The decision may publish messages.
End(e) ==
  /\ status[e] = "active" /\ kept[e] = {}
  /\ status' = [status EXCEPT ![e] = "ended"]
  /\ Arrive
  /\ UNCHANGED <<kept, consumed, open>>

Closing == ~open'

NextContract ==
  \/ open /\ \/ Message \/ Begin
             \/ \E e \in Executions : Consume(e) \/ End(e) \/ \E c \in Queues : Take(e, c)
  \/ Closing

Contract == InitContract /\ [][NextContract]_contractVars
=============================================================================
