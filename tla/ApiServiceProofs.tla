-------------------------- MODULE ApiServiceProofs --------------------------
(***************************************************************************)
(* Proofs about ApiService for any number of requests, workflows, runs,    *)
(* objects and cleanups, and for every order of their steps.               *)
(*                                                                         *)
(* The answers of the service, the completions of states and the objects   *)
(* of the runs meet in the engine, so the invariants are about its runs:   *)
(* which run of a chain may be open (ChainsOK), which runs are forgotten   *)
(* first (RetentionOK), what a wait workflow that has ended says about the *)
(* state (WaitRunsOK), and what each handler knows between two of its      *)
(* calls (CallsOK).                                                        *)
(***************************************************************************)
EXTENDS ApiService, NumberLemmas

-----------------------------------------------------------------------------
(* The invariants *)

Ids == {"workflow", "waitForWorkflow", "waitForRun"} \X Nat

Asked == UNION {Requests[q] : q \in Slots}
Memos == {NoRequestId} \cup RequestIds \cup
         {req.requestId : req \in {r \in Asked : r.api = "start"}}

RunRecords ==
  [wf : Ids, status : Statuses, first : Nat, memo : Memos, objs : SUBSET Nat,
   kept : BOOLEAN, cancelRequested : BOOLEAN, signalled : BOOLEAN]

RunsTypeOK == runs \in Seq(RunRecords)

\* A chain of continue-as-news is known by its first run, which is one of the same
\* workflow, and only its last run may have another status than CONTINUED_AS_NEW.
ChainsOK ==
  \A i \in DOMAIN runs :
    /\ runs[i].first \in 1..i /\ runs[runs[i].first].wf = runs[i].wf
    /\ \A j \in DOMAIN runs : j < i /\ runs[j].first = runs[i].first =>
         runs[j].status = "CONTINUED_AS_NEW"

\* Open runs are not forgotten, and the older runs of a workflow id go first.
RetentionOK ==
  \A i \in DOMAIN runs :
    /\ runs[i].status = "RUNNING" => runs[i].kept
    /\ \A j \in DOMAIN runs :
         i < j /\ runs[i].wf = runs[j].wf /\ runs[i].kept => runs[j].kept

HasExecuted(wf) == \E f \in DOMAIN runs : f \in executed /\ runs[f].wf = wf

\* A wait workflow that is named after a chain, or after a workflow, is signalled
\* only for a state of this chain, or of this workflow.
TellsTruly(id) ==
  /\ \A f \in Nat : id = WaitIdOfFirstRun(f) => f \in executed
  /\ \A wf \in WorkflowIds : id = WaitIdOfWorkflow(wf) => HasExecuted(wf)

\* A wait workflow that has completed was signalled.
WaitRunsOK ==
  \A i \in DOMAIN runs :
    IsWaitRun(i) =>
      /\ runs[i].status \in {"RUNNING", "COMPLETED", "TIMEOUT"}
      /\ runs[i].status = "COMPLETED" => runs[i].signalled
      /\ runs[i].signalled => TellsTruly(runs[i].wf)

Signalled(id) == \E i \in RunsOf(id) : runs[i].signalled

\* The ids that the sender has gone through have a run that was signalled.
SentOK ==
  /\ executed \subseteq DOMAIN runs /\ committed \subseteq executed
  /\ \A f \in executed : runs[f].wf \in WorkflowIds
  /\ sentTo \in [executed -> Nat]
  /\ \A f \in executed : \A k \in DOMAIN SignalIds(f) :
       k <= sentTo[f] => Signalled(SignalIds(f)[k])
  /\ CompletionKept

PcsOf(api) ==
  CASE api = "start" -> {"write", "start", "describeStarted"}
    [] api = "get"   -> {"describe", "result", "resultOf", "describeAgain"}
    [] api = "wait"  -> {"describeFirst", "startWait", "waitResult"}
    [] api = "stop"  -> {"stop"}
Pcs == {"idle", "done", "write", "start", "describeStarted", "describe", "result",
        "resultOf", "describeAgain", "describeFirst", "startWait", "waitResult", "stop"}

CallRecords ==
  [req : Asked \cup {[api |-> "none"]}, pc : Pcs, run : Nat, target : Nat,
   status : Statuses \cup {"none"}, objs : SUBSET Nat,
   answer : {"none", "ok", "error", "alreadyStarted", "notExists", "longPollTimeout"}]

CallTypeOK(q) ==
  /\ call[q] \in CallRecords
  /\ call[q].pc \notin {"idle", "done"} =>
       call[q].req \in Asked /\ call[q].pc \in PcsOf(call[q].req.api)

\* What a handler knows between its calls.
KnownOK(q) ==
  LET c == call[q] IN
  /\ c.pc \in {"describeStarted", "result", "resultOf", "describeAgain"} =>
       c.run \in RunsOf(c.req.wf)
  /\ c.pc \in {"result", "resultOf", "describeAgain"} /\ c.req.run # 0 =>
       c.run = c.req.run
  /\ c.pc = "resultOf" =>
       /\ c.target \in RunsOf(c.req.wf)
       /\ c.target = c.run \/ (c.req.run = 0 /\ c.target > c.run)
  /\ c.pc = "waitResult" => c.target \in RunsOf(WaitId(q))

\* What an answer rests on.  Of a get: a chain that has ended.
Final == Abnormal \cup {"COMPLETED"}
Ended(q, i) ==
  /\ i \in RunsOf(call[q].req.wf)
  /\ End(i) = End(call[q].run) \/ (call[q].req.run = 0 /\ i > call[q].run)
  /\ runs[End(i)].status = call[q].status
Ok(q, api) == call[q].pc = "done" /\ call[q].req.api = api /\ call[q].answer = "ok"
Promises(req, status) == req.withWait \/ (req.needsResults /\ status # "RUNNING")

StartOK(q) ==
  Ok(q, "start") =>
    /\ call[q].run \in DOMAIN runs /\ call[q].status \in Statuses
    /\ call[q].req.requestId # NoRequestId =>
         runs[call[q].run].memo = call[q].req.requestId
GetOK(q) ==
  Ok(q, "get") =>
    /\ call[q].run \in DOMAIN runs /\ call[q].status \in Statuses
    /\ Promises(call[q].req, call[q].status) =>
         call[q].status \in Final /\ \E i \in DOMAIN runs : Ended(q, i)
WaitOK(q) ==
  Ok(q, "wait") =>
    IF WaitsByRun THEN call[q].run \in executed ELSE HasExecuted(call[q].req.wf)

SlotOK(q) == CallTypeOK(q) /\ KnownOK(q) /\ StartOK(q) /\ GetOK(q) /\ WaitOK(q)
CallsOK == call \in [Slots -> CallRecords] /\ \A q \in Slots : SlotOK(q)

RunsInv == RunsTypeOK /\ ChainsOK /\ RetentionOK /\ WaitRunsOK
IInv == RunsInv /\ SentOK /\ CallsOK /\ written \in Nat

-----------------------------------------------------------------------------
(* Objects *)

\* An object that a run or a start refers to lies in a directory of its workflow,
\* runs of different chains and different starts refer to different objects, and
\* while the cleanup is about to delete a directory every run that is known of
\* that workflow belongs to a chain that was started after it looked.
ObjectsTypeOK ==
  /\ written \in Nat
  /\ \A o \in objects : o.id \in 1..written
  /\ today \in Nat /\ \A o \in objects : o.dir \in (0..today) \X WorkflowIds
  /\ \A i \in DOMAIN runs : runs[i].objs \subseteq 1..written
  /\ \A q \in Slots : call[q].objs \subseteq 1..written
  /\ \A q \in Slots : call[q].objs # {} => call[q].pc \in {"start", "describeStarted"}
  /\ DOMAIN cleanup = {"pc", "stop", "token", "page", "seen"}

OwnersOK ==
  /\ \A o \in objects, i \in DOMAIN runs : o.id \in runs[i].objs => o.dir[2] = runs[i].wf
  /\ \A o \in objects, q \in Slots : o.id \in call[q].objs => o.dir[2] = call[q].req.wf
  /\ \A i, j \in DOMAIN runs : \A x \in runs[i].objs :
       x \in runs[j].objs => runs[i].first = runs[j].first
  /\ \A q \in Slots, i \in DOMAIN runs : \A x \in call[q].objs : x \notin runs[i].objs
  /\ \A p, q \in Slots : \A x \in call[p].objs : p # q => x \notin call[q].objs

CleanupOK ==
  cleanup.pc = "delete" =>
    /\ cleanup.seen \in 0..Len(runs)
    /\ \A i \in DOMAIN runs :
         runs[i].kept /\ runs[i].wf = Head(cleanup.page)[2] => runs[i].first > cleanup.seen

ReferredKept ==
  /\ RetainedRunsKeepObjects
  /\ \A q \in Slots : call[q].objs \subseteq ObjectIds \cup raced

ObjectsInv == ObjectsTypeOK /\ OwnersOK /\ CleanupOK /\ ReferredKept

-----------------------------------------------------------------------------
(* What the engine's operators return *)

LEMMA RunsAreRecords ==
  ASSUME RunsTypeOK
  PROVE  /\ Len(runs) \in Nat /\ DOMAIN runs = 1..Len(runs)
         /\ \A i \in DOMAIN runs : runs[i] \in RunRecords
BY DEF RunsTypeOK

\* A call without run id means the latest run of the workflow that is known.
LEMMA CurrentIsLatest ==
  ASSUME RunsTypeOK, NEW wf
  PROVE  /\ Current(wf) \in 0..Len(runs)
         /\ Current(wf) = 0 => \A i \in RunsOf(wf) : ~runs[i].kept
         /\ Current(wf) # 0 =>
              /\ Current(wf) \in RunsOf(wf) /\ runs[Current(wf)].kept
              /\ \A i \in RunsOf(wf) : runs[i].kept => i <= Current(wf)
<1> DEFINE known == {i \in RunsOf(wf) : runs[i].kept}
<1>1. known \in SUBSET (0..Len(runs)) /\ 0 \notin known /\ Len(runs) \in Nat
  BY RunsAreRecords DEF RunsOf
<1>2. Current(wf) = IF known = {} THEN 0 ELSE Max(known)
  BY DEF Current
<1>3. known # {} => Max(known) \in known /\ \A y \in known : y <= Max(known)
  <2> HIDE DEF known
  <2> QED BY <1>1, MaxOfSet
<1>4. CASE known = {}
  BY <1>1, <1>2, <1>4
<1>5. CASE known # {}
  <2>1. Current(wf) \in known /\ \A y \in known : y <= Current(wf)
    BY <1>2, <1>3, <1>5
  <2> QED BY <1>1, <2>1
<1> QED BY <1>4, <1>5

LEMMA ResolvedRun ==
  ASSUME RunsTypeOK, NEW wf, NEW run \in Nat, Resolve(wf, run) # 0
  PROVE  /\ Resolve(wf, run) \in RunsOf(wf) /\ runs[Resolve(wf, run)].kept
         /\ run # 0 => Resolve(wf, run) = run
         /\ run = 0 => Resolve(wf, run) = Current(wf)
BY CurrentIsLatest DEF Resolve

\* The last run of a chain, before and after a step.
LEMMA LastOfChain ==
  ASSUME NEW rs \in Seq(RunRecords), NEW i \in DOMAIN rs,
         NEW m, m = Max({j \in DOMAIN rs : rs[j].first = rs[i].first})
  PROVE  /\ m \in DOMAIN rs /\ rs[m].first = rs[i].first
         /\ \A j \in DOMAIN rs : rs[j].first = rs[i].first => j <= m
<1> DEFINE chain == {j \in DOMAIN rs : rs[j].first = rs[i].first}
<1>1. chain \in SUBSET (0..Len(rs)) /\ chain # {} /\ Len(rs) \in Nat
  OBVIOUS
<1>2. Max(chain) \in chain /\ \A j \in chain : j <= Max(chain)
  <2> HIDE DEF chain
  <2> QED BY <1>1, MaxOfSet
<1> QED BY <1>2

LEMMA EndIsLast ==
  ASSUME RunsTypeOK, NEW i \in DOMAIN runs
  PROVE  /\ End(i) \in DOMAIN runs /\ runs[End(i)].first = runs[i].first
         /\ \A j \in DOMAIN runs : runs[j].first = runs[i].first => j <= End(i)
BY LastOfChain, Zenon DEF RunsTypeOK, End, Chain

LEMMA EndIsLastNext ==
  ASSUME RunsTypeOK', NEW i \in DOMAIN runs'
  PROVE  /\ End(i)' \in DOMAIN runs' /\ runs'[End(i)'].first = runs'[i].first
         /\ \A j \in DOMAIN runs' : runs'[j].first = runs'[i].first => j <= End(i)'
BY LastOfChain, Zenon DEF RunsTypeOK, End, Chain

\* A run that did not continue as new is the last.
LEMMA NotContinuedIsLast ==
  ASSUME RunsTypeOK, ChainsOK, NEW i \in DOMAIN runs, runs[i].status # "CONTINUED_AS_NEW"
  PROVE  End(i) = i
<1>1. /\ End(i) \in DOMAIN runs /\ runs[End(i)].first = runs[i].first /\ i <= End(i)
      /\ DOMAIN runs = 1..Len(runs) /\ Len(runs) \in Nat
  BY EndIsLast, RunsAreRecords
<1>2. ~(i < End(i))
  BY <1>1 DEF ChainsOK
<1> QED BY <1>1, <1>2

LEMMA SameChainSameEnd ==
  ASSUME RunsTypeOK, NEW i \in DOMAIN runs, NEW j \in DOMAIN runs
  PROVE  runs[i].first = runs[j].first <=> End(i) = End(j)
<1>1. runs[i].first = runs[j].first => Chain(i) = Chain(j)
  BY DEF Chain
<1>2. End(i) = End(j) => runs[i].first = runs[j].first
  BY EndIsLast
<1> QED BY <1>1, <1>2 DEF End

LEMMA SameChainSameEndNext ==
  ASSUME RunsTypeOK', NEW i \in DOMAIN runs', NEW j \in DOMAIN runs'
  PROVE  runs'[i].first = runs'[j].first <=> End(i)' = End(j)'
<1>1. runs'[i].first = runs'[j].first => Chain(i)' = Chain(j)'
  BY DEF Chain
<1>2. End(i)' = End(j)' => runs'[i].first = runs'[j].first
  BY EndIsLastNext
<1> QED BY <1>1, <1>2 DEF End

-----------------------------------------------------------------------------
(* What a step may do to the runs *)

Mine(i) == runs'[i].wf = runs[i].wf /\ runs'[i].first = runs[i].first
           /\ runs'[i].memo = runs[i].memo

\* Of an old run: who it is never changes, it may close once, be signalled and be
\* forgotten after the older ones.
OldRun(i) ==
  /\ Mine(i)
  /\ runs[i].signalled => runs'[i].signalled
  /\ runs'[i].signalled /\ ~runs[i].signalled => TellsTruly(runs[i].wf)
  /\ runs'[i].kept => runs[i].kept
  /\ runs[i].kept /\ ~runs'[i].kept =>
       /\ runs[i].status # "RUNNING"
       /\ \A j \in RunsOf(runs[i].wf) : j < i => ~runs[j].kept
  /\ runs'[i].status # runs[i].status =>
       /\ runs[i].status = "RUNNING"
       /\ IsWaitRun(i) => /\ runs'[i].status \in {"COMPLETED", "TIMEOUT"}
                          /\ runs'[i].status = "COMPLETED" => runs[i].signalled

\* A new run begins a chain or continues that of an open run.
AddedRun(n) ==
  /\ runs'[n].kept /\ runs'[n].status = "RUNNING"
  /\ runs'[n].signalled => \A id \in {runs'[n].wf} : TellsTruly(id)
  /\ \/ runs'[n].first = n
     \/ \E r \in DOMAIN runs :
          /\ runs'[n].first = runs[r].first /\ runs'[n].wf = runs[r].wf
          /\ runs[r].status = "RUNNING" /\ runs'[r].status = "CONTINUED_AS_NEW"

RunsStep ==
  /\ runs' \in Seq(RunRecords)
  /\ Len(runs') = Len(runs) \/ Len(runs') = Len(runs) + 1
  /\ \A i \in DOMAIN runs : OldRun(i)
  /\ Len(runs') = Len(runs) + 1 => AddedRun(Len(runs'))

KeepsObjs == Len(runs') = Len(runs) /\ \A i \in DOMAIN runs : runs'[i].objs = runs[i].objs

LEMMA StepIntervals ==
  ASSUME NEW m \in Nat, NEW n \in Nat, n = m \/ n = m + 1
  PROVE  1..m \subseteq 1..n /\ \A i \in 1..n : i \in 1..m \/ (i = n /\ i = m + 1)
OBVIOUS

LEMMA StepDomains ==
  ASSUME RunsTypeOK, RunsStep
  PROVE  /\ DOMAIN runs = 1..Len(runs) /\ Len(runs) \in Nat
         /\ DOMAIN runs' = 1..Len(runs') /\ Len(runs') \in Nat
         /\ RunsTypeOK'
         /\ DOMAIN runs \subseteq DOMAIN runs'
         /\ \A i \in DOMAIN runs' :
              i \in DOMAIN runs \/ (i = Len(runs') /\ i = Len(runs) + 1 /\ AddedRun(i))
         /\ \A wf : \A i \in RunsOf(wf) : i \in RunsOf(wf)'
         /\ \A wf : \A i \in RunsOf(wf)' : i \in DOMAIN runs => i \in RunsOf(wf)
<1>1. /\ DOMAIN runs = 1..Len(runs) /\ Len(runs) \in Nat
      /\ DOMAIN runs' = 1..Len(runs') /\ Len(runs') \in Nat
      /\ RunsTypeOK'
  BY DEF RunsTypeOK, RunsStep
<1>2. /\ DOMAIN runs \subseteq DOMAIN runs'
      /\ \A i \in DOMAIN runs' : i \in DOMAIN runs \/ (i = Len(runs') /\ i = Len(runs) + 1)
  <2>1. Len(runs') = Len(runs) \/ Len(runs') = Len(runs) + 1
    BY Zenon DEF RunsStep
  <2>2. /\ 1..Len(runs) \subseteq 1..Len(runs')
        /\ \A i \in 1..Len(runs') : i \in 1..Len(runs) \/ (i = Len(runs') /\ i = Len(runs) + 1)
    BY <1>1, <2>1, StepIntervals, Zenon
  <2> QED BY <1>1, <2>2, Zenon
<1>3. Len(runs') = Len(runs) + 1 => AddedRun(Len(runs'))
  BY Zenon DEF RunsStep
<1>4. \A i \in DOMAIN runs : runs'[i].wf = runs[i].wf
  BY DEF RunsStep, OldRun, Mine
<1> QED BY <1>1, <1>2, <1>3, <1>4, Zenon DEF RunsOf

LEMMA ChainsPreserved ==
  ASSUME RunsTypeOK, ChainsOK, RunsStep
  PROVE  ChainsOK'
<1>0. /\ DOMAIN runs = 1..Len(runs) /\ Len(runs) \in Nat /\ DOMAIN runs' = 1..Len(runs')
      /\ DOMAIN runs \subseteq DOMAIN runs'
  BY StepDomains
<1>1. \A i \in DOMAIN runs : runs'[i].first = runs[i].first /\ runs[i].first \in 1..i
  BY DEF RunsStep, OldRun, Mine, ChainsOK
<1>2. \A i \in DOMAIN runs : runs[i].status = "CONTINUED_AS_NEW" =>
        runs'[i].status = "CONTINUED_AS_NEW"
  BY DEF RunsStep, OldRun
<1>4. ASSUME NEW i \in DOMAIN runs
      PROVE  /\ runs[i].first \in DOMAIN runs
             /\ runs'[runs[i].first].wf = runs[i].wf /\ runs'[i].wf = runs[i].wf
  <2>1. runs[i].first \in DOMAIN runs /\ runs[runs[i].first].wf = runs[i].wf
    BY <1>0, <1>1 DEF ChainsOK
  <2> QED BY <2>1 DEF RunsStep, OldRun, Mine
<1>3. ASSUME NEW i \in DOMAIN runs'
      PROVE  /\ runs'[i].first \in 1..i /\ runs'[runs'[i].first].wf = runs'[i].wf
             /\ \A j \in DOMAIN runs' : j < i /\ runs'[j].first = runs'[i].first =>
                  runs'[j].status = "CONTINUED_AS_NEW"
  <2>1. CASE i \in DOMAIN runs
    <3>1. \A j \in DOMAIN runs' : j < i => j \in DOMAIN runs
      BY <1>0, <2>1
    <3>2. runs'[runs'[i].first].wf = runs'[i].wf
      BY <1>1, <1>4, <2>1
    <3> QED BY <1>1, <1>2, <2>1, <3>1, <3>2 DEF ChainsOK
  <2>2. CASE i \notin DOMAIN runs
    <3>1. i = Len(runs) + 1 /\ AddedRun(i)
      BY <2>2, StepDomains
    <3>2. \A j \in DOMAIN runs' : j < i => j \in DOMAIN runs
      BY <1>0, <3>1
    <3>3. CASE runs'[i].first = i
      BY <1>0, <1>1, <3>1, <3>2, <3>3
    <3>4. CASE \E r \in DOMAIN runs :
                 /\ runs'[i].first = runs[r].first /\ runs'[i].wf = runs[r].wf
                 /\ runs[r].status = "RUNNING" /\ runs'[r].status = "CONTINUED_AS_NEW"
      <4>1. PICK r \in DOMAIN runs :
                 /\ runs'[i].first = runs[r].first /\ runs'[i].wf = runs[r].wf
                 /\ runs[r].status = "RUNNING" /\ runs'[r].status = "CONTINUED_AS_NEW"
        BY <3>4
      <4>2. ASSUME NEW j \in DOMAIN runs, runs[j].first = runs[r].first
            PROVE  runs'[j].status = "CONTINUED_AS_NEW"
        <5>1. ~(r < j)
          BY <4>1, <4>2 DEF ChainsOK
        <5>2. CASE j < r
          BY <1>2, <4>1, <4>2, <5>2 DEF ChainsOK
        <5> QED BY <1>0, <4>1, <5>1, <5>2
      <4>3. runs[r].first \in 1..r /\ r < i
        BY <1>0, <1>1, <3>1
      <4>4. runs'[runs'[i].first].wf = runs'[i].wf
        BY <1>4, <4>1
      <4> QED BY <1>0, <1>1, <3>1, <3>2, <4>1, <4>2, <4>3, <4>4
    <3> QED BY <3>1, <3>3, <3>4 DEF AddedRun
  <2> QED BY <2>1, <2>2
<1> QED BY <1>3 DEF ChainsOK

LEMMA RetentionPreserved ==
  ASSUME RunsTypeOK, RetentionOK, RunsStep
  PROVE  RetentionOK'
<1>0. /\ DOMAIN runs = 1..Len(runs) /\ Len(runs) \in Nat /\ DOMAIN runs' = 1..Len(runs')
  BY StepDomains
<1>1. ASSUME NEW i \in DOMAIN runs', runs'[i].status = "RUNNING" PROVE runs'[i].kept
  <2>1. CASE i \in DOMAIN runs
    BY <1>1, <2>1, RunsAreRecords DEF RunsStep, OldRun, RetentionOK
  <2>2. CASE i \notin DOMAIN runs
    BY <2>2, StepDomains DEF AddedRun
  <2> QED BY <2>1, <2>2
<1>2. ASSUME NEW i \in DOMAIN runs', NEW j \in DOMAIN runs', i < j,
             runs'[i].wf = runs'[j].wf, runs'[i].kept
      PROVE  runs'[j].kept
  <2>1. CASE j \in DOMAIN runs
    <3>1. i \in DOMAIN runs
      BY <1>0, <1>2, <2>1
    <3>2. OldRun(i) /\ OldRun(j)
      BY <2>1, <3>1 DEF RunsStep
    <3>3. runs[i].kept /\ runs[i].wf = runs[j].wf
      BY <1>2, <3>2 DEF OldRun, Mine
    <3>4. runs[j].kept
      BY <1>2, <2>1, <3>1, <3>3 DEF RetentionOK
    <3>5. i \in RunsOf(runs[j].wf)
      BY <3>1, <3>3 DEF RunsOf
    <3> QED BY <1>2, <3>2, <3>3, <3>4, <3>5 DEF OldRun
  <2>2. CASE j \notin DOMAIN runs
    BY <2>2, StepDomains DEF AddedRun
  <2> QED BY <2>1, <2>2
<1> QED BY <1>1, <1>2 DEF RetentionOK

LEMMA TruthStays ==
  ASSUME RunsTypeOK, RunsStep, executed \subseteq executed'
  PROVE  /\ \A wf : HasExecuted(wf) => HasExecuted(wf)'
         /\ \A id : TellsTruly(id) => TellsTruly(id)'
<1>1. \A f \in DOMAIN runs : f \in DOMAIN runs' /\ runs'[f].wf = runs[f].wf
  BY StepDomains DEF RunsStep, OldRun, Mine
<1>2. ASSUME NEW wf, HasExecuted(wf) PROVE HasExecuted(wf)'
  <2>1. PICK f \in DOMAIN runs : f \in executed /\ runs[f].wf = wf
    BY <1>2 DEF HasExecuted
  <2> QED BY <1>1, <2>1 DEF HasExecuted
<1>3. ASSUME NEW id, TellsTruly(id) PROVE TellsTruly(id)'
  BY <1>2, <1>3 DEF TellsTruly, WaitIdOfFirstRun, WaitIdOfWorkflow
<1> QED BY <1>2, <1>3

LEMMA WaitRunsPreserved ==
  ASSUME RunsTypeOK, WaitRunsOK, RunsStep, executed \subseteq executed'
  PROVE  WaitRunsOK'
<1>1. ASSUME NEW i \in DOMAIN runs', IsWaitRun(i)'
      PROVE  /\ runs'[i].status \in {"RUNNING", "COMPLETED", "TIMEOUT"}
             /\ runs'[i].status = "COMPLETED" => runs'[i].signalled
             /\ runs'[i].signalled => TellsTruly(runs[i].wf)'
  <2>0. PICK id : id = runs'[i].wf
    OBVIOUS
  <2>1. CASE i \in DOMAIN runs
    <3>1. OldRun(i) /\ runs'[i].wf = runs[i].wf
      BY <2>1 DEF RunsStep, OldRun, Mine
    <3>2. IsWaitRun(i)
      BY <1>1, <3>1 DEF IsWaitRun
    <3>3. runs[i].status \in {"RUNNING", "COMPLETED", "TIMEOUT"}
          /\ (runs[i].status = "COMPLETED" => runs[i].signalled)
          /\ (runs[i].signalled => TellsTruly(runs[i].wf))
      BY <2>1, <3>2 DEF WaitRunsOK
    <3>4. runs'[i].signalled => TellsTruly(id)
      BY <2>0, <3>1, <3>3 DEF OldRun
    <3>5. runs'[i].signalled => TellsTruly(id)'
      BY <3>4, TruthStays
    <3>6. runs'[i].signalled => TellsTruly(runs[i].wf)'
      BY <2>0, <3>5 DEF TellsTruly
    <3> QED BY <3>1, <3>2, <3>3, <3>6 DEF OldRun
  <2>2. CASE i \notin DOMAIN runs
    <3>1. AddedRun(i)
      BY <2>2, StepDomains
    <3>2. runs'[i].signalled => TellsTruly(id)
      BY <2>0, <3>1 DEF AddedRun
    <3>3. runs'[i].signalled => TellsTruly(id)'
      BY <3>2, TruthStays
    <3>4. runs'[i].signalled => TellsTruly(runs[i].wf)'
      BY <2>0, <3>3 DEF TellsTruly
    <3> QED BY <3>1, <3>4 DEF AddedRun
  <2> QED BY <2>1, <2>2
<1> QED BY <1>1 DEF WaitRunsOK, IsWaitRun

-----------------------------------------------------------------------------
(* What the engine's operations do to the runs *)

\* The runs stay, but for one of them.
LEMMA OneRunChanges ==
  ASSUME RunsTypeOK, NEW r \in DOMAIN runs, NEW run \in RunRecords,
         runs' = [runs EXCEPT ![r] = run]
  PROVE  /\ runs' \in Seq(RunRecords) /\ Len(runs') = Len(runs) /\ DOMAIN runs' = DOMAIN runs
         /\ runs'[r] = run
         /\ \A i \in DOMAIN runs : i # r => runs'[i] = runs[i]
BY DEF RunsTypeOK

\* The runs stay and there is one more.
LEMMA OneRunMore ==
  ASSUME NEW S, NEW s \in Seq(S), NEW run \in S
  PROVE  /\ Append(s, run) \in Seq(S) /\ Len(Append(s, run)) = Len(s) + 1
         /\ DOMAIN Append(s, run) = 1..Len(s) + 1
         /\ Append(s, run)[Len(s) + 1] = run
         /\ \A i \in DOMAIN s : Append(s, run)[i] = s[i]
OBVIOUS

LEMMA NotTouched ==
  ASSUME NEW i, runs'[i] = runs[i]
  PROVE  OldRun(i)
BY DEF OldRun, Mine

\* An operation that changes one run, or none.
LEMMA StepOfOneRun ==
  ASSUME RunsTypeOK, NEW r \in DOMAIN runs, NEW run \in RunRecords,
         runs' = [runs EXCEPT ![r] = run], OldRun(r)
  PROVE  RunsStep /\ (run.objs = runs[r].objs => KeepsObjs)
<1>1. /\ runs' \in Seq(RunRecords) /\ Len(runs') = Len(runs) /\ runs'[r] = run
      /\ \A i \in DOMAIN runs : i # r => runs'[i] = runs[i]
  BY OneRunChanges, Zenon
<1>2. \A i \in DOMAIN runs : OldRun(i)
  BY <1>1, NotTouched
<1>3. Len(runs) \in Nat
  BY RunsAreRecords
<1>4. \A n \in Nat : n # n + 1
  OBVIOUS
<1>5. Len(runs') # Len(runs) + 1
  BY <1>1, <1>3, <1>4, Zenon
<1> QED BY <1>1, <1>2, <1>5, Zenon DEF RunsStep, KeepsObjs

LEMMA NoRunChanges ==
  ASSUME RunsTypeOK, runs' = runs
  PROVE  RunsStep /\ KeepsObjs
<1>1. Len(runs) \in Nat
  BY RunsAreRecords
<1>2. \A i \in DOMAIN runs : OldRun(i)
  BY NotTouched
<1>3. Len(runs') # Len(runs) + 1
  BY <1>1
<1> QED BY <1>2, <1>3, Zenon DEF RunsStep, RunsTypeOK, KeepsObjs

LEMMA ClosedRun ==
  ASSUME RunsTypeOK, NEW r, NEW s \in Final, Close(r, s)
  PROVE  RunsStep /\ KeepsObjs
<1> DEFINE run == [runs[r] EXCEPT !.status = s]
<1>1. /\ r \in DOMAIN runs /\ runs[r].wf \in WorkflowIds /\ runs[r].status = "RUNNING"
      /\ runs' = [runs EXCEPT ![r] = run]
  BY DEF Close, InterpreterRun
<1>2. runs[r] \in RunRecords
  BY <1>1, RunsAreRecords
<1>3. run \in RunRecords
  BY <1>2 DEF RunRecords, Final, Abnormal, Statuses
<1>4. runs'[r] = run
  BY <1>1, <1>3, OneRunChanges
<1>5. OldRun(r)
  BY <1>1, <1>2, <1>4 DEF OldRun, Mine, IsWaitRun, RunRecords
<1>6. run.objs = runs[r].objs
  BY <1>2 DEF RunRecords
<1> QED BY <1>1, <1>3, <1>5, <1>6, StepOfOneRun, Zenon

LEMMA ForgottenRun ==
  ASSUME RunsTypeOK, NEW r \in DOMAIN runs, Retention(r)
  PROVE  RunsStep /\ KeepsObjs
<1> DEFINE run == [runs[r] EXCEPT !.kept = FALSE]
<1>1. /\ runs' = [runs EXCEPT ![r] = run] /\ runs[r].status # "RUNNING"
      /\ \A i \in RunsOf(runs[r].wf) : i < r => ~runs[i].kept
  BY DEF Retention
<1>2. runs[r] \in RunRecords
  BY RunsAreRecords
<1>3. run \in RunRecords
  BY <1>2 DEF RunRecords
<1>4. runs'[r] = run
  BY <1>1, <1>3, OneRunChanges
<1>5. OldRun(r)
  BY <1>1, <1>2, <1>4 DEF OldRun, Mine, RunRecords
<1>6. run.objs = runs[r].objs
  BY <1>2 DEF RunRecords
<1> QED BY <1>1, <1>3, <1>5, <1>6, StepOfOneRun, Zenon

LEMMA WaitWorkflowEnds ==
  ASSUME RunsTypeOK, NEW r \in DOMAIN runs,
         WaitWorkflowCompletes(r) \/ WaitWorkflowTimesOut(r)
  PROVE  RunsStep /\ KeepsObjs
<1>1. PICK s \in {"COMPLETED", "TIMEOUT"} :
        /\ runs' = [runs EXCEPT ![r] = [runs[r] EXCEPT !.status = s]]
        /\ runs[r].status = "RUNNING" /\ (s = "COMPLETED" => runs[r].signalled)
  BY DEF WaitWorkflowCompletes, WaitWorkflowTimesOut
<1> DEFINE run == [runs[r] EXCEPT !.status = s]
<1>2. runs[r] \in RunRecords
  BY RunsAreRecords
<1>3. run \in RunRecords
  BY <1>2 DEF RunRecords, Statuses
<1>4. runs'[r] = run
  BY <1>1, <1>3, OneRunChanges
<1>5. OldRun(r)
  BY <1>1, <1>2, <1>4 DEF OldRun, Mine, RunRecords
<1>6. run.objs = runs[r].objs
  BY <1>2 DEF RunRecords
<1> QED BY <1>1, <1>3, <1>5, <1>6, StepOfOneRun, Zenon

\* An operation that adds a run.
LEMMA StepOfNewRun ==
  ASSUME RunsTypeOK, NEW s \in Seq(RunRecords), Len(s) = Len(runs), NEW run \in RunRecords,
         runs' = Append(s, run),
         \A i \in DOMAIN runs : runs'[i] = s[i] => OldRun(i),
         runs'[Len(runs) + 1] = run => AddedRun(Len(runs) + 1)
  PROVE  /\ RunsStep /\ Len(runs') = Len(runs) + 1 /\ runs'[Len(runs) + 1] = run
         /\ \A i \in DOMAIN runs : runs'[i] = s[i]
<1>1. DOMAIN runs = 1..Len(runs) /\ DOMAIN s = 1..Len(s)
  BY RunsAreRecords
<1>2. /\ runs' \in Seq(RunRecords) /\ Len(runs') = Len(runs) + 1
      /\ runs'[Len(runs) + 1] = run /\ \A i \in DOMAIN runs : runs'[i] = s[i]
  <2>1. /\ Append(s, run) \in Seq(RunRecords) /\ Len(Append(s, run)) = Len(s) + 1
        /\ Append(s, run)[Len(s) + 1] = run
        /\ \A i \in DOMAIN s : Append(s, run)[i] = s[i]
    BY OneRunMore
  <2> QED BY <1>1, <2>1, Zenon
<1> QED BY <1>2, Zenon DEF RunsStep

Grows(objs, first) ==
  LET n == Len(runs) + 1
  IN  /\ Len(runs') = n /\ runs'[n].objs = objs /\ runs'[n].first = first
      /\ \A i \in DOMAIN runs : runs'[i].objs = runs[i].objs

LEMMA ContinuedRun ==
  ASSUME RunsTypeOK, ChainsOK, NEW r, ContinueAsNew(r)
  PROVE  /\ r \in DOMAIN runs /\ RunsStep /\ Grows(runs[r].objs, runs[r].first)
         /\ runs'[Len(runs) + 1].wf = runs[r].wf /\ runs[r].status = "RUNNING"
<1> DEFINE n == Len(runs) + 1
           old == [runs[r] EXCEPT !.status = "CONTINUED_AS_NEW"]
           s == [runs EXCEPT ![r] = old]
           run == [NewRun(runs[r].wf, runs[r].memo, runs[r].objs) EXCEPT !.first = runs[r].first]
<1>1. /\ r \in DOMAIN runs /\ runs[r].wf \in WorkflowIds /\ runs[r].status = "RUNNING"
      /\ runs' = Append(s, run)
  BY DEF ContinueAsNew, InterpreterRun
<1>2. runs[r] \in RunRecords /\ Len(runs) \in Nat
  BY <1>1, RunsAreRecords
<1>3. old \in RunRecords /\ run \in RunRecords
  BY <1>2 DEF RunRecords, NewRun, Statuses
<1>4. /\ s \in Seq(RunRecords) /\ Len(s) = Len(runs) /\ s[r] = old
      /\ \A i \in DOMAIN runs : i # r => s[i] = runs[i]
  BY <1>1, <1>3 DEF RunsTypeOK
<1>5. /\ old.wf = runs[r].wf /\ old.first = runs[r].first /\ old.memo = runs[r].memo
      /\ old.signalled = runs[r].signalled /\ old.kept = runs[r].kept
      /\ old.objs = runs[r].objs /\ old.status = "CONTINUED_AS_NEW"
  BY <1>2 DEF RunRecords
<1>6. /\ run.kept = TRUE /\ run.status = "RUNNING" /\ run.signalled = FALSE
      /\ run.first = runs[r].first /\ run.wf = runs[r].wf /\ run.objs = runs[r].objs
  BY DEF NewRun
<1> HIDE DEF old, run, s
<1>7. ASSUME NEW i \in DOMAIN runs, runs'[i] = s[i] PROVE OldRun(i)
  <2>1. CASE i = r
    BY <1>1, <1>4, <1>5, <1>7, <2>1 DEF OldRun, Mine, IsWaitRun
  <2>2. CASE i # r
    BY <1>4, <1>7, <2>2, NotTouched
  <2> QED BY <2>1, <2>2
<1>8. ASSUME runs'[n] = run, \A i \in DOMAIN runs : runs'[i] = s[i] PROVE AddedRun(n)
  BY <1>1, <1>4, <1>5, <1>6, <1>8, ZenonT(60) DEF AddedRun
<1>9. \A i \in DOMAIN runs : runs'[i] = s[i]
  <2>1. DOMAIN runs = 1..Len(runs) /\ DOMAIN s = 1..Len(s)
    BY <1>4, RunsAreRecords
  <2> QED BY <1>1, <1>3, <1>4, <2>1, OneRunMore
<1>10. /\ RunsStep /\ Len(runs') = n /\ runs'[n] = run
  BY <1>1, <1>3, <1>4, <1>7, <1>8, <1>9, StepOfNewRun, Zenon
<1>11. \A i \in DOMAIN runs : runs'[i].objs = runs[i].objs
  BY <1>4, <1>5, <1>9
<1> QED BY <1>1, <1>4, <1>5, <1>6, <1>9, <1>10, <1>11, Zenon DEF Grows

\* A start terminates at most the run of the users' workflow it replaces.
LEMMA StartedRun ==
  ASSUME RunsTypeOK, NEW wf \in Ids, NEW memo \in Memos, NEW objs \in SUBSET Nat,
         runs' = Started(wf, memo, objs),
         wf \in WorkflowIds \/ MayStart(wf, "ALLOW_DUPLICATE_FAILED_ONLY")
  PROVE  /\ RunsStep /\ Grows(objs, Len(runs) + 1)
         /\ runs'[Len(runs) + 1].wf = wf /\ runs'[Len(runs) + 1].memo = memo
<1> DEFINE n == Len(runs) + 1
           Ends(i) == i = Current(wf) /\ runs[i].status = "RUNNING"
           s == [i \in DOMAIN runs |->
                   IF i = Current(wf) /\ runs[i].status = "RUNNING"
                   THEN [runs[i] EXCEPT !.status = "TERMINATED"] ELSE runs[i]]
           run == NewRun(wf, memo, objs)
<1>1. runs' = Append(s, run)
  BY DEF Started
<1>2. DOMAIN runs = 1..Len(runs) /\ Len(runs) \in Nat
      /\ \A i \in DOMAIN runs : runs[i] \in RunRecords
  BY RunsAreRecords
<1>3. \A i \in DOMAIN runs : s[i] \in RunRecords
  BY <1>2 DEF RunRecords, Statuses
<1>4. s \in Seq(RunRecords) /\ Len(s) = Len(runs) /\ DOMAIN s = DOMAIN runs
  BY <1>2, <1>3
<1>5. \A i \in DOMAIN runs :
        /\ s[i].wf = runs[i].wf /\ s[i].first = runs[i].first /\ s[i].memo = runs[i].memo
        /\ s[i].signalled = runs[i].signalled /\ s[i].kept = runs[i].kept
        /\ s[i].objs = runs[i].objs
        /\ s[i].status # runs[i].status =>
             i = Current(wf) /\ runs[i].status = "RUNNING" /\ s[i].status = "TERMINATED"
  BY <1>2 DEF RunRecords
<1>6. /\ run \in RunRecords /\ run.kept = TRUE /\ run.status = "RUNNING"
      /\ run.signalled = FALSE /\ run.first = n /\ run.wf = wf /\ run.objs = objs
      /\ run.memo = memo
  BY <1>2 DEF NewRun, RunRecords, Statuses
<1> HIDE DEF run, s
<1>7. ASSUME NEW i \in DOMAIN runs, s[i].status # runs[i].status PROVE ~IsWaitRun(i)
  <2>1. i = Current(wf) /\ runs[i].status = "RUNNING" /\ i # 0
    BY <1>2, <1>5, <1>7
  <2>2. ~MayStart(wf, "ALLOW_DUPLICATE_FAILED_ONLY")
    BY <2>1 DEF MayStart, Abnormal
  <2>3. runs[i].wf = wf
    BY <2>1, CurrentIsLatest DEF RunsOf
  <2> QED BY <2>2, <2>3 DEF IsWaitRun
<1>8. ASSUME NEW i \in DOMAIN runs, runs'[i] = s[i] PROVE OldRun(i)
  BY <1>5, <1>7, <1>8 DEF OldRun, Mine
<1>9. ASSUME runs'[n] = run PROVE AddedRun(n)
  BY <1>6, <1>9, Zenon DEF AddedRun
<1>10. /\ RunsStep /\ Len(runs') = n /\ runs'[n] = run
       /\ \A i \in DOMAIN runs : runs'[i] = s[i]
  BY <1>1, <1>4, <1>6, <1>8, <1>9, StepOfNewRun, Zenon
<1> QED BY <1>5, <1>6, <1>10, ZenonT(60) DEF Grows

\* A signal reaches a running wait workflow or starts one; it is refused only where
\* the current one has completed, and that one was signalled.
LEMMA SignalledRun ==
  ASSUME RunsTypeOK, RetentionOK, WaitRunsOK, NEW id \in Ids, id \notin WorkflowIds,
         TellsTruly(id), SignalWithStart(id)
  PROVE  /\ RunsStep /\ (KeepsObjs \/ Grows({}, Len(runs) + 1))
         /\ Signalled(id)'
<1> DEFINE current == Current(id)
           n == Len(runs) + 1
<1>0. DOMAIN runs = 1..Len(runs) /\ Len(runs) \in Nat
  BY RunsAreRecords
<1>1. CASE current # 0 /\ runs[current].status = "RUNNING"
  <2> DEFINE run == [runs[current] EXCEPT !.signalled = TRUE]
  <2>1. runs' = [runs EXCEPT ![current] = run]
    BY <1>1 DEF SignalWithStart
  <2>2. current \in DOMAIN runs /\ runs[current].wf = id
    BY <1>1, CurrentIsLatest DEF RunsOf
  <2>3. runs[current] \in RunRecords
    BY <2>2, RunsAreRecords
  <2>4. run \in RunRecords /\ run.objs = runs[current].objs /\ run.signalled = TRUE
        /\ run.wf = id
    BY <2>2, <2>3 DEF RunRecords
  <2>5. runs'[current] = run /\ DOMAIN runs' = DOMAIN runs
    BY <2>1, <2>2, <2>4, OneRunChanges
  <2>6. OldRun(current)
    BY <2>2, <2>3, <2>5 DEF OldRun, Mine, RunRecords
  <2>7. RunsStep /\ KeepsObjs
    BY <2>1, <2>2, <2>4, <2>6, StepOfOneRun, Zenon
  <2>8. Signalled(id)'
    <3> HIDE DEF run, current
    <3>1. \E i \in DOMAIN runs' : runs'[i].wf = id /\ runs'[i].signalled
      BY <2>2, <2>4, <2>5
    <3> QED BY <3>1 DEF Signalled, RunsOf
  <2> QED BY <2>7, <2>8
<1>2. CASE /\ ~(current # 0 /\ runs[current].status = "RUNNING")
           /\ MayStart(id, "ALLOW_DUPLICATE_FAILED_ONLY")
  <2> DEFINE run == [NewRun(id, NoRequestId, {}) EXCEPT !.signalled = TRUE]
  <2>1. runs' = Append(runs, run)
    BY <1>2 DEF SignalWithStart
  <2>2. /\ run \in RunRecords /\ run.kept = TRUE /\ run.status = "RUNNING"
        /\ run.signalled = TRUE /\ run.first = n /\ run.wf = id /\ run.objs = {}
    <3>1. NoRequestId \in Memos /\ n \in Nat
      BY <1>0 DEF Memos
    <3> QED BY <3>1 DEF NewRun, RunRecords, Statuses
  <2> HIDE DEF run
  <2>3. ASSUME runs'[n] = run PROVE AddedRun(n)
    BY <2>2, <2>3, Zenon DEF AddedRun
  <2>4. runs \in Seq(RunRecords)
    BY DEF RunsTypeOK
  <2>5. /\ RunsStep /\ Len(runs') = n /\ runs'[n] = run
        /\ \A i \in DOMAIN runs : runs'[i] = runs[i]
    BY <2>1, <2>2, <2>3, <2>4, NotTouched, StepOfNewRun, Zenon
  <2>6. n \in DOMAIN runs'
    <3>1. DOMAIN runs' = 1..Len(runs') /\ n \in 1..n
      BY <1>0, <2>5, StepDomains
    <3> QED BY <2>5, <3>1, Zenon
  <2>7. Signalled(id)'
    BY <2>2, <2>5, <2>6 DEF Signalled, RunsOf
  <2> QED BY <2>2, <2>5, <2>7, Zenon DEF Grows
<1>3. CASE /\ ~(current # 0 /\ runs[current].status = "RUNNING")
           /\ ~MayStart(id, "ALLOW_DUPLICATE_FAILED_ONLY")
  <2>1. runs' = runs
    BY <1>3 DEF SignalWithStart
  <2>2. RunsStep /\ KeepsObjs
    BY <2>1, NoRunChanges
  <2>3. current # 0 /\ runs[current].status \notin Abnormal \cup {"RUNNING"}
    BY <1>3 DEF MayStart
  <2>4. current \in DOMAIN runs /\ runs[current].wf = id
    BY <2>3, CurrentIsLatest DEF RunsOf
  <2>5. runs[current].signalled
    BY <2>3, <2>4 DEF WaitRunsOK, IsWaitRun, Abnormal
  <2>6. Signalled(id)'
    BY <2>1, <2>4, <2>5 DEF Signalled, RunsOf
  <2> QED BY <2>2, <2>6
<1> QED BY <1>1, <1>2, <1>3

\* Stopping ends a run, or asks it to end.
LEMMA StoppedRun ==
  ASSUME RunsTypeOK, NEW q \in Slots, CallTypeOK(q), StopWorkflow(q)
  PROVE  RunsStep /\ KeepsObjs
<1> DEFINE req == call[q].req
           r == Resolve(req.wf, req.run)
<1>1. CASE r = 0 \/ runs[r].status # "RUNNING"
  <2>1. runs' = runs
    BY <1>1 DEF StopWorkflow
  <2> QED BY <2>1, NoRunChanges
<1>2. CASE ~(r = 0 \/ runs[r].status # "RUNNING")
  <2>1. call[q].pc = "stop" /\ req \in Asked /\ "stop" \in PcsOf(req.api)
    BY DEF StopWorkflow, At, CallTypeOK
  <2>2. /\ req.api = "stop" /\ req.run \in Nat /\ req.wf \in WorkflowIds
        /\ req.stopType \in {"TERMINATE", "CANCEL"}
    BY <2>1, RequestsAssumption DEF PcsOf, Asked
  <2>3. r \in DOMAIN runs /\ runs[r].wf \in WorkflowIds
    BY <1>2, <2>2, ResolvedRun DEF RunsOf
  <2>4. runs[r] \in RunRecords
    BY <2>3, RunsAreRecords, SMTT(30)
  <2> DEFINE t == [runs[r] EXCEPT !.status = "TERMINATED"]
             c == [runs[r] EXCEPT !.cancelRequested = TRUE]
  <2>5. t \in RunRecords /\ c \in RunRecords /\ t.objs = runs[r].objs /\ c.objs = runs[r].objs
    BY <2>4 DEF RunRecords, Statuses
  <2>6. CASE req.stopType = "TERMINATE"
    <3>1. runs' = [runs EXCEPT ![r] = t]
      BY <1>2, <2>6 DEF StopWorkflow
    <3>2. runs'[r] = t
      BY <2>3, <2>5, <3>1, OneRunChanges
    <3>3. OldRun(r)
      BY <1>2, <2>3, <2>4, <3>2 DEF OldRun, Mine, RunRecords, IsWaitRun
    <3> QED BY <2>3, <2>5, <3>1, <3>3, StepOfOneRun, Zenon
  <2>7. CASE req.stopType = "CANCEL"
    <3>1. runs' = [runs EXCEPT ![r] = c]
      BY <1>2, <2>7 DEF StopWorkflow
    <3>2. runs'[r] = c
      BY <2>3, <2>5, <3>1, OneRunChanges
    <3>3. OldRun(r)
      BY <2>4, <3>2 DEF OldRun, Mine, RunRecords
    <3> QED BY <2>3, <2>5, <3>1, <3>3, StepOfOneRun, Zenon
  <2> QED BY <2>2, <2>6, <2>7
<1> QED BY <1>1, <1>2

\* An activity's value belongs to its run.
LEMMA WritingRun ==
  ASSUME RunsTypeOK, written \in Nat, NEW r \in DOMAIN runs, ActivityWrites(r)
  PROVE  /\ RunsStep /\ Len(runs') = Len(runs)
         /\ runs'[r].objs = runs[r].objs \cup {written'} /\ runs[r].wf \in WorkflowIds
         /\ \A i \in DOMAIN runs : i # r => runs'[i].objs = runs[i].objs
<1> DEFINE run == [runs[r] EXCEPT !.objs = @ \cup {written'}]
<1>1. /\ runs' = [runs EXCEPT ![r] = run] /\ written' = written + 1
      /\ runs[r].wf \in WorkflowIds
  BY DEF ActivityWrites, WriteObject, InterpreterRun
<1>2. runs[r] \in RunRecords /\ written' \in Nat
  BY <1>1, RunsAreRecords
<1>3. run \in RunRecords /\ run.objs = runs[r].objs \cup {written'}
  BY <1>2 DEF RunRecords
<1>4. /\ runs'[r] = run /\ Len(runs') = Len(runs)
      /\ \A i \in DOMAIN runs : i # r => runs'[i] = runs[i]
  BY <1>1, <1>3, OneRunChanges
<1>5. OldRun(r)
  BY <1>2, <1>4 DEF OldRun, Mine, RunRecords
<1> QED BY <1>1, <1>3, <1>4, <1>5, StepOfOneRun

-----------------------------------------------------------------------------
(* What stays when the runs change *)

LEMMA RunStays ==
  ASSUME RunsTypeOK, RunsStep, NEW i \in DOMAIN runs
  PROVE  /\ i \in DOMAIN runs' /\ i \in Nat
         /\ runs'[i].wf = runs[i].wf /\ runs'[i].first = runs[i].first
         /\ runs'[i].memo = runs[i].memo
         /\ runs[i].signalled => runs'[i].signalled
         /\ runs[i].status # "RUNNING" => runs'[i].status = runs[i].status
<1>1. OldRun(i)
  BY DEF RunsStep
<1>2. i \in DOMAIN runs' /\ i \in Nat
  BY StepDomains
<1> QED BY <1>1, <1>2 DEF OldRun, Mine

\* A chain that has ended stays as it is.
LEMMA EndedChainStays ==
  ASSUME RunsTypeOK, ChainsOK, RunsStep, NEW i \in DOMAIN runs,
         runs[End(i)].status \in Final
  PROVE  End(i)' = End(i) /\ runs'[End(i)].status = runs[End(i)].status
<1>0. /\ End(i) \in DOMAIN runs /\ runs[End(i)].first = runs[i].first
      /\ \A j \in DOMAIN runs : runs[j].first = runs[i].first => j <= End(i)
      /\ DOMAIN runs = 1..Len(runs) /\ Len(runs) \in Nat
  BY EndIsLast, RunsAreRecords
<1>1. runs[End(i)].status # "RUNNING" /\ runs[End(i)].status # "CONTINUED_AS_NEW"
  BY DEF Final, Abnormal
<1>2. runs'[End(i)].status = runs[End(i)].status
  BY <1>0, <1>1, RunStays
<1>3. /\ RunsTypeOK' /\ ChainsOK' /\ End(i) \in DOMAIN runs' /\ i \in DOMAIN runs'
      /\ runs'[End(i)].first = runs'[i].first
  BY <1>0, StepDomains, ChainsPreserved, RunStays
<1>4. /\ End(i)' \in DOMAIN runs' /\ runs'[End(i)'].first = runs'[i].first
      /\ \A j \in DOMAIN runs' : runs'[j].first = runs'[i].first => j <= End(i)'
      /\ DOMAIN runs' = 1..Len(runs') /\ Len(runs') \in Nat
  BY <1>3, EndIsLastNext, StepDomains
<1>5. ~(End(i) < End(i)')
  BY <1>1, <1>2, <1>3, <1>4 DEF ChainsOK
<1>6. End(i) <= End(i)'
  BY <1>3, <1>4
<1>7. End(i) \in Nat /\ End(i)' \in Nat
  BY <1>0, <1>4
<1> QED BY <1>2, <1>5, <1>6, <1>7

LEMMA SlotStays ==
  ASSUME RunsTypeOK, ChainsOK, RunsStep, executed \subseteq executed',
         NEW q \in Slots, SlotOK(q), call'[q] = call[q]
  PROVE  SlotOK(q)'
<1>1. \A wf : \A i \in RunsOf(wf) : i \in RunsOf(wf)'
  BY StepDomains, Zenon
<1>2. CallTypeOK(q)'
  BY DEF SlotOK, CallTypeOK
<1>3. KnownOK(q)'
  <2>1. KnownOK(q) /\ WaitId(q)' = WaitId(q)
    BY DEF SlotOK, WaitId, WaitsByRun
  <2> QED BY <1>1, <2>1, Zenon DEF KnownOK
<1>4. StartOK(q)'
  <2>1. StartOK(q)
    BY DEF SlotOK
  <2>2. \A i \in DOMAIN runs : i \in DOMAIN runs' /\ runs'[i].memo = runs[i].memo
    BY RunStays
  <2> QED BY <2>1, <2>2, Zenon DEF StartOK, Ok
<1>5. GetOK(q)'
  <2>1. SUFFICES ASSUME Ok(q, "get")
                 PROVE  /\ call[q].run \in DOMAIN runs' /\ call[q].status \in Statuses
                        /\ Promises(call[q].req, call[q].status) =>
                             call[q].status \in Final /\ \E i \in DOMAIN runs' : Ended(q, i)'
    BY Zenon DEF GetOK, Ok
  <2>2. /\ call[q].run \in DOMAIN runs /\ call[q].status \in Statuses
        /\ Promises(call[q].req, call[q].status) =>
             call[q].status \in Final /\ \E i \in DOMAIN runs : Ended(q, i)
    BY <2>1 DEF SlotOK, GetOK
  <2>3. call[q].run \in DOMAIN runs'
    BY <2>2, RunStays
  <2>4. ASSUME NEW i \in DOMAIN runs, Ended(q, i), call[q].status \in Final
        PROVE  Ended(q, i)'
    <3>1. i \in RunsOf(call[q].req.wf)'
      BY <1>1, <2>4 DEF Ended
    <3>2. /\ End(i)' = End(i) /\ runs'[End(i)].status = runs[End(i)].status
          /\ RunsTypeOK' /\ i \in DOMAIN runs'
      BY <2>4, EndedChainStays, StepDomains, RunStays DEF Ended
    <3>3. End(i) = End(call[q].run) => End(i)' = End(call[q].run)'
      <4>1. End(i) = End(call[q].run) => runs[i].first = runs[call[q].run].first
        BY <2>2, SameChainSameEnd
      <4>2. runs'[i].first = runs[i].first
            /\ runs'[call[q].run].first = runs[call[q].run].first
        BY <2>2, RunStays
      <4>3. runs'[i].first = runs'[call[q].run].first <=> End(i)' = End(call[q].run)'
        <5>1. \A k \in DOMAIN runs' :
                runs'[i].first = runs'[k].first <=> End(i)' = End(k)'
          BY <3>2, SameChainSameEndNext
        <5> QED BY <2>3, <5>1 DEF End, Chain
      <4> QED BY <4>1, <4>2, <4>3
    <3> QED BY <2>4, <3>1, <3>2, <3>3, Zenon DEF Ended
  <2> QED BY <2>2, <2>3, <2>4, RunStays
<1>6. WaitOK(q)'
  <2>1. PICK wf : wf = call[q].req.wf
    OBVIOUS
  <2>2. HasExecuted(wf) => HasExecuted(wf)'
    BY TruthStays
  <2> QED BY <2>1, <2>2 DEF SlotOK, WaitOK, Ok, HasExecuted, WaitsByRun
<1> QED BY <1>2, <1>3, <1>4, <1>5, <1>6 DEF SlotOK

\* What has been signalled stays signalled, and who is to be signalled is known
\* from the first run of a chain.
LEMMA SignalsStay ==
  ASSUME RunsTypeOK, RunsStep
  PROVE  /\ \A id : Signalled(id) => Signalled(id)'
         /\ \A f \in DOMAIN runs : SignalIds(f)' = SignalIds(f)
<1>1. ASSUME NEW id, Signalled(id) PROVE Signalled(id)'
  <2>1. PICK i \in RunsOf(id) : runs[i].signalled
    BY <1>1 DEF Signalled
  <2>2. i \in RunsOf(id)' /\ runs'[i].signalled
    BY <2>1, StepDomains, RunStays DEF RunsOf
  <2> QED BY <2>2 DEF Signalled
<1>2. ASSUME NEW f \in DOMAIN runs PROVE SignalIds(f)' = SignalIds(f)
  <2>1. runs'[f].wf = runs[f].wf
    BY RunStays
  <2> QED BY <2>1 DEF SignalIds, WaitIdOfWorkflow, WaitIdOfFirstRun
<1> QED BY <1>1, <1>2

LEMMA SentStays ==
  ASSUME RunsTypeOK, RunsStep, SentOK, UNCHANGED waitVars
  PROVE  SentOK'
<1>1. /\ \A id : Signalled(id) => Signalled(id)'
      /\ \A f \in executed : SignalIds(f)' = SignalIds(f)
      /\ executed' = executed /\ sentTo' = sentTo /\ committed' = committed
  BY SignalsStay DEF SentOK, waitVars
<1>2. /\ executed' \subseteq DOMAIN runs' /\ committed' \subseteq executed'
      /\ \A f \in executed' : runs'[f].wf \in WorkflowIds
  BY <1>1, StepDomains, RunStays DEF SentOK
<1>3. ASSUME NEW f \in executed', NEW k \in DOMAIN SignalIds(f)',
             k <= sentTo'[f] \/ f \in committed'
      PROVE  Signalled(SignalIds(f)[k])'
  <2>1. SignalIds(f)' = SignalIds(f) /\ f \in executed
    BY <1>1
  <2>2. Signalled(SignalIds(f)[k])
    BY <1>1, <1>3, <2>1 DEF SentOK, CompletionKept, Signalled
  <2> QED BY <1>1, <2>1, <2>2 DEF Signalled
<1>4. CompletionKept'
  BY <1>2, <1>3 DEF CompletionKept, Signalled
<1>5. sentTo' \in [executed' -> Nat]
  BY <1>1 DEF SentOK
<1> QED BY <1>2, <1>3, <1>4, <1>5 DEF SentOK

-----------------------------------------------------------------------------
(* The steps of the handlers *)

\* Which request a handler serves is known from the call it is about to make.
LEMMA ServedRequest ==
  ASSUME NEW q \in Slots, CallTypeOK(q), call[q].pc \notin {"idle", "done"}
  PROVE  /\ call[q].req \in Asked /\ call[q].req.wf \in WorkflowIds
         /\ call[q].pc \in {"write", "start", "describeStarted"} => call[q].req.api = "start"
         /\ call[q].pc \in {"describe", "result", "resultOf", "describeAgain"} =>
              call[q].req.api = "get" /\ call[q].req.run \in Nat
         /\ call[q].pc \in {"describeFirst", "startWait", "waitResult"} =>
              call[q].req.api = "wait"
<1>1. call[q].req \in Asked /\ call[q].pc \in PcsOf(call[q].req.api)
  BY DEF CallTypeOK
<1>2. /\ call[q].req.api \in {"start", "get", "wait", "stop"} /\ call[q].req.wf \in WorkflowIds
      /\ call[q].req.api = "get" => call[q].req.run \in Nat
  BY <1>1, RequestsAssumption DEF Asked
<1> QED BY <1>1, <1>2 DEF PcsOf

\* A step of one handler.
LEMMA OneHandlerSteps ==
  ASSUME RunsTypeOK, ChainsOK, RunsStep, executed \subseteq executed', CallsOK,
         NEW q \in Slots, NEW rec \in CallRecords, call' = [call EXCEPT ![q] = rec],
         call'[q] = rec => SlotOK(q)'
  PROVE  CallsOK'
<1>1. call \in [Slots -> CallRecords] /\ \A p \in Slots : SlotOK(p)
  BY DEF CallsOK
<1>2. /\ call' \in [Slots -> CallRecords] /\ call'[q] = rec
      /\ \A p \in Slots : p # q => call'[p] = call[p]
  BY <1>1
<1>3. ASSUME NEW p \in Slots PROVE SlotOK(p)'
  <2>1. CASE p = q
    BY <1>2, <2>1
  <2>2. CASE p # q
    BY <1>1, <1>2, <2>2, SlotStays
  <2> QED BY <2>1, <2>2
<1> QED BY <1>2, <1>3 DEF CallsOK

Answers == {"ok", "error", "alreadyStarted", "notExists", "longPollTimeout"}

\* An answer without a run promises nothing.
LEMMA AnsweredWithoutRun ==
  ASSUME RunsTypeOK, ChainsOK, RunsStep, executed \subseteq executed', CallsOK,
         NEW q \in Slots, NEW answer \in Answers, Answer(q, answer)
  PROVE  CallsOK'
<1> DEFINE rec == [NoCall EXCEPT !.pc = "done", !.answer = answer]
<1>1. /\ rec \in CallRecords /\ rec.pc = "done" /\ rec.req.api = "none"
  BY DEF NoCall, CallRecords, Pcs, Answers
<1>2. call' = [call EXCEPT ![q] = rec]
  BY DEF Answer
<1> HIDE DEF rec
<1>3. ASSUME call'[q] = rec PROVE SlotOK(q)'
  BY <1>1, <1>3 DEF SlotOK, CallTypeOK, KnownOK, StartOK, GetOK, WaitOK, Ok
<1> QED BY <1>1, <1>2, <1>3, OneHandlerSteps

LEMMA AnsweredWithRun ==
  ASSUME RunsTypeOK, ChainsOK, RunsStep, executed \subseteq executed', CallsOK,
         NEW q \in Slots, call[q].req \in Asked, NEW wf, wf = call[q].req.wf,
         NEW run \in Nat, NEW status \in Statuses,
         AnswerRun(q, run, status),
         call[q].req.api = "start" =>
           /\ run \in DOMAIN runs'
           /\ call[q].req.requestId # NoRequestId => runs'[run].memo = call[q].req.requestId,
         call[q].req.api = "get" =>
           /\ run \in DOMAIN runs'
           /\ Promises(call[q].req, status) =>
                /\ status \in Final
                /\ \E i \in RunsOf(wf)' :
                     /\ End(i)' = End(run)' \/ (call[q].req.run = 0 /\ i > run)
                     /\ runs'[End(i)'].status = status,
         call[q].req.api = "wait" =>
           IF WaitsByRun THEN run \in executed' ELSE HasExecuted(wf)'
  PROVE  CallsOK'
<1> DEFINE rec == [NoCall EXCEPT !.req = call[q].req, !.pc = "done", !.answer = "ok",
                                 !.run = run, !.status = status]
<1>1. /\ rec \in CallRecords /\ rec.pc = "done" /\ rec.req = call[q].req
      /\ rec.run = run /\ rec.status = status
  BY DEF NoCall, CallRecords, Pcs
<1>2. call' = [call EXCEPT ![q] = rec]
  BY DEF AnswerRun
<1> HIDE DEF rec
<1>3. ASSUME call'[q] = rec PROVE SlotOK(q)'
  <2>1. CallTypeOK(q)' /\ KnownOK(q)'
    BY <1>1, <1>3 DEF CallTypeOK, KnownOK
  <2>2. StartOK(q)' /\ WaitOK(q)'
    BY <1>1, <1>3 DEF StartOK, WaitOK, Ok, HasExecuted, WaitsByRun
  <2>3. GetOK(q)'
    <3>1. call'[q].run = run /\ call'[q].status = status /\ call'[q].req = call[q].req
      BY <1>1, <1>3
    <3>2. SUFFICES ASSUME call[q].req.api = "get"
                   PROVE  /\ run \in DOMAIN runs'
                          /\ Promises(call[q].req, status) =>
                               status \in Final /\ \E i \in DOMAIN runs' : Ended(q, i)'
      BY <3>1, Zenon DEF GetOK, Ok
    <3>3. ASSUME NEW i \in RunsOf(wf)',
                 End(i)' = End(run)' \/ (call[q].req.run = 0 /\ i > run),
                 runs'[End(i)'].status = status
          PROVE  i \in DOMAIN runs' /\ Ended(q, i)'
      <4>1. i \in DOMAIN runs'
        BY DEF RunsOf
      <4>2. End(call[q].run)' = End(run)'
        BY <3>1 DEF End, Chain
      <4> QED BY <3>1, <3>3, <4>1, <4>2, Zenon DEF Ended
    <3> QED BY <3>2, <3>3, Zenon
  <2> QED BY <2>1, <2>2, <2>3 DEF SlotOK
<1> QED BY <1>1, <1>2, <1>3, OneHandlerSteps

LEMMA ReceiveStep ==
  ASSUME IInv, NEW q \in Slots, NEW req \in Requests[q], Receive(q, req)
  PROVE  RunsStep /\ CallsOK'
<1> DEFINE rec == [NoCall EXCEPT !.req = req, !.pc = FirstPc(req)]
<1>0. RunsTypeOK /\ ChainsOK /\ CallsOK /\ RunsStep /\ executed' = executed
  BY NoRunChanges DEF IInv, RunsInv, Receive, waitVars
<1>1. req \in Asked /\ req.api \in {"start", "get", "wait", "stop"}
  BY RequestsAssumption DEF Asked
<1>2. /\ FirstPc(req) \in PcsOf(req.api) /\ FirstPc(req) \in Pcs
      /\ FirstPc(req) \in {"write", "start", "describe", "stop", "startWait", "describeFirst"}
  BY <1>1 DEF FirstPc, PcsOf, Pcs
<1>3. rec \in CallRecords /\ rec.pc = FirstPc(req) /\ rec.req = req
  BY <1>1, <1>2 DEF NoCall, CallRecords
<1>4. call' = [call EXCEPT ![q] = rec]
  BY DEF Receive
<1> HIDE DEF rec
<1>5. ASSUME call'[q] = rec PROVE SlotOK(q)'
  BY <1>1, <1>2, <1>3, <1>5 DEF SlotOK, CallTypeOK, KnownOK, StartOK, GetOK, WaitOK, Ok
<1> QED BY <1>0, <1>3, <1>4, <1>5, OneHandlerSteps

LEMMA WriteInputStep ==
  ASSUME IInv, NEW q \in Slots, WriteInput(q)
  PROVE  RunsStep /\ CallsOK'
<1> DEFINE rec == [call[q] EXCEPT !.pc = "start", !.objs = {written'}]
<1>0. RunsTypeOK /\ ChainsOK /\ CallsOK /\ RunsStep /\ executed' = executed
  BY NoRunChanges DEF IInv, RunsInv, WriteInput, waitVars
<1>1. /\ call[q] \in CallRecords /\ call[q].req \in Asked /\ call[q].req.api = "start"
  BY <1>0, ServedRequest DEF CallsOK, SlotOK, CallTypeOK, WriteInput, At
<1>2. written' \in Nat
  BY DEF IInv, WriteInput, WriteObject
<1>3. rec \in CallRecords /\ rec.pc = "start" /\ rec.req = call[q].req
  BY <1>1, <1>2 DEF CallRecords, Pcs
<1>4. call' = [call EXCEPT ![q] = rec]
  BY <1>0, <1>1 DEF WriteInput, CallsOK
<1> HIDE DEF rec
<1>5. ASSUME call'[q] = rec PROVE SlotOK(q)'
  BY <1>1, <1>3, <1>5 DEF SlotOK, CallTypeOK, KnownOK, StartOK, GetOK, WaitOK, Ok, PcsOf
<1> QED BY <1>0, <1>3, <1>4, <1>5, OneHandlerSteps

LEMMA StartInterpreterWorkflowStep ==
  ASSUME IInv, NEW q \in Slots, StartInterpreterWorkflow(q)
  PROVE  RunsStep /\ CallsOK' /\ Grows(call[q].objs, Len(runs) + 1)
         /\ runs'[Len(runs) + 1].wf = call[q].req.wf
<1> DEFINE req == call[q].req
           n == Len(runs) + 1
<1>0. RunsTypeOK /\ ChainsOK /\ CallsOK /\ executed' = executed /\ Len(runs) \in Nat
  BY RunsAreRecords DEF IInv, RunsInv, StartInterpreterWorkflow, waitVars
<1>1. /\ call[q] \in CallRecords /\ req \in Asked /\ req.api = "start" /\ req.wf \in WorkflowIds
  BY <1>0, ServedRequest DEF CallsOK, SlotOK, CallTypeOK, StartInterpreterWorkflow, At
<1>2. call[q].objs \in SUBSET Nat /\ req.requestId \in Memos /\ req.wf \in Ids
  BY <1>1, WorkflowIdsAssumption DEF CallRecords, Memos, Ids
<1>3. /\ RunsStep /\ Grows(call[q].objs, n) /\ runs'[n].wf = req.wf
      /\ runs'[n].memo = req.requestId
  BY <1>0, <1>1, <1>2, StartedRun DEF StartInterpreterWorkflow
<1>4. Len(runs') = n /\ n \in Nat
  BY <1>0, <1>3 DEF Grows
<1>5. n \in DOMAIN runs'
  <2>1. DOMAIN runs' = 1..Len(runs') /\ n \in 1..n
    BY <1>0, <1>3, StepDomains
  <2> QED BY <1>4, <2>1, Zenon
<1>6. CASE AnswerRun(q, Len(runs'), "RUNNING")
  <2>1. AnswerRun(q, n, "RUNNING") /\ "RUNNING" \in Statuses
    BY <1>4, <1>6 DEF Statuses
  <2> QED BY <1>0, <1>1, <1>3, <1>4, <1>5, <2>1, AnsweredWithRun
<1>7. CASE Answer(q, "error")
  BY <1>0, <1>3, <1>7, AnsweredWithoutRun DEF Answers
<1> QED BY <1>3, <1>6, <1>7 DEF StartInterpreterWorkflow

LEMMA AlreadyStartedStep ==
  ASSUME IInv, NEW q \in Slots, AlreadyStarted(q)
  PROVE  RunsStep /\ CallsOK'
<1> DEFINE req == call[q].req
           current == Current(req.wf)
           rec == [call[q] EXCEPT !.pc = "describeStarted", !.run = current]
<1>0. RunsTypeOK /\ ChainsOK /\ CallsOK /\ RunsStep /\ executed' = executed /\ runs' = runs
  BY NoRunChanges DEF IInv, RunsInv, AlreadyStarted, waitVars
<1>1. /\ call[q] \in CallRecords /\ req \in Asked /\ req.api = "start"
  BY <1>0, ServedRequest DEF CallsOK, SlotOK, CallTypeOK, AlreadyStarted, At
<1>2. current # 0
  BY DEF AlreadyStarted, MayStart
<1>3. current \in RunsOf(req.wf) /\ current \in Nat /\ current \in DOMAIN runs
  BY <1>0, <1>2, CurrentIsLatest, RunsAreRecords DEF RunsOf
<1>4. CASE Answer(q, "alreadyStarted")
  BY <1>0, <1>4, AnsweredWithoutRun DEF Answers
<1>5. CASE req.requestId = NoRequestId /\ AnswerRun(q, current, "RUNNING")
  <2>1. "RUNNING" \in Statuses
    BY DEF Statuses
  <2> QED BY <1>0, <1>1, <1>3, <1>5, <2>1, AnsweredWithRun
<1>6. CASE call' = [call EXCEPT ![q].pc = "describeStarted", ![q].run = current]
  <2>1. call' = [call EXCEPT ![q] = rec]
    BY <1>0, <1>6 DEF CallsOK
  <2>2. /\ rec \in CallRecords /\ rec.pc = "describeStarted" /\ rec.req = req
        /\ rec.run = current
    BY <1>1, <1>3 DEF CallRecords, Pcs
  <2> HIDE DEF rec
  <2>3. ASSUME call'[q] = rec PROVE SlotOK(q)'
    <3>1. (call[q].run \in RunsOf(call[q].req.wf))'
      BY <1>0, <1>3, <2>2, <2>3 DEF RunsOf
    <3> QED BY <1>1, <2>2, <2>3, <3>1
            DEF SlotOK, CallTypeOK, KnownOK, StartOK, GetOK, WaitOK, Ok, PcsOf
  <2> QED BY <1>0, <2>1, <2>2, <2>3, OneHandlerSteps
<1> QED BY <1>0, <1>4, <1>5, <1>6 DEF AlreadyStarted

LEMMA CompareRequestIdStep ==
  ASSUME IInv, NEW q \in Slots, CompareRequestId(q)
  PROVE  RunsStep /\ CallsOK'
<1> DEFINE req == call[q].req
           described == DescribedStarted(q)
<1>0. RunsTypeOK /\ ChainsOK /\ CallsOK /\ RunsStep /\ executed' = executed /\ runs' = runs
  BY NoRunChanges DEF IInv, RunsInv, CompareRequestId, waitVars
<1>1. /\ req \in Asked /\ req.api = "start" /\ call[q].run \in RunsOf(req.wf)
  BY <1>0, ServedRequest DEF CallsOK, SlotOK, KnownOK, CompareRequestId, At
<1>2. call[q].run \in Nat \ {0} /\ call[q].run \in DOMAIN runs
  BY <1>0, <1>1, RunsAreRecords DEF RunsOf
<1>3. described # 0 => described = call[q].run
  BY <1>2 DEF DescribedStarted, Resolve
<1>4. CASE Answer(q, "alreadyStarted") \/ Answer(q, "error")
  BY <1>0, <1>4, AnsweredWithoutRun DEF Answers
<1>5. CASE /\ described # 0 /\ runs[described].memo = req.requestId
           /\ AnswerRun(q, call[q].run, "RUNNING")
  <2>1. "RUNNING" \in Statuses
    BY DEF Statuses
  <2> QED BY <1>0, <1>1, <1>2, <1>3, <1>5, <2>1, AnsweredWithRun
<1> QED BY <1>0, <1>4, <1>5 DEF CompareRequestId

LEMMA GetDescribeStep ==
  ASSUME IInv, NEW q \in Slots, GetDescribe(q)
  PROVE  RunsStep /\ CallsOK'
<1> DEFINE req == call[q].req
           described == Resolve(req.wf, req.run)
           status == runs[described].status
           rec == [call[q] EXCEPT !.pc = "result", !.run = described]
<1>0. RunsTypeOK /\ ChainsOK /\ CallsOK /\ RunsStep /\ executed' = executed /\ runs' = runs
  BY NoRunChanges DEF IInv, RunsInv, GetDescribe, waitVars
<1>1. call[q] \in CallRecords /\ req \in Asked /\ req.api = "get" /\ req.run \in Nat
  BY <1>0, ServedRequest DEF CallsOK, SlotOK, CallTypeOK, GetDescribe, At
<1>2. ASSUME described # 0
      PROVE  /\ described \in RunsOf(req.wf) /\ (req.run # 0 => described = req.run)
             /\ described \in DOMAIN runs /\ described \in Nat
  BY <1>0, <1>1, <1>2, ResolvedRun, RunsAreRecords DEF RunsOf
<1>3. CASE Answer(q, "notExists")
  BY <1>0, <1>3, AnsweredWithoutRun DEF Answers
<1>4. CASE described # 0 /\ call' = [call EXCEPT ![q].pc = "result", ![q].run = described]
  <2>1. call' = [call EXCEPT ![q] = rec]
    BY <1>0, <1>4 DEF CallsOK
  <2>2. rec \in CallRecords /\ rec.pc = "result" /\ rec.req = req /\ rec.run = described
    BY <1>1, <1>2, <1>4 DEF CallRecords, Pcs
  <2> HIDE DEF rec
  <2>3. ASSUME call'[q] = rec PROVE SlotOK(q)'
    <3>1. (call[q].run \in RunsOf(call[q].req.wf))'
      BY <1>0, <1>2, <1>4, <2>2, <2>3 DEF RunsOf
    <3> QED BY <1>1, <1>2, <1>4, <2>2, <2>3, <3>1
            DEF SlotOK, CallTypeOK, KnownOK, StartOK, GetOK, WaitOK, Ok, PcsOf
  <2> QED BY <1>0, <2>1, <2>2, <2>3, OneHandlerSteps
<1>5. CASE /\ described # 0 /\ ~(req.withWait \/ (status # "RUNNING" /\ req.needsResults))
           /\ AnswerRun(q, described, status)
  <2>1. status \in Statuses
    BY <1>0, <1>2, <1>5, RunsAreRecords DEF RunRecords
  <2>2. ~Promises(req, status)
    BY <1>5 DEF Promises
  <2> HIDE DEF status, described
  <2> QED BY <1>0, <1>1, <1>2, <1>5, <2>1, <2>2, AnsweredWithRun
<1> QED BY <1>0, <1>3, <1>4, <1>5 DEF GetDescribe

\* The run that the result is asked of is the described one or, without a run id, a
\* later one: the engine forgets the older runs first.
LEMMA GetWorkflowResultStep ==
  ASSUME IInv, NEW q \in Slots, GetWorkflowResult(q)
  PROVE  RunsStep /\ CallsOK'
<1> DEFINE req == call[q].req
           target == Resolve(req.wf, req.run)
           again == [call[q] EXCEPT !.pc = "describeAgain"]
           rec == [call[q] EXCEPT !.pc = "resultOf", !.target = target]
<1>0. /\ RunsTypeOK /\ ChainsOK /\ CallsOK /\ RunsStep /\ executed' = executed
      /\ runs' = runs /\ RetentionOK
  BY NoRunChanges DEF IInv, RunsInv, GetWorkflowResult, waitVars
<1>1. call[q] \in CallRecords /\ req \in Asked /\ req.api = "get" /\ req.run \in Nat
  BY <1>0, ServedRequest DEF CallsOK, SlotOK, CallTypeOK, GetWorkflowResult, At
<1>2. /\ call[q].run \in RunsOf(req.wf) /\ (req.run # 0 => call[q].run = req.run)
      /\ call[q].pc = "result"
  BY <1>0, <1>1 DEF CallsOK, SlotOK, KnownOK, GetWorkflowResult, At
<1>3. call' = IF target = 0 THEN [call EXCEPT ![q] = again] ELSE [call EXCEPT ![q] = rec]
  BY <1>0 DEF GetWorkflowResult, CallsOK
<1>4. CASE target = 0
  <2>1. again \in CallRecords /\ again.pc = "describeAgain" /\ again.req = req
        /\ again.run = call[q].run
    BY <1>1 DEF CallRecords, Pcs
  <2> HIDE DEF again
  <2>2. ASSUME call'[q] = again PROVE SlotOK(q)'
    <3>1. (call[q].run \in RunsOf(call[q].req.wf))'
      BY <1>0, <1>2, <2>1, <2>2 DEF RunsOf
    <3> QED BY <1>1, <1>2, <2>1, <2>2, <3>1
            DEF SlotOK, CallTypeOK, KnownOK, StartOK, GetOK, WaitOK, Ok, PcsOf
  <2> QED BY <1>0, <1>3, <1>4, <2>1, <2>2, OneHandlerSteps
<1>5. CASE target # 0
  <2>1. /\ target \in RunsOf(req.wf) /\ runs[target].kept /\ (req.run # 0 => target = req.run)
        /\ req.run = 0 => target = Current(req.wf)
    BY <1>0, <1>1, <1>5, ResolvedRun
  <2>2. target \in Nat /\ call[q].run \in Nat
    BY <1>0, <1>2, <2>1, RunsAreRecords DEF RunsOf
  <2>3. ASSUME req.run = 0 PROVE target >= call[q].run
    <3>1. runs[call[q].run].kept => call[q].run <= target
      BY <1>0, <1>2, <1>5, <2>1, <2>3, CurrentIsLatest
    <3>2. target < call[q].run => runs[call[q].run].kept
      BY <1>0, <1>2, <2>1 DEF RetentionOK, RunsOf
    <3> QED BY <2>2, <3>1, <3>2
  <2>4. target = call[q].run \/ (req.run = 0 /\ target > call[q].run)
    BY <1>2, <2>1, <2>2, <2>3
  <2>5. rec \in CallRecords /\ rec.pc = "resultOf" /\ rec.req = req
        /\ rec.run = call[q].run /\ rec.target = target
    BY <1>1, <2>2 DEF CallRecords, Pcs
  <2> HIDE DEF rec, target
  <2>6. ASSUME call'[q] = rec PROVE SlotOK(q)'
    <3>1. (call[q].run \in RunsOf(call[q].req.wf) /\ call[q].target \in RunsOf(call[q].req.wf))'
      BY <1>0, <1>2, <2>1, <2>5, <2>6 DEF RunsOf
    <3> QED BY <1>1, <1>2, <2>4, <2>5, <2>6, <3>1
            DEF SlotOK, CallTypeOK, KnownOK, StartOK, GetOK, WaitOK, Ok, PcsOf
  <2> QED BY <1>0, <1>3, <1>5, <2>5, <2>6, OneHandlerSteps
<1> QED BY <1>4, <1>5, <1>0

LEMMA ResultArrivesStep ==
  ASSUME IInv, NEW q \in Slots, ResultArrives(q)
  PROVE  RunsStep /\ CallsOK'
<1> DEFINE req == call[q].req
           target == call[q].target
           again == [call[q] EXCEPT !.pc = "describeAgain"]
<1>0. /\ RunsTypeOK /\ ChainsOK /\ CallsOK /\ RunsStep /\ executed' = executed
      /\ runs' = runs
  BY NoRunChanges DEF IInv, RunsInv, ResultArrives, waitVars
<1>1. call[q] \in CallRecords /\ req \in Asked /\ req.api = "get" /\ req.run \in Nat
  BY <1>0, ServedRequest DEF CallsOK, SlotOK, CallTypeOK, ResultArrives, At
<1>2. /\ call[q].run \in RunsOf(req.wf) /\ (req.run # 0 => call[q].run = req.run)
      /\ target \in RunsOf(req.wf)
      /\ target = call[q].run \/ (req.run = 0 /\ target > call[q].run)
  BY <1>0, <1>1 DEF CallsOK, SlotOK, KnownOK, ResultArrives, At
<1>3. call[q].run \in Nat /\ call[q].run \in DOMAIN runs
  BY <1>0, <1>2, RunsAreRecords DEF RunsOf
<1>4. ASSUME NEW s \in {"COMPLETED", "FAILED"}, runs[End(target)].status = s,
             AnswerRun(q, call[q].run, s)
      PROVE  CallsOK'
  <2>1. s \in Statuses /\ s \in Final
    BY <1>4 DEF Statuses, Final, Abnormal
  <2>2. PICK run \in Nat : run = call[q].run
    BY <1>3
  <2>3. PICK i \in DOMAIN runs : i = target
    BY <1>2 DEF RunsOf
  <2>4. /\ i \in RunsOf(req.wf) /\ runs[End(i)].status = s
        /\ End(i) = End(run) \/ (req.run = 0 /\ i > run)
    BY <1>2, <1>4, <2>2, <2>3 DEF RunsOf
  <2>5. End(i)' = End(i) /\ End(run)' = End(run)
    BY <1>0 DEF End, Chain
  <2>6. PICK wf : wf = req.wf
    OBVIOUS
  <2>7. i \in RunsOf(wf)'
    BY <1>0, <2>4, <2>6 DEF RunsOf
  <2>8. run \in DOMAIN runs' /\ runs'[End(i)'].status = s /\ AnswerRun(q, run, s)
    BY <1>0, <1>3, <1>4, <2>2, <2>4, <2>5
  <2> QED BY <1>0, <1>1, <2>1, <2>4, <2>5, <2>6, <2>7, <2>8, AnsweredWithRun
<1>5. ASSUME Go(q, "describeAgain") PROVE CallsOK'
  <2>1. call' = [call EXCEPT ![q] = again]
    BY <1>0, <1>5 DEF Go, CallsOK
  <2>2. again \in CallRecords /\ again.pc = "describeAgain" /\ again.req = req
        /\ again.run = call[q].run
    BY <1>1 DEF CallRecords, Pcs
  <2> HIDE DEF again
  <2>3. ASSUME call'[q] = again PROVE SlotOK(q)'
    <3>1. (call[q].run \in RunsOf(call[q].req.wf))'
      BY <1>0, <1>2, <2>2, <2>3 DEF RunsOf
    <3> QED BY <1>1, <1>2, <2>2, <2>3, <3>1
            DEF SlotOK, CallTypeOK, KnownOK, StartOK, GetOK, WaitOK, Ok, PcsOf
  <2> QED BY <1>0, <2>1, <2>2, <2>3, OneHandlerSteps
<1>6. CASE Answer(q, "longPollTimeout")
  BY <1>0, <1>6, AnsweredWithoutRun DEF Answers
<1> QED BY <1>0, <1>4, <1>5, <1>6 DEF ResultArrives

\* What the second describe may answer with is the end of a chain.
LEMMA DescribeAgainStep ==
  ASSUME IInv, NEW q \in Slots, DescribeAgain(q)
  PROVE  RunsStep /\ CallsOK'
<1> DEFINE req == call[q].req
           described == Resolve(req.wf, req.run)
<1>0. /\ RunsTypeOK /\ ChainsOK /\ CallsOK /\ RunsStep /\ executed' = executed
      /\ runs' = runs
  BY NoRunChanges DEF IInv, RunsInv, DescribeAgain, waitVars
<1>1. req \in Asked /\ req.api = "get" /\ req.run \in Nat
  BY <1>0, ServedRequest DEF CallsOK, SlotOK, DescribeAgain, At
<1>2. CASE Answer(q, "notExists") \/ Answer(q, "error")
  BY <1>0, <1>2, AnsweredWithoutRun DEF Answers
<1>3. CASE /\ described # 0 /\ runs[described].status \notin NoFinalStatus
           /\ AnswerRun(q, described, runs[described].status)
  <2>1. described \in RunsOf(req.wf)
    BY <1>0, <1>1, <1>3, ResolvedRun
  <2>2. PICK run \in DOMAIN runs : run = described
    BY <2>1 DEF RunsOf
  <2>3. PICK s \in Statuses : s = runs[run].status
    BY <1>0, RunsAreRecords DEF RunRecords
  <2>4. s \in Final /\ s # "CONTINUED_AS_NEW"
    BY <1>3, <2>2, <2>3 DEF NoFinalStatus, Statuses, Final, Abnormal
  <2>5. PICK wf : wf = req.wf
    OBVIOUS
  <2>6. /\ run \in Nat /\ run \in RunsOf(wf)' /\ run \in DOMAIN runs' /\ AnswerRun(q, run, s)
    BY <1>0, <1>3, <2>1, <2>2, <2>3, <2>5, RunsAreRecords DEF RunsOf
  <2>7. runs'[End(run)'].status = s
    <3>1. End(run) = run
      BY <1>0, <2>3, <2>4, NotContinuedIsLast
    <3>2. End(run)' = End(run)
      BY <1>0 DEF End, Chain
    <3> QED BY <1>0, <2>3, <3>1, <3>2
  <2> QED BY <1>0, <1>1, <2>4, <2>5, <2>6, <2>7, AnsweredWithRun
<1> QED BY <1>0, <1>2, <1>3 DEF DescribeAgain

LEMMA DescribeFirstStep ==
  ASSUME IInv, NEW q \in Slots, DescribeFirst(q)
  PROVE  RunsStep /\ CallsOK'
<1> DEFINE described == Current(call[q].req.wf)
           rec == [call[q] EXCEPT !.pc = "startWait", !.run = runs[described].first]
<1>0. /\ RunsTypeOK /\ ChainsOK /\ CallsOK /\ RunsStep /\ executed' = executed
  BY NoRunChanges DEF IInv, RunsInv, DescribeFirst, waitVars
<1>1. call[q] \in CallRecords /\ call[q].req \in Asked /\ call[q].req.api = "wait"
  BY <1>0, ServedRequest DEF CallsOK, SlotOK, CallTypeOK, DescribeFirst, At
<1>2. CASE Answer(q, "notExists")
  BY <1>0, <1>2, AnsweredWithoutRun DEF Answers
<1>3. CASE /\ described # 0
           /\ call' = [call EXCEPT ![q].pc = "startWait", ![q].run = runs[described].first]
  <2>1. call' = [call EXCEPT ![q] = rec]
    BY <1>0, <1>3 DEF CallsOK
  <2>2. runs[described].first \in Nat
    BY <1>0, <1>3, CurrentIsLatest, RunsAreRecords DEF RunsOf, RunRecords
  <2>3. rec \in CallRecords /\ rec.pc = "startWait" /\ rec.req = call[q].req
    BY <1>1, <2>2 DEF CallRecords, Pcs
  <2> HIDE DEF rec
  <2>4. ASSUME call'[q] = rec PROVE SlotOK(q)'
    BY <1>1, <2>3, <2>4
       DEF SlotOK, CallTypeOK, KnownOK, StartOK, GetOK, WaitOK, Ok, PcsOf
  <2> QED BY <1>0, <2>1, <2>3, <2>4, OneHandlerSteps
<1> QED BY <1>0, <1>2, <1>3 DEF DescribeFirst

LEMMA WaitIdsAreIds ==
  ASSUME NEW q \in Slots, call[q] \in CallRecords, call[q].req.wf \in WorkflowIds
  PROVE  WaitId(q) \in Ids /\ WaitId(q) \notin WorkflowIds
<1>1. call[q].run \in Nat /\ call[q].req.wf[2] \in Nat
  BY WorkflowIdsAssumption DEF CallRecords
<1> QED BY <1>1, WorkflowIdsAssumption DEF WaitId, WaitIdOfWorkflow, WaitIdOfFirstRun, Ids

LEMMA StartWaitStep ==
  ASSUME IInv, NEW q \in Slots, StartWaitForStateCompletionWorkflow(q)
  PROVE  /\ RunsStep /\ CallsOK' /\ call'[q].objs = call[q].objs
         /\ \/ KeepsObjs
            \/ Grows({}, Len(runs) + 1) /\ runs'[Len(runs) + 1].wf \notin WorkflowIds
<1>0. /\ RunsTypeOK /\ ChainsOK /\ CallsOK /\ executed' = executed /\ Len(runs) \in Nat
  BY RunsAreRecords DEF IInv, RunsInv, StartWaitForStateCompletionWorkflow, waitVars
<1>1. /\ call[q] \in CallRecords /\ call[q].req \in Asked /\ call[q].req.api = "wait"
      /\ call[q].req.wf \in WorkflowIds
  BY <1>0, ServedRequest DEF CallsOK, SlotOK, CallTypeOK, StartWaitForStateCompletionWorkflow, At
<1>2. WaitId(q) \in Ids /\ WaitId(q) \notin WorkflowIds
  BY <1>1, WaitIdsAreIds
<1>3. ASSUME NEW t \in DOMAIN runs', t \in Nat, runs'[t].wf = WaitId(q), RunsStep,
             call' = [call EXCEPT ![q].pc = "waitResult", ![q].target = t]
      PROVE  CallsOK' /\ call'[q].objs = call[q].objs
  <2> DEFINE rec == [call[q] EXCEPT !.pc = "waitResult", !.target = t]
  <2>1. call' = [call EXCEPT ![q] = rec] /\ call'[q] = rec
    BY <1>0, <1>3 DEF CallsOK
  <2>2. /\ rec \in CallRecords /\ rec.pc = "waitResult" /\ rec.req = call[q].req
        /\ rec.target = t /\ rec.run = call[q].run /\ rec.objs = call[q].objs
    BY <1>1, <1>3 DEF CallRecords, Pcs
  <2> HIDE DEF rec
  <2>3. ASSUME call'[q] = rec PROVE SlotOK(q)'
    <3>1. WaitId(q)' = WaitId(q)
      BY <2>2, <2>3 DEF WaitId, WaitsByRun
    <3>2. (call[q].target \in RunsOf(WaitId(q)))'
      BY <1>3, <2>2, <2>3, <3>1 DEF RunsOf
    <3> QED BY <1>1, <2>2, <2>3, <3>2
            DEF SlotOK, CallTypeOK, KnownOK, StartOK, GetOK, WaitOK, Ok, PcsOf
  <2> QED BY <1>0, <1>3, <2>1, <2>2, <2>3, OneHandlerSteps
<1>4. CASE /\ MayStart(WaitId(q), "ALLOW_DUPLICATE_FAILED_ONLY")
           /\ runs' = Started(WaitId(q), NoRequestId, {})
           /\ call' = [call EXCEPT ![q].pc = "waitResult", ![q].target = Len(runs')]
  <2>1. NoRequestId \in Memos
    BY DEF Memos
  <2>2. /\ RunsStep /\ Grows({}, Len(runs) + 1) /\ runs'[Len(runs) + 1].wf = WaitId(q)
    BY <1>0, <1>2, <1>4, <2>1, StartedRun
  <2>3. PICK t \in Nat : t = Len(runs) + 1
    BY <1>0
  <2>4. Len(runs') = t /\ runs'[t].wf = WaitId(q)
    BY <2>2, <2>3 DEF Grows
  <2>5. t \in DOMAIN runs'
    <3>1. DOMAIN runs' = 1..Len(runs') /\ t \in 1..t
      BY <1>0, <2>2, <2>3, StepDomains
    <3> QED BY <2>4, <3>1, Zenon
  <2>6. call' = [call EXCEPT ![q].pc = "waitResult", ![q].target = t]
    BY <1>4, <2>4
  <2> QED BY <1>2, <1>3, <2>2, <2>4, <2>5, <2>6
<1>5. CASE /\ ~MayStart(WaitId(q), "ALLOW_DUPLICATE_FAILED_ONLY")
           /\ call' = [call EXCEPT ![q].pc = "waitResult", ![q].target = Current(WaitId(q))]
           /\ UNCHANGED runs
  <2>1. Current(WaitId(q)) # 0
    BY <1>5 DEF MayStart
  <2>2. PICK t \in RunsOf(WaitId(q)) : t = Current(WaitId(q))
    BY <1>0, <2>1, CurrentIsLatest
  <2>3. t \in DOMAIN runs' /\ t \in Nat /\ runs'[t].wf = WaitId(q)
    BY <1>0, <1>5, <2>2, RunsAreRecords DEF RunsOf
  <2>4. RunsStep /\ KeepsObjs
    BY <1>0, <1>5, NoRunChanges
  <2> QED BY <1>3, <1>5, <2>2, <2>3, <2>4
<1> QED BY <1>4, <1>5 DEF StartWaitForStateCompletionWorkflow

LEMMA WaitResultStep ==
  ASSUME IInv, NEW q \in Slots, WaitResult(q)
  PROVE  RunsStep /\ CallsOK'
<1> DEFINE t == call[q].target
<1>0. /\ RunsTypeOK /\ ChainsOK /\ CallsOK /\ RunsStep /\ executed' = executed /\ WaitRunsOK
  BY NoRunChanges DEF IInv, RunsInv, WaitResult, waitVars
<1>1. /\ call[q] \in CallRecords /\ call[q].req \in Asked /\ call[q].req.api = "wait"
      /\ call[q].req.wf \in WorkflowIds /\ t \in RunsOf(WaitId(q))
  BY <1>0, ServedRequest DEF CallsOK, SlotOK, CallTypeOK, KnownOK, WaitResult, At
<1>2. CASE Answer(q, "notExists") \/ Answer(q, "longPollTimeout")
  BY <1>0, <1>2, AnsweredWithoutRun DEF Answers
<1>3. CASE runs[t].status = "COMPLETED" /\ AnswerRun(q, call[q].run, "COMPLETED")
  <2>1. t \in DOMAIN runs /\ IsWaitRun(t) /\ runs[t].wf = WaitId(q)
    BY <1>1, WaitIdsAreIds DEF RunsOf, IsWaitRun
  <2>2. PICK run \in Nat : run = call[q].run
    BY <1>1 DEF CallRecords
  <2>5. PICK wf \in WorkflowIds : wf = call[q].req.wf
    BY <1>1
  <2>6. TellsTruly(WaitId(q))
    BY <1>0, <1>3, <2>1 DEF WaitRunsOK
  <2>7. WaitsByRun => run \in executed'
    BY <1>0, <2>2, <2>6 DEF TellsTruly, WaitId
  <2>8. ~WaitsByRun => HasExecuted(wf)'
    <3>1. ~WaitsByRun => HasExecuted(wf)
      BY <2>5, <2>6 DEF TellsTruly, WaitId
    <3> QED BY <1>0, <3>1, TruthStays
  <2>3. IF WaitsByRun THEN run \in executed' ELSE HasExecuted(wf)'
    BY <2>7, <2>8
  <2>4. "COMPLETED" \in Statuses /\ AnswerRun(q, run, "COMPLETED")
    BY <1>3, <2>2 DEF Statuses
  <2> QED BY <1>0, <1>1, <2>3, <2>4, <2>5, AnsweredWithRun
<1> QED BY <1>0, <1>2, <1>3 DEF WaitResult

LEMMA StopStep ==
  ASSUME IInv, NEW q \in Slots, StopWorkflow(q)
  PROVE  RunsStep /\ KeepsObjs /\ CallsOK'
<1>1. RunsTypeOK /\ ChainsOK /\ CallsOK /\ executed' = executed /\ CallTypeOK(q)
  BY DEF IInv, RunsInv, CallsOK, SlotOK, StopWorkflow, waitVars
<1>2. RunsStep /\ KeepsObjs
  BY <1>1, StoppedRun
<1>3. Answer(q, "notExists") \/ Answer(q, "ok")
  BY DEF StopWorkflow
<1> QED BY <1>1, <1>2, <1>3, AnsweredWithoutRun DEF Answers

LEMMA CallFailsStep ==
  ASSUME IInv, NEW q \in Slots, CallFails(q)
  PROVE  RunsStep /\ CallsOK'
<1>1. RunsTypeOK /\ ChainsOK /\ CallsOK /\ RunsStep /\ executed' = executed
  BY NoRunChanges DEF IInv, RunsInv, CallFails, waitVars
<1>2. Answer(q, "error")
  BY DEF CallFails
<1> QED BY <1>1, <1>2, AnsweredWithoutRun DEF Answers

-----------------------------------------------------------------------------
(* The completion of a state *)

LEMMA WhomToSignal ==
  ASSUME NEW f \in Nat, runs[f].wf \in WorkflowIds
  PROVE  /\ Len(SignalIds(f)) \in Nat /\ DOMAIN SignalIds(f) = 1..Len(SignalIds(f))
         /\ \A k \in DOMAIN SignalIds(f) :
              /\ SignalIds(f)[k] \in Ids /\ SignalIds(f)[k] \notin WorkflowIds
              /\ \A g \in Nat : SignalIds(f)[k] = WaitIdOfFirstRun(g) => g = f
              /\ \A wf \in WorkflowIds :
                   SignalIds(f)[k] = WaitIdOfWorkflow(wf) => wf = runs[f].wf
<1> DEFINE old == WaitIdOfWorkflow(runs[f].wf)
           new == WaitIdOfFirstRun(f)
<1>1. \A id \in {old, new} :
        /\ id \in Ids /\ id \notin WorkflowIds
        /\ \A g \in Nat : id = WaitIdOfFirstRun(g) => g = f
        /\ \A wf \in WorkflowIds : id = WaitIdOfWorkflow(wf) => wf = runs[f].wf
  BY WorkflowIdsAssumption DEF WaitIdOfWorkflow, WaitIdOfFirstRun, Ids
<1>2. SignalIds(f) = <<old>> \/ SignalIds(f) = <<old, new>> \/ SignalIds(f) = <<new>>
  BY MigrationAssumption, BackendAssumption DEF SignalIds
<1> HIDE DEF old, new
<1>3. CASE SignalIds(f) = <<old>>
  <2>1. Len(<<old>>) = 1 /\ DOMAIN <<old>> = 1..1 /\ \A k \in 1..1 : <<old>>[k] = old
    OBVIOUS
  <2> QED BY <1>1, <1>3, <2>1
<1>4. CASE SignalIds(f) = <<new>>
  <2>1. Len(<<new>>) = 1 /\ DOMAIN <<new>> = 1..1 /\ \A k \in 1..1 : <<new>>[k] = new
    OBVIOUS
  <2> QED BY <1>1, <1>4, <2>1
<1>5. CASE SignalIds(f) = <<old, new>>
  <2>1. /\ Len(<<old, new>>) = 2 /\ DOMAIN <<old, new>> = 1..2
        /\ \A k \in 1..2 : <<old, new>>[k] \in {old, new}
    OBVIOUS
  <2> QED BY <1>1, <1>5, <2>1
<1> QED BY <1>2, <1>3, <1>4, <1>5

LEMMA ExecutedRuns ==
  ASSUME RunsTypeOK, SentOK, NEW f \in executed
  PROVE  /\ f \in DOMAIN runs /\ f \in Nat /\ runs[f].wf \in WorkflowIds /\ sentTo[f] \in Nat
         /\ Len(SignalIds(f)) \in Nat /\ DOMAIN SignalIds(f) = 1..Len(SignalIds(f))
<1>1. f \in DOMAIN runs /\ sentTo[f] \in Nat /\ runs[f].wf \in WorkflowIds
  BY DEF SentOK
<1>2. f \in Nat
  BY <1>1, RunsAreRecords
<1> QED BY <1>1, <1>2, WhomToSignal

LEMMA ExecuteSucceedsStep ==
  ASSUME RunsTypeOK, ChainsOK, SentOK, NEW r, ExecuteSucceeds(r)
  PROVE  RunsStep /\ KeepsObjs /\ executed \subseteq executed' /\ SentOK'
<1>1. /\ r \in DOMAIN runs /\ runs' = runs /\ executed' = executed \cup {runs[r].first}
      /\ sentTo' = [f \in executed' |-> IF f \in executed THEN sentTo[f] ELSE 0]
      /\ committed' = committed
  BY DEF ExecuteSucceeds, InterpreterRun
<1>2. RunsStep /\ KeepsObjs
  BY <1>1, NoRunChanges
<1>3. runs[r].first \in DOMAIN runs /\ runs[runs[r].first].wf \in WorkflowIds
  BY <1>1, RunsAreRecords DEF ChainsOK, ExecuteSucceeds, InterpreterRun
<1>4. /\ executed' \subseteq DOMAIN runs' /\ committed' \subseteq executed'
      /\ sentTo' \in [executed' -> Nat]
      /\ \A f \in executed' : runs'[f].wf \in WorkflowIds
  BY <1>1, <1>3 DEF SentOK
<1>5. \A f : SignalIds(f)' = SignalIds(f)
  BY <1>1 DEF SignalIds
<1>6. ASSUME NEW f \in executed', NEW k \in DOMAIN SignalIds(f), k <= sentTo'[f]
      PROVE  Signalled(SignalIds(f)[k])'
  <2>1. CASE f \in executed
    <3>1. Signalled(SignalIds(f)[k])
      BY <1>1, <1>6, <2>1 DEF SentOK
    <3> QED BY <1>1, <1>5, <3>1 DEF Signalled, RunsOf
  <2>2. CASE f \notin executed
    <3>1. f \in Nat /\ runs[f].wf \in WorkflowIds
      BY <1>1, <1>3, <2>2, RunsAreRecords
    <3>2. k \in 1..Len(SignalIds(f)) /\ Len(SignalIds(f)) \in Nat
      BY <3>1, WhomToSignal
    <3>3. sentTo'[f] = 0
      BY <1>1, <2>2
    <3> QED BY <1>6, <3>2, <3>3
  <2> QED BY <2>1, <2>2
<1>7. \A f \in executed' : \A k \in DOMAIN SignalIds(f)' :
        k <= sentTo'[f] => Signalled(SignalIds(f)[k])'
  BY <1>5, <1>6
<1>8. CompletionKept'
  BY <1>1, <1>5 DEF SentOK, CompletionKept, RunsOf
<1> QED BY <1>1, <1>2, <1>4, <1>7, <1>8 DEF SentOK

LEMMA SendCompletionStep ==
  ASSUME RunsInv, SentOK, NEW f \in executed, SendCompletion(f)
  PROVE  /\ RunsStep /\ (KeepsObjs \/ Grows({}, Len(runs) + 1)) /\ SentOK'
         /\ executed' = executed
<1>a. PICK k, id : k = sentTo[f] + 1 /\ id = SignalIds(f)[k]
  OBVIOUS
<1>0. /\ RunsTypeOK /\ executed' = executed /\ committed' = committed
      /\ sentTo' = [sentTo EXCEPT ![f] = k] /\ SignalWithStart(id)
      /\ sentTo[f] < Len(SignalIds(f))
  BY <1>a DEF SendCompletion, RunsInv
<1>1. /\ f \in DOMAIN runs /\ f \in Nat /\ runs[f].wf \in WorkflowIds /\ sentTo[f] \in Nat
      /\ Len(SignalIds(f)) \in Nat /\ DOMAIN SignalIds(f) = 1..Len(SignalIds(f))
  BY <1>0, ExecutedRuns
<1>2. k \in DOMAIN SignalIds(f) /\ k \in Nat
  BY <1>a, <1>0, <1>1
<1>3. id \in Ids /\ id \notin WorkflowIds /\ TellsTruly(id)
  <2>1. /\ id \in Ids /\ id \notin WorkflowIds
        /\ \A g \in Nat : id = WaitIdOfFirstRun(g) => g = f
        /\ \A wf \in WorkflowIds : id = WaitIdOfWorkflow(wf) => wf = runs[f].wf
    BY <1>a, <1>1, <1>2, WhomToSignal
  <2> QED BY <1>1, <2>1 DEF TellsTruly, HasExecuted
<1>4. RunsStep /\ (KeepsObjs \/ Grows({}, Len(runs) + 1)) /\ Signalled(id)'
  BY <1>0, <1>3, SignalledRun DEF RunsInv
<1>5. /\ \A x : Signalled(x) => Signalled(x)'
      /\ \A g \in executed : SignalIds(g)' = SignalIds(g)
  BY <1>0, <1>4, SignalsStay DEF SentOK
<1>6. /\ executed' \subseteq DOMAIN runs' /\ committed' \subseteq executed'
      /\ \A g \in executed' : runs'[g].wf \in WorkflowIds
  BY <1>0, <1>4, StepDomains, RunStays DEF SentOK
<1>7. sentTo' \in [executed' -> Nat]
  BY <1>0, <1>2 DEF SentOK
<1>8. ASSUME NEW g \in executed', NEW j \in DOMAIN SignalIds(g)', j <= sentTo'[g]
      PROVE  Signalled(SignalIds(g)[j])'
  <2>1. SignalIds(g)' = SignalIds(g) /\ g \in executed
    BY <1>0, <1>5
  <2>2. j \in Nat
    BY <1>0, <2>1, ExecutedRuns
  <2>3. CASE g = f /\ j = k
    BY <1>a, <1>4, <2>1, <2>3 DEF Signalled
  <2>4. CASE ~(g = f /\ j = k)
    <3>1. j <= sentTo[g]
      BY <1>a, <1>0, <1>1, <1>8, <2>1, <2>2, <2>4 DEF SentOK
    <3>2. Signalled(SignalIds(g)[j])
      BY <2>1, <3>1 DEF SentOK
    <3> QED BY <1>5, <2>1, <3>2 DEF Signalled
  <2> QED BY <2>3, <2>4
<1>9. CompletionKept'
  <2>1. ASSUME NEW g \in committed', NEW j \in DOMAIN SignalIds(g)'
        PROVE  Signalled(SignalIds(g)[j])'
    <3>1. SignalIds(g)' = SignalIds(g) /\ g \in committed
      BY <1>0, <1>5 DEF SentOK
    <3>2. Signalled(SignalIds(g)[j])
      BY <3>1 DEF SentOK, CompletionKept, Signalled
    <3> QED BY <1>5, <3>1, <3>2 DEF Signalled
  <2> QED BY <2>1 DEF CompletionKept, Signalled
<1> QED BY <1>0, <1>4, <1>6, <1>7, <1>8, <1>9 DEF SentOK

LEMMA TaskStep ==
  ASSUME RunsTypeOK, SentOK, NEW f \in executed, RetryTask(f) \/ CommitTask(f)
  PROVE  RunsStep /\ KeepsObjs /\ SentOK' /\ executed' = executed
<1>1. runs' = runs /\ executed' = executed
  BY DEF RetryTask, CommitTask
<1>2. RunsStep /\ KeepsObjs
  BY <1>1, NoRunChanges
<1>3. /\ f \in DOMAIN runs /\ f \in Nat /\ sentTo[f] \in Nat
      /\ \A g \in executed : DOMAIN SignalIds(g) = 1..Len(SignalIds(g)) /\ Len(SignalIds(g)) \in Nat
  BY ExecutedRuns
<1>4. \A g : SignalIds(g)' = SignalIds(g)
  BY <1>1 DEF SignalIds
<1>5. \A x : Signalled(x)' = Signalled(x)
  BY <1>1 DEF Signalled, RunsOf
<1>6. /\ sentTo' \in [executed -> Nat] /\ committed' \subseteq executed
      /\ \A g \in executed : \A k \in DOMAIN SignalIds(g) :
           k <= sentTo'[g] => Signalled(SignalIds(g)[k])
  <2>1. CASE RetryTask(f)
    BY <1>3, <2>1 DEF SentOK, RetryTask
  <2>2. CASE CommitTask(f)
    BY <2>2 DEF SentOK, CommitTask
  <2> QED BY <2>1, <2>2
<1>7. ASSUME NEW g \in committed', NEW k \in DOMAIN SignalIds(g)
      PROVE  Signalled(SignalIds(g)[k])
  <2>1. CASE g \in committed
    BY <2>1 DEF SentOK, CompletionKept, Signalled
  <2>2. CASE g \notin committed
    <3>1. g = f /\ sentTo[f] = Len(SignalIds(f))
      BY <1>7, <2>2 DEF RetryTask, CommitTask
    <3>2. k <= sentTo[f]
      BY <1>3, <3>1
    <3> QED BY <3>1, <3>2 DEF SentOK
  <2> QED BY <2>1, <2>2
<1>8. CompletionKept'
  BY <1>4, <1>5, <1>7 DEF CompletionKept, Signalled
<1>9. \A g \in executed : \A k \in DOMAIN SignalIds(g)' :
        k <= sentTo'[g] => Signalled(SignalIds(g)[k])'
  BY <1>4, <1>5, <1>6 DEF Signalled
<1> QED BY <1>1, <1>2, <1>6, <1>8, <1>9 DEF SentOK

-----------------------------------------------------------------------------
(* The invariant *)

LEMMA RunsInvStays ==
  ASSUME RunsInv, RunsStep, executed \subseteq executed'
  PROVE  RunsInv'
BY StepDomains, ChainsPreserved, RetentionPreserved, WaitRunsPreserved DEF RunsInv

LEMMA CallsStay ==
  ASSUME RunsInv, RunsStep, executed \subseteq executed', CallsOK, UNCHANGED call
  PROVE  CallsOK'
<1>1. \A q \in Slots : SlotOK(q)'
  BY SlotStays DEF RunsInv, CallsOK
<1> QED BY <1>1 DEF CallsOK

LEMMA IInvInit == Init => IInv
<1> SUFFICES ASSUME Init PROVE IInv
  OBVIOUS
<1>1. RunsInv /\ written \in Nat
  <2>1. CASE runs = << >>
    BY <2>1 DEF Init, BlobInit, RunsInv, RunsTypeOK, ChainsOK, RetentionOK, WaitRunsOK
  <2>2. ASSUME NEW wf \in WorkflowIds, NEW id \in RequestIds \cup {NoRequestId},
               runs = <<[wf |-> wf, status |-> "RUNNING", first |-> 1, memo |-> id,
                         objs |-> {}, kept |-> TRUE, cancelRequested |-> FALSE,
                         signalled |-> FALSE]>>
        PROVE  RunsInv
    <3> DEFINE run == [wf |-> wf, status |-> "RUNNING", first |-> 1, memo |-> id,
                       objs |-> {}, kept |-> TRUE, cancelRequested |-> FALSE,
                       signalled |-> FALSE]
    <3>1. wf \in Ids /\ id \in Memos
      BY WorkflowIdsAssumption DEF Ids, Memos
    <3>2. run \in RunRecords
      BY <3>1 DEF RunRecords, Statuses
    <3>3. /\ run.first = 1 /\ run.status = "RUNNING" /\ run.kept = TRUE
          /\ run.signalled = FALSE
      OBVIOUS
    <3> HIDE DEF run
    <3>4. runs = <<run>>
      BY <2>2 DEF run
    <3>5. runs \in Seq(RunRecords) /\ DOMAIN runs = {1} /\ runs[1] = run
      BY <3>2, <3>4
    <3> QED BY <3>3, <3>5 DEF RunsInv, RunsTypeOK, ChainsOK, RetentionOK, WaitRunsOK
  <2> QED BY <2>1, <2>2 DEF Init, BlobInit
<1>2. SentOK
  <2>1. executed = {} /\ committed = {} /\ sentTo = [f \in {} |-> 0]
    BY DEF Init, WaitInit
  <2> QED BY <2>1 DEF SentOK, CompletionKept
<1>3. CallsOK
  <2>1. NoCall \in CallRecords /\ NoCall.pc = "idle"
    BY DEF NoCall, CallRecords, Pcs
  <2>2. call \in [Slots -> CallRecords] /\ \A q \in Slots : call[q] = NoCall
    BY <2>1 DEF Init
  <2> QED BY <2>1, <2>2 DEF CallsOK, SlotOK, CallTypeOK, KnownOK, StartOK, GetOK, WaitOK, Ok
<1> QED BY <1>1, <1>2, <1>3 DEF IInv

LEMMA IInvNext == IInv /\ [Next]_vars => IInv'
<1> SUFFICES ASSUME IInv, [Next]_vars PROVE IInv'
  OBVIOUS
<1>0. RunsInv /\ RunsTypeOK /\ ChainsOK /\ SentOK /\ CallsOK /\ written \in Nat
  BY DEF IInv, RunsInv
<1>1. ASSUME RunsStep, CallsOK', UNCHANGED waitVars, written' \in Nat PROVE IInv'
  BY <1>0, <1>1, RunsInvStays, SentStays DEF IInv, waitVars
<1>2. ASSUME RunsStep, UNCHANGED call, UNCHANGED waitVars, written' \in Nat PROVE IInv'
  BY <1>0, <1>1, <1>2, CallsStay DEF waitVars
<1>3. ASSUME RunsStep, SentOK', executed \subseteq executed', UNCHANGED <<blobVars, call>>
      PROVE  IInv'
  BY <1>0, <1>3, RunsInvStays, CallsStay DEF IInv, blobVars
<1>4. CASE UNCHANGED vars
  BY <1>0, <1>2, <1>4, NoRunChanges DEF vars, blobVars
<1>5. ASSUME NEW q \in Slots, NEW req \in Requests[q], Receive(q, req) PROVE IInv'
  <2>1. RunsStep /\ CallsOK'
    BY <1>0, <1>5, ReceiveStep
  <2>2. UNCHANGED <<waitVars, written>>
    BY <1>5 DEF Receive, blobVars
  <2> QED BY <1>0, <1>1, <2>1, <2>2
<1>6. ASSUME NEW q \in Slots, CallFails(q) PROVE IInv'
  BY <1>0, <1>1, <1>6, CallFailsStep DEF CallFails, blobVars
<1>7. ASSUME NEW q \in Slots, HandlerStep(q) PROVE IInv'
  <2>1. CASE WriteInput(q)
    <3>1. RunsStep /\ CallsOK'
      BY <2>1, WriteInputStep
    <3>2. UNCHANGED waitVars /\ written' = written + 1
      BY <2>1 DEF WriteInput, WriteObject
    <3> QED BY <1>0, <1>1, <3>1, <3>2
  <2>2. CASE StartInterpreterWorkflow(q)
    BY <1>0, <1>1, <2>2, StartInterpreterWorkflowStep DEF StartInterpreterWorkflow, blobVars
  <2>3. CASE AlreadyStarted(q)
    BY <1>0, <1>1, <2>3, AlreadyStartedStep DEF AlreadyStarted, blobVars
  <2>4. CASE CompareRequestId(q)
    BY <1>0, <1>1, <2>4, CompareRequestIdStep DEF CompareRequestId, blobVars
  <2>5. CASE GetDescribe(q)
    BY <1>0, <1>1, <2>5, GetDescribeStep DEF GetDescribe, blobVars
  <2>6. CASE GetWorkflowResult(q)
    BY <1>0, <1>1, <2>6, GetWorkflowResultStep DEF GetWorkflowResult, blobVars
  <2>7. CASE ResultArrives(q)
    BY <1>0, <1>1, <2>7, ResultArrivesStep DEF ResultArrives, blobVars
  <2>8. CASE DescribeAgain(q)
    BY <1>0, <1>1, <2>8, DescribeAgainStep DEF DescribeAgain, blobVars
  <2>9. CASE DescribeFirst(q)
    BY <1>0, <1>1, <2>9, DescribeFirstStep DEF DescribeFirst, blobVars
  <2>10. CASE StartWaitForStateCompletionWorkflow(q)
    BY <1>0, <1>1, <2>10, StartWaitStep DEF StartWaitForStateCompletionWorkflow, blobVars
  <2>11. CASE WaitResult(q)
    BY <1>0, <1>1, <2>11, WaitResultStep, SMTT(30) DEF WaitResult, blobVars
  <2>12. CASE StopWorkflow(q)
    BY <1>0, <1>1, <2>12, StopStep DEF StopWorkflow, blobVars
  <2> QED BY <1>7, <2>1, <2>2, <2>3, <2>4, <2>5, <2>6, <2>7, <2>8, <2>9, <2>10, <2>11,
             <2>12 DEF HandlerStep
<1>8. ASSUME NEW r \in DOMAIN runs, InterpreterSteps(r), UNCHANGED <<blobVars, call>>
      PROVE  IInv'
  <2>0. written' \in Nat /\ UNCHANGED call
    BY <1>0, <1>8 DEF blobVars
  <2>1. ASSUME NEW s \in Abnormal \cup {"COMPLETED"}, Close(r, s), UNCHANGED waitVars
        PROVE  IInv'
    BY <1>0, <1>2, <2>0, <2>1, ClosedRun DEF Final
  <2>2. CASE ContinueAsNew(r) /\ UNCHANGED waitVars
    BY <1>0, <1>2, <2>0, <2>2, ContinuedRun
  <2>3. CASE Retention(r) /\ UNCHANGED waitVars
    BY <1>0, <1>2, <2>0, <2>3, ForgottenRun
  <2>4. CASE ExecuteSucceeds(r)
    BY <1>0, <1>3, <1>8, <2>4, ExecuteSucceedsStep
  <2>5. CASE WaitWorkflowCompletes(r) \/ WaitWorkflowTimesOut(r)
    BY <1>0, <1>2, <2>0, <2>5, WaitWorkflowEnds DEF WaitWorkflowCompletes, WaitWorkflowTimesOut
  <2> QED BY <1>8, <2>1, <2>2, <2>3, <2>4, <2>5 DEF InterpreterSteps
<1>9. ASSUME NEW r \in DOMAIN runs, ActivityWrites(r), UNCHANGED call PROVE IInv'
  <2>1. RunsStep
    BY <1>0, <1>9, WritingRun
  <2>2. UNCHANGED waitVars /\ written' = written + 1
    BY <1>9 DEF ActivityWrites, WriteObject
  <2> QED BY <1>0, <1>2, <1>9, <2>1, <2>2
<1>10. ASSUME NEW f \in executed, CompletionSteps(f), UNCHANGED <<blobVars, call>>
       PROVE  IInv'
  <2>1. CASE SendCompletion(f)
    BY <1>0, <1>3, <1>10, <2>1, SendCompletionStep
  <2>2. CASE RetryTask(f) \/ CommitTask(f)
    BY <1>0, <1>3, <1>10, <2>2, TaskStep
  <2> QED BY <1>10, <2>1, <2>2 DEF CompletionSteps
<1>11. CASE (NextDay \/ CleanupStep) /\ UNCHANGED <<waitVars, call>>
  <2>1. runs' = runs /\ written' = written
    BY <1>11 DEF NextDay, CleanupStep, BeginCleanup, ListWorkflowPaths, CheckPath, EndOfPage,
                 DeleteWorkflowObjects, ActivityFails, UnchangedByCleanup
  <2> QED BY <1>0, <1>2, <1>11, <2>1, NoRunChanges
<1> QED BY <1>4, <1>5, <1>6, <1>7, <1>8, <1>9, <1>10, <1>11 DEF Next

-----------------------------------------------------------------------------
(* The objects of the runs *)

\* Where the objects of a new run come from: none, those of the run it continues, or
\* those that its start has written.
Inherited(n) ==
  \/ runs'[n].objs = {}
  \/ \E r \in DOMAIN runs :
       /\ runs'[n].objs = runs[r].objs /\ runs'[n].first = runs[r].first
       /\ runs'[n].wf = runs[r].wf /\ runs[r].kept
  \/ \E q \in Slots :
       /\ runs'[n].objs = call[q].objs /\ runs'[n].wf = call[q].req.wf
       /\ call'[q].objs = {} /\ runs'[n].first = n

\* A step that writes and deletes nothing.
Hands ==
  /\ \A i \in DOMAIN runs : runs'[i].objs = runs[i].objs
  /\ \A n \in DOMAIN runs' : n \notin DOMAIN runs => Inherited(n)
  /\ \A q \in Slots :
       \/ call'[q].objs = {}
       \/ /\ call'[q].objs = call[q].objs /\ call'[q].req = call[q].req
          /\ call'[q].pc \in {"start", "describeStarted"}
  /\ UNCHANGED <<objects, written, raced>>

LEMMA HandsTypes ==
  ASSUME IInv, ObjectsTypeOK, RunsStep, Hands, DOMAIN cleanup' = DOMAIN cleanup,
         today' = today \/ today' = today + 1
  PROVE  ObjectsTypeOK'
<1>1. \A q \in Slots : call'[q].objs = {} \/ call'[q].objs = call[q].objs
  BY DEF Hands
<1>2. ASSUME NEW i \in DOMAIN runs' PROVE runs'[i].objs \subseteq 1..written
  <2>1. CASE i \in DOMAIN runs
    BY <2>1 DEF Hands, ObjectsTypeOK
  <2>2. CASE i \notin DOMAIN runs
    <3>1. Inherited(i)
      BY <1>2, <2>2 DEF Hands
    <3> QED BY <3>1 DEF Inherited, ObjectsTypeOK
  <2> QED BY <2>1, <2>2
<1>3. written' = written /\ objects' = objects
  BY DEF Hands
<1>4. \A q \in Slots : call'[q].objs # {} => call'[q].pc \in {"start", "describeStarted"}
  BY DEF Hands
<1>5. today' \in Nat /\ 0..today \subseteq 0..today'
  BY DEF ObjectsTypeOK
<1>6. \A o \in objects' : o.dir \in (0..today') \X WorkflowIds
  BY <1>3, <1>5 DEF ObjectsTypeOK
<1> QED BY <1>1, <1>2, <1>3, <1>4, <1>5, <1>6 DEF ObjectsTypeOK

LEMMA HandsOwners ==
  ASSUME IInv, OwnersOK, RunsStep, Hands
  PROVE  OwnersOK'
<1>0. /\ \A q \in Slots : call'[q].objs # {} =>
           call'[q].objs = call[q].objs /\ call'[q].req = call[q].req
      /\ objects' = objects /\ RunsTypeOK /\ ChainsOK
      /\ \A i \in DOMAIN runs : runs'[i].objs = runs[i].objs
      /\ \A i \in DOMAIN runs' : i \notin DOMAIN runs => Inherited(i)
  BY DEF Hands, IInv, RunsInv
<1>1. \A i \in DOMAIN runs : runs'[i].wf = runs[i].wf /\ runs'[i].first = runs[i].first
  BY <1>0, RunStays
<1>2. ASSUME NEW o \in objects, NEW i \in DOMAIN runs', o.id \in runs'[i].objs
      PROVE  o.dir[2] = runs'[i].wf
  <2>1. CASE i \in DOMAIN runs
    BY <1>0, <1>1, <1>2, <2>1 DEF OwnersOK
  <2>2. CASE i \notin DOMAIN runs
    <3>1. Inherited(i)
      BY <1>0, <2>2
    <3> QED BY <1>2, <3>1 DEF Inherited, OwnersOK
  <2> QED BY <2>1, <2>2
<1>3. ASSUME NEW o \in objects, NEW q \in Slots, o.id \in call'[q].objs
      PROVE  o.dir[2] = call'[q].req.wf
  BY <1>0, <1>3 DEF OwnersOK
<1>4. \A i, j \in DOMAIN runs' : i \notin DOMAIN runs /\ j \notin DOMAIN runs => i = j
  BY <1>0, StepDomains, Zenon
<1>5. ASSUME NEW i \in DOMAIN runs, NEW j \in DOMAIN runs', NEW x \in runs[i].objs,
             x \in runs'[j].objs
      PROVE  runs[i].first = runs'[j].first
  <2>1. CASE j \in DOMAIN runs
    BY <1>0, <1>1, <1>5, <2>1 DEF OwnersOK
  <2>2. CASE j \notin DOMAIN runs
    <3>1. Inherited(j)
      BY <1>0, <2>2
    <3> QED BY <1>5, <3>1 DEF Inherited, OwnersOK
  <2> QED BY <2>1, <2>2
<1>6. ASSUME NEW i \in DOMAIN runs', NEW j \in DOMAIN runs', NEW x \in runs'[i].objs,
             x \in runs'[j].objs
      PROVE  runs'[i].first = runs'[j].first
  <2>1. CASE i \in DOMAIN runs
    BY <1>0, <1>1, <1>5, <1>6, <2>1
  <2>2. CASE j \in DOMAIN runs
    BY <1>0, <1>1, <1>5, <1>6, <2>2
  <2>3. CASE i = j
    BY <2>3
  <2> QED BY <1>4, <2>1, <2>2, <2>3
<1>7. ASSUME NEW q \in Slots, NEW i \in DOMAIN runs', NEW x \in call'[q].objs
      PROVE  x \notin runs'[i].objs
  <2>0. x \in call[q].objs /\ call'[q].objs # {}
    BY <1>0, <1>7
  <2>1. CASE i \in DOMAIN runs
    BY <1>0, <2>0, <2>1 DEF OwnersOK
  <2>2. CASE i \notin DOMAIN runs
    <3>1. Inherited(i)
      BY <1>0, <2>2
    <3>2. CASE runs'[i].objs = {}
      BY <3>2
    <3>3. ASSUME NEW r \in DOMAIN runs, runs'[i].objs = runs[r].objs PROVE x \notin runs'[i].objs
      BY <2>0, <3>3 DEF OwnersOK
    <3>4. ASSUME NEW p \in Slots, runs'[i].objs = call[p].objs, call'[p].objs = {}
          PROVE  x \notin runs'[i].objs
      BY <2>0, <3>4 DEF OwnersOK
    <3> QED BY <3>1, <3>2, <3>3, <3>4 DEF Inherited
  <2> QED BY <2>1, <2>2
<1>8. \A p, q \in Slots : \A x \in call'[p].objs : p # q => x \notin call'[q].objs
  BY <1>0 DEF OwnersOK
<1> QED BY <1>0, <1>2, <1>3, <1>6, <1>7, <1>8 DEF OwnersOK

LEMMA HandsReferred ==
  ASSUME IInv, ReferredKept, RunsStep, Hands
  PROVE  ReferredKept'
<1>0. /\ \A q \in Slots : call'[q].objs # {} => call'[q].objs = call[q].objs
      /\ \A i \in DOMAIN runs : runs'[i].objs = runs[i].objs
      /\ \A i \in DOMAIN runs' : i \notin DOMAIN runs => Inherited(i)
      /\ ObjectIds' = ObjectIds /\ raced' = raced
  BY DEF Hands, ObjectIds
<1>1. ASSUME NEW i \in DOMAIN runs', runs'[i].kept
      PROVE  runs'[i].objs \subseteq ObjectIds \cup raced
  <2>1. CASE i \in DOMAIN runs
    BY <1>0, <1>1, <2>1 DEF ReferredKept, RetainedRunsKeepObjects, RunsStep, OldRun
  <2>2. CASE i \notin DOMAIN runs
    <3>1. Inherited(i)
      BY <1>0, <2>2
    <3> QED BY <3>1 DEF Inherited, ReferredKept, RetainedRunsKeepObjects
  <2> QED BY <2>1, <2>2
<1> QED BY <1>0, <1>1 DEF ReferredKept, RetainedRunsKeepObjects

\* While a directory is about to be deleted its workflow gets only runs of new
\* chains: a chain that goes on would be known.
LEMMA CleanupStays ==
  ASSUME IInv, CleanupOK, RunsStep, UNCHANGED cleanup
  PROVE  CleanupOK'
<1>0. RunsTypeOK /\ ChainsOK /\ RetentionOK /\ DOMAIN runs = 1..Len(runs) /\ Len(runs) \in Nat
  BY RunsAreRecords DEF IInv, RunsInv
<1> SUFFICES ASSUME cleanup.pc = "delete"
             PROVE  /\ cleanup.seen \in 0..Len(runs')
                    /\ \A i \in DOMAIN runs' :
                         runs'[i].kept /\ runs'[i].wf = Head(cleanup.page)[2] =>
                           runs'[i].first > cleanup.seen
  BY DEF CleanupOK
<1>1. /\ cleanup.seen \in 0..Len(runs)
      /\ \A i \in DOMAIN runs :
           runs[i].kept /\ runs[i].wf = Head(cleanup.page)[2] => runs[i].first > cleanup.seen
  BY DEF CleanupOK
<1>2. cleanup.seen \in 0..Len(runs')
  <2>1. \A m, n \in Nat : n = m \/ n = m + 1 => 0..m \subseteq 0..n
    OBVIOUS
  <2>2. (Len(runs') = Len(runs) \/ Len(runs') = Len(runs) + 1) /\ Len(runs') \in Nat
    BY <1>0, StepDomains, Zenon DEF RunsStep
  <2> QED BY <1>0, <1>1, <2>1, <2>2, Zenon
<1>3. ASSUME NEW i \in DOMAIN runs', runs'[i].kept, runs'[i].wf = Head(cleanup.page)[2]
      PROVE  runs'[i].first > cleanup.seen
  <2>1. CASE i \in DOMAIN runs
    BY <1>0, <1>1, <1>3, <2>1, RunStays DEF RunsStep, OldRun
  <2>2. CASE i \notin DOMAIN runs
    <3>1. i = Len(runs) + 1 /\ AddedRun(i)
      BY <1>0, <2>2, StepDomains, Zenon
    <3>2. CASE runs'[i].first = i
      BY <1>0, <1>1, <3>1, <3>2
    <3>3. CASE \E r \in DOMAIN runs :
                 /\ runs'[i].first = runs[r].first /\ runs'[i].wf = runs[r].wf
                 /\ runs[r].status = "RUNNING"
      BY <1>0, <1>1, <1>3, <3>3 DEF RetentionOK
    <3> QED BY <3>1, <3>2, <3>3 DEF AddedRun
  <2> QED BY <2>1, <2>2
<1> QED BY <1>2, <1>3

LEMMA HandsStep ==
  ASSUME IInv, ObjectsInv, RunsStep, Hands, UNCHANGED cleanup,
         today' = today \/ today' = today + 1
  PROVE  ObjectsInv'
BY HandsTypes, HandsOwners, HandsReferred, CleanupStays DEF ObjectsInv

\* The calls of the handlers keep the objects that the request has written, until the
\* start or the answer.
LEMMA HandlersHand ==
  ASSUME IInv, ObjectsInv, NEW q \in Slots,
         \/ \E req \in Requests[q] : Receive(q, req)
         \/ CallFails(q)
         \/ HandlerStep(q) /\ ~WriteInput(q)
  PROVE  \A p \in Slots :
           \/ call'[p].objs = {} /\ (p # q => call'[p] = call[p])
           \/ /\ call'[p].objs = call[p].objs /\ call'[p].req = call[p].req
              /\ call'[p].pc \in {"start", "describeStarted"}
<1>0. call \in [Slots -> CallRecords] /\ call[q] \in CallRecords
  BY DEF IInv, CallsOK
<1>1. \A p \in Slots : call[p].objs = {} \/ call[p].pc \in {"start", "describeStarted"}
  BY DEF ObjectsInv, ObjectsTypeOK
<1>2. ASSUME NEW rec, call' = [call EXCEPT ![q] = rec],
             \/ rec.objs = {}
             \/ /\ rec.objs = call[q].objs /\ rec.req = call[q].req
                /\ rec.pc = "describeStarted"
      PROVE  \A p \in Slots :
               \/ call'[p].objs = {} /\ (p # q => call'[p] = call[p])
               \/ /\ call'[p].objs = call[p].objs /\ call'[p].req = call[p].req
                  /\ call'[p].pc \in {"start", "describeStarted"}
  <2>1. call'[q] = rec /\ \A p \in Slots : p # q => call'[p] = call[p]
    BY <1>0, <1>2
  <2> QED BY <1>1, <1>2, <2>1
<1>3. ASSUME NEW a, Answer(q, a) PROVE \E rec : call' = [call EXCEPT ![q] = rec] /\ rec.objs = {}
  <2>1. [NoCall EXCEPT !.pc = "done", !.answer = a].objs = {}
    BY DEF NoCall
  <2> QED BY <1>3, <2>1 DEF Answer
<1>4. ASSUME NEW run, NEW s, AnswerRun(q, run, s)
      PROVE  \E rec : call' = [call EXCEPT ![q] = rec] /\ rec.objs = {}
  <2>1. [NoCall EXCEPT !.req = call[q].req, !.pc = "done", !.answer = "ok", !.run = run,
                       !.status = s].objs = {}
    BY DEF NoCall
  <2> QED BY <1>4, <2>1 DEF AnswerRun
<1>5. ASSUME NEW pc, NEW run, NEW t, call[q].pc \notin {"start", "describeStarted"},
             \/ call' = [call EXCEPT ![q].pc = pc]
             \/ call' = [call EXCEPT ![q].pc = pc, ![q].run = run]
             \/ call' = [call EXCEPT ![q].pc = pc, ![q].target = t]
      PROVE  \E rec : call' = [call EXCEPT ![q] = rec] /\ rec.objs = {}
  <2> DEFINE a == [call[q] EXCEPT !.pc = pc]
             b == [call[q] EXCEPT !.pc = pc, !.run = run]
             c == [call[q] EXCEPT !.pc = pc, !.target = t]
  <2>1. call[q].objs = {}
    BY <1>1, <1>5
  <2>2. a.objs = {} /\ b.objs = {} /\ c.objs = {}
    BY <1>0, <2>1 DEF CallRecords
  <2>3. call' = [call EXCEPT ![q] = a] \/ call' = [call EXCEPT ![q] = b]
        \/ call' = [call EXCEPT ![q] = c]
    BY <1>0, <1>5
  <2> HIDE DEF a, b, c
  <2> QED BY <2>2, <2>3
<1>6. ASSUME NEW req, Receive(q, req)
      PROVE  \E rec : call' = [call EXCEPT ![q] = rec] /\ rec.objs = {}
  <2> DEFINE rec == [NoCall EXCEPT !.req = req, !.pc = FirstPc(req)]
  <2>1. rec.objs = {}
    BY DEF NoCall
  <2>2. call' = [call EXCEPT ![q] = rec]
    BY <1>6, Zenon DEF Receive
  <2> HIDE DEF rec
  <2> QED BY <2>1, <2>2
<1>7. ASSUME AlreadyStarted(q)
      PROVE  \E rec : /\ call' = [call EXCEPT ![q] = rec]
                      /\ \/ rec.objs = {}
                         \/ /\ rec.objs = call[q].objs /\ rec.req = call[q].req
                            /\ rec.pc = "describeStarted"
  <2> DEFINE current == Current(call[q].req.wf)
             rec == [call[q] EXCEPT !.pc = "describeStarted", !.run = current]
  <2>1. CASE call' = [call EXCEPT ![q].pc = "describeStarted", ![q].run = current]
    <3>1. call' = [call EXCEPT ![q] = rec]
      BY <1>0, <2>1
    <3>2. rec.objs = call[q].objs /\ rec.req = call[q].req /\ rec.pc = "describeStarted"
      BY <1>0 DEF CallRecords
    <3> QED BY <3>1, <3>2
  <2>2. CASE Answer(q, "alreadyStarted") \/ AnswerRun(q, current, "RUNNING")
    <3>1. \E r : call' = [call EXCEPT ![q] = r] /\ r.objs = {}
      BY <1>3, <1>4, <2>2
    <3> QED BY <3>1
  <2> QED BY <1>7, <2>1, <2>2 DEF AlreadyStarted
<1>8. ASSUME HandlerStep(q), ~WriteInput(q), ~AlreadyStarted(q)
      PROVE  \E rec : call' = [call EXCEPT ![q] = rec] /\ rec.objs = {}
  <2>1. CASE StartInterpreterWorkflow(q)
    BY <1>3, <1>4, <2>1 DEF StartInterpreterWorkflow
  <2>2. CASE CompareRequestId(q)
    BY <1>3, <1>4, <2>2 DEF CompareRequestId
  <2>3. CASE GetDescribe(q)
    BY <1>3, <1>4, <1>5, <2>3 DEF GetDescribe, At
  <2>4. CASE GetWorkflowResult(q)
    BY <1>5, <2>4 DEF GetWorkflowResult, At
  <2>5. CASE ResultArrives(q)
    BY <1>3, <1>4, <1>5, <2>5 DEF ResultArrives, Go, At
  <2>6. CASE DescribeAgain(q)
    BY <1>3, <1>4, <2>6 DEF DescribeAgain
  <2>7. CASE DescribeFirst(q)
    BY <1>3, <1>5, <2>7 DEF DescribeFirst, At
  <2>8. CASE StartWaitForStateCompletionWorkflow(q)
    BY <1>5, <2>8 DEF StartWaitForStateCompletionWorkflow, At
  <2>9. CASE WaitResult(q)
    BY <1>3, <1>4, <2>9 DEF WaitResult
  <2>10. CASE StopWorkflow(q)
    BY <1>3, <2>10 DEF StopWorkflow
  <2> QED BY <1>8, <2>1, <2>2, <2>3, <2>4, <2>5, <2>6, <2>7, <2>8, <2>9, <2>10 DEF HandlerStep
<1>9. \E rec : /\ call' = [call EXCEPT ![q] = rec]
               /\ \/ rec.objs = {}
                  \/ /\ rec.objs = call[q].objs /\ rec.req = call[q].req
                     /\ rec.pc = "describeStarted"
  BY <1>3, <1>6, <1>7, <1>8 DEF CallFails
<1> QED BY <1>2, <1>9

\* Every step that writes and deletes nothing.
LEMMA ObjectsHanded ==
  ASSUME IInv, ObjectsInv, Next, UNCHANGED <<objects, written, raced>>
  PROVE  RunsStep /\ Hands
<1>0. /\ RunsInv /\ RunsTypeOK /\ ChainsOK /\ RetentionOK /\ SentOK /\ CallsOK
      /\ written \in Nat /\ DOMAIN runs = 1..Len(runs) /\ Len(runs) \in Nat
  BY RunsAreRecords DEF IInv, RunsInv
<1>1. \A i \in DOMAIN runs' : RunsStep /\ i \notin DOMAIN runs =>
        i = Len(runs) + 1 /\ i = Len(runs') /\ AddedRun(i)
  BY <1>0, StepDomains, Zenon
<1>2. ASSUME UNCHANGED call, RunsStep,
             \/ KeepsObjs
             \/ Grows({}, Len(runs) + 1)
             \/ \E r \in DOMAIN runs :
                  /\ Grows(runs[r].objs, runs[r].first) /\ runs[r].status = "RUNNING"
                  /\ runs'[Len(runs) + 1].wf = runs[r].wf
      PROVE  Hands
  <2>1. \A i \in DOMAIN runs : runs'[i].objs = runs[i].objs
    BY <1>2 DEF KeepsObjs, Grows
  <2>2. ASSUME NEW i \in DOMAIN runs', i \notin DOMAIN runs PROVE Inherited(i)
    <3>1. i = Len(runs) + 1 /\ Len(runs') # Len(runs)
      <4>1. i = Len(runs) + 1 /\ i = Len(runs')
        BY <1>1, <1>2, <2>2
      <4>2. \A n \in Nat : n + 1 # n
        OBVIOUS
      <4> QED BY <1>0, <4>1, <4>2, Zenon
    <3>2. \A r \in DOMAIN runs : runs[r].status = "RUNNING" => runs[r].kept
      BY <1>0 DEF RetentionOK
    <3> QED BY <1>2, <3>1, <3>2, Zenon DEF KeepsObjs, Grows, Inherited
  <2>3. \A q \in Slots :
          \/ call'[q].objs = {}
          \/ /\ call'[q].objs = call[q].objs /\ call'[q].req = call[q].req
             /\ call'[q].pc \in {"start", "describeStarted"}
    BY <1>2 DEF ObjectsInv, ObjectsTypeOK
  <2> QED BY <2>1, <2>2, <2>3 DEF Hands
<1>3. ASSUME NEW q \in Slots, RunsStep,
             \/ \E req \in Requests[q] : Receive(q, req)
             \/ CallFails(q)
             \/ HandlerStep(q) /\ ~WriteInput(q),
             \/ KeepsObjs
             \/ Grows({}, Len(runs) + 1)
             \/ /\ Grows(call[q].objs, Len(runs) + 1) /\ call'[q].objs = {}
                /\ runs'[Len(runs) + 1].wf = call[q].req.wf
      PROVE  Hands
  <2>1. \A i \in DOMAIN runs : runs'[i].objs = runs[i].objs
    BY <1>3 DEF KeepsObjs, Grows
  <2>2. ASSUME NEW i \in DOMAIN runs', i \notin DOMAIN runs PROVE Inherited(i)
    <3>1. i = Len(runs) + 1 /\ Len(runs') # Len(runs)
      <4>1. i = Len(runs) + 1 /\ i = Len(runs')
        BY <1>1, <1>3, <2>2
      <4>2. \A n \in Nat : n + 1 # n
        OBVIOUS
      <4> QED BY <1>0, <4>1, <4>2, Zenon
    <3>2. \/ runs'[i].objs = {}
          \/ /\ runs'[i].objs = call[q].objs /\ runs'[i].wf = call[q].req.wf
             /\ call'[q].objs = {} /\ runs'[i].first = i
      BY <1>3, <3>1, Zenon DEF KeepsObjs, Grows
    <3> QED BY <3>2 DEF Inherited
  <2>3. \A p \in Slots :
          \/ call'[p].objs = {}
          \/ /\ call'[p].objs = call[p].objs /\ call'[p].req = call[p].req
             /\ call'[p].pc \in {"start", "describeStarted"}
    BY <1>3, HandlersHand, Zenon
  <2> QED BY <2>1, <2>2, <2>3 DEF Hands
<1>5. \A wf : ~WriteObject(wf)
  BY <1>0 DEF WriteObject
<1>6. ASSUME NEW q \in Slots, NEW req \in Requests[q], Receive(q, req) PROVE RunsStep /\ Hands
  <2>1. runs' = runs
    BY <1>6 DEF Receive
  <2> QED BY <1>0, <1>3, <1>6, <2>1, NoRunChanges, Zenon
<1>7. ASSUME NEW q \in Slots, CallFails(q) PROVE RunsStep /\ Hands
  <2>1. runs' = runs
    BY <1>7 DEF CallFails
  <2> QED BY <1>0, <1>3, <1>7, <2>1, NoRunChanges
<1>8. ASSUME NEW q \in Slots, HandlerStep(q) PROVE RunsStep /\ Hands
  <2>0. ~WriteInput(q)
    BY <1>5 DEF WriteInput
  <2>1. CASE StartInterpreterWorkflow(q)
    <3>1. /\ RunsStep /\ Grows(call[q].objs, Len(runs) + 1)
          /\ runs'[Len(runs) + 1].wf = call[q].req.wf
      BY <2>1, StartInterpreterWorkflowStep
    <3>2. call'[q].objs = {}
      <4>1. call'[q].pc = "done"
        BY <1>0, <2>1 DEF StartInterpreterWorkflow, AnswerRun, Answer, CallsOK, NoCall
      <4> QED BY <1>8, <2>0, <4>1, HandlersHand
    <3> QED BY <1>3, <1>8, <2>0, <3>1, <3>2
  <2>2. CASE StartWaitForStateCompletionWorkflow(q)
    BY <1>3, <1>8, <2>0, <2>2, StartWaitStep
  <2>3. CASE StopWorkflow(q)
    BY <1>3, <1>8, <2>0, <2>3, StopStep
  <2>4. CASE runs' = runs
    BY <1>0, <1>3, <1>8, <2>0, <2>4, NoRunChanges
  <2>5. \/ StartInterpreterWorkflow(q) \/ StartWaitForStateCompletionWorkflow(q)
        \/ StopWorkflow(q) \/ runs' = runs
    BY <1>8, <2>0 DEF HandlerStep, AlreadyStarted, CompareRequestId, GetDescribe,
       GetWorkflowResult, ResultArrives, DescribeAgain, DescribeFirst, WaitResult
  <2> QED BY <2>1, <2>2, <2>3, <2>4, <2>5
<1>9. ASSUME NEW r \in DOMAIN runs, InterpreterSteps(r), UNCHANGED call
      PROVE  RunsStep /\ Hands
  <2>1. ASSUME NEW s \in Abnormal \cup {"COMPLETED"}, Close(r, s) PROVE RunsStep /\ Hands
    BY <1>0, <1>2, <1>9, <2>1, ClosedRun DEF Final
  <2>2. CASE ContinueAsNew(r)
    BY <1>0, <1>2, <1>9, <2>2, ContinuedRun
  <2>3. CASE Retention(r)
    BY <1>0, <1>2, <1>9, <2>3, ForgottenRun
  <2>4. CASE ExecuteSucceeds(r)
    BY <1>0, <1>2, <1>9, <2>4, ExecuteSucceedsStep
  <2>5. CASE WaitWorkflowCompletes(r) \/ WaitWorkflowTimesOut(r)
    BY <1>0, <1>2, <1>9, <2>5, WaitWorkflowEnds
  <2> QED BY <1>9, <2>1, <2>2, <2>3, <2>4, <2>5 DEF InterpreterSteps
<1>10. \A r \in DOMAIN runs : ~ActivityWrites(r)
  BY <1>5 DEF ActivityWrites
<1>11. ASSUME NEW f \in executed, CompletionSteps(f), UNCHANGED call PROVE RunsStep /\ Hands
  <2>1. CASE SendCompletion(f)
    BY <1>0, <1>2, <1>11, <2>1, SendCompletionStep
  <2>2. CASE RetryTask(f) \/ CommitTask(f)
    BY <1>0, <1>2, <1>11, <2>2, TaskStep
  <2> QED BY <1>11, <2>1, <2>2 DEF CompletionSteps
<1>12. ASSUME NextDay \/ CleanupStep, UNCHANGED call PROVE RunsStep /\ Hands
  <2>1. runs' = runs
    BY <1>12 DEF NextDay, CleanupStep, BeginCleanup, ListWorkflowPaths, CheckPath, EndOfPage,
                 DeleteWorkflowObjects, ActivityFails, UnchangedByCleanup
  <2> QED BY <1>0, <1>2, <1>12, <2>1, NoRunChanges
<1> QED BY <1>6, <1>7, <1>8, <1>9, <1>10, <1>11, <1>12 DEF Next

\* A new object belongs to the request or to the run that has written it.
LEMMA ObjectWritten ==
  ASSUME IInv, ObjectsInv, RunsStep, Len(runs') = Len(runs), NEW wf \in WorkflowIds, WriteObject(wf),
         \/ /\ \A i \in DOMAIN runs : runs'[i].objs = runs[i].objs
            /\ \E q \in Slots :
                 /\ call'[q].objs = {written'} /\ call'[q].req.wf = wf
                 /\ call'[q].pc = "start"
                 /\ \A p \in Slots : p # q => call'[p] = call[p]
         \/ /\ UNCHANGED call
            /\ \E r \in DOMAIN runs :
                 /\ runs'[r].objs = runs[r].objs \cup {written'} /\ runs[r].wf = wf
                 /\ \A i \in DOMAIN runs : i # r => runs'[i].objs = runs[i].objs
  PROVE  ObjectsInv'
<1>0. /\ RunsTypeOK /\ DOMAIN runs' = DOMAIN runs /\ written \in Nat
  <2>1. RunsTypeOK /\ written \in Nat
    BY DEF IInv, RunsInv
  <2>2. DOMAIN runs = 1..Len(runs) /\ DOMAIN runs' = 1..Len(runs')
    BY <2>1, StepDomains, Zenon
  <2> QED BY <2>1, <2>2, Zenon
<1>1. PICK x \in Nat : x = written' /\ x = written + 1
  BY <1>0 DEF WriteObject
<1>2. PICK o : /\ o.id = x /\ o.dir[2] = wf /\ o.dir \in (0..today) \X WorkflowIds
               /\ objects' = objects \cup {o}
  <2> DEFINE o == [id |-> x, dir |-> <<today, wf>>]
  <2>1. o.id = x /\ o.dir[2] = wf /\ o.dir \in (0..today) \X WorkflowIds
    BY DEF ObjectsInv, ObjectsTypeOK
  <2>2. objects' = objects \cup {o}
    BY <1>1 DEF WriteObject
  <2> QED BY <2>1, <2>2
<1>3. /\ \A i \in DOMAIN runs : runs[i].objs \subseteq 1..written /\ x \notin runs[i].objs
      /\ \A q \in Slots : call[q].objs \subseteq 1..written /\ x \notin call[q].objs
      /\ \A p \in objects : p.id \in 1..written /\ p.id # x
  <2>1. \A n \in Nat : n + 1 \notin 1..n
    OBVIOUS
  <2> QED BY <1>0, <1>1, <2>1 DEF ObjectsInv, ObjectsTypeOK
<1>4. 1..written \subseteq 1..x /\ x \in 1..x
  BY <1>0, <1>1, SMTT(30)
<1>5. \A i \in DOMAIN runs : runs'[i].wf = runs[i].wf /\ runs'[i].first = runs[i].first
        /\ (runs'[i].kept => runs[i].kept)
  BY <1>0, RunStays, ZenonT(60) DEF RunsStep, OldRun
<1>6. UNCHANGED <<cleanup, raced, today>> /\ written' = x /\ ObjectIds' = ObjectIds \cup {x}
  BY <1>1, <1>2 DEF WriteObject, ObjectIds
<1>7. CleanupOK'
  BY <1>6, CleanupStays DEF ObjectsInv
<1>8. CASE /\ \A i \in DOMAIN runs : runs'[i].objs = runs[i].objs
           /\ \E q \in Slots :
                /\ call'[q].objs = {written'} /\ call'[q].req.wf = wf
                /\ call'[q].pc = "start"
                /\ \A p \in Slots : p # q => call'[p] = call[p]
  <2>1. PICK q \in Slots :
                /\ call'[q].objs = {x} /\ call'[q].req.wf = wf
                /\ call'[q].pc = "start"
                /\ \A p \in Slots : p # q => call'[p] = call[p]
    BY <1>1, <1>8
  <2>2. ObjectsTypeOK'
    BY <1>0, <1>2, <1>3, <1>4, <1>6, <1>8, <2>1, SMTT(30) DEF ObjectsInv, ObjectsTypeOK
  <2>3. OwnersOK'
    <3>1. \A p \in objects', i \in DOMAIN runs' : p.id \in runs'[i].objs => p.dir[2] = runs'[i].wf
      BY <1>0, <1>2, <1>3, <1>5, <1>8 DEF ObjectsInv, OwnersOK
    <3>2. \A p \in objects', k \in Slots : p.id \in call'[k].objs => p.dir[2] = call'[k].req.wf
      BY <1>2, <1>3, <2>1 DEF ObjectsInv, OwnersOK
    <3>3. \A i, j \in DOMAIN runs' : \A y \in runs'[i].objs :
            y \in runs'[j].objs => runs'[i].first = runs'[j].first
      BY <1>0, <1>5, <1>8 DEF ObjectsInv, OwnersOK
    <3>4. \A k \in Slots, i \in DOMAIN runs' : \A y \in call'[k].objs : y \notin runs'[i].objs
      BY <1>0, <1>3, <1>8, <2>1 DEF ObjectsInv, OwnersOK
    <3>5. \A p, k \in Slots : \A y \in call'[p].objs : p # k => y \notin call'[k].objs
      BY <1>3, <2>1 DEF ObjectsInv, OwnersOK
    <3> QED BY <3>1, <3>2, <3>3, <3>4, <3>5 DEF OwnersOK
  <2>4. ReferredKept'
    BY <1>0, <1>5, <1>6, <1>8, <2>1 DEF ObjectsInv, ReferredKept, RetainedRunsKeepObjects
  <2> QED BY <1>7, <2>2, <2>3, <2>4 DEF ObjectsInv
<1>9. CASE /\ UNCHANGED call
           /\ \E r \in DOMAIN runs :
                /\ runs'[r].objs = runs[r].objs \cup {written'} /\ runs[r].wf = wf
                /\ \A i \in DOMAIN runs : i # r => runs'[i].objs = runs[i].objs
  <2>1. PICK r \in DOMAIN runs :
                /\ runs'[r].objs = runs[r].objs \cup {x} /\ runs[r].wf = wf
                /\ \A i \in DOMAIN runs : i # r => runs'[i].objs = runs[i].objs
    BY <1>1, <1>9
  <2>2. ObjectsTypeOK'
    BY <1>0, <1>2, <1>3, <1>4, <1>6, <1>9, <2>1 DEF ObjectsInv, ObjectsTypeOK
  <2>3. OwnersOK'
    <3>1. \A p \in objects', i \in DOMAIN runs' : p.id \in runs'[i].objs => p.dir[2] = runs'[i].wf
      BY <1>0, <1>2, <1>3, <1>5, <2>1 DEF ObjectsInv, OwnersOK
    <3>2. \A p \in objects', k \in Slots : p.id \in call'[k].objs => p.dir[2] = call'[k].req.wf
      BY <1>2, <1>3, <1>9 DEF ObjectsInv, OwnersOK
    <3>3. \A i, j \in DOMAIN runs' : \A y \in runs'[i].objs :
            y \in runs'[j].objs => runs'[i].first = runs'[j].first
      BY <1>0, <1>3, <1>5, <2>1 DEF ObjectsInv, OwnersOK
    <3>4. \A k \in Slots, i \in DOMAIN runs' : \A y \in call'[k].objs : y \notin runs'[i].objs
      BY <1>0, <1>3, <1>9, <2>1 DEF ObjectsInv, OwnersOK
    <3>5. \A p, k \in Slots : \A y \in call'[p].objs : p # k => y \notin call'[k].objs
      BY <1>9 DEF ObjectsInv, OwnersOK
    <3> QED BY <3>1, <3>2, <3>3, <3>4, <3>5 DEF OwnersOK
  <2>4. ReferredKept'
    BY <1>0, <1>5, <1>6, <1>9, <2>1 DEF ObjectsInv, ReferredKept, RetainedRunsKeepObjects
  <2> QED BY <1>7, <2>2, <2>3, <2>4 DEF ObjectsInv
<1> QED BY <1>8, <1>9

\* What is deleted belongs to no run that is known, or to one that was started after
\* the workflow was looked up.
LEMMA ObjectsDeleted ==
  ASSUME IInv, ObjectsInv, DeleteWorkflowObjects, UNCHANGED call
  PROVE  ObjectsInv'
<1>0. /\ RunsTypeOK /\ ChainsOK /\ runs' = runs /\ written' = written /\ today' = today
      /\ cleanup.pc = "delete"
      /\ DOMAIN runs = 1..Len(runs) /\ Len(runs) \in Nat
  BY RunsAreRecords DEF IInv, RunsInv, DeleteWorkflowObjects, UnchangedByCleanup
<1> DEFINE dir == Head(cleanup.page)
           seen == cleanup.seen
<1>1. PICK gone : /\ gone \subseteq {o \in objects : o.dir = dir}
                  /\ objects' = objects \ gone
                  /\ raced' = raced \cup
                       ({o.id : o \in gone} \ UNION {runs[i].objs : i \in 1..seen})
                  /\ \/ cleanup' = [cleanup EXCEPT !.pc = "page", !.page = Tail(@)]
                     \/ cleanup' = [cleanup EXCEPT !.pc = "failed"]
  BY DEF DeleteWorkflowObjects
<1>2. /\ seen \in 0..Len(runs)
      /\ \A i \in DOMAIN runs : runs[i].kept /\ runs[i].wf = dir[2] => runs[i].first > seen
  BY <1>0 DEF ObjectsInv, CleanupOK
<1>3. DOMAIN cleanup' = DOMAIN cleanup /\ cleanup'.pc # "delete"
  BY <1>1 DEF ObjectsInv, ObjectsTypeOK
<1>4. ObjectsTypeOK'
  BY <1>0, <1>1, <1>3 DEF ObjectsInv, ObjectsTypeOK
<1>5. OwnersOK'
  BY <1>0, <1>1 DEF ObjectsInv, OwnersOK
<1>6. CleanupOK'
  BY <1>3 DEF CleanupOK
<1> HIDE DEF dir, seen
<1>7. ASSUME NEW x \in ObjectIds \cup raced, x \notin (ObjectIds \cup raced)'
      PROVE  \E o \in gone : o.id = x /\ \E i \in 1..seen : x \in runs[i].objs
  <2>1. x \notin raced /\ x \in ObjectIds
    BY <1>1, <1>7
  <2>2. PICK o \in objects : o.id = x
    BY <2>1 DEF ObjectIds
  <2>3. o \in gone
    BY <1>1, <1>7, <2>2 DEF ObjectIds
  <2>4. x \in UNION {runs[i].objs : i \in 1..seen}
    BY <1>1, <1>7, <2>2, <2>3
  <2> QED BY <2>2, <2>3, <2>4
<1>8. ASSUME NEW j \in DOMAIN runs, runs[j].kept, NEW x \in runs[j].objs
      PROVE  x \in (ObjectIds \cup raced)'
  <2>1. x \in ObjectIds \cup raced
    BY <1>8 DEF ObjectsInv, ReferredKept, RetainedRunsKeepObjects
  <2>2. ASSUME NEW o \in gone, o.id = x, NEW i \in 1..seen, x \in runs[i].objs PROVE FALSE
    <3>1. runs[j].wf = dir[2]
      BY <1>1, <1>8, <2>2 DEF ObjectsInv, OwnersOK
    <3>2. i \in DOMAIN runs /\ i <= seen
      BY <1>0, <1>2
    <3>3. runs[i].first = runs[j].first /\ runs[i].first \in 1..i
      BY <1>0, <1>8, <2>2, <3>2 DEF ObjectsInv, OwnersOK, ChainsOK
    <3>4. runs[j].first > seen
      BY <1>2, <1>8, <3>1
    <3> QED BY <1>0, <1>2, <3>2, <3>3, <3>4
  <2> QED BY <1>7, <2>1, <2>2
<1>9. ASSUME NEW q \in Slots, NEW x \in call[q].objs PROVE x \in (ObjectIds \cup raced)'
  <2>1. x \in ObjectIds \cup raced
    BY DEF ObjectsInv, ReferredKept
  <2>2. \A i \in 1..seen : i \in DOMAIN runs
    BY <1>0, <1>2
  <2>3. ~ \E i \in 1..seen : x \in runs[i].objs
    BY <1>9, <2>2 DEF ObjectsInv, OwnersOK
  <2> QED BY <1>7, <2>1, <2>3
<1>10. ReferredKept'
  BY <1>0, <1>8, <1>9 DEF ReferredKept, RetainedRunsKeepObjects
<1> QED BY <1>4, <1>5, <1>6, <1>10 DEF ObjectsInv

\* The other steps of the cleanup.
LEMMA CleanupMoves ==
  ASSUME IInv, ObjectsInv,
         BeginCleanup \/ ListWorkflowPaths \/ CheckPath \/ EndOfPage \/ ActivityFails
  PROVE  CleanupOK' /\ DOMAIN cleanup' = DOMAIN cleanup
<1>0. /\ DOMAIN cleanup = {"pc", "stop", "token", "page", "seen"} /\ RunsTypeOK
      /\ Len(runs) \in Nat /\ DOMAIN runs = 1..Len(runs)
  BY RunsAreRecords DEF ObjectsInv, ObjectsTypeOK, IInv, RunsInv
<1>1. CASE BeginCleanup
  BY <1>0, <1>1 DEF BeginCleanup, CleanupOK
<1>2. CASE ListWorkflowPaths
  <2>1. PICK page, token :
          cleanup' = [cleanup EXCEPT !.pc = "page", !.page = page, !.token = token]
    BY <1>2, Zenon DEF ListWorkflowPaths
  <2> QED BY <1>0, <2>1 DEF CleanupOK
<1>3. CASE EndOfPage
  BY <1>0, <1>3 DEF EndOfPage, CleanupOK
<1>4. CASE ActivityFails
  BY <1>0, <1>4 DEF ActivityFails, CleanupOK
<1>5. CASE CheckPath
  <2> DEFINE dir == Head(cleanup.page)
  <2>1. CASE MayDelete(dir[2]) /\ cleanup' = [cleanup EXCEPT !.pc = "delete", !.seen = Len(runs)]
    <3>1. cleanup'.page = cleanup.page /\ cleanup'.seen = Len(runs) /\ runs' = runs
      BY <1>0, <1>5, <2>1 DEF CheckPath, UnchangedByCleanup
    <3>2. \A i \in DOMAIN runs : runs[i].wf = dir[2] => ~runs[i].kept
      BY <1>0, <2>1, CurrentIsLatest DEF MayDelete, RunsOf
    <3>3. cleanup'.seen \in 0..Len(runs')
      BY <1>0, <3>1
    <3>4. CleanupOK'
      BY <3>1, <3>2, <3>3 DEF CleanupOK
    <3> QED BY <1>0, <2>1, <3>4
  <2>2. CASE cleanup' = [cleanup EXCEPT !.page = << >>] \/ cleanup' = [cleanup EXCEPT !.page = Tail(@)]
    BY <1>0, <1>5, <2>2 DEF CheckPath, CleanupOK
  <2> QED BY <1>5, <2>1, <2>2 DEF CheckPath
<1> QED BY <1>1, <1>2, <1>3, <1>4, <1>5

LEMMA ObjectsInvInit == Init => ObjectsInv
<1> SUFFICES ASSUME Init PROVE ObjectsInv
  OBVIOUS
<1>1. /\ objects = {} /\ written = 0 /\ today = 0 /\ cleanup.pc = "idle"
      /\ DOMAIN cleanup = {"pc", "stop", "token", "page", "seen"}
  BY DEF Init, BlobInit
<1>2. \A i \in DOMAIN runs : runs[i].objs = {}
  BY DEF Init
<1>3. \A q \in Slots : call[q].objs = {}
  BY DEF Init, NoCall
<1>4. ObjectsTypeOK
  BY <1>1, <1>2, <1>3 DEF ObjectsTypeOK
<1> QED BY <1>1, <1>2, <1>3, <1>4
        DEF ObjectsInv, OwnersOK, CleanupOK, ReferredKept, RetainedRunsKeepObjects

LEMMA ObjectsInvNext == IInv /\ ObjectsInv /\ [Next]_vars => ObjectsInv'
<1> SUFFICES ASSUME IInv, ObjectsInv, [Next]_vars PROVE ObjectsInv'
  OBVIOUS
<1>0. RunsTypeOK /\ CallsOK /\ written \in Nat
  BY DEF IInv, RunsInv
<1>1. CASE UNCHANGED vars
  <2>1. UNCHANGED <<runs, today, objects, written, cleanup, raced, call>>
    BY <1>1 DEF vars, blobVars
  <2> QED BY <2>1 DEF ObjectsInv, ObjectsTypeOK, OwnersOK, CleanupOK, ReferredKept,
             RetainedRunsKeepObjects, ObjectIds
<1>2. ASSUME Next, UNCHANGED <<today, objects, written, raced>>, CleanupOK',
             DOMAIN cleanup' = DOMAIN cleanup
      PROVE  ObjectsInv'
  BY <1>2, ObjectsHanded, HandsTypes, HandsOwners, HandsReferred DEF ObjectsInv
<1>3. ASSUME Next, UNCHANGED <<objects, written, raced, cleanup>>,
             today' = today \/ today' = today + 1
      PROVE  ObjectsInv'
  BY <1>3, ObjectsHanded, HandsStep
<1>4. ASSUME NEW q \in Slots, NEW req \in Requests[q], Receive(q, req), Next PROVE ObjectsInv'
  <2>1. UNCHANGED <<today, objects, written, raced, cleanup>>
    BY <1>4 DEF Receive, blobVars
  <2> QED BY <1>3, <1>4, <2>1
<1>5. ASSUME NEW q \in Slots, CallFails(q), Next PROVE ObjectsInv'
  <2>1. UNCHANGED <<today, objects, written, raced, cleanup>>
    BY <1>5 DEF CallFails, blobVars
  <2> QED BY <1>3, <1>5, <2>1
<1>6. ASSUME NEW q \in Slots, WriteInput(q) PROVE ObjectsInv'
  <2>1. call[q] \in CallRecords /\ WriteObject(call[q].req.wf) /\ runs' = runs
    BY <1>0, <1>6 DEF WriteInput, CallsOK
  <2>2. /\ call'[q].objs = {written'} /\ call'[q].req.wf = call[q].req.wf
        /\ call'[q].pc = "start"
        /\ \A p \in Slots : p # q => call'[p] = call[p]
    BY <1>0, <1>6, <2>1 DEF WriteInput, CallsOK, CallRecords
  <2>3. RunsStep
    BY <1>0, <2>1, NoRunChanges
  <2>4. call[q].req.wf \in WorkflowIds
    BY <1>0, <1>6, ServedRequest DEF WriteInput, At, CallsOK, SlotOK
  <2> QED BY <2>1, <2>2, <2>3, <2>4, ObjectWritten
<1>7. ASSUME NEW q \in Slots, HandlerStep(q), ~WriteInput(q), Next PROVE ObjectsInv'
  <2>1. UNCHANGED blobVars
    BY <1>7, ZenonT(60) DEF HandlerStep, StartInterpreterWorkflow, AlreadyStarted, CompareRequestId,
       GetDescribe, GetWorkflowResult, ResultArrives, DescribeAgain, DescribeFirst,
       StartWaitForStateCompletionWorkflow, WaitResult, StopWorkflow
  <2>2. UNCHANGED <<today, objects, written, raced, cleanup>>
    BY <2>1 DEF blobVars
  <2> QED BY <1>3, <1>7, <2>2, SMTT(30)
<1>8. ASSUME UNCHANGED <<blobVars, call>>, Next PROVE ObjectsInv'
  BY <1>3, <1>8 DEF blobVars
<1>9. ASSUME NEW r \in DOMAIN runs, ActivityWrites(r), UNCHANGED call PROVE ObjectsInv'
  <2>1. WriteObject(runs[r].wf) /\ runs[r].wf \in WorkflowIds
    BY <1>9 DEF ActivityWrites, InterpreterRun
  <2>2. /\ RunsStep /\ Len(runs') = Len(runs)
        /\ runs'[r].objs = runs[r].objs \cup {written'}
        /\ \A i \in DOMAIN runs : i # r => runs'[i].objs = runs[i].objs
    BY <1>0, <1>9, WritingRun
  <2> QED BY <1>9, <2>1, <2>2, ObjectWritten
<1>10. ASSUME NextDay, Next PROVE ObjectsInv'
  <2>1. UNCHANGED <<objects, written, raced, cleanup>> /\ today' = today + 1
    BY <1>10 DEF NextDay
  <2> QED BY <1>3, <1>10, <2>1
<1>11. ASSUME CleanupStep, UNCHANGED call, Next PROVE ObjectsInv'
  <2>1. CASE DeleteWorkflowObjects
    BY <1>11, <2>1, ObjectsDeleted
  <2>2. CASE BeginCleanup \/ ListWorkflowPaths \/ CheckPath \/ EndOfPage \/ ActivityFails
    <3>1. UNCHANGED <<today, objects, written, raced>>
      BY <2>2 DEF BeginCleanup, ListWorkflowPaths, CheckPath, EndOfPage, ActivityFails,
                  UnchangedByCleanup
    <3> QED BY <1>2, <1>11, <2>2, <3>1, CleanupMoves
  <2> QED BY <1>11, <2>1, <2>2 DEF CleanupStep
<1> QED BY <1>1, <1>4, <1>5, <1>6, <1>7, <1>8, <1>9, <1>10, <1>11 DEF Next

-----------------------------------------------------------------------------
(* The theorems *)

LEMMA ServiceInvariants == Spec => [](IInv /\ ObjectsInv)
<1>1. Init => IInv /\ ObjectsInv
  BY IInvInit, ObjectsInvInit
<1>2. IInv /\ ObjectsInv /\ [Next]_vars => IInv' /\ ObjectsInv'
  BY IInvNext, ObjectsInvNext
<1> QED BY <1>1, <1>2, PTL DEF Spec

\* Type correctness of the engine's runs, the blob store and the answers.
THEOREM TypeCorrect == Spec => []TypeOK
<1>1. IInv /\ ObjectsInv => TypeOK
  <2> SUFFICES ASSUME IInv, ObjectsInv PROVE TypeOK
    OBVIOUS
  <2>1. ASSUME NEW i \in DOMAIN runs
        PROVE  /\ runs[i].status \in Statuses /\ runs[i].first \in 1..i
               /\ runs[i].objs \subseteq 1..written
    <3>1. runs[i] \in RunRecords /\ runs[i].first \in 1..i
      BY RunsAreRecords DEF IInv, RunsInv, ChainsOK
    <3> QED BY <3>1 DEF RunRecords, ObjectsInv, ObjectsTypeOK
  <2>2. executed \subseteq DOMAIN runs /\ committed \subseteq executed
    BY DEF IInv, SentOK
  <2>3. \A o \in objects : o.id \in 1..written /\ o.dir \in (0..today) \X WorkflowIds
    BY DEF ObjectsInv, ObjectsTypeOK
  <2>4. \A q \in Answered("start") \cup Answered("get") :
          call[q].run \in DOMAIN runs /\ call[q].status \in Statuses
    BY DEF Answered, At, IInv, CallsOK, SlotOK, StartOK, GetOK, Ok
  <2> QED BY <2>1, <2>2, <2>3, <2>4 DEF TypeOK
<1> QED BY <1>1, ServiceInvariants, PTL

\* A start with a request id is answered only with a run that was started for this
\* id: ApiV1WorkflowStartPost compares the ids after the engine has refused, and the
\* run it compares is the one that the refusal named, whatever has started since.
THEOREM StartsAnsweredByTheirOwnRun == Spec => []StartAnsweredByItsOwnRun
<1>1. IInv => StartAnsweredByItsOwnRun
  BY DEF StartAnsweredByItsOwnRun, Answered, At, IInv, CallsOK, SlotOK, StartOK, Ok
<1> QED BY <1>1, ServiceInvariants, PTL

\* A get that waits, or asks for results, is answered with the status in which a chain
\* has ended: that of the described run or, without a run id, a later one, although
\* doApiV1WorkflowGetPost finds its run anew with every call.
THEOREM GetsAnsweredWithFinalStatus == Spec => []GetAnswerIsFinal
<1>1. IInv => GetAnswerIsFinal
  <2> SUFFICES ASSUME IInv, NEW q \in Answered("get"),
                      \/ call[q].req.withWait
                      \/ call[q].req.needsResults /\ call[q].status # "RUNNING"
               PROVE  \E i \in {i \in RunsOf(call[q].req.wf) :
                                  \/ End(i) = End(call[q].run)
                                  \/ call[q].req.run = 0 /\ i > call[q].run} :
                        runs[End(i)].status = call[q].status /\ call[q].status # "RUNNING"
    BY DEF GetAnswerIsFinal
  <2>1. GetOK(q) /\ Ok(q, "get")
    BY DEF IInv, CallsOK, SlotOK, Answered, At, Ok
  <2>2. PICK i \in DOMAIN runs : Ended(q, i) /\ call[q].status \in Final
    BY <2>1 DEF GetOK, Promises
  <2>3. call[q].status # "RUNNING"
    BY <2>2 DEF Final, Abnormal
  <2> QED BY <2>2, <2>3 DEF Ended
<1> QED BY <1>1, ServiceInvariants, PTL

\* A client that is told that a state has completed asked about a chain in which the
\* state has been executed: the wait workflow that ApiV1WorkflowWaitForStateCompletion
\* found completed was signalled by this chain.  Under the ids made of the workflow
\* id, the only ones on Cadence, it was signalled by some chain of the workflow.
THEOREM WaitsAnsweredTruly == Spec => []WaitAnswerIsTrue
<1>1. IInv => WaitAnswerIsTrue
  BY DEF WaitAnswerIsTrue, Answered, At, IInv, CallsOK, SlotOK, WaitOK, Ok, HasExecuted
<1> QED BY <1>1, ServiceInvariants, PTL

\* A completion that the interpreter has committed has reached a wait workflow for
\* every id it had to signal, however often its task was executed.
THEOREM CompletionsKept == Spec => []CompletionKept
<1>1. IInv => CompletionKept
  BY DEF IInv, SentOK
<1> QED BY <1>1, ServiceInvariants, PTL

\* CleanupBlobStore deletes no object of a run that the engine knows, but for those
\* of a chain that was started between its describe and its delete.
THEOREM ObjectsKept == Spec => []RetainedRunsKeepObjects
<1>1. ObjectsInv => RetainedRunsKeepObjects
  BY DEF ObjectsInv, ReferredKept
<1> QED BY <1>1, ServiceInvariants, PTL
=============================================================================
