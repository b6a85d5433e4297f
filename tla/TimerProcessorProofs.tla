------------------------ MODULE TimerProcessorProofs ------------------------
(***************************************************************************)
(* Proofs about TimerProcessor for any number of executions, timers,       *)
(* skips and runs, whichever processor the workflow's config selects.      *)
(***************************************************************************)
EXTENDS TimerProcessor, NumberLemmas

-----------------------------------------------------------------------------
(* The invariant *)

TimersTypeOK ==
  /\ exec \in [Executions -> {"queued", "waiting", "draining", "parked", "ended"}]
  /\ infos \in [Timers -> Statuses \cup {"none"}]
  /\ thread \in [Timers -> {"none", "new", "await"}]
  /\ completed \in [Timers -> {"none", "Fired", "Skipped"}]
  /\ asked \subseteq SkipRequests /\ inbox \in Seq(SkipRequests)
  /\ run \in Nat

\* A timer thread runs for an execution that waits, and for a timer that has not
\* completed.
ThreadsOK ==
  \A t \in Timers :
    thread[t] # "none" =>
      /\ exec[t[1]] \in {"waiting", "draining"}
      /\ infos[t] \in {"Pending", "Skipped"} /\ completed[t] = "none"

InfosOK ==
  \A e \in Executions :
    exec[e] \in {"waiting", "draining"} => \A t \in TimersOf(e) : infos[t] # "none"

\* In the first run a skip names an execution that has added its timers, one that
\* has become stale is never valid again, and what is skipped was asked for.
Added(x, req) == x[req.exe] # "queued"
FirstRunOK ==
  run = 0 =>
    /\ \A e \in Executions : exec[e] = "queued" => \A t \in TimersOf(e) : infos[t] = "none"
    /\ \A req \in asked : Added(exec, req)
    /\ \A req \in Range(inbox) : Added(exec, req) /\ RequestedTimer(req) \in requested
    /\ stale \in Seq(SkipRequests)
    /\ \A req \in Range(stale) : Added(exec, req) /\ ~Valid(infos, req)
    /\ \A t \in Timers : infos[t] = "Skipped" \/ completed[t] = "Skipped" => t \in requested

IInv == TimersTypeOK /\ ThreadsOK /\ InfosOK /\ FirstRunOK

-----------------------------------------------------------------------------
(* Requests and timers *)

LEMMA TimersByExecution ==
  /\ \A t \in Timers : t[1] \in Executions /\ t \in TimersOf(t[1])
  /\ \A e \in Executions : \A t \in TimersOf(e) : t \in Timers /\ t[1] = e
BY DEF Timers, TimersOf

LEMMA RequestedTimerIsOne ==
  ASSUME NEW req \in SkipRequests, Named(req) # {}
  PROVE  /\ req.exe \in Executions /\ RequestedTimer(req) \in Timers
         /\ RequestedTimer(req)[1] = req.exe /\ RequestedTimer(req) \in TimersOf(req.exe)
<1>1. /\ req.exe \in Executions
      /\ req.id = NoId => req.idx \in 1..TimerCommands
  BY TimersAssumption DEF SkipRequests
<1>2. req.id # NoId => Named(req) \in SUBSET (1..TimerCommands)
  BY DEF Named
<1>3. req.id # NoId => Min(Named(req)) \in 1..TimerCommands
  <2>1. 1..TimerCommands \subseteq Nat
    BY TimersAssumption
  <2> QED BY <1>2, <2>1, MinOfSet
<1>4. RequestedTimer(req) = <<req.exe, IF req.id = NoId THEN req.idx ELSE Min(Named(req))>>
  BY DEF RequestedTimer
<1>5. PICK i \in 1..TimerCommands : RequestedTimer(req) = <<req.exe, i>>
  BY <1>1, <1>3, <1>4
<1> QED BY <1>1, <1>5 DEF Timers, TimersOf

\* A request that is not valid becomes so only when its timer becomes pending or gets
\* an info.
LEMMA InvalidStays ==
  ASSUME NEW req \in SkipRequests, NEW inf, NEW inf2,
         inf2 \in [Timers -> Statuses \cup {"none"}],
         inf \in [Timers -> Statuses \cup {"none"}],
         ~Valid(inf, req),
         \A t \in TimersOf(req.exe) :
           /\ inf2[t] = "Pending" => inf[t] = "Pending"
           /\ inf2[t] # "none" => inf[t] # "none"
  PROVE  ~Valid(inf2, req)
<1>1. CASE Named(req) = {}
  BY <1>1 DEF Valid
<1>2. CASE Named(req) # {}
  <2>1. RequestedTimer(req) \in TimersOf(req.exe) /\ RequestedTimer(req) \in Timers
    BY <1>2, RequestedTimerIsOne
  <2> QED BY <1>2, <2>1 DEF Valid, Statuses
<1> QED BY <1>1, <1>2

-----------------------------------------------------------------------------
(* The steps *)

LEMMA RangeInSet ==
  ASSUME NEW S, NEW s \in Seq(S)
  PROVE  Range(s) \subseteq S
<1>1. \A i \in DOMAIN s : s[i] \in S
  OBVIOUS
<1> QED BY <1>1, Zenon DEF Range

\* The requests of longer and shorter sequences.
LEMMA RangeOfAppend ==
  ASSUME NEW S, NEW s \in Seq(S), NEW x \in S
  PROVE  Append(s, x) \in Seq(S) /\ Range(Append(s, x)) \subseteq Range(s) \cup {x}
<1>1. Append(s, x) \in Seq(S) /\ DOMAIN s = 1..Len(s) /\ DOMAIN Append(s, x) = 1..Len(s) + 1
  OBVIOUS
<1>2. \A i \in 1..Len(s) + 1 :
        Append(s, x)[i] = x \/ (i \in 1..Len(s) /\ Append(s, x)[i] = s[i])
  OBVIOUS
<1> QED BY <1>1, <1>2, Zenon DEF Range

LEMMA RangeOfTail ==
  ASSUME NEW S, NEW s \in Seq(S), s # << >>
  PROVE  /\ Head(s) \in Range(s) /\ Head(s) \in S
         /\ Tail(s) \in Seq(S) /\ Range(Tail(s)) \subseteq Range(s)
<1>1. /\ Tail(s) \in Seq(S) /\ Head(s) \in S
      /\ DOMAIN s = 1..Len(s) /\ DOMAIN Tail(s) = 1..Len(s) - 1
      /\ 1 \in 1..Len(s) /\ Head(s) = s[1]
  OBVIOUS
<1>2. \A i \in 1..Len(s) - 1 : i + 1 \in 1..Len(s) /\ Tail(s)[i] = s[i + 1]
  OBVIOUS
<1>3. Head(s) \in Range(s)
  BY <1>1, Zenon DEF Range
<1>4. \A x \in Range(Tail(s)) : \E i \in 1..Len(s) - 1 : x = s[i + 1]
  BY <1>1, <1>2, Zenon DEF Range
<1>5. Range(Tail(s)) \subseteq Range(s)
  BY <1>1, <1>2, <1>4, Zenon DEF Range
<1> QED BY <1>1, <1>3, <1>5

LEMMA RangeOfConcat ==
  ASSUME NEW S, NEW s \in Seq(S)
  PROVE  s \o s \in Seq(S) /\ Range(s \o s) \subseteq Range(s)
<1>1. s \o s \in Seq(S) /\ DOMAIN s = 1..Len(s) /\ DOMAIN (s \o s) = 1..Len(s) + Len(s)
  OBVIOUS
<1>2. \A i \in 1..Len(s) + Len(s) : \E j \in 1..Len(s) : (s \o s)[i] = s[j]
  <2> TAKE i \in 1..Len(s) + Len(s)
  <2>1. CASE i \in 1..Len(s)
    BY <2>1
  <2>2. CASE i \notin 1..Len(s)
    <3>1. i - Len(s) \in 1..Len(s) /\ (s \o s)[i] = s[i - Len(s)]
      BY <2>2
    <3> QED BY <3>1
  <2> QED BY <2>1, <2>2
<1> QED BY <1>1, <1>2, Zenon DEF Range

\* What FirstRunOK asks of a step in the first run.
FirstRunStep ==
  /\ \A e \in Executions : exec'[e] = "queued" =>
       exec[e] = "queued" /\ \A t \in TimersOf(e) : infos'[t] = infos[t]
  /\ \A e \in Executions : exec[e] # "queued" => \A t \in TimersOf(e) :
       /\ infos'[t] = "Pending" => infos[t] = "Pending"
       /\ infos'[t] # "none" => infos[t] # "none"
  /\ \A t \in Timers : infos'[t] = "Skipped" \/ completed'[t] = "Skipped" => t \in requested'
  /\ requested \subseteq requested'
  /\ \A req \in asked' : req \in asked \/ Added(exec, req)
  /\ \A req \in Range(inbox') :
       req \in Range(inbox) \/ (Added(exec, req) /\ RequestedTimer(req) \in requested')
  /\ stale' \in Seq(SkipRequests)
  /\ \A req \in Range(stale') :
       req \in Range(stale) \/ (Added(exec, req) /\ ~Valid(infos, req))

LEMMA FirstRunStays ==
  ASSUME IInv, TimersTypeOK', run' = run, run = 0 => FirstRunStep
  PROVE  FirstRunOK'
<1> SUFFICES ASSUME run = 0
             PROVE  FirstRunOK'
  BY DEF FirstRunOK
<1>0. FirstRunStep /\ FirstRunOK /\ TimersTypeOK
  BY DEF IInv
<1>1. \A req \in SkipRequests : req.exe \in Executions
  BY DEF SkipRequests
<1>2. \A req \in SkipRequests : Added(exec, req) => Added(exec', req)
  BY <1>0, <1>1 DEF Added, FirstRunStep
<1>3. \A e \in Executions : exec'[e] = "queued" => \A t \in TimersOf(e) : infos'[t] = "none"
  BY <1>0 DEF FirstRunStep, FirstRunOK
<1>4. \A req \in asked' : Added(exec', req)
  BY <1>0, <1>2 DEF FirstRunStep, FirstRunOK, TimersTypeOK
<1>5. \A req \in Range(inbox') : Added(exec', req) /\ RequestedTimer(req) \in requested'
  <2>1. Range(inbox') \subseteq SkipRequests
    BY RangeInSet DEF TimersTypeOK
  <2> QED BY <1>0, <1>2, <2>1 DEF FirstRunStep, FirstRunOK
<1>6. \A req \in Range(stale') : Added(exec', req) /\ ~Valid(infos', req)
  <2> SUFFICES ASSUME NEW req \in Range(stale')
               PROVE  Added(exec', req) /\ ~Valid(infos', req)
    OBVIOUS
  <2>1. req \in SkipRequests
    BY <1>0, RangeInSet DEF FirstRunStep
  <2>2. Added(exec, req) /\ ~Valid(infos, req)
    BY <1>0 DEF FirstRunStep, FirstRunOK
  <2>3. \A t \in TimersOf(req.exe) :
          /\ infos'[t] = "Pending" => infos[t] = "Pending"
          /\ infos'[t] # "none" => infos[t] # "none"
    BY <1>0, <1>1, <2>1, <2>2 DEF FirstRunStep, Added
  <2>4. /\ infos \in [Timers -> Statuses \cup {"none"}]
        /\ infos' \in [Timers -> Statuses \cup {"none"}]
    BY <1>0 DEF TimersTypeOK
  <2>5. ~Valid(infos', req)
    BY <2>1, <2>2, <2>3, <2>4, InvalidStays
  <2> QED BY <1>2, <2>1, <2>2, <2>5
<1>7. /\ stale' \in Seq(SkipRequests)
      /\ \A t \in Timers : infos'[t] = "Skipped" \/ completed'[t] = "Skipped" => t \in requested'
  BY <1>0 DEF FirstRunStep
<1> QED BY <1>3, <1>4, <1>5, <1>6, <1>7, Zenon DEF FirstRunOK

\* The actions that leave the timers and what is known of them alone.
LEMMA QuietStep ==
  ASSUME IInv, UNCHANGED <<infos, thread, completed, stale, run>>,
         TimersTypeOK', requested \subseteq requested',
         \A e \in Executions :
           /\ exec'[e] = "queued" => exec[e] = "queued"
           /\ exec'[e] \in {"waiting", "draining"} => exec[e] \in {"waiting", "draining"}
           /\ exec[e] \in {"waiting", "draining"} /\ exec'[e] \notin {"waiting", "draining"} =>
                ThreadsDrained(e),
         run = 0 =>
           /\ \A req \in asked' : req \in asked \/ Added(exec, req)
           /\ \A req \in Range(inbox') :
                req \in Range(inbox) \/ (Added(exec, req) /\ RequestedTimer(req) \in requested')
  PROVE  IInv'
<1>0. TimersTypeOK /\ ThreadsOK /\ InfosOK /\ FirstRunOK
  BY DEF IInv
<1>1. ThreadsOK'
  <2> SUFFICES ASSUME NEW t \in Timers, thread[t] # "none"
               PROVE  /\ exec'[t[1]] \in {"waiting", "draining"}
                      /\ infos[t] \in {"Pending", "Skipped"} /\ completed[t] = "none"
    BY DEF ThreadsOK
  <2>1. t[1] \in Executions /\ t \in TimersOf(t[1])
    BY TimersByExecution
  <2>2. ~ThreadsDrained(t[1])
    BY <2>1 DEF ThreadsDrained
  <2> QED BY <1>0, <2>1, <2>2 DEF ThreadsOK
<1>2. InfosOK'
  BY <1>0 DEF InfosOK
<1>3. run = 0 => FirstRunStep
  <2> SUFFICES ASSUME run = 0
               PROVE  FirstRunStep
    OBVIOUS
  <2>1. stale' = stale /\ infos' = infos /\ completed' = completed
    OBVIOUS
  <2>2. /\ stale' \in Seq(SkipRequests)
        /\ \A req \in Range(stale') : req \in Range(stale)
    BY <1>0, <2>1 DEF FirstRunOK
  <2>3. \A t \in Timers : infos'[t] = "Skipped" \/ completed'[t] = "Skipped" => t \in requested'
    BY <1>0, <2>1 DEF FirstRunOK
  <2> QED BY <2>1, <2>2, <2>3, Zenon DEF FirstRunStep
<1>4. FirstRunOK'
  <2>1. run' = run
    OBVIOUS
  <2> QED BY <1>3, <2>1, FirstRunStays
<1> QED BY <1>1, <1>2, <1>4 DEF IInv

LEMMA SkipTimerQueryStep ==
  ASSUME IInv, NEW req \in SkipRequests, SkipTimerQuery(req)
  PROVE  IInv'
<1>0. TimersTypeOK /\ FirstRunOK
  BY DEF IInv
<1>1. /\ UNCHANGED <<infos, thread, completed, stale, run>> /\ exec' = exec
      /\ requested' = requested /\ inbox' = inbox /\ asked' = asked \cup {req}
      /\ Valid(infos, req)
  BY DEF SkipTimerQuery, runVars
<1>2. TimersTypeOK'
  BY <1>0, <1>1 DEF TimersTypeOK
<1>3. run = 0 => Added(exec, req)
  <2>1. /\ req.exe \in Executions /\ RequestedTimer(req) \in TimersOf(req.exe)
        /\ infos[RequestedTimer(req)] # "none"
    BY <1>1, RequestedTimerIsOne DEF Valid
  <2> QED BY <1>0, <2>1 DEF FirstRunOK, Added
<1>4. /\ requested \subseteq requested'
      /\ \A e \in Executions : exec'[e] = exec[e]
      /\ run = 0 => /\ \A r \in asked' : r \in asked \/ Added(exec, r)
                    /\ \A r \in Range(inbox') : r \in Range(inbox)
  BY <1>1, <1>3, Zenon
<1> QED BY <1>1, <1>2, <1>4, QuietStep

LEMMA SkipTimerSignalStep ==
  ASSUME IInv, NEW req \in SkipRequests, SkipTimerSignal(req)
  PROVE  IInv'
<1>0. TimersTypeOK /\ FirstRunOK
  BY DEF IInv
<1>1. /\ UNCHANGED <<infos, thread, completed, stale, run>> /\ exec' = exec
      /\ req \in asked /\ asked' = asked \ {req} /\ inbox' = Append(inbox, req)
      /\ requested' = requested \cup {RequestedTimer(req)}
  BY DEF SkipTimerSignal, runVars
<1>2. inbox' \in Seq(SkipRequests) /\ Range(inbox') \subseteq Range(inbox) \cup {req}
  BY <1>0, <1>1, RangeOfAppend DEF TimersTypeOK
<1>3. TimersTypeOK'
  BY <1>0, <1>1, <1>2 DEF TimersTypeOK
<1>4. run = 0 => Added(exec, req)
  BY <1>0, <1>1 DEF FirstRunOK
<1>5. /\ requested \subseteq requested'
      /\ \A e \in Executions : exec'[e] = exec[e]
      /\ run = 0 => /\ \A r \in asked' : r \in asked
                    /\ \A r \in Range(inbox') : \/ r \in Range(inbox)
                                                \/ /\ Added(exec, r)
                                                   /\ RequestedTimer(r) \in requested'
  BY <1>1, <1>2, <1>4, Zenon
<1> QED BY <1>1, <1>3, <1>5, QuietStep

\* The steps of a state's thread that leave its timers alone, and those of the engine.
LEMMA ControlStep ==
  ASSUME IInv,
         \/ \E e \in Executions :
              \/ OtherCommandCompletes(e) \/ CommandReqDoneOrCanceled(e)
              \/ ReturnWaitingCommands(e)
         \/ \E t \in Timers : Due(t)
         \/ SkipTimerHandlerExit \/ MeetThreshold \/ UNCHANGED vars
  PROVE  IInv'
<1>0. TimersTypeOK
  BY DEF IInv
<1>1. /\ UNCHANGED <<infos, thread, completed, stale, run>>
      /\ UNCHANGED requestVars
      /\ \/ exec' = exec
         \/ \E e \in Executions :
              /\ exec[e] = "waiting" /\ exec' = [exec EXCEPT ![e] = "draining"]
         \/ \E e \in Executions :
              /\ exec[e] = "draining" /\ ThreadsDrained(e)
              /\ exec' = [exec EXCEPT ![e] = "parked"]
  <2>1. CASE \E e \in Executions : OtherCommandCompletes(e)
    BY <2>1, Zenon DEF OtherCommandCompletes, runVars
  <2>2. CASE \E e \in Executions : CommandReqDoneOrCanceled(e)
    BY <2>2, Zenon DEF CommandReqDoneOrCanceled, runVars
  <2>3. CASE \E e \in Executions : ReturnWaitingCommands(e)
    BY <2>3, Zenon DEF ReturnWaitingCommands, runVars
  <2>4. CASE \E t \in Timers : Due(t)
    BY <2>4, Zenon DEF Due, runVars
  <2>5. CASE SkipTimerHandlerExit
    BY <2>5, Zenon DEF SkipTimerHandlerExit
  <2>6. CASE MeetThreshold
    BY <2>6, Zenon DEF MeetThreshold
  <2>7. CASE UNCHANGED vars
    BY <2>7, Zenon DEF vars, runVars
  <2> QED BY <2>1, <2>2, <2>3, <2>4, <2>5, <2>6, <2>7
<1>2. UNCHANGED <<infos, thread, completed, stale, run, asked, inbox, requested>>
  BY <1>1 DEF requestVars
<1>3. TimersTypeOK'
  BY <1>0, <1>1, <1>2 DEF TimersTypeOK
<1>4. \A e \in Executions :
        /\ exec'[e] = "queued" => exec[e] = "queued"
        /\ exec'[e] \in {"waiting", "draining"} => exec[e] \in {"waiting", "draining"}
        /\ exec[e] \in {"waiting", "draining"} /\ exec'[e] \notin {"waiting", "draining"} =>
             ThreadsDrained(e)
  BY <1>0, <1>1 DEF TimersTypeOK
<1>5. /\ requested \subseteq requested'
      /\ \A r \in asked' : r \in asked
      /\ \A r \in Range(inbox') : r \in Range(inbox)
  BY <1>2, Zenon
<1> QED BY <1>2, <1>3, <1>4, <1>5, QuietStep

LEMMA StartWaitingStep ==
  ASSUME IInv, NEW e \in Executions, StartWaiting(e)
  PROVE  IInv'
<1>0. TimersTypeOK /\ ThreadsOK /\ InfosOK /\ FirstRunOK
  BY DEF IInv
<1>1. /\ exec[e] = "queued" /\ exec' = [exec EXCEPT ![e] = "waiting"]
      /\ infos' = [t \in Timers |->
           IF t[1] # e THEN infos[t]
           ELSE IF completed[t] # "none" THEN completed[t] ELSE "Pending"]
      /\ thread' = [t \in Timers |->
           IF t[1] = e /\ completed[t] = "none" THEN "new" ELSE thread[t]]
      /\ UNCHANGED <<completed, stale, asked, inbox, requested, run>>
  BY DEF StartWaiting, requestVars, runVars
<1>2. TimersTypeOK'
  BY <1>0, <1>1 DEF TimersTypeOK, Statuses
<1>3. ThreadsOK'
  BY <1>0, <1>1, TimersByExecution DEF ThreadsOK, TimersTypeOK
<1>4. InfosOK'
  <2> SUFFICES ASSUME NEW f \in Executions, exec'[f] \in {"waiting", "draining"},
                      NEW t \in TimersOf(f)
               PROVE  infos'[t] # "none"
    BY DEF InfosOK
  <2>1. t \in Timers /\ t[1] = f
    BY TimersByExecution
  <2>2. CASE f = e
    BY <1>1, <2>1, <2>2
  <2>3. CASE f # e
    <3>1. exec'[f] = exec[f] /\ infos'[t] = infos[t]
      BY <1>0, <1>1, <2>1, <2>3 DEF TimersTypeOK
    <3> QED BY <1>0, <3>1 DEF InfosOK
  <2> QED BY <2>2, <2>3
<1>5. run = 0 => FirstRunStep
  <2> SUFFICES ASSUME run = 0
               PROVE  FirstRunStep
    OBVIOUS
  <2>1. \A f \in Executions : \A t \in TimersOf(f) : f # e => infos'[t] = infos[t]
    BY <1>1, TimersByExecution
  <2>2. \A f \in Executions : f # e => exec'[f] = exec[f]
    BY <1>0, <1>1 DEF TimersTypeOK
  <2>3. exec'[e] # "queued"
    BY <1>0, <1>1 DEF TimersTypeOK
  <2>4. \A t \in Timers : infos'[t] = "Skipped" \/ completed'[t] = "Skipped" => t \in requested'
    BY <1>0, <1>1 DEF FirstRunOK
  <2>5. stale' = stale /\ inbox' = inbox /\ asked' = asked /\ requested' = requested
        /\ stale \in Seq(SkipRequests)
    BY <1>0, <1>1 DEF FirstRunOK
  <2> QED BY <1>1, <2>1, <2>2, <2>3, <2>4, <2>5, Zenon DEF FirstRunStep
<1>6. FirstRunOK'
  <2>1. run' = run
    BY <1>1
  <2> QED BY <1>2, <1>5, <2>1, FirstRunStays
<1> QED BY <1>2, <1>3, <1>4, <1>6 DEF IInv

LEMMA ExecuteStateStep ==
  ASSUME IInv, NEW e \in Executions, ExecuteState(e)
  PROVE  IInv'
<1>0. TimersTypeOK /\ ThreadsOK /\ InfosOK /\ FirstRunOK
  BY DEF IInv
<1>1. /\ exec[e] = "draining" /\ ThreadsDrained(e) /\ exec' = [exec EXCEPT ![e] = "ended"]
      /\ infos' = [t \in Timers |-> IF t[1] = e THEN "none" ELSE infos[t]]
      /\ UNCHANGED <<thread, completed, stale, asked, inbox, requested, run>>
  BY DEF ExecuteState, requestVars, runVars
<1>2. TimersTypeOK'
  BY <1>0, <1>1 DEF TimersTypeOK
<1>3. \A t \in Timers : thread[t] # "none" => t[1] # e
  BY <1>1, TimersByExecution DEF ThreadsDrained
<1>4. ThreadsOK'
  BY <1>0, <1>1, <1>3, TimersByExecution DEF ThreadsOK, TimersTypeOK
<1>5. InfosOK'
  <2> SUFFICES ASSUME NEW f \in Executions, exec'[f] \in {"waiting", "draining"},
                      NEW t \in TimersOf(f)
               PROVE  infos'[t] # "none"
    BY DEF InfosOK
  <2>1. t \in Timers /\ t[1] = f
    BY TimersByExecution
  <2>2. f # e
    BY <1>0, <1>1 DEF TimersTypeOK
  <2>3. exec'[f] = exec[f] /\ infos'[t] = infos[t]
    BY <1>0, <1>1, <2>1, <2>2 DEF TimersTypeOK
  <2> QED BY <1>0, <2>3 DEF InfosOK
<1>6. run = 0 => FirstRunStep
  <2> SUFFICES ASSUME run = 0
               PROVE  FirstRunStep
    OBVIOUS
  <2>1. \A f \in Executions : \A t \in TimersOf(f) :
          /\ f # e => infos'[t] = infos[t]
          /\ infos'[t] = infos[t] \/ infos'[t] = "none"
    BY <1>1, TimersByExecution
  <2>2. \A f \in Executions : f # e => exec'[f] = exec[f]
    BY <1>0, <1>1 DEF TimersTypeOK
  <2>3. exec'[e] # "queued"
    BY <1>0, <1>1 DEF TimersTypeOK
  <2>4. \A t \in Timers : infos'[t] = "Skipped" \/ completed'[t] = "Skipped" => t \in requested'
    BY <1>0, <1>1 DEF FirstRunOK
  <2>5. stale' = stale /\ inbox' = inbox /\ asked' = asked /\ requested' = requested
        /\ stale \in Seq(SkipRequests)
    BY <1>0, <1>1 DEF FirstRunOK
  <2>6. \A f \in Executions : \A t \in TimersOf(f) :
          /\ infos'[t] = "Pending" => infos[t] = "Pending"
          /\ infos'[t] # "none" => infos[t] # "none"
    BY <2>1
  <2> QED BY <1>1, <2>1, <2>2, <2>3, <2>4, <2>5, <2>6, Zenon DEF FirstRunStep
<1>7. FirstRunOK'
  <2>1. run' = run
    BY <1>1
  <2> QED BY <1>2, <1>6, <2>1, FirstRunStays
<1> QED BY <1>2, <1>4, <1>5, <1>7 DEF IInv

\* The steps that change the infos of timers that have one, end threads and complete
\* their timers: the handler of the skip signal and the timer threads.
LEMMA TimerStep ==
  ASSUME IInv, TimersTypeOK', exec' = exec, run' = run, asked' = asked, requested' = requested,
         \A t \in Timers :
           /\ infos[t] # "none" => infos'[t] # "none"
           /\ thread'[t] # "none" =>
                /\ thread[t] # "none" /\ completed'[t] = completed[t]
                /\ infos'[t] \in {infos[t], "Skipped"},
         run = 0 =>
           /\ \A t \in Timers : /\ infos'[t] = "Pending" => infos[t] = "Pending"
                                /\ infos'[t] # "none" => infos[t] # "none"
           /\ \A t \in Timers : infos'[t] = "Skipped" \/ completed'[t] = "Skipped" =>
                t \in requested
           /\ \A req \in Range(inbox') : req \in Range(inbox)
           /\ stale' \in Seq(SkipRequests)
           /\ \A req \in Range(stale') :
                req \in Range(stale) \/ (Added(exec, req) /\ ~Valid(infos, req))
  PROVE  IInv'
<1>0. TimersTypeOK /\ ThreadsOK /\ InfosOK /\ FirstRunOK
  BY DEF IInv
<1>1. ThreadsOK'
  BY <1>0 DEF ThreadsOK
<1>2. InfosOK'
  BY <1>0, TimersByExecution DEF InfosOK
<1>3. run = 0 => FirstRunStep
  <2> SUFFICES ASSUME run = 0
               PROVE  FirstRunStep
    OBVIOUS
  <2>1. \A e \in Executions : exec'[e] = "queued" =>
          exec[e] = "queued" /\ \A t \in TimersOf(e) : infos'[t] = infos[t]
    BY <1>0, TimersByExecution DEF FirstRunOK
  <2>2. \A e \in Executions : \A t \in TimersOf(e) :
          /\ infos'[t] = "Pending" => infos[t] = "Pending"
          /\ infos'[t] # "none" => infos[t] # "none"
    BY TimersByExecution
  <2> QED BY <2>1, <2>2, Zenon DEF FirstRunStep
<1>4. FirstRunOK'
  BY <1>3, FirstRunStays
<1> QED BY <1>1, <1>2, <1>4 DEF IInv

LEMMA SkipTimerHandlerStep ==
  ASSUME IInv, SkipTimerHandler
  PROVE  IInv'
<1>0. TimersTypeOK /\ ThreadsOK /\ InfosOK /\ FirstRunOK
  BY DEF IInv
<1> DEFINE req == Head(inbox)
           st == SkipTimer([infos |-> infos, stale |-> stale], req)
<1>1. /\ inbox # << >> /\ inbox' = Tail(inbox) /\ infos' = st.infos /\ stale' = st.stale
      /\ UNCHANGED <<exec, thread, completed, asked, requested, run>>
  BY DEF SkipTimerHandler, runVars
<1>2. /\ req \in SkipRequests /\ req \in Range(inbox)
      /\ inbox' \in Seq(SkipRequests) /\ Range(inbox') \subseteq Range(inbox)
  BY <1>0, <1>1, RangeOfTail DEF TimersTypeOK
<1>3. CASE Valid(infos, req)
  <2>1. infos' = [infos EXCEPT ![RequestedTimer(req)] = "Skipped"] /\ stale' = stale
    BY <1>1, <1>3 DEF SkipTimer
  <2>2. RequestedTimer(req) \in Timers /\ infos[RequestedTimer(req)] # "none"
    BY <1>2, <1>3, RequestedTimerIsOne DEF Valid
  <2>3. TimersTypeOK'
    BY <1>0, <1>1, <1>2, <2>1 DEF TimersTypeOK, Statuses
  <2>4. \A t \in Timers :
          /\ infos'[t] = "Pending" => infos[t] = "Pending"
          /\ infos'[t] # "none" <=> infos[t] # "none"
          /\ infos'[t] \in {infos[t], "Skipped"}
          /\ infos'[t] = "Skipped" => infos[t] = "Skipped" \/ t = RequestedTimer(req)
    BY <1>0, <2>1, <2>2 DEF TimersTypeOK
  <2>5. run = 0 => \A t \in Timers : infos'[t] = "Skipped" \/ completed'[t] = "Skipped" =>
          t \in requested
    BY <1>0, <1>1, <1>2, <2>4 DEF FirstRunOK
  <2>6. run = 0 => stale' \in Seq(SkipRequests) /\ \A r \in Range(stale') : r \in Range(stale)
    BY <1>0, <2>1, Zenon DEF FirstRunOK
  <2>7. \A r \in Range(inbox') : r \in Range(inbox)
    BY <1>2
  <2> HIDE DEF req
  <2> QED BY <1>1, <2>3, <2>4, <2>5, <2>6, <2>7, TimerStep
<1>4. CASE ~Valid(infos, req)
  <2>1. infos' = infos /\ stale' = Append(stale, req)
    BY <1>1, <1>4 DEF SkipTimer
  <2>2. TimersTypeOK'
    BY <1>0, <1>1, <1>2, <2>1 DEF TimersTypeOK
  <2>3. run = 0 => \A t \in Timers : infos'[t] = "Skipped" \/ completed'[t] = "Skipped" =>
          t \in requested
    BY <1>0, <1>1, <2>1 DEF FirstRunOK
  <2>4. run = 0 => Added(exec, req)
    BY <1>0, <1>2 DEF FirstRunOK
  <2>5. run = 0 => stale' \in Seq(SkipRequests) /\ Range(stale') \subseteq Range(stale) \cup {req}
    BY <1>0, <1>2, <2>1, RangeOfAppend DEF FirstRunOK
  <2>6. run = 0 => \A r \in Range(stale') :
          r \in Range(stale) \/ (Added(exec, r) /\ ~Valid(infos, r))
    BY <1>4, <2>4, <2>5, Zenon
  <2>7. \A r \in Range(inbox') : r \in Range(inbox)
    BY <1>2
  <2>8. \A t \in Timers :
          /\ infos'[t] = "Pending" => infos[t] = "Pending"
          /\ infos'[t] # "none" <=> infos[t] # "none"
          /\ thread'[t] # "none" =>
               /\ thread[t] # "none" /\ completed'[t] = completed[t]
               /\ infos'[t] \in {infos[t], "Skipped"}
    BY <1>1, <2>1
  <2> HIDE DEF req
  <2> QED BY <1>1, <2>2, <2>3, <2>5, <2>6, <2>7, <2>8, TimerStep
<1> QED BY <1>3, <1>4

LEMMA WaitForTimerEndsStep ==
  ASSUME IInv, NEW t \in Timers, WaitForTimerEnds(t)
  PROVE  IInv' /\ \A u \in Timers : completed[u] # "none" => completed'[u] = completed[u]
<1>0. TimersTypeOK /\ ThreadsOK /\ InfosOK /\ FirstRunOK
  BY DEF IInv
<1> DEFINE status == IF infos[t] = "Skipped" THEN "Skipped"
                     ELSE IF t \in due THEN "Fired" ELSE "Pending"
<1>1. /\ thread[t] = "await" /\ thread' = [thread EXCEPT ![t] = "none"]
      /\ completed' = [completed EXCEPT ![t] = IF status = "Pending" THEN @ ELSE status]
      /\ infos' = IF optimizeTimer THEN [infos EXCEPT ![t] = status] ELSE infos
      /\ UNCHANGED <<exec, stale, asked, inbox, requested, run>>
  BY DEF WaitForTimerEnds, TimerReturns, requestVars, runVars
<1>2. infos[t] \in {"Pending", "Skipped"} /\ completed[t] = "none"
  BY <1>0, <1>1 DEF ThreadsOK
<1>3. /\ status \in {"Pending", "Fired", "Skipped"}
      /\ status = "Skipped" <=> infos[t] = "Skipped"
      /\ status = "Pending" => infos[t] = "Pending"
  BY <1>2
<1> HIDE DEF status
<1>4. TimersTypeOK'
  BY <1>0, <1>1, <1>3 DEF TimersTypeOK, Statuses
<1>5. \A u \in Timers : u # t =>
        infos'[u] = infos[u] /\ thread'[u] = thread[u] /\ completed'[u] = completed[u]
  BY <1>0, <1>1 DEF TimersTypeOK
<1>6. /\ thread'[t] = "none" /\ infos'[t] \in {infos[t], status}
      /\ completed'[t] \in {completed[t], status}
  BY <1>0, <1>1 DEF TimersTypeOK
<1>7. \A u \in Timers :
        /\ infos'[u] = "Pending" => infos[u] = "Pending"
        /\ infos'[u] # "none" <=> infos[u] # "none"
        /\ thread'[u] # "none" =>
             /\ thread[u] # "none" /\ completed'[u] = completed[u]
             /\ infos'[u] \in {infos[u], "Skipped"}
  BY <1>2, <1>3, <1>5, <1>6
<1>8. run = 0 => \A u \in Timers : infos'[u] = "Skipped" \/ completed'[u] = "Skipped" =>
        u \in requested
  BY <1>0, <1>2, <1>3, <1>5, <1>6 DEF FirstRunOK
<1>9. run = 0 => /\ \A req \in Range(inbox') : req \in Range(inbox)
                 /\ stale' \in Seq(SkipRequests)
                 /\ \A req \in Range(stale') : req \in Range(stale)
  BY <1>0, <1>1, Zenon DEF FirstRunOK
<1>10. IInv'
  BY <1>1, <1>4, <1>7, <1>8, <1>9, TimerStep
<1> QED BY <1>2, <1>5, <1>10

LEMMA WaitForTimerStartsStep ==
  ASSUME IInv, NEW t \in Timers, WaitForTimerStarts(t)
  PROVE  IInv' /\ \A u \in Timers : completed[u] # "none" => completed'[u] = completed[u]
<1>0. TimersTypeOK /\ ThreadsOK /\ InfosOK /\ FirstRunOK
  BY DEF IInv
<1>1. thread[t] = "new" /\ UNCHANGED <<exec, asked, inbox, requested, run>>
  BY DEF WaitForTimerStarts, requestVars, runVars
<1>2. infos[t] \in {"Pending", "Skipped"} /\ completed[t] = "none"
  BY <1>0, <1>1 DEF ThreadsOK
<1>3. \A req \in Range(inbox') : req \in Range(inbox)
  BY <1>1, Zenon
<1>4. CASE infos[t] = "Skipped"
  <2>1. /\ thread' = [thread EXCEPT ![t] = "none"]
        /\ completed' = [completed EXCEPT ![t] = "Skipped"]
        /\ infos' = infos /\ stale' = stale
    BY <1>4 DEF WaitForTimerStarts, TimerReturns
  <2>2. TimersTypeOK'
    BY <1>0, <1>1, <2>1 DEF TimersTypeOK
  <2>3. \A u \in Timers : u # t => thread'[u] = thread[u] /\ completed'[u] = completed[u]
    BY <1>0, <2>1 DEF TimersTypeOK
  <2>4. thread'[t] = "none"
    BY <1>0, <2>1 DEF TimersTypeOK
  <2>5. \A u \in Timers :
          /\ infos'[u] = "Pending" => infos[u] = "Pending"
          /\ infos'[u] # "none" <=> infos[u] # "none"
          /\ thread'[u] # "none" =>
               /\ thread[u] # "none" /\ completed'[u] = completed[u]
               /\ infos'[u] \in {infos[u], "Skipped"}
    BY <2>1, <2>3, <2>4
  <2>6. run = 0 => \A u \in Timers : infos'[u] = "Skipped" \/ completed'[u] = "Skipped" =>
          u \in requested
    BY <1>0, <1>4, <2>1, <2>3 DEF FirstRunOK
  <2>7. run = 0 => stale' \in Seq(SkipRequests) /\ \A req \in Range(stale') : req \in Range(stale)
    BY <1>0, <2>1, Zenon DEF FirstRunOK
  <2>8. IInv'
    BY <1>1, <1>3, <2>2, <2>5, <2>6, <2>7, TimerStep
  <2> QED BY <1>2, <2>3, <2>8
<1>5. CASE infos[t] = "Pending" /\ ~StaleFound
  <2>1. /\ thread' = [thread EXCEPT ![t] = "await"] /\ completed' = completed
        /\ infos' = infos /\ stale' = stale \o stale
    BY <1>5 DEF WaitForTimerStarts, RetryStaleSkipTimer
  <2>2. TimersTypeOK'
    BY <1>0, <1>1, <2>1 DEF TimersTypeOK
  <2>3. \A u \in Timers : u # t => thread'[u] = thread[u]
    BY <1>0, <2>1 DEF TimersTypeOK
  <2>4. \A u \in Timers :
          /\ infos'[u] = "Pending" => infos[u] = "Pending"
          /\ infos'[u] # "none" <=> infos[u] # "none"
          /\ thread'[u] # "none" =>
               /\ thread[u] # "none" /\ completed'[u] = completed[u]
               /\ infos'[u] \in {infos[u], "Skipped"}
    BY <1>1, <2>1, <2>3
  <2>5. run = 0 => \A u \in Timers : infos'[u] = "Skipped" \/ completed'[u] = "Skipped" =>
          u \in requested
    BY <1>0, <2>1 DEF FirstRunOK
  <2>6. run = 0 => stale' \in Seq(SkipRequests) /\ \A req \in Range(stale') : req \in Range(stale)
    BY <1>0, <2>1, RangeOfConcat DEF FirstRunOK
  <2>7. IInv'
    BY <1>1, <1>3, <2>2, <2>4, <2>5, <2>6, TimerStep
  <2> QED BY <2>1, <2>7
<1>6. CASE infos[t] = "Pending" /\ StaleFound
  <2>1. run # 0
    <3> SUFFICES ASSUME run = 0
                 PROVE  FALSE
      OBVIOUS
    <3>1. PICK i \in DOMAIN stale : Valid(infos, stale[i])
      BY <1>6 DEF StaleFound
    <3>2. stale[i] \in Range(stale)
      BY <3>1, Zenon DEF Range
    <3> QED BY <1>0, <3>1, <3>2 DEF FirstRunOK
  <2>2. PICK r : RetryStaleSkipTimer.infos = [infos EXCEPT ![r] = "Skipped"]
    <3> DEFINE i == Min({j \in DOMAIN stale : Valid(infos, stale[j])})
    <3>1. RetryStaleSkipTimer.infos = [infos EXCEPT ![RequestedTimer(stale[i])] = "Skipped"]
      BY <1>6 DEF RetryStaleSkipTimer
    <3> QED BY <3>1
  <2>3. /\ thread' = [thread EXCEPT ![t] = "none"]
        /\ completed' = [completed EXCEPT ![t] = "Skipped"]
        /\ infos' = IF optimizeTimer
                    THEN [[infos EXCEPT ![r] = "Skipped"] EXCEPT ![t] = "Skipped"]
                    ELSE [infos EXCEPT ![r] = "Skipped"]
    BY <1>6, <2>2 DEF WaitForTimerStarts, TimerReturns
  <2>4. TimersTypeOK'
    BY <1>0, <1>1, <2>3 DEF TimersTypeOK, Statuses
  <2>5. \A u \in Timers : u # t => thread'[u] = thread[u] /\ completed'[u] = completed[u]
    BY <1>0, <2>3 DEF TimersTypeOK
  <2>6. thread'[t] = "none"
    BY <1>0, <2>3 DEF TimersTypeOK
  <2>7. \A u \in Timers : infos'[u] \in {infos[u], "Skipped"}
    BY <1>0, <1>6, <2>2, <2>3 DEF TimersTypeOK
  <2>8. \A u \in Timers :
          /\ infos[u] # "none" => infos'[u] # "none"
          /\ thread'[u] # "none" =>
               /\ thread[u] # "none" /\ completed'[u] = completed[u]
               /\ infos'[u] \in {infos[u], "Skipped"}
    BY <2>5, <2>6, <2>7
  <2>9. IInv'
    BY <1>1, <2>1, <2>4, <2>8, TimerStep
  <2> QED BY <1>2, <2>5, <2>9
<1> QED BY <1>2, <1>4, <1>5, <1>6

LEMMA ContinueAsNewStep ==
  ASSUME IInv, ContinueAsNew
  PROVE  IInv' /\ completed' = completed
<1>0. TimersTypeOK /\ ThreadsOK /\ InfosOK /\ FirstRunOK
  BY DEF IInv
<1>1. /\ \A e \in Executions : exec[e] \in {"queued", "parked", "ended"}
      /\ infos' = [t \in Timers |-> "none"] /\ inbox' = << >>
      /\ exec' = [e \in Executions |-> IF exec[e] = "parked" THEN "queued" ELSE exec[e]]
      /\ run' = run + 1 /\ UNCHANGED <<thread, completed, asked, requested>>
  BY DEF ContinueAsNew
<1>2. TimersTypeOK'
  BY <1>0, <1>1 DEF TimersTypeOK
<1>3. \A e \in Executions : exec'[e] \in {"queued", "ended"}
  BY <1>1
<1>4. ThreadsOK'
  BY <1>0, <1>1, TimersByExecution DEF ThreadsOK
<1>5. InfosOK'
  BY <1>3 DEF InfosOK
<1>6. run' # 0
  BY <1>0, <1>1 DEF TimersTypeOK
<1>7. FirstRunOK'
  BY <1>6 DEF FirstRunOK
<1> QED BY <1>1, <1>2, <1>4, <1>5, <1>7 DEF IInv

-----------------------------------------------------------------------------
(* The theorems *)

LEMMA InitIInv == Init => IInv
<1> SUFFICES ASSUME Init
             PROVE  IInv
  OBVIOUS
<1>1. TimersTypeOK
  BY DEF Init, TimersTypeOK
<1>2. ThreadsOK /\ InfosOK
  BY DEF Init, ThreadsOK, InfosOK
<1>3. Range(<< >>) = {}
  <2>1. DOMAIN << >> = {}
    OBVIOUS
  <2> QED BY <2>1, Zenon DEF Range
<1>4. FirstRunOK
  BY <1>3, TimersByExecution DEF Init, FirstRunOK
<1> QED BY <1>1, <1>2, <1>4 DEF IInv

LEMMA NextIInv ==
  ASSUME IInv, [Next]_vars
  PROVE  IInv' /\ \A t \in Timers : completed[t] # "none" => completed'[t] = completed[t]
<1>1. CASE \E req \in SkipRequests : SkipTimerQuery(req) \/ SkipTimerSignal(req)
  <2>1. PICK req \in SkipRequests : SkipTimerQuery(req) \/ SkipTimerSignal(req)
    BY <1>1
  <2>2. IInv'
    BY <2>1, SkipTimerQueryStep, SkipTimerSignalStep
  <2>3. completed' = completed
    BY <2>1 DEF SkipTimerQuery, SkipTimerSignal
  <2> QED BY <2>2, <2>3
<1>2. CASE SkipTimerHandler
  <2>1. completed' = completed
    BY <1>2 DEF SkipTimerHandler
  <2> QED BY <1>2, <2>1, SkipTimerHandlerStep
<1>3. CASE \E e \in Executions : StartWaiting(e) \/ ExecuteState(e)
  <2>1. PICK e \in Executions : StartWaiting(e) \/ ExecuteState(e)
    BY <1>3
  <2>2. IInv'
    BY <2>1, StartWaitingStep, ExecuteStateStep
  <2>3. completed' = completed
    BY <2>1 DEF StartWaiting, ExecuteState
  <2> QED BY <2>2, <2>3
<1>4. CASE \E t \in Timers : TimerThread(t)
  BY <1>4, WaitForTimerStartsStep, WaitForTimerEndsStep DEF TimerThread
<1>5. CASE ContinueAsNew
  BY <1>5, ContinueAsNewStep
<1>6. CASE \/ \E e \in Executions :
                \/ OtherCommandCompletes(e) \/ CommandReqDoneOrCanceled(e)
                \/ ReturnWaitingCommands(e)
           \/ \E t \in Timers : Due(t)
           \/ SkipTimerHandlerExit \/ MeetThreshold \/ UNCHANGED vars
  <2>1. IInv'
    BY <1>6, ControlStep
  <2>2. completed' = completed
    BY <1>6, Zenon DEF OtherCommandCompletes, CommandReqDoneOrCanceled, ReturnWaitingCommands, Due,
                       SkipTimerHandlerExit, MeetThreshold, vars
  <2> QED BY <2>1, <2>2
<1> QED BY <1>1, <1>2, <1>3, <1>4, <1>5, <1>6 DEF Next, StateThread

LEMMA InvariantHolds == Spec => []IInv
<1>1. Init => IInv
  BY InitIInv
<1>2. IInv /\ [Next]_vars => IInv'
  BY NextIInv
<1> QED BY <1>1, <1>2, PTL DEF Spec

\* WaitForTimerFiredOrSkipped finds the infos of its state's timers whenever its
\* thread runs: RemovePendingTimersOfState waits for the threads, and a new run, which
\* starts without infos, has no thread before AddTimers was called.
THEOREM ThreadsFindInfos == Spec => []ThreadsHaveInfos
<1>1. IInv => ThreadsHaveInfos
  BY TimersByExecution DEF IInv, ThreadsOK, InfosOK, ThreadsHaveInfos
<1> QED BY <1>1, InvariantHolds, PTL

\* In the first run a timer completes as skipped only when a client asked for that
\* very timer, however the API's query, the signal, its handler and the timer threads
\* interleave: no stale skip can match there, since the executions it could name have
\* added their timers already.
THEOREM FirstRunSkipsAreRequested == Spec => []SkippedOnlyOnRequestInFirstRun
<1>1. IInv => SkippedOnlyOnRequestInFirstRun
  BY DEF IInv, FirstRunOK, SkippedOnlyOnRequestInFirstRun, SkippedOnlyOnRequest
<1> QED BY <1>1, InvariantHolds, PTL

\* What a timer command completed with is never changed, in any run: only the thread of
\* a timer that has not completed sets it.
THEOREM CompletionsAreFinal == Spec => CompletedIsFinal
<1>1. IInv /\ [Next]_vars =>
        [\A t \in Timers : completed[t] # "none" => completed'[t] = completed[t]]_vars
  BY NextIInv
<1> QED BY <1>1, InvariantHolds, PTL DEF Spec, CompletedIsFinal
=============================================================================
