--------------------------- MODULE RunCycleProofs ---------------------------
(***************************************************************************)
(* Proofs about RunCycle.  The first part: what a run gets from the        *)
(* previous one, for every snapshot, every page size and any number of     *)
(* deployments; these are proofs about ContinueAsNewDump and, since every  *)
(* step of RunCycle is a step of it or leaves it alone, about RunCycle.    *)
(* The second part: the sweeps of the engine's scheduler over the main     *)
(* coroutine, the signal handlers and the state threads, for any config,   *)
(* any signals and any number of states: the decision to continue as new   *)
(* is revoked by nothing but the drain of a conditional close, and unless  *)
(* it is, no signal is left behind and the config is the one that was      *)
(* sent.  The third part: the counts of the state executions under way and *)
(* the search attribute that shows them.                                   *)
(***************************************************************************)
EXTENDS RunCycle, NumberLemmas, SequenceTheorems, FiniteSetTheorems

\* The bytes that n pages of version v cover.
Covered(v, n) ==
  IF pageSize * n > SnapshotLength[v] THEN SnapshotLength[v] ELSE pageSize * n

\* The bytes that are not halves of wide characters are where they were.
Faithful(v) ==
  \A i \in 1..Len(sb) :
    i \notin WideAt[v] /\ i - 1 \notin WideAt[v] => sb[i] = <<v, i>>

\* The inductive invariant: the pages read so far are the first ones of the
\* snapshot with the last checksum, and the load goes on exactly if there are more.
DumpInv ==
  /\ DumpTypeOK
  /\ lastChecksum = NoChecksum => pageNum = 0 /\ sb = << >>
  /\ lastChecksum # NoChecksum =>
       /\ Len(sb) = Covered(lastChecksum, pageNum)
       /\ Faithful(lastChecksum)
       /\ loading <=> pageSize * pageNum < SnapshotLength[lastChecksum]

LEMMA MultiplicationMonotone ==
  ASSUME NEW s \in Nat, NEW a \in Int, NEW b \in Int, a <= b
  PROVE  s * a <= s * b
<1>1. PICK d \in Nat : b = a + d
  OBVIOUS
<1>2. s * b = s * a + s * d
  BY <1>1
<1>3. s * d \in Nat
  OBVIOUS
<1> QED BY <1>2, <1>3

\* The number of pages: page n is there exactly if it begins before the end.
LEMMA PagesExact ==
  ASSUME NEW L \in Nat \ {0}, NEW s \in Nat \ {0}, NEW n \in Nat
  PROVE  n < (L + s - 1) \div s <=> s * n < L
<1> DEFINE q == (L + s - 1) \div s
<1>1. q \in Int /\ s * q <= L + s - 1 /\ L + s - 1 < s * q + s
  OBVIOUS
<1> HIDE DEF q
<1>2. ASSUME n < q PROVE s * n < L
  <2>1. s * (n + 1) <= s * q
    BY <1>1, <1>2, MultiplicationMonotone
  <2>2. s * (n + 1) = s * n + s
    OBVIOUS
  <2> QED BY <1>1, <2>1, <2>2
<1>3. ASSUME ~(n < q) PROVE ~(s * n < L)
  <2>1. s * q <= s * n
    BY <1>1, <1>3, MultiplicationMonotone
  <2> QED BY <1>1, <2>1
<1> QED BY <1>1, <1>2, <1>3 DEF q

LEMMA Appended ==
  ASSUME NEW S, NEW s \in Seq(S), NEW t \in Seq(S)
  PROVE  /\ s \o t \in Seq(S) /\ Len(s \o t) = Len(s) + Len(t)
         /\ \A i \in 1..Len(s) : (s \o t)[i] = s[i]
         /\ \A j \in 1..Len(t) : (s \o t)[Len(s) + j] = t[j]
OBVIOUS

LEMMA DumpInitInv == DumpInit => DumpInv
<1> SUFFICES ASSUME DumpInit PROVE DumpInv
  OBVIOUS
<1>1. sb \in Seq(Versions \X Nat) /\ pageSize \in Nat \ {0} /\ pageNum \in Nat
  BY SnapshotAssumption DEF DumpInit
<1>2. DumpTypeOK
  BY <1>1, Zenon DEF DumpInit, DumpTypeOK
<1> QED BY <1>2, Zenon DEF DumpInit, DumpInv

LEMMA BeginLoadInv ==
  ASSUME DumpInv, NEW size \in Nat \ {0}, BeginLoad(size)
  PROVE  DumpInv'
BY SnapshotAssumption DEF DumpInv, DumpTypeOK, BeginLoad

LEMMA DeployInv ==
  ASSUME DumpInv, NEW v \in Versions, Deploy(v)
  PROVE  DumpInv'
BY DEF DumpInv, DumpTypeOK, Deploy, Covered, Faithful

LEMMA RestartInv ==
  ASSUME DumpInv, Restart
  PROVE  DumpInv'
BY DEF DumpInv, DumpTypeOK, Restart

\* The page that is appended begins where the bytes read so far end.
LEMMA LoadPageInv ==
  ASSUME DumpInv, LoadPage
  PROVE  DumpInv'
<1>1. CASE lastChecksum # NoChecksum /\ lastChecksum # version
  BY <1>1, RestartInv DEF LoadPage
<1>2. CASE ~(lastChecksum # NoChecksum /\ lastChecksum # version)
  <2> DEFINE L == SnapshotLength[version]
             start == pageSize * pageNum
             data == JsonData(version, pageSize, pageNum)
             count == PageEnd(version, pageSize, pageNum) - start
  <2>1. /\ version \in Versions /\ pageSize \in Nat \ {0} /\ pageNum \in Nat
        /\ L \in Nat \ {0} /\ start \in Nat
        /\ sb \in Seq(Versions \X Nat) /\ version # NoChecksum
    BY SnapshotAssumption DEF DumpInv, DumpTypeOK
  <2>2. /\ loading
        /\ lastChecksum' = version /\ sb' = sb \o data /\ pageNum' = pageNum + 1
        /\ loading' = (pageNum + 1 < TotalPages(version, pageSize))
        /\ version' = version /\ pageSize' = pageSize
    BY <1>2 DEF LoadPage
  <2>3. start < L /\ Len(sb) = start
        /\ (\A i \in 1..Len(sb) : i \notin WideAt[version] /\ i - 1 \notin WideAt[version]
                                    => sb[i] = <<version, i>>)
    <3>1. CASE lastChecksum = NoChecksum
      BY <2>1, <3>1 DEF DumpInv
    <3>2. CASE lastChecksum = version
      BY <2>1, <2>2, <3>2 DEF DumpInv, Covered, Faithful
    <3> QED BY <1>2, <3>1, <3>2
  <2>4. pageSize * (pageNum + 1) = start + pageSize
    BY <2>1
  <2>5. /\ count \in Nat
        /\ start + count = IF start + pageSize > L THEN L ELSE start + pageSize
    <3>1. PageEnd(version, pageSize, pageNum)
            = IF start + pageSize > L THEN L ELSE start + pageSize
      BY Zenon DEF PageEnd, PageStart
    <3> HIDE DEF start, L
    <3> QED BY <2>1, <2>3, <3>1
  <2>6. /\ data \in Seq(Versions \X Nat) /\ Len(data) = count
        /\ \A j \in 1..count :
             data[j] = IF \/ j = count /\ start + j \in WideAt[version]
                          \/ j = 1 /\ start \in WideAt[version]
                       THEN <<version, 0>> ELSE <<version, start + j>>
    <3>1. data = [j \in 1..count |->
                    IF \/ j = count /\ start + j \in WideAt[version]
                       \/ j = 1 /\ start \in WideAt[version]
                    THEN <<version, 0>> ELSE <<version, start + j>>]
      BY Zenon DEF JsonData, PageStart, Replacement
    <3> HIDE DEF data, count, start, L
    <3> QED BY <2>1, <2>5, <3>1
  <2> HIDE DEF data, count, start, L
  <2>7. /\ sb' \in Seq(Versions \X Nat) /\ Len(sb') = start + count
        /\ \A i \in 1..start : sb'[i] = sb[i]
        /\ \A j \in 1..count : sb'[start + j] = data[j]
    <3>1. sb' = sb \o data /\ Len(sb) = start /\ Len(data) = count
      BY <2>2, <2>3, <2>6
    <3>2. sb \in Seq(Versions \X Nat) /\ data \in Seq(Versions \X Nat)
      BY <2>1, <2>6
    <3>3. /\ sb \o data \in Seq(Versions \X Nat) /\ Len(sb \o data) = Len(sb) + Len(data)
          /\ \A i \in 1..Len(sb) : (sb \o data)[i] = sb[i]
          /\ \A j \in 1..Len(data) : (sb \o data)[Len(sb) + j] = data[j]
      BY <3>2, Appended
    <3> QED BY <3>1, <3>3
  <2>8. ASSUME NEW i \in 1..Len(sb'), i \notin WideAt[version], i - 1 \notin WideAt[version]
        PROVE  sb'[i] = <<version, i>>
    <3>1. CASE i <= start
      <4>1. i \in 1..start
        BY <2>1, <2>5, <2>7, <3>1
      <4> QED BY <2>3, <2>7, <2>8, <4>1
    <3>2. CASE i > start
      <4> DEFINE j == i - start
      <4>1. j \in 1..count /\ start + j = i /\ start \in Nat
        BY <2>1, <2>5, <2>7, <3>2
      <4>2. sb'[i] = data[j]
        BY <2>7, <4>1
      <4>3. j = 1 => start = i - 1
        BY <4>1
      <4> QED BY <2>6, <2>8, <4>1, <4>2, <4>3
    <3> QED BY <2>1, <2>5, <2>7, <3>1, <3>2
  <2>9. loading' <=> pageSize * (pageNum + 1) < L
    <3>1. pageNum + 1 < (L + pageSize - 1) \div pageSize
            <=> pageSize * (pageNum + 1) < L
      <4>1. pageNum + 1 \in Nat
        BY <2>1
      <4> QED BY <2>1, <4>1, PagesExact, Zenon
    <3>2. TotalPages(version, pageSize) = (L + pageSize - 1) \div pageSize
      BY Zenon DEF TotalPages, L
    <3> QED BY <2>2, <3>1, <3>2
  <2>10. DumpTypeOK'
    BY <2>1, <2>2, <2>7 DEF DumpTypeOK
  <2>11. Len(sb') = Covered(version, pageNum + 1)
    BY <2>1, <2>4, <2>5, <2>7 DEF Covered, L
  <2> QED BY <2>1, <2>2, <2>8, <2>9, <2>10, <2>11 DEF DumpInv, Covered, Faithful, L
<1> QED BY <1>1, <1>2

LEMMA DumpNextInv == DumpInv /\ [DumpNext]_dumpVars => DumpInv'
<1> SUFFICES ASSUME DumpInv, [DumpNext]_dumpVars PROVE DumpInv'
  OBVIOUS
<1>1. CASE \E size \in Nat \ {0} : BeginLoad(size)
  BY <1>1, BeginLoadInv
<1>2. CASE LoadPage
  BY <1>2, LoadPageInv
<1>3. CASE \E v \in Versions : Deploy(v)
  BY <1>3, DeployInv
<1>4. CASE UNCHANGED dumpVars
  BY <1>4 DEF dumpVars, DumpInv, DumpTypeOK, Covered, Faithful
<1> QED BY <1>1, <1>2, <1>3, <1>4 DEF DumpNext

LEMMA DumpInvImplies == DumpInv => LoadedIsOneSnapshot
BY SnapshotAssumption DEF DumpInv, DumpTypeOK, LoadedIsOneSnapshot, Covered, Faithful

\* The load loop of LoadInternalsFromPreviousRun, with any page size and any
\* deployments between the pages: what has been read when it ends is one snapshot.
THEOREM LoadCorrect == DumpSpec => []LoadedIsOneSnapshot
BY DumpInitInv, DumpNextInv, DumpInvImplies, PTL DEF DumpSpec

LEMMA PageSizePositive == \A size : PageSize(size) \in Nat \ {0}
BY SnapshotAssumption DEF PageSize

LEMMA CycleStep == [Next]_vars => [DumpNext]_dumpVars
<1> SUFFICES ASSUME [Next]_vars PROVE [DumpNext]_dumpVars
  OBVIOUS
<1> USE DEF dumpVars
<1>1. ASSUME NEW k \in Kinds, NEW p \in Payloads(k), Arrive(k, p) PROVE UNCHANGED dumpVars
  BY <1>1 DEF Arrive
<1>2. ASSUME NEW i \in DOMAIN threads, Ready(i) PROVE UNCHANGED dumpVars
  BY <1>2 DEF Ready
<1>3. ASSUME NEW v \in Versions, DeployWorkers(v) PROVE DumpNext
  BY <1>3 DEF DeployWorkers, DumpNext
<1>4. CASE Load
  BY <1>4 DEF Load, DumpNext
<1>5. CASE DrainOuter
  <2>1. CASE BeginLoad(PageSize(config'.pageSize))
    BY <2>1, PageSizePositive DEF DumpNext
  <2>2. CASE UNCHANGED dumpVars
    BY <2>2
  <2> QED BY <1>5, <2>1, <2>2 DEF DrainOuter
<1>6. CASE StartTask \/ MainBlocked \/ Outer \/ StatesToExecute \/ Top \/ Inner \/ DrainInner
  BY <1>6 DEF StartTask, MainBlocked, Outer, StatesToExecute, Top, Inner, DrainInner
<1>7. ASSUME NEW k \in Kinds, CallHandler(k) PROVE UNCHANGED dumpVars
  BY <1>7 DEF CallHandler
<1>8. ASSUME NEW i \in DOMAIN threads,
             ThreadBlocked(i) \/ ThreadAdvances(i) \/ ThreadParks(i) \/ ThreadDrains(i)
      PROVE  UNCHANGED dumpVars
  BY <1>8 DEF ThreadBlocked, ThreadAdvances, ThreadParks, ThreadDrains
<1>9. ASSUME NEW i \in DOMAIN threads, NEW next, NEW queued, Completes(i, next, queued)
      PROVE  UNCHANGED dumpVars
  BY <1>9 DEF Completes
<1>10. CASE UNCHANGED vars
  BY <1>10 DEF vars
<1>11. ASSUME NEW i \in DOMAIN threads, NEW d \in Decisions[threads[i].state],
              ThreadCompletes(i, d) \/ \E met \in BOOLEAN : ConditionalClose(i, d, met)
       PROVE  UNCHANGED dumpVars
  BY <1>9, <1>11 DEF ThreadCompletes, ConditionalClose
<1> QED BY <1>1, <1>2, <1>3, <1>4, <1>5, <1>6, <1>7, <1>8, <1>10, <1>11 DEF Next, TaskStep

\* The workflow as a whole implements the loads alone: no other step of a task
\* touches the load.
THEOREM CycleImplementsDump == Spec => DumpSpec
<1>1. Init => DumpInit
  BY DEF Init
<1> QED BY <1>1, CycleStep, PTL DEF Spec, DumpSpec

\* A new run that enters its main loop has read one snapshot of the previous run,
\* whatever versions of the workers have answered its queries.
THEOREM CycleLoadsOneSnapshot == Spec => []LoadedIsOneSnapshot
BY CycleImplementsDump, LoadCorrect, PTL

-----------------------------------------------------------------------------
(* Updates of the config, one after the other *)

\* FoldLeft recurses over the subsets of the positions.
UpdateRecursion(f, n, cfg, updates) ==
  f = [s \in SUBSET (1..n) |->
         IF s = {} THEN cfg ELSE UpdateByAPI(f[s \ {Max(s)}], updates[Max(s)])]

LEMMA UpdateRecursionHasSolution ==
  ASSUME NEW cfg, NEW updates, NEW n \in Nat
  PROVE  \E f : UpdateRecursion(f, n, cfg, updates)
<1> DEFINE Op(c, i) == UpdateByAPI(c, updates[i])
           Body(f, m) == [s \in SUBSET (1..m) |->
                            IF s = {} THEN cfg ELSE Op(f[s \ {Max(s)}], Max(s))]
           P == {m \in Nat : \E f : f = Body(f, m)}
<1>1. 0 \in P
  <2> DEFINE f == [s \in SUBSET (1..0) |-> cfg]
  <2>1. f = Body(f, 0)
    OBVIOUS
  <2> QED BY <2>1
<1>2. ASSUME NEW m \in Nat, m \in P
      PROVE  m + 1 \in P
  <2>1. PICK f : f = Body(f, m)
    BY <1>2
  <2> DEFINE g == [s \in SUBSET (1..m + 1) |->
                     IF m + 1 \in s THEN Op(f[s \ {m + 1}], m + 1) ELSE f[s]]
  <2>2. ASSUME NEW s \in SUBSET (1..m + 1), m + 1 \notin s
        PROVE  s \in SUBSET (1..m) /\ g[s] = f[s]
    BY <2>2
  <2>3. ASSUME NEW s \in SUBSET (1..m + 1), s # {}
        PROVE  g[s] = Op(g[s \ {Max(s)}], Max(s))
    <3>1. CASE m + 1 \in s
      <4>1. Max(s) = m + 1 /\ s \ {Max(s)} \in SUBSET (1..m)
        BY <3>1, MaxOfPrefix
      <4>2. g[s \ {Max(s)}] = f[s \ {m + 1}]
        BY <4>1
      <4>3. g[s] = Op(f[s \ {m + 1}], m + 1)
        BY <3>1
      <4> HIDE DEF Op, g
      <4> QED BY <4>1, <4>2, <4>3
    <3>2. CASE m + 1 \notin s
      <4>1. s \in SUBSET (1..m) /\ g[s] = f[s]
        BY <2>2, <3>2
      <4>2. Max(s) \in s
        BY <2>3, <4>1, MaxOfPositions
      <4>3. /\ s \ {Max(s)} \in SUBSET (1..m + 1) /\ m + 1 \notin s \ {Max(s)}
        BY <3>2
      <4>4. g[s \ {Max(s)}] = f[s \ {Max(s)}]
        BY <2>2, <4>3
      <4>5. f[s] = Op(f[s \ {Max(s)}], Max(s))
        <5> HIDE DEF Op
        <5> QED BY <2>1, <2>3, <4>1
      <4> HIDE DEF Op, g
      <4> QED BY <4>1, <4>4, <4>5
    <3> QED BY <3>1, <3>2
  <2>4. {} \in SUBSET (1..m + 1) /\ g[{}] = cfg
    <3>1. g[{}] = f[{}]
      OBVIOUS
    <3>2. f[{}] = cfg
      BY <2>1
    <3> QED BY <3>1, <3>2
  <2>5. g = Body(g, m + 1)
    <3>1. g = [s \in SUBSET (1..m + 1) |-> g[s]]
      OBVIOUS
    <3>2. \A s \in SUBSET (1..m + 1) :
            g[s] = IF s = {} THEN cfg ELSE Op(g[s \ {Max(s)}], Max(s))
      <4> HIDE DEF g, Op
      <4> QED BY <2>3, <2>4
    <3> HIDE DEF g, Op
    <3>3. [s \in SUBSET (1..m + 1) |-> g[s]] = Body(g, m + 1)
      BY <3>2, Zenon
    <3> QED BY <3>1, <3>3, Zenon
  <2>6. \E r : r = Body(r, m + 1)
    <3> HIDE DEF g, Body
    <3> QED BY <2>5, Zenon
  <2>7. m + 1 \in Nat
    OBVIOUS
  <2> HIDE DEF Body
  <2> QED BY <2>6, <2>7, Zenon
<1>3. P = Nat
  <2>1. P \in SUBSET Nat /\ \A m \in Nat : m \in P => m + 1 \in P
    BY <1>2
  <2> HIDE DEF P
  <2> QED BY <1>1, <2>1, NatInductionOnSets
<1>4. \E f : f = Body(f, n)
  BY <1>3
<1> QED BY <1>4, Zenon DEF UpdateRecursion

\* The configs that n updates lead to, one after the other.
ConfigsAfter(h, n, cfg, updates) ==
  h[0] = cfg /\ \A k \in 1..n : h[k] = UpdateByAPI(h[k - 1], updates[k])

LEMMA UpdatesOneByOne ==
  ASSUME NEW cfg, NEW updates \in Seq(ConfigUpdates)
  PROVE  \E h : /\ ConfigsAfter(h, Len(updates), cfg, updates)
                /\ h[Len(updates)] = UpdateByAll(cfg, updates)
<1> DEFINE n == Len(updates)
           Rec(f) == f = [s \in SUBSET DOMAIN updates |->
                            IF s = {} THEN cfg
                            ELSE UpdateByAPI(f[s \ {Max(s)}], updates[Max(s)])]
           iter == CHOOSE f : Rec(f)
<1>1. n \in Nat /\ DOMAIN updates = 1..n
  OBVIOUS
<1>2. \A f : Rec(f) <=> UpdateRecursion(f, n, cfg, updates)
  BY <1>1, Zenon DEF UpdateRecursion
<1>3. UpdateRecursion(iter, n, cfg, updates)
  <2>1. \E f : UpdateRecursion(f, n, cfg, updates)
    BY <1>1, UpdateRecursionHasSolution
  <2> HIDE DEF Rec
  <2>2. Rec(iter)
    BY <1>2, <2>1
  <2> QED BY <1>2, <2>2
<1>4. UpdateByAll(cfg, updates) = iter[1..n]
  <2>1. UpdateByAll(cfg, updates) = iter[DOMAIN updates]
    BY Zenon DEF UpdateByAll, FoldLeft, MapThenFoldSet
  <2> HIDE DEF iter, n
  <2> QED BY <1>1, <2>1
<1> HIDE DEF iter, n
<1>5. iter = [s \in SUBSET (1..n) |->
                IF s = {} THEN cfg ELSE UpdateByAPI(iter[s \ {Max(s)}], updates[Max(s)])]
  BY <1>3, Zenon DEF UpdateRecursion
<1> DEFINE h == [k \in 0..n |-> iter[1..k]]
<1>6. h[0] = cfg
  <2>1. 1..0 = {} /\ {} \in SUBSET (1..n) /\ h[0] = iter[1..0]
    BY <1>1
  <2> HIDE DEF h
  <2> QED BY <1>5, <2>1
<1>7. ASSUME NEW k \in 1..n
      PROVE  h[k] = UpdateByAPI(h[k - 1], updates[k])
  <2>1. h[k] = iter[1..k] /\ h[k - 1] = iter[1..k - 1]
    BY <1>1
  <2>2. 1..k \in SUBSET (1..n) /\ 1..k # {} /\ k \in Nat
    BY <1>1
  <2>3. Max(1..k) = k /\ (1..k) \ {k} = 1..k - 1
    <3>1. Max(1..k) \in 1..k /\ \A y \in 1..k : y <= Max(1..k)
      BY <2>2, MaxOfPositions
    <3>2. k \in 1..k /\ Max(1..k) \in Int
      BY <1>1, <3>1
    <3> QED BY <3>1, <3>2
  <2>4. iter[1..k] = UpdateByAPI(iter[(1..k) \ {Max(1..k)}], updates[Max(1..k)])
    BY <1>5, <2>2
  <2> HIDE DEF h
  <2> QED BY <2>1, <2>3, <2>4
<1>8. h[n] = iter[1..n]
  BY <1>1
<1> HIDE DEF h
<1> QED BY <1>4, <1>6, <1>7, <1>8, Zenon DEF ConfigsAfter, n

LEMMA SameConfigs ==
  ASSUME NEW cfg, NEW u, NEW v, NEW n \in Nat, NEW g, NEW h,
         ConfigsAfter(g, n, cfg, u), ConfigsAfter(h, n, cfg, v),
         \A k \in 1..n : u[k] = v[k]
  PROVE  g[n] = h[n]
<1> DEFINE P == {k \in Nat : k <= n => g[k] = h[k]}
<1>1. 0 \in P
  BY DEF ConfigsAfter
<1>2. ASSUME NEW k \in Nat, k \in P
      PROVE  k + 1 \in P
  <2>1. CASE k + 1 <= n
    <3>1. k + 1 \in 1..n /\ (k + 1) - 1 = k /\ k <= n
      BY <2>1
    <3>2. g[k] = h[k]
      BY <1>2, <3>1
    <3>3. g[k + 1] = UpdateByAPI(g[k], u[k + 1])
      BY <3>1 DEF ConfigsAfter
    <3>4. h[k + 1] = UpdateByAPI(h[k], v[k + 1])
      BY <3>1 DEF ConfigsAfter
    <3> QED BY <3>1, <3>2, <3>3, <3>4
  <2> QED BY <2>1
<1>3. P = Nat
  <2>1. P \in SUBSET Nat /\ \A k \in Nat : k \in P => k + 1 \in P
    BY <1>2
  <2> HIDE DEF P
  <2> QED BY <1>1, <2>1, NatInductionOnSets
<1> QED BY <1>3

\* No update leaves the config alone.
LEMMA UpdateByNone == \A cfg : UpdateByAll(cfg, << >>) = cfg
<1> SUFFICES ASSUME NEW cfg PROVE UpdateByAll(cfg, << >>) = cfg
  OBVIOUS
<1>1. << >> \in Seq(ConfigUpdates) /\ Len(<< >>) = 0
  OBVIOUS
<1>2. PICK h : /\ ConfigsAfter(h, Len(<< >>), cfg, << >>)
               /\ h[Len(<< >>)] = UpdateByAll(cfg, << >>)
  BY <1>1, UpdatesOneByOne
<1> QED BY <1>1, <1>2 DEF ConfigsAfter

\* One more update is applied to what the earlier ones have made of the config.
LEMMA UpdateByOneMore ==
  ASSUME NEW cfg, NEW updates \in Seq(ConfigUpdates), NEW u \in ConfigUpdates
  PROVE  UpdateByAll(cfg, Append(updates, u)) = UpdateByAPI(UpdateByAll(cfg, updates), u)
<1> DEFINE n == Len(updates)
           more == Append(updates, u)
<1>1. /\ more \in Seq(ConfigUpdates) /\ Len(more) = n + 1 /\ n \in Nat
      /\ more[n + 1] = u /\ \A k \in 1..n : more[k] = updates[k]
  OBVIOUS
<1> HIDE DEF more
<1>2. PICK g : ConfigsAfter(g, n, cfg, updates) /\ g[n] = UpdateByAll(cfg, updates)
  BY UpdatesOneByOne
<1> HIDE DEF n
<1>3. PICK h : ConfigsAfter(h, n + 1, cfg, more) /\ h[n + 1] = UpdateByAll(cfg, more)
  BY <1>1, UpdatesOneByOne
<1>4. ConfigsAfter(h, n, cfg, more)
  BY <1>1, <1>3 DEF ConfigsAfter
<1>5. g[n] = h[n]
  BY <1>1, <1>2, <1>4, SameConfigs
<1>6. h[n + 1] = UpdateByAPI(h[n], u)
  <2>1. n + 1 \in 1..n + 1 /\ (n + 1) - 1 = n
    BY <1>1
  <2> QED BY <1>1, <1>3, <2>1 DEF ConfigsAfter
<1> QED BY <1>2, <1>3, <1>5, <1>6 DEF more

LEMMA UpdateType ==
  ASSUME NEW cfg \in WorkflowConfigs, NEW u \in ConfigUpdates
  PROVE  UpdateByAPI(cfg, u) \in WorkflowConfigs
<1>1. DOMAIN cfg = {"threshold", "pageSize", "mode", "optimizeTimer"}
  BY DEF WorkflowConfigs
<1>2. "optimizeTimer" \notin CopiedFields
  BY DEF CopiedFields
<1>3. UpdateByAPI(cfg, u) =
        [threshold |-> UpdateByAPI(cfg, u)["threshold"],
         pageSize |-> UpdateByAPI(cfg, u)["pageSize"], mode |-> UpdateByAPI(cfg, u)["mode"],
         optimizeTimer |-> UpdateByAPI(cfg, u)["optimizeTimer"]]
  BY <1>1 DEF UpdateByAPI
<1>4. /\ UpdateByAPI(cfg, u)["threshold"] \in Nat /\ UpdateByAPI(cfg, u)["pageSize"] \in Nat
      /\ UpdateByAPI(cfg, u)["mode"] \in Modes
      /\ UpdateByAPI(cfg, u)["optimizeTimer"] \in BOOLEAN
  BY <1>1, <1>2, ConfigsAssumption DEF UpdateByAPI, WorkflowConfigs
<1> QED BY <1>3, <1>4 DEF WorkflowConfigs

\* The fields that an update can change.
Settable == {"threshold", "pageSize", "mode"}

LEMMA SettableCopied ==
  /\ Settable \subseteq CopiedFields
  /\ \A cfg \in WorkflowConfigs : DOMAIN cfg = Settable \cup {"optimizeTimer"}
BY DEF Settable, CopiedFields, WorkflowConfigs

LEMMA UpdatesType ==
  ASSUME NEW cfg \in WorkflowConfigs, NEW updates \in Seq(ConfigUpdates)
  PROVE  UpdateByAll(cfg, updates) \in WorkflowConfigs
<1> DEFINE n == Len(updates)
<1>1. n \in Nat /\ \A k \in 1..n : updates[k] \in ConfigUpdates
  OBVIOUS
<1>2. PICK h : ConfigsAfter(h, n, cfg, updates) /\ h[n] = UpdateByAll(cfg, updates)
  BY UpdatesOneByOne
<1> HIDE DEF n
<1> DEFINE P == {k \in Nat : k <= n => h[k] \in WorkflowConfigs}
<1>3. 0 \in P
  BY <1>2 DEF ConfigsAfter
<1>4. ASSUME NEW k \in Nat, k \in P
      PROVE  k + 1 \in P
  <2>1. CASE k + 1 <= n
    <3>1. k + 1 \in 1..n /\ (k + 1) - 1 = k /\ k <= n
      BY <1>1, <2>1
    <3>2. h[k] \in WorkflowConfigs /\ updates[k + 1] \in ConfigUpdates
      BY <1>1, <1>4, <3>1
    <3>3. h[k + 1] = UpdateByAPI(h[k], updates[k + 1])
      BY <1>2, <3>1 DEF ConfigsAfter
    <3> QED BY <3>2, <3>3, UpdateType
  <2> QED BY <2>1
<1>5. P = Nat
  <2>1. P \in SUBSET Nat /\ \A k \in Nat : k \in P => k + 1 \in P
    BY <1>4
  <2> HIDE DEF P
  <2> QED BY <1>3, <2>1, NatInductionOnSets
<1> QED BY <1>1, <1>2, <1>5

-----------------------------------------------------------------------------
(* The states that several RPCs start, one after the other *)

FlattenRecursion(f, n, seqs) ==
  f = [i \in 1..n |-> IF i = 1 THEN seqs[i] ELSE f[i - 1] \o seqs[i]]

LEMMA FlattenRecursionHasSolution ==
  ASSUME NEW seqs, NEW n \in Nat
  PROVE  \E f : FlattenRecursion(f, n, seqs)
<1> DEFINE Body(f, m) == [i \in 1..m |-> IF i = 1 THEN seqs[i] ELSE f[i - 1] \o seqs[i]]
           P == {m \in Nat : \E f : f = Body(f, m)}
<1>1. 0 \in P
  <2> DEFINE f == [i \in 1..0 |-> seqs]
  <2>1. f = Body(f, 0)
    OBVIOUS
  <2> QED BY <2>1
<1>2. ASSUME NEW m \in Nat, m \in P
      PROVE  m + 1 \in P
  <2>1. PICK f : f = Body(f, m)
    BY <1>2
  <2> DEFINE g == [i \in 1..m + 1 |->
                     IF i = 1 THEN seqs[i] ELSE f[i - 1] \o seqs[i]]
  <2>2. ASSUME NEW i \in 1..m
        PROVE  g[i] = f[i]
    <3>1. g[i] = IF i = 1 THEN seqs[i] ELSE f[i - 1] \o seqs[i]
      OBVIOUS
    <3>2. f[i] = IF i = 1 THEN seqs[i] ELSE f[i - 1] \o seqs[i]
      BY <2>1
    <3> QED BY <3>1, <3>2
  <2>3. ASSUME NEW i \in 1..m + 1
        PROVE  g[i] = IF i = 1 THEN seqs[i] ELSE g[i - 1] \o seqs[i]
    <3>1. i # 1 => i - 1 \in 1..m
      OBVIOUS
    <3>2. g[i] = IF i = 1 THEN seqs[i] ELSE f[i - 1] \o seqs[i]
      OBVIOUS
    <3> HIDE DEF g
    <3> QED BY <2>2, <3>1, <3>2
  <2>4. g = Body(g, m + 1)
    <3>1. g = [i \in 1..m + 1 |-> g[i]]
      OBVIOUS
    <3> HIDE DEF g
    <3>2. [i \in 1..m + 1 |-> g[i]] = Body(g, m + 1)
      BY <2>3, Zenon
    <3> QED BY <3>1, <3>2, Zenon
  <2>5. \E r : r = Body(r, m + 1)
    <3> HIDE DEF g, Body
    <3> QED BY <2>4, Zenon
  <2>6. m + 1 \in Nat
    OBVIOUS
  <2> HIDE DEF Body
  <2> QED BY <2>5, <2>6, Zenon
<1>3. P = Nat
  <2>1. P \in SUBSET Nat /\ \A m \in Nat : m \in P => m + 1 \in P
    BY <1>2
  <2> HIDE DEF P
  <2> QED BY <1>1, <2>1, NatInductionOnSets
<1>4. \E f : f = Body(f, n)
  BY <1>3
<1> QED BY <1>4, Zenon DEF FlattenRecursion

LEMMA FlattenNone == FlattenSeq(<< >>) = << >>
BY DEF FlattenSeq

LEMMA FlattenType ==
  ASSUME NEW seqs \in Seq(RpcStates)
  PROVE  FlattenSeq(seqs) \in Seq(StateIds)
<1> DEFINE n == Len(seqs)
           Rec(f) == f = [i \in 1..Len(seqs) |->
                            IF i = 1 THEN seqs[i] ELSE f[i - 1] \o seqs[i]]
           flatten == CHOOSE f : Rec(f)
<1>1. n \in Nat /\ \A i \in 1..n : seqs[i] \in Seq(StateIds)
  BY DecisionsAssumption
<1>2. CASE n = 0
  <2>1. seqs = << >>
    BY <1>2, EmptySeq
  <2>2. << >> \in Seq(StateIds)
    OBVIOUS
  <2> QED BY <2>1, <2>2, FlattenNone, Zenon
<1>3. CASE n # 0
  <2>1. FlattenRecursion(flatten, n, seqs)
    <3>1. \A f : Rec(f) <=> FlattenRecursion(f, n, seqs)
      BY DEF FlattenRecursion
    <3>2. \E f : FlattenRecursion(f, n, seqs)
      BY <1>1, FlattenRecursionHasSolution
    <3> HIDE DEF Rec
    <3>3. Rec(flatten)
      BY <3>1, <3>2
    <3> QED BY <3>1, <3>3
  <2>2. FlattenSeq(seqs) = flatten[n]
    BY <1>3, Zenon DEF FlattenSeq
  <2> HIDE DEF flatten, n
  <2> DEFINE P == {k \in Nat : k \in 1..n => flatten[k] \in Seq(StateIds)}
  <2>3. 0 \in P
    BY <1>1
  <2>4. ASSUME NEW k \in Nat, k \in P
        PROVE  k + 1 \in P
    <3>1. CASE k + 1 \in 1..n
      <4>1. flatten[k + 1] = IF k + 1 = 1 THEN seqs[k + 1] ELSE flatten[k] \o seqs[k + 1]
        <5>1. (k + 1) - 1 = k
          OBVIOUS
        <5> QED BY <2>1, <3>1, <5>1 DEF FlattenRecursion
      <4>2. k + 1 # 1 => flatten[k] \in Seq(StateIds)
        BY <1>1, <2>4, <3>1
      <4>3. seqs[k + 1] \in Seq(StateIds)
        BY <1>1, <3>1
      <4>4. flatten[k + 1] \in Seq(StateIds)
        <5>1. CASE k + 1 = 1
          BY <4>1, <4>3, <5>1
        <5>2. CASE k + 1 # 1
          <6>1. flatten[k] \o seqs[k + 1] \in Seq(StateIds)
            BY <4>2, <4>3, <5>2, ConcatProperties
          <6> QED BY <4>1, <5>2, <6>1
        <5> QED BY <5>1, <5>2
      <4> QED BY <4>4
    <3> QED BY <3>1
  <2>5. P = Nat
    <3>1. P \in SUBSET Nat /\ \A k \in Nat : k \in P => k + 1 \in P
      BY <2>4
    <3> HIDE DEF P
    <3> QED BY <2>3, <3>1, NatInductionOnSets
  <2> QED BY <1>1, <1>3, <2>2, <2>5
<1> QED BY <1>2, <1>3

Requests == [state : StateIds, resume : BOOLEAN]

LEMMA StartRequestsType ==
  ASSUME NEW ids \in Seq(StateIds)
  PROVE  StartRequests(ids) \in Seq(Requests)
<1>1. Len(ids) \in Nat /\ DOMAIN ids = 1..Len(ids) /\ \A i \in 1..Len(ids) : ids[i] \in StateIds
  OBVIOUS
<1>2. StartRequests(ids) = [i \in 1..Len(ids) |-> [state |-> ids[i], resume |-> FALSE]]
  BY <1>1, Zenon DEF StartRequests
<1>3. \A i \in 1..Len(ids) : [state |-> ids[i], resume |-> FALSE] \in Requests
  BY <1>1 DEF Requests
<1> QED BY <1>1, <1>2, <1>3

-----------------------------------------------------------------------------
(* Types *)

ThreadRecords == [state : StateIds, phase : Phases]

DispatchTypeOK ==
  /\ config \in WorkflowConfigs
  /\ signalsReceived \in Nat /\ executedStateApis \in Nat /\ triggeredByAPI \in BOOLEAN
  /\ alive \in SUBSET Kinds /\ failWorkflowByClient \in BOOLEAN
  /\ DOMAIN channel = Kinds /\ \A k \in Kinds : channel[k] \in Seq(Payloads(k))
  /\ stateRequestQueue \in Seq(Requests)

TaskTypeOK ==
  /\ threads \in Seq(ThreadRecords) /\ toResume \in Seq(StateIds)
  /\ ready \subseteq DOMAIN threads
  /\ at \in {"load", "outer", "top", "inner", "drainInner", "drainOuter", "closed"}
  /\ turn \in 0..ThreadTurn(Len(threads)) /\ progressed \in BOOLEAN /\ pending \in BOOLEAN

CycleTypeOK == DispatchTypeOK /\ TaskTypeOK

LEMMA SevenTurns == \A i : ThreadTurn(i) = 7 + i
BY DEF ThreadTurn, Handlers

LEMMA PayloadsOfKinds ==
  /\ Payloads("config") = ConfigUpdates /\ Payloads("rpc") = RpcStates
  /\ "config" \in Kinds /\ "rpc" \in Kinds /\ "fail" \in Kinds /\ "trigger" \in Kinds
BY DEF Payloads, Kinds

\* What the last drain makes of the queue.
LEMMA RpcRequestsType ==
  ASSUME NEW seqs \in Seq(RpcStates)
  PROVE  StartRequests(FlattenSeq(seqs)) \in Seq(Requests)
BY FlattenType, StartRequestsType

\* A handler that is called receives its signals.
LEMMA HandleEffect ==
  ASSUME DispatchTypeOK, NEW k \in Kinds, Handle(k)
  PROVE  /\ DispatchTypeOK'
         /\ \A j \in Kinds \ {k} : channel'[j] = channel[j]
         /\ k # "trigger" => channel'[k] = << >>
         /\ config' = IF k = "config" THEN UpdateByAll(config, channel["config"]) ELSE config
         /\ signalsReceived' >= signalsReceived /\ executedStateApis' = executedStateApis
         /\ triggeredByAPI => triggeredByAPI'
         /\ failWorkflowByClient => failWorkflowByClient'
         /\ k = "fail" => triggeredByAPI' = triggeredByAPI
         /\ k = "fail" /\ signalsReceived' # signalsReceived => failWorkflowByClient'
         /\ alive' = IF IsThresholdMet' \/ (k = "trigger" /\ channel[k] # << >>)
                     THEN alive \ {k} ELSE alive
         /\ k = "trigger" /\ channel[k] # << >> => triggeredByAPI'
         /\ channel' = channel =>
              /\ channel[k] = << >>
              /\ UNCHANGED <<configVars, failWorkflowByClient, stateRequestQueue>>
<1> DEFINE ch == channel[k]
           taken == IF k = "trigger" /\ ch # << >> THEN <<Head(ch)>> ELSE ch
           rest == SubSeq(ch, Len(taken) + 1, Len(ch))
           received == CASE k = "trigger" -> 0
                         [] k = "user"    -> IF taken = << >> THEN 0 ELSE 1
                         [] OTHER         -> Len(taken)
<1>1. ch \in Seq(Payloads(k)) /\ Len(ch) \in Nat /\ (ch # << >> => Len(ch) # 0)
  BY EmptySeq DEF DispatchTypeOK
<1>2. /\ taken \in Seq(Payloads(k)) /\ Len(taken) \in 0..Len(ch)
      /\ k # "trigger" => taken = ch
      /\ taken = << >> <=> ch = << >>
      /\ taken # << >> => Len(taken) # 0
  <2>1. CASE k = "trigger" /\ ch # << >>
    <3>1. Head(ch) \in Payloads(k)
      BY <1>1, <2>1
    <3>2. taken = <<Head(ch)>> /\ <<Head(ch)>> # << >> /\ Len(<<Head(ch)>>) = 1
      BY <2>1
    <3> HIDE DEF ch, taken
    <3> QED BY <1>1, <2>1, <3>1, <3>2
  <2>2. CASE ~(k = "trigger" /\ ch # << >>)
    <3>1. taken = ch
      BY <2>2
    <3> HIDE DEF ch, taken
    <3> QED BY <1>1, <2>2, <3>1
  <2> QED BY <2>1, <2>2
<1>3. /\ rest \in Seq(Payloads(k)) /\ Len(rest) = Len(ch) - Len(taken)
      /\ taken = ch => rest = << >>
  <2> HIDE DEF ch, taken
  <2>1. rest \in Seq(Payloads(k)) /\ Len(rest) = Len(ch) - Len(taken)
    BY <1>1, <1>2
  <2> HIDE DEF rest
  <2> QED BY <1>1, <2>1, EmptySeq
<1>4. received \in Nat /\ (taken = << >> => received = 0)
      /\ (k = "fail" /\ received # 0 => taken # << >>)
  <2> HIDE DEF taken
  <2>1. taken = << >> => Len(taken) = 0
    OBVIOUS
  <2>2. CASE k = "trigger"
    BY <2>2
  <2>3. CASE k = "user"
    BY <2>3
  <2>4. CASE k \notin {"trigger", "user"}
    BY <1>1, <1>2, <2>1, <2>4
  <2> QED BY <2>2, <2>3, <2>4
<1>5. /\ config' = IF k = "config" THEN UpdateByAll(config, taken) ELSE config
      /\ failWorkflowByClient' = (failWorkflowByClient \/ (k = "fail" /\ taken # << >>))
      /\ stateRequestQueue' =
           IF k = "rpc" THEN stateRequestQueue \o StartRequests(FlattenSeq(taken))
           ELSE stateRequestQueue
      /\ channel' = [channel EXCEPT ![k] = rest]
      /\ signalsReceived' = signalsReceived + received
      /\ triggeredByAPI' = (triggeredByAPI \/ (k = "trigger" /\ taken # << >>))
      /\ executedStateApis' = executedStateApis
      /\ alive' = IF IsThresholdMet' \/ (k = "trigger" /\ taken # << >>)
                  THEN alive \ {k} ELSE alive
  BY DEF Handle, Receive, Apply
<1> HIDE DEF received, rest, taken
<1>6. /\ DOMAIN channel' = Kinds /\ channel'[k] = rest
      /\ \A j \in Kinds \ {k} : channel'[j] = channel[j]
  BY <1>5 DEF DispatchTypeOK
<1>7. /\ config' = IF k = "config" THEN UpdateByAll(config, channel["config"]) ELSE config
      /\ config' \in WorkflowConfigs
  <2>1. CASE k = "config"
    <3>1. taken = channel["config"] /\ taken \in Seq(ConfigUpdates)
      BY <1>2, <2>1, PayloadsOfKinds
    <3> QED BY <1>5, <2>1, <3>1, UpdatesType DEF DispatchTypeOK
  <2>2. CASE k # "config"
    BY <1>5, <2>2 DEF DispatchTypeOK
  <2> QED BY <2>1, <2>2
<1>8. stateRequestQueue' \in Seq(Requests)
  <2>1. CASE k = "rpc"
    <3>1. StartRequests(FlattenSeq(taken)) \in Seq(Requests)
      BY <1>2, <2>1, PayloadsOfKinds, RpcRequestsType
    <3>2. stateRequestQueue' = stateRequestQueue \o StartRequests(FlattenSeq(taken))
      BY <1>5, <2>1
    <3> QED BY <3>1, <3>2 DEF DispatchTypeOK
  <2>2. CASE k # "rpc"
    BY <1>5, <2>2 DEF DispatchTypeOK
  <2> QED BY <2>1, <2>2
<1>9. DispatchTypeOK'
  <2>1. \A j \in Kinds : channel'[j] \in Seq(Payloads(j))
    BY <1>3, <1>6 DEF DispatchTypeOK
  <2>2. signalsReceived' \in Nat /\ executedStateApis' \in Nat
    BY <1>4, <1>5 DEF DispatchTypeOK
  <2>3. triggeredByAPI' \in BOOLEAN /\ failWorkflowByClient' \in BOOLEAN /\ alive' \in SUBSET Kinds
    BY <1>5, Zenon DEF DispatchTypeOK
  <2> QED BY <1>6, <1>7, <1>8, <2>1, <2>2, <2>3 DEF DispatchTypeOK
<1>10. ASSUME channel' = channel
       PROVE  /\ channel[k] = << >>
              /\ UNCHANGED <<configVars, failWorkflowByClient, stateRequestQueue>>
  <2>1. rest = ch
    BY <1>6, <1>10
  <2>2. Len(taken) = 0
    BY <1>1, <1>2, <1>3, <2>1
  <2>3. taken = << >>
    BY <1>2, <2>2
  <2>4. config' = config
    BY <1>5, <2>3, UpdateByNone
  <2>5. stateRequestQueue' = stateRequestQueue
    <3>1. StartRequests(<< >>) = << >>
      BY DEF StartRequests
    <3>2. stateRequestQueue \o << >> = stateRequestQueue
      BY DEF DispatchTypeOK
    <3> QED BY <1>5, <2>3, <3>1, <3>2, FlattenNone
  <2>6. signalsReceived' = signalsReceived
    BY <1>4, <1>5, <2>3 DEF DispatchTypeOK
  <2>7. triggeredByAPI' = triggeredByAPI /\ failWorkflowByClient' = failWorkflowByClient
    BY <1>5, <2>3 DEF DispatchTypeOK
  <2> QED BY <1>2, <1>5, <2>3, <2>4, <2>5, <2>6, <2>7 DEF configVars
<1>11. k # "trigger" => channel'[k] = << >>
  BY <1>2, <1>3, <1>6
<1>12. signalsReceived' >= signalsReceived /\ executedStateApis' = executedStateApis
  BY <1>4, <1>5 DEF DispatchTypeOK
<1>13. /\ triggeredByAPI => triggeredByAPI'
       /\ failWorkflowByClient => failWorkflowByClient'
       /\ k = "fail" => triggeredByAPI' = triggeredByAPI
       /\ k = "trigger" /\ ch # << >> => triggeredByAPI'
       /\ alive' = IF IsThresholdMet' \/ (k = "trigger" /\ ch # << >>)
                   THEN alive \ {k} ELSE alive
  <2> HIDE DEF ch
  <2>1. triggeredByAPI' <=> triggeredByAPI \/ (k = "trigger" /\ ch # << >>)
    BY <1>2, <1>5, Zenon
  <2>5. (k = "trigger" /\ taken # << >>) = (k = "trigger" /\ ch # << >>)
    BY <1>2
  <2>2. failWorkflowByClient => failWorkflowByClient'
    BY <1>5, Zenon
  <2>3. k = "fail" => triggeredByAPI' = triggeredByAPI
    <3>1. triggeredByAPI \in BOOLEAN /\ triggeredByAPI' \in BOOLEAN
      BY <1>9, Zenon DEF DispatchTypeOK
    <3> QED BY <2>1, <3>1
  <2>4. alive' = IF IsThresholdMet' \/ (k = "trigger" /\ ch # << >>)
                 THEN alive \ {k} ELSE alive
    BY <1>5, <2>5, Zenon
  <2> QED BY <2>1, <2>2, <2>3, <2>4
<1>14. k = "fail" /\ signalsReceived' # signalsReceived => failWorkflowByClient'
  <2>1. signalsReceived' # signalsReceived => received # 0
    BY <1>5 DEF DispatchTypeOK
  <2> QED BY <1>4, <1>5, <2>1, Zenon
<1> QED BY <1>6, <1>7, <1>9, <1>10, <1>11, <1>12, <1>13, <1>14

LEMMA YieldType ==
  ASSUME TaskTypeOK, turn # 0, NEW b \in BOOLEAN, Yield(b), Len(threads') = Len(threads)
  PROVE  turn' \in 0..ThreadTurn(Len(threads')) /\ progressed' \in BOOLEAN /\ pending' \in BOOLEAN
<1>1. Len(threads) \in Nat /\ turn \in 0..7 + Len(threads)
  BY SevenTurns DEF TaskTypeOK
<1>2. turn' \in 0..7 + Len(threads)
  BY <1>1, SevenTurns DEF Yield, MainTurn
<1>3. progressed' \in BOOLEAN /\ pending' \in BOOLEAN
  BY Zenon DEF Yield, TaskTypeOK
<1> QED BY <1>2, <1>3, SevenTurns

LEMMA ContinueType ==
  ASSUME TaskTypeOK, Continue, Len(threads') >= Len(threads), Len(threads') \in Nat
  PROVE  turn' \in 0..ThreadTurn(Len(threads')) /\ progressed' \in BOOLEAN /\ pending' \in BOOLEAN
<1>1. Len(threads) \in Nat /\ turn \in 0..7 + Len(threads)
  BY SevenTurns DEF TaskTypeOK
<1> QED BY <1>1, SevenTurns DEF Continue, TaskTypeOK

Positions == {"load", "outer", "top", "inner", "drainInner", "drainOuter", "closed"}

LEMMA GotoType ==
  ASSUME TaskTypeOK, NEW where \in Positions, Goto(where),
         Len(threads') >= Len(threads), Len(threads') \in Nat
  PROVE  /\ turn' \in 0..ThreadTurn(Len(threads'))
         /\ progressed' \in BOOLEAN /\ pending' \in BOOLEAN /\ at' = where
<1>1. CASE where = "closed"
  <2>1. at' = where /\ turn' = 0 /\ progressed' = progressed /\ pending' = pending
    BY <1>1 DEF Goto
  <2> QED BY <2>1, SevenTurns DEF TaskTypeOK
<1>2. CASE where # "closed"
  <2>1. Continue /\ at' = where
    BY <1>2 DEF Goto
  <2> QED BY <2>1, ContinueType
<1> QED BY <1>1, <1>2

LEMMA InitType == Init => CycleTypeOK
<1> SUFFICES ASSUME Init PROVE CycleTypeOK
  OBVIOUS
<1>1. stateRequestQueue \in Seq(Requests)
  <2>1. <<StartStateId>> \in Seq(StateIds)
    BY CycleAssumption
  <2> QED BY <2>1, StartRequestsType DEF Init
<1>2. DOMAIN channel = Kinds /\ \A k \in Kinds : channel[k] \in Seq(Payloads(k))
  BY DEF Init
<1>3. DispatchTypeOK
  <2>1. /\ config \in WorkflowConfigs /\ signalsReceived = 0 /\ executedStateApis = 0
        /\ triggeredByAPI = FALSE /\ failWorkflowByClient = FALSE /\ alive = Kinds
    BY ConfigsAssumption DEF Init
  <2> QED BY <1>1, <1>2, <2>1 DEF DispatchTypeOK
<1>4. threads \in Seq(ThreadRecords) /\ toResume \in Seq(StateIds) /\ Len(threads) = 0
  BY DEF Init
<1>5. TaskTypeOK
  <2>1. /\ turn = 0 /\ progressed = FALSE /\ pending = TRUE /\ ready = {} /\ at = "outer"
    BY DEF Init
  <2>2. turn \in 0..ThreadTurn(Len(threads))
    BY <1>4, <2>1, SevenTurns
  <2>3. progressed \in BOOLEAN /\ pending \in BOOLEAN /\ ready \subseteq DOMAIN threads
    BY <2>1
  <2> QED BY <1>4, <2>1, <2>2, <2>3, Zenon DEF TaskTypeOK
<1> QED BY <1>3, <1>5 DEF CycleTypeOK

LEMMA ArriveType ==
  ASSUME CycleTypeOK, NEW k \in Kinds, NEW p \in Payloads(k), Arrive(k, p)
  PROVE  /\ CycleTypeOK'
         /\ channel'[k] = Append(channel[k], p)
         /\ \A j \in Kinds \ {k} : channel'[j] = channel[j]
<1>1. /\ DOMAIN channel' = Kinds /\ channel'[k] = Append(channel[k], p)
      /\ \A j \in Kinds \ {k} : channel'[j] = channel[j]
  BY DEF Arrive, CycleTypeOK, DispatchTypeOK
<1>2. \A j \in Kinds : channel'[j] \in Seq(Payloads(j))
  BY <1>1 DEF CycleTypeOK, DispatchTypeOK
<1>3. DispatchTypeOK'
  BY <1>1, <1>2 DEF Arrive, CycleTypeOK, DispatchTypeOK, configVars
<1>4. TaskTypeOK'
  <2>1. /\ UNCHANGED <<threads, toResume, ready, at, turn, progressed>>
        /\ pending' \in BOOLEAN
    BY DEF Arrive, threadVars
  <2> QED BY <2>1, SevenTurns DEF CycleTypeOK, TaskTypeOK
<1> QED BY <1>1, <1>3, <1>4 DEF CycleTypeOK

LEMMA SameDispatch ==
  ASSUME DispatchTypeOK, UNCHANGED dispatchVars
  PROVE  DispatchTypeOK'
BY DEF dispatchVars, configVars, signalVars, DispatchTypeOK

LEMMA QuietEventsType ==
  ASSUME CycleTypeOK,
         \/ \E i \in DOMAIN threads : Ready(i)
         \/ \E v \in Versions : DeployWorkers(v)
         \/ StartTask
         \/ UNCHANGED vars
  PROVE  CycleTypeOK'
<1>1. UNCHANGED <<dispatchVars, threads, toResume, at>>
  BY DEF Ready, DeployWorkers, StartTask, vars, threadVars
<1>2. /\ ready' \subseteq DOMAIN threads /\ turn' \in {turn, 1}
      /\ progressed' \in BOOLEAN /\ pending' \in BOOLEAN
  BY DEF Ready, DeployWorkers, StartTask, vars, threadVars, taskVars, MainTurn, CycleTypeOK, TaskTypeOK
<1>3. turn' \in 0..ThreadTurn(Len(threads'))
  BY <1>1, <1>2, SevenTurns DEF CycleTypeOK, TaskTypeOK
<1> QED BY <1>1, <1>2, <1>3, SameDispatch DEF CycleTypeOK, TaskTypeOK

LEMMA LoadType ==
  ASSUME CycleTypeOK, Load
  PROVE  CycleTypeOK'
<1>1. /\ UNCHANGED <<config, signalsReceived, executedStateApis, triggeredByAPI, channel,
                     failWorkflowByClient, stateRequestQueue, threads, ready, toResume, pending>>
      /\ alive' \in {alive, Kinds} /\ at' \in {at, "outer"} /\ turn' \in {turn, 1}
      /\ progressed' \in BOOLEAN
  <2>1. /\ UNCHANGED <<configVars, channel, failWorkflowByClient, stateRequestQueue, threadVars>>
        /\ IF loading' THEN UNCHANGED <<alive, at, taskVars>>
           ELSE /\ alive' = Kinds
                /\ at' = "outer" /\ turn' = MainTurn /\ progressed' = FALSE
                /\ UNCHANGED pending
    BY DEF Load
  <2>2. progressed \in BOOLEAN
    BY DEF CycleTypeOK, TaskTypeOK
  <2>3. CASE loading'
    BY <2>1, <2>2, <2>3 DEF configVars, threadVars, taskVars
  <2>4. CASE ~loading'
    BY <2>1, <2>4 DEF configVars, threadVars, MainTurn
  <2> QED BY <2>3, <2>4
<1>2. DispatchTypeOK'
  <2>1. DispatchTypeOK
    BY DEF CycleTypeOK
  <2> QED BY <1>1, <2>1 DEF DispatchTypeOK
<1>3. turn' \in 0..ThreadTurn(Len(threads'))
  BY <1>1, SevenTurns DEF CycleTypeOK, TaskTypeOK
<1> QED BY <1>1, <1>2, <1>3 DEF CycleTypeOK, TaskTypeOK

LEMMA MainType ==
  ASSUME CycleTypeOK, MainBlocked \/ Outer \/ Top \/ Inner \/ DrainInner
  PROVE  CycleTypeOK'
<1>1. UNCHANGED <<dispatchVars, threads, ready, toResume>> /\ turn # 0
  <2> USE DEF threadVars, Main, MainTurn
  <2>1. CASE MainBlocked
    BY <2>1 DEF MainBlocked
  <2>2. CASE Outer
    BY <2>2 DEF Outer
  <2>3. CASE Top
    BY <2>3 DEF Top
  <2>4. CASE Inner
    BY <2>4 DEF Inner
  <2>5. CASE DrainInner
    BY <2>5 DEF DrainInner
  <2> QED BY <2>1, <2>2, <2>3, <2>4, <2>5
<1>2. Len(threads) \in Nat /\ Len(threads') = Len(threads) /\ Len(threads') >= Len(threads)
  BY <1>1 DEF CycleTypeOK, TaskTypeOK
<1>3. /\ turn' \in 0..ThreadTurn(Len(threads'))
      /\ progressed' \in BOOLEAN /\ pending' \in BOOLEAN /\ at' \in Positions
  <2>1. CASE MainBlocked
    <3>1. Yield(FALSE) /\ at' = at
      BY <2>1 DEF MainBlocked
    <3> QED BY <1>1, <1>2, <3>1, YieldType DEF CycleTypeOK, TaskTypeOK, Positions
  <2>2. CASE \E where \in Positions : Goto(where)
    BY <1>2, <2>2, GotoType DEF CycleTypeOK
  <2>3. CASE Outer
    BY <2>2, <2>3 DEF Outer, Positions
  <2>4. CASE Top
    <3>1. \E where \in {"inner", "drainOuter", "outer"} : Goto(where)
      BY <2>4 DEF Top
    <3> QED BY <2>2, <3>1 DEF Positions
  <2>5. CASE Inner
    <3>1. \E where \in {"drainInner", "closed", "top"} : Goto(where)
      BY <2>5 DEF Inner
    <3> QED BY <2>2, <3>1 DEF Positions
  <2>6. CASE DrainInner
    <3>1. \E where \in {"closed", "drainOuter", "top"} : Goto(where)
      BY <2>6 DEF DrainInner
    <3> QED BY <2>2, <3>1 DEF Positions
  <2> QED BY <2>1, <2>3, <2>4, <2>5, <2>6
<1>4. DispatchTypeOK'
  BY <1>1, SameDispatch DEF CycleTypeOK
<1> QED BY <1>1, <1>3, <1>4 DEF CycleTypeOK, TaskTypeOK, Positions

LEMMA HandlerType ==
  ASSUME CycleTypeOK, NEW k \in Kinds, CallHandler(k)
  PROVE  CycleTypeOK'
<1>1. UNCHANGED <<threads, ready, toResume, at>> /\ turn # 0
  BY DEF CallHandler, threadVars, HandlerAt, Handlers
<1>2. DispatchTypeOK'
  <2>1. CASE k \in alive
    BY <2>1, HandleEffect DEF CallHandler, CycleTypeOK
  <2>2. CASE k \notin alive
    BY <2>2, SameDispatch DEF CallHandler, CycleTypeOK
  <2> QED BY <2>1, <2>2
<1>3. \E b \in BOOLEAN : Yield(b)
  BY Zenon DEF CallHandler
<1>4. /\ turn' \in 0..ThreadTurn(Len(threads'))
      /\ progressed' \in BOOLEAN /\ pending' \in BOOLEAN
  BY <1>1, <1>3, YieldType DEF CycleTypeOK
<1> QED BY <1>1, <1>2, <1>4 DEF CycleTypeOK, TaskTypeOK

LEMMA StatesToExecuteType ==
  ASSUME CycleTypeOK, StatesToExecute
  PROVE  CycleTypeOK'
<1> DEFINE q == stateRequestQueue
           Phase(i) == IF q[i].resume THEN "waiting"
                       ELSE IF q[i].state \in SkipWaitUntil THEN "execute"
                       ELSE "waitUntil"
           new == [i \in DOMAIN q |-> [state |-> q[i].state, phase |-> Phase(i)]]
<1>1. /\ threads' = threads \o new
      /\ stateRequestQueue' = << >> /\ Goto("inner")
      /\ UNCHANGED <<config, signalsReceived, executedStateApis, triggeredByAPI,
                     channel, alive, failWorkflowByClient, ready, toResume>>
  BY Zenon DEF StatesToExecute, configVars, signalVars
<1>2. q \in Seq(Requests)
  BY DEF CycleTypeOK, DispatchTypeOK
<1> HIDE DEF q
<1>3. Len(q) \in Nat /\ DOMAIN q = 1..Len(q) /\ \A i \in 1..Len(q) : q[i].state \in StateIds
  <2>1. Len(q) \in Nat /\ DOMAIN q = 1..Len(q) /\ \A i \in 1..Len(q) : q[i] \in Requests
    BY <1>2
  <2> QED BY <2>1 DEF Requests
<1>4. \A i \in 1..Len(q) : Phase(i) \in Phases
  <2>1. \A p, e : (IF p THEN "waiting" ELSE IF e THEN "execute" ELSE "waitUntil") \in Phases
    <3>1. {"waiting", "execute", "waitUntil"} \subseteq Phases
      BY DEF Phases
    <3> QED BY <3>1, Zenon
  <2> QED BY <2>1
<1> HIDE DEF Phase
<1>5. new \in Seq(ThreadRecords)
  <2>1. \A i \in 1..Len(q) : [state |-> q[i].state, phase |-> Phase(i)] \in ThreadRecords
    BY <1>3, <1>4 DEF ThreadRecords
  <2> QED BY <1>3, <2>1
<1> HIDE DEF new
<1>6. threads \in Seq(ThreadRecords) /\ TaskTypeOK /\ DispatchTypeOK
  BY DEF CycleTypeOK, TaskTypeOK
<1>7. /\ threads' \in Seq(ThreadRecords) /\ Len(threads') = Len(threads) + Len(new)
      /\ Len(threads) \in Nat /\ Len(new) \in Nat
  BY <1>1, <1>5, <1>6
<1>8. ready' \subseteq DOMAIN threads'
  <2>1. DOMAIN threads = 1..Len(threads) /\ DOMAIN threads' = 1..Len(threads')
    BY <1>6, <1>7
  <2>2. 1..Len(threads) \subseteq 1..Len(threads')
    BY <1>7
  <2> QED BY <1>1, <1>6, <2>1, <2>2 DEF TaskTypeOK
<1>9. /\ turn' \in 0..ThreadTurn(Len(threads')) /\ at' = "inner"
      /\ progressed' \in BOOLEAN /\ pending' \in BOOLEAN
  <2>1. Len(threads') >= Len(threads) /\ Len(threads') \in Nat /\ "inner" \in Positions
    BY <1>7 DEF Positions
  <2> QED BY <1>1, <1>6, <2>1, GotoType
<1>10. DispatchTypeOK'
  <2>1. stateRequestQueue' \in Seq(Requests)
    BY <1>1
  <2> QED BY <1>1, <1>6, <2>1 DEF DispatchTypeOK
<1> QED BY <1>1, <1>6, <1>7, <1>8, <1>9, <1>10 DEF CycleTypeOK, TaskTypeOK

\* What the last drain leaves, whether the run closes or not.
LEMMA DrainOuterType ==
  ASSUME CycleTypeOK, DrainOuter
  PROVE  /\ CycleTypeOK'
         /\ channel'["config"] = << >>
         /\ config' = UpdateByAll(config, channel["config"])
         /\ \/ at' = "closed" /\ turn' = 0 /\ UNCHANGED <<alive, revoked>>
            \/ /\ at' = "load" /\ turn' = 0 /\ pending' = FALSE /\ threads' = << >>
               /\ toResume' = << >> /\ NewCounter /\ failWorkflowByClient' = FALSE
               /\ revoked' = FALSE /\ closing' = FALSE
<1> DEFINE rpc == StartRequests(FlattenSeq(channel["rpc"]))
<1>1. rpc \in Seq(Requests)
  <2>1. channel["rpc"] \in Seq(RpcStates)
    BY PayloadsOfKinds DEF CycleTypeOK, DispatchTypeOK
  <2> QED BY <2>1, RpcRequestsType
<1> HIDE DEF rpc
<1>2. channel["config"] \in Seq(ConfigUpdates)
  BY PayloadsOfKinds DEF CycleTypeOK, DispatchTypeOK
<1>3. UpdateByAll(config, channel["config"]) \in WorkflowConfigs
  BY <1>2, UpdatesType DEF CycleTypeOK, DispatchTypeOK
<1>4. \A f : f = [k \in Kinds |-> << >>] \/
              f = [k \in Kinds |-> IF k = "trigger" THEN channel[k] ELSE << >>] =>
        /\ DOMAIN f = Kinds /\ \A k \in Kinds : f[k] \in Seq(Payloads(k))
        /\ f["config"] = << >>
  <2>1. \A k \in Kinds : channel[k] \in Seq(Payloads(k)) /\ << >> \in Seq(Payloads(k))
    BY DEF CycleTypeOK, DispatchTypeOK
  <2>2. "config" \in Kinds /\ "config" # "trigger"
    BY PayloadsOfKinds
  <2> QED BY <2>1, <2>2
<1>5. /\ DispatchTypeOK /\ TaskTypeOK /\ stateRequestQueue \in Seq(Requests)
      /\ toResume \in Seq(StateIds) /\ threads \in Seq(ThreadRecords)
  BY DEF CycleTypeOK, DispatchTypeOK, TaskTypeOK
<1>6. CASE /\ DrainAllReceivedButUnprocessedSignals
           /\ Goto("closed")
           /\ UNCHANGED <<signalsReceived, executedStateApis, triggeredByAPI, alive,
                          dumpVars, threadVars, closeVars, boundVars, revoked>>
  <2>1. /\ config' = UpdateByAll(config, channel["config"])
        /\ failWorkflowByClient' \in BOOLEAN
        /\ stateRequestQueue' = stateRequestQueue \o rpc
        /\ channel' = [k \in Kinds |-> IF k = "trigger" THEN channel[k] ELSE << >>]
    BY <1>6, Zenon DEF DrainAllReceivedButUnprocessedSignals, rpc
  <2>2. stateRequestQueue' \in Seq(Requests)
    BY <1>1, <1>5, <2>1
  <2>3. DispatchTypeOK'
    BY <1>3, <1>4, <1>5, <1>6, <2>1, <2>2 DEF DispatchTypeOK
  <2>4. UNCHANGED <<threads, ready, toResume, progressed, pending>> /\ at' = "closed" /\ turn' = 0
    BY <1>6 DEF Goto, threadVars
  <2>5. turn' \in 0..ThreadTurn(Len(threads'))
    BY <1>5, <2>4, SevenTurns
  <2>6. TaskTypeOK'
    BY <1>5, <2>4, <2>5 DEF TaskTypeOK
  <2> QED BY <1>4, <1>6, <2>1, <2>3, <2>4, <2>6 DEF CycleTypeOK
<1>7. CASE /\ \E queue \in {stateRequestQueue \o rpc} :
                stateRequestQueue' = queue \o [i \in DOMAIN toResume |->
                                                 [state |-> toResume[i], resume |-> TRUE]]
           /\ config' = CarriedConfig
           /\ channel' = [k \in Kinds |-> << >>]
           /\ NewCounter
           /\ alive' = {} /\ failWorkflowByClient' = FALSE
           /\ threads' = << >> /\ ready' = {} /\ toResume' = << >>
           /\ at' = "load" /\ turn' = 0 /\ progressed' = FALSE /\ pending' = FALSE
           /\ revoked' = FALSE /\ closing' = FALSE
  <2> DEFINE resumed == [i \in DOMAIN toResume |-> [state |-> toResume[i], resume |-> TRUE]]
  <2>1. resumed \in Seq(Requests)
    <3>1. Len(toResume) \in Nat /\ DOMAIN toResume = 1..Len(toResume)
      BY <1>5
    <3>2. \A i \in 1..Len(toResume) : [state |-> toResume[i], resume |-> TRUE] \in Requests
      BY <1>5, <3>1 DEF Requests
    <3> QED BY <3>1, <3>2
  <2>2. stateRequestQueue' = (stateRequestQueue \o rpc) \o resumed
    BY <1>7
  <2> HIDE DEF resumed
  <2>3. stateRequestQueue' \in Seq(Requests)
    BY <1>1, <1>5, <2>1, <2>2
  <2>4. config' = UpdateByAll(config, channel["config"])
    BY <1>7 DEF CarriedConfig
  <2>5. signalsReceived' = 0 /\ executedStateApis' = 0 /\ triggeredByAPI' = FALSE
    BY <1>7 DEF NewCounter
  <2>6. DispatchTypeOK'
    <3>1. /\ alive' = {} /\ failWorkflowByClient' = FALSE
          /\ DOMAIN channel' = Kinds /\ \A k \in Kinds : channel'[k] \in Seq(Payloads(k))
      BY <1>4, <1>7
    <3> QED BY <1>3, <2>3, <2>4, <2>5, <3>1 DEF DispatchTypeOK
  <2>7. TaskTypeOK'
    <3>1. threads' \in Seq(ThreadRecords) /\ toResume' \in Seq(StateIds) /\ Len(threads') = 0
      BY <1>7
    <3>2. turn' \in 0..ThreadTurn(Len(threads')) /\ progressed' \in BOOLEAN /\ pending' \in BOOLEAN
      <4>1. /\ turn' = 0 /\ progressed' = FALSE /\ pending' = FALSE
            /\ ThreadTurn(Len(threads')) = 7 + 0
        BY <1>7, <3>1, SevenTurns
      <4>2. turn' \in 0..ThreadTurn(Len(threads'))
        BY <4>1
      <4> QED BY <4>1, <4>2, Zenon
    <3>3. ready' \subseteq DOMAIN threads' /\ at' = "load"
      BY <1>7
    <3> QED BY <3>1, <3>2, <3>3, Zenon DEF TaskTypeOK
  <2> QED BY <1>4, <1>7, <2>4, <2>6, <2>7 DEF CycleTypeOK
<1> QED BY <1>6, <1>7, Zenon DEF DrainOuter, rpc

\* The phase of one thread changes.
LEMMA PhaseChange ==
  ASSUME TaskTypeOK, NEW i \in DOMAIN threads, NEW ph \in Phases,
         threads' = [threads EXCEPT ![i].phase = ph]
  PROVE  /\ threads' \in Seq(ThreadRecords) /\ Len(threads') = Len(threads)
         /\ DOMAIN threads' = DOMAIN threads
         /\ threads[i] \in ThreadRecords /\ threads'[i].phase = ph
         /\ threads'[i].state = threads[i].state
         /\ \A j \in DOMAIN threads \ {i} : threads'[j] = threads[j]
<1>1. threads \in Seq(ThreadRecords) /\ Len(threads) \in Nat /\ DOMAIN threads = 1..Len(threads)
  BY DEF TaskTypeOK
<1>2. threads' = [j \in 1..Len(threads) |-> threads'[j]]
  BY <1>1
<1>3. \A j \in 1..Len(threads) : threads[j] \in ThreadRecords
  BY <1>1
<1>4. /\ threads'[i].phase = ph /\ threads'[i].state = threads[i].state
      /\ threads'[i] \in ThreadRecords
  BY <1>1, <1>3 DEF ThreadRecords
<1>5. \A j \in DOMAIN threads \ {i} : threads'[j] = threads[j]
  BY <1>1
<1>6. \A j \in 1..Len(threads) : threads'[j] \in ThreadRecords
  BY <1>1, <1>3, <1>4, <1>5
<1> QED BY <1>1, <1>2, <1>3, <1>4, <1>5, <1>6

LEMMA ThreadBlockedType ==
  ASSUME CycleTypeOK, NEW i \in DOMAIN threads, ThreadBlocked(i)
  PROVE  CycleTypeOK'
<1>1. UNCHANGED <<dispatchVars, threads, ready, toResume, at>> /\ Yield(FALSE)
  BY DEF ThreadBlocked, threadVars
<1>2. turn # 0
  <2>1. turn = 7 + i /\ i \in Nat
    BY SevenTurns DEF ThreadBlocked, CycleTypeOK, TaskTypeOK
  <2> QED BY <2>1
<1>3. /\ turn' \in 0..ThreadTurn(Len(threads'))
      /\ progressed' \in BOOLEAN /\ pending' \in BOOLEAN
  BY <1>1, <1>2, YieldType DEF CycleTypeOK
<1> QED BY <1>1, <1>3, SameDispatch DEF CycleTypeOK, TaskTypeOK

LEMMA ThreadAdvancesType ==
  ASSUME CycleTypeOK, NEW i \in DOMAIN threads, ThreadAdvances(i)
  PROVE  CycleTypeOK'
<1>1. /\ UNCHANGED <<dispatchVars, toResume, at>> /\ ready' = ready \ {i}
      /\ IF threads'[i].phase = "waiting" THEN Continue ELSE Yield(TRUE)
  BY DEF ThreadAdvances
<1>2. PICK ph \in Phases : threads' = [threads EXCEPT ![i].phase = ph]
  <2>1. \E ph \in Phases : ph = IF threads[i].phase = "waitUntil" THEN "waiting" ELSE "execute"
    BY DEF Phases
  <2> QED BY <2>1 DEF ThreadAdvances
<1>3. /\ threads' \in Seq(ThreadRecords) /\ Len(threads') = Len(threads)
      /\ DOMAIN threads' = DOMAIN threads
  BY <1>2, PhaseChange DEF CycleTypeOK
<1>4. turn # 0
  <2>1. turn = 7 + i /\ i \in Nat
    BY SevenTurns DEF ThreadAdvances, CycleTypeOK, TaskTypeOK
  <2> QED BY <2>1
<1>5. /\ turn' \in 0..ThreadTurn(Len(threads'))
      /\ progressed' \in BOOLEAN /\ pending' \in BOOLEAN
  <2>1. CASE Continue
    <3>1. Len(threads') >= Len(threads) /\ Len(threads') \in Nat
      BY <1>3 DEF CycleTypeOK, TaskTypeOK
    <3> QED BY <2>1, <3>1, ContinueType DEF CycleTypeOK
  <2>2. CASE Yield(TRUE)
    BY <1>3, <1>4, <2>2, YieldType DEF CycleTypeOK
  <2> QED BY <1>1, <2>1, <2>2
<1> QED BY <1>1, <1>3, <1>5, SameDispatch DEF CycleTypeOK, TaskTypeOK

LEMMA ThreadParksType ==
  ASSUME CycleTypeOK, NEW i \in DOMAIN threads, ThreadParks(i)
  PROVE  CycleTypeOK'
<1>1. /\ UNCHANGED <<dispatchVars, ready, at>> /\ toResume' = Append(toResume, threads[i].state)
      /\ Yield(TRUE) /\ threads' = [threads EXCEPT ![i].phase = "done"]
  BY DEF ThreadParks
<1>2. "done" \in Phases
  BY DEF Phases
<1>3. /\ threads' \in Seq(ThreadRecords) /\ Len(threads') = Len(threads)
      /\ DOMAIN threads' = DOMAIN threads /\ threads[i] \in ThreadRecords
  BY <1>1, <1>2, PhaseChange DEF CycleTypeOK
<1>4. turn # 0
  <2>1. turn = 7 + i /\ i \in Nat
    BY SevenTurns DEF ThreadParks, CycleTypeOK, TaskTypeOK
  <2> QED BY <2>1
<1>5. /\ turn' \in 0..ThreadTurn(Len(threads'))
      /\ progressed' \in BOOLEAN /\ pending' \in BOOLEAN
  BY <1>1, <1>3, <1>4, YieldType DEF CycleTypeOK
<1>6. toResume' \in Seq(StateIds)
  BY <1>1, <1>3 DEF CycleTypeOK, TaskTypeOK, ThreadRecords
<1> QED BY <1>1, <1>3, <1>5, <1>6, SameDispatch DEF CycleTypeOK, TaskTypeOK

\* The next states of a decision are states, and so are those that are queued.
LEMMA DecisionNext ==
  ASSUME CycleTypeOK, NEW i \in DOMAIN threads, NEW d \in Decisions[threads[i].state]
  PROVE  d.next \in Seq(StateIds) /\ << >> \in Seq(StateIds)
<1>1. threads[i] \in ThreadRecords
  BY DEF CycleTypeOK, TaskTypeOK
<1>2. threads[i].state \in StateIds
  BY <1>1 DEF ThreadRecords
<1>3. d \in [next : Seq(StateIds), close : {"none", "graceful", "force", "conditional"}]
  BY <1>2, DecisionsAssumption
<1> QED BY <1>3

\* What the drain before a conditional close does.
LEMMA ThreadDrainsType ==
  ASSUME CycleTypeOK, NEW i \in DOMAIN threads, ThreadDrains(i)
  PROVE  /\ CycleTypeOK' /\ Len(threads') = Len(threads)
         /\ config' = UpdateByAll(config, channel["config"])
         /\ channel'["config"] = << >>
         /\ \A k \in Kinds : channel[k] = << >> => channel'[k] = << >>
<1>1. /\ UNCHANGED <<signalsReceived, executedStateApis, triggeredByAPI, alive, at, toResume>>
      /\ ready' = ready \ {i} /\ threads' = [threads EXCEPT ![i].phase = "closing"]
      /\ config' = UpdateByAll(config, channel["config"])
      /\ failWorkflowByClient' = (failWorkflowByClient \/ channel["fail"] # << >>)
      /\ stateRequestQueue' =
           stateRequestQueue \o StartRequests(FlattenSeq(channel["rpc"]))
      /\ channel' = [k \in Kinds |-> IF k = "trigger" THEN channel[k] ELSE << >>]
      /\ Continue \/ Yield(TRUE)
  BY DEF ThreadDrains, DrainAllReceivedButUnprocessedSignals
<1>2. "closing" \in Phases
  BY DEF Phases
<1>3. /\ threads' \in Seq(ThreadRecords) /\ Len(threads') = Len(threads)
      /\ DOMAIN threads' = DOMAIN threads
  BY <1>1, <1>2, PhaseChange DEF CycleTypeOK
<1>4. turn # 0
  <2>1. turn = 7 + i /\ i \in Nat
    BY SevenTurns DEF ThreadDrains, CycleTypeOK, TaskTypeOK
  <2> QED BY <2>1
<1>5. /\ turn' \in 0..ThreadTurn(Len(threads'))
      /\ progressed' \in BOOLEAN /\ pending' \in BOOLEAN
  <2>1. CASE Continue
    <3>1. Len(threads') >= Len(threads) /\ Len(threads') \in Nat
      BY <1>3 DEF CycleTypeOK, TaskTypeOK
    <3> QED BY <2>1, <3>1, ContinueType DEF CycleTypeOK
  <2>2. CASE Yield(TRUE)
    BY <1>3, <1>4, <2>2, YieldType DEF CycleTypeOK
  <2> QED BY <1>1, <2>1, <2>2
<1>6. channel["config"] \in Seq(ConfigUpdates) /\ channel["rpc"] \in Seq(RpcStates)
  BY PayloadsOfKinds DEF CycleTypeOK, DispatchTypeOK
<1>7. config' \in WorkflowConfigs
  BY <1>1, <1>6, UpdatesType DEF CycleTypeOK, DispatchTypeOK
<1>8. stateRequestQueue' \in Seq(Requests)
  <2>1. StartRequests(FlattenSeq(channel["rpc"])) \in Seq(Requests)
    BY <1>6, RpcRequestsType
  <2> QED BY <1>1, <2>1 DEF CycleTypeOK, DispatchTypeOK
<1>9. /\ DOMAIN channel' = Kinds
      /\ \A k \in Kinds : channel'[k] = IF k = "trigger" THEN channel[k] ELSE << >>
  BY <1>1
<1>10. \A k \in Kinds : channel'[k] \in Seq(Payloads(k))
  <2>1. \A k \in Kinds : channel[k] \in Seq(Payloads(k)) /\ << >> \in Seq(Payloads(k))
    BY DEF CycleTypeOK, DispatchTypeOK
  <2> QED BY <1>9, <2>1
<1>11. failWorkflowByClient' \in BOOLEAN
  BY <1>1 DEF CycleTypeOK, DispatchTypeOK
<1>12. DispatchTypeOK'
  BY <1>1, <1>7, <1>8, <1>9, <1>10, <1>11 DEF CycleTypeOK, DispatchTypeOK
<1>13. TaskTypeOK'
  BY <1>1, <1>3, <1>5 DEF CycleTypeOK, TaskTypeOK
<1> QED BY <1>1, <1>3, <1>9, <1>12, <1>13, PayloadsOfKinds DEF CycleTypeOK

LEMMA CompletesType ==
  ASSUME CycleTypeOK, NEW i \in DOMAIN threads, turn = ThreadTurn(i),
         NEW next, NEW queued \in Seq(StateIds), Completes(i, next, queued)
  PROVE  /\ CycleTypeOK'
         /\ executedStateApis' >= executedStateApis
<1>1. /\ UNCHANGED <<config, signalsReceived, triggeredByAPI, signalVars, at, toResume>>
      /\ stateRequestQueue' = stateRequestQueue \o StartRequests(queued)
      /\ executedStateApis' = executedStateApis + StateApis(threads[i].state)
      /\ ready' = ready \ {i}
      /\ Yield(TRUE) /\ threads' = [threads EXCEPT ![i].phase = "done"]
  BY DEF Completes
<1>2. "done" \in Phases
  BY DEF Phases
<1>3. /\ threads' \in Seq(ThreadRecords) /\ Len(threads') = Len(threads)
      /\ DOMAIN threads' = DOMAIN threads /\ threads[i] \in ThreadRecords
  BY <1>1, <1>2, PhaseChange DEF CycleTypeOK
<1>4. turn # 0
  <2>1. turn = 7 + i /\ i \in Nat
    BY SevenTurns DEF CycleTypeOK, TaskTypeOK
  <2> QED BY <2>1
<1>5. /\ turn' \in 0..ThreadTurn(Len(threads'))
      /\ progressed' \in BOOLEAN /\ pending' \in BOOLEAN
  BY <1>1, <1>3, <1>4, YieldType DEF CycleTypeOK
<1>6. stateRequestQueue' \in Seq(Requests)
  <2>1. StartRequests(queued) \in Seq(Requests)
    BY StartRequestsType
  <2> QED BY <1>1, <2>1 DEF CycleTypeOK, DispatchTypeOK
<1>7. executedStateApis' \in Nat /\ executedStateApis' >= executedStateApis
  BY <1>1 DEF CycleTypeOK, DispatchTypeOK, StateApis
<1>8. DispatchTypeOK'
  BY <1>1, <1>6, <1>7 DEF CycleTypeOK, DispatchTypeOK, signalVars
<1> QED BY <1>1, <1>3, <1>5, <1>7, <1>8 DEF CycleTypeOK, TaskTypeOK

LEMMA CycleTypeStep ==
  ASSUME CycleTypeOK, [Next]_vars
  PROVE  CycleTypeOK'
<1>1. CASE \E k \in Kinds : \E p \in Payloads(k) : Arrive(k, p)
  BY <1>1, ArriveType
<1>2. CASE \/ \E i \in DOMAIN threads : Ready(i)
           \/ \E v \in Versions : DeployWorkers(v)
           \/ StartTask \/ UNCHANGED vars
  BY <1>2, QuietEventsType
<1>3. CASE MainBlocked \/ Outer \/ Top \/ Inner \/ DrainInner
  BY <1>3, MainType
<1>4. CASE Load \/ StatesToExecute \/ DrainOuter
  BY <1>4, LoadType, StatesToExecuteType, DrainOuterType
<1>5. CASE \E k \in Kinds : CallHandler(k)
  BY <1>5, HandlerType
<1>6. CASE \E i \in DOMAIN threads :
             ThreadBlocked(i) \/ ThreadAdvances(i) \/ ThreadParks(i) \/ ThreadDrains(i)
  BY <1>6, ThreadBlockedType, ThreadAdvancesType, ThreadParksType, ThreadDrainsType
<1>7. CASE \E i \in DOMAIN threads : \E d \in Decisions[threads[i].state] :
             ThreadCompletes(i, d) \/ \E met \in BOOLEAN : ConditionalClose(i, d, met)
  <2>1. PICK i \in DOMAIN threads : \E next : \E queued \in Seq(StateIds) :
          turn = ThreadTurn(i) /\ Completes(i, next, queued)
    BY <1>7, DecisionNext DEF ThreadCompletes, ConditionalClose
  <2> QED BY <2>1, CompletesType
<1> QED BY <1>1, <1>2, <1>3, <1>4, <1>5, <1>6, <1>7, Zenon DEF Next, TaskStep

-----------------------------------------------------------------------------
(* The sweep over the coroutines *)

Running  == at \in {"outer", "top", "inner"}

\* A new run that has not entered its main loop has counted nothing.
LoadOK ==
  at = "load" =>
    /\ turn = 0 /\ ~pending /\ threads = << >> /\ toResume = << >>
    /\ signalsReceived = 0 /\ executedStateApis = 0 /\ ~triggeredByAPI
    /\ ~failWorkflowByClient /\ ~revoked
ClosedOK == at = "closed" => turn = 0

\* Between two tasks the main coroutine has nothing to do, and a handler that has
\* not ended has received all its signals, unless something happened since.
RestOK ==
  turn = 0 =>
    /\ Running => at # "top" /\ ~IsThresholdMet /\ ~failWorkflowByClient
    /\ Draining => alive = {}
    /\ (Running \/ Draining) /\ ~pending =>
         ~MainCanGo /\ \A k \in alive : channel[k] = << >>

\* Only a run whose handlers have ended can lose its threshold again.
RevokedOK == revoked => alive = {}

\* No update of the config is left that a handler could still receive in a drain.
DrainOK ==
  Draining /\ ~revoked => IsThresholdMet /\ (channel["config"] # << >> => alive = {})

\* Why a handler has ended in a run that goes on.
HandlersOK ==
  Running /\ ~revoked =>
    /\ "fail" \notin alive => failWorkflowByClient
    /\ \A k \in {"config", "trigger", "rpc", "user"} \ alive :
         IsThresholdMet /\ channel["config"] = << >>

\* What the main coroutine sees of the threshold is what the update-config handler
\* has left: no update is between them, and none is left for a conditional close.
OrderOK ==
  Running =>
    /\ ~revoked /\ (turn >= 5 \/ (turn = 1 /\ IsThresholdMet)) => channel["config"] = << >>
    /\ turn = 2 => ~IsThresholdMet /\ ~failWorkflowByClient

\* In a sweep in which nobody has moved, those that were called are blocked.
QuietOK ==
  turn >= 2 /\ ~progressed =>
    /\ ~MainCanGo
    /\ \A j \in 2..7 : j < turn /\ HandlerAt[j] \in alive =>
         channel[HandlerAt[j]] = << >> /\ ~IsThresholdMet

\* The updates that have not been received lead from the config to what was sent.
ConfigOK ==
  /\ DOMAIN sentConfig = Settable \cup {"optimizeTimer"}
  /\ Open => \A f \in Settable : sentConfig[f] = UpdateByAll(config, channel["config"])[f]

SweepInv ==
  /\ LoadOK /\ ClosedOK /\ RestOK /\ RevokedOK /\ DrainOK /\ HandlersOK /\ OrderOK
  /\ QuietOK /\ ConfigOK

LEMMA HandlerOrder ==
  /\ DOMAIN HandlerAt = 2..7
  /\ HandlerAt[2] = "fail" /\ HandlerAt[3] = "skip" /\ HandlerAt[4] = "config"
  /\ HandlerAt[5] = "trigger" /\ HandlerAt[6] = "rpc" /\ HandlerAt[7] = "user"
BY DEF HandlerAt, Handlers

LEMMA SomeTurn ==
  ASSUME NEW k \in Kinds
  PROVE  \E j \in 2..7 : HandlerAt[j] = k
BY HandlerOrder DEF Kinds

\* The threshold stays met as long as the config is the same.
LEMMA MetMonotone ==
  ASSUME DispatchTypeOK, DispatchTypeOK', config' = config,
         signalsReceived' >= signalsReceived, executedStateApis' >= executedStateApis,
         triggeredByAPI => triggeredByAPI', IsThresholdMet
  PROVE  IsThresholdMet'
BY DEF DispatchTypeOK, WorkflowConfigs, IsThresholdMet, IsThresholdMetWith

LEMMA MetSame ==
  ASSUME UNCHANGED configVars
  PROVE  IsThresholdMet' <=> IsThresholdMet
BY DEF configVars, IsThresholdMet, IsThresholdMetWith

LEMMA MainWaits ==
  ASSUME TaskTypeOK, ~MainCanGo
  PROVE  /\ at \in {"outer", "inner"} => ~IsThresholdMet /\ ~failWorkflowByClient
         /\ at \notin {"top", "load", "closed"}
<1>1. at = "outer" => (MainCanGo <=> \/ stateRequestQueue # << >> \/ failWorkflowByClient
                                      \/ shouldGracefulComplete \/ IsThresholdMet)
  BY DEF MainCanGo
<1>2. at = "inner" => (MainCanGo <=> \/ stateRequestQueue # << >> \/ failWorkflowByClient
                                      \/ closing \/ totalCurrentlyExecutingCount = 0
                                      \/ IsThresholdMet)
  BY DEF MainCanGo
<1>3. at \in {"top", "load", "closed"} => MainCanGo
  BY DEF MainCanGo
<1> QED BY <1>1, <1>2, <1>3

LEMMA MainSame ==
  ASSUME UNCHANGED <<dispatchVars, at, threads, closeVars, totalCurrentlyExecutingCount>>
  PROVE  MainCanGo' <=> MainCanGo
BY DEF dispatchVars, configVars, signalVars, closeVars, MainCanGo, AllThreadsDrained,
       IsThresholdMet, IsThresholdMetWith

\* Where a coroutine that blocks or ends hands over to.
LEMMA YieldEffect ==
  ASSUME TaskTypeOK, turn # 0, NEW b \in BOOLEAN, Yield(b), Len(threads') = Len(threads)
  PROVE  /\ pending' = pending
         /\ \/ /\ turn' = turn + 1 /\ turn < 7 + Len(threads)
               /\ progressed' <=> progressed \/ b
            \/ turn' = 1 /\ ~progressed' /\ (progressed \/ b) /\ turn = 7 + Len(threads)
            \/ turn' = 0 /\ ~progressed' /\ ~progressed /\ ~b /\ turn = 7 + Len(threads)
<1>1. Len(threads) \in Nat /\ turn \in 0..7 + Len(threads)
  BY SevenTurns DEF TaskTypeOK
<1>2. ThreadTurn(Len(threads')) = 7 + Len(threads)
  BY SevenTurns
<1>3. CASE turn = 7 + Len(threads)
  <2>1. /\ turn' = IF progressed \/ b THEN 1 ELSE 0
        /\ ~progressed' /\ pending' = pending
    BY <1>2, <1>3, Zenon DEF Yield, MainTurn
  <2> QED BY <1>3, <2>1
<1>4. CASE turn # 7 + Len(threads)
  <2>1. /\ turn' = turn + 1 /\ pending' = pending
        /\ progressed' <=> progressed \/ b
    BY <1>2, <1>4, Zenon DEF Yield, MainTurn
  <2> QED BY <1>1, <1>4, <2>1
<1> QED BY <1>3, <1>4

LEMMA InitSweep == Init => SweepInv
<1> SUFFICES ASSUME Init PROVE SweepInv
  OBVIOUS
<1>1. DispatchTypeOK
  BY InitType DEF CycleTypeOK
<1>2. /\ signalsReceived = 0 /\ executedStateApis = 0 /\ ~triggeredByAPI /\ alive = Kinds
      /\ ~failWorkflowByClient /\ at = "outer" /\ turn = 0 /\ pending
      /\ sentConfig = config /\ channel = [k \in Kinds |-> << >>] /\ ~revoked
  BY DEF Init
<1>3. ~IsThresholdMet
  BY <1>1, <1>2 DEF IsThresholdMet, IsThresholdMetWith, DispatchTypeOK, WorkflowConfigs
<1>4. ConfigOK
  <2>1. channel["config"] = << >>
    BY <1>2, PayloadsOfKinds
  <2>2. DOMAIN config = Settable \cup {"optimizeTimer"}
    BY <1>1, SettableCopied DEF DispatchTypeOK
  <2> QED BY <1>2, <2>1, <2>2, UpdateByNone DEF ConfigOK
<1>5. HandlersOK
  BY <1>2 DEF HandlersOK, Kinds
<1>6. LoadOK /\ ClosedOK /\ RestOK /\ RevokedOK /\ DrainOK /\ OrderOK /\ QuietOK
  BY <1>2, <1>3
  DEF LoadOK, ClosedOK, RestOK, RevokedOK, DrainOK, OrderOK, QuietOK, Running, Draining
<1> QED BY <1>4, <1>5, <1>6 DEF SweepInv

LEMMA ArriveSweep ==
  ASSUME CycleTypeOK, SweepInv, NEW k \in Kinds, NEW p \in Payloads(k), Arrive(k, p)
  PROVE  SweepInv'
<1>1. /\ channel'[k] = Append(channel[k], p)
      /\ \A j \in Kinds \ {k} : channel'[j] = channel[j]
  BY ArriveType
<1>2. /\ UNCHANGED <<configVars, alive, failWorkflowByClient, at, turn, threads, toResume, revoked>>
      /\ turn = 0 /\ Open /\ pending' = (at # "load")
      /\ sentConfig' = IF k = "config" THEN Requested(sentConfig, p) ELSE sentConfig
  BY DEF Arrive, threadVars
<1>3. IsThresholdMet' <=> IsThresholdMet
  BY <1>2, MetSame
<1>4. ConfigOK'
  <2> DEFINE cfg == UpdateByAll(config, channel["config"])
  <2>1. /\ DOMAIN sentConfig = Settable \cup {"optimizeTimer"}
        /\ \A f \in Settable : sentConfig[f] = cfg[f]
    BY <1>2 DEF SweepInv, ConfigOK
  <2>2. config' = config
    BY <1>2 DEF configVars
  <2>3. CASE k = "config"
    <3>1. /\ channel["config"] \in Seq(ConfigUpdates) /\ p \in ConfigUpdates
          /\ config \in WorkflowConfigs
      BY <2>3, PayloadsOfKinds DEF CycleTypeOK, DispatchTypeOK
    <3>2. DOMAIN cfg = Settable \cup {"optimizeTimer"}
      BY <3>1, UpdatesType, SettableCopied
    <3>3. (UpdateByAll(config, channel["config"]))' = UpdateByAPI(cfg, p)
      BY <1>1, <2>2, <2>3, <3>1, UpdateByOneMore, ZenonT(60)
    <3> HIDE DEF cfg
    <3>4. \A f \in Settable : Requested(sentConfig, p)[f] = UpdateByAPI(cfg, p)[f]
      BY <2>1, <3>2, SettableCopied DEF Requested, UpdateByAPI
    <3>5. DOMAIN sentConfig' = DOMAIN sentConfig
      BY <1>2, <2>3 DEF Requested
    <3> QED BY <1>2, <2>1, <2>3, <3>3, <3>4, <3>5 DEF ConfigOK
  <2>4. CASE k # "config"
    BY <1>1, <1>2, <2>1, <2>2, <2>4, PayloadsOfKinds DEF ConfigOK
  <2> QED BY <2>3, <2>4
<1>5. LoadOK' /\ ClosedOK'
  BY <1>2 DEF SweepInv, LoadOK, ClosedOK, configVars
<1>6. RestOK' /\ RevokedOK' /\ DrainOK' /\ HandlersOK' /\ OrderOK' /\ QuietOK'
  <2>1. /\ Running => ~IsThresholdMet /\ at # "top" /\ ~failWorkflowByClient
        /\ Draining => alive = {}
        /\ Draining /\ ~revoked => IsThresholdMet
    BY <1>2 DEF SweepInv, RestOK, DrainOK
  <2>2. Running \/ Draining => pending'
    BY <1>2 DEF Running, Draining
  <2>3. (Running' <=> Running) /\ (Draining' <=> Draining)
    BY <1>2 DEF Running, Draining
  <2>4. RestOK'
    BY <1>2, <1>3, <2>1, <2>2, <2>3 DEF RestOK
  <2>5. DrainOK'
    BY <1>2, <1>3, <2>1, <2>3 DEF DrainOK
  <2>6. HandlersOK'
    BY <1>2, <1>3, <2>1, <2>3 DEF SweepInv, HandlersOK
  <2>7. OrderOK' /\ QuietOK'
    BY <1>2 DEF OrderOK, QuietOK
  <2>8. RevokedOK'
    BY <1>2 DEF SweepInv, RevokedOK
  <2> QED BY <2>4, <2>5, <2>6, <2>7, <2>8
<1> QED BY <1>4, <1>5, <1>6 DEF SweepInv

\* A step that leaves alone all that the invariant speaks of but the turn.
LEMMA EventsSweep ==
  ASSUME CycleTypeOK, SweepInv,
         \/ \E i \in DOMAIN threads : Ready(i)
         \/ \E v \in Versions : DeployWorkers(v)
         \/ StartTask
         \/ UNCHANGED vars
  PROVE  SweepInv'
<1>1. /\ UNCHANGED <<dispatchVars, threads, toResume, at, sentConfig, revoked, closeVars,
                     totalCurrentlyExecutingCount>>
      /\ \/ UNCHANGED <<turn, progressed, pending>>
         \/ turn = 0 /\ turn' = 0 /\ pending' /\ progressed' = progressed
            /\ \E i \in DOMAIN threads : TRUE
         \/ turn = 0 /\ turn' = 1 /\ pending
  <2>1. CASE \E i \in DOMAIN threads : Ready(i)
    BY <2>1 DEF Ready, historyVars, counterVars
  <2>2. CASE \E v \in Versions : DeployWorkers(v)
    BY <2>2 DEF DeployWorkers, historyVars, counterVars, threadVars, taskVars
  <2>3. CASE StartTask
    BY <2>3 DEF StartTask, historyVars, counterVars, threadVars, MainTurn
  <2>4. CASE UNCHANGED vars
    BY <2>4 DEF vars, historyVars, counterVars, threadVars, taskVars
  <2> QED BY <2>1, <2>2, <2>3, <2>4
<1>2. /\ UNCHANGED <<config, signalsReceived, executedStateApis, triggeredByAPI,
                     channel, alive, failWorkflowByClient>>
      /\ UNCHANGED configVars
  BY <1>1 DEF dispatchVars, configVars, signalVars
<1>3. (IsThresholdMet' <=> IsThresholdMet) /\ (MainCanGo' <=> MainCanGo)
  BY <1>1, <1>2, MetSame, MainSame
<1>4. (Running' <=> Running) /\ (Draining' <=> Draining) /\ (Open' <=> Open)
  BY <1>1 DEF Running, Draining, Open
<1>5. ConfigOK'
  BY <1>1, <1>2, <1>4 DEF SweepInv, ConfigOK
<1>6. RevokedOK' /\ DrainOK' /\ HandlersOK'
  BY <1>1, <1>2, <1>3, <1>4 DEF SweepInv, RevokedOK, DrainOK, HandlersOK
<1>7. LoadOK' /\ ClosedOK' /\ RestOK' /\ OrderOK' /\ QuietOK'
  <2>1. CASE UNCHANGED <<turn, progressed, pending>>
    <3>1. LoadOK' /\ ClosedOK'
      BY <1>1, <1>2, <2>1 DEF SweepInv, LoadOK, ClosedOK
    <3>2. RestOK' /\ OrderOK'
      BY <1>1, <1>2, <1>3, <1>4, <2>1 DEF SweepInv, RestOK, OrderOK
    <3>3. QuietOK'
      BY <1>2, <1>3, <2>1 DEF SweepInv, QuietOK, HandlerAt
    <3> QED BY <3>1, <3>2, <3>3
  <2>2. CASE turn = 0 /\ turn' = 0 /\ pending' /\ \E i \in DOMAIN threads : TRUE
    <3>1. at # "load"
      BY <2>2 DEF SweepInv, LoadOK
    <3> QED BY <1>1, <1>2, <1>3, <1>4, <2>2, <3>1
            DEF SweepInv, LoadOK, ClosedOK, RestOK, OrderOK, QuietOK
  <2>3. CASE StartTask
    <3>1. at \notin {"load", "closed"} /\ turn = 0 /\ turn' = 1
      BY <2>3 DEF StartTask, SweepInv, LoadOK, Open, MainTurn
    <3>2. Running => ~IsThresholdMet
      BY <3>1 DEF SweepInv, RestOK
    <3> QED BY <1>1, <1>3, <1>4, <3>1, <3>2 DEF LoadOK, ClosedOK, RestOK, OrderOK, QuietOK
  <2>4. CASE turn = 0 /\ turn' = 1 /\ pending
    <3>1. StartTask
      BY <1>1, <2>4 DEF Ready, DeployWorkers, StartTask, vars, taskVars
    <3> QED BY <2>3, <3>1
  <2> QED BY <1>1, <2>1, <2>2, <2>4
<1> QED BY <1>5, <1>6, <1>7 DEF SweepInv

LEMMA LoadSweep ==
  ASSUME CycleTypeOK, SweepInv, Load
  PROVE  SweepInv'
<1>1. /\ UNCHANGED <<configVars, channel, failWorkflowByClient, threads, toResume, pending,
                     sentConfig, revoked>>
      /\ at = "load"
      /\ IF loading' THEN UNCHANGED <<alive, at, turn>>
         ELSE alive' = Kinds /\ at' = "outer" /\ turn' = 1
  BY DEF Load, threadVars, historyVars, taskVars, MainTurn
<1>2. /\ signalsReceived = 0 /\ executedStateApis = 0 /\ ~triggeredByAPI
      /\ ~failWorkflowByClient /\ turn = 0 /\ ~revoked
  BY <1>1 DEF SweepInv, LoadOK
<1>3. ~IsThresholdMet
  BY <1>2 DEF IsThresholdMet, IsThresholdMetWith, CycleTypeOK, DispatchTypeOK, WorkflowConfigs
<1>4. ~IsThresholdMet'
  BY <1>1, <1>3, MetSame
<1>5. ConfigOK'
  BY <1>1 DEF SweepInv, ConfigOK, Open, configVars
<1>6. CASE loading'
  <2>1. at' = "load" /\ turn' = 0
    BY <1>1, <1>2, <1>6
  <2>2. LoadOK' /\ ClosedOK'
    BY <1>1, <2>1 DEF SweepInv, LoadOK, ClosedOK, configVars
  <2>3. RestOK' /\ RevokedOK' /\ DrainOK' /\ HandlersOK' /\ OrderOK' /\ QuietOK'
    BY <1>1, <1>2, <2>1
    DEF RestOK, RevokedOK, DrainOK, HandlersOK, OrderOK, QuietOK, Running, Draining
  <2> QED BY <1>5, <2>2, <2>3 DEF SweepInv
<1>7. CASE ~loading'
  <2>1. at' = "outer" /\ turn' = 1 /\ alive' = Kinds
    BY <1>1, <1>7
  <2>2. HandlersOK'
    BY <1>1, <1>2, <2>1 DEF HandlersOK, Kinds
  <2>3. LoadOK' /\ ClosedOK' /\ RestOK' /\ RevokedOK' /\ DrainOK' /\ OrderOK' /\ QuietOK'
    BY <1>1, <1>2, <1>4, <2>1
    DEF LoadOK, ClosedOK, RestOK, RevokedOK, DrainOK, OrderOK, QuietOK, Draining
  <2> QED BY <1>5, <2>2, <2>3 DEF SweepInv
<1> QED BY <1>6, <1>7

LEMMA MainBlockedSweep ==
  ASSUME CycleTypeOK, SweepInv, MainBlocked
  PROVE  SweepInv'
<1>1. /\ UNCHANGED <<dispatchVars, at, threads, toResume, closeVars,
                     totalCurrentlyExecutingCount, sentConfig, revoked>>
      /\ turn = 1 /\ ~MainCanGo /\ Yield(FALSE)
  BY DEF MainBlocked, threadVars, counterVars, historyVars, MainTurn
<1>2. turn' = 2 /\ (progressed' <=> progressed)
  <2>1. turn # 0 /\ TaskTypeOK /\ Len(threads) \in Nat /\ Len(threads') = Len(threads)
    BY <1>1 DEF CycleTypeOK, TaskTypeOK
  <2>2. \/ turn' = turn + 1 /\ (progressed' <=> progressed \/ FALSE)
        \/ turn = 7 + Len(threads)
    BY <1>1, <2>1, YieldEffect
  <2> QED BY <1>1, <2>1, <2>2
<1>3. /\ UNCHANGED <<config, channel, alive, failWorkflowByClient>>
      /\ UNCHANGED configVars
  BY <1>1 DEF dispatchVars, configVars, signalVars
<1>4. (IsThresholdMet' <=> IsThresholdMet) /\ (MainCanGo' <=> MainCanGo)
  BY <1>1, <1>3, MetSame, MainSame
<1>5. (Running' <=> Running) /\ (Draining' <=> Draining) /\ (Open' <=> Open)
  BY <1>1 DEF Running, Draining, Open
<1>6. /\ Running => ~IsThresholdMet /\ ~failWorkflowByClient
      /\ at' \notin {"load", "closed"}
  BY <1>1, MainWaits DEF CycleTypeOK, Running
<1>7. ConfigOK' /\ RevokedOK' /\ DrainOK' /\ HandlersOK'
  BY <1>1, <1>3, <1>4, <1>5 DEF SweepInv, ConfigOK, RevokedOK, DrainOK, HandlersOK
<1>8. LoadOK' /\ ClosedOK' /\ RestOK' /\ OrderOK'
  BY <1>2, <1>3, <1>4, <1>5, <1>6 DEF LoadOK, ClosedOK, RestOK, OrderOK
<1>9. QuietOK'
  BY <1>1, <1>2, <1>4 DEF QuietOK
<1> QED BY <1>7, <1>8, <1>9 DEF SweepInv

\* The main coroutine goes on: it begins to drain only when the threshold is met,
\* and then no update of the config is left.
LEMMA MainGoesSweep ==
  ASSUME CycleTypeOK, SweepInv, turn = 1, Running \/ Draining,
         NEW where \in {"outer", "top", "inner", "drainInner", "drainOuter", "closed"},
         Goto(where),
         UNCHANGED <<configVars, signalVars, sentConfig, revoked>>,
         where \in {"drainInner", "drainOuter"} => IsThresholdMet,
         Draining /\ ~revoked => where \in {"drainInner", "drainOuter", "closed"}
  PROVE  SweepInv'
<1>1. /\ at' = where
      /\ IF where = "closed" THEN turn' = 0 ELSE turn' = turn
  BY DEF Goto, Continue
<1>2. UNCHANGED <<config, channel, alive, failWorkflowByClient, sentConfig, revoked>>
  BY DEF configVars, signalVars
<1>3. IsThresholdMet' <=> IsThresholdMet
  BY MetSame
<1>4. ConfigOK'
  <2>1. Open
    BY DEF Running, Draining, Open
  <2> QED BY <1>2, <2>1 DEF SweepInv, ConfigOK
<1>5. LoadOK' /\ ClosedOK' /\ RestOK' /\ RevokedOK' /\ QuietOK'
  BY <1>1, <1>2 DEF SweepInv, LoadOK, ClosedOK, RestOK, RevokedOK, QuietOK, Running, Draining
<1>6. DrainOK'
  <2>1. CASE Running
    BY <1>1, <1>2, <1>3, <2>1 DEF SweepInv, OrderOK, DrainOK, Draining
  <2>2. CASE Draining
    BY <1>1, <1>2, <1>3, <2>2 DEF SweepInv, DrainOK
  <2> QED BY <2>1, <2>2
<1>7. HandlersOK' /\ OrderOK'
  <2>1. CASE Running
    BY <1>1, <1>2, <1>3, <2>1 DEF SweepInv, HandlersOK, OrderOK
  <2>2. CASE Draining /\ ~revoked
    <3>1. ~Running'
      BY <1>1, <2>2 DEF Running
    <3> QED BY <3>1 DEF HandlersOK, OrderOK
  <2>3. CASE revoked
    BY <1>1, <1>2, <2>3 DEF HandlersOK, OrderOK, Running
  <2> QED BY <2>1, <2>2, <2>3
<1> QED BY <1>4, <1>5, <1>6, <1>7 DEF SweepInv

LEMMA MainSweep ==
  ASSUME CycleTypeOK, SweepInv, Outer \/ StatesToExecute \/ Top \/ Inner \/ DrainInner
  PROVE  SweepInv'
<1> USE DEF Main, MainTurn, dispatchVars, historyVars, threadVars
<1>1. CASE Outer
  <2>1. turn = 1 /\ at = "outer" /\ UNCHANGED <<configVars, signalVars, sentConfig, revoked>>
    BY <1>1 DEF Outer
  <2>2. \E where \in {"closed", "top"} : Goto(where)
    BY <1>1 DEF Outer
  <2> QED BY <2>1, <2>2, MainGoesSweep DEF Running, Draining
<1>2. CASE StatesToExecute
  <2>1. turn = 1 /\ at = "top" /\ UNCHANGED <<configVars, signalVars, sentConfig, revoked>> /\ Goto("inner")
    BY <1>2 DEF StatesToExecute
  <2> QED BY <2>1, MainGoesSweep DEF Running, Draining
<1>3. CASE Top
  <2>1. turn = 1 /\ at = "top" /\ UNCHANGED <<configVars, signalVars, sentConfig, revoked>>
    BY <1>3 DEF Top
  <2>2. \/ Goto("inner") \/ Goto("outer")
        \/ Goto("drainOuter") /\ IsThresholdMet
    BY <1>3 DEF Top
  <2> QED BY <2>1, <2>2, MainGoesSweep DEF Running, Draining
<1>4. CASE Inner
  <2>1. turn = 1 /\ at = "inner" /\ UNCHANGED <<configVars, signalVars, sentConfig, revoked>>
    BY <1>4 DEF Inner
  <2>2. \/ Goto("drainInner") /\ IsThresholdMet
        \/ Goto("closed") \/ Goto("top")
    BY <1>4 DEF Inner
  <2> QED BY <2>1, <2>2, MainGoesSweep DEF Running, Draining
<1>5. CASE DrainInner
  <2>1. turn = 1 /\ at = "drainInner" /\ UNCHANGED <<configVars, signalVars, sentConfig, revoked>>
    BY <1>5 DEF DrainInner
  <2>2. ~revoked => IsThresholdMet
    BY <2>1 DEF SweepInv, DrainOK, Draining
  <2>3. \/ Goto("closed")
        \/ Goto("drainOuter") /\ IsThresholdMet
        \/ Goto("top") /\ revoked
    <3>1. \/ Goto("closed")
          \/ Goto("drainOuter") /\ IsThresholdMet
          \/ Goto("top") /\ ~IsThresholdMet
      BY <1>5 DEF DrainInner
    <3> QED BY <2>2, <3>1, Zenon
  <2> QED BY <2>1, <2>2, <2>3, MainGoesSweep DEF Running, Draining
<1> QED BY <1>1, <1>2, <1>3, <1>4, <1>5

LEMMA DrainOuterSweep ==
  ASSUME CycleTypeOK, SweepInv, DrainOuter
  PROVE  SweepInv'
<1>1. /\ channel'["config"] = << >>
      /\ config' = UpdateByAll(config, channel["config"])
      /\ \/ at' = "closed" /\ turn' = 0 /\ UNCHANGED <<alive, revoked>>
         \/ /\ at' = "load" /\ turn' = 0 /\ pending' = FALSE /\ threads' = << >>
            /\ toResume' = << >> /\ NewCounter /\ failWorkflowByClient' = FALSE
            /\ revoked' = FALSE
  BY DrainOuterType
<1>2. at = "drainOuter" /\ sentConfig' = sentConfig
  BY DEF DrainOuter, Main
<1>3. ConfigOK'
  BY <1>1, <1>2, UpdateByNone DEF SweepInv, ConfigOK, Open
<1>4. LoadOK' /\ ClosedOK'
  BY <1>1 DEF LoadOK, ClosedOK, NewCounter
<1>5. RestOK' /\ RevokedOK' /\ DrainOK' /\ HandlersOK' /\ OrderOK' /\ QuietOK'
  BY <1>1
  DEF SweepInv, RestOK, RevokedOK, DrainOK, HandlersOK, OrderOK, QuietOK, Running, Draining
<1> QED BY <1>3, <1>4, <1>5 DEF SweepInv

\* The end of a task: a whole sweep has left everything as it is.
LEMMA TaskEnds ==
  ASSUME CycleTypeOK, turn' = 0, ~MainCanGo,
         UNCHANGED <<dispatchVars, at, threads, closeVars, totalCurrentlyExecutingCount>>,
         \A k \in alive : channel[k] = << >> /\ ~IsThresholdMet,
         Draining => IsThresholdMet \/ alive = {}
  PROVE  RestOK'
<1>1. UNCHANGED <<channel, alive, failWorkflowByClient, configVars>>
  BY DEF dispatchVars, signalVars
<1>2. (IsThresholdMet' <=> IsThresholdMet) /\ ~MainCanGo'
  BY <1>1, MetSame, MainSame
<1>3. /\ at \in {"outer", "inner"} => ~IsThresholdMet /\ ~failWorkflowByClient
      /\ at \notin {"top", "load", "closed"}
  BY MainWaits DEF CycleTypeOK
<1>4. Running' => at' # "top" /\ ~IsThresholdMet' /\ ~failWorkflowByClient'
  BY <1>1, <1>2, <1>3 DEF Running
<1>5. Draining' => alive' = {}
  <2>1. Draining' => IsThresholdMet \/ alive = {}
    BY DEF Draining
  <2> QED BY <1>1, <2>1
<1> QED BY <1>1, <1>2, <1>4, <1>5 DEF RestOK

LEMMA CallHandlerSweep ==
  ASSUME CycleTypeOK, SweepInv, NEW k \in Kinds, CallHandler(k)
  PROVE  SweepInv'
<1> DEFINE b == k \in alive /\ (channel' # channel \/ k \notin alive')
<1>1. /\ turn \in 2..7 /\ HandlerAt[turn] = k
      /\ UNCHANGED <<at, threads, closeVars, totalCurrentlyExecutingCount, sentConfig, revoked>>
      /\ Yield(b)
  BY HandlerOrder, Zenon DEF CallHandler, threadVars, counterVars
<1>2. /\ k = "fail" <=> turn = 2
      /\ k = "config" <=> turn = 4
      /\ k \in {"trigger", "rpc", "user"} <=> turn >= 5
  <2>1. turn \in {2, 3, 4, 5, 6, 7}
    BY <1>1
  <2> QED BY <1>1, <2>1, HandlerOrder
<1>3. DispatchTypeOK /\ DispatchTypeOK' /\ TaskTypeOK /\ Len(threads) \in Nat
  BY HandlerType DEF CycleTypeOK, TaskTypeOK
<1>4. /\ k \notin alive => UNCHANGED dispatchVars
      /\ k \in alive => Handle(k)
  BY DEF CallHandler
<1>5. /\ alive' = alive \/ (k \in alive /\ alive' = alive \ {k})
      /\ \A j \in Kinds \ {k} : channel'[j] = channel[j]
      /\ k # "config" => config' = config
      /\ k = "config" /\ k \in alive =>
           config' = UpdateByAll(config, channel["config"]) /\ channel'[k] = << >>
      /\ k \notin alive => UNCHANGED <<configVars, channel>>
      /\ failWorkflowByClient => failWorkflowByClient'
      /\ channel["config"] = << >> => channel'["config"] = << >>
  <2>1. CASE k \in alive
    BY <1>3, <1>4, <2>1, HandleEffect, PayloadsOfKinds
  <2>2. CASE k \notin alive
    BY <1>4, <2>2 DEF dispatchVars, configVars, signalVars
  <2> QED BY <2>1, <2>2
<1>6. channel["config"] = << >> => config' = config
  <2>1. CASE k = "config" /\ k \in alive
    BY <1>5, <2>1, UpdateByNone
  <2>2. CASE ~(k = "config" /\ k \in alive)
    BY <1>5, <2>2 DEF configVars
  <2> QED BY <2>1, <2>2
<1>7. config' = config /\ IsThresholdMet => IsThresholdMet'
  <2>1. CASE k \in alive
    <3>1. /\ signalsReceived' >= signalsReceived /\ executedStateApis' = executedStateApis
          /\ triggeredByAPI => triggeredByAPI'
      BY <1>3, <1>4, <2>1, HandleEffect
    <3>2. executedStateApis' >= executedStateApis
      BY <1>3, <3>1 DEF DispatchTypeOK
    <3> QED BY <1>3, <3>1, <3>2, MetMonotone
  <2>2. CASE k \notin alive
    BY <1>5, <2>2, MetSame
  <2> QED BY <2>1, <2>2
<1>8. ASSUME k \in alive, k \notin alive'
      PROVE  IsThresholdMet'
  <2>1. IsThresholdMet' \/ (k = "trigger" /\ channel[k] # << >>)
    BY <1>3, <1>4, <1>8, HandleEffect
  <2>2. k = "trigger" /\ channel[k] # << >> => triggeredByAPI'
    BY <1>3, <1>4, <1>8, HandleEffect
  <2> QED BY <2>1, <2>2 DEF IsThresholdMet, IsThresholdMetWith
<1>9. (Running' <=> Running) /\ (Draining' <=> Draining) /\ (Open' <=> Open)
      /\ at \notin {"load", "closed"}
  BY <1>1 DEF Running, Draining, Open, SweepInv, LoadOK, ClosedOK
<1>10. ConfigOK'
  <2>1. CASE k = "config" /\ k \in alive
    BY <1>1, <1>5, <1>9, <2>1, UpdateByNone DEF SweepInv, ConfigOK
  <2>2. CASE ~(k = "config" /\ k \in alive)
    <3>1. config' = config /\ channel'["config"] = channel["config"]
      BY <1>5, <2>2, PayloadsOfKinds DEF configVars
    <3> QED BY <1>1, <1>9, <3>1 DEF SweepInv, ConfigOK
  <2> QED BY <2>1, <2>2
<1>11. DrainOK'
  <2> SUFFICES ASSUME Draining, ~revoked
               PROVE  IsThresholdMet' /\ (channel'["config"] # << >> => alive' = {})
    BY <1>1, <1>9 DEF DrainOK
  <2>1. IsThresholdMet /\ (channel["config"] # << >> => alive = {})
    BY DEF SweepInv, DrainOK
  <2>2. config' = config
    <3>1. CASE channel["config"] = << >>
      BY <1>6, <3>1
    <3>2. CASE alive = {}
      BY <1>5, <3>2 DEF configVars
    <3> QED BY <2>1, <3>1, <3>2
  <2>3. channel'["config"] # << >> => alive' = {}
    BY <1>5, <2>1
  <2> QED BY <1>7, <2>1, <2>2, <2>3
<1>12. HandlersOK'
  <2> SUFFICES ASSUME Running, ~revoked
               PROVE  /\ "fail" \notin alive' => failWorkflowByClient'
                      /\ \A j \in {"config", "trigger", "rpc", "user"} \ alive' :
                           IsThresholdMet' /\ channel'["config"] = << >>
    BY <1>1, <1>9 DEF HandlersOK
  <2>1. ASSUME "fail" \notin alive' PROVE failWorkflowByClient'
    <3>1. CASE "fail" \notin alive
      BY <1>5, <3>1 DEF SweepInv, HandlersOK
    <3>2. CASE "fail" \in alive
      <4>1. k = "fail" /\ k \in alive /\ k \notin alive' /\ turn = 2
        BY <1>2, <1>5, <2>1, <3>2
      <4>2. ~IsThresholdMet /\ IsThresholdMet'
        BY <1>8, <4>1 DEF SweepInv, OrderOK
      <4>3. /\ config' = config /\ executedStateApis' = executedStateApis
            /\ triggeredByAPI' = triggeredByAPI
            /\ signalsReceived' # signalsReceived => failWorkflowByClient'
        BY <1>3, <1>4, <4>1, HandleEffect
      <4>4. signalsReceived' # signalsReceived
        BY <4>2, <4>3 DEF IsThresholdMet, IsThresholdMetWith
      <4> QED BY <4>3, <4>4
    <3> QED BY <3>1, <3>2
  <2>2. ASSUME NEW j \in {"config", "trigger", "rpc", "user"} \ alive'
        PROVE  IsThresholdMet' /\ channel'["config"] = << >>
    <3>1. CASE j \notin alive
      <4>1. IsThresholdMet /\ channel["config"] = << >>
        BY <3>1 DEF SweepInv, HandlersOK
      <4> QED BY <1>5, <1>6, <1>7, <4>1
    <3>2. CASE j \in alive
      <4>1. j = k /\ k \in alive /\ k \notin alive'
        BY <1>5, <2>2, <3>2
      <4>2. CASE k = "config"
        BY <1>5, <1>8, <4>1, <4>2
      <4>3. CASE k # "config"
        <5>1. turn >= 5
          BY <1>2, <2>2, <4>1, <4>3
        <5>2. channel["config"] = << >>
          BY <5>1 DEF SweepInv, OrderOK
        <5> QED BY <1>5, <1>8, <4>1, <5>2
      <4> QED BY <4>2, <4>3
    <3> QED BY <3>1, <3>2
  <2> QED BY <2>1, <2>2
<1>13. /\ \/ /\ turn' = turn + 1 /\ (progressed' <=> progressed \/ b)
          \/ turn' = 1 /\ turn = 7 /\ ~progressed'
          \/ turn' = 0 /\ turn = 7 /\ ~progressed /\ ~b
  <2>1. turn # 0 /\ Len(threads') = Len(threads) /\ b \in BOOLEAN
    BY <1>1
  <2> HIDE DEF b
  <2>2. \/ /\ turn' = turn + 1 /\ turn < 7 + Len(threads)
           /\ progressed' <=> progressed \/ b
        \/ turn' = 1 /\ ~progressed' /\ (progressed \/ b) /\ turn = 7 + Len(threads)
        \/ turn' = 0 /\ ~progressed' /\ ~progressed /\ ~b /\ turn = 7 + Len(threads)
    BY <1>1, <1>3, <2>1, YieldEffect
  <2> QED BY <1>1, <1>3, <2>2
<1>14. OrderOK'
  <2> SUFFICES ASSUME Running, ~revoked, turn' # 0
               PROVE  channel'["config"] = << >> \/ turn' \in {3, 4}
    BY <1>1, <1>9, <1>13 DEF OrderOK
  <2>1. CASE turn >= 5
    BY <1>5, <2>1 DEF SweepInv, OrderOK
  <2>2. CASE turn = 4
    <3>1. CASE "config" \in alive
      BY <1>2, <1>5, <2>2, <3>1
    <3>2. CASE "config" \notin alive
      BY <1>5, <3>2 DEF SweepInv, HandlersOK
    <3> QED BY <3>1, <3>2
  <2>3. CASE turn \in {2, 3}
    BY <1>13, <2>3
  <2> QED BY <1>1, <2>1, <2>2, <2>3
<1>15. ASSUME ~progressed, ~b
       PROVE  /\ UNCHANGED dispatchVars /\ ~MainCanGo
              /\ \A j \in 2..7 : j <= turn /\ HandlerAt[j] \in alive =>
                   channel[HandlerAt[j]] = << >> /\ ~IsThresholdMet
  <2>1. UNCHANGED dispatchVars /\ (k \in alive => channel[k] = << >> /\ ~IsThresholdMet)
    <3>1. CASE k \notin alive
      BY <1>4, <3>1
    <3>2. CASE k \in alive
      <4>1. channel' = channel /\ k \in alive'
        BY <1>15, <3>2
      <4>2. /\ channel[k] = << >>
            /\ UNCHANGED <<configVars, failWorkflowByClient, stateRequestQueue>>
        BY <1>3, <1>4, <3>2, <4>1, HandleEffect
      <4>3. alive' = alive
        BY <1>5, <4>1
      <4>4. ~IsThresholdMet'
        BY <1>3, <1>4, <3>2, <4>1, HandleEffect
      <4>5. ~IsThresholdMet
        BY <4>2, <4>4, MetSame
      <4> QED BY <4>1, <4>2, <4>3, <4>5 DEF dispatchVars, signalVars
    <3> QED BY <3>1, <3>2
  <2>2. /\ ~MainCanGo
        /\ \A j \in 2..7 : j < turn /\ HandlerAt[j] \in alive =>
             channel[HandlerAt[j]] = << >> /\ ~IsThresholdMet
    BY <1>1, <1>15 DEF SweepInv, QuietOK
  <2>3. \A j \in 2..7 : j <= turn => j < turn \/ HandlerAt[j] = k
    BY <1>1
  <2> QED BY <2>1, <2>2, <2>3
<1>16. QuietOK'
  <2> SUFFICES ASSUME turn' >= 2, ~progressed'
               PROVE  /\ ~MainCanGo'
                      /\ \A j \in 2..7 : j < turn' /\ HandlerAt[j] \in alive' =>
                           channel'[HandlerAt[j]] = << >> /\ ~IsThresholdMet'
    BY DEF QuietOK, HandlerAt
  <2>1. turn' = turn + 1 /\ ~progressed /\ ~b
    BY <1>13
  <2>2. /\ UNCHANGED dispatchVars /\ ~MainCanGo
        /\ \A j \in 2..7 : j <= turn /\ HandlerAt[j] \in alive =>
             channel[HandlerAt[j]] = << >> /\ ~IsThresholdMet
    BY <1>15, <2>1
  <2>3. UNCHANGED <<configVars, channel, alive>>
    BY <2>2 DEF dispatchVars, signalVars
  <2>4. (MainCanGo' <=> MainCanGo) /\ (IsThresholdMet' <=> IsThresholdMet)
    BY <1>1, <2>2, <2>3, MainSame, MetSame
  <2>5. \A j \in 2..7 : j < turn' => j <= turn
    BY <1>1, <2>1
  <2> QED BY <2>2, <2>3, <2>4, <2>5
<1>17. RestOK'
  <2>1. CASE turn' = 0
    <3>1. turn = 7 /\ ~progressed /\ ~b
      BY <1>1, <1>13, <2>1
    <3>2. /\ UNCHANGED dispatchVars /\ ~MainCanGo
          /\ \A j \in 2..7 : j <= turn /\ HandlerAt[j] \in alive =>
               channel[HandlerAt[j]] = << >> /\ ~IsThresholdMet
      BY <1>15, <3>1
    <3>4. \A h \in alive : channel[h] = << >> /\ ~IsThresholdMet
      <4> SUFFICES ASSUME NEW h \in alive PROVE channel[h] = << >> /\ ~IsThresholdMet
        OBVIOUS
      <4>1. PICK j \in 2..7 : HandlerAt[j] = h
        BY <1>3, SomeTurn DEF DispatchTypeOK
      <4> QED BY <3>1, <3>2, <4>1
    <3>5. Draining => IsThresholdMet \/ alive = {}
      BY DEF SweepInv, DrainOK, RevokedOK
    <3> QED BY <1>1, <2>1, <3>2, <3>4, <3>5, TaskEnds
  <2>2. CASE turn' # 0
    BY <2>2 DEF RestOK
  <2> QED BY <2>1, <2>2
<1>18. LoadOK' /\ ClosedOK'
  BY <1>1, <1>9 DEF LoadOK, ClosedOK
<1>19. RevokedOK'
  BY <1>1, <1>5 DEF SweepInv, RevokedOK
<1> QED BY <1>10, <1>11, <1>12, <1>14, <1>16, <1>17, <1>18, <1>19 DEF SweepInv

LEMMA ThreadBlockedSweep ==
  ASSUME CycleTypeOK, SweepInv, NEW i \in DOMAIN threads, ThreadBlocked(i)
  PROVE  SweepInv'
<1>1. /\ UNCHANGED <<dispatchVars, at, threads, toResume, closeVars,
                     totalCurrentlyExecutingCount, sentConfig, revoked>>
      /\ turn = ThreadTurn(i) /\ Yield(FALSE)
  BY DEF ThreadBlocked, threadVars, counterVars, historyVars
<1>2. turn >= 8 /\ turn \in Nat /\ TaskTypeOK /\ Len(threads) \in Nat
  <2>1. TaskTypeOK /\ Len(threads) \in Nat /\ i \in 1..Len(threads)
    BY DEF CycleTypeOK, TaskTypeOK
  <2> QED BY <1>1, <2>1, SevenTurns
<1>3. \/ turn' = turn + 1 /\ (progressed' <=> progressed)
      \/ turn' = 1 /\ ~progressed'
      \/ turn' = 0 /\ ~progressed
  <2>1. turn # 0 /\ Len(threads') = Len(threads)
    BY <1>1, <1>2
  <2>2. \/ turn' = turn + 1 /\ (progressed' <=> progressed \/ FALSE)
        \/ turn' = 1 /\ ~progressed'
        \/ turn' = 0 /\ ~progressed
    BY <1>1, <1>2, <2>1, YieldEffect
  <2> QED BY <2>2
<1>4. /\ UNCHANGED <<config, channel, alive, failWorkflowByClient>>
      /\ UNCHANGED <<configVars, signalVars>>
  BY <1>1 DEF dispatchVars, configVars, signalVars
<1>5. (IsThresholdMet' <=> IsThresholdMet) /\ (MainCanGo' <=> MainCanGo)
  BY <1>1, <1>4, MetSame, MainSame
<1>6. /\ (Running' <=> Running) /\ (Draining' <=> Draining) /\ (Open' <=> Open)
      /\ at \notin {"load", "closed"}
  BY <1>1, <1>2 DEF Running, Draining, Open, SweepInv, LoadOK, ClosedOK
<1>7. ConfigOK' /\ RevokedOK' /\ DrainOK' /\ HandlersOK' /\ LoadOK' /\ ClosedOK'
  BY <1>1, <1>4, <1>5, <1>6
  DEF SweepInv, ConfigOK, RevokedOK, DrainOK, HandlersOK, LoadOK, ClosedOK
<1>8. OrderOK'
  BY <1>1, <1>2, <1>3, <1>4, <1>6 DEF SweepInv, OrderOK
<1>9. ASSUME ~progressed
      PROVE  /\ ~MainCanGo
             /\ \A j \in 2..7 : HandlerAt[j] \in alive =>
                  channel[HandlerAt[j]] = << >> /\ ~IsThresholdMet
  BY <1>2, <1>9 DEF SweepInv, QuietOK
<1>10. QuietOK'
  BY <1>2, <1>3, <1>4, <1>5, <1>9 DEF QuietOK, HandlerAt
<1>11. RestOK'
  <2>1. CASE turn' = 0
    <3>1. ~progressed
      BY <1>2, <1>3, <2>1
    <3>2. \A h \in alive : channel[h] = << >> /\ ~IsThresholdMet
      <4> SUFFICES ASSUME NEW h \in alive PROVE channel[h] = << >> /\ ~IsThresholdMet
        OBVIOUS
      <4>1. PICK j \in 2..7 : HandlerAt[j] = h
        BY SomeTurn DEF CycleTypeOK, DispatchTypeOK
      <4> QED BY <1>9, <3>1, <4>1
    <3>3. Draining => IsThresholdMet \/ alive = {}
      BY DEF SweepInv, DrainOK, RevokedOK
    <3> QED BY <1>1, <1>4, <1>9, <2>1, <3>1, <3>2, <3>3, TaskEnds
  <2>2. CASE turn' # 0
    BY <2>2 DEF RestOK
  <2> QED BY <2>1, <2>2
<1> QED BY <1>7, <1>8, <1>10, <1>11 DEF SweepInv

\* A thread that moves: the sweep is not the last one of the task, and the
\* threshold may be met now.
LEMMA ThreadMovesSweep ==
  ASSUME CycleTypeOK, CycleTypeOK', SweepInv, NEW i \in DOMAIN threads,
         turn = ThreadTurn(i), Continue \/ Yield(TRUE), Len(threads') = Len(threads),
         UNCHANGED <<signalsReceived, triggeredByAPI, alive, at, sentConfig>>,
         executedStateApis' >= executedStateApis,
         \/ config' = UpdateByAll(config, channel["config"]) /\ channel'["config"] = << >>
         \/ UNCHANGED <<config, channel>>,
         failWorkflowByClient => failWorkflowByClient',
         revoked' <=> revoked \/ (IsThresholdMet /\ ~IsThresholdMet')
  PROVE  SweepInv'
<1>1. turn >= 8 /\ turn \in Nat /\ TaskTypeOK /\ Len(threads) \in Nat
  <2>1. TaskTypeOK /\ Len(threads) \in Nat /\ i \in 1..Len(threads)
    BY DEF CycleTypeOK, TaskTypeOK
  <2> QED BY <2>1, SevenTurns
<1>2. turn' = 1 \/ (turn' >= 8 /\ progressed')
  <2>1. CASE Continue
    BY <1>1, <2>1 DEF Continue
  <2>2. CASE Yield(TRUE)
    <3>1. turn # 0
      BY <1>1
    <3>2. \/ turn' = turn + 1 /\ (progressed' <=> progressed \/ TRUE)
          \/ turn' = 1
          \/ ~TRUE
      BY <1>1, <2>2, <3>1, YieldEffect
    <3> QED BY <1>1, <3>2
  <2> QED BY <2>1, <2>2
<1>3. /\ (Running' <=> Running) /\ (Draining' <=> Draining) /\ (Open' <=> Open)
      /\ at \notin {"load", "closed"} /\ (Running \/ Draining)
  BY <1>1 DEF CycleTypeOK, TaskTypeOK, Running, Draining, Open, SweepInv, LoadOK, ClosedOK
<1>4. channel["config"] = << >> => channel'["config"] = << >> /\ config' = config
  BY UpdateByNone
<1>5. config' = config /\ IsThresholdMet => IsThresholdMet'
  <2>1. signalsReceived' >= signalsReceived
    BY DEF CycleTypeOK, DispatchTypeOK
  <2> QED BY <2>1, MetMonotone DEF CycleTypeOK
<1>6. ~revoked => \/ alive = {} /\ Draining
                 \/ channel["config"] = << >>
  BY <1>1, <1>3 DEF SweepInv, OrderOK, DrainOK
<1>7. RevokedOK' /\ LoadOK' /\ ClosedOK'
  <2>1. CASE revoked
    BY <1>3, <2>1 DEF SweepInv, RevokedOK, LoadOK, ClosedOK
  <2>2. CASE ~revoked
    BY <1>3, <1>4, <1>5, <1>6, <2>2 DEF RevokedOK, LoadOK, ClosedOK
  <2> QED BY <2>1, <2>2
<1>8. ConfigOK'
  BY <1>3, UpdateByNone DEF SweepInv, ConfigOK
<1>9. DrainOK' /\ HandlersOK'
  <2> SUFFICES ASSUME ~revoked' PROVE DrainOK' /\ HandlersOK'
    BY DEF DrainOK, HandlersOK
  <2>1. ~revoked /\ (IsThresholdMet => IsThresholdMet')
    OBVIOUS
  <2>2. DrainOK'
    BY <1>3, <1>4, <2>1 DEF SweepInv, DrainOK
  <2>3. HandlersOK'
    BY <1>3, <1>4, <2>1 DEF SweepInv, HandlersOK
  <2> QED BY <2>2, <2>3
<1>10. OrderOK' /\ QuietOK' /\ RestOK'
  <2>1. Running /\ ~revoked' => channel'["config"] = << >>
    BY <1>1, <1>4 DEF SweepInv, OrderOK
  <2>2. turn' # 0 /\ turn' # 2 /\ (turn' >= 2 => progressed')
    BY <1>2
  <2> QED BY <1>3, <2>1, <2>2 DEF OrderOK, QuietOK, RestOK
<1> QED BY <1>7, <1>8, <1>9, <1>10 DEF SweepInv

LEMMA ThreadSweep ==
  ASSUME CycleTypeOK, SweepInv, NEW i \in DOMAIN threads,
         \/ ThreadAdvances(i) \/ ThreadParks(i) \/ ThreadDrains(i)
         \/ \E next : \E queued \in Seq(StateIds) :
              turn = ThreadTurn(i) /\ Completes(i, next, queued)
  PROVE  SweepInv'
<1>1. CASE ThreadAdvances(i)
  <2>1. /\ turn = ThreadTurn(i) /\ (Continue \/ Yield(TRUE))
        /\ UNCHANGED <<configVars, signalVars, at, sentConfig, revoked>>
    BY <1>1 DEF ThreadAdvances, dispatchVars, historyVars
  <2>2. Len(threads') = Len(threads)
    <3>1. \E ph \in Phases : threads' = [threads EXCEPT ![i].phase = ph]
      <4>1. \E ph \in Phases : ph = IF threads[i].phase = "waitUntil" THEN "waiting" ELSE "execute"
        BY DEF Phases
      <4> QED BY <1>1, <4>1 DEF ThreadAdvances
    <3> QED BY <3>1, PhaseChange DEF CycleTypeOK
  <2>3. CycleTypeOK'
    BY <1>1, ThreadAdvancesType
  <2>4. executedStateApis' >= executedStateApis /\ (IsThresholdMet' <=> IsThresholdMet)
    BY <2>1, MetSame DEF configVars, CycleTypeOK, DispatchTypeOK
  <2> QED BY <2>1, <2>2, <2>3, <2>4, ThreadMovesSweep DEF configVars, signalVars
<1>2. CASE ThreadParks(i)
  <2>1. /\ turn = ThreadTurn(i) /\ Yield(TRUE) /\ threads' = [threads EXCEPT ![i].phase = "done"]
        /\ UNCHANGED <<configVars, signalVars, at, sentConfig, revoked>>
    BY <1>2 DEF ThreadParks, dispatchVars, historyVars
  <2>2. Len(threads') = Len(threads)
    BY <2>1, PhaseChange DEF CycleTypeOK, Phases
  <2>3. CycleTypeOK'
    BY <1>2, ThreadParksType
  <2>4. executedStateApis' >= executedStateApis /\ (IsThresholdMet' <=> IsThresholdMet)
    BY <2>1, MetSame DEF configVars, CycleTypeOK, DispatchTypeOK
  <2> QED BY <2>1, <2>2, <2>3, <2>4, ThreadMovesSweep DEF configVars, signalVars
<1>3. CASE ThreadDrains(i)
  <2>1. /\ CycleTypeOK' /\ Len(threads') = Len(threads)
        /\ config' = UpdateByAll(config, channel["config"])
        /\ channel'["config"] = << >>
    BY <1>3, ThreadDrainsType
  <2>2. /\ turn = ThreadTurn(i) /\ (Continue \/ Yield(TRUE))
        /\ UNCHANGED <<signalsReceived, triggeredByAPI, executedStateApis, alive, at, sentConfig>>
        /\ failWorkflowByClient => failWorkflowByClient'
        /\ revoked' <=> revoked \/ (IsThresholdMet /\ ~IsThresholdMet')
    BY <1>3, Zenon DEF ThreadDrains, DrainAllReceivedButUnprocessedSignals
  <2>3. executedStateApis' >= executedStateApis
    BY <2>2 DEF CycleTypeOK, DispatchTypeOK
  <2> QED BY <2>1, <2>2, <2>3, ThreadMovesSweep
<1>4. CASE \E next : \E queued \in Seq(StateIds) :
             turn = ThreadTurn(i) /\ Completes(i, next, queued)
  <2>0. PICK next : \E queued \in Seq(StateIds) :
                     turn = ThreadTurn(i) /\ Completes(i, next, queued)
    BY <1>4
  <2>1. PICK queued \in Seq(StateIds) : turn = ThreadTurn(i) /\ Completes(i, next, queued)
    BY <2>0
  <2>2. /\ Yield(TRUE) /\ threads' = [threads EXCEPT ![i].phase = "done"]
        /\ UNCHANGED <<config, signalsReceived, triggeredByAPI, signalVars, at, sentConfig, revoked>>
    BY <2>1 DEF Completes, historyVars
  <2>3. Len(threads') = Len(threads)
    BY <2>2, PhaseChange DEF CycleTypeOK, Phases
  <2>4. CycleTypeOK' /\ executedStateApis' >= executedStateApis
    BY <2>1, CompletesType
  <2>5. IsThresholdMet => IsThresholdMet'
    <3>1. signalsReceived' >= signalsReceived
      BY <2>2 DEF CycleTypeOK, DispatchTypeOK
    <3> QED BY <2>2, <2>4, <3>1, MetMonotone DEF CycleTypeOK
  <2> QED BY <2>1, <2>2, <2>3, <2>4, <2>5, ThreadMovesSweep DEF signalVars
<1> QED BY <1>1, <1>2, <1>3, <1>4

\* A thread whose decision takes effect, whether it closes the workflow or not.
LEMMA ThreadDecides ==
  ASSUME CycleTypeOK, NEW i \in DOMAIN threads, NEW d \in Decisions[threads[i].state],
         ThreadCompletes(i, d) \/ \E met \in BOOLEAN : ConditionalClose(i, d, met)
  PROVE  \E next : \E queued \in Seq(StateIds) :
           turn = ThreadTurn(i) /\ Completes(i, next, queued)
BY DecisionNext DEF ThreadCompletes, ConditionalClose

CycleInv == CycleTypeOK /\ SweepInv

LEMMA CycleInvStep == CycleInv /\ [Next]_vars => CycleInv'
<1> SUFFICES ASSUME CycleTypeOK, SweepInv, [Next]_vars PROVE CycleInv'
  BY DEF CycleInv
<1>1. CASE \E k \in Kinds : \E p \in Payloads(k) : Arrive(k, p)
  BY <1>1, CycleTypeStep, ArriveSweep DEF CycleInv
<1>2. CASE \/ \E i \in DOMAIN threads : Ready(i)
           \/ \E v \in Versions : DeployWorkers(v)
           \/ StartTask \/ UNCHANGED vars
  BY <1>2, CycleTypeStep, EventsSweep DEF CycleInv
<1>3. CASE Load \/ MainBlocked \/ DrainOuter
  BY <1>3, CycleTypeStep, LoadSweep, MainBlockedSweep, DrainOuterSweep DEF CycleInv
<1>4. CASE Outer \/ StatesToExecute \/ Top \/ Inner \/ DrainInner
  BY <1>4, CycleTypeStep, MainSweep DEF CycleInv
<1>5. CASE \E k \in Kinds : CallHandler(k)
  BY <1>5, CycleTypeStep, CallHandlerSweep DEF CycleInv
<1>6. CASE \E i \in DOMAIN threads : ThreadBlocked(i)
  BY <1>6, CycleTypeStep, ThreadBlockedSweep DEF CycleInv
<1>7. CASE \E i \in DOMAIN threads :
             \/ ThreadAdvances(i) \/ ThreadParks(i) \/ ThreadDrains(i)
             \/ \E d \in Decisions[threads[i].state] :
                  ThreadCompletes(i, d) \/ \E met \in BOOLEAN : ConditionalClose(i, d, met)
  BY <1>7, CycleTypeStep, ThreadDecides, ThreadSweep DEF CycleInv
<1> QED BY <1>1, <1>2, <1>3, <1>4, <1>5, <1>6, <1>7, Zenon DEF Next, TaskStep

LEMMA CycleInvariant == Spec => []CycleInv
<1>1. Init => CycleInv
  BY InitType, InitSweep DEF CycleInv
<1> QED BY <1>1, CycleInvStep, PTL DEF Spec

\* A drain that has begun is not revoked by the handler of update-config signals:
\* when a task ends every handler has ended, and the threshold is still met unless
\* the drain of a conditional close took it back, for any number of signals, states
\* and runs.
THEOREM DrainStays == Spec => []DrainRevokedOnlyByClose
<1>1. CycleInv => DrainRevokedOnlyByClose
  BY DEF CycleInv, SweepInv, RestOK, DrainOK, Draining, DrainRevokedOnlyByClose
<1> QED BY <1>1, CycleInvariant, PTL

LEMMA RestingHandlers ==
  ASSUME CycleInv, AtRest, ~revoked
  PROVE  \A k \in Kinds \ {"skip"} : channel[k] = << >>
<1>1. turn = 0 /\ ~pending /\ Running
  BY DEF AtRest, Running
<1>2. /\ ~IsThresholdMet /\ ~failWorkflowByClient
      /\ \A k \in alive : channel[k] = << >>
  BY <1>1 DEF CycleInv, SweepInv, RestOK
<1>3. {"fail", "config", "trigger", "rpc", "user"} \subseteq alive
  BY <1>1, <1>2 DEF CycleInv, SweepInv, HandlersOK
<1> QED BY <1>2, <1>3 DEF Kinds

\* No signal but a skip of a timer waits between two tasks for a handler that has
\* ended or has missed it, unless the drain of a conditional close took the
\* threshold back after the handlers had ended.
THEOREM SignalsReachHandlers == Spec => []SignalsHandled
<1>1. CycleInv => SignalsHandled
  BY RestingHandlers DEF SignalsHandled
<1> QED BY <1>1, CycleInvariant, PTL

\* Every field that UpdateByAPI copies has between two tasks the value the clients
\* have asked for, in the order in which they did, across handler, the drains of
\* conditional closes, the last drain and continue-as-new.
THEOREM ConfigKept == Spec => []ConfigIsTheOneSent
<1>1. ASSUME CycleInv PROVE ConfigIsTheOneSent
  <2> SUFFICES ASSUME AtRest, ~revoked, NEW f \in DOMAIN config \ {"optimizeTimer"}
               PROVE  config[f] = sentConfig[f]
    BY DEF ConfigIsTheOneSent
  <2>1. channel["config"] = << >>
    BY <1>1, RestingHandlers DEF Kinds
  <2>2. Open
    BY DEF AtRest, Open
  <2>3. f \in Settable
    BY <1>1, SettableCopied DEF CycleInv, CycleTypeOK, DispatchTypeOK
  <2> QED BY <1>1, <2>1, <2>2, <2>3, UpdateByNone DEF CycleInv, SweepInv, ConfigOK
<1> QED BY <1>1, CycleInvariant, PTL

-----------------------------------------------------------------------------
(* Counting the positions of a sequence that hold certain elements *)

Holding(s, Y) == {i \in DOMAIN s : s[i] \in Y}
Count(s, Y) == Cardinality(Holding(s, Y))

LEMMA CountType ==
  ASSUME NEW T, NEW s \in Seq(T), NEW Y
  PROVE  IsFiniteSet(Holding(s, Y)) /\ Count(s, Y) \in Nat
<1>1. DOMAIN s = 1..Len(s) /\ Len(s) \in Nat
  OBVIOUS
<1>2. IsFiniteSet(1..Len(s))
  BY <1>1, FS_Interval
<1>3. Holding(s, Y) \in SUBSET (1..Len(s))
  BY <1>1 DEF Holding
<1>4. IsFiniteSet(Holding(s, Y))
  BY <1>2, <1>3, FS_Subset
<1> QED BY <1>4, FS_CardinalityType DEF Count

LEMMA CountZero ==
  ASSUME NEW T, NEW s \in Seq(T), NEW Y
  PROVE  Count(s, Y) = 0 <=> \A i \in DOMAIN s : s[i] \notin Y
<1>1. Count(s, Y) = 0 <=> Holding(s, Y) = {}
  BY CountType, FS_EmptySet DEF Count
<1> QED BY <1>1 DEF Holding

LEMMA CountNone == \A Y : Count(<< >>, Y) = 0
<1> TAKE Y
<1>1. Holding(<< >>, Y) = {}
  BY DEF Holding
<1> QED BY <1>1, FS_EmptySet DEF Count

LEMMA CountSame ==
  ASSUME NEW T, NEW s \in Seq(T), NEW U, NEW t \in Seq(U), Len(s) = Len(t), NEW X, NEW Y,
         \A i \in DOMAIN s : s[i] \in X <=> t[i] \in Y
  PROVE  Count(s, X) = Count(t, Y)
<1>1. DOMAIN s = DOMAIN t
  OBVIOUS
<1>2. Holding(s, X) = Holding(t, Y)
  BY <1>1 DEF Holding
<1> QED BY <1>2 DEF Count

LEMMA CountSplit ==
  ASSUME NEW T, NEW s \in Seq(T), NEW X, NEW Y, X \cap Y = {}
  PROVE  Count(s, X \cup Y) = Count(s, X) + Count(s, Y)
<1>1. Holding(s, X \cup Y) = Holding(s, X) \cup Holding(s, Y)
      /\ Holding(s, X) \cap Holding(s, Y) = {}
  BY DEF Holding
<1>2. /\ IsFiniteSet(Holding(s, X)) /\ IsFiniteSet(Holding(s, Y))
      /\ Count(s, X) \in Nat /\ Count(s, Y) \in Nat
  BY CountType
<1>3. Cardinality(Holding(s, X) \cup Holding(s, Y)) =
        Cardinality(Holding(s, X)) + Cardinality(Holding(s, Y)) - Cardinality({})
  BY <1>1, <1>2, FS_Union
<1>4. Cardinality({}) = 0
  BY FS_EmptySet
<1>5. Count(s, X \cup Y) = Cardinality(Holding(s, X) \cup Holding(s, Y))
  BY <1>1 DEF Count
<1> QED BY <1>2, <1>3, <1>4, <1>5 DEF Count

LEMMA ShiftedCardinality ==
  ASSUME NEW n \in Nat, NEW X \in SUBSET Nat, IsFiniteSet(X)
  PROVE  /\ IsFiniteSet({n + i : i \in X})
         /\ Cardinality({n + i : i \in X}) = Cardinality(X)
<1> DEFINE Y == {n + i : i \in X}
           f == [i \in X |-> n + i]
<1>1. f \in [X -> Y] /\ \A y \in Y : \E i \in X : f[i] = y
  OBVIOUS
<1>2. \A i, j \in X : f[i] = f[j] => i = j
  OBVIOUS
<1>3. f \in Bijection(X, Y)
  BY <1>1, <1>2 DEF Bijection, Injection, Surjection, IsInjective
<1>4. ExistsBijection(X, Y)
  BY <1>3 DEF ExistsBijection
<1> QED BY <1>4, FS_Bijection

LEMMA CountAppended ==
  ASSUME NEW T, NEW s \in Seq(T), NEW t \in Seq(T), NEW Y
  PROVE  Count(s \o t, Y) = Count(s, Y) + Count(t, Y)
<1> DEFINE n == Len(s)
           H == {n + j : j \in Holding(t, Y)}
<1>1. /\ s \o t \in Seq(T) /\ Len(s \o t) = n + Len(t) /\ n \in Nat /\ Len(t) \in Nat
      /\ \A i \in 1..n : (s \o t)[i] = s[i]
      /\ \A j \in 1..Len(t) : (s \o t)[n + j] = t[j]
      /\ DOMAIN s = 1..n /\ DOMAIN t = 1..Len(t) /\ DOMAIN (s \o t) = 1..n + Len(t)
  BY Appended
<1> HIDE DEF n
<1>2. Holding(s \o t, Y) = Holding(s, Y) \cup H
  <2>1. ASSUME NEW i \in Holding(s \o t, Y) PROVE i \in Holding(s, Y) \cup H
    <3>1. i \in 1..n + Len(t) /\ (s \o t)[i] \in Y
      BY <1>1 DEF Holding
    <3>2. CASE i <= n
      <4>1. i \in 1..n
        BY <1>1, <3>1, <3>2
      <4> QED BY <1>1, <3>1, <4>1 DEF Holding
    <3>3. CASE i > n
      <4>1. i - n \in 1..Len(t) /\ n + (i - n) = i
        BY <1>1, <3>1, <3>3
      <4>2. i - n \in Holding(t, Y)
        BY <1>1, <3>1, <4>1 DEF Holding
      <4> QED BY <4>1, <4>2
    <3> QED BY <1>1, <3>1, <3>2, <3>3
  <2>2. ASSUME NEW i \in Holding(s, Y) PROVE i \in Holding(s \o t, Y)
    <3>1. i \in 1..n /\ s[i] \in Y
      BY <1>1 DEF Holding
    <3>2. i \in 1..n + Len(t)
      BY <1>1, <3>1
    <3> QED BY <1>1, <3>1, <3>2 DEF Holding
  <2>3. ASSUME NEW j \in Holding(t, Y) PROVE n + j \in Holding(s \o t, Y)
    <3>1. j \in 1..Len(t) /\ t[j] \in Y
      BY <1>1 DEF Holding
    <3>2. n + j \in 1..n + Len(t)
      BY <1>1, <3>1
    <3> QED BY <1>1, <3>1, <3>2 DEF Holding
  <2> QED BY <2>1, <2>2, <2>3
<1>3. /\ IsFiniteSet(Holding(s, Y)) /\ Count(s, Y) \in Nat
      /\ IsFiniteSet(Holding(t, Y)) /\ Count(t, Y) \in Nat
  BY CountType
<1>4. IsFiniteSet(H) /\ Cardinality(H) = Count(t, Y)
  <2>1. Holding(t, Y) \in SUBSET Nat
    BY <1>1 DEF Holding
  <2> QED BY <1>1, <1>3, <2>1, ShiftedCardinality DEF Count
<1>5. Holding(s, Y) \cap H = {}
  <2>1. \A i \in Holding(s, Y) : i \in Nat /\ i <= n
    BY <1>1 DEF Holding
  <2>2. \A i \in H : i \in Nat /\ i > n
    BY <1>1 DEF Holding
  <2> QED BY <1>1, <2>1, <2>2
<1> HIDE DEF H
<1>6. Cardinality(Holding(s, Y) \cup H) = Cardinality(Holding(s, Y)) + Cardinality(H) - Cardinality({})
  BY <1>3, <1>4, <1>5, FS_Union
<1> QED BY <1>2, <1>3, <1>4, <1>6, FS_EmptySet DEF Count

LEMMA CountChanged ==
  ASSUME NEW T, NEW s \in Seq(T), NEW t \in Seq(T), Len(s) = Len(t), NEW i \in DOMAIN s,
         \A j \in DOMAIN s : j # i => t[j] = s[j], NEW Y
  PROVE  /\ s[i] \in Y /\ t[i] \in Y => Count(t, Y) = Count(s, Y)
         /\ s[i] \notin Y /\ t[i] \notin Y => Count(t, Y) = Count(s, Y)
         /\ s[i] \in Y /\ t[i] \notin Y => Count(t, Y) = Count(s, Y) - 1
<1>1. DOMAIN s = DOMAIN t
  OBVIOUS
<1>2. IsFiniteSet(Holding(s, Y)) /\ Count(s, Y) \in Nat
  BY CountType
<1>3. ASSUME s[i] \in Y, t[i] \notin Y PROVE Count(t, Y) = Count(s, Y) - 1
  <2>1. Holding(t, Y) = Holding(s, Y) \ {i} /\ i \in Holding(s, Y)
    BY <1>1, <1>3 DEF Holding
  <2> QED BY <1>2, <2>1, FS_RemoveElement DEF Count
<1>4. ASSUME s[i] \in Y <=> t[i] \in Y PROVE Count(t, Y) = Count(s, Y)
  <2>1. Holding(t, Y) = Holding(s, Y)
    BY <1>1, <1>4 DEF Holding
  <2> QED BY <2>1 DEF Count
<1> QED BY <1>3, <1>4

-----------------------------------------------------------------------------
(* The counts and the state executions that are under way *)

Live(S)    == {r \in ThreadRecords : r.phase # "done" /\ r.state \in S}
Resumes(S) == {r \in Requests : r.resume /\ r.state \in S}
Starts(S)  == {r \in Requests : ~r.resume /\ r.state \in S}

\* A step of one thread changes the number of live threads of a set of states only if
\* this thread stops being one of them.
LEMMA LiveChanged ==
  ASSUME threads \in Seq(ThreadRecords), threads' \in Seq(ThreadRecords),
         Len(threads') = Len(threads), NEW i \in DOMAIN threads,
         \A j \in DOMAIN threads : j # i => threads'[j] = threads[j], NEW S
  PROVE  /\ (threads[i] \in Live(S) <=> threads'[i] \in Live(S)) =>
              Count(threads', Live(S)) = Count(threads, Live(S))
         /\ threads[i] \in Live(S) /\ threads'[i] \notin Live(S) =>
              Count(threads', Live(S)) = Count(threads, Live(S)) - 1
<1>1. /\ threads[i] \in Live(S) /\ threads'[i] \in Live(S) =>
           Count(threads', Live(S)) = Count(threads, Live(S))
      /\ threads[i] \notin Live(S) /\ threads'[i] \notin Live(S) =>
           Count(threads', Live(S)) = Count(threads, Live(S))
      /\ threads[i] \in Live(S) /\ threads'[i] \notin Live(S) =>
           Count(threads', Live(S)) = Count(threads, Live(S)) - 1
  BY CountChanged, SMTT(30)
<1> QED BY <1>1

\* The executions of states of S: in a thread, parked, or handed to the next run.
UnderWay(S) ==
  Count(threads, Live(S)) + Count(toResume, S) + Count(stateRequestQueue, Resumes(S))

StartPending ==
  \E i \in DOMAIN stateRequestQueue :
    ~stateRequestQueue[i].resume /\ Counted(config.mode, stateRequestQueue[i].state)

KeysOK ==
  /\ DOMAIN stateIdCurrentlyExecutingCounts \subseteq StateIds
  /\ \A s \in DOMAIN stateIdCurrentlyExecutingCounts :
       stateIdCurrentlyExecutingCounts[s] \in Int
  /\ executingStateIds \subseteq StateIds

TotalOK == totalCurrentlyExecutingCount = UnderWay(StateIds)

\* As long as the mode is the same, the counts are exact; when the search attribute
\* is not up to date, a start that will be counted is queued or the workflow closes.
CountsExact ==
  \A s \in StateIds : CountOf(stateIdCurrentlyExecutingCounts, s) =
                        IF Counted(config.mode, s) THEN UnderWay({s}) ELSE 0
NoZeroKeys ==
  \A s \in DOMAIN stateIdCurrentlyExecutingCounts : stateIdCurrentlyExecutingCounts[s] # 0
IdsFresh ==
  executingStateIds = DOMAIN stateIdCurrentlyExecutingCounts \/ StartPending \/ closing

\* The main coroutine leaves its inner loop when no state execution is left in a
\* thread and none has asked to close the workflow.
LoopOK ==
  /\ at = "top" => turn = 1
  /\ at \in {"load", "outer", "top", "drainOuter"} => ~closing
  /\ at \in {"load", "outer", "drainOuter"} \/ (at = "top" /\ stateRequestQueue = << >>) =>
       \A i \in DOMAIN threads : threads[i].phase = "done"

CountInv ==
  /\ KeysOK /\ TotalOK
  /\ ~modeChanged => CountsExact /\ NoZeroKeys /\ IdsFresh

LEMMA UnderWayParts ==
  ASSUME CycleTypeOK, NEW S
  PROVE  /\ Count(threads, Live(S)) \in Nat /\ Count(toResume, S) \in Nat
         /\ Count(stateRequestQueue, Resumes(S)) \in Nat /\ UnderWay(S) \in Nat
<1>1. /\ threads \in Seq(ThreadRecords) /\ toResume \in Seq(StateIds)
      /\ stateRequestQueue \in Seq(Requests)
  BY DEF CycleTypeOK, TaskTypeOK, DispatchTypeOK
<1>2. /\ Count(threads, Live(S)) \in Nat /\ Count(toResume, S) \in Nat
      /\ Count(stateRequestQueue, Resumes(S)) \in Nat
  BY <1>1, CountType
<1> QED BY <1>2 DEF UnderWay

\* If nothing is under way, no state is.
LEMMA NothingUnderWay ==
  ASSUME CycleTypeOK, UnderWay(StateIds) = 0, NEW s \in StateIds
  PROVE  UnderWay({s}) = 0
<1>1. /\ threads \in Seq(ThreadRecords) /\ toResume \in Seq(StateIds)
      /\ stateRequestQueue \in Seq(Requests)
  BY DEF CycleTypeOK, TaskTypeOK, DispatchTypeOK
<1>2. /\ Count(threads, Live(StateIds)) = 0 /\ Count(toResume, StateIds) = 0
      /\ Count(stateRequestQueue, Resumes(StateIds)) = 0
  BY UnderWayParts DEF UnderWay
<1>3. Live({s}) \subseteq Live(StateIds) /\ Resumes({s}) \subseteq Resumes(StateIds)
  BY DEF Live, Resumes
<1>4. Count(threads, Live({s})) = 0
  BY <1>1, <1>2, <1>3, CountZero
<1>5. Count(toResume, {s}) = 0
  BY <1>1, <1>2, CountZero
<1>6. Count(stateRequestQueue, Resumes({s})) = 0
  BY <1>1, <1>2, <1>3, CountZero
<1> QED BY <1>4, <1>5, <1>6 DEF UnderWay

\* The queue grows by starts, which are not under way yet.
LEMMA StartsQueued ==
  ASSUME NEW q \in Seq(Requests), NEW ids \in Seq(StateIds)
  PROVE  /\ \A S : Count(q \o StartRequests(ids), Resumes(S)) = Count(q, Resumes(S))
         /\ \A i \in DOMAIN q : /\ i \in DOMAIN (q \o StartRequests(ids))
                                /\ (q \o StartRequests(ids))[i] = q[i]
         /\ \A s \in ToSet(ids) : \E i \in DOMAIN (q \o StartRequests(ids)) :
              (q \o StartRequests(ids))[i] = [state |-> s, resume |-> FALSE]
<1> DEFINE t == StartRequests(ids)
<1>1. t \in Seq(Requests)
  BY StartRequestsType
<1>2. /\ DOMAIN t = DOMAIN ids /\ DOMAIN ids = 1..Len(ids) /\ Len(ids) \in Nat
      /\ \A i \in DOMAIN t : t[i] = [state |-> ids[i], resume |-> FALSE]
  BY DEF StartRequests
<1> HIDE DEF t
<1>3. \A S : Count(t, Resumes(S)) = 0
  <2> TAKE S
  <2>1. \A i \in DOMAIN t : t[i] \notin Resumes(S)
    BY <1>2 DEF Resumes
  <2> QED BY <1>1, <2>1, CountZero
<1>4. \A S : Count(q \o t, Resumes(S)) = Count(q, Resumes(S))
  <2> TAKE S
  <2>1. Count(q \o t, Resumes(S)) = Count(q, Resumes(S)) + Count(t, Resumes(S))
    BY <1>1, CountAppended
  <2>2. Count(q, Resumes(S)) \in Nat
    BY CountType
  <2> QED BY <1>3, <2>1, <2>2
<1>5. /\ Len(q \o t) = Len(q) + Len(t) /\ Len(q) \in Nat /\ Len(t) \in Nat
      /\ DOMAIN q = 1..Len(q) /\ DOMAIN t = 1..Len(t) /\ DOMAIN (q \o t) = 1..Len(q) + Len(t)
      /\ \A i \in 1..Len(q) : (q \o t)[i] = q[i]
      /\ \A j \in 1..Len(t) : (q \o t)[Len(q) + j] = t[j]
  BY <1>1, Appended
<1>6. \A i \in DOMAIN q : i \in DOMAIN (q \o t) /\ (q \o t)[i] = q[i]
  BY <1>5
<1>7. ASSUME NEW s \in ToSet(ids)
      PROVE  \E i \in DOMAIN (q \o t) : (q \o t)[i] = [state |-> s, resume |-> FALSE]
  <2>1. PICK j \in DOMAIN ids : ids[j] = s
    BY DEF ToSet
  <2>2. j \in 1..Len(t) /\ t[j] = [state |-> s, resume |-> FALSE]
    BY <1>2, <1>5, <2>1
  <2>3. Len(q) + j \in 1..Len(q) + Len(t)
    BY <1>5, <2>2
  <2> QED BY <1>5, <2>2, <2>3
<1> QED BY <1>4, <1>6, <1>7 DEF t

\* A step that leaves the counts and what is under way alone.
LEMMA CountKept ==
  ASSUME CycleTypeOK, CountInv, UNCHANGED counterVars, closing => closing',
         \A S : (UnderWay(S))' = UnderWay(S),
         \A i \in DOMAIN stateRequestQueue :
           i \in DOMAIN stateRequestQueue' /\ stateRequestQueue'[i] = stateRequestQueue[i],
         ~modeChanged' => /\ ~modeChanged
                          /\ \/ config'.mode = config.mode
                             \/ totalCurrentlyExecutingCount = 0 /\ stateRequestQueue = << >>
  PROVE  CountInv'
<1>1. UNCHANGED <<stateIdCurrentlyExecutingCounts, totalCurrentlyExecutingCount,
                  executingStateIds>>
  BY DEF counterVars
<1>2. KeysOK' /\ TotalOK'
  BY <1>1 DEF CountInv, KeysOK, TotalOK
<1>3. ASSUME ~modeChanged' PROVE CountsExact' /\ NoZeroKeys' /\ IdsFresh'
  <2>1. CountsExact /\ NoZeroKeys /\ IdsFresh
    BY <1>3 DEF CountInv
  <2>2. NoZeroKeys'
    BY <1>1, <2>1 DEF NoZeroKeys
  <2>3. CASE config'.mode = config.mode
    <3>1. CountsExact'
      BY <1>1, <2>1, <2>3 DEF CountsExact
    <3>2. StartPending => StartPending'
      BY <2>3 DEF StartPending
    <3> QED BY <1>1, <2>1, <2>2, <3>1, <3>2 DEF IdsFresh
  <2>4. CASE totalCurrentlyExecutingCount = 0 /\ stateRequestQueue = << >>
    <3>1. \A s \in StateIds : UnderWay({s}) = 0
      BY <2>4, NothingUnderWay DEF CountInv, TotalOK
    <3>2. \A s \in StateIds : CountOf(stateIdCurrentlyExecutingCounts, s) = 0
      BY <2>1, <3>1 DEF CountsExact
    <3>3. CountsExact'
      BY <1>1, <3>1, <3>2 DEF CountsExact
    <3>4. executingStateIds = DOMAIN stateIdCurrentlyExecutingCounts \/ closing
      BY <2>1, <2>4 DEF IdsFresh, StartPending
    <3> QED BY <1>1, <2>2, <3>3, <3>4 DEF IdsFresh
  <2> QED BY <1>3, <2>3, <2>4
<1> QED BY <1>2, <1>3 DEF CountInv

LEMMA InitCount == Init => CountInv
<1> SUFFICES ASSUME Init PROVE CountInv
  OBVIOUS
<1>1. /\ stateIdCurrentlyExecutingCounts = << >> /\ totalCurrentlyExecutingCount = 0
      /\ executingStateIds = {} /\ threads = << >> /\ toResume = << >>
      /\ stateRequestQueue = StartRequests(<<StartStateId>>)
  BY DEF Init, CounterInit
<1>2. \A S : UnderWay(S) = 0
  <2> TAKE S
  <2>1. Count(threads, Live(S)) = 0 /\ Count(toResume, S) = 0
    BY <1>1, CountNone
  <2>2. Count(stateRequestQueue, Resumes(S)) = 0
    <3>1. <<StartStateId>> \in Seq(StateIds)
      BY CycleAssumption
    <3>2. StartRequests(<<StartStateId>>) \in Seq(Requests)
      BY <3>1, StartRequestsType
    <3>3. << >> \o StartRequests(<<StartStateId>>) = StartRequests(<<StartStateId>>)
      BY <3>2
    <3>4. << >> \in Seq(Requests)
      OBVIOUS
    <3>5. Count(<< >> \o StartRequests(<<StartStateId>>), Resumes(S)) = Count(<< >>, Resumes(S))
      BY <3>1, <3>4, StartsQueued
    <3> QED BY <1>1, <3>3, <3>5, CountNone
  <2> QED BY <2>1, <2>2 DEF UnderWay
<1>3. DOMAIN stateIdCurrentlyExecutingCounts = {}
  BY <1>1
<1>4. CountsExact
  BY <1>2, <1>3 DEF CountsExact, CountOf
<1> QED BY <1>1, <1>2, <1>3, <1>4
     DEF CountInv, KeysOK, TotalOK, NoZeroKeys, IdsFresh

LEMMA IdleCount ==
  ASSUME CycleTypeOK, CountInv,
         \/ \E k \in Kinds : \E p \in Payloads(k) : Arrive(k, p)
         \/ \E i \in DOMAIN threads : Ready(i) \/ ThreadBlocked(i)
         \/ \E v \in Versions : DeployWorkers(v)
         \/ Load \/ StartTask \/ MainBlocked \/ Outer \/ Top \/ Inner \/ DrainInner
         \/ UNCHANGED vars
  PROVE  CountInv'
<1> USE DEF dispatchVars, configVars, threadVars, historyVars, closeVars
<1>1. UNCHANGED <<counterVars, threads, toResume, stateRequestQueue, config, modeChanged>>
  <2>1. CASE \E k \in Kinds : \E p \in Payloads(k) : Arrive(k, p)
    BY <2>1 DEF Arrive
  <2>2. CASE \E i \in DOMAIN threads : Ready(i) \/ ThreadBlocked(i)
    BY <2>2 DEF Ready, ThreadBlocked
  <2>3. CASE \E v \in Versions : DeployWorkers(v)
    BY <2>3 DEF DeployWorkers
  <2>4. CASE Load \/ StartTask \/ MainBlocked
    BY <2>4 DEF Load, StartTask, MainBlocked
  <2>5. CASE Outer \/ Top \/ Inner \/ DrainInner
    BY <2>5 DEF Outer, Top, Inner, DrainInner
  <2>6. CASE UNCHANGED vars
    BY <2>6 DEF vars
  <2> QED BY <2>1, <2>2, <2>3, <2>4, <2>5, <2>6
<1>4. \/ closing' = closing
      \/ closing' = (closing \/ failWorkflowByClient)
  <2>1. CASE \E k \in Kinds : \E p \in Payloads(k) : Arrive(k, p)
    BY <2>1 DEF Arrive
  <2>2. CASE \E i \in DOMAIN threads : Ready(i) \/ ThreadBlocked(i)
    BY <2>2 DEF Ready, ThreadBlocked
  <2>3. CASE \E v \in Versions : DeployWorkers(v)
    BY <2>3 DEF DeployWorkers
  <2>4. CASE Load \/ StartTask \/ MainBlocked
    BY <2>4 DEF Load, StartTask, MainBlocked
  <2>5. CASE Outer \/ Top \/ DrainInner
    BY <2>5 DEF Outer, Top, DrainInner
  <2>6. CASE Inner
    BY <2>6, Zenon DEF Inner
  <2>7. CASE UNCHANGED vars
    BY <2>7 DEF vars
  <2> QED BY <2>1, <2>2, <2>3, <2>4, <2>5, <2>6, <2>7
<1>5. closing => closing'
  BY <1>4, Zenon
<1>2. \A S : (UnderWay(S))' = UnderWay(S)
  BY <1>1 DEF UnderWay
<1>3. UNCHANGED counterVars /\ UNCHANGED <<stateRequestQueue, config, modeChanged>>
  BY <1>1
<1> QED BY <1>1, <1>2, <1>3, <1>5, CountKept

\* An update of the mode is recorded unless nothing is under way and queued.
LEMMA ModeHistory ==
  ASSUME NEW q,
         modeChanged' = (modeChanged \/ (config'.mode # config.mode
                           /\ (totalCurrentlyExecutingCount # 0 \/ q # << >>))),
         ~modeChanged'
  PROVE  /\ ~modeChanged
         /\ config'.mode = config.mode \/ (totalCurrentlyExecutingCount = 0 /\ q = << >>)
BY Zenon

LEMMA CallHandlerCount ==
  ASSUME CycleTypeOK, CountInv, NEW k \in Kinds, CallHandler(k)
  PROVE  CountInv'
<1>1. /\ UNCHANGED counterVars /\ UNCHANGED <<threads, toResume, closing>>
      /\ modeChanged' = (modeChanged \/ (config'.mode # config.mode
                           /\ (totalCurrentlyExecutingCount # 0 \/ stateRequestQueue' # << >>)))
  BY DEF CallHandler, NoteModeChange, threadVars, closeVars
<1>2. stateRequestQueue \in Seq(Requests)
  BY DEF CycleTypeOK, DispatchTypeOK
<1>3. \/ stateRequestQueue' = stateRequestQueue
      \/ \E ids \in Seq(StateIds) : stateRequestQueue' = stateRequestQueue \o StartRequests(ids)
  <2>1. CASE k \in alive /\ k = "rpc"
    <3>1. stateRequestQueue' = stateRequestQueue \o StartRequests(FlattenSeq(channel["rpc"]))
      BY <2>1 DEF CallHandler, Handle, Receive, Apply
    <3>2. channel["rpc"] \in Seq(RpcStates)
      BY PayloadsOfKinds DEF CycleTypeOK, DispatchTypeOK
    <3> QED BY <3>1, <3>2, FlattenType
  <2>2. CASE ~(k \in alive /\ k = "rpc")
    BY <2>2 DEF CallHandler, Handle, Receive, Apply, dispatchVars
  <2> QED BY <2>1, <2>2
<1>4. /\ \A S : Count(stateRequestQueue', Resumes(S)) = Count(stateRequestQueue, Resumes(S))
      /\ \A i \in DOMAIN stateRequestQueue :
           i \in DOMAIN stateRequestQueue' /\ stateRequestQueue'[i] = stateRequestQueue[i]
  <2>1. CASE stateRequestQueue' = stateRequestQueue
    BY <2>1
  <2>2. ASSUME NEW ids \in Seq(StateIds),
               stateRequestQueue' = stateRequestQueue \o StartRequests(ids)
        PROVE  /\ \A S : Count(stateRequestQueue', Resumes(S)) = Count(stateRequestQueue, Resumes(S))
               /\ \A i \in DOMAIN stateRequestQueue :
                    i \in DOMAIN stateRequestQueue' /\ stateRequestQueue'[i] = stateRequestQueue[i]
    BY <1>2, <2>2, StartsQueued
  <2> QED BY <1>3, <2>1, <2>2
<1>5. \A S : (UnderWay(S))' = UnderWay(S)
  BY <1>1, <1>4 DEF UnderWay
<1>6. ~modeChanged' => /\ ~modeChanged
                       /\ \/ config'.mode = config.mode
                          \/ totalCurrentlyExecutingCount = 0 /\ stateRequestQueue = << >>
  <2>1. stateRequestQueue' = << >> => stateRequestQueue = << >>
    <3>1. stateRequestQueue' = << >> => DOMAIN stateRequestQueue = {}
      BY <1>4
    <3> QED BY <1>2, <3>1
  <2>2. ~modeChanged' => /\ ~modeChanged
                         /\ \/ config'.mode = config.mode
                            \/ totalCurrentlyExecutingCount = 0 /\ stateRequestQueue' = << >>
    BY <1>1, ModeHistory
  <2> QED BY <2>1, <2>2
<1> QED BY <1>1, <1>4, <1>5, <1>6, CountKept

LEMMA ThreadRecord ==
  ASSUME CycleTypeOK, NEW i \in DOMAIN threads, NEW ph \in Phases,
         threads' = [threads EXCEPT ![i].phase = ph]
  PROVE  /\ threads \in Seq(ThreadRecords) /\ threads' \in Seq(ThreadRecords)
         /\ Len(threads') = Len(threads)
         /\ \A j \in DOMAIN threads : j # i => threads'[j] = threads[j]
         /\ threads[i] \in ThreadRecords /\ threads'[i] \in ThreadRecords
         /\ threads'[i].phase = ph /\ threads'[i].state = threads[i].state
<1>1. TaskTypeOK /\ threads \in Seq(ThreadRecords)
  BY DEF CycleTypeOK, TaskTypeOK
<1>2. threads' \in Seq(ThreadRecords) /\ Len(threads') = Len(threads) /\ DOMAIN threads' = DOMAIN threads
  BY <1>1, PhaseChange
<1>3. threads[i] \in ThreadRecords /\ threads'[i] \in ThreadRecords
  BY <1>1, <1>2
<1>4. \A j \in DOMAIN threads : j # i => threads'[j] = threads[j]
  BY <1>1
<1>5. threads'[i] = [threads[i] EXCEPT !.phase = ph]
  BY <1>1
<1>6. threads'[i].phase = ph /\ threads'[i].state = threads[i].state
  BY <1>3, <1>5 DEF ThreadRecords
<1> QED BY <1>1, <1>2, <1>3, <1>4, <1>6

LEMMA ThreadAdvancesCount ==
  ASSUME CycleTypeOK, CountInv, NEW i \in DOMAIN threads, ThreadAdvances(i)
  PROVE  CountInv'
<1>1. /\ UNCHANGED counterVars
      /\ UNCHANGED <<toResume, stateRequestQueue, config, modeChanged, closing>>
      /\ threads[i].phase \in {"waitUntil", "waiting"}
  BY DEF ThreadAdvances, dispatchVars, configVars, historyVars, closeVars
<1>2. PICK ph \in {"waiting", "execute"} : threads' = [threads EXCEPT ![i].phase = ph]
  <2>1. \E ph \in {"waiting", "execute"} :
          ph = IF threads[i].phase = "waitUntil" THEN "waiting" ELSE "execute"
    OBVIOUS
  <2> QED BY <2>1 DEF ThreadAdvances
<1>3. ph \in Phases /\ ph # "done" /\ threads[i].phase # "done"
  BY <1>1, <1>2 DEF Phases
<1>4. /\ threads \in Seq(ThreadRecords) /\ threads' \in Seq(ThreadRecords)
      /\ Len(threads') = Len(threads)
      /\ \A j \in DOMAIN threads : j # i => threads'[j] = threads[j]
      /\ threads[i] \in ThreadRecords /\ threads'[i] \in ThreadRecords
      /\ threads'[i].phase = ph /\ threads'[i].state = threads[i].state
  BY <1>2, <1>3, ThreadRecord
<1>5. \A S : threads[i] \in Live(S) <=> threads'[i] \in Live(S)
  BY <1>3, <1>4 DEF Live
<1>6. \A S : Count(threads', Live(S)) = Count(threads, Live(S))
  <2> TAKE S
  <2>1. threads[i] \in Live(S) <=> threads'[i] \in Live(S)
    BY <1>5
  <2> QED BY <1>4, <2>1, LiveChanged
<1>7. \A S : (UnderWay(S))' = UnderWay(S)
  BY <1>1, <1>6 DEF UnderWay
<1> QED BY <1>1, <1>7, CountKept

\* A parked execution is still under way.
LEMMA ThreadParksCount ==
  ASSUME CycleTypeOK, CountInv, NEW i \in DOMAIN threads, ThreadParks(i)
  PROVE  CountInv'
<1> DEFINE s == threads[i].state
<1>1. /\ UNCHANGED counterVars
      /\ UNCHANGED <<stateRequestQueue, config, modeChanged, closing>>
      /\ threads[i].phase = "waiting" /\ threads' = [threads EXCEPT ![i].phase = "done"]
      /\ toResume' = Append(toResume, s)
  BY DEF ThreadParks, dispatchVars, configVars, historyVars, closeVars
<1>2. /\ threads \in Seq(ThreadRecords) /\ threads' \in Seq(ThreadRecords)
      /\ Len(threads') = Len(threads)
      /\ \A j \in DOMAIN threads : j # i => threads'[j] = threads[j]
      /\ threads[i] \in ThreadRecords /\ threads'[i] \in ThreadRecords
      /\ threads'[i].phase = "done" /\ threads'[i].state = s
  BY <1>1, ThreadRecord DEF Phases
<1>3. s \in StateIds /\ toResume \in Seq(StateIds)
  BY <1>2 DEF CycleTypeOK, TaskTypeOK, ThreadRecords
<1> HIDE DEF s
<1>4. \A S : /\ threads[i] \in Live(S) <=> s \in S
             /\ threads'[i] \notin Live(S)
  BY <1>1, <1>2 DEF Live, s
<1>5. \A S : /\ s \in S => Count(threads', Live(S)) = Count(threads, Live(S)) - 1
             /\ s \notin S => Count(threads', Live(S)) = Count(threads, Live(S))
  BY <1>2, <1>4, LiveChanged
<1>6. \A S : Count(toResume', S) = IF s \in S THEN Count(toResume, S) + 1 ELSE Count(toResume, S)
  <2> TAKE S
  <2>1. toResume' = toResume \o <<s>> /\ <<s>> \in Seq(StateIds)
    <3>1. Append(toResume, s) = toResume \o <<s>>
      BY <1>3, AppendIsConcat
    <3> QED BY <1>1, <1>3, <3>1
  <2>2. Count(toResume', S) = Count(toResume, S) + Count(<<s>>, S) /\ Count(toResume, S) \in Nat
    BY <1>3, <2>1, CountAppended, CountType
  <2>3. Count(<<s>>, S) = IF s \in S THEN 1 ELSE 0
    <3>1. Holding(<<s>>, S) = IF s \in S THEN {1} ELSE {}
      BY DEF Holding
    <3>2. Cardinality({1}) = 1 /\ Cardinality({}) = 0
      BY FS_Singleton, FS_EmptySet
    <3> QED BY <3>1, <3>2 DEF Count
  <2> QED BY <2>2, <2>3
<1>7. \A S : (UnderWay(S))' = UnderWay(S)
  <2> TAKE S
  <2>1. /\ Count(threads, Live(S)) \in Nat /\ Count(toResume, S) \in Nat
        /\ Count(stateRequestQueue, Resumes(S)) \in Nat
    BY UnderWayParts
  <2>2. Count(threads', Live(S)) + Count(toResume', S) = Count(threads, Live(S)) + Count(toResume, S)
    BY <1>5, <1>6, <2>1
  <2> QED BY <1>1, <2>1, <2>2 DEF UnderWay
<1> QED BY <1>1, <1>7, CountKept

\* An execution whose decision is a conditional close is still under way while the
\* signals are drained.
LEMMA ThreadDrainsCount ==
  ASSUME CycleTypeOK, CountInv, NEW i \in DOMAIN threads, ThreadDrains(i)
  PROVE  CountInv'
<1> DEFINE q == stateRequestQueue
           ids == FlattenSeq(channel["rpc"])
<1>1. /\ UNCHANGED counterVars
      /\ UNCHANGED <<toResume, closing>>
      /\ threads[i].phase = "execute" /\ threads' = [threads EXCEPT ![i].phase = "closing"]
      /\ q' = q \o StartRequests(ids)
      /\ modeChanged' = (modeChanged \/ (config'.mode # config.mode
                           /\ (totalCurrentlyExecutingCount # 0 \/ q' # << >>)))
  BY DEF ThreadDrains, DrainAllReceivedButUnprocessedSignals, NoteModeChange, closeVars
<1>2. q \in Seq(Requests) /\ ids \in Seq(StateIds)
  <2>1. channel["rpc"] \in Seq(RpcStates)
    BY PayloadsOfKinds DEF CycleTypeOK, DispatchTypeOK
  <2> QED BY <2>1, FlattenType DEF CycleTypeOK, DispatchTypeOK
<1>3. /\ threads \in Seq(ThreadRecords) /\ threads' \in Seq(ThreadRecords)
      /\ Len(threads') = Len(threads)
      /\ \A j \in DOMAIN threads : j # i => threads'[j] = threads[j]
      /\ threads[i] \in ThreadRecords /\ threads'[i] \in ThreadRecords
      /\ threads'[i].phase = "closing" /\ threads'[i].state = threads[i].state
  BY <1>1, ThreadRecord DEF Phases
<1>4. \A S : Count(threads', Live(S)) = Count(threads, Live(S))
  <2> TAKE S
  <2>1. threads[i] \in Live(S) <=> threads'[i] \in Live(S)
    BY <1>1, <1>3 DEF Live
  <2> QED BY <1>3, <2>1, LiveChanged
<1> HIDE DEF q, ids
<1>5. /\ \A S : Count(q', Resumes(S)) = Count(q, Resumes(S))
      /\ \A j \in DOMAIN q : j \in DOMAIN q' /\ q'[j] = q[j]
  BY <1>1, <1>2, StartsQueued
<1>6. \A S : (UnderWay(S))' = UnderWay(S)
  BY <1>1, <1>4, <1>5 DEF UnderWay, q
<1>7. ~modeChanged' => /\ ~modeChanged
                       /\ \/ config'.mode = config.mode
                          \/ totalCurrentlyExecutingCount = 0 /\ q = << >>
  <2>1. q' = << >> => q = << >>
    <3>1. q' = << >> => DOMAIN q = {}
      <4>1. DOMAIN << >> = {}
        OBVIOUS
      <4> QED BY <1>5, <4>1
    <3> QED BY <1>2, <3>1
  <2>2. ~modeChanged' => /\ ~modeChanged
                         /\ \/ config'.mode = config.mode
                            \/ totalCurrentlyExecutingCount = 0 /\ q' = << >>
    BY <1>1, ModeHistory
  <2> QED BY <2>1, <2>2
<1> QED BY <1>1, <1>5, <1>6, <1>7, CountKept DEF q

\* The next run gets the parked executions as requests to resume them.
LEMMA DrainOuterCount ==
  ASSUME CycleTypeOK, CountInv, LoopOK, DrainOuter
  PROVE  CountInv'
<1> DEFINE q == stateRequestQueue
           rpc == StartRequests(FlattenSeq(channel["rpc"]))
           resumed == [i \in DOMAIN toResume |-> [state |-> toResume[i], resume |-> TRUE]]
<1>1. /\ UNCHANGED counterVars
      /\ modeChanged' = (modeChanged \/ (config'.mode # config.mode
                           /\ (totalCurrentlyExecutingCount # 0 \/ stateRequestQueue' # << >>)))
      /\ ~closing
  BY DEF DrainOuter, NoteModeChange, Main, LoopOK
<1>2. /\ q \in Seq(Requests) /\ toResume \in Seq(StateIds) /\ threads \in Seq(ThreadRecords)
      /\ FlattenSeq(channel["rpc"]) \in Seq(StateIds)
  <2>1. channel["rpc"] \in Seq(RpcStates)
    BY PayloadsOfKinds DEF CycleTypeOK, DispatchTypeOK
  <2> QED BY <2>1, FlattenType DEF CycleTypeOK, DispatchTypeOK, TaskTypeOK
<1>3. \/ q' = q \o rpc /\ UNCHANGED <<threads, toResume>>
      \/ q' = (q \o rpc) \o resumed /\ threads' = << >> /\ toResume' = << >>
  BY DEF DrainOuter, DrainAllReceivedButUnprocessedSignals, threadVars
<1>4. /\ \A S : Count(q \o rpc, Resumes(S)) = Count(q, Resumes(S))
      /\ \A i \in DOMAIN q : i \in DOMAIN (q \o rpc) /\ (q \o rpc)[i] = q[i]
      /\ q \o rpc \in Seq(Requests)
  <2>1. rpc \in Seq(Requests)
    BY <1>2, StartRequestsType
  <2>2. q \o rpc \in Seq(Requests)
    <3> HIDE DEF rpc, q
    <3> QED BY <1>2, <2>1
  <2> QED BY <1>2, <2>2, StartsQueued
<1>5. \A i \in DOMAIN threads : threads[i].phase = "done"
  <2>1. at = "drainOuter" /\ MainCanGo
    BY DEF DrainOuter, Main
  <2> QED BY <2>1 DEF MainCanGo, AllThreadsDrained
<1> HIDE DEF q, rpc
<1>6. /\ resumed \in Seq(Requests) /\ Len(resumed) = Len(toResume)
      /\ \A S : \A i \in DOMAIN toResume : toResume[i] \in S <=> resumed[i] \in Resumes(S)
  <2>1. /\ DOMAIN toResume = 1..Len(toResume) /\ Len(toResume) \in Nat
        /\ \A i \in DOMAIN toResume : toResume[i] \in StateIds
    BY <1>2
  <2>2. \A i \in DOMAIN toResume : [state |-> toResume[i], resume |-> TRUE] \in Requests
    BY <2>1 DEF Requests
  <2>3. resumed \in Seq(Requests) /\ Len(resumed) = Len(toResume)
    BY <2>1, <2>2
  <2> QED BY <2>2, <2>3 DEF Resumes
<1> HIDE DEF resumed
<1>7. \A S : (UnderWay(S))' = UnderWay(S)
  <2> TAKE S
  <2>1. CASE q' = q \o rpc /\ UNCHANGED <<threads, toResume>>
    BY <1>4, <2>1 DEF UnderWay, q
  <2>2. CASE q' = (q \o rpc) \o resumed /\ threads' = << >> /\ toResume' = << >>
    <3>1. Count(q', Resumes(S)) = Count(q \o rpc, Resumes(S)) + Count(resumed, Resumes(S))
      <4>1. q \o rpc \in Seq(Requests) /\ resumed \in Seq(Requests)
        BY <1>4, <1>6
      <4>2. Count((q \o rpc) \o resumed, Resumes(S))
              = Count(q \o rpc, Resumes(S)) + Count(resumed, Resumes(S))
        BY <4>1, CountAppended
      <4> QED BY <2>2, <4>2
    <3>2. Count(toResume, S) = Count(resumed, Resumes(S))
      <4>1. \A i \in DOMAIN toResume : toResume[i] \in S <=> resumed[i] \in Resumes(S)
        BY <1>6
      <4>2. /\ toResume \in Seq(StateIds) /\ resumed \in Seq(Requests)
            /\ Len(toResume) = Len(resumed)
        BY <1>2, <1>6
      <4> QED BY <4>1, <4>2, CountSame, SMTT(30)
    <3>3. Count(threads, Live(S)) = 0
      <4>1. \A i \in DOMAIN threads : threads[i] \notin Live(S)
        BY <1>5 DEF Live
      <4>2. threads \in Seq(ThreadRecords)
        BY <1>2
      <4> QED BY <4>1, <4>2, CountZero, Zenon
    <3>4. Count(threads', Live(S)) = 0 /\ Count(toResume', S) = 0
      BY <2>2, CountNone
    <3>5. Count(toResume, S) \in Nat /\ Count(q, Resumes(S)) \in Nat
      BY <1>2, CountType
    <3>6. (UnderWay(S))' = 0 + 0 + (Count(q, Resumes(S)) + Count(toResume, S))
      BY <1>4, <3>1, <3>2, <3>4 DEF UnderWay, q
    <3>7. UnderWay(S) = 0 + Count(toResume, S) + Count(q, Resumes(S))
      BY <3>3 DEF UnderWay, q
    <3> QED BY <3>5, <3>6, <3>7
  <2> QED BY <1>3, <2>1, <2>2
<1>8. \A i \in DOMAIN q : i \in DOMAIN q' /\ q'[i] = q[i]
  <2>1. CASE q' = q \o rpc
    BY <1>4, <2>1
  <2>2. CASE q' = (q \o rpc) \o resumed
    <3> DEFINE p == q \o rpc
    <3>1. p \in Seq(Requests)
      BY <1>4
    <3>2. \A i \in DOMAIN p : i \in DOMAIN (p \o resumed) /\ (p \o resumed)[i] = p[i]
      <4> HIDE DEF p
      <4>1. /\ Len(p \o resumed) = Len(p) + Len(resumed) /\ Len(p) \in Nat /\ Len(resumed) \in Nat
            /\ DOMAIN p = 1..Len(p) /\ DOMAIN (p \o resumed) = 1..Len(p) + Len(resumed)
            /\ \A i \in 1..Len(p) : (p \o resumed)[i] = p[i]
        <5>1. resumed \in Seq(Requests)
          BY <1>6
        <5> QED BY <3>1, <5>1, Appended
      <4> QED BY <4>1
    <3> QED BY <1>4, <2>2, <3>2
  <2> QED BY <1>3, <2>1, <2>2
<1>9. ~modeChanged' => /\ ~modeChanged
                       /\ \/ config'.mode = config.mode
                          \/ totalCurrentlyExecutingCount = 0 /\ q = << >>
  <2>1. q' = << >> => q = << >>
    <3>1. q' = << >> => DOMAIN q = {}
      <4>1. DOMAIN << >> = {}
        OBVIOUS
      <4> QED BY <1>8, <4>1
    <3> QED BY <1>2, <3>1
  <2>2. ~modeChanged' => /\ ~modeChanged
                         /\ \/ config'.mode = config.mode
                            \/ totalCurrentlyExecutingCount = 0 /\ q' = << >>
    BY <1>1, ModeHistory DEF q
  <2> QED BY <2>1, <2>2
<1> QED BY <1>1, <1>7, <1>8, <1>9, CountKept DEF q

\* The counts after a completion.
LEMMA Decreased ==
  ASSUME KeysOK, NEW s \in StateIds
  PROVE  LET counts == stateIdCurrentlyExecutingCounts
             less == Decrease(counts, s)
         IN  /\ DOMAIN less \subseteq StateIds /\ \A t \in DOMAIN less : less[t] \in Int
             /\ CountOf(less, s) = CountOf(counts, s) - 1
             /\ \A t \in StateIds \ {s} : CountOf(less, t) = CountOf(counts, t)
             /\ NoZeroKeys => \A t \in DOMAIN less : less[t] # 0
<1> DEFINE counts == stateIdCurrentlyExecutingCounts
           less == Decrease(counts, s)
           c == CountOf(counts, s) - 1
<1>1. c \in Int /\ DOMAIN counts \subseteq StateIds /\ \A t \in DOMAIN counts : counts[t] \in Int
  BY DEF KeysOK, CountOf
<1>2. less = [t \in (DOMAIN counts \cup {s}) \ (IF c = 0 THEN {s} ELSE {}) |->
                IF t = s THEN c ELSE counts[t]]
  BY DEF Decrease
<1>3. NoZeroKeys => \A t \in DOMAIN counts : counts[t] # 0
  BY DEF NoZeroKeys
<1> HIDE DEF counts, less, c
<1>4. CASE c = 0
  <2>1. less = [t \in (DOMAIN counts \cup {s}) \ {s} |-> IF t = s THEN c ELSE counts[t]]
    BY <1>2, <1>4
  <2>2. DOMAIN less = DOMAIN counts \ {s} /\ \A t \in DOMAIN less : less[t] = counts[t]
    BY <2>1
  <2>3. CountOf(less, s) = c /\ \A t \in StateIds \ {s} : CountOf(less, t) = CountOf(counts, t)
    BY <1>4, <2>2 DEF CountOf
  <2> QED BY <1>1, <1>3, <2>2, <2>3 DEF c, less, counts
<1>5. CASE c # 0
  <2>1. less = [t \in DOMAIN counts \cup {s} |-> IF t = s THEN c ELSE counts[t]]
    BY <1>2, <1>5
  <2>2. /\ DOMAIN less = DOMAIN counts \cup {s} /\ less[s] = c
        /\ \A t \in DOMAIN less : t # s => t \in DOMAIN counts /\ less[t] = counts[t]
    BY <2>1
  <2>3. CountOf(less, s) = c /\ \A t \in StateIds \ {s} : CountOf(less, t) = CountOf(counts, t)
    BY <2>2 DEF CountOf
  <2>4. NoZeroKeys => \A t \in DOMAIN less : less[t] # 0
    BY <1>3, <1>5, <2>2
  <2> QED BY <1>1, <2>2, <2>3, <2>4 DEF c, less, counts
<1> QED BY <1>4, <1>5

\* The states that are counted as next are queued, unless the workflow closes.
LEMMA CompletesCount ==
  ASSUME CycleTypeOK, CountInv, NEW i \in DOMAIN threads, threads[i].phase # "done",
         NEW next, NEW queued \in Seq(StateIds), Completes(i, next, queued),
         closing => closing', queued = next \/ closing'
  PROVE  CountInv'
<1> DEFINE s == threads[i].state
           counts == stateIdCurrentlyExecutingCounts
           less == Decrease(counts, s)
<1>1. /\ UNCHANGED <<toResume, config, modeChanged>>
      /\ threads' = [threads EXCEPT ![i].phase = "done"]
      /\ stateRequestQueue' = stateRequestQueue \o StartRequests(queued)
      /\ MarkStateExecutionCompleted(s, next, config.mode)
  BY DEF Completes, historyVars
<1>2. /\ threads \in Seq(ThreadRecords) /\ threads' \in Seq(ThreadRecords)
      /\ Len(threads') = Len(threads)
      /\ \A j \in DOMAIN threads : j # i => threads'[j] = threads[j]
      /\ threads[i] \in ThreadRecords /\ threads'[i] \in ThreadRecords
      /\ threads'[i].phase = "done" /\ threads'[i].state = s
  BY <1>1, ThreadRecord DEF Phases
<1>3. s \in StateIds /\ stateRequestQueue \in Seq(Requests)
  BY <1>2 DEF ThreadRecords, CycleTypeOK, DispatchTypeOK
<1>4. \A S : /\ threads[i] \in Live(S) <=> s \in S
             /\ threads'[i] \notin Live(S)
  BY <1>1, <1>2 DEF Live
<1> HIDE DEF s
<1>5. \A S : /\ s \in S => Count(threads', Live(S)) = Count(threads, Live(S)) - 1
             /\ s \notin S => Count(threads', Live(S)) = Count(threads, Live(S))
  <2> TAKE S
  <2>1. /\ threads[i] \in Live(S) <=> s \in S
        /\ threads'[i] \notin Live(S)
    BY <1>4
  <2>2. /\ threads \in Seq(ThreadRecords) /\ threads' \in Seq(ThreadRecords)
        /\ Len(threads) = Len(threads')
        /\ \A j \in DOMAIN threads : j # i => threads'[j] = threads[j]
    BY <1>2
  <2>3. /\ threads[i] \in Live(S) /\ threads'[i] \notin Live(S)
             => Count(threads', Live(S)) = Count(threads, Live(S)) - 1
        /\ threads[i] \notin Live(S) /\ threads'[i] \notin Live(S)
             => Count(threads', Live(S)) = Count(threads, Live(S))
    BY <2>2, LiveChanged
  <2> QED BY <2>1, <2>3
<1>6. /\ \A S : Count(stateRequestQueue', Resumes(S)) = Count(stateRequestQueue, Resumes(S))
      /\ \A j \in DOMAIN stateRequestQueue :
           j \in DOMAIN stateRequestQueue' /\ stateRequestQueue'[j] = stateRequestQueue[j]
      /\ \A n \in ToSet(queued) : \E j \in DOMAIN stateRequestQueue' :
           stateRequestQueue'[j] = [state |-> n, resume |-> FALSE]
  BY <1>1, <1>3, StartsQueued
<1>7. \A S : (UnderWay(S))' = IF s \in S THEN UnderWay(S) - 1 ELSE UnderWay(S)
  <2> TAKE S
  <2>1. /\ Count(threads, Live(S)) \in Nat /\ Count(toResume, S) \in Nat
        /\ Count(stateRequestQueue, Resumes(S)) \in Nat
    BY UnderWayParts
  <2>2. Count(stateRequestQueue', Resumes(S)) = Count(stateRequestQueue, Resumes(S))
    BY <1>6
  <2>3. Count(threads', Live(S)) =
          IF s \in S THEN Count(threads, Live(S)) - 1 ELSE Count(threads, Live(S))
    BY <1>5
  <2>4. Count(toResume', S) = Count(toResume, S)
    BY <1>1
  <2> QED BY <2>1, <2>2, <2>3, <2>4 DEF UnderWay
<1>8. TotalOK'
  <2>1. totalCurrentlyExecutingCount' = totalCurrentlyExecutingCount - 1
    BY <1>1 DEF MarkStateExecutionCompleted
  <2> QED BY <1>3, <1>7, <2>1 DEF CountInv, TotalOK
<1>9. StartPending => StartPending'
  BY <1>1, <1>6 DEF StartPending
<1>10. CASE Counted(config.mode, s)
  <2>1. /\ stateIdCurrentlyExecutingCounts' = less
        /\ executingStateIds' = IF \E n \in ToSet(next) : Counted(config.mode, n)
                                THEN executingStateIds ELSE DOMAIN less
    BY <1>1, <1>10 DEF MarkStateExecutionCompleted
  <2>2. /\ DOMAIN less \subseteq StateIds /\ \A t \in DOMAIN less : less[t] \in Int
        /\ CountOf(less, s) = CountOf(counts, s) - 1
        /\ \A t \in StateIds \ {s} : CountOf(less, t) = CountOf(counts, t)
        /\ NoZeroKeys => \A t \in DOMAIN less : less[t] # 0
    BY <1>3, Decreased DEF CountInv
  <2> HIDE DEF less
  <2>3. KeysOK'
    BY <2>1, <2>2 DEF CountInv, KeysOK
  <2>4. ASSUME ~modeChanged' PROVE CountsExact' /\ NoZeroKeys' /\ IdsFresh'
    <3>1. CountsExact /\ NoZeroKeys /\ IdsFresh
      BY <1>1, <2>4 DEF CountInv
    <3>2. \A t \in StateIds :
            CountOf(less, t) = IF Counted(config.mode, t) THEN (UnderWay({t}))' ELSE 0
      <4> TAKE t \in StateIds
      <4>1. CountOf(counts, t) = IF Counted(config.mode, t) THEN UnderWay({t}) ELSE 0
        BY <3>1 DEF CountsExact
      <4>2. CASE t = s
        <5>1. CountOf(less, t) = UnderWay({t}) - 1
          BY <1>10, <2>2, <4>1, <4>2
        <5>2. (UnderWay({t}))' = UnderWay({t}) - 1
          BY <1>7, <4>2
        <5> QED BY <1>10, <4>2, <5>1, <5>2
      <4>3. CASE t # s
        <5>1. (UnderWay({t}))' = UnderWay({t})
          BY <1>7, <4>3
        <5> QED BY <2>2, <4>1, <4>3, <5>1
      <4> QED BY <4>2, <4>3
    <3>3. CountsExact'
      BY <1>1, <2>1, <3>2 DEF CountsExact
    <3>4. NoZeroKeys'
      BY <2>1, <2>2, <3>1 DEF NoZeroKeys
    <3>5. (\E n \in ToSet(next) : Counted(config.mode, n)) => StartPending' \/ closing'
      <4> SUFFICES ASSUME NEW n \in ToSet(next), Counted(config.mode, n), queued = next
                   PROVE  StartPending'
        OBVIOUS
      <4>1. PICK j \in DOMAIN stateRequestQueue' :
              stateRequestQueue'[j] = [state |-> n, resume |-> FALSE]
        BY <1>6
      <4>2. ~stateRequestQueue'[j].resume /\ stateRequestQueue'[j].state = n
        BY <4>1
      <4> QED BY <1>1, <4>2 DEF StartPending
    <3> QED BY <2>1, <3>3, <3>4, <3>5 DEF IdsFresh
  <2> QED BY <1>8, <2>3, <2>4 DEF CountInv
<1>11. CASE ~Counted(config.mode, s)
  <2>1. UNCHANGED <<stateIdCurrentlyExecutingCounts, executingStateIds>>
    BY <1>1, <1>11 DEF MarkStateExecutionCompleted
  <2>2. KeysOK'
    BY <2>1 DEF CountInv, KeysOK
  <2>3. ASSUME ~modeChanged' PROVE CountsExact' /\ NoZeroKeys' /\ IdsFresh'
    <3>1. CountsExact /\ NoZeroKeys /\ IdsFresh
      BY <1>1, <2>3 DEF CountInv
    <3>2. \A t \in StateIds : Counted(config.mode, t) => (UnderWay({t}))' = UnderWay({t})
      BY <1>7, <1>11
    <3>3. CountsExact'
      BY <1>1, <2>1, <3>1, <3>2 DEF CountsExact
    <3> QED BY <1>9, <2>1, <3>1, <3>3 DEF NoZeroKeys, IdsFresh
  <2> QED BY <1>8, <2>2, <2>3 DEF CountInv
<1> QED BY <1>10, <1>11

\* The counts after the starts of a queue.
LEMMA StartsAdded ==
  ASSUME KeysOK, NEW q \in Seq(Requests), NEW mode
  PROVE  LET counts == stateIdCurrentlyExecutingCounts
             ids == [i \in {j \in DOMAIN q : ~q[j].resume} |-> q[i].state]
             marked == {i \in DOMAIN ids : Counted(mode, ids[i])}
             more == AddStarts(counts, ids, marked)
         IN  /\ DOMAIN more \subseteq StateIds /\ DOMAIN counts \subseteq DOMAIN more
             /\ \A t \in DOMAIN more : more[t] \in Int
             /\ \A t \in StateIds :
                  CountOf(more, t) = CountOf(counts, t)
                                       + IF Counted(mode, t) THEN Count(q, Starts({t})) ELSE 0
             /\ \A t \in DOMAIN more \ DOMAIN counts :
                  Counted(mode, t) /\ Count(q, Starts({t})) # 0
             /\ marked = {} => DOMAIN more = DOMAIN counts
             /\ Cardinality(DOMAIN ids) = Count(q, Starts(StateIds))
<1> DEFINE counts == stateIdCurrentlyExecutingCounts
           ids == [i \in {j \in DOMAIN q : ~q[j].resume} |-> q[i].state]
           marked == {i \in DOMAIN ids : Counted(mode, ids[i])}
           more == AddStarts(counts, ids, marked)
           Of(t) == {i \in marked : ids[i] = t}
<1>1. \A i \in DOMAIN q : q[i] \in Requests /\ q[i].state \in StateIds
  <2>1. \A i \in DOMAIN q : q[i] \in Requests
    OBVIOUS
  <2> QED BY <2>1 DEF Requests
<1>2. /\ DOMAIN ids = {j \in DOMAIN q : ~q[j].resume}
      /\ \A i \in DOMAIN ids : ids[i] = q[i].state
  OBVIOUS
<1>3. /\ \A i \in marked : i \in DOMAIN ids /\ ids[i] \in StateIds /\ Counted(mode, ids[i])
      /\ \A i \in DOMAIN ids : Counted(mode, ids[i]) => i \in marked
  BY <1>1, <1>2
<1>4. DOMAIN ids = Holding(q, Starts(StateIds))
  BY <1>1, <1>2 DEF Holding, Starts
<1>5. \A t \in StateIds : Of(t) = IF Counted(mode, t) THEN Holding(q, Starts({t})) ELSE {}
  <2> TAKE t \in StateIds
  <2>1. \A i : i \in Holding(q, Starts({t})) <=> i \in DOMAIN ids /\ ids[i] = t
    BY <1>1, <1>2 DEF Holding, Starts
  <2> QED BY <1>3, <2>1
<1>6. /\ DOMAIN more = DOMAIN counts \cup {ids[i] : i \in marked}
      /\ \A t \in DOMAIN more : more[t] = CountOf(counts, t) + Cardinality(Of(t))
  BY DEF AddStarts
<1>7. DOMAIN counts \subseteq StateIds /\ \A t \in DOMAIN counts : counts[t] \in Int
  BY DEF KeysOK
<1> HIDE DEF ids, marked, more, counts
<1>8. \A t \in StateIds :
        /\ Cardinality(Of(t)) = IF Counted(mode, t) THEN Count(q, Starts({t})) ELSE 0
        /\ Cardinality(Of(t)) \in Nat /\ CountOf(counts, t) \in Int
        /\ Of(t) # {} => Cardinality(Of(t)) # 0
  <2> TAKE t \in StateIds
  <2>1. IsFiniteSet(Holding(q, Starts({t}))) /\ Count(q, Starts({t})) \in Nat
    BY CountType
  <2>2. IsFiniteSet({}) /\ Cardinality({}) = 0
    BY FS_EmptySet
  <2>3. Of(t) = IF Counted(mode, t) THEN Holding(q, Starts({t})) ELSE {}
    BY <1>5
  <2> HIDE DEF Of
  <2>4. Cardinality(Of(t)) = IF Counted(mode, t) THEN Count(q, Starts({t})) ELSE 0
    BY <2>2, <2>3 DEF Count
  <2>5. IsFiniteSet(Of(t))
    BY <2>1, <2>2, <2>3
  <2>6. Of(t) # {} => Cardinality(Of(t)) # 0
    BY <2>5, FS_EmptySet
  <2> QED BY <1>7, <2>1, <2>4, <2>6 DEF CountOf
<1>9. \A t \in StateIds : t \in {ids[i] : i \in marked} <=> Of(t) # {}
  OBVIOUS
<1> HIDE DEF Of
<1>10. \A t \in StateIds : CountOf(more, t) = CountOf(counts, t) + Cardinality(Of(t))
  <2> TAKE t \in StateIds
  <2>1. CASE t \in DOMAIN more
    BY <1>6, <2>1 DEF CountOf
  <2>2. CASE t \notin DOMAIN more
    <3>1. t \notin DOMAIN counts /\ Of(t) = {}
      BY <1>6, <1>9, <2>2
    <3>2. CountOf(more, t) = 0 /\ CountOf(counts, t) = 0 /\ Cardinality(Of(t)) = 0
      BY <2>2, <3>1, FS_EmptySet DEF CountOf
    <3> QED BY <3>2
  <2> QED BY <2>1, <2>2
<1>11. DOMAIN more \subseteq StateIds /\ DOMAIN counts \subseteq DOMAIN more
  BY <1>3, <1>6, <1>7
<1>12. \A t \in DOMAIN more : more[t] \in Int
  <2> TAKE t \in DOMAIN more
  <2>1. more[t] = CountOf(counts, t) + Cardinality(Of(t)) /\ t \in StateIds
    BY <1>6, <1>11
  <2>2. Cardinality(Of(t)) \in Nat /\ CountOf(counts, t) \in Int
    BY <1>8, <2>1
  <2> QED BY <2>1, <2>2
<1>13. \A t \in DOMAIN more \ DOMAIN counts : Counted(mode, t) /\ Count(q, Starts({t})) # 0
  <2> TAKE t \in DOMAIN more \ DOMAIN counts
  <2>1. t \in StateIds /\ Of(t) # {}
    BY <1>6, <1>9, <1>11
  <2>2. /\ Cardinality(Of(t)) = IF Counted(mode, t) THEN Count(q, Starts({t})) ELSE 0
        /\ Cardinality(Of(t)) # 0
    BY <1>8, <2>1
  <2> QED BY <2>2
<1>14. marked = {} => DOMAIN more = DOMAIN counts
  BY <1>6
<1>15. \A t \in StateIds :
         CountOf(more, t) = CountOf(counts, t)
                              + IF Counted(mode, t) THEN Count(q, Starts({t})) ELSE 0
  BY <1>8, <1>10
<1>16. Cardinality(DOMAIN ids) = Count(q, Starts(StateIds))
  BY <1>4 DEF Count
<1> QED BY <1>11, <1>12, <1>13, <1>14, <1>15, <1>16 DEF ids, marked, more, counts

\* The requests that the main loop takes: what it resumes was under way already.
LEMMA StatesToExecuteUnderWay ==
  ASSUME CycleTypeOK, StatesToExecute
  PROVE  \A S : (UnderWay(S))' = UnderWay(S) + Count(stateRequestQueue, Starts(S))
<1> DEFINE q == stateRequestQueue
           Phase(i) == IF q[i].resume THEN "waiting"
                       ELSE IF q[i].state \in SkipWaitUntil THEN "execute"
                       ELSE "waitUntil"
           new == [i \in DOMAIN q |-> [state |-> q[i].state, phase |-> Phase(i)]]
<1>1. /\ threads' = threads \o new /\ stateRequestQueue' = << >> /\ toResume' = toResume
  BY Zenon DEF StatesToExecute
<1>2. q \in Seq(Requests) /\ threads \in Seq(ThreadRecords)
  BY DEF CycleTypeOK, DispatchTypeOK, TaskTypeOK
<1> HIDE DEF q
<1>3. /\ Len(q) \in Nat /\ DOMAIN q = 1..Len(q)
      /\ \A i \in DOMAIN q : q[i] \in Requests /\ q[i].state \in StateIds
  <2>1. Len(q) \in Nat /\ DOMAIN q = 1..Len(q) /\ \A i \in DOMAIN q : q[i] \in Requests
    BY <1>2
  <2> QED BY <2>1 DEF Requests
<1>4. \A i \in DOMAIN q : Phase(i) \in Phases /\ Phase(i) # "done"
  <2>1. \A p, e : (IF p THEN "waiting" ELSE IF e THEN "execute" ELSE "waitUntil")
                    \in {"waiting", "execute", "waitUntil"}
    BY Zenon
  <2>2. \A i \in DOMAIN q : Phase(i) \in {"waiting", "execute", "waitUntil"}
    BY <2>1
  <2> HIDE DEF Phase
  <2> QED BY <2>2 DEF Phases
<1> HIDE DEF Phase
<1>5. \A i \in DOMAIN q : new[i] \in ThreadRecords /\ new[i].phase # "done" /\ new[i].state = q[i].state
  BY <1>3, <1>4 DEF ThreadRecords
<1>6. new \in Seq(ThreadRecords) /\ Len(new) = Len(q) /\ DOMAIN new = DOMAIN q
  <2>1. \A i \in 1..Len(q) : [state |-> q[i].state, phase |-> Phase(i)] \in ThreadRecords
    BY <1>3, <1>4 DEF ThreadRecords
  <2> QED BY <1>3, <2>1
<1> HIDE DEF new
<1> TAKE S
<1>7. Count(threads', Live(S)) = Count(threads, Live(S)) + Count(new, Live(S))
  BY <1>1, <1>2, <1>6, CountAppended
<1>8. Count(new, Live(S)) = Count(q, Resumes(S)) + Count(q, Starts(S))
  <2>1. Resumes(S) \cap Starts(S) = {}
    BY DEF Resumes, Starts
  <2>2. \A i \in DOMAIN new : new[i] \in Live(S) <=> q[i] \in Resumes(S) \cup Starts(S)
    <3> TAKE i \in DOMAIN new
    <3>1. new[i] \in Live(S) <=> q[i].state \in S
      BY <1>5, <1>6 DEF Live
    <3>2. q[i] \in Resumes(S) \cup Starts(S) <=> q[i].state \in S
      BY <1>3, <1>6 DEF Resumes, Starts
    <3> QED BY <3>1, <3>2
  <2>3. Count(new, Live(S)) = Count(q, Resumes(S) \cup Starts(S))
    BY <1>2, <1>6, <2>2, CountSame
  <2> QED BY <1>2, <2>1, <2>3, CountSplit
<1>9. /\ Count(threads, Live(S)) \in Nat /\ Count(toResume, S) \in Nat
      /\ Count(q, Resumes(S)) \in Nat /\ Count(q, Starts(S)) \in Nat
  BY <1>2, UnderWayParts, CountType DEF q
<1>10. (UnderWay(S))' = Count(threads', Live(S)) + Count(toResume, S) + 0
  BY <1>1, CountNone DEF UnderWay
<1>11. UnderWay(S) = Count(threads, Live(S)) + Count(toResume, S) + Count(q, Resumes(S))
  BY DEF UnderWay, q
<1>12. (UnderWay(S))' = UnderWay(S) + Count(q, Starts(S))
  BY <1>7, <1>8, <1>9, <1>10, <1>11
<1> QED BY <1>12 DEF q

LEMMA StatesToExecuteCount ==
  ASSUME CycleTypeOK, CountInv, LoopOK, StatesToExecute
  PROVE  CountInv'
<1> DEFINE q == stateRequestQueue
           counts == stateIdCurrentlyExecutingCounts
           ids == [i \in {j \in DOMAIN q : ~q[j].resume} |-> q[i].state]
           marked == {i \in DOMAIN ids : Counted(config.mode, ids[i])}
           more == AddStarts(counts, ids, marked)
<1>1. /\ counts' = more
      /\ totalCurrentlyExecutingCount' = totalCurrentlyExecutingCount + Cardinality(DOMAIN ids)
      /\ executingStateIds' = IF marked = {} THEN executingStateIds ELSE DOMAIN more
      /\ UNCHANGED <<config, modeChanged>> /\ ~closing
  BY DEF StatesToExecute, MarkStateIdExecutingIfNotYet, configVars, historyVars, Main, LoopOK
<1>2. q \in Seq(Requests) /\ KeysOK
  BY DEF CycleTypeOK, DispatchTypeOK, CountInv
<1>3. /\ DOMAIN more \subseteq StateIds /\ DOMAIN counts \subseteq DOMAIN more
      /\ \A t \in DOMAIN more : more[t] \in Int
      /\ \A t \in StateIds :
           CountOf(more, t) = CountOf(counts, t)
                                + IF Counted(config.mode, t) THEN Count(q, Starts({t})) ELSE 0
      /\ \A t \in DOMAIN more \ DOMAIN counts :
           Counted(config.mode, t) /\ Count(q, Starts({t})) # 0
      /\ marked = {} => DOMAIN more = DOMAIN counts
      /\ Cardinality(DOMAIN ids) = Count(q, Starts(StateIds))
  <2> HIDE DEF q
  <2> QED BY <1>2, StartsAdded
<1>4. marked = {} => ~StartPending
  BY DEF StartPending
<1>5. \A S : (UnderWay(S))' = UnderWay(S) + Count(q, Starts(S))
  BY StatesToExecuteUnderWay
<1>6. \A S : Count(q, Starts(S)) \in Nat /\ UnderWay(S) \in Nat
  BY <1>2, CountType, UnderWayParts
<1> HIDE DEF q, counts, ids, marked, more
<1>7. stateIdCurrentlyExecutingCounts' = more /\ counts = stateIdCurrentlyExecutingCounts
  BY <1>1 DEF counts
<1>8. KeysOK'
  BY <1>1, <1>2, <1>3, <1>7 DEF KeysOK
<1>9. TotalOK'
  BY <1>1, <1>3, <1>5 DEF CountInv, TotalOK
<1>10. ASSUME ~modeChanged' PROVE CountsExact' /\ NoZeroKeys' /\ IdsFresh'
  <2>1. CountsExact /\ NoZeroKeys /\ IdsFresh
    BY <1>1, <1>10 DEF CountInv
  <2>2. \A t \in StateIds :
          /\ CountOf(counts, t) = IF Counted(config.mode, t) THEN UnderWay({t}) ELSE 0
          /\ CountOf(more, t) = IF Counted(config.mode, t) THEN (UnderWay({t}))' ELSE 0
    <3> TAKE t \in StateIds
    <3>1. CountOf(counts, t) = IF Counted(config.mode, t) THEN UnderWay({t}) ELSE 0
      BY <1>7, <2>1 DEF CountsExact
    <3>2. CountOf(more, t) = CountOf(counts, t)
                               + IF Counted(config.mode, t) THEN Count(q, Starts({t})) ELSE 0
      BY <1>3
    <3>3. (UnderWay({t}))' = UnderWay({t}) + Count(q, Starts({t}))
      BY <1>5
    <3> QED BY <3>1, <3>2, <3>3
  <2>3. CountsExact'
    BY <1>1, <1>7, <2>2 DEF CountsExact
  <2>4. \A t \in DOMAIN more : more[t] # 0
    <3> TAKE t \in DOMAIN more
    <3>1. /\ t \in StateIds
          /\ CountOf(counts, t) = IF Counted(config.mode, t) THEN UnderWay({t}) ELSE 0
          /\ more[t] = CountOf(counts, t)
                         + IF Counted(config.mode, t) THEN Count(q, Starts({t})) ELSE 0
      BY <1>3, <2>2 DEF CountOf
    <3>2. Count(q, Starts({t})) \in Nat /\ UnderWay({t}) \in Nat
      BY <1>6
    <3>3. CASE t \in DOMAIN counts
      <4>1. CountOf(counts, t) # 0
        BY <1>7, <2>1, <3>3 DEF CountOf, NoZeroKeys
      <4> QED BY <3>1, <3>2, <4>1
    <3>4. CASE t \notin DOMAIN counts
      <4>1. Counted(config.mode, t) /\ Count(q, Starts({t})) # 0
        BY <1>3, <3>4
      <4> QED BY <3>1, <3>2, <4>1
    <3> QED BY <3>3, <3>4
  <2>5. NoZeroKeys'
    BY <1>7, <2>4 DEF NoZeroKeys
  <2>6. executingStateIds' = DOMAIN more
    BY <1>1, <1>3, <1>4, <1>7, <2>1 DEF IdsFresh
  <2> QED BY <1>7, <2>3, <2>5, <2>6 DEF IdsFresh
<1> QED BY <1>8, <1>9, <1>10 DEF CountInv

-----------------------------------------------------------------------------
\* The inner loop is left only when nothing is under way in a thread.
LEMMA LoopInner ==
  ASSUME CycleTypeOK, CountInv, totalCurrentlyExecutingCount = 0
  PROVE  \A i \in DOMAIN threads : threads[i].phase = "done"
<1>1. Count(threads, Live(StateIds)) = 0
  BY UnderWayParts DEF CountInv, TotalOK, UnderWay
<1>2. threads \in Seq(ThreadRecords)
  BY DEF CycleTypeOK, TaskTypeOK
<1>3. \A i \in DOMAIN threads : threads[i] \notin Live(StateIds) /\ threads[i] \in ThreadRecords
  BY <1>1, <1>2, CountZero
<1> QED BY <1>3 DEF Live, ThreadRecords

LEMMA LoopMain ==
  ASSUME CycleTypeOK, CountInv, LoopOK,
         Outer \/ StatesToExecute \/ Top \/ Inner \/ DrainInner \/ DrainOuter
  PROVE  LoopOK'
<1> USE DEF Main, MainTurn, threadVars, closeVars
<1> DEFINE AllDone == \A i \in DOMAIN threads : threads[i].phase = "done"
<1>1. CASE Outer
  <2>1. /\ turn = 1 /\ UNCHANGED <<threads, closing, stateRequestQueue>> /\ at = "outer"
        /\ at' = "closed" \/ (at' = "top" /\ turn' = turn)
    BY <1>1 DEF Outer, Goto, Continue, dispatchVars
  <2> QED BY <2>1 DEF LoopOK
<1>2. CASE StatesToExecute
  <2>1. at' = "inner"
    BY <1>2 DEF StatesToExecute, Goto
  <2> QED BY <2>1 DEF LoopOK
<1>3. CASE Top
  <2>1. /\ UNCHANGED <<threads, closing, stateRequestQueue>> /\ at = "top"
        /\ at' = "inner" \/ (at' \in {"outer", "drainOuter"} /\ stateRequestQueue = << >>)
    BY <1>3 DEF Top, Goto, dispatchVars
  <2> QED BY <2>1 DEF LoopOK
<1>4. CASE Inner
  <2>1. /\ turn = 1 /\ UNCHANGED <<threads, stateRequestQueue>> /\ at = "inner" /\ MainCanGo
        /\ closing' = (closing \/ failWorkflowByClient)
        /\ \/ at' \in {"closed", "drainInner"}
           \/ at' = "top" /\ turn' = turn /\ ~IsThresholdMet /\ ~closing'
    BY <1>4 DEF Inner, Goto, Continue, dispatchVars
  <2>2. at' = "top" => stateRequestQueue # << >> \/ totalCurrentlyExecutingCount = 0
    BY <2>1 DEF MainCanGo
  <2>3. at' = "top" => stateRequestQueue # << >> \/ AllDone
    BY <2>2, LoopInner
  <2> QED BY <2>1, <2>3 DEF LoopOK
<1>5. CASE DrainInner
  <2>1. /\ turn = 1 /\ UNCHANGED <<threads, closing, stateRequestQueue>> /\ at = "drainInner"
        /\ MainCanGo
        /\ at' = "closed" \/ (at' \in {"top", "drainOuter"} /\ turn' = turn /\ ~closing)
    BY <1>5 DEF DrainInner, Goto, Continue, dispatchVars
  <2>2. AllDone
    BY <2>1 DEF MainCanGo, AllThreadsDrained
  <2> QED BY <2>1, <2>2 DEF LoopOK
<1>6. CASE DrainOuter
  <2>1. at' = "closed" \/ (at' = "load" /\ threads' = << >> /\ closing' = FALSE)
    BY <1>6, DrainOuterType
  <2> QED BY <2>1 DEF LoopOK
<1> QED BY <1>1, <1>2, <1>3, <1>4, <1>5, <1>6

LEMMA LoopThreads ==
  ASSUME CycleTypeOK, LoopOK, NEW i \in DOMAIN threads, turn = ThreadTurn(i),
         threads[i].phase # "done", at' = at
  PROVE  LoopOK'
<1>1. turn # 1
  BY SevenTurns DEF CycleTypeOK, TaskTypeOK
<1>2. at \notin {"top", "load", "outer", "drainOuter"}
  BY <1>1 DEF LoopOK
<1> QED BY <1>2 DEF LoopOK

LEMMA LoopOthers ==
  ASSUME CycleTypeOK, LoopOK,
         \/ \E k \in Kinds : \E p \in Payloads(k) : Arrive(k, p)
         \/ \E i \in DOMAIN threads : Ready(i) \/ ThreadBlocked(i)
         \/ \E v \in Versions : DeployWorkers(v)
         \/ \E k \in Kinds : CallHandler(k)
         \/ Load \/ StartTask \/ MainBlocked \/ UNCHANGED vars
  PROVE  LoopOK'
<1> USE DEF threadVars, closeVars, taskVars
<1>1. /\ UNCHANGED <<threads, closing>>
      /\ \/ at' = at /\ at # "top"
         \/ UNCHANGED <<at, turn, stateRequestQueue>>
         \/ at = "load" /\ at' \in {"load", "outer"}
  <2>1. CASE \E k \in Kinds : \E p \in Payloads(k) : Arrive(k, p)
    BY <2>1 DEF Arrive, LoopOK
  <2>2. CASE \E i \in DOMAIN threads : Ready(i)
    BY <2>2 DEF Ready, LoopOK
  <2>3. CASE \E i \in DOMAIN threads : ThreadBlocked(i)
    <3>1. PICK i \in DOMAIN threads : ThreadBlocked(i)
      BY <2>3
    <3>2. turn # 1
      BY <3>1, SevenTurns DEF ThreadBlocked, CycleTypeOK, TaskTypeOK
    <3> QED BY <3>1, <3>2 DEF ThreadBlocked, LoopOK
  <2>4. CASE \E v \in Versions : DeployWorkers(v)
    BY <2>4 DEF DeployWorkers, dispatchVars
  <2>5. CASE \E k \in Kinds : CallHandler(k)
    <3>1. turn \in 2..7
      BY <2>5, HandlerOrder DEF CallHandler
    <3> QED BY <2>5, <3>1 DEF CallHandler, LoopOK
  <2>6. CASE Load
    BY <2>6 DEF Load
  <2>7. CASE StartTask
    BY <2>7 DEF StartTask, LoopOK
  <2>8. CASE MainBlocked
    BY <2>8, MainWaits DEF MainBlocked, CycleTypeOK
  <2>9. CASE UNCHANGED vars
    BY <2>9 DEF vars, dispatchVars
  <2> QED BY <2>1, <2>2, <2>3, <2>4, <2>5, <2>6, <2>7, <2>8, <2>9
<1> QED BY <1>1 DEF LoopOK

-----------------------------------------------------------------------------
FullInv == CycleInv /\ CountInv /\ LoopOK /\ DumpInv

LEMMA ThreadFull ==
  ASSUME CycleTypeOK, CountInv, LoopOK, NEW i \in DOMAIN threads,
         \/ ThreadAdvances(i) \/ ThreadParks(i) \/ ThreadDrains(i)
         \/ \E d \in Decisions[threads[i].state] :
              ThreadCompletes(i, d) \/ \E met \in BOOLEAN : ConditionalClose(i, d, met)
  PROVE  CountInv' /\ LoopOK'
<1>1. CASE ThreadAdvances(i) \/ ThreadParks(i) \/ ThreadDrains(i)
  <2>1. CountInv'
    BY <1>1, ThreadAdvancesCount, ThreadParksCount, ThreadDrainsCount
  <2>2. turn = ThreadTurn(i) /\ threads[i].phase # "done" /\ at' = at
    BY <1>1 DEF ThreadAdvances, ThreadParks, ThreadDrains
  <2> QED BY <2>1, <2>2, LoopThreads
<1>2. CASE \E d \in Decisions[threads[i].state] :
             ThreadCompletes(i, d) \/ \E met \in BOOLEAN : ConditionalClose(i, d, met)
  <2>1. PICK d \in Decisions[threads[i].state] :
          ThreadCompletes(i, d) \/ \E met \in BOOLEAN : ConditionalClose(i, d, met)
    BY <1>2
  <2>2. \E queued \in Seq(StateIds) :
          /\ turn = ThreadTurn(i) /\ threads[i].phase # "done"
          /\ Completes(i, d.next, queued)
          /\ closing => closing'
          /\ queued = d.next \/ closing'
    <3>1. CASE ThreadCompletes(i, d)
      BY <3>1, DecisionNext DEF ThreadCompletes
    <3>2. CASE \E met \in BOOLEAN : ConditionalClose(i, d, met)
      BY <3>2, DecisionNext DEF ConditionalClose
    <3> QED BY <2>1, <3>1, <3>2
  <2>3. CountInv'
    BY <2>2, CompletesCount
  <2>4. at' = at
    BY <2>2 DEF Completes
  <2> QED BY <2>2, <2>3, <2>4, LoopThreads
<1> QED BY <1>1, <1>2

LEMMA FullInvStep == FullInv /\ [Next]_vars => FullInv'
<1> SUFFICES ASSUME CycleInv, CountInv, LoopOK, DumpInv, [Next]_vars PROVE FullInv'
  BY DEF FullInv
<1>1. CycleInv' /\ DumpInv'
  BY CycleInvStep, CycleStep, DumpNextInv
<1>2. CycleTypeOK
  BY DEF CycleInv
<1>3. CASE \/ \E k \in Kinds : \E p \in Payloads(k) : Arrive(k, p)
           \/ \E i \in DOMAIN threads : Ready(i) \/ ThreadBlocked(i)
           \/ \E v \in Versions : DeployWorkers(v)
           \/ Load \/ StartTask \/ MainBlocked \/ UNCHANGED vars
  BY <1>1, <1>2, <1>3, IdleCount, LoopOthers DEF FullInv
<1>4. CASE Outer \/ Top \/ Inner \/ DrainInner
  BY <1>1, <1>2, <1>4, IdleCount, LoopMain DEF FullInv
<1>5. CASE StatesToExecute \/ DrainOuter
  BY <1>1, <1>2, <1>5, StatesToExecuteCount, DrainOuterCount, LoopMain DEF FullInv
<1>6. CASE \E k \in Kinds : CallHandler(k)
  BY <1>1, <1>2, <1>6, CallHandlerCount, LoopOthers DEF FullInv
<1>7. CASE \E i \in DOMAIN threads :
             \/ ThreadAdvances(i) \/ ThreadParks(i) \/ ThreadDrains(i)
             \/ \E d \in Decisions[threads[i].state] :
                  ThreadCompletes(i, d) \/ \E met \in BOOLEAN : ConditionalClose(i, d, met)
  BY <1>1, <1>2, <1>7, ThreadFull DEF FullInv
<1> QED BY <1>3, <1>4, <1>5, <1>6, <1>7, Zenon DEF Next, TaskStep

LEMMA FullInvariant == Spec => []FullInv
<1>1. Init => FullInv
  <2> SUFFICES ASSUME Init PROVE FullInv
    OBVIOUS
  <2>1. CycleInv
    BY InitType, InitSweep DEF CycleInv
  <2>2. DumpInit
    BY DEF Init
  <2>3. LoopOK
    BY DEF Init, LoopOK
  <2> QED BY <2>1, <2>2, <2>3, InitCount, DumpInitInv DEF FullInv
<1> QED BY <1>1, FullInvStep, PTL DEF Spec

\* Every variable keeps its type; in particular the count of the executions that
\* are under way never falls below zero, for any mode and any change of the mode.
THEOREM CycleTypeCorrect == Spec => []TypeOK
<1>1. ASSUME FullInv PROVE TypeOK
  <2>1. CycleTypeOK /\ CountInv /\ DumpTypeOK
    BY <1>1 DEF FullInv, CycleInv, DumpInv
  <2>2. CounterTypeOK
    BY <2>1, UnderWayParts DEF CountInv, KeysOK, TotalOK, CounterTypeOK
  <2>3. \A k \in Kinds : \A i \in DOMAIN channel[k] : channel[k][i] \in Payloads(k)
    BY <2>1 DEF CycleTypeOK, DispatchTypeOK
  <2>4. \A i \in DOMAIN stateRequestQueue :
          stateRequestQueue[i] \in [state : StateIds, resume : BOOLEAN]
    <3>1. stateRequestQueue \in Seq(Requests)
      BY <2>1 DEF CycleTypeOK, DispatchTypeOK
    <3>2. \A i \in DOMAIN stateRequestQueue : stateRequestQueue[i] \in Requests
      BY <3>1
    <3> QED BY <3>2 DEF Requests
  <2>5. \A i \in DOMAIN threads : threads[i] \in [state : StateIds, phase : Phases]
    <3>1. threads \in Seq(ThreadRecords)
      BY <2>1 DEF CycleTypeOK, TaskTypeOK
    <3>2. \A i \in DOMAIN threads : threads[i] \in ThreadRecords
      BY <3>1
    <3> QED BY <3>2 DEF ThreadRecords
  <2> QED BY <2>1, <2>2, <2>3, <2>4, <2>5
       DEF CycleTypeOK, DispatchTypeOK, TaskTypeOK, TypeOK
<1> QED BY <1>1, FullInvariant, PTL

\* The search attribute of the executing state ids is exact between two tasks, for
\* any states, decisions and signals, as long as the mode has not been changed
\* under a state execution.
THEOREM SearchAttributeExact == Spec => []ExecutingIdsExact
<1>1. ASSUME FullInv PROVE ExecutingIdsExact
  <2> DEFINE counts == stateIdCurrentlyExecutingCounts
             live == {threads[i].state : i \in {j \in DOMAIN threads : threads[j].phase # "done"}}
  <2> SUFFICES ASSUME AtRest, ~modeChanged
               PROVE  executingStateIds =
                        {s \in live \cup ToSet(toResume) : Counted(config.mode, s)}
    BY DEF ExecutingIdsExact
  <2>1. /\ CycleTypeOK /\ SweepInv /\ KeysOK /\ CountsExact /\ NoZeroKeys /\ IdsFresh /\ LoopOK
        /\ threads \in Seq(ThreadRecords) /\ toResume \in Seq(StateIds)
    BY <1>1 DEF FullInv, CycleInv, CountInv, CycleTypeOK, TaskTypeOK
  <2>2. ~MainCanGo /\ at \in {"outer", "inner"}
    BY <2>1 DEF SweepInv, RestOK, AtRest, Running
  <2>3. stateRequestQueue = << >> /\ ~closing
    BY <2>1, <2>2 DEF MainCanGo, LoopOK
  <2>4. executingStateIds = DOMAIN counts
    BY <2>1, <2>3 DEF IdsFresh, StartPending
  <2>5. \A S : /\ UnderWay(S) = Count(threads, Live(S)) + Count(toResume, S)
               /\ Count(threads, Live(S)) \in Nat /\ Count(toResume, S) \in Nat
    <3> TAKE S
    <3>1. Count(threads, Live(S)) \in Nat /\ Count(toResume, S) \in Nat
      BY <2>1, UnderWayParts
    <3>2. Count(stateRequestQueue, Resumes(S)) = 0
      BY <2>3, CountNone
    <3> QED BY <3>1, <3>2 DEF UnderWay
  <2>6. \A i \in DOMAIN threads : threads[i] \in ThreadRecords /\ threads[i].state \in StateIds
    <3>1. \A i \in DOMAIN threads : threads[i] \in ThreadRecords
      BY <2>1
    <3> QED BY <3>1 DEF ThreadRecords
  <2>7. live \subseteq StateIds /\ ToSet(toResume) \subseteq StateIds /\ DOMAIN counts \subseteq StateIds
    BY <2>1, <2>6 DEF KeysOK, ToSet
  <2>8. \A s : Count(threads, Live({s})) # 0 <=> s \in live
    <3> TAKE s
    <3>1. Count(threads, Live({s})) # 0 <=> \E i \in DOMAIN threads : threads[i] \in Live({s})
      BY <2>1, CountZero
    <3>2. \A i \in DOMAIN threads :
            threads[i] \in Live({s}) <=> threads[i].phase # "done" /\ threads[i].state = s
      BY <2>6 DEF Live
    <3> QED BY <3>1, <3>2
  <2>9. \A s : Count(toResume, {s}) # 0 <=> s \in ToSet(toResume)
    <3> TAKE s
    <3>1. Count(toResume, {s}) # 0 <=> \E i \in DOMAIN toResume : toResume[i] \in {s}
      BY <2>1, CountZero
    <3> QED BY <3>1 DEF ToSet
  <2>10. \A s \in StateIds : s \in DOMAIN counts <=>
           Counted(config.mode, s) /\ (s \in live \/ s \in ToSet(toResume))
    <3> HIDE DEF live
    <3> TAKE s \in StateIds
    <3>1. s \in DOMAIN counts <=> CountOf(counts, s) # 0
      BY <2>1 DEF CountOf, NoZeroKeys
    <3>2. CountOf(counts, s) = IF Counted(config.mode, s) THEN UnderWay({s}) ELSE 0
      BY <2>1 DEF CountsExact
    <3>3. UnderWay({s}) # 0 <=> Count(threads, Live({s})) # 0 \/ Count(toResume, {s}) # 0
      BY <2>5
    <3> QED BY <2>8, <2>9, <3>1, <3>2, <3>3
  <2> HIDE DEF counts, live
  <2> QED BY <2>4, <2>7, <2>10
<1> QED BY <1>1, FullInvariant, PTL
=============================================================================
