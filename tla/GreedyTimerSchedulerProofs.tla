--------------------- MODULE GreedyTimerSchedulerProofs ---------------------
(***************************************************************************)
(* Proofs about GreedyTimerScheduler for any number of executions and of   *)
(* timer commands, any firing times and any number of runs.                *)
(***************************************************************************)
EXTENDS GreedyTimerScheduler, NumberLemmas

-----------------------------------------------------------------------------
(* The loops over the timer commands *)

\* One turn of the loop of AddTimers ("add") or of RemovePendingTimersOfState.
Turn(loop, fire, e, new, pending, i) ==
  IF loop = "add" THEN AddIfNew(fire, e, new, pending, i) ELSE RemoveFirst(pending, <<e, i>>)

\* FoldLeft recurses over the subsets of the positions.
Recursion(f, n, base, loop, fire, e, new) ==
  f = [s \in SUBSET (1..n) |->
         IF s = {} THEN base ELSE Turn(loop, fire, e, new, f[s \ {Max(s)}], Max(s))]

LEMMA RecursionHasSolution ==
  ASSUME NEW loop, NEW fire, NEW e, NEW new, NEW base, NEW n \in Nat
  PROVE  \E f : Recursion(f, n, base, loop, fire, e, new)
<1> DEFINE Op(p, i) == Turn(loop, fire, e, new, p, i)
           Body(f, m) == [s \in SUBSET (1..m) |->
                            IF s = {} THEN base ELSE Op(f[s \ {Max(s)}], Max(s))]
           P == {m \in Nat : \E f : f = Body(f, m)}
<1>1. 0 \in P
  <2> DEFINE f == [s \in SUBSET (1..0) |-> base]
  <2>1. f = Body(f, 0)
    OBVIOUS
  <2> QED BY <2>1
<1>2. ASSUME NEW m \in Nat, m \in P
      PROVE  m + 1 \in P
  <2>1. PICK f : f = Body(f, m)
    BY <1>2
  <2> DEFINE g == [s \in SUBSET (1..m + 1) |->
                     IF m + 1 \in s THEN Op(f[s \ {m + 1}], m + 1) ELSE f[s]]
  <2>2. ASSUME NEW s \in SUBSET (1..m + 1), m + 1 \notin s
        PROVE  s \in SUBSET (1..m) /\ g[s] = f[s]
    BY <2>2
  <2>3. ASSUME NEW s \in SUBSET (1..m + 1), s # {}
        PROVE  g[s] = Op(g[s \ {Max(s)}], Max(s))
    <3>1. CASE m + 1 \in s
      <4>1. Max(s) = m + 1 /\ s \ {Max(s)} \in SUBSET (1..m)
        BY <3>1, MaxOfPrefix
      <4>2. g[s \ {Max(s)}] = f[s \ {m + 1}]
        BY <4>1
      <4>3. g[s] = Op(f[s \ {m + 1}], m + 1)
        BY <3>1
      <4> HIDE DEF Op, g
      <4> QED BY <4>1, <4>2, <4>3
    <3>2. CASE m + 1 \notin s
      <4>1. s \in SUBSET (1..m) /\ g[s] = f[s]
        BY <2>2, <3>2
      <4>2. Max(s) \in s
        BY <2>3, <4>1, MaxOfPositions
      <4>3. /\ s \ {Max(s)} \in SUBSET (1..m + 1) /\ m + 1 \notin s \ {Max(s)}
        BY <3>2
      <4>4. g[s \ {Max(s)}] = f[s \ {Max(s)}]
        BY <2>2, <4>3
      <4>5. f[s] = Op(f[s \ {Max(s)}], Max(s))
        <5> HIDE DEF Op
        <5> QED BY <2>1, <2>3, <4>1
      <4> HIDE DEF Op, g
      <4> QED BY <4>1, <4>4, <4>5
    <3> QED BY <3>1, <3>2
  <2>4. {} \in SUBSET (1..m + 1) /\ g[{}] = base
    <3>1. g[{}] = f[{}]
      OBVIOUS
    <3>2. f[{}] = base
      BY <2>1
    <3> QED BY <3>1, <3>2
  <2>5. g = Body(g, m + 1)
    <3>1. g = [s \in SUBSET (1..m + 1) |-> g[s]]
      OBVIOUS
    <3>2. \A s \in SUBSET (1..m + 1) :
            g[s] = IF s = {} THEN base ELSE Op(g[s \ {Max(s)}], Max(s))
      <4> HIDE DEF g, Op
      <4> QED BY <2>3, <2>4
    <3> HIDE DEF g, Op
    <3>3. [s \in SUBSET (1..m + 1) |-> g[s]] = Body(g, m + 1)
      BY <3>2, Zenon
    <3> QED BY <3>1, <3>3, Zenon
  <2>6. \E r : r = Body(r, m + 1)
    <3> HIDE DEF g, Body
    <3> QED BY <2>5, Zenon
  <2>7. m + 1 \in Nat
    OBVIOUS
  <2> HIDE DEF Body
  <2> QED BY <2>6, <2>7, Zenon
<1>3. P = Nat
  <2>1. P \in SUBSET Nat /\ \A m \in Nat : m \in P => m + 1 \in P
    BY <1>2
  <2> HIDE DEF P
  <2> QED BY <1>1, <2>1, NatInductionOnSets
<1>4. \E f : f = Body(f, n)
  BY <1>3
<1> QED BY <1>4, Zenon DEF Recursion

\* The values that the loop variable takes.
Values(h, n, base, last, loop, fire, e, new) ==
  /\ h[0] = base /\ h[n] = last
  /\ \A k \in 1..n : h[k] = Turn(loop, fire, e, new, h[k - 1], k)

LEMMA LoopValues ==
  ASSUME NEW loop, NEW fire, NEW e, NEW new, NEW base, NEW n \in Nat, NEW iter,
         Recursion(iter, n, base, loop, fire, e, new)
  PROVE  \E h : Values(h, n, base, iter[1..n], loop, fire, e, new)
<1> DEFINE Op(p, i) == Turn(loop, fire, e, new, p, i)
<1>1. iter = [s \in SUBSET (1..n) |->
                IF s = {} THEN base ELSE Op(iter[s \ {Max(s)}], Max(s))]
  BY Zenon DEF Recursion
<1> DEFINE h == [k \in 0..n |-> iter[1..k]]
<1>2. h[0] = base
  <2>1. 1..0 = {} /\ {} \in SUBSET (1..n) /\ h[0] = iter[1..0]
    OBVIOUS
  <2> HIDE DEF h, Op
  <2> QED BY <1>1, <2>1
<1>3. ASSUME NEW k \in 1..n
       PROVE  h[k] = Turn(loop, fire, e, new, h[k - 1], k)
  <2>1. h[k] = iter[1..k] /\ h[k - 1] = iter[1..k - 1]
    OBVIOUS
  <2>2. 1..k \in SUBSET (1..n) /\ 1..k # {}
    OBVIOUS
  <2>3. Max(1..k) = k /\ (1..k) \ {k} = 1..k - 1
    <3>1. Max(1..k) \in 1..k /\ \A y \in 1..k : y <= Max(1..k)
      BY <2>2, MaxOfPositions
    <3>2. k \in 1..k /\ Max(1..k) \in Int
      BY <3>1
    <3> QED BY <3>1, <3>2
  <2>4. iter[1..k] = Op(iter[(1..k) \ {Max(1..k)}], Max(1..k))
    <3> HIDE DEF Op
    <3> QED BY <1>1, <2>2
  <2> HIDE DEF h
  <2> QED BY <2>1, <2>3, <2>4
<1>4. h[n] = iter[1..n]
  OBVIOUS
<1> HIDE DEF h
<1> QED BY <1>2, <1>3, <1>4, Zenon DEF Values

\* The same for the two loops.
AddValues(h, n, base, fire, e, new) ==
  /\ h[0] = base /\ h[n] = AddNewTimers(fire, e, new, base)
  /\ \A k \in 1..n : h[k] = AddIfNew(fire, e, new, h[k - 1], k)
RemoveValues(h, n, base, e) ==
  /\ h[0] = base /\ h[n] = RemoveTimers(e, base)
  /\ \A k \in 1..n : h[k] = RemoveFirst(h[k - 1], <<e, k>>)

LEMMA AddLoop ==
  ASSUME NEW fire, NEW e, NEW new, NEW base, NEW n \in Nat, TimerCommands[e] = n
  PROVE  \E h : AddValues(h, n, base, fire, e, new)
<1> DEFINE D == [i \in 1..TimerCommands[e] |-> i]
           Op(p, i) == AddIfNew(fire, e, new, p, i)
           Rec(f) == f = [s \in SUBSET DOMAIN D |->
                            IF s = {} THEN base ELSE Op(f[s \ {Max(s)}], D[Max(s)])]
           iter == CHOOSE f : Rec(f)
<1>1. \A p, i : Turn("add", fire, e, new, p, i) = Op(p, i)
  BY DEF Turn
<1>2. \A f : Rec(f) <=> Recursion(f, n, base, "add", fire, e, new)
  <2>1. DOMAIN D = 1..n
    OBVIOUS
  <2>2. \A s \in SUBSET (1..n) : s # {} => D[Max(s)] = Max(s)
    BY MaxOfPositions
  <2>3. \A f : \A s \in SUBSET (1..n) :
          (IF s = {} THEN base ELSE Op(f[s \ {Max(s)}], D[Max(s)])) =
          (IF s = {} THEN base ELSE Turn("add", fire, e, new, f[s \ {Max(s)}], Max(s)))
    <3> HIDE DEF D, Op
    <3> QED BY <1>1, <2>2, Zenon
  <2>4. \A f : [s \in SUBSET (1..n) |->
                  IF s = {} THEN base ELSE Op(f[s \ {Max(s)}], D[Max(s)])] =
               [s \in SUBSET (1..n) |->
                  IF s = {} THEN base ELSE Turn("add", fire, e, new, f[s \ {Max(s)}], Max(s))]
    <3> HIDE DEF D, Op
    <3> QED BY <2>3, Zenon
  <2> HIDE DEF D, Op
  <2> QED BY <2>1, <2>4, Zenon DEF Recursion
<1>3. Recursion(iter, n, base, "add", fire, e, new)
  <2>1. \E f : Recursion(f, n, base, "add", fire, e, new)
    BY RecursionHasSolution
  <2> HIDE DEF Rec
  <2>2. Rec(iter)
    BY <1>2, <2>1
  <2> QED BY <1>2, <2>2
<1>4. AddNewTimers(fire, e, new, base) = iter[1..n]
  <2>1. AddNewTimers(fire, e, new, base) = iter[DOMAIN D]
    BY Zenon DEF AddNewTimers, FoldLeft, MapThenFoldSet
  <2>2. DOMAIN D = 1..n
    OBVIOUS
  <2> HIDE DEF iter, D
  <2> QED BY <2>1, <2>2
<1> HIDE DEF iter
<1> HIDE DEF Op
<1>5. PICK h : Values(h, n, base, iter[1..n], "add", fire, e, new)
  BY <1>3, LoopValues
<1>6. /\ h[0] = base /\ h[n] = iter[1..n]
      /\ \A k \in 1..n : h[k] = Op(h[k - 1], k)
  BY <1>1, <1>5, Zenon DEF Values
<1> QED BY <1>4, <1>6, Zenon DEF Op, AddValues

LEMMA RemoveLoop ==
  ASSUME NEW e, NEW base, NEW n \in Nat, TimerCommands[e] = n
  PROVE  \E h : RemoveValues(h, n, base, e)
<1> DEFINE D == [i \in 1..TimerCommands[e] |-> i]
           Op(p, i) == RemoveFirst(p, <<e, i>>)
           Rec(f) == f = [s \in SUBSET DOMAIN D |->
                            IF s = {} THEN base ELSE Op(f[s \ {Max(s)}], D[Max(s)])]
           iter == CHOOSE f : Rec(f)
<1>1. \A p, i : Turn("remove", e, e, e, p, i) = Op(p, i)
  BY DEF Turn
<1>2. \A f : Rec(f) <=> Recursion(f, n, base, "remove", e, e, e)
  <2>1. DOMAIN D = 1..n
    OBVIOUS
  <2>2. \A s \in SUBSET (1..n) : s # {} => D[Max(s)] = Max(s)
    BY MaxOfPositions
  <2>3. \A f : \A s \in SUBSET (1..n) :
          (IF s = {} THEN base ELSE Op(f[s \ {Max(s)}], D[Max(s)])) =
          (IF s = {} THEN base ELSE Turn("remove", e, e, e, f[s \ {Max(s)}], Max(s)))
    <3> HIDE DEF D, Op
    <3> QED BY <1>1, <2>2, Zenon
  <2>4. \A f : [s \in SUBSET (1..n) |->
                  IF s = {} THEN base ELSE Op(f[s \ {Max(s)}], D[Max(s)])] =
               [s \in SUBSET (1..n) |->
                  IF s = {} THEN base ELSE Turn("remove", e, e, e, f[s \ {Max(s)}], Max(s))]
    <3> HIDE DEF D, Op
    <3> QED BY <2>3, Zenon
  <2> HIDE DEF D, Op
  <2> QED BY <2>1, <2>4, Zenon DEF Recursion
<1>3. Recursion(iter, n, base, "remove", e, e, e)
  <2>1. \E f : Recursion(f, n, base, "remove", e, e, e)
    BY RecursionHasSolution
  <2> HIDE DEF Rec
  <2>2. Rec(iter)
    BY <1>2, <2>1
  <2> QED BY <1>2, <2>2
<1>4. RemoveTimers(e, base) = iter[1..n]
  <2>1. RemoveTimers(e, base) = iter[DOMAIN D]
    BY Zenon DEF RemoveTimers, FoldLeft, MapThenFoldSet
  <2>2. DOMAIN D = 1..n
    OBVIOUS
  <2> HIDE DEF iter, D
  <2> QED BY <2>1, <2>2
<1> HIDE DEF iter
<1> HIDE DEF Op
<1>5. PICK h : Values(h, n, base, iter[1..n], "remove", e, e, e)
  BY <1>3, LoopValues
<1>6. /\ h[0] = base /\ h[n] = iter[1..n]
      /\ \A k \in 1..n : h[k] = Op(h[k - 1], k)
  BY <1>1, <1>5, Zenon DEF Values
<1> QED BY <1>4, <1>6, Zenon DEF Op, RemoveValues

-----------------------------------------------------------------------------
(* The lists *)

\* Without a timer twice and latest first.
Sorted(fire, s) ==
  \A i, j \in 1..Len(s) : i < j => s[i] # s[j] /\ fire[s[i]] >= fire[s[j]]

LEMMA RangeByPosition ==
  ASSUME NEW S, NEW s \in Seq(S)
  PROVE  /\ DOMAIN s = 1..Len(s) /\ Range(s) = {s[i] : i \in 1..Len(s)}
         /\ Range(s) \subseteq S
<1>1. DOMAIN s = 1..Len(s) /\ \A i \in DOMAIN s : s[i] \in S
  OBVIOUS
<1>2. Range(s) = {s[i] : i \in 1..Len(s)}
  BY <1>1, Zenon DEF Range
<1> QED BY <1>1, <1>2, Zenon DEF Range

\* The elements of lists that are built from others.
IsConcat(r, a, b, m, k) ==
  Len(r) = m + k /\ \A i \in 1..m + k : r[i] = IF i <= m THEN a[i] ELSE b[i - m]
IsInsertion(r, s, at, x) ==
  /\ Len(r) = Len(s) + 1
  /\ \A i \in 1..Len(s) + 1 :
       r[i] = IF i < at THEN s[i] ELSE IF i = at THEN x ELSE s[i - 1]
IsRemoval(r, s, at) ==
  /\ Len(r) = Len(s) - 1
  /\ \A i \in 1..Len(s) - 1 : r[i] = IF i < at THEN s[i] ELSE s[i + 1]

LEMMA ConcatElements ==
  ASSUME NEW S, NEW a \in Seq(S), NEW b \in Seq(S), NEW m \in Nat, NEW k \in Nat,
         Len(a) = m, Len(b) = k
  PROVE  a \o b \in Seq(S) /\ IsConcat(a \o b, a, b, m, k)
BY DEF IsConcat

LEMMA InsertAtElements ==
  ASSUME NEW S, NEW s \in Seq(S), NEW x \in S, NEW at \in 1..Len(s) + 1
  PROVE  InsertAt(s, at, x) \in Seq(S) /\ IsInsertion(InsertAt(s, at, x), s, at, x)
<1> DEFINE a == SubSeq(s, 1, at - 1)
           b == SubSeq(s, at, Len(s))
<1>1. /\ a \in Seq(S) /\ Len(a) = at - 1 /\ \A i \in 1..at - 1 : a[i] = s[i]
  OBVIOUS
<1>2. /\ b \in Seq(S) /\ Len(b) = Len(s) - at + 1
      /\ \A i \in 1..Len(s) - at + 1 : b[i] = s[i + at - 1]
  OBVIOUS
<1>3. InsertAt(s, at, x) = (a \o <<x>>) \o b
  BY DEF InsertAt
<1> HIDE DEF a, b
<1>4. /\ a \o <<x>> \in Seq(S) /\ Len(a \o <<x>>) = at
      /\ \A i \in 1..at : (a \o <<x>>)[i] = IF i < at THEN s[i] ELSE x
  BY <1>1
<1> DEFINE c == a \o <<x>>
<1> HIDE DEF c
<1>5. c \in Seq(S) /\ Len(c) = at /\ \A i \in 1..at : c[i] = IF i < at THEN s[i] ELSE x
  BY <1>4 DEF c
<1>6. /\ c \o b \in Seq(S) /\ Len(c \o b) = Len(s) + 1
      /\ \A i \in 1..Len(s) + 1 : (c \o b)[i] = IF i <= at THEN c[i] ELSE b[i - at]
  <2>1. /\ c \o b \in Seq(S) /\ Len(c \o b) = at + (Len(s) - at + 1)
        /\ \A i \in 1..at + (Len(s) - at + 1) : (c \o b)[i] = IF i <= at THEN c[i] ELSE b[i - at]
    <3>1. at \in Nat /\ Len(s) - at + 1 \in Nat
      OBVIOUS
    <3>2. c \in Seq(S) /\ b \in Seq(S) /\ Len(c) = at /\ Len(b) = Len(s) - at + 1
      BY <1>2, <1>5
    <3>3. c \o b \in Seq(S) /\ IsConcat(c \o b, c, b, at, Len(s) - at + 1)
      BY <3>1, <3>2, ConcatElements, Zenon
    <3> QED BY <3>3, Zenon DEF IsConcat
  <2>2. at + (Len(s) - at + 1) = Len(s) + 1
    OBVIOUS
  <2> QED BY <2>1, <2>2
<1>7. \A i \in 1..Len(s) + 1 :
        (c \o b)[i] = IF i < at THEN s[i] ELSE IF i = at THEN x ELSE s[i - 1]
  <2> TAKE i \in 1..Len(s) + 1
  <2>1. CASE i <= at
    BY <1>5, <1>6, <2>1
  <2>2. CASE i > at
    <3>1. i - at \in 1..Len(s) - at + 1 /\ (i - at) + at - 1 = i - 1
      BY <2>2
    <3>2. (c \o b)[i] = b[i - at]
      BY <1>6, <2>2
    <3>3. b[i - at] = s[(i - at) + at - 1]
      BY <1>2, <3>1
    <3> QED BY <2>2, <3>1, <3>2, <3>3
  <2>3. i <= at \/ i > at
    OBVIOUS
  <2> QED BY <2>1, <2>2, <2>3, Zenon
<1>8. c \o b \in Seq(S) /\ IsInsertion(c \o b, s, at, x)
  BY <1>6, <1>7 DEF IsInsertion
<1> QED BY <1>3, <1>8 DEF c

LEMMA RemoveAtElements ==
  ASSUME NEW S, NEW s \in Seq(S), NEW at \in 1..Len(s)
  PROVE  RemoveAt(s, at) \in Seq(S) /\ IsRemoval(RemoveAt(s, at), s, at)
<1> DEFINE a == SubSeq(s, 1, at - 1)
           b == SubSeq(s, at + 1, Len(s))
<1>1. /\ a \in Seq(S) /\ Len(a) = at - 1 /\ \A i \in 1..at - 1 : a[i] = s[i]
  OBVIOUS
<1>2. /\ b \in Seq(S) /\ Len(b) = Len(s) - at
      /\ \A i \in 1..Len(s) - at : b[i] = s[i + at]
  OBVIOUS
<1>3. RemoveAt(s, at) = a \o b
  BY DEF RemoveAt
<1> HIDE DEF a, b
<1>4. /\ a \o b \in Seq(S) /\ Len(a \o b) = Len(s) - 1
      /\ \A i \in 1..Len(s) - 1 : (a \o b)[i] = IF i < at THEN a[i] ELSE b[i - at + 1]
  <2>0. PICK m \in Nat, k \in Nat : m = at - 1 /\ k = Len(s) - at
    OBVIOUS
  <2>1. /\ a \o b \in Seq(S) /\ Len(a \o b) = m + k
        /\ \A i \in 1..m + k : (a \o b)[i] = IF i <= m THEN a[i] ELSE b[i - m]
    <3>1. a \in Seq(S) /\ b \in Seq(S) /\ Len(a) = m /\ Len(b) = k
      BY <1>1, <1>2, <2>0
    <3>2. a \o b \in Seq(S) /\ IsConcat(a \o b, a, b, m, k)
      BY <3>1, ConcatElements, Zenon
    <3> QED BY <3>2, Zenon DEF IsConcat
  <2>2. m + k = Len(s) - 1
    BY <2>0
  <2>3. \A i \in 1..Len(s) - 1 : (i <= m <=> i < at) /\ i - m = i - at + 1
    BY <2>0
  <2> QED BY <2>1, <2>2, <2>3
<1>5. \A i \in 1..Len(s) - 1 : (a \o b)[i] = IF i < at THEN s[i] ELSE s[i + 1]
  <2> TAKE i \in 1..Len(s) - 1
  <2>1. CASE i < at
    BY <1>1, <1>4, <2>1
  <2>2. CASE i >= at
    <3>1. i - at + 1 \in 1..Len(s) - at /\ (i - at + 1) + at = i + 1
      BY <2>2
    <3>2. (a \o b)[i] = b[i - at + 1]
      <4>1. ~(i < at)
        BY <2>2
      <4> QED BY <1>4, <4>1
    <3>3. b[i - at + 1] = s[(i - at + 1) + at]
      BY <1>2, <3>1
    <3> QED BY <2>2, <3>1, <3>2, <3>3
  <2>3. i < at \/ i >= at
    OBVIOUS
  <2> QED BY <2>1, <2>2, <2>3, Zenon
<1>6. a \o b \in Seq(S) /\ IsRemoval(a \o b, s, at)
  BY <1>4, <1>5 DEF IsRemoval
<1> QED BY <1>3, <1>6

\* addTimer keeps the list sorted.
LEMMA AddTimerSorted ==
  ASSUME NEW fire \in [Timers -> Nat], NEW s \in Seq(Timers), Sorted(fire, s),
         NEW t \in Timers, t \notin Range(s)
  PROVE  /\ AddTimer(fire, s, t) \in Seq(Timers) /\ Sorted(fire, AddTimer(fire, s, t))
         /\ Range(AddTimer(fire, s, t)) = Range(s) \cup {t}
<1> DEFINE notLater == {i \in DOMAIN s : fire[t] >= fire[s[i]]}
           at == IF notLater = {} THEN Len(s) + 1 ELSE Min(notLater)
           r == AddTimer(fire, s, t)
<1>0. Len(s) \in Nat /\ \A i \in 1..Len(s) : s[i] \in Timers /\ s[i] # t
  BY RangeByPosition
<1>1. notLater # {} => at \in notLater /\ \A i \in notLater : at <= i
  <2>1. notLater \in SUBSET Nat
    OBVIOUS
  <2> HIDE DEF notLater
  <2> QED BY <2>1, MinOfSet
<1>2. at \in 1..Len(s) + 1
  BY <1>0, <1>1
<1>3. \A i \in 1..Len(s) : i < at => fire[s[i]] > fire[t]
  <2> TAKE i \in 1..Len(s)
  <2> HAVE i < at
  <2>1. i \notin notLater
    <3> HIDE DEF notLater, at
    <3> QED BY <1>1, <1>2
  <2>2. fire[t] \in Nat /\ fire[s[i]] \in Nat /\ i \in DOMAIN s
    BY <1>0
  <2> QED BY <2>1, <2>2
<1>4. \A i \in 1..Len(s) : i >= at => fire[s[i]] <= fire[t]
  <2> TAKE i \in 1..Len(s)
  <2> HAVE i >= at
  <2>1. at \in 1..Len(s) /\ fire[t] >= fire[s[at]]
    BY <1>1
  <2>2. i = at \/ fire[s[at]] >= fire[s[i]]
    <3> HIDE DEF at
    <3> QED BY <2>1 DEF Sorted
  <2>3. fire[t] \in Nat /\ fire[s[at]] \in Nat /\ fire[s[i]] \in Nat
    BY <1>0, <2>1
  <2> HIDE DEF at
  <2> QED BY <2>1, <2>2, <2>3
<1>5. r = InsertAt(s, at, t)
  BY Zenon DEF AddTimer
<1> HIDE DEF at, notLater, r
<1>6. /\ r \in Seq(Timers) /\ Len(r) = Len(s) + 1
      /\ \A i \in 1..Len(s) + 1 :
           r[i] = IF i < at THEN s[i] ELSE IF i = at THEN t ELSE s[i - 1]
  <2>1. at \in 1..Len(s) + 1
    BY <1>2
  <2>2. r \in Seq(Timers) /\ IsInsertion(r, s, at, t)
    BY <1>5, <2>1, InsertAtElements, Zenon
  <2> QED BY <2>2, Zenon DEF IsInsertion
<1>7. Sorted(fire, r)
  <2> SUFFICES ASSUME NEW i \in 1..Len(s) + 1, NEW j \in 1..Len(s) + 1, i < j
               PROVE  r[i] # r[j] /\ fire[r[i]] >= fire[r[j]]
    BY <1>6 DEF Sorted
  <2>1. CASE i < at /\ j < at
    <3>1. i \in 1..Len(s) /\ j \in 1..Len(s) /\ r[i] = s[i] /\ r[j] = s[j]
      BY <1>0, <1>2, <1>6, <2>1
    <3> QED BY <3>1 DEF Sorted
  <2>2. CASE i < at /\ j = at
    <3>1. i \in 1..Len(s) /\ r[i] = s[i] /\ r[j] = t
      BY <1>0, <1>2, <1>6, <2>2
    <3>2. fire[s[i]] > fire[t] /\ fire[s[i]] \in Nat /\ fire[t] \in Nat /\ s[i] # t
      BY <1>0, <1>3, <2>2, <3>1
    <3> QED BY <3>1, <3>2
  <2>3. CASE i < at /\ j > at
    <3>1. i \in 1..Len(s) /\ j - 1 \in 1..Len(s) /\ r[i] = s[i] /\ r[j] = s[j - 1] /\ i < j - 1
      BY <1>0, <1>2, <1>6, <2>3
    <3> QED BY <3>1 DEF Sorted
  <2>4. CASE i = at
    <3>1. j - 1 \in 1..Len(s) /\ r[i] = t /\ r[j] = s[j - 1] /\ j - 1 >= at
      BY <1>0, <1>2, <1>6, <2>4
    <3>2. fire[s[j - 1]] <= fire[t] /\ fire[s[j - 1]] \in Nat /\ fire[t] \in Nat /\ s[j - 1] # t
      BY <1>0, <1>4, <3>1
    <3> QED BY <3>1, <3>2
  <2>5. CASE i > at
    <3>1. i - 1 \in 1..Len(s) /\ j - 1 \in 1..Len(s) /\ r[i] = s[i - 1] /\ r[j] = s[j - 1]
          /\ i - 1 < j - 1
      BY <1>0, <1>2, <1>6, <2>5
    <3> QED BY <3>1 DEF Sorted
  <2> QED BY <1>0, <1>2, <2>1, <2>2, <2>3, <2>4, <2>5
<1>8. Range(r) = Range(s) \cup {t}
  <2>1. Range(r) = {r[i] : i \in 1..Len(s) + 1} /\ Range(s) = {s[i] : i \in 1..Len(s)}
    BY <1>6, RangeByPosition
  <2>2. \A i \in 1..Len(s) + 1 : r[i] = t \/ \E j \in 1..Len(s) : r[i] = s[j]
    <3> TAKE i \in 1..Len(s) + 1
    <3>1. CASE i < at
      BY <1>0, <1>2, <1>6, <3>1
    <3>2. CASE i = at
      BY <1>6, <3>2
    <3>3. CASE i > at
      <4>1. i - 1 \in 1..Len(s) /\ r[i] = s[i - 1]
        BY <1>0, <1>2, <1>6, <3>3
      <4> QED BY <4>1
    <3> QED BY <1>2, <3>1, <3>2, <3>3
  <2>3. \A j \in 1..Len(s) : \E i \in 1..Len(s) + 1 : r[i] = s[j]
    <3> TAKE j \in 1..Len(s)
    <3>1. CASE j < at
      BY <1>0, <1>2, <1>6, <3>1
    <3>2. CASE j >= at
      <4>1. j + 1 \in 1..Len(s) + 1 /\ ~(j + 1 < at) /\ j + 1 # at /\ (j + 1) - 1 = j
        BY <1>0, <1>2, <3>2
      <4>2. r[j + 1] = s[(j + 1) - 1]
        BY <1>6, <4>1
      <4> QED BY <4>1, <4>2
    <3> QED BY <1>2, <3>1, <3>2
  <2>4. at \in 1..Len(s) + 1 /\ r[at] = t
    BY <1>2, <1>6
  <2> QED BY <2>1, <2>2, <2>3, <2>4, Zenon
<1> QED BY <1>6, <1>7, <1>8 DEF r

\* removeTimer keeps it sorted and, since it holds no timer twice, removes the timer.
LEMMA RemoveFirstSorted ==
  ASSUME NEW fire, NEW s \in Seq(Timers), Sorted(fire, s), NEW t
  PROVE  /\ RemoveFirst(s, t) \in Seq(Timers) /\ Sorted(fire, RemoveFirst(s, t))
         /\ Range(RemoveFirst(s, t)) = Range(s) \ {t}
<1>0. Len(s) \in Nat /\ Range(s) = {s[i] : i \in 1..Len(s)}
  BY RangeByPosition
<1>1. CASE ~\E i \in 1..Len(s) : s[i] = t
  <2>1. RemoveFirst(s, t) = s
    BY <1>1, Zenon DEF RemoveFirst
  <2>2. t \notin Range(s)
    BY <1>0, <1>1, Zenon
  <2> QED BY <2>1, <2>2
<1>2. CASE \E i \in 1..Len(s) : s[i] = t
  <2> DEFINE I == {i \in 1..Len(s) : s[i] = t}
             at == Min(I)
             r == RemoveFirst(s, t)
  <2>1. r = RemoveAt(s, at)
    <3>1. I # {}
      BY <1>2
    <3> QED BY <1>2, <3>1, Zenon DEF RemoveFirst, SelectInSeq
  <2>2. at \in 1..Len(s) /\ s[at] = t
    <3>1. I \in SUBSET Nat /\ I # {}
      BY <1>2
    <3>2. at \in I
      <4> HIDE DEF I
      <4> QED BY <3>1, MinOfSet
    <3> QED BY <3>2
  <2> HIDE DEF at, r
  <2>3. r \in Seq(Timers) /\ IsRemoval(r, s, at)
    BY <2>1, <2>2, RemoveAtElements, Zenon
  <2>4. /\ Len(r) = Len(s) - 1
        /\ \A i \in 1..Len(s) - 1 : r[i] = IF i < at THEN s[i] ELSE s[i + 1]
    BY <2>3, Zenon DEF IsRemoval
  <2>5. PICK m \in Nat : m = Len(s) - 1
    BY <1>0, <2>2
  <2>6. \A i \in 1..m : \E k \in 1..Len(s) :
          r[i] = s[k] /\ k # at /\ k = IF i < at THEN i ELSE i + 1
    <3> TAKE i \in 1..m
    <3>1. CASE i < at
      BY <1>0, <2>2, <2>4, <2>5, <3>1
    <3>2. CASE ~(i < at)
      <4>1. i + 1 \in 1..Len(s) /\ i + 1 # at /\ r[i] = s[i + 1]
        BY <1>0, <2>2, <2>4, <2>5, <3>2
      <4> QED BY <3>2, <4>1
    <3> QED BY <3>1, <3>2
  <2>7. Sorted(fire, r)
    <3> SUFFICES ASSUME NEW i \in 1..m, NEW j \in 1..m, i < j
                 PROVE  r[i] # r[j] /\ fire[r[i]] >= fire[r[j]]
      BY <2>4, <2>5, Zenon DEF Sorted
    <3>1. PICK k \in 1..Len(s) : r[i] = s[k] /\ k = IF i < at THEN i ELSE i + 1
      BY <2>6
    <3>2. PICK l \in 1..Len(s) : r[j] = s[l] /\ l = IF j < at THEN j ELSE j + 1
      BY <2>6
    <3>3. k < l
      BY <2>2, <3>1, <3>2
    <3> QED BY <3>1, <3>2, <3>3 DEF Sorted
  <2>8. Range(r) = {r[i] : i \in 1..m}
    BY <2>3, <2>4, <2>5, RangeByPosition
  <2>9. \A k \in 1..Len(s) : k # at => \E i \in 1..m : r[i] = s[k]
    <3> TAKE k \in 1..Len(s)
    <3> HAVE k # at
    <3>1. CASE k < at
      <4>1. k \in 1..m /\ k \in 1..Len(s) - 1
        BY <1>0, <2>2, <2>5, <3>1
      <4>2. r[k] = s[k]
        BY <2>4, <3>1, <4>1
      <4> QED BY <4>1, <4>2
    <3>2. CASE k > at
      <4>1. k - 1 \in 1..m /\ k - 1 \in 1..Len(s) - 1 /\ ~(k - 1 < at) /\ (k - 1) + 1 = k
        BY <1>0, <2>2, <2>5, <3>2
      <4>2. r[k - 1] = s[(k - 1) + 1]
        BY <2>4, <4>1
      <4> QED BY <4>1, <4>2
    <3> QED BY <2>2, <3>1, <3>2
  <2>10. \A k \in 1..Len(s) : k # at <=> s[k] # t
    <3> TAKE k \in 1..Len(s)
    <3>1. k = at \/ k < at \/ at < k
      BY <2>2
    <3> QED BY <2>2, <3>1 DEF Sorted
  <2>11. Range(r) = Range(s) \ {t}
    <3>1. ASSUME NEW x \in Range(r) PROVE x \in Range(s) /\ x # t
      <4>1. PICK i \in 1..m : x = r[i]
        BY <2>8
      <4>2. PICK k \in 1..Len(s) : r[i] = s[k] /\ k # at
        BY <2>6
      <4> QED BY <1>0, <2>10, <4>1, <4>2
    <3>2. ASSUME NEW x \in Range(s), x # t PROVE x \in Range(r)
      <4>1. PICK k \in 1..Len(s) : x = s[k]
        BY <1>0
      <4>2. PICK i \in 1..m : r[i] = s[k]
        BY <2>9, <2>10, <3>2, <4>1
      <4> QED BY <2>8, <4>1, <4>2
    <3> QED BY <3>1, <3>2
  <2> QED BY <2>3, <2>7, <2>11 DEF r
<1> QED BY <1>1, <1>2

\* The front of a list.
LEMMA PrefixElements ==
  ASSUME NEW S, NEW s \in Seq(S), NEW n \in 0..Len(s)
  PROVE  /\ SubSeq(s, 1, n) \in Seq(S) /\ Len(SubSeq(s, 1, n)) = n
         /\ \A i \in 1..n : i \in 1..Len(s) /\ SubSeq(s, 1, n)[i] = s[i]
OBVIOUS

-----------------------------------------------------------------------------
(* The loops keep the lists sorted *)

LEMMA AddNewTimersSorted ==
  ASSUME NEW e \in Executions, NEW fire \in [Timers -> Nat], NEW new \in SUBSET TimersOf(e),
         NEW s \in Seq(Timers), Sorted(fire, s), Range(s) \cap TimersOf(e) = {}
  PROVE  /\ AddNewTimers(fire, e, new, s) \in Seq(Timers)
         /\ Sorted(fire, AddNewTimers(fire, e, new, s))
         /\ Range(AddNewTimers(fire, e, new, s)) = Range(s) \cup new
<1>1. PICK n \in Nat : n = TimerCommands[e]
  BY TimersAssumption
<1>0. PICK h : AddValues(h, n, s, fire, e, new)
  BY <1>1, AddLoop, Zenon
<1>2. /\ h[0] = s /\ h[n] = AddNewTimers(fire, e, new, s)
      /\ \A k \in 1..n : h[k] = AddIfNew(fire, e, new, h[k - 1], k)
  BY <1>0, Zenon DEF AddValues
<1> DEFINE Upto(k) == {<<e, i>> : i \in 1..k}
           P == {k \in Nat : k <= n =>
                   /\ h[k] \in Seq(Timers) /\ Sorted(fire, h[k])
                   /\ Range(h[k]) = Range(s) \cup (new \cap Upto(k))}
<1>3. 0 \in P
  <2>1. Upto(0) = {}
    OBVIOUS
  <2> HIDE DEF Upto
  <2> QED BY <1>2, <2>1
<1>4. ASSUME NEW k \in Nat, k \in P
      PROVE  k + 1 \in P
  <2> SUFFICES ASSUME k + 1 <= n
               PROVE  /\ h[k + 1] \in Seq(Timers) /\ Sorted(fire, h[k + 1])
                      /\ Range(h[k + 1]) = Range(s) \cup (new \cap Upto(k + 1))
    OBVIOUS
  <2>1. /\ h[k] \in Seq(Timers) /\ Sorted(fire, h[k])
        /\ Range(h[k]) = Range(s) \cup (new \cap Upto(k))
    BY <1>4
  <2>2. h[k + 1] = AddIfNew(fire, e, new, h[k], k + 1)
    <3>1. k + 1 \in 1..n /\ (k + 1) - 1 = k
      OBVIOUS
    <3> HIDE DEF P, Upto
    <3> QED BY <1>2, <3>1
  <2> DEFINE t == <<e, k + 1>>
  <2>3. t \in TimersOf(e) /\ t \in Timers
    BY <1>1 DEF TimersOf, Timers
  <2>4. t \notin Upto(k) /\ Upto(k + 1) = Upto(k) \cup {t}
    OBVIOUS
  <2>5. CASE t \in new
    <3>1. h[k + 1] = AddTimer(fire, h[k], t)
      BY <2>2, <2>5, Zenon DEF AddIfNew
    <3>2. t \notin Range(h[k])
      <4> HIDE DEF t, Upto
      <4> QED BY <2>1, <2>3, <2>4
    <3>3. /\ h[k + 1] \in Seq(Timers) /\ Sorted(fire, h[k + 1])
          /\ Range(h[k + 1]) = Range(h[k]) \cup {t}
      <4> HIDE DEF t
      <4> QED BY <2>1, <2>3, <3>1, <3>2, AddTimerSorted
    <3> HIDE DEF t, Upto
    <3> QED BY <2>1, <2>4, <2>5, <3>3
  <2>6. CASE t \notin new
    <3>1. h[k + 1] = h[k]
      BY <2>2, <2>6, Zenon DEF AddIfNew
    <3> HIDE DEF t, Upto
    <3> QED BY <2>1, <2>4, <2>6, <3>1
  <2> QED BY <2>5, <2>6
<1>5. P = Nat
  <2>1. P \in SUBSET Nat
    OBVIOUS
  <2> HIDE DEF P
  <2> QED BY <1>3, <1>4, <2>1, NatInductionOnSets
<1>6. n \in P /\ n <= n
  BY <1>5
<1>7. new \cap Upto(n) = new
  BY <1>1 DEF TimersOf
<1> HIDE DEF Upto
<1> QED BY <1>2, <1>6, <1>7

LEMMA RemoveTimersSorted ==
  ASSUME NEW e \in Executions, NEW fire, NEW s \in Seq(Timers), Sorted(fire, s)
  PROVE  /\ RemoveTimers(e, s) \in Seq(Timers) /\ Sorted(fire, RemoveTimers(e, s))
         /\ Range(RemoveTimers(e, s)) = Range(s) \ TimersOf(e)
<1>1. PICK n \in Nat : n = TimerCommands[e]
  BY TimersAssumption
<1>0. PICK h : RemoveValues(h, n, s, e)
  BY <1>1, RemoveLoop, Zenon
<1>2. /\ h[0] = s /\ h[n] = RemoveTimers(e, s)
      /\ \A k \in 1..n : h[k] = RemoveFirst(h[k - 1], <<e, k>>)
  BY <1>0, Zenon DEF RemoveValues
<1> DEFINE Upto(k) == {<<e, i>> : i \in 1..k}
           P == {k \in Nat : k <= n =>
                   /\ h[k] \in Seq(Timers) /\ Sorted(fire, h[k])
                   /\ Range(h[k]) = Range(s) \ Upto(k)}
<1>3. 0 \in P
  <2>1. Upto(0) = {}
    OBVIOUS
  <2> HIDE DEF Upto
  <2> QED BY <1>2, <2>1
<1>4. ASSUME NEW k \in Nat, k \in P
      PROVE  k + 1 \in P
  <2> SUFFICES ASSUME k + 1 <= n
               PROVE  /\ h[k + 1] \in Seq(Timers) /\ Sorted(fire, h[k + 1])
                      /\ Range(h[k + 1]) = Range(s) \ Upto(k + 1)
    OBVIOUS
  <2>1. /\ h[k] \in Seq(Timers) /\ Sorted(fire, h[k])
        /\ Range(h[k]) = Range(s) \ Upto(k)
    BY <1>4
  <2>2. h[k + 1] = RemoveFirst(h[k], <<e, k + 1>>)
    <3>1. k + 1 \in 1..n /\ (k + 1) - 1 = k
      OBVIOUS
    <3> HIDE DEF P, Upto
    <3> QED BY <1>2, <3>1
  <2>3. Upto(k + 1) = Upto(k) \cup {<<e, k + 1>>}
    OBVIOUS
  <2>4. /\ h[k + 1] \in Seq(Timers) /\ Sorted(fire, h[k + 1])
        /\ Range(h[k + 1]) = Range(h[k]) \ {<<e, k + 1>>}
    BY <2>1, <2>2, RemoveFirstSorted
  <2> HIDE DEF Upto
  <2> QED BY <2>1, <2>3, <2>4
<1>5. P = Nat
  <2>1. P \in SUBSET Nat
    OBVIOUS
  <2> HIDE DEF P
  <2> QED BY <1>3, <1>4, <2>1, NatInductionOnSets
<1>6. n \in P /\ n <= n
  BY <1>5
<1>7. Upto(n) = TimersOf(e)
  BY <1>1 DEF TimersOf
<1> HIDE DEF Upto
<1> QED BY <1>2, <1>6, <1>7

-----------------------------------------------------------------------------
(* The invariant *)

SchedulerTypeOK ==
  /\ now \in Nat
  /\ exec \in [Executions -> {"new", "waiting", "done", "canceled", "parked", "resumed", "ended"}]
  /\ fireAt \in [Timers -> Nat]
  /\ status \in [Timers -> {"none", "Pending", "Fired", "Skipped"}]
  /\ waiting \subseteq Timers
  /\ pendingScheduling \in Seq(Timers) /\ providerScheduledTimerUnixTs \in Seq(Nat)

Descending(s) == \A i, j \in 1..Len(s) : i < j => s[i] > s[j]

\* The lists are sorted, and the scheduler only knows timers of executions that added
\* them and have not ended.
ListsOK ==
  /\ Sorted(fireAt, pendingScheduling) /\ Descending(providerScheduledTimerUnixTs)
  /\ \A t \in Range(pendingScheduling) :
       exec[t[1]] \in {"waiting", "done", "canceled", "parked"}

\* A thread waits for a timer of an execution that waits; unless its time has come, the
\* scheduler knows the timer.
ThreadsOK ==
  \A t \in waiting :
    /\ exec[t[1]] \in {"waiting", "done", "canceled"}
    /\ status[t] = "Pending" /\ fireAt[t] > now => t \in Range(pendingScheduling)

EngineTimersOK ==
  /\ engineTimers = {ts \in Range(providerScheduledTimerUnixTs) : ts > now}
  /\ scheduler \/ thresholdMet

IInv == SchedulerTypeOK /\ ListsOK /\ ThreadsOK /\ EngineTimersOK

-----------------------------------------------------------------------------
(* Pruning *)

\* The last position of a set of positions, 0 for none.
LEMMA LastPosition ==
  ASSUME NEW n \in Nat, NEW K \in SUBSET (1..n)
  PROVE  /\ Max({0} \cup K) \in 0..n /\ \A i \in K : i <= Max({0} \cup K)
         /\ Max({0} \cup K) # 0 => Max({0} \cup K) \in K
<1>1. {0} \cup K \in SUBSET (0..n) /\ {0} \cup K # {}
  OBVIOUS
<1>2. Max({0} \cup K) \in {0} \cup K /\ \A i \in {0} \cup K : i <= Max({0} \cup K)
  BY <1>1, MaxOfSet
<1> QED BY <1>1, <1>2

\* What is left of the pending timers ends with the earliest and keeps every timer
\* that is pending and not due.
LEMMA PrunedPending ==
  ASSUME SchedulerTypeOK, Sorted(fireAt, pendingScheduling),
         NEW p, p = PrunePending(pendingScheduling)
  PROVE  /\ p \in Seq(Timers) /\ Sorted(fireAt, p) /\ Range(p) \subseteq Range(pendingScheduling)
         /\ \A t \in Range(pendingScheduling) :
              fireAt[t] > now /\ status[t] = "Pending" => t \in Range(p)
         /\ p # << >> =>
              /\ Last(p) \in Timers /\ fireAt[Last(p)] > now
              /\ \A t \in Range(p) : fireAt[Last(p)] <= fireAt[t]
<1> DEFINE s == pendingScheduling
           K == {i \in DOMAIN s : fireAt[s[i]] > now /\ status[s[i]] = "Pending"}
           n == Max({0} \cup K)
<1>1. /\ s \in Seq(Timers) /\ DOMAIN s = 1..Len(s) /\ Range(s) = {s[i] : i \in 1..Len(s)}
      /\ Len(s) \in Nat
  BY RangeByPosition DEF SchedulerTypeOK
<1>2. n \in 0..Len(s) /\ (\A i \in K : i <= n) /\ (n # 0 => n \in K)
  <2>1. K \in SUBSET (1..Len(s))
    BY <1>1
  <2> HIDE DEF K, s
  <2> QED BY <1>1, <2>1, LastPosition
<1>3. p = SubSeq(s, 1, n)
  BY Zenon DEF PrunePending
<1>4. \A i \in 1..Len(s) : fireAt[s[i]] > now /\ status[s[i]] = "Pending" => i \in K
  BY <1>1
<1>5. \A i \in K : fireAt[s[i]] > now
  OBVIOUS
<1> HIDE DEF K, n
<1>6. /\ p \in Seq(Timers) /\ Len(p) = n /\ \A i \in 1..n : i \in 1..Len(s) /\ p[i] = s[i]
  BY <1>1, <1>2, <1>3, PrefixElements
<1>7. Range(p) = {p[i] : i \in 1..n}
  BY <1>6, RangeByPosition
<1>8. Sorted(fireAt, p)
  <2>1. Sorted(fireAt, s)
    OBVIOUS
  <2> HIDE DEF s
  <2> QED BY <1>6, <2>1 DEF Sorted
<1>9. Range(p) \subseteq Range(s)
  BY <1>1, <1>6, <1>7, Zenon
<1>10. ASSUME NEW t \in Range(s), fireAt[t] > now, status[t] = "Pending"
       PROVE  t \in Range(p)
  <2>1. PICK i \in 1..Len(s) : t = s[i]
    BY <1>1
  <2>2. i \in K
    BY <1>4, <1>10, <2>1
  <2>3. i \in 1..n
    BY <1>2, <2>2
  <2> QED BY <1>6, <1>7, <2>1, <2>3
<1>11. ASSUME p # << >>
       PROVE  /\ Last(p) \in Timers /\ fireAt[Last(p)] > now
              /\ \A t \in Range(p) : fireAt[Last(p)] <= fireAt[t]
  <2>1. n # 0 /\ n \in 1..n /\ Last(p) = p[n]
    BY <1>2, <1>6, <1>11 DEF Last
  <2>2. Last(p) = s[n] /\ Last(p) \in Timers /\ fireAt[Last(p)] > now
    BY <1>2, <1>5, <1>6, <2>1
  <2>3. ASSUME NEW t \in Range(p) PROVE fireAt[Last(p)] <= fireAt[t]
    <3>1. PICK i \in 1..n : t = p[i]
      BY <1>7
    <3>2. i = n \/ i < n
      BY <1>2, <3>1
    <3>3. fireAt[t] \in Nat /\ fireAt[Last(p)] \in Nat
      BY <1>6, <2>2, <3>1 DEF SchedulerTypeOK
    <3>4. i < n => fireAt[p[i]] >= fireAt[p[n]]
      BY <1>6, <1>8, <2>1 DEF Sorted
    <3> QED BY <2>1, <3>1, <3>2, <3>3, <3>4
  <2> QED BY <2>2, <2>3
<1> QED BY <1>6, <1>8, <1>9, <1>10, <1>11

\* What is left of the scheduled times are those to come, the next at the end.
LEMMA PrunedProvider ==
  ASSUME SchedulerTypeOK, Descending(providerScheduledTimerUnixTs),
         NEW p, p = PruneProvider(providerScheduledTimerUnixTs)
  PROVE  /\ p \in Seq(Nat) /\ Descending(p)
         /\ Range(p) = {ts \in Range(providerScheduledTimerUnixTs) : ts > now}
         /\ p # << >> => Last(p) \in Range(p)
<1> DEFINE s == providerScheduledTimerUnixTs
           K == {i \in DOMAIN s : s[i] > now}
           n == Max({0} \cup K)
<1>1. /\ s \in Seq(Nat) /\ DOMAIN s = 1..Len(s) /\ Range(s) = {s[i] : i \in 1..Len(s)}
      /\ Len(s) \in Nat /\ now \in Nat
  BY RangeByPosition DEF SchedulerTypeOK
<1>2. n \in 0..Len(s) /\ (\A i \in K : i <= n) /\ (n # 0 => n \in K)
  <2>1. K \in SUBSET (1..Len(s))
    BY <1>1
  <2> HIDE DEF K, s
  <2> QED BY <1>1, <2>1, LastPosition
<1>3. p = SubSeq(s, 1, n)
  BY Zenon DEF PruneProvider
<1>4. \A i \in 1..Len(s) : s[i] > now <=> i \in K
  BY <1>1
<1> HIDE DEF K, n
<1>5. /\ p \in Seq(Nat) /\ Len(p) = n /\ \A i \in 1..n : i \in 1..Len(s) /\ p[i] = s[i]
  BY <1>1, <1>2, <1>3, PrefixElements
<1>6. Range(p) = {p[i] : i \in 1..n}
  BY <1>5, RangeByPosition
<1>7. Descending(s)
  OBVIOUS
<1> HIDE DEF s
<1>8. Descending(p)
  BY <1>5, <1>7 DEF Descending
<1>9. \A i \in 1..n : s[i] > now
  <2> TAKE i \in 1..n
  <2>1. n \in 1..Len(s) /\ s[n] > now /\ i \in 1..Len(s)
    BY <1>2, <1>4, <1>5
  <2>2. i = n \/ s[i] > s[n]
    BY <1>7, <2>1 DEF Descending
  <2>3. s[i] \in Nat /\ s[n] \in Nat
    BY <1>1, <2>1
  <2> QED BY <1>1, <2>1, <2>2, <2>3
<1>10. Range(p) = {ts \in Range(s) : ts > now}
  <2>1. ASSUME NEW ts \in Range(p) PROVE ts \in Range(s) /\ ts > now
    <3>1. PICK i \in 1..n : ts = p[i]
      BY <1>6
    <3> QED BY <1>1, <1>5, <1>9, <3>1
  <2>2. ASSUME NEW ts \in Range(s), ts > now PROVE ts \in Range(p)
    <3>1. PICK i \in 1..Len(s) : ts = s[i]
      BY <1>1
    <3>2. i \in 1..n
      BY <1>2, <1>4, <2>2, <3>1
    <3> QED BY <1>5, <1>6, <3>1, <3>2
  <2> QED BY <2>1, <2>2
<1>11. p # << >> => Last(p) \in Range(p)
  <2>1. p # << >> => n \in 1..n
    BY <1>2, <1>5
  <2> QED BY <1>5, <1>6, <2>1 DEF Last
<1> QED BY <1>5, <1>8, <1>10, <1>11 DEF s

LEMMA AppendDescending ==
  ASSUME NEW s \in Seq(Nat), Descending(s), NEW x \in Nat, s # << >> => x < Last(s)
  PROVE  /\ Append(s, x) \in Seq(Nat) /\ Descending(Append(s, x))
         /\ Range(Append(s, x)) = Range(s) \cup {x}
<1> DEFINE r == Append(s, x)
<1>1. /\ r \in Seq(Nat) /\ Len(r) = Len(s) + 1 /\ Len(s) \in Nat
      /\ r[Len(s) + 1] = x /\ \A i \in 1..Len(s) : r[i] = s[i] /\ s[i] \in Nat
  OBVIOUS
<1>2. Range(r) = {r[i] : i \in 1..Len(s) + 1} /\ Range(s) = {s[i] : i \in 1..Len(s)}
  BY <1>1, RangeByPosition
<1> HIDE DEF r
<1>3. \A i \in 1..Len(s) : s[i] > x
  <2> TAKE i \in 1..Len(s)
  <2>1. s # << >> /\ Last(s) = s[Len(s)] /\ Len(s) \in 1..Len(s)
    BY <1>1 DEF Last
  <2>2. i = Len(s) \/ s[i] > s[Len(s)]
    BY <2>1 DEF Descending
  <2> QED BY <1>1, <2>1, <2>2
<1>4. Descending(r)
  <2> SUFFICES ASSUME NEW i \in 1..Len(s) + 1, NEW j \in 1..Len(s) + 1, i < j
               PROVE  r[i] > r[j]
    BY <1>1 DEF Descending
  <2>1. i \in 1..Len(s)
    BY <1>1
  <2>2. CASE j \in 1..Len(s)
    BY <1>1, <2>1, <2>2 DEF Descending
  <2>3. CASE j = Len(s) + 1
    BY <1>1, <1>3, <2>1, <2>3
  <2>4. j \in 1..Len(s) \/ j = Len(s) + 1
    <3>1. Len(s) \in Nat
      BY <1>1
    <3> QED BY <3>1
  <2> QED BY <2>2, <2>3, <2>4, Zenon
<1>5. \A i \in 1..Len(s) + 1 : i \in 1..Len(s) \/ i = Len(s) + 1
  BY <1>1
<1>6. Len(s) + 1 \in 1..Len(s) + 1 /\ \A i \in 1..Len(s) : i \in 1..Len(s) + 1
  BY <1>1
<1>7. Range(r) = Range(s) \cup {x}
  <2>1. ASSUME NEW y \in Range(r) PROVE y \in Range(s) \cup {x}
    BY <1>1, <1>2, <1>5, Zenon
  <2>2. ASSUME NEW y \in Range(s) \cup {x} PROVE y \in Range(r)
    BY <1>1, <1>2, <1>6, Zenon
  <2> QED BY <2>1, <2>2
<1> QED BY <1>1, <1>4, <1>7 DEF r

-----------------------------------------------------------------------------
(* The steps *)

LEMMA TimersByExecution ==
  /\ \A t \in Timers : t[1] \in Executions /\ t \in TimersOf(t[1])
  /\ \A e \in Executions : \A t \in TimersOf(e) : t \in Timers /\ t[1] = e
BY DEF Timers, TimersOf

LEMMA SortedFrame ==
  ASSUME NEW s \in Seq(Timers), NEW fire, NEW fire2, Sorted(fire, s),
         \A t \in Range(s) : fire2[t] = fire[t]
  PROVE  Sorted(fire2, s)
<1>1. \A i \in 1..Len(s) : fire2[s[i]] = fire[s[i]]
  <2>1. Range(s) = {s[i] : i \in 1..Len(s)}
    BY RangeByPosition
  <2> QED BY <2>1, Zenon
<1> QED BY <1>1 DEF Sorted

\* The steps that leave the times and the scheduler alone.
LEMMA QuietStep ==
  ASSUME IInv, SchedulerTypeOK',
         UNCHANGED <<now, fireAt, pendingScheduling, providerScheduledTimerUnixTs, engineTimers>>,
         (scheduler \/ thresholdMet)',
         \A e \in Executions :
           /\ exec[e] \in {"waiting", "done", "canceled", "parked"} =>
                exec'[e] \in {"waiting", "done", "canceled", "parked"}
           /\ exec[e] \in {"waiting", "done", "canceled"} /\ TimersOf(e) \cap waiting' # {} =>
                exec'[e] \in {"waiting", "done", "canceled"},
         waiting' \subseteq waiting,
         \A t \in waiting' : status'[t] = "Pending" => status[t] = "Pending"
  PROVE  IInv'
<1>0. SchedulerTypeOK /\ ListsOK /\ ThreadsOK /\ EngineTimersOK
  BY DEF IInv
<1>1. ListsOK'
  <2>1. \A t \in Range(pendingScheduling) : t[1] \in Executions
    BY <1>0, RangeByPosition, TimersByExecution DEF SchedulerTypeOK
  <2>2. \A t \in Range(pendingScheduling) :
          exec'[t[1]] \in {"waiting", "done", "canceled", "parked"}
    BY <1>0, <2>1 DEF ListsOK
  <2>3. pendingScheduling' = pendingScheduling /\ fireAt' = fireAt
        /\ providerScheduledTimerUnixTs' = providerScheduledTimerUnixTs
    OBVIOUS
  <2> QED BY <1>0, <2>2, <2>3, Zenon DEF ListsOK
<1>2. ThreadsOK'
  <2> SUFFICES ASSUME NEW t \in waiting'
               PROVE  /\ exec'[t[1]] \in {"waiting", "done", "canceled"}
                      /\ status'[t] = "Pending" /\ fireAt[t] > now =>
                           t \in Range(pendingScheduling)
    BY DEF ThreadsOK
  <2>1. t \in waiting /\ t[1] \in Executions /\ TimersOf(t[1]) \cap waiting' # {}
    BY <1>0, TimersByExecution DEF SchedulerTypeOK
  <2> QED BY <1>0, <2>1 DEF ThreadsOK
<1>3. EngineTimersOK'
  BY <1>0 DEF EngineTimersOK
<1> QED BY <1>1, <1>2, <1>3 DEF IInv

LEMMA ControlStep ==
  ASSUME IInv,
         \/ \E e \in Executions :
              \/ CommandReqDone(e) \/ OtherCommandCompletes(e) \/ CommandReqCanceled(e)
              \/ ReturnWaitingCommands(e)
         \/ SchedulerExit \/ MeetThreshold \/ UNCHANGED vars
  PROVE  IInv'
<1>0. SchedulerTypeOK /\ EngineTimersOK
  BY DEF IInv
<1>1. /\ UNCHANGED <<now, fireAt, pendingScheduling, providerScheduledTimerUnixTs, engineTimers>>
      /\ UNCHANGED <<status, waiting>>
      /\ \/ UNCHANGED <<scheduler, thresholdMet>>
         \/ thresholdMet'
      /\ \/ exec' = exec
         \/ \E e \in Executions :
              exec[e] = "waiting" /\ exec' \in {[exec EXCEPT ![e] = "done"],
                                                [exec EXCEPT ![e] = "canceled"]}
         \/ \E e \in Executions :
              ThreadsDrained(e) /\ exec[e] = "canceled" /\ exec' = [exec EXCEPT ![e] = "parked"]
  <2>1. CASE \E e \in Executions : CommandReqDone(e)
    BY <2>1, Zenon DEF CommandReqDone, schedulerVars, runVars
  <2>2. CASE \E e \in Executions : OtherCommandCompletes(e)
    BY <2>2, Zenon DEF OtherCommandCompletes, schedulerVars, runVars
  <2>3. CASE \E e \in Executions : CommandReqCanceled(e)
    BY <2>3, Zenon DEF CommandReqCanceled, schedulerVars, runVars
  <2>4. CASE \E e \in Executions : ReturnWaitingCommands(e)
    BY <2>4, Zenon DEF ReturnWaitingCommands, schedulerVars, runVars
  <2>5. CASE SchedulerExit
    BY <2>5, Zenon DEF SchedulerExit, runVars
  <2>6. CASE MeetThreshold
    BY <2>6, Zenon DEF MeetThreshold, schedulerVars
  <2>7. CASE UNCHANGED vars
    BY <2>7, Zenon DEF vars, schedulerVars, runVars
  <2> QED BY <2>1, <2>2, <2>3, <2>4, <2>5, <2>6, <2>7
<1>2. SchedulerTypeOK'
  BY <1>0, <1>1 DEF SchedulerTypeOK
<1>3. (scheduler \/ thresholdMet)'
  BY <1>0, <1>1 DEF EngineTimersOK
<1>4. \A e \in Executions :
        /\ exec[e] \in {"waiting", "done", "canceled", "parked"} =>
             exec'[e] \in {"waiting", "done", "canceled", "parked"}
        /\ exec[e] \in {"waiting", "done", "canceled"} /\ TimersOf(e) \cap waiting' # {} =>
             exec'[e] \in {"waiting", "done", "canceled"}
  BY <1>0, <1>1 DEF SchedulerTypeOK, ThreadsDrained
<1>5. waiting' \subseteq waiting /\ \A t \in waiting' : status'[t] = "Pending" => status[t] = "Pending"
  BY <1>1
<1> QED BY <1>1, <1>2, <1>3, <1>4, <1>5, QuietStep

LEMMA SkipTimerStep ==
  ASSUME IInv, NEW t \in Timers, SkipTimer(t)
  PROVE  IInv'
<1>0. SchedulerTypeOK /\ EngineTimersOK
  BY DEF IInv
<1>1. /\ UNCHANGED <<now, fireAt, pendingScheduling, providerScheduledTimerUnixTs, engineTimers>>
      /\ UNCHANGED <<exec, waiting, scheduler, thresholdMet>>
      /\ status' = [status EXCEPT ![t] = "Skipped"]
  BY DEF SkipTimer, schedulerVars, runVars
<1>2. SchedulerTypeOK'
  BY <1>0, <1>1 DEF SchedulerTypeOK
<1>3. (scheduler \/ thresholdMet)'
  BY <1>0, <1>1 DEF EngineTimersOK
<1>4. \A u \in waiting' : status'[u] = "Pending" => status[u] = "Pending"
  BY <1>0, <1>1 DEF SchedulerTypeOK
<1>5. waiting' \subseteq waiting /\ exec' = exec
  BY <1>1
<1> QED BY <1>1, <1>2, <1>3, <1>4, <1>5, QuietStep

LEMMA WaitForTimerReturnsStep ==
  ASSUME IInv, NEW t \in Timers, WaitForTimerReturns(t)
  PROVE  IInv'
<1>0. SchedulerTypeOK /\ ListsOK /\ ThreadsOK /\ EngineTimersOK
  BY DEF IInv
<1>1. /\ UNCHANGED <<now, exec, fireAt, providerScheduledTimerUnixTs, engineTimers, scheduler,
                     thresholdMet>>
      /\ waiting' = waiting \ {t}
      /\ status' = [status EXCEPT ![t] = IF Fired(t) THEN "Fired" ELSE @]
      /\ \/ pendingScheduling' = RemoveFirst(pendingScheduling, t)
         \/ pendingScheduling' = pendingScheduling
  BY DEF WaitForTimerReturns, runVars
<1>2. /\ pendingScheduling' \in Seq(Timers) /\ Sorted(fireAt, pendingScheduling')
      /\ Range(pendingScheduling') \subseteq Range(pendingScheduling)
      /\ \A u \in Range(pendingScheduling) : u # t => u \in Range(pendingScheduling')
  <2>1. CASE pendingScheduling' = pendingScheduling
    BY <1>0, <2>1 DEF SchedulerTypeOK, ListsOK
  <2>2. CASE pendingScheduling' = RemoveFirst(pendingScheduling, t)
    <3>1. pendingScheduling \in Seq(Timers) /\ Sorted(fireAt, pendingScheduling)
      BY <1>0 DEF SchedulerTypeOK, ListsOK
    <3>2. /\ pendingScheduling' \in Seq(Timers) /\ Sorted(fireAt, pendingScheduling')
          /\ Range(pendingScheduling') = Range(pendingScheduling) \ {t}
      BY <2>2, <3>1, RemoveFirstSorted
    <3> QED BY <3>2
  <2> QED BY <1>1, <2>1, <2>2
<1>3. SchedulerTypeOK'
  BY <1>0, <1>1, <1>2 DEF SchedulerTypeOK
<1>4. ListsOK'
  <2>1. fireAt' = fireAt /\ exec' = exec
        /\ providerScheduledTimerUnixTs' = providerScheduledTimerUnixTs
    BY <1>1
  <2>2. \A u \in Range(pendingScheduling') :
          exec[u[1]] \in {"waiting", "done", "canceled", "parked"}
    BY <1>0, <1>2 DEF ListsOK
  <2> QED BY <1>0, <1>2, <2>1, <2>2, Zenon DEF ListsOK
<1>5. ThreadsOK'
  <2> SUFFICES ASSUME NEW u \in waiting, u # t
               PROVE  /\ exec[u[1]] \in {"waiting", "done", "canceled"}
                      /\ status'[u] = "Pending" /\ fireAt[u] > now =>
                           u \in Range(pendingScheduling')
    BY <1>1 DEF ThreadsOK
  <2>1. status'[u] = status[u]
    BY <1>0, <1>1 DEF SchedulerTypeOK
  <2> QED BY <1>0, <1>2, <2>1 DEF ThreadsOK
<1>6. EngineTimersOK'
  BY <1>0, <1>1 DEF EngineTimersOK
<1> QED BY <1>3, <1>4, <1>5, <1>6 DEF IInv

LEMMA SchedulerAwaitStep ==
  ASSUME IInv, SchedulerAwait
  PROVE  IInv'
<1>0. SchedulerTypeOK /\ ListsOK /\ ThreadsOK /\ EngineTimersOK
  BY DEF IInv
<1>1. PICK pending, scheduled : /\ pending = PrunePending(pendingScheduling)
                                /\ scheduled = PruneProvider(providerScheduledTimerUnixTs)
  OBVIOUS
<1>2. /\ UNCHANGED <<now, exec, fireAt, status, waiting, scheduler, thresholdMet>>
      /\ pendingScheduling' = pending
      /\ \/ /\ ShouldSchedule(pending, scheduled)
            /\ providerScheduledTimerUnixTs' = Append(scheduled, fireAt[Last(pending)])
            /\ engineTimers' = engineTimers \cup {fireAt[Last(pending)]}
         \/ providerScheduledTimerUnixTs' = scheduled /\ engineTimers' = engineTimers
  BY <1>1, Zenon DEF SchedulerAwait, runVars
<1>3. /\ pending \in Seq(Timers) /\ Sorted(fireAt, pending)
      /\ Range(pending) \subseteq Range(pendingScheduling)
      /\ \A t \in Range(pendingScheduling) :
           fireAt[t] > now /\ status[t] = "Pending" => t \in Range(pending)
      /\ pending # << >> => Last(pending) \in Timers /\ fireAt[Last(pending)] > now
  BY <1>0, <1>1, PrunedPending DEF ListsOK
<1>4. /\ scheduled \in Seq(Nat) /\ Descending(scheduled)
      /\ Range(scheduled) = {ts \in Range(providerScheduledTimerUnixTs) : ts > now}
  BY <1>0, <1>1, PrunedProvider DEF ListsOK
<1>5. /\ providerScheduledTimerUnixTs' \in Seq(Nat) /\ Descending(providerScheduledTimerUnixTs')
      /\ engineTimers' = {ts \in Range(providerScheduledTimerUnixTs') : ts > now}
  <2>1. engineTimers = Range(scheduled) /\ \A ts \in Range(scheduled) : ts > now
    BY <1>0, <1>4 DEF EngineTimersOK
  <2>2. CASE providerScheduledTimerUnixTs' = scheduled /\ engineTimers' = engineTimers
    BY <1>4, <2>1, <2>2
  <2>3. CASE /\ ShouldSchedule(pending, scheduled)
             /\ providerScheduledTimerUnixTs' = Append(scheduled, fireAt[Last(pending)])
             /\ engineTimers' = engineTimers \cup {fireAt[Last(pending)]}
    <3>1. PICK x : x = fireAt[Last(pending)]
      OBVIOUS
    <3>2. x \in Nat /\ x > now /\ (scheduled # << >> => x < Last(scheduled))
      BY <1>0, <1>3, <2>3, <3>1 DEF ShouldSchedule, SchedulerTypeOK
    <3>3. /\ providerScheduledTimerUnixTs' = Append(scheduled, x)
          /\ engineTimers' = Range(scheduled) \cup {x}
      BY <2>1, <2>3, <3>1
    <3>4. /\ Append(scheduled, x) \in Seq(Nat) /\ Descending(Append(scheduled, x))
          /\ Range(Append(scheduled, x)) = Range(scheduled) \cup {x}
      BY <1>4, <3>2, AppendDescending
    <3> QED BY <2>1, <3>2, <3>3, <3>4, Zenon
  <2> QED BY <1>2, <2>2, <2>3
<1>6. SchedulerTypeOK'
  BY <1>0, <1>2, <1>3, <1>5 DEF SchedulerTypeOK
<1>7. ListsOK'
  <2>1. fireAt' = fireAt /\ exec' = exec /\ pendingScheduling' = pending
    BY <1>2
  <2>2. \A u \in Range(pending) : exec[u[1]] \in {"waiting", "done", "canceled", "parked"}
    BY <1>0, <1>3 DEF ListsOK
  <2> QED BY <1>3, <1>5, <2>1, <2>2, Zenon DEF ListsOK
<1>8. ThreadsOK'
  <2> SUFFICES ASSUME NEW u \in waiting
               PROVE  /\ exec[u[1]] \in {"waiting", "done", "canceled"}
                      /\ status[u] = "Pending" /\ fireAt[u] > now => u \in Range(pending)
    BY <1>2 DEF ThreadsOK
  <2> QED BY <1>0, <1>3 DEF ThreadsOK
<1>9. EngineTimersOK'
  <2>1. now' = now /\ scheduler' = scheduler /\ thresholdMet' = thresholdMet
    BY <1>2
  <2> QED BY <1>0, <1>5, <2>1 DEF EngineTimersOK
<1> QED BY <1>6, <1>7, <1>8, <1>9 DEF IInv

\* StartWaiting and ResumeWaiting: the scheduler and the threads know no timer of the
\* execution yet, so its firing times may be set and its timers are added once.
LEMMA AddTimersStep ==
  ASSUME IInv, NEW e \in Executions, exec[e] \in {"new", "resumed"},
         NEW fire \in [Timers -> Nat], \A t \in Timers : t[1] # e => fire[t] = fireAt[t],
         AddTimers(e, fire)
  PROVE  IInv'
<1>0. SchedulerTypeOK /\ ListsOK /\ ThreadsOK /\ EngineTimersOK
  BY DEF IInv
<1>1. PICK new : new = {t \in TimersOf(e) : status[t] = "none"}
  OBVIOUS
<1>2. /\ exec' = [exec EXCEPT ![e] = "waiting"] /\ fireAt' = fire
      /\ pendingScheduling' = AddNewTimers(fire, e, new, pendingScheduling)
      /\ status' = [t \in Timers |-> IF t \in new THEN "Pending" ELSE status[t]]
      /\ waiting' = waiting \cup new
      /\ UNCHANGED <<now, providerScheduledTimerUnixTs, engineTimers, scheduler, thresholdMet>>
  BY <1>1, Zenon DEF AddTimers, runVars
<1>3. /\ new \in SUBSET TimersOf(e) /\ new \subseteq Timers
      /\ \A t \in new : t[1] = e
  BY <1>1, TimersByExecution
<1>4. \A t \in Range(pendingScheduling) : t \in Timers /\ t[1] # e
  <2>1. Range(pendingScheduling) \subseteq Timers
    BY <1>0, RangeByPosition DEF SchedulerTypeOK
  <2> QED BY <1>0, <2>1 DEF ListsOK
<1>5. \A t \in waiting : t \in Timers /\ t[1] # e
  BY <1>0 DEF ThreadsOK, SchedulerTypeOK
<1>6. /\ pendingScheduling' \in Seq(Timers) /\ Sorted(fire, pendingScheduling')
      /\ Range(pendingScheduling') = Range(pendingScheduling) \cup new
  <2>1. pendingScheduling \in Seq(Timers) /\ Sorted(fireAt, pendingScheduling)
    BY <1>0 DEF SchedulerTypeOK, ListsOK
  <2>2. \A t \in Range(pendingScheduling) : fire[t] = fireAt[t]
    BY <1>4
  <2>3. Sorted(fire, pendingScheduling)
    BY <2>1, <2>2, SortedFrame
  <2>4. Range(pendingScheduling) \cap TimersOf(e) = {}
    BY <1>4, TimersByExecution
  <2>5. /\ AddNewTimers(fire, e, new, pendingScheduling) \in Seq(Timers)
        /\ Sorted(fire, AddNewTimers(fire, e, new, pendingScheduling))
        /\ Range(AddNewTimers(fire, e, new, pendingScheduling)) =
             Range(pendingScheduling) \cup new
    BY <1>3, <2>1, <2>3, <2>4, AddNewTimersSorted
  <2> QED BY <1>2, <2>5
<1>7. SchedulerTypeOK'
  BY <1>0, <1>2, <1>3, <1>6 DEF SchedulerTypeOK
<1>8. exec'[e] = "waiting" /\ \A f \in Executions : f # e => exec'[f] = exec[f]
  BY <1>0, <1>2 DEF SchedulerTypeOK
<1>9. ListsOK'
  <2>1. \A t \in Range(pendingScheduling') :
          exec'[t[1]] \in {"waiting", "done", "canceled", "parked"}
    BY <1>0, <1>3, <1>4, <1>6, <1>8, TimersByExecution DEF ListsOK
  <2>2. providerScheduledTimerUnixTs' = providerScheduledTimerUnixTs /\ fireAt' = fire
    BY <1>2
  <2> QED BY <1>0, <1>6, <2>1, <2>2, Zenon DEF ListsOK
<1>10. ThreadsOK'
  <2> SUFFICES ASSUME NEW t \in waiting'
               PROVE  /\ exec'[t[1]] \in {"waiting", "done", "canceled"}
                      /\ status'[t] = "Pending" /\ fire[t] > now =>
                           t \in Range(pendingScheduling')
    BY <1>2 DEF ThreadsOK
  <2>1. CASE t \in new
    BY <1>3, <1>6, <1>8, <2>1
  <2>2. CASE t \in waiting
    <3>1. t \in Timers /\ t[1] # e /\ t[1] \in Executions /\ t \notin new
      BY <1>3, <1>5, <2>2, TimersByExecution
    <3>2. fire[t] = fireAt[t] /\ status'[t] = status[t] /\ exec'[t[1]] = exec[t[1]]
      BY <1>2, <1>8, <3>1
    <3> QED BY <1>0, <1>6, <2>2, <3>2 DEF ThreadsOK
  <2> QED BY <1>2, <2>1, <2>2
<1>11. EngineTimersOK'
  BY <1>0, <1>2 DEF EngineTimersOK
<1> QED BY <1>7, <1>9, <1>10, <1>11 DEF IInv

LEMMA StartStep ==
  ASSUME IInv, NEW e \in Executions,
         \/ \E at \in [1..TimerCommands[e] -> Times] : StartWaiting(e, at)
         \/ ResumeWaiting(e)
  PROVE  IInv'
<1>0. SchedulerTypeOK
  BY DEF IInv
<1>1. CASE ResumeWaiting(e)
  BY <1>0, <1>1, AddTimersStep DEF ResumeWaiting, SchedulerTypeOK
<1>2. ASSUME NEW at \in [1..TimerCommands[e] -> Times], StartWaiting(e, at)
      PROVE  IInv'
  <2>1. PICK fire : fire = [t \in Timers |-> IF t[1] = e THEN at[t[2]] ELSE fireAt[t]]
    OBVIOUS
  <2>2. \A t \in Timers : t[1] = e => at[t[2]] \in Nat
    BY BoundsAssumption DEF Timers, Times
  <2>3. fire \in [Timers -> Nat] /\ \A t \in Timers : t[1] # e => fire[t] = fireAt[t]
    BY <1>0, <2>1, <2>2 DEF SchedulerTypeOK
  <2>4. exec[e] = "new" /\ AddTimers(e, fire)
    BY <1>2, <2>1, Zenon DEF StartWaiting
  <2> QED BY <2>3, <2>4, AddTimersStep
<1> QED BY <1>1, <1>2

LEMMA RemovePendingTimersStep ==
  ASSUME IInv, NEW e \in Executions, RemovePendingTimersOfState(e)
  PROVE  IInv'
<1>0. SchedulerTypeOK /\ ListsOK /\ ThreadsOK /\ EngineTimersOK
  BY DEF IInv
<1>1. /\ ThreadsDrained(e) /\ exec' = [exec EXCEPT ![e] = "ended"]
      /\ pendingScheduling' = RemoveTimers(e, pendingScheduling)
      /\ fireAt' = [t \in Timers |-> IF t[1] = e THEN 0 ELSE fireAt[t]]
      /\ status' = [t \in Timers |-> IF t[1] = e THEN "none" ELSE status[t]]
      /\ UNCHANGED <<now, waiting, providerScheduledTimerUnixTs, engineTimers, scheduler,
                     thresholdMet>>
  BY DEF RemovePendingTimersOfState, runVars
<1>2. /\ pendingScheduling' \in Seq(Timers) /\ Sorted(fireAt, pendingScheduling')
      /\ Range(pendingScheduling') = Range(pendingScheduling) \ TimersOf(e)
  <2>1. pendingScheduling \in Seq(Timers) /\ Sorted(fireAt, pendingScheduling)
    BY <1>0 DEF SchedulerTypeOK, ListsOK
  <2> QED BY <1>1, <2>1, RemoveTimersSorted
<1>3. \A t \in Range(pendingScheduling') :
        t \in Range(pendingScheduling) /\ t \in Timers /\ t[1] # e /\ t[1] \in Executions
  <2>1. Range(pendingScheduling') \subseteq Timers
    BY <1>2, RangeByPosition
  <2> QED BY <1>2, <2>1, TimersByExecution
<1>4. \A t \in waiting : t \in Timers /\ t[1] # e /\ t[1] \in Executions
  BY <1>0, <1>1, TimersByExecution DEF ThreadsDrained, SchedulerTypeOK
<1>5. \A t \in Timers : t[1] # e => fireAt'[t] = fireAt[t] /\ status'[t] = status[t]
  BY <1>1
<1>6. \A f \in Executions : f # e => exec'[f] = exec[f]
  BY <1>0, <1>1 DEF SchedulerTypeOK
<1>7. SchedulerTypeOK'
  BY <1>0, <1>1, <1>2 DEF SchedulerTypeOK
<1>8. ListsOK'
  <2>1. Sorted(fireAt', pendingScheduling')
    <3>1. \A t \in Range(pendingScheduling') : fireAt'[t] = fireAt[t]
      BY <1>3, <1>5
    <3> QED BY <1>2, <3>1, SortedFrame
  <2>2. \A t \in Range(pendingScheduling') :
          exec'[t[1]] \in {"waiting", "done", "canceled", "parked"}
    BY <1>0, <1>3, <1>6 DEF ListsOK
  <2>3. providerScheduledTimerUnixTs' = providerScheduledTimerUnixTs
    BY <1>1
  <2> QED BY <1>0, <2>1, <2>2, <2>3, Zenon DEF ListsOK
<1>9. ThreadsOK'
  <2> SUFFICES ASSUME NEW t \in waiting
               PROVE  /\ exec'[t[1]] \in {"waiting", "done", "canceled"}
                      /\ status'[t] = "Pending" /\ fireAt'[t] > now =>
                           t \in Range(pendingScheduling')
    BY <1>1 DEF ThreadsOK
  <2>1. t \notin TimersOf(e)
    BY <1>4, TimersByExecution
  <2>2. fireAt'[t] = fireAt[t] /\ status'[t] = status[t] /\ exec'[t[1]] = exec[t[1]]
    BY <1>4, <1>5, <1>6
  <2> QED BY <1>0, <1>2, <2>1, <2>2 DEF ThreadsOK
<1>10. EngineTimersOK'
  BY <1>0, <1>1 DEF EngineTimersOK
<1> QED BY <1>7, <1>8, <1>9, <1>10 DEF IInv

LEMMA WorkflowTaskStep ==
  ASSUME IInv, NEW at \in Times, WorkflowTask(at)
  PROVE  IInv'
<1>0. SchedulerTypeOK /\ ListsOK /\ ThreadsOK /\ EngineTimersOK
  BY DEF IInv
<1>1. /\ at > now /\ now' = at /\ engineTimers' = {ts \in engineTimers : ts > at}
      /\ UNCHANGED <<exec, fireAt, status, waiting, pendingScheduling,
                     providerScheduledTimerUnixTs, scheduler, thresholdMet>>
  BY DEF WorkflowTask, runVars
<1>2. at \in Nat /\ now \in Nat
  BY <1>0, BoundsAssumption DEF SchedulerTypeOK, Times
<1>3. SchedulerTypeOK'
  BY <1>0, <1>1, <1>2 DEF SchedulerTypeOK
<1>4. ListsOK'
  <2>1. fireAt' = fireAt /\ exec' = exec /\ pendingScheduling' = pendingScheduling
        /\ providerScheduledTimerUnixTs' = providerScheduledTimerUnixTs
    BY <1>1
  <2> QED BY <1>0, <2>1, Zenon DEF ListsOK
<1>5. ThreadsOK'
  <2>1. \A t \in waiting : fireAt[t] > at => fireAt[t] > now
    BY <1>0, <1>1, <1>2 DEF SchedulerTypeOK
  <2>2. exec' = exec /\ fireAt' = fireAt /\ status' = status /\ waiting' = waiting
        /\ pendingScheduling' = pendingScheduling /\ now' = at
    BY <1>1
  <2> QED BY <1>0, <2>1, <2>2, Zenon DEF ThreadsOK
<1>6. EngineTimersOK'
  <2>1. \A ts \in Range(providerScheduledTimerUnixTs) : ts > at => ts > now
    <3>1. Range(providerScheduledTimerUnixTs) \subseteq Nat
      BY <1>0, RangeByPosition DEF SchedulerTypeOK
    <3> QED BY <1>1, <1>2, <3>1
  <2> QED BY <1>0, <1>1, <2>1 DEF EngineTimersOK
<1> QED BY <1>3, <1>4, <1>5, <1>6 DEF IInv

LEMMA EmptyLists ==
  /\ Range(<< >>) = {} /\ Descending(<< >>) /\ \A fire : Sorted(fire, << >>)
<1>1. DOMAIN << >> = {}
  OBVIOUS
<1>2. Range(<< >>) = {}
  BY <1>1, Zenon DEF Range
<1> QED BY <1>2 DEF Descending, Sorted

LEMMA ContinueAsNewStep ==
  ASSUME IInv, ContinueAsNew
  PROVE  IInv'
<1>0. SchedulerTypeOK /\ ListsOK /\ ThreadsOK /\ EngineTimersOK
  BY DEF IInv
<1>1. /\ \A e \in Executions : exec[e] \in {"new", "parked", "ended"}
      /\ exec' = [e \in Executions |-> IF exec[e] = "parked" THEN "resumed" ELSE exec[e]]
      /\ status' = [t \in Timers |-> IF status[t] = "Pending" THEN "none" ELSE status[t]]
      /\ pendingScheduling' = << >> /\ providerScheduledTimerUnixTs' = << >>
      /\ engineTimers' = {} /\ scheduler' = TRUE /\ UNCHANGED <<now, fireAt, waiting>>
  BY DEF ContinueAsNew
<1>2. waiting = {}
  BY <1>0, <1>1, TimersByExecution DEF ThreadsOK, SchedulerTypeOK
<1>3. SchedulerTypeOK'
  BY <1>0, <1>1 DEF SchedulerTypeOK
<1>4. ListsOK'
  BY <1>1, EmptyLists DEF ListsOK
<1>5. ThreadsOK'
  BY <1>1, <1>2 DEF ThreadsOK
<1>6. EngineTimersOK'
  BY <1>1, EmptyLists DEF EngineTimersOK
<1> QED BY <1>3, <1>4, <1>5, <1>6 DEF IInv

-----------------------------------------------------------------------------
(* The theorems *)

LEMMA InitIInv == Init => IInv
<1> SUFFICES ASSUME Init
             PROVE  IInv
  OBVIOUS
<1>1. SchedulerTypeOK
  BY DEF Init, SchedulerTypeOK
<1>2. ListsOK /\ ThreadsOK /\ EngineTimersOK
  BY EmptyLists DEF Init, ListsOK, ThreadsOK, EngineTimersOK
<1> QED BY <1>1, <1>2 DEF IInv

LEMMA NextIInv == IInv /\ [Next]_vars => IInv'
<1> SUFFICES ASSUME IInv, [Next]_vars
             PROVE  IInv'
  OBVIOUS
<1>1. CASE SchedulerAwait
  BY <1>1, SchedulerAwaitStep
<1>2. CASE \E e \in Executions :
             \/ \E at \in [1..TimerCommands[e] -> Times] : StartWaiting(e, at)
             \/ ResumeWaiting(e)
  BY <1>2, StartStep
<1>3. CASE \E e \in Executions : RemovePendingTimersOfState(e)
  BY <1>3, RemovePendingTimersStep
<1>4. CASE \E t \in Timers : SkipTimer(t) \/ WaitForTimerReturns(t)
  BY <1>4, SkipTimerStep, WaitForTimerReturnsStep
<1>5. CASE \E at \in Times : WorkflowTask(at)
  BY <1>5, WorkflowTaskStep
<1>6. CASE ContinueAsNew
  BY <1>6, ContinueAsNewStep
<1>7. CASE \/ \E e \in Executions :
                \/ CommandReqDone(e) \/ OtherCommandCompletes(e) \/ CommandReqCanceled(e)
                \/ ReturnWaitingCommands(e)
           \/ SchedulerExit \/ MeetThreshold \/ UNCHANGED vars
  BY <1>7, ControlStep
<1> QED BY <1>1, <1>2, <1>3, <1>4, <1>5, <1>6, <1>7 DEF Next, StateThread

LEMMA InvariantHolds == Spec => []IInv
BY InitIInv, NextIInv, PTL DEF Spec

\* The lists of addTimer, removeTimer, pruneToNextTimer and the scheduler thread stay in
\* descending order and without duplicates, so that the last element is the next to
\* fire, whatever timers executions add, skip and cancel.
THEOREM ListsStaySorted == Spec => []SortedLists
<1>1. IInv => SortedLists
  <2> SUFFICES ASSUME IInv
               PROVE  SortedLists
    OBVIOUS
  <2>1. /\ DOMAIN pendingScheduling = 1..Len(pendingScheduling)
        /\ DOMAIN providerScheduledTimerUnixTs = 1..Len(providerScheduledTimerUnixTs)
    BY RangeByPosition DEF IInv, SchedulerTypeOK
  <2> QED BY <2>1, Zenon DEF IInv, ListsOK, Sorted, Descending, SortedLists
<1> QED BY <1>1, InvariantHolds, PTL

\* The times in providerScheduledTimerUnixTs that are to come are those of the timers the
\* engine holds: pruning forgets a time only when its timer has fired, and NewTimer is
\* remembered once.
THEOREM ScheduledTimesAreExact == Spec => []ScheduledListExact
<1>1. IInv => ScheduledListExact
  <2> SUFFICES ASSUME IInv
               PROVE  ScheduledListExact
    OBVIOUS
  <2>1. engineTimers = {ts \in Range(providerScheduledTimerUnixTs) : ts > now}
    BY DEF IInv, EngineTimersOK
  <2>2. \A ts \in engineTimers : \E i \in DOMAIN providerScheduledTimerUnixTs :
          ts = providerScheduledTimerUnixTs[i] /\ providerScheduledTimerUnixTs[i] > now
    BY <2>1, Zenon DEF Range
  <2>3. \A i \in DOMAIN providerScheduledTimerUnixTs :
          providerScheduledTimerUnixTs[i] > now => providerScheduledTimerUnixTs[i] \in engineTimers
    BY <2>1, Zenon DEF Range
  <2> QED BY <2>2, <2>3 DEF ScheduledListExact
<1> QED BY <1>1, InvariantHolds, PTL

\* When the workflow task ends, an engine timer is set that fires no later than any timer
\* that a thread waits for: one timer at a time suffices, also after skips, cancellations
\* and late tasks.
THEOREM WakeUpsAreScheduled == Spec => []WakeUpScheduled
<1>1. IInv => WakeUpScheduled
  <2> SUFFICES ASSUME IInv, Quiescent, NEW t \in waiting
               PROVE  \E ts \in engineTimers : ts <= fireAt[t]
    BY DEF WakeUpScheduled
  <2>0. SchedulerTypeOK /\ ListsOK /\ ThreadsOK /\ EngineTimersOK
    BY DEF IInv
  <2>1. PICK pending, scheduled : /\ pending = PrunePending(pendingScheduling)
                                  /\ scheduled = PruneProvider(providerScheduledTimerUnixTs)
    OBVIOUS
  <2>2. t \in Timers /\ t[1] \in Executions /\ fireAt[t] \in Nat /\ now \in Nat
    BY <2>0, TimersByExecution DEF SchedulerTypeOK
  <2>3. exec[t[1]] = "waiting" /\ ~thresholdMet
    BY <2>0, <2>2 DEF Quiescent, ThreadsOK
  <2>4. ~ShouldSchedule(pending, scheduled)
    BY <2>0, <2>1, <2>3 DEF Quiescent, EngineTimersOK
  <2>5. status[t] = "Pending" /\ fireAt[t] > now
    BY <2>2 DEF Quiescent, Fired
  <2>6. t \in Range(pendingScheduling)
    BY <2>0, <2>5 DEF ThreadsOK
  <2>7. /\ t \in Range(pending) /\ pending \in Seq(Timers)
        /\ pending # << >> => /\ Last(pending) \in Timers
                              /\ \A u \in Range(pending) : fireAt[Last(pending)] <= fireAt[u]
    BY <2>0, <2>1, <2>5, <2>6, PrunedPending DEF ListsOK
  <2>8. pending # << >>
    BY <2>7, EmptyLists
  <2>9. /\ scheduled \in Seq(Nat) /\ (scheduled # << >> => Last(scheduled) \in Range(scheduled))
        /\ Range(scheduled) = {ts \in Range(providerScheduledTimerUnixTs) : ts > now}
    BY <2>0, <2>1, PrunedProvider DEF ListsOK
  <2>10. scheduled # << >> /\ ~(fireAt[Last(pending)] < Last(scheduled))
    BY <2>4, <2>8, Zenon DEF ShouldSchedule
  <2>11. Last(scheduled) \in engineTimers
    BY <2>0, <2>9, <2>10, Zenon DEF EngineTimersOK
  <2>12. Last(scheduled) \in Nat
    BY <2>9, <2>10, RangeByPosition
  <2>13. fireAt[Last(pending)] \in Nat /\ fireAt[Last(pending)] <= fireAt[t]
    BY <2>0, <2>7, <2>8 DEF SchedulerTypeOK
  <2>14. Last(scheduled) <= fireAt[t]
    BY <2>2, <2>10, <2>12, <2>13
  <2> QED BY <2>11, <2>14
<1> QED BY <1>1, InvariantHolds, PTL
=============================================================================
