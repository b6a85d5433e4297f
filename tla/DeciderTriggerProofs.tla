------------------------ MODULE DeciderTriggerProofs ------------------------
(***************************************************************************)
(* The decider trigger for any commands, combinations and ids: the counting*)
(* that the code does decides whether the ids of a combination can be      *)
(* assigned to different completed commands; and what this means for the   *)
(* executions of a workflow.                                               *)
(***************************************************************************)
EXTENDS InterpreterProofs, NumberLemmas, Functions

\* The completed commands with an id, and those among the first n.
Named(r, fin, cid) == {i \in DOMAIN r.cmds : i \in fin /\ r.cmds[i].id = cid}
NamedUpTo(r, fin, cid, n) == {i \in 1..n : i \in fin /\ r.cmds[i].id = cid}

\* What a combination still needs of an id after the first n commands.
Needed(comb, r, fin, cid, n) ==
  IF Occurrences(cid, comb) > Cardinality(NamedUpTo(r, fin, cid, n))
  THEN Occurrences(cid, comb) - Cardinality(NamedUpTo(r, fin, cid, n)) ELSE 0

LEMMA NamedNext ==
  ASSUME NEW r, NEW fin, NEW cid, NEW n \in Nat
  PROVE  /\ Cardinality(NamedUpTo(r, fin, cid, n)) \in Nat
         /\ Cardinality(NamedUpTo(r, fin, cid, 0)) = 0
         /\ Cardinality(NamedUpTo(r, fin, cid, n + 1)) =
              IF n + 1 \in fin /\ r.cmds[n + 1].id = cid
              THEN Cardinality(NamedUpTo(r, fin, cid, n)) + 1
              ELSE Cardinality(NamedUpTo(r, fin, cid, n))
<1>1. IsFiniteSet(NamedUpTo(r, fin, cid, n)) /\ Cardinality(NamedUpTo(r, fin, cid, n)) \in Nat
  <2>1. IsFiniteSet(1..n)
    BY FS_Interval
  <2>2. NamedUpTo(r, fin, cid, n) \in SUBSET (1..n)
    BY DEF NamedUpTo
  <2>3. IsFiniteSet(NamedUpTo(r, fin, cid, n))
    BY <2>1, <2>2, FS_Subset
  <2> QED BY <2>3, FS_CardinalityType
<1>2. Cardinality(NamedUpTo(r, fin, cid, 0)) = 0
  <2>1. NamedUpTo(r, fin, cid, 0) = {}
    BY DEF NamedUpTo
  <2> QED BY <2>1, FS_EmptySet
<1>3. CASE n + 1 \in fin /\ r.cmds[n + 1].id = cid
  <2>1. /\ NamedUpTo(r, fin, cid, n + 1) = NamedUpTo(r, fin, cid, n) \cup {n + 1}
        /\ n + 1 \notin NamedUpTo(r, fin, cid, n)
    BY <1>3 DEF NamedUpTo
  <2>2. Cardinality(NamedUpTo(r, fin, cid, n) \cup {n + 1})
          = Cardinality(NamedUpTo(r, fin, cid, n)) + 1
    BY <1>1, <2>1, FS_AddElement
  <2> QED BY <1>1, <1>2, <1>3, <2>1, <2>2
<1>4. CASE ~(n + 1 \in fin /\ r.cmds[n + 1].id = cid)
  <2>1. NamedUpTo(r, fin, cid, n + 1) = NamedUpTo(r, fin, cid, n)
    BY <1>4 DEF NamedUpTo
  <2> QED BY <1>1, <1>2, <1>4, <2>1
<1> QED BY <1>3, <1>4

LEMMA OccurrencesType ==
  ASSUME NEW T, NEW ids \in Seq(T), NEW cid
  PROVE  IsFiniteSet({i \in DOMAIN ids : ids[i] = cid}) /\ Occurrences(cid, ids) \in Nat
<1>1. DOMAIN ids = 1..Len(ids) /\ Len(ids) \in Nat
  OBVIOUS
<1>2. IsFiniteSet(1..Len(ids))
  BY <1>1, FS_Interval
<1>3. {i \in DOMAIN ids : ids[i] = cid} \in SUBSET (1..Len(ids))
  BY <1>1
<1>4. IsFiniteSet({i \in DOMAIN ids : ids[i] = cid})
  BY <1>2, <1>3, FS_Subset
<1> QED BY <1>4, FS_CardinalityType DEF Occurrences

\* The counters as the loop computes them.
AcceptedRecursion(f, comb, r, fin) ==
  LET combIds == {comb[i] : i \in DOMAIN comb}
  IN  f = [n \in 0..Len(r.cmds) |->
             IF n = 0
             THEN [cid \in combIds |-> Occurrences(cid, comb)]
             ELSE [cid \in combIds |->
                     IF n \in fin /\ cid = r.cmds[n].id /\ f[n - 1][cid] > 0
                     THEN f[n - 1][cid] - 1
                     ELSE f[n - 1][cid]]]

LEMMA NeededNext ==
  ASSUME NEW T, NEW comb \in Seq(T), NEW r, NEW fin, NEW cid, NEW n \in Nat
  PROVE  /\ Needed(comb, r, fin, cid, 0) = Occurrences(cid, comb)
         /\ Needed(comb, r, fin, cid, n) \in Nat
         /\ Needed(comb, r, fin, cid, n + 1) =
              IF n + 1 \in fin /\ cid = r.cmds[n + 1].id /\ Needed(comb, r, fin, cid, n) > 0
              THEN Needed(comb, r, fin, cid, n) - 1
              ELSE Needed(comb, r, fin, cid, n)
<1> DEFINE o == Occurrences(cid, comb)
           c(k) == Cardinality(NamedUpTo(r, fin, cid, k))
<1>1. o \in Nat
  BY OccurrencesType
<1>2. /\ c(n) \in Nat /\ c(0) = 0
      /\ c(n + 1) = IF n + 1 \in fin /\ cid = r.cmds[n + 1].id THEN c(n) + 1 ELSE c(n)
  BY NamedNext
<1>3. \A k : Needed(comb, r, fin, cid, k) = IF o > c(k) THEN o - c(k) ELSE 0
  BY DEF Needed
<1> HIDE DEF o, c
<1>4. Needed(comb, r, fin, cid, 0) = o
  BY <1>1, <1>2, <1>3
<1>5. Needed(comb, r, fin, cid, n) \in Nat
  BY <1>1, <1>2, <1>3
<1>6. CASE n + 1 \in fin /\ cid = r.cmds[n + 1].id
  <2>1. c(n + 1) = c(n) + 1
    BY <1>2, <1>6
  <2>2. Needed(comb, r, fin, cid, n + 1) =
          IF Needed(comb, r, fin, cid, n) > 0 THEN Needed(comb, r, fin, cid, n) - 1
          ELSE Needed(comb, r, fin, cid, n)
    BY <1>1, <1>2, <1>3, <2>1
  <2> QED BY <1>4, <1>5, <1>6, <2>2 DEF o
<1>7. CASE ~(n + 1 \in fin /\ cid = r.cmds[n + 1].id)
  <2>1. c(n + 1) = c(n)
    BY <1>2, <1>7
  <2>2. Needed(comb, r, fin, cid, n + 1) = Needed(comb, r, fin, cid, n)
    BY <1>3, <2>1
  <2> QED BY <1>4, <1>5, <1>7, <2>2 DEF o
<1> QED BY <1>6, <1>7

\* The recursion has a solution, so that the definition denotes one.
LEMMA AcceptedExists ==
  ASSUME NEW T, NEW comb \in Seq(T), NEW r, NEW fin, Len(r.cmds) \in Nat
  PROVE  \E f : AcceptedRecursion(f, comb, r, fin)
<1> DEFINE combIds == {comb[i] : i \in DOMAIN comb}
           f == [n \in 0..Len(r.cmds) |-> [cid \in combIds |-> Needed(comb, r, fin, cid, n)]]
           Body(g, n) == IF n = 0
                         THEN [cid \in combIds |-> Occurrences(cid, comb)]
                         ELSE [cid \in combIds |->
                                 IF n \in fin /\ cid = r.cmds[n].id /\ g[n - 1][cid] > 0
                                 THEN g[n - 1][cid] - 1
                                 ELSE g[n - 1][cid]]
<1>1. \A n \in 0..Len(r.cmds) : \A cid \in combIds : f[n][cid] = Needed(comb, r, fin, cid, n)
  OBVIOUS
<1>2. f[0] = [cid \in combIds |-> Occurrences(cid, comb)]
  <2>1. 0 \in Nat /\ 0 \in 0..Len(r.cmds)
    OBVIOUS
  <2>2. \A cid \in combIds : Needed(comb, r, fin, cid, 0) = Occurrences(cid, comb)
    BY <2>1, NeededNext
  <2> QED BY <2>1, <2>2
<1>3. ASSUME NEW n \in 0..Len(r.cmds), n # 0
      PROVE  f[n] = [cid \in combIds |->
                       IF n \in fin /\ cid = r.cmds[n].id /\ f[n - 1][cid] > 0
                       THEN f[n - 1][cid] - 1
                       ELSE f[n - 1][cid]]
  <2>1. n - 1 \in Nat /\ n - 1 \in 0..Len(r.cmds) /\ (n - 1) + 1 = n
    BY <1>3
  <2>2. \A cid \in combIds : Needed(comb, r, fin, cid, n) =
          IF n \in fin /\ cid = r.cmds[n].id /\ f[n - 1][cid] > 0
          THEN f[n - 1][cid] - 1 ELSE f[n - 1][cid]
    <3> TAKE cid \in combIds
    <3>1. f[n - 1][cid] = Needed(comb, r, fin, cid, n - 1)
      BY <1>1, <2>1
    <3>2. Needed(comb, r, fin, cid, (n - 1) + 1) =
            IF (n - 1) + 1 \in fin /\ cid = r.cmds[(n - 1) + 1].id
               /\ Needed(comb, r, fin, cid, n - 1) > 0
            THEN Needed(comb, r, fin, cid, n - 1) - 1
            ELSE Needed(comb, r, fin, cid, n - 1)
      BY <2>1, NeededNext
    <3> HIDE DEF f
    <3> QED BY <2>1, <3>1, <3>2
  <2>3. f[n] = [cid \in combIds |-> Needed(comb, r, fin, cid, n)]
    OBVIOUS
  <2> HIDE DEF f
  <2> QED BY <2>2, <2>3
<1>4. \A n \in 0..Len(r.cmds) : f[n] = Body(f, n)
  <2> HIDE DEF f
  <2> QED BY <1>2, <1>3
<1>5. f = [n \in 0..Len(r.cmds) |-> f[n]]
  OBVIOUS
<1> HIDE DEF f
<1>6. f = [n \in 0..Len(r.cmds) |-> Body(f, n)]
  <2> HIDE DEF Body
  <2>1. [n \in 0..Len(r.cmds) |-> f[n]] = [n \in 0..Len(r.cmds) |-> Body(f, n)]
    BY <1>4
  <2> QED BY <1>5, <2>1
<1> QED BY <1>6 DEF AcceptedRecursion

\* What every solution computes.
LEMMA AcceptedComputes ==
  ASSUME NEW T, NEW comb \in Seq(T), NEW r, NEW fin, Len(r.cmds) \in Nat,
         NEW f, AcceptedRecursion(f, comb, r, fin),
         NEW cid \in {comb[i] : i \in DOMAIN comb}
  PROVE  f[Len(r.cmds)][cid] = Needed(comb, r, fin, cid, Len(r.cmds))
<1> DEFINE L == Len(r.cmds)
           combIds == {comb[i] : i \in DOMAIN comb}
           P == {n \in Nat : n <= L => f[n][cid] = Needed(comb, r, fin, cid, n)}
<1>1. f[0][cid] = Occurrences(cid, comb)
  BY DEF AcceptedRecursion
<1>2. ASSUME NEW n \in Nat, n + 1 <= L
      PROVE  f[n + 1][cid] = IF n + 1 \in fin /\ cid = r.cmds[n + 1].id /\ f[n][cid] > 0
                             THEN f[n][cid] - 1 ELSE f[n][cid]
  <2>1. n + 1 \in 0..L /\ n + 1 # 0 /\ (n + 1) - 1 = n
    BY <1>2
  <2>2. f[n + 1] = [c \in combIds |->
                      IF n + 1 \in fin /\ c = r.cmds[n + 1].id /\ f[(n + 1) - 1][c] > 0
                      THEN f[(n + 1) - 1][c] - 1
                      ELSE f[(n + 1) - 1][c]]
    BY <2>1 DEF AcceptedRecursion
  <2>3. cid \in combIds
    OBVIOUS
  <2> HIDE DEF combIds
  <2> QED BY <2>1, <2>2, <2>3
<1>3. 0 \in P
  <2>1. Needed(comb, r, fin, cid, 0) = Occurrences(cid, comb)
    BY NeededNext
  <2> QED BY <1>1, <2>1
<1>4. ASSUME NEW n \in Nat, n \in P PROVE n + 1 \in P
  <2>1. Needed(comb, r, fin, cid, n + 1) =
          IF n + 1 \in fin /\ cid = r.cmds[n + 1].id /\ Needed(comb, r, fin, cid, n) > 0
          THEN Needed(comb, r, fin, cid, n) - 1
          ELSE Needed(comb, r, fin, cid, n)
    BY NeededNext
  <2>2. ASSUME n + 1 <= L PROVE f[n + 1][cid] = Needed(comb, r, fin, cid, n + 1)
    <3>1. f[n][cid] = Needed(comb, r, fin, cid, n)
      BY <1>4, <2>2
    <3> QED BY <1>2, <2>1, <2>2, <3>1
  <2> QED BY <2>2
<1>5. P = Nat
  <2>1. P \in SUBSET Nat
    OBVIOUS
  <2> HIDE DEF P
  <2> QED BY <1>3, <1>4, <2>1, NatInductionOnSets
<1>6. L \in P
  BY <1>5
<1> QED BY <1>6

\* The loop leaves the ids that the combination names more often than the
\* completed commands do.
LEMMA RemainingExact ==
  ASSUME NEW T, NEW comb \in Seq(T), NEW r, NEW fin, NEW C, r.cmds \in Seq(C)
  PROVE  RemainingCmdIds(comb, r, fin) = {} <=>
           \A i \in DOMAIN comb : Occurrences(comb[i], comb) <= Cardinality(Named(r, fin, comb[i]))
<1> DEFINE combIds == {comb[i] : i \in DOMAIN comb}
           L == Len(r.cmds)
<1>1. L \in Nat /\ DOMAIN r.cmds = 1..L
  OBVIOUS
<1>2. PICK f : /\ AcceptedRecursion(f, comb, r, fin)
               /\ RemainingCmdIds(comb, r, fin) = {cid \in combIds : f[L][cid] > 0}
  <2> DEFINE f == CHOOSE g : AcceptedRecursion(g, comb, r, fin)
  <2>1. AcceptedRecursion(f, comb, r, fin)
    BY <1>1, AcceptedExists
  <2>2. RemainingCmdIds(comb, r, fin) = {cid \in combIds : f[L][cid] > 0}
    BY Zenon DEF RemainingCmdIds, AcceptedRecursion
  <2> QED BY <2>1, <2>2
<1>3. ASSUME NEW i \in DOMAIN comb
      PROVE  f[L][comb[i]] > 0 <=>
               ~(Occurrences(comb[i], comb) <= Cardinality(Named(r, fin, comb[i])))
  <2>1. f[L][comb[i]] = Needed(comb, r, fin, comb[i], L)
    <3>1. comb[i] \in {comb[j] : j \in DOMAIN comb}
      OBVIOUS
    <3> QED BY <1>1, <1>2, <3>1, AcceptedComputes
  <2>2. NamedUpTo(r, fin, comb[i], L) = Named(r, fin, comb[i])
    BY <1>1 DEF NamedUpTo, Named
  <2>3. /\ Occurrences(comb[i], comb) \in Nat
        /\ Cardinality(NamedUpTo(r, fin, comb[i], L)) \in Nat
    BY <1>1, OccurrencesType, NamedNext
  <2> QED BY <2>1, <2>2, <2>3 DEF Needed
<1> QED BY <1>2, <1>3

-----------------------------------------------------------------------------
(* Assignments of the positions of a combination to commands *)

LEMMA InjectionExists ==
  ASSUME NEW A, NEW B, IsFiniteSet(A), IsFiniteSet(B), Cardinality(A) <= Cardinality(B)
  PROVE  \E g \in [A -> B] : \A x, y \in A : g[x] = g[y] => x = y
<1> DEFINE m == Cardinality(A)
           n == Cardinality(B)
<1>1. m \in Nat /\ n \in Nat /\ m <= n /\ ExistsBijection(1..m, A) /\ ExistsBijection(1..n, B)
  BY FS_CardinalityType
<1> HIDE DEF m, n
<1>2. PICK a \in Bijection(1..m, A) : TRUE
  BY <1>1 DEF ExistsBijection
<1>3. PICK b \in Bijection(1..n, B) : TRUE
  BY <1>1 DEF ExistsBijection
<1>4. a \in [1..m -> A] /\ \A x \in A : \E k \in 1..m : a[k] = x
  BY <1>2 DEF Bijection, Surjection
<1>5. b \in [1..n -> B] /\ \A k, l \in 1..n : b[k] = b[l] => k = l
  BY <1>3 DEF Bijection, Injection, IsInjective
<1> DEFINE At(x) == CHOOSE k \in 1..m : a[k] = x
           g == [x \in A |-> b[At(x)]]
<1>6. \A x \in A : At(x) \in 1..m /\ At(x) \in 1..n /\ a[At(x)] = x
  <2> TAKE x \in A
  <2>1. At(x) \in 1..m /\ a[At(x)] = x
    BY <1>4
  <2> HIDE DEF At
  <2> QED BY <1>1, <2>1
<1> HIDE DEF At
<1>7. g \in [A -> B]
  BY <1>5, <1>6
<1>8. \A x, y \in A : g[x] = g[y] => x = y
  BY <1>5, <1>6
<1> QED BY <1>7, <1>8

LEMMA NamedFinite ==
  ASSUME NEW r, NEW fin, NEW C, r.cmds \in Seq(C), NEW cid
  PROVE  IsFiniteSet(Named(r, fin, cid)) /\ Cardinality(Named(r, fin, cid)) \in Nat
<1>1. DOMAIN r.cmds = 1..Len(r.cmds) /\ Len(r.cmds) \in Nat
  OBVIOUS
<1>2. IsFiniteSet(1..Len(r.cmds))
  BY <1>1, FS_Interval
<1>3. Named(r, fin, cid) \in SUBSET (1..Len(r.cmds))
  BY <1>1 DEF Named
<1>4. IsFiniteSet(Named(r, fin, cid))
  BY <1>2, <1>3, FS_Subset
<1> QED BY <1>4, FS_CardinalityType

\* The positions of a combination can be assigned to different completed commands
\* exactly if no id is named too often.
LEMMA CoveredExactly ==
  ASSUME NEW T, NEW comb \in Seq(T), NEW r, NEW C, r.cmds \in Seq(C),
         NEW fin, fin \subseteq DOMAIN r.cmds
  PROVE  CombinationCovered(comb, r, fin) <=>
           \A i \in DOMAIN comb : Occurrences(comb[i], comb) <= Cardinality(Named(r, fin, comb[i]))
<1> DEFINE A(cid) == {j \in DOMAIN comb : comb[j] = cid}
           B(cid) == Named(r, fin, cid)
<1>1. \A cid : /\ IsFiniteSet(A(cid)) /\ IsFiniteSet(B(cid))
               /\ Cardinality(A(cid)) = Occurrences(cid, comb)
  BY OccurrencesType, NamedFinite DEF Occurrences
<1>2. \A cid : B(cid) = {k \in fin : r.cmds[k].id = cid}
  BY DEF Named
<1>3. ASSUME CombinationCovered(comb, r, fin), NEW i \in DOMAIN comb
      PROVE  Cardinality(A(comb[i])) <= Cardinality(B(comb[i]))
  <2>1. PICK assign \in [DOMAIN comb -> fin] :
          /\ \A j, k \in DOMAIN comb : j # k => assign[j] # assign[k]
          /\ \A j \in DOMAIN comb : r.cmds[assign[j]].id = comb[j]
    BY <1>3 DEF CombinationCovered
  <2> DEFINE g == [j \in A(comb[i]) |-> assign[j]]
  <2>2. g \in [A(comb[i]) -> B(comb[i])]
    BY <1>2, <2>1
  <2>3. \A j, k \in A(comb[i]) : g[j] = g[k] => j = k
    BY <2>1
  <2>4. g \in Injection(A(comb[i]), B(comb[i]))
    <3> HIDE DEF g, A, B
    <3> QED BY <2>2, <2>3 DEF Injection, IsInjective
  <2>5. IsFiniteSet(B(comb[i]))
    BY <1>1
  <2> HIDE DEF g, A, B
  <2> QED BY <2>4, <2>5, FS_Injection
<1>4. ASSUME \A i \in DOMAIN comb : Cardinality(A(comb[i])) <= Cardinality(B(comb[i]))
      PROVE  CombinationCovered(comb, r, fin)
  <2> DEFINE G(cid) == CHOOSE g \in [A(cid) -> B(cid)] : \A x, y \in A(cid) : g[x] = g[y] => x = y
             assign == [i \in DOMAIN comb |-> G(comb[i])[i]]
  <2>1. ASSUME NEW i \in DOMAIN comb
        PROVE  /\ G(comb[i]) \in [A(comb[i]) -> B(comb[i])]
               /\ \A x, y \in A(comb[i]) : G(comb[i])[x] = G(comb[i])[y] => x = y
    <3>1. \E g \in [A(comb[i]) -> B(comb[i])] : \A x, y \in A(comb[i]) : g[x] = g[y] => x = y
      <4>1. /\ IsFiniteSet(A(comb[i])) /\ IsFiniteSet(B(comb[i]))
            /\ Cardinality(A(comb[i])) <= Cardinality(B(comb[i]))
        BY <1>1, <1>4
      <4> HIDE DEF A, B
      <4> QED BY <4>1, InjectionExists
    <3> HIDE DEF A, B
    <3> QED BY <3>1, Zenon
  <2> HIDE DEF G
  <2>2. \A i \in DOMAIN comb : i \in A(comb[i]) /\ G(comb[i])[i] \in B(comb[i])
    BY <2>1
  <2>3. /\ assign \in [DOMAIN comb -> fin]
        /\ \A i \in DOMAIN comb : r.cmds[assign[i]].id = comb[i]
    BY <1>2, <2>2
  <2>4. ASSUME NEW i \in DOMAIN comb, NEW j \in DOMAIN comb, assign[i] = assign[j]
        PROVE  i = j
    <3>1. comb[i] = comb[j]
      BY <2>3, <2>4
    <3>2. G(comb[i])[i] = G(comb[i])[j] /\ i \in A(comb[i]) /\ j \in A(comb[i])
      BY <2>4, <3>1
    <3> HIDE DEF A, B
    <3> QED BY <2>1, <3>2
  <2> HIDE DEF assign
  <2> QED BY <2>3, <2>4 DEF CombinationCovered
<1> HIDE DEF A, B
<1>5. \A i \in DOMAIN comb : Cardinality(A(comb[i])) = Occurrences(comb[i], comb)
  BY <1>1
<1> QED BY <1>3, <1>4, <1>5 DEF B

-----------------------------------------------------------------------------
(* The trigger *)

\* A request that the activity accepts.
Accepted(req, T, C) ==
  /\ req.trigger \in TriggerTypes
  /\ req.cmds \in Seq(C) /\ req.combos \in Seq(Seq(T))
  /\ CheckCommandRequestFromWaitUntilResponse(req)

LEMMA CombinationsMet ==
  ASSUME NEW T, NEW C, NEW req, Accepted(req, T, C), NEW fin,
         fin \subseteq DOMAIN req.cmds, NEW i \in DOMAIN req.combos
  PROVE  /\ RemainingCmdIds(req.combos[i], req, fin) = {} <=>
              \A j \in DOMAIN req.combos[i] :
                Occurrences(req.combos[i][j], req.combos[i])
                  <= Cardinality(Named(req, fin, req.combos[i][j]))
         /\ RemainingCmdIds(req.combos[i], req, fin) = {} <=>
              CombinationCovered(req.combos[i], req, fin)
<1>1. req.combos[i] \in Seq(T) /\ req.cmds \in Seq(C)
  BY DEF Accepted
<1> QED BY <1>1, RemainingExact, CoveredExactly

LEMMA DoneCount ==
  ASSUME NEW T, NEW C, NEW req, Accepted(req, T, C), NEW fin,
         fin \subseteq DOMAIN req.cmds
  PROVE  /\ IsFiniteSet(fin) /\ Cardinality(fin) \in Nat
         /\ Cardinality(fin) = Len(req.cmds) <=> fin = DOMAIN req.cmds
         /\ Cardinality(fin) > 0 <=> fin # {}
<1> DEFINE L == Len(req.cmds)
<1>1. L \in Nat /\ DOMAIN req.cmds = 1..L
  BY DEF Accepted
<1> HIDE DEF L
<1>2. IsFiniteSet(1..L) /\ Cardinality(1..L) = L
  <2>1. 1 \in Int /\ L \in Int
    BY <1>1
  <2>2. /\ IsFiniteSet(1..L)
        /\ Cardinality(1..L) = IF 1 > L THEN 0 ELSE L - 1 + 1
    BY <2>1, FS_Interval, Zenon
  <2>3. (IF 1 > L THEN 0 ELSE L - 1 + 1) = L
    BY <1>1
  <2> QED BY <2>2, <2>3
<1>3. fin \in SUBSET (1..L)
  BY <1>1
<1>4. IsFiniteSet(fin) /\ (Cardinality(1..L) = Cardinality(fin) => 1..L = fin)
  BY <1>2, <1>3, FS_Subset
<1>5. Cardinality(fin) \in Nat /\ (Cardinality(fin) = 0 <=> fin = {})
  BY <1>4, FS_CardinalityType, FS_EmptySet
<1> QED BY <1>1, <1>2, <1>4, <1>5 DEF L

\* The trigger as the code computes it, its cases one by one.
LEMMA TriggerCases ==
  ASSUME NEW T, NEW C, NEW req, Accepted(req, T, C), NEW fin,
         fin \subseteq DOMAIN req.cmds, req.cmds # << >>
  PROVE  /\ req.trigger = "ALL_COMMAND_COMPLETED" =>
              (IsDeciderTriggerConditionMet(req, fin) <=> fin = DOMAIN req.cmds)
         /\ req.trigger = "ANY_COMMAND_COMPLETED" =>
              (IsDeciderTriggerConditionMet(req, fin) <=> fin # {})
         /\ req.trigger = "ANY_COMMAND_COMBINATION_COMPLETED" =>
              (IsDeciderTriggerConditionMet(req, fin) <=>
                 \E i \in DOMAIN req.combos : RemainingCmdIds(req.combos[i], req, fin) = {})
<1>1. /\ Cardinality(fin) = Len(req.cmds) <=> fin = DOMAIN req.cmds
      /\ Cardinality(fin) > 0 <=> fin # {}
  BY DoneCount
<1>2. CASE req.trigger = "ALL_COMMAND_COMPLETED"
  BY <1>1, <1>2 DEF IsDeciderTriggerConditionMet
<1>3. CASE req.trigger = "ANY_COMMAND_COMPLETED"
  BY <1>1, <1>3 DEF IsDeciderTriggerConditionMet
<1>4. CASE req.trigger = "ANY_COMMAND_COMBINATION_COMPLETED"
  BY <1>4 DEF IsDeciderTriggerConditionMet
<1> QED BY <1>2, <1>3, <1>4 DEF Accepted, TriggerTypes

\* For any commands, combinations and ids, repeated ones included, and whatever
\* commands are completed: the counting of the code finds exactly the combinations
\* whose ids can be assigned to different completed commands.
THEOREM TriggerIsExact ==
  ASSUME NEW T, NEW C, NEW req, Accepted(req, T, C), NEW done, done \subseteq DOMAIN req.cmds
  PROVE  IsDeciderTriggerConditionMet(req, done) <=> TriggerReference(req, done)
<1>1. done \subseteq DOMAIN req.cmds
  OBVIOUS
<1>2. CASE req.cmds = << >>
  BY <1>2 DEF IsDeciderTriggerConditionMet, TriggerReference
<1>3. CASE req.cmds # << >> /\ req.trigger = "ALL_COMMAND_COMPLETED"
  <2>1. TriggerReference(req, done) <=> done = DOMAIN req.cmds
    BY <1>3 DEF TriggerReference
  <2> QED BY <1>1, <1>3, <2>1, TriggerCases
<1>4. CASE req.cmds # << >> /\ req.trigger = "ANY_COMMAND_COMPLETED"
  <2>1. TriggerReference(req, done) <=> done # {}
    BY <1>4 DEF TriggerReference
  <2> QED BY <1>1, <1>4, <2>1, TriggerCases
<1>5. CASE req.cmds # << >> /\ req.trigger = "ANY_COMMAND_COMBINATION_COMPLETED"
  <2>1. TriggerReference(req, done) <=>
          \E i \in DOMAIN req.combos : CombinationCovered(req.combos[i], req, done)
    BY <1>5 DEF TriggerReference
  <2>2. IsDeciderTriggerConditionMet(req, done) <=>
          \E i \in DOMAIN req.combos : RemainingCmdIds(req.combos[i], req, done) = {}
    BY <1>1, <1>5, TriggerCases
  <2>3. \A i \in DOMAIN req.combos :
          RemainingCmdIds(req.combos[i], req, done) = {} <=>
            CombinationCovered(req.combos[i], req, done)
    BY <1>1, CombinationsMet
  <2> QED BY <2>1, <2>2, <2>3
<1> QED BY <1>2, <1>3, <1>4, <1>5 DEF Accepted, TriggerTypes

\* An accepted request whose commands are all completed is met, unless a combination
\* repeats an id: the validation of the activity is strong enough.
THEOREM CompletedRequestsAreMet ==
  ASSUME NEW T, NEW C, NEW req, Accepted(req, T, C), NEW done, done \subseteq DOMAIN req.cmds,
         done = DOMAIN req.cmds, \A i \in DOMAIN req.combos : IsInjective(req.combos[i])
  PROVE  IsDeciderTriggerConditionMet(req, done)
<1>1. CASE req.cmds = << >>
  BY <1>1 DEF IsDeciderTriggerConditionMet
<1>2. CASE req.cmds # << >> /\ req.trigger = "ALL_COMMAND_COMPLETED"
  BY <1>2, TriggerCases
<1>3. CASE req.cmds # << >> /\ req.trigger = "ANY_COMMAND_COMPLETED"
  <2>1. done # {}
    <3>1. req.cmds \in Seq(C)
      BY DEF Accepted
    <3>2. 1 \in DOMAIN req.cmds
      BY <1>3, <3>1
    <3> QED BY <3>2
  <2> QED BY <1>3, <2>1, TriggerCases
<1>4. CASE req.cmds # << >> /\ req.trigger = "ANY_COMMAND_COMBINATION_COMPLETED"
  <2> DEFINE comb == req.combos[1]
  <2>1. /\ req.combos # << >> /\ req.combos \in Seq(Seq(T))
        /\ \A i \in DOMAIN req.combos : \A j \in DOMAIN req.combos[i] :
             req.combos[i][j] \in CommandIds(req)
    BY <1>4 DEF Accepted, CheckCommandRequestFromWaitUntilResponse
  <2>2. 1 \in DOMAIN req.combos /\ comb \in Seq(T) /\ IsInjective(comb)
    BY <2>1
  <2>3. ASSUME NEW j \in DOMAIN comb
        PROVE  Occurrences(comb[j], comb) <= Cardinality(Named(req, done, comb[j]))
    <3>1. {i \in DOMAIN comb : comb[i] = comb[j]} = {j}
      BY <2>2 DEF IsInjective
    <3>2. Occurrences(comb[j], comb) = 1
      BY <3>1, FS_Singleton DEF Occurrences
    <3>3. Named(req, done, comb[j]) # {}
      <4>1. comb[j] \in CommandIds(req)
        BY <2>1, <2>2
      <4> QED BY <4>1 DEF CommandIds, Named
    <3>4. Cardinality(Named(req, done, comb[j])) \in Nat \ {0}
      <4>1. IsFiniteSet(Named(req, done, comb[j]))
            /\ Cardinality(Named(req, done, comb[j])) \in Nat
        BY NamedFinite DEF Accepted
      <4> QED BY <3>3, <4>1, FS_EmptySet
    <3> QED BY <3>2, <3>4
  <2>4. RemainingCmdIds(comb, req, done) = {}
    BY <2>2, <2>3, CombinationsMet
  <2> QED BY <1>4, <2>2, <2>4, TriggerCases
<1> QED BY <1>1, <1>2, <1>3, <1>4 DEF Accepted, TriggerTypes

\* A trigger that is met stays met while late command threads complete more
\* commands.
THEOREM TriggersStayMet ==
  ASSUME NEW T, NEW C, NEW req, Accepted(req, T, C), NEW done, done \subseteq DOMAIN req.cmds,
         NEW more, done \subseteq more, more \subseteq DOMAIN req.cmds,
         IsDeciderTriggerConditionMet(req, done)
  PROVE  IsDeciderTriggerConditionMet(req, more)
<1>1. done \subseteq more /\ done \subseteq DOMAIN req.cmds /\ more \subseteq DOMAIN req.cmds
  OBVIOUS
<1>2. CASE req.cmds = << >>
  BY <1>2 DEF IsDeciderTriggerConditionMet
<1>3. CASE req.cmds # << >> /\ req.trigger = "ALL_COMMAND_COMPLETED"
  <2>1. done = DOMAIN req.cmds
    BY <1>1, <1>3, TriggerCases
  <2> QED BY <1>1, <1>3, <2>1, TriggerCases
<1>4. CASE req.cmds # << >> /\ req.trigger = "ANY_COMMAND_COMPLETED"
  <2>1. done # {}
    BY <1>1, <1>4, TriggerCases
  <2> QED BY <1>1, <1>4, <2>1, TriggerCases
<1>5. CASE req.cmds # << >> /\ req.trigger = "ANY_COMMAND_COMBINATION_COMPLETED"
  <2>1. PICK i \in DOMAIN req.combos : RemainingCmdIds(req.combos[i], req, done) = {}
    BY <1>1, <1>5, TriggerCases
  <2>2. CombinationCovered(req.combos[i], req, done)
    BY <1>1, <2>1, CombinationsMet
  <2>3. CombinationCovered(req.combos[i], req, more)
    <3>1. [DOMAIN req.combos[i] -> done] \subseteq [DOMAIN req.combos[i] -> more]
      BY <1>1
    <3> QED BY <2>2, <3>1 DEF CombinationCovered
  <2>4. RemainingCmdIds(req.combos[i], req, more) = {}
    BY <1>1, <2>3, CombinationsMet
  <2> QED BY <1>1, <1>5, <2>4, TriggerCases
<1> QED BY <1>2, <1>3, <1>4, <1>5 DEF Accepted, TriggerTypes

-----------------------------------------------------------------------------
(* The executions of a workflow *)

\* The inductive invariant, together with those of InterpreterProofs: the trigger of an
\* execution is met while it executes, and not met when it is left to the next run.
TriggerInv ==
  \A d \in ExeIds :
    /\ d[1] \in SkipWaitUntil => commandReq[d] = NoCommands
    /\ thread[d] = "execute" => TriggerMet(d)
    /\ (d \in toResume /\ thread[d] = "none" /\ ~errToFailWf) => ~TriggerMet(d)

\* It implies the property, since the counting is exact.
LEMMA TriggerInvImplies ==
  TypeInv /\ LifeInv /\ TriggerInv => TriggeredExecutionsExecute
<1> SUFFICES ASSUME TypeInv, LifeInv, TriggerInv PROVE TriggeredExecutionsExecute
  OBVIOUS
<1>1. ASSUME NEW d \in ExeIds
      PROVE  TriggerMet(d) <=> TriggerReference(commandReq[d], completedCmds[d])
  <2>1. commandReq[d] \in CommandRequests /\ completedCmds[d] \subseteq DOMAIN commandReq[d].cmds
    BY <1>1 DEF TypeInv, TypeOK, CommandsOK, Commands
  <2>2. Accepted(commandReq[d], Nat, [target : Channels \cup {Timer}, id : Nat])
    BY <2>1, RequestsAssumption, Zenon DEF Accepted
  <2> QED BY <2>1, <2>2, TriggerIsExact, Zenon DEF TriggerMet
<1>2. main = "loading" => ~errToFailWf /\ \A d \in ExeIds : thread[d] = "none"
  BY DEF LifeInv, PhaseOK
<1> QED BY <1>1, <1>2 DEF TriggerInv, TriggeredExecutionsExecute

\* The variables that it mentions.
triggerVars == <<commandReq, completedCmds, thread, toResume, errToFailWf>>

\* A step preserves it for an execution that keeps its request and results, that it
\* does not make execute and does not leave to the next run.
Untouched(d) ==
  /\ commandReq'[d] = commandReq[d] /\ completedCmds'[d] = completedCmds[d]
  /\ thread'[d] = "execute" => thread[d] = "execute"
  /\ (d \in toResume' /\ thread'[d] = "none" /\ ~errToFailWf') =>
       (d \in toResume /\ thread[d] = "none" /\ ~errToFailWf)

LEMMA UntouchedTriggers ==
  ASSUME TriggerInv, \A d \in ExeIds : Untouched(d)
  PROVE  TriggerInv'
<1>1. \A d \in ExeIds : TriggerMet(d)' <=> TriggerMet(d)
  BY DEF TriggerMet, Untouched
<1> QED BY <1>1 DEF TriggerInv, Untouched

\* The same with one execution apart, which the step is about.
LEMMA TouchedTrigger ==
  ASSUME TriggerInv, NEW e \in ExeIds, \A d \in ExeIds \ {e} : Untouched(d),
         e[1] \in SkipWaitUntil => commandReq'[e] = NoCommands,
         thread'[e] = "execute" => TriggerMet(e)',
         (e \in toResume' /\ thread'[e] = "none" /\ ~errToFailWf') => ~TriggerMet(e)'
  PROVE  TriggerInv'
<1>1. \A d \in ExeIds \ {e} : TriggerMet(d)' <=> TriggerMet(d)
  BY DEF TriggerMet, Untouched
<1> QED BY <1>1 DEF TriggerInv, Untouched

LEMMA InitTriggers == Init => TriggerInv
  BY DEF Init, TriggerInv

\* Clients and handlers do not touch the executions.
LEMMA HandlersTriggers ==
  ASSUME TriggerInv, Clients \/ UpdateHandler \/ SignalHandlers
  PROVE  TriggerInv'
<1>1. UNCHANGED triggerVars
  BY DEF Clients, UpdateHandler, SignalHandlers, SignalWorkflow, FailWorkflow, ExecuteRpcSignal,
         UpdateHandlerStart, MeetThreshold, UpdateHandlerFinish, UpdateHandlerFail,
         FailWorkflowHandler, ExecuteRpcHandler, UserSignalHandler, HandlerExit,
         flagVars, threadVars, triggerVars
<1>2. \A d \in ExeIds : Untouched(d)
  BY <1>1 DEF triggerVars, Untouched
<1> QED BY <1>2, UntouchedTriggers

\* The answers of the APIs.
LEMMA ApiCallTriggers ==
  ASSUME ProceedingStatesSkip, TypeInv, LifeInv, TriggerInv, NEW e \in ExeIds, ApiCall(e)
  PROVE  TriggerInv'
<1> USE DEF flagVars, threadVars
<1>0. /\ thread \in [ExeIds -> {"none", "waitUntil", "waiting", "draining", "execute", "closing"}]
      /\ commandReq \in [ExeIds -> CommandRequests]
      /\ completedCmds \in [ExeIds -> SUBSET CmdIdx] /\ ThreadsOK
      /\ e[1] \in StateIds
  BY DEF TypeInv, TypeOK, LifeInv, ExeIds
<1>1. ASSUME NEW req \in CommandRequests, NEW pub \in Publishes, StartWaiting(e, req, pub)
      PROVE  TriggerInv'
  <2>1. \A d \in ExeIds \ {e} : Untouched(d)
    BY <1>0, <1>1 DEF StartWaiting, Untouched
  <2>2. thread'[e] = "waiting" /\ e[1] \notin SkipWaitUntil
    BY <1>0, <1>1 DEF StartWaiting, ThreadsOK
  <2> QED BY <2>1, <2>2, TouchedTrigger
<1>2. ASSUME FailExecution(e) PROVE TriggerInv'
  <2>1. \A d \in ExeIds : Untouched(d)
    BY <1>0, <1>2 DEF FailExecution, Untouched
  <2> QED BY <2>1, UntouchedTriggers
<1>3. ASSUME NEW d \in Decisions, NEW pub \in Publishes,
             ExecuteCompleted(e, d, pub) \/ ExecuteCompletedConditionally(e, d, pub)
      PROVE  TriggerInv'
  <2>1. /\ UNCHANGED <<commandReq, completedCmds>> /\ toResume' = toResume \ {e}
        /\ \/ thread' = [thread EXCEPT ![e] = "none"]
           \/ thread' = [thread EXCEPT ![e] = "closing"]
    BY <1>3 DEF ExecuteCompleted, ExecuteCompletedConditionally, MarkStateExecutionCompleted
  <2>2. errToFailWf => errToFailWf'
    BY <1>3, Zenon DEF ExecuteCompleted, ExecuteCompletedConditionally
  <2>3. \A x \in ExeIds : Untouched(x)
    BY <1>0, <2>1, <2>2 DEF Untouched
  <2> QED BY <2>3, UntouchedTriggers
<1>4. CASE ExecuteApiFailedAndProceed(e)
  <2>1. e \notin toResume
    BY <1>0, <1>4 DEF ExecuteApiFailedAndProceed, ProceedingStatesSkip, ThreadsOK
  <2>2. \A d \in ExeIds : Untouched(d)
    BY <1>0, <1>4, <2>1 DEF ExecuteApiFailedAndProceed, MarkStateExecutionCompleted, Untouched
  <2> QED BY <2>2, UntouchedTriggers
<1>5. NoCommands \in CommandRequests /\ NoChannel \in Publishes
  BY RequestsAssumption DEF Publishes
<1> QED BY <1>1, <1>2, <1>3, <1>4, <1>5
        DEF ApiCall, WaitUntilCompleted, WaitUntilFailedAndProceed, WaitUntilFailed, ExecuteFailed

\* A command thread completes commands of an execution that waits.
LEMMA CommandThreadTriggers ==
  ASSUME TypeInv, MessageInv, TriggerInv, NEW e \in ExeIds, NEW i \in CmdIdx,
         CommandThread(e, i) \/ TimerFired(e, i)
  PROVE  TriggerInv'
<1> USE DEF flagVars, threadVars
<1>0. completedCmds \in [ExeIds -> SUBSET CmdIdx]
  BY DEF TypeInv, TypeOK
<1>1. thread[e] \in {"waiting", "draining"}
  BY DEF MessageInv, CommandThreadsOK, CommandThread, CommandReceive, CommandCancel, TimerFired
<1>2. /\ UNCHANGED <<commandReq, thread, toResume, errToFailWf>>
      /\ \A d \in ExeIds \ {e} : completedCmds'[d] = completedCmds[d]
  BY <1>0 DEF CommandThread, CommandReceive, CommandCancel, TimerFired
<1>3. \A d \in ExeIds \ {e} : Untouched(d)
  BY <1>2 DEF Untouched
<1>4. e[1] \in SkipWaitUntil => commandReq'[e] = NoCommands
  BY <1>2 DEF TriggerInv
<1> QED BY <1>1, <1>2, <1>3, <1>4, TouchedTrigger

\* The thread of the execution looks at the trigger after its command threads ended.
LEMMA StateThreadTriggers ==
  ASSUME TypeInv, LifeInv, TriggerInv, NEW e \in ExeIds, StateThread(e)
  PROVE  TriggerInv'
<1> USE DEF flagVars, threadVars
<1>0. /\ thread \in [ExeIds -> {"none", "waitUntil", "waiting", "draining", "execute", "closing"}]
      /\ ThreadsOK
  BY DEF TypeInv, TypeOK, LifeInv
<1>1. /\ UNCHANGED <<commandReq, completedCmds, toResume>>
      /\ \A d \in ExeIds \ {e} : thread'[d] = thread[d]
      /\ errToFailWf => errToFailWf'
  <2>1. CASE ConditionalClose(e)
    <3>1. errToFailWf => errToFailWf'
      BY <2>1, Zenon DEF ConditionalClose
    <3> QED BY <1>0, <2>1, <3>1 DEF ConditionalClose, MarkStateExecutionCompleted
  <2>2. CASE ~ConditionalClose(e)
    BY <1>0, <2>2
       DEF StateThread, CommandReqDoneOrCanceled, ReturnWaitingCommands, InvokeStateExecute
  <2> QED BY <2>1, <2>2
<1>2. \A d \in ExeIds \ {e} : Untouched(d)
  BY <1>1 DEF Untouched
<1>3. TriggerMet(e)' <=> TriggerMet(e)
  BY <1>1 DEF TriggerMet
<1>4. /\ thread'[e] = "execute" => TriggerMet(e)
      /\ (e \in toResume' /\ thread'[e] = "none") => ~TriggerMet(e)
  BY <1>0, <1>1 DEF StateThread, CommandReqDoneOrCanceled, ReturnWaitingCommands,
       InvokeStateExecute, ConditionalClose, MarkStateExecutionCompleted, ThreadsOK
<1>5. e[1] \in SkipWaitUntil => commandReq'[e] = NoCommands
  BY <1>1 DEF TriggerInv
<1> QED BY <1>2, <1>3, <1>4, <1>5, TouchedTrigger

\* An execution that is taken from the queue to execute at once has no commands.
LEMMA TakeAllTriggers ==
  ASSUME TypeInv, LifeInv, TriggerInv, TakeAll, UNCHANGED errToFailWf
  PROVE  TriggerInv'
<1>1. /\ UNCHANGED <<commandReq, completedCmds>> /\ toResume' = toResume \cup resumeQ
      /\ \A d \in ExeIds : thread'[d] =
           CASE d \in resumeQ   -> "waiting"
             [] d \in NewExeIds -> IF d[1] \in SkipWaitUntil THEN "execute" ELSE "waitUntil"
             [] OTHER -> thread[d]
  BY DEF TakeAll
<1>2. \A d \in NewExeIds : thread'[d] # "none"
  BY TakeAllThreads DEF TakenThreads, NewExeIds
<1>3. \A d \in ExeIds : TriggerMet(d)' <=> TriggerMet(d)
  BY <1>1 DEF TriggerMet
<1>4. \A d \in ExeIds : d[1] \in SkipWaitUntil => TriggerMet(d)
  BY DEF TriggerInv, TriggerMet, IsDeciderTriggerConditionMet, NoCommands
<1> QED BY <1>1, <1>2, <1>3, <1>4 DEF TriggerInv

\* The main loop and the load of the next run.
LEMMA MainLoopTriggers ==
  ASSUME TypeInv, LifeInv, TriggerInv, MainLoop
  PROVE  TriggerInv'
<1> USE DEF flagVars, threadVars
<1>1. CASE EnterInnerLoop
  <2>1. CASE thresholdMet
    <3>1. UNCHANGED triggerVars
      BY <1>1, <2>1 DEF EnterInnerLoop, triggerVars
    <3> QED BY <3>1, UntouchedTriggers DEF triggerVars, Untouched
  <2>2. CASE ~thresholdMet
    BY <1>1, <2>2, TakeAllTriggers DEF EnterInnerLoop
  <2> QED BY <2>1, <2>2
<1>2. CASE LoadInternalsFromPreviousRun
  <2>1. \A d \in ExeIds : Untouched(d)
    BY <1>2 DEF LoadInternalsFromPreviousRun, Untouched
  <2> QED BY <2>1, UntouchedTriggers
<1>3. CASE InnerDrain
  <2>1. \A d \in ExeIds : Untouched(d)
    BY <1>3 DEF InnerDrain, Untouched
  <2> QED BY <2>1, UntouchedTriggers
<1>4. CASE UNCHANGED triggerVars
  BY <1>4, UntouchedTriggers DEF triggerVars, Untouched
<1>5. ContinueAsNew => UNCHANGED triggerVars
  BY DEF ContinueAsNew, triggerVars
<1>6. UnchangedButMain => UNCHANGED triggerVars
  BY DEF UnchangedButMain, triggerVars
<1> QED BY <1>1, <1>2, <1>3, <1>4, <1>5, <1>6
        DEF MainLoop, OuterFailByClient, OuterComplete, OuterEnterInner, OuterDrain, InnerClose,
            InnerNextIteration, InnerNoMoreState, InnerDrained

\* Every step preserves the invariant.
LEMMA NextTriggers ==
  /\ ProceedingStatesSkip /\ TypeInv /\ LifeInv /\ MessageInv /\ TriggerInv
  /\ [Next]_vars
  => TriggerInv'
<1> SUFFICES ASSUME ProceedingStatesSkip, TypeInv, LifeInv, MessageInv, TriggerInv, [Next]_vars
             PROVE  TriggerInv'
  OBVIOUS
<1>1. CASE UNCHANGED vars
  <2>1. UNCHANGED triggerVars
    BY <1>1 DEF vars, flagVars, threadVars, triggerVars
  <2> QED BY <2>1, UntouchedTriggers DEF triggerVars, Untouched
<1> QED BY <1>1, HandlersTriggers, MainLoopTriggers, ApiCallTriggers, StateThreadTriggers,
           CommandThreadTriggers DEF Next

\* In any workflow an Execute API is called only with enough completed commands, and no
\* execution that has enough of them is left to the next run: the command threads that
\* complete late, after the state thread gave up waiting, are heard.
THEOREM TriggeredExecute ==
  ASSUME ProceedingStatesSkip PROVE Spec => []TriggeredExecutionsExecute
<1>1. Init => TriggerInv
  BY InitTriggers
<1>2. TypeInv /\ LifeInv /\ MessageInv /\ TriggerInv /\ [Next]_vars => TriggerInv'
  BY NextTriggers
<1>3. Spec => []TriggerInv
  BY <1>1, <1>2, SpecMessages, PTL DEF Spec
<1> QED BY <1>3, SpecMessages, TriggerInvImplies, PTL
=============================================================================
