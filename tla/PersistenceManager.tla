-------------------------- MODULE PersistenceManager --------------------------
(***************************************************************************)
(* Exclusive locks on search attributes and data attributes                *)
(* (service/interpreter/persistence.go), taken by the WaitUntil and        *)
(* Execute calls of state executions (workflowImpl.go) and by the update   *)
(* handler of RPCs with locking (workflowUpdater.go).                      *)
(*                                                                         *)
(* A state thread locks its search attribute keys, then its data attribute *)
(* keys, and may block in between; the update handler locks in the other   *)
(* order, but only after its validator saw that no key is locked.  A call  *)
(* loads the attributes, runs the activity, unlocks, and applies the       *)
(* upserts before any other coroutine can run.                             *)
(*                                                                         *)
(* A lock protects a read-modify-write only among the callers that lock    *)
(* the key: callers here upsert keys they locked, and an attribute's value *)
(* counts the upserts that its writer had seen.                            *)
(***************************************************************************)
EXTENDS Naturals, FiniteSets

CONSTANTS
  StateThreads,          \* threads of state executions
  UpdateHandlers,        \* RPCs with locking
  SearchAttributeKeys,
  DataAttributeKeys,
  MaxApiCalls            \* bound: API calls of one state thread

Keys  == SearchAttributeKeys \cup DataAttributeKeys
Procs == StateThreads \cup UpdateHandlers

ASSUME ProcsAssumption == StateThreads \cap UpdateHandlers = {}
ASSUME KeysAssumption  == SearchAttributeKeys \cap DataAttributeKeys = {}
ASSUME CallsAssumption == MaxApiCalls \in Nat

VARIABLES
  pc,             \* "idle", "lockSA", "lockDA", "activity"; handlers end in "done"
  calls,          \* API calls a state thread has made
  lockingKeys,    \* LockingKeys of the loading policies of the current call
  lockedSearchAttributeKeys,
  lockedDataAttributesKeys,
  attributes,     \* dataAttributes and searchAttributes
  loaded,         \* the attributes that were passed to the current call
  upserts         \* history: number of upserts of a key

vars == <<pc, calls, lockingKeys, lockedSearchAttributeKeys, lockedDataAttributesKeys,
          attributes, loaded, upserts>>

Init ==
  /\ pc = [p \in Procs |-> "idle"]
  /\ calls = [t \in StateThreads |-> 0]
  /\ lockingKeys = [p \in Procs |-> {}]
  /\ lockedSearchAttributeKeys = {}
  /\ lockedDataAttributesKeys = {}
  /\ attributes = [k \in Keys |-> 0]
  /\ loaded = [p \in Procs |-> [k \in Keys |-> 0]]
  /\ upserts = [k \in Keys |-> 0]

\* The values of the keys K are read into the request of p.
Load(p, K) ==
  loaded' = [loaded EXCEPT ![p] = [k \in Keys |-> IF k \in K THEN attributes[k] ELSE loaded[p][k]]]

\* Mutant: only the search attribute keys are unlocked.
UnlockPersistenceHalf(p) ==
  /\ lockedSearchAttributeKeys' = lockedSearchAttributeKeys \ lockingKeys[p]
  /\ UNCHANGED lockedDataAttributesKeys

\* UnlockPersistence deletes the keys of both policies.
UnlockPersistence(p) ==
  /\ lockedSearchAttributeKeys' = lockedSearchAttributeKeys \ lockingKeys[p]
  /\ lockedDataAttributesKeys' = lockedDataAttributesKeys \ lockingKeys[p]

\* ProcessUpsertSearchAttribute and ProcessUpsertDataAttribute.
ProcessUpsert(p, W) ==
  /\ attributes' = [k \in Keys |-> IF k \in W THEN loaded[p][k] + 1 ELSE attributes[k]]
  /\ upserts' = [k \in Keys |-> IF k \in W THEN upserts[k] + 1 ELSE upserts[k]]

-----------------------------------------------------------------------------
(* A WaitUntil or Execute call of a state execution *)

StartApiCall(t, L) ==
  /\ pc[t] = "idle" /\ calls[t] < MaxApiCalls
  /\ lockingKeys' = [lockingKeys EXCEPT ![t] = L]
  /\ pc' = [pc EXCEPT ![t] = "lockSA"]
  /\ calls' = [calls EXCEPT ![t] = @ + 1]
  /\ UNCHANGED <<lockedSearchAttributeKeys, lockedDataAttributesKeys, attributes, loaded, upserts>>

\* Mutant: the data attribute keys are put into the lock map of search attributes.
LoadSearchAttributesWrongMap(t) ==
  /\ pc[t] = "lockSA"
  /\ lockingKeys[t] \cap lockedSearchAttributeKeys = {}
  /\ lockedSearchAttributeKeys' = lockedSearchAttributeKeys \cup lockingKeys[t]
  /\ Load(t, SearchAttributeKeys)
  /\ pc' = [pc EXCEPT ![t] = "lockDA"]
  /\ UNCHANGED <<calls, lockingKeys, lockedDataAttributesKeys, attributes, upserts>>

\* LoadSearchAttributes: awaitAndLockForKeys, then read.
LoadSearchAttributes(t) ==
  /\ pc[t] = "lockSA"
  /\ lockingKeys[t] \cap lockedSearchAttributeKeys = {}
  /\ lockedSearchAttributeKeys' =
       lockedSearchAttributeKeys \cup (lockingKeys[t] \cap SearchAttributeKeys)
  /\ Load(t, SearchAttributeKeys)
  /\ pc' = [pc EXCEPT ![t] = "lockDA"]
  /\ UNCHANGED <<calls, lockingKeys, lockedDataAttributesKeys, attributes, upserts>>

\* Mutant: the data attributes are loaded without waiting for their locks.
LoadDataAttributesWithoutAwait(t) ==
  /\ pc[t] = "lockDA"
  /\ lockedDataAttributesKeys' =
       lockedDataAttributesKeys \cup (lockingKeys[t] \cap DataAttributeKeys)
  /\ Load(t, DataAttributeKeys)
  /\ pc' = [pc EXCEPT ![t] = "activity"]
  /\ UNCHANGED <<calls, lockingKeys, lockedSearchAttributeKeys, attributes, upserts>>

\* LoadDataAttributes, holding the search attribute keys; then the activity starts.
LoadDataAttributes(t) ==
  /\ pc[t] = "lockDA"
  /\ lockingKeys[t] \cap lockedDataAttributesKeys = {}
  /\ lockedDataAttributesKeys' =
       lockedDataAttributesKeys \cup (lockingKeys[t] \cap DataAttributeKeys)
  /\ Load(t, DataAttributeKeys)
  /\ pc' = [pc EXCEPT ![t] = "activity"]
  /\ UNCHANGED <<calls, lockingKeys, lockedSearchAttributeKeys, attributes, upserts>>

\* The activity answered: unlock, then upsert, without blocking in between.
ApiCallCompleted(t, W) ==
  /\ pc[t] = "activity" /\ W \subseteq lockingKeys[t]
  /\ UnlockPersistence(t)
  /\ ProcessUpsert(t, W)
  /\ pc' = [pc EXCEPT ![t] = "idle"]
  /\ UNCHANGED <<calls, lockingKeys, loaded>>

\* The activity failed: the keys are unlocked all the same, nothing is upserted.
ApiCallFailed(t) ==
  /\ pc[t] = "activity"
  /\ UnlockPersistence(t)
  /\ pc' = [pc EXCEPT ![t] = "idle"]
  /\ UNCHANGED <<calls, lockingKeys, attributes, loaded, upserts>>

-----------------------------------------------------------------------------
(* An RPC with locking *)

\* CheckDataAndSearchAttributesKeysAreUnlocked, the validator of the update.
KeysAreUnlocked(L) ==
  /\ L \cap lockedDataAttributesKeys = {}
  /\ L \cap lockedSearchAttributeKeys = {}

\* The validator accepted: the handler runs in the same turn, finds all keys
\* unlocked, so that neither Await of awaitAndLockForKeys blocks, and locks data
\* attributes and search attributes.
UpdateAccepted(r, L) ==
  /\ pc[r] = "idle"
  /\ KeysAreUnlocked(L)
  /\ lockingKeys' = [lockingKeys EXCEPT ![r] = L]
  /\ lockedDataAttributesKeys' = lockedDataAttributesKeys \cup (L \cap DataAttributeKeys)
  /\ lockedSearchAttributeKeys' = lockedSearchAttributeKeys \cup (L \cap SearchAttributeKeys)
  /\ Load(r, Keys)
  /\ pc' = [pc EXCEPT ![r] = "activity"]
  /\ UNCHANGED <<calls, attributes, upserts>>

UpdateRejected(r, L) ==
  /\ pc[r] = "idle"
  /\ ~KeysAreUnlocked(L)
  /\ pc' = [pc EXCEPT ![r] = "done"]
  /\ UNCHANGED <<calls, lockingKeys, lockedSearchAttributeKeys, lockedDataAttributesKeys,
                 attributes, loaded, upserts>>

UpdateCompleted(r, W) ==
  /\ pc[r] = "activity" /\ W \subseteq lockingKeys[r]
  /\ UnlockPersistence(r)
  /\ ProcessUpsert(r, W)
  /\ pc' = [pc EXCEPT ![r] = "done"]
  /\ UNCHANGED <<calls, lockingKeys, loaded>>

UpdateFailed(r) ==
  /\ pc[r] = "activity"
  /\ UnlockPersistence(r)
  /\ pc' = [pc EXCEPT ![r] = "done"]
  /\ UNCHANGED <<calls, lockingKeys, attributes, loaded, upserts>>

-----------------------------------------------------------------------------
ApiAnswer(t) == ApiCallFailed(t) \/ \E W \in SUBSET Keys : ApiCallCompleted(t, W)
UpdateAnswer(r) == UpdateFailed(r) \/ \E W \in SUBSET Keys : UpdateCompleted(r, W)

Next ==
  \/ \E t \in StateThreads :
       \/ \E L \in SUBSET Keys : StartApiCall(t, L)
       \/ LoadSearchAttributes(t) \/ LoadDataAttributes(t) \/ ApiAnswer(t)
  \/ \E r \in UpdateHandlers :
       \/ \E L \in SUBSET Keys : UpdateAccepted(r, L) \/ UpdateRejected(r, L)
       \/ UpdateAnswer(r)

Spec == Init /\ [][Next]_vars

\* The dispatcher runs a coroutine whose Await holds, and every activity ends.
Fairness ==
  /\ \A t \in StateThreads : /\ WF_vars(LoadSearchAttributes(t))
                             /\ WF_vars(LoadDataAttributes(t))
                             /\ WF_vars(ApiAnswer(t))
  /\ \A r \in UpdateHandlers : WF_vars(UpdateAnswer(r))

FairSpec == Spec /\ Fairness

-----------------------------------------------------------------------------
(* Properties *)

\* The types of the variables.
TypeOK ==
  /\ pc \in [Procs -> {"idle", "lockSA", "lockDA", "activity", "done"}]
  /\ calls \in [StateThreads -> 0..MaxApiCalls]
  /\ lockingKeys \in [Procs -> SUBSET Keys]
  /\ lockedSearchAttributeKeys \subseteq SearchAttributeKeys
  /\ lockedDataAttributesKeys \subseteq DataAttributeKeys
  /\ attributes \in [Keys -> Nat]
  /\ loaded \in [Procs -> [Keys -> Nat]]
  /\ upserts \in [Keys -> Nat]

\* The keys that p has locked at this point of its call.
Holds(p) ==
  CASE pc[p] = "lockDA"   -> lockingKeys[p] \cap SearchAttributeKeys
    [] pc[p] = "activity" -> lockingKeys[p]
    [] OTHER -> {}

\* No key is locked by two calls, whether of states or of RPCs, and the lock maps
\* hold exactly the keys of the calls in progress: an unlock never frees the key
\* of another call, and when all threads are drained for continue-as-new no lock
\* is left to carry over.
MutualExclusion ==
  /\ \A p, q \in Procs : p # q => Holds(p) \cap Holds(q) = {}
  /\ lockedSearchAttributeKeys \cup lockedDataAttributesKeys = UNION {Holds(p) : p \in Procs}

\* An attribute that is only upserted under its lock counts every upsert: no call
\* overwrites a value it has not seen, although the search attributes are read
\* before the call blocks for the data attribute locks.
NoLostUpdate == attributes = upserts

\* No state thread waits forever for a lock: waiting for data attribute keys while
\* holding search attribute keys never closes a cycle with the RPC handlers.
ApiCallsEnd == \A t \in StateThreads : (pc[t] \in {"lockSA", "lockDA"}) ~> (pc[t] = "idle")
=============================================================================
