----------------------- MODULE PersistenceManagerProofs -----------------------
(***************************************************************************)
(* Proofs about PersistenceManager for any threads, handlers, keys and     *)
(* number of calls.                                                        *)
(*                                                                         *)
(* MutualExclusion and NoLostUpdate are not inductive: that an upsert      *)
(* writes what it should depends on the value that the call loaded, and    *)
(* that this value is still current depends on the lock.  The invariant    *)
(* IInv therefore relates the lock maps to what each call holds, key by    *)
(* key, and the loaded values of held keys to the attributes.              *)
(***************************************************************************)
EXTENDS PersistenceManager, TLAPS

HoldsDisjoint == \A p, q \in Procs : p # q => Holds(p) \cap Holds(q) = {}

\* A key is in its lock map exactly when some call holds it.
LockMapsExact ==
  /\ \A k \in SearchAttributeKeys :
       k \in lockedSearchAttributeKeys <=> \E p \in Procs : k \in Holds(p)
  /\ \A k \in DataAttributeKeys :
       k \in lockedDataAttributesKeys <=> \E p \in Procs : k \in Holds(p)

\* What a call has loaded of a key it holds is the current value.
HeldAreFresh == \A p \in Procs : \A k \in Holds(p) : loaded[p][k] = attributes[k]

IInv == TypeOK /\ HoldsDisjoint /\ LockMapsExact /\ HeldAreFresh /\ NoLostUpdate

\* Initially no call holds a key, no key is in a lock map and nothing was upserted.
LEMMA InitIInv == Init => IInv
<1> SUFFICES ASSUME Init PROVE IInv
  OBVIOUS
<1>1. TypeOK
  BY CallsAssumption DEF Init, TypeOK
<1>2. \A p \in Procs : Holds(p) = {}
  BY DEF Init, Holds
<1>3. HoldsDisjoint /\ LockMapsExact /\ HeldAreFresh
  BY <1>2 DEF Init, HoldsDisjoint, LockMapsExact, HeldAreFresh
<1>4. NoLostUpdate
  BY DEF Init, NoLostUpdate
<1> QED BY <1>1, <1>3, <1>4 DEF IInv

\* A call holds attribute keys only.
LEMMA HoldsAreKeys == TypeOK => \A p \in Procs : Holds(p) \subseteq Keys
  BY DEF TypeOK, Holds, Keys

(* A call that starts, or an update that is rejected, holds nothing. *)
LEMMA StartPreserves ==
  ASSUME IInv, NEW t \in StateThreads, NEW L \in SUBSET Keys, StartApiCall(t, L)
  PROVE  IInv'
<1> USE DEF IInv, StartApiCall
<1>1. TypeOK'
  BY CallsAssumption DEF TypeOK, Procs
<1>2. \A p \in Procs : Holds(p)' = Holds(p)
  BY DEF Holds, TypeOK, Procs
<1>3. HoldsDisjoint' /\ LockMapsExact' /\ HeldAreFresh'
  BY <1>2 DEF HoldsDisjoint, LockMapsExact, HeldAreFresh
<1> QED BY <1>1, <1>3 DEF NoLostUpdate

\* The validator of an update refuses without touching the locks.
LEMMA RejectPreserves ==
  ASSUME IInv, NEW r \in UpdateHandlers, NEW L \in SUBSET Keys, UpdateRejected(r, L)
  PROVE  IInv'
<1> USE DEF IInv, UpdateRejected
<1>1. TypeOK'
  BY DEF TypeOK, Procs
<1>2. \A p \in Procs : Holds(p)' = Holds(p)
  BY DEF Holds, TypeOK, Procs
<1>3. HoldsDisjoint' /\ LockMapsExact' /\ HeldAreFresh'
  BY <1>2 DEF HoldsDisjoint, LockMapsExact, HeldAreFresh
<1> QED BY <1>1, <1>3 DEF NoLostUpdate

\* LoadSearchAttributes awaits its keys, locks them and loads them in one step, so
\* that they are disjoint from what others hold and fresh.
LEMMA LoadSearchAttributesPreserves ==
  ASSUME IInv, NEW t \in StateThreads, LoadSearchAttributes(t)
  PROVE  IInv'
<1> USE DEF IInv, LoadSearchAttributes
<1> DEFINE New == lockingKeys[t] \cap SearchAttributeKeys
<1>0. t \in Procs /\ lockingKeys[t] \subseteq Keys
  BY DEF Procs, TypeOK
<1>1. TypeOK'
  BY <1>0 DEF TypeOK, Load, Keys
<1>2. /\ Holds(t) = {} /\ Holds(t)' = New
      /\ \A q \in Procs \ {t} : Holds(q)' = Holds(q)
  BY <1>0 DEF Holds, TypeOK
<1>3. \A q \in Procs : Holds(q) \cap New = {}
  BY DEF LockMapsExact
<1>4. HoldsDisjoint'
  BY <1>2, <1>3 DEF HoldsDisjoint
<1>5. LockMapsExact'
  BY <1>0, <1>2, KeysAssumption DEF LockMapsExact
<1>6. \A k \in New : loaded'[t][k] = attributes[k]
  BY <1>0 DEF Load, TypeOK, Keys
<1>7. \A q \in Procs \ {t} : loaded'[q] = loaded[q]
  BY <1>0 DEF Load, TypeOK
<1>8. HeldAreFresh'
  BY <1>2, <1>6, <1>7 DEF HeldAreFresh
<1> QED BY <1>1, <1>4, <1>5, <1>8 DEF NoLostUpdate

\* LoadDataAttributes does the same for the data attributes; the search attributes
\* that the call has held since LoadSearchAttributes stay fresh in between.
LEMMA LoadDataAttributesPreserves ==
  ASSUME IInv, NEW t \in StateThreads, LoadDataAttributes(t)
  PROVE  IInv'
<1> USE DEF IInv, LoadDataAttributes
<1> DEFINE Old == lockingKeys[t] \cap SearchAttributeKeys
           New == lockingKeys[t] \cap DataAttributeKeys
<1>0. t \in Procs /\ lockingKeys[t] \subseteq Keys
  BY DEF Procs, TypeOK
<1>1. TypeOK'
  BY <1>0 DEF TypeOK, Load, Keys
<1>2. /\ Holds(t) = Old /\ Holds(t)' = Old \cup New
      /\ \A q \in Procs \ {t} : Holds(q)' = Holds(q)
  BY <1>0 DEF Holds, TypeOK, Keys
<1>3. \A q \in Procs : Holds(q) \cap New = {}
  BY DEF LockMapsExact
<1>4. HoldsDisjoint'
  BY <1>0, <1>2, <1>3 DEF HoldsDisjoint
<1>5. LockMapsExact'
  BY <1>0, <1>2, KeysAssumption DEF LockMapsExact
<1>6. \A k \in Old \cup New : loaded'[t][k] = attributes[k]
  <2>1. \A k \in New : loaded'[t][k] = attributes[k]
    BY <1>0 DEF Load, TypeOK, Keys
  <2>2. \A k \in Old : loaded'[t][k] = loaded[t][k]
    BY <1>0, KeysAssumption DEF Load, TypeOK, Keys
  <2>3. \A k \in Old : loaded[t][k] = attributes[k]
    BY <1>0, <1>2 DEF HeldAreFresh
  <2> QED BY <2>1, <2>2, <2>3
<1>7. \A q \in Procs \ {t} : loaded'[q] = loaded[q]
  BY <1>0 DEF Load, TypeOK
<1>8. HeldAreFresh'
  BY <1>2, <1>6, <1>7 DEF HeldAreFresh
<1> QED BY <1>1, <1>4, <1>5, <1>8 DEF NoLostUpdate

\* An accepted update locks and loads all its keys at once; the validator has seen
\* them unlocked in the same step.
LEMMA UpdateAcceptedPreserves ==
  ASSUME IInv, NEW r \in UpdateHandlers, NEW L \in SUBSET Keys, UpdateAccepted(r, L)
  PROVE  IInv'
<1> USE DEF IInv, UpdateAccepted
<1>0. r \in Procs
  BY DEF Procs
<1>1. TypeOK'
  BY <1>0 DEF TypeOK, Load, Keys
<1>2. /\ Holds(r) = {} /\ Holds(r)' = L
      /\ \A q \in Procs \ {r} : Holds(q)' = Holds(q)
  BY <1>0 DEF Holds, TypeOK
<1>3. \A q \in Procs : Holds(q) \cap L = {}
  BY DEF LockMapsExact, KeysAreUnlocked, Keys
<1>4. HoldsDisjoint'
  BY <1>2, <1>3 DEF HoldsDisjoint
<1>5. LockMapsExact'
  BY <1>0, <1>2 DEF LockMapsExact
<1>6. \A k \in L : loaded'[r][k] = attributes[k]
  BY <1>0 DEF Load, TypeOK
<1>7. \A q \in Procs \ {r} : loaded'[q] = loaded[q]
  BY <1>0 DEF Load, TypeOK
<1>8. HeldAreFresh'
  BY <1>2, <1>6, <1>7 DEF HeldAreFresh
<1> QED BY <1>1, <1>4, <1>5, <1>8 DEF NoLostUpdate

(***************************************************************************)
(* The end of a call, of a state or an RPC: p held all its keys, unlocks   *)
(* them and upserts W of them, or nothing when the activity failed.        *)
(***************************************************************************)
LEMMA EndPreserves ==
  ASSUME IInv, NEW p \in Procs, NEW W \in SUBSET lockingKeys[p], NEW end \in {"idle", "done"},
         pc[p] = "activity",
         pc' = [pc EXCEPT ![p] = end],
         UnlockPersistence(p), ProcessUpsert(p, W),
         UNCHANGED <<calls, lockingKeys, loaded>>
  PROVE  IInv'
<1> USE DEF IInv, UnlockPersistence
<1>0. lockingKeys[p] \subseteq Keys
  BY DEF TypeOK
<1>1. TypeOK'
  BY <1>0 DEF TypeOK, ProcessUpsert
<1>2. /\ Holds(p) = lockingKeys[p] /\ Holds(p)' = {}
      /\ \A q \in Procs \ {p} : Holds(q)' = Holds(q)
  BY DEF Holds, TypeOK
<1>3. HoldsDisjoint'
  BY <1>2 DEF HoldsDisjoint
<1>4. LockMapsExact'
  BY <1>2 DEF LockMapsExact, HoldsDisjoint
<1>5. \A k \in W : loaded[p][k] = attributes[k]
  BY <1>2 DEF HeldAreFresh
<1>6. \A q \in Procs \ {p} : \A k \in Holds(q) : k \in Keys /\ attributes'[k] = attributes[k]
  BY <1>2, HoldsAreKeys DEF HoldsDisjoint, ProcessUpsert
<1>7. HeldAreFresh'
  BY <1>2, <1>6 DEF HeldAreFresh
<1>8. NoLostUpdate'
  BY <1>0, <1>5 DEF NoLostUpdate, ProcessUpsert, TypeOK
<1> QED BY <1>1, <1>3, <1>4, <1>7, <1>8

\* An activity that failed upserts nothing.
LEMMA NoUpsert ==
  ASSUME TypeOK, NEW p \in Procs, UNCHANGED <<attributes, upserts>>
  PROVE  ProcessUpsert(p, {})
  BY DEF TypeOK, ProcessUpsert

\* Every step preserves the invariant, one lemma per action.
LEMMA NextIInv == IInv /\ [Next]_vars => IInv'
<1> SUFFICES ASSUME IInv, [Next]_vars PROVE IInv'
  OBVIOUS
<1>0. StateThreads \subseteq Procs /\ UpdateHandlers \subseteq Procs
  BY DEF Procs
<1>1. CASE UNCHANGED vars
  <2>1. \A p \in Procs : Holds(p)' = Holds(p)
    BY <1>1 DEF vars, Holds
  <2> QED BY <1>1, <2>1 DEF vars, IInv, TypeOK, HoldsDisjoint, LockMapsExact, HeldAreFresh,
                             NoLostUpdate
<1>2. ASSUME NEW t \in StateThreads, NEW L \in SUBSET Keys, StartApiCall(t, L)
      PROVE  IInv'
  BY <1>2, StartPreserves
<1>3. ASSUME NEW t \in StateThreads, LoadSearchAttributes(t)
      PROVE  IInv'
  BY <1>3, LoadSearchAttributesPreserves
<1>4. ASSUME NEW t \in StateThreads, LoadDataAttributes(t)
      PROVE  IInv'
  BY <1>4, LoadDataAttributesPreserves
<1>5. ASSUME NEW t \in StateThreads, NEW W \in SUBSET Keys, ApiCallCompleted(t, W)
      PROVE  IInv'
  BY <1>0, <1>5, EndPreserves DEF ApiCallCompleted
<1>6. ASSUME NEW t \in StateThreads, ApiCallFailed(t)
      PROVE  IInv'
  <2>1. ProcessUpsert(t, {})
    BY <1>0, <1>6, NoUpsert DEF ApiCallFailed, IInv
  <2> QED BY <1>0, <1>6, <2>1, EndPreserves DEF ApiCallFailed
<1>7. ASSUME NEW r \in UpdateHandlers, NEW L \in SUBSET Keys, UpdateAccepted(r, L)
      PROVE  IInv'
  BY <1>7, UpdateAcceptedPreserves
<1>8. ASSUME NEW r \in UpdateHandlers, NEW L \in SUBSET Keys, UpdateRejected(r, L)
      PROVE  IInv'
  BY <1>8, RejectPreserves
<1>9. ASSUME NEW r \in UpdateHandlers, NEW W \in SUBSET Keys, UpdateCompleted(r, W)
      PROVE  IInv'
  BY <1>0, <1>9, EndPreserves DEF UpdateCompleted
<1>10. ASSUME NEW r \in UpdateHandlers, UpdateFailed(r)
       PROVE  IInv'
  <2>1. ProcessUpsert(r, {})
    BY <1>0, <1>10, NoUpsert DEF UpdateFailed, IInv
  <2> QED BY <1>0, <1>10, <2>1, EndPreserves DEF UpdateFailed
<1> QED
  BY <1>1, <1>2, <1>3, <1>4, <1>5, <1>6, <1>7, <1>8, <1>9, <1>10
  DEF Next, ApiAnswer, UpdateAnswer

\* The lock maps are the union of what the calls hold, and the calls hold disjoint
\* sets: this is mutual exclusion.
LEMMA IInvImpliesMutualExclusion == IInv => MutualExclusion
<1> SUFFICES ASSUME IInv PROVE MutualExclusion
  OBVIOUS
<1>1. HoldsDisjoint
  BY DEF IInv
<1>2. \A p \in Procs : Holds(p) \subseteq Keys
  BY HoldsAreKeys DEF IInv
<1>3. lockedSearchAttributeKeys \cup lockedDataAttributesKeys = UNION {Holds(p) : p \in Procs}
  BY <1>2 DEF IInv, LockMapsExact, TypeOK, Keys
<1> QED BY <1>1, <1>3 DEF HoldsDisjoint, MutualExclusion

\* The invariant holds in all reachable states.
LEMMA SpecIInv == Spec => []IInv
  BY InitIInv, NextIInv, PTL DEF Spec

\* The type invariant holds for all threads, handlers and keys.
THEOREM TypeCorrect == Spec => []TypeOK
<1>1. IInv => TypeOK
  BY DEF IInv
<1> QED BY <1>1, SpecIInv, PTL

\* No key is ever locked by two API calls, and no lock outlives its call: the
\* validator of the updates and the two Awaits of the state threads exclude each
\* other although they lock in different orders.
THEOREM LocksExclude == Spec => []MutualExclusion
  BY SpecIInv, IInvImpliesMutualExclusion, PTL

\* No upsert of a locked attribute is lost, for any number of concurrent calls.
THEOREM UpdatesKept == Spec => []NoLostUpdate
<1>1. IInv => NoLostUpdate
  BY DEF IInv
<1> QED BY <1>1, SpecIInv, PTL
=============================================================================
