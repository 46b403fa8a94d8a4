--------------------------- MODULE KeyLockProofs ----------------------------
(***************************************************************************)
(* Proofs about KeyLock, for any number of goroutines, volumes and         *)
(* addresses.                                                              *)
(***************************************************************************)
EXTENDS KeyLock, FiniteSetTheorems, TLAPS

(* The goroutines that hold a reference to an entry. *)
Users(e) == {t \in Threads : entry[t] = e}

Busy(t) == pc[t] # "idle"

(* A goroutine between Enter and Leave points to the entry the map gives   *)
(* for its key: the map entry cannot be replaced under it.                 *)
EntryInMap ==
  \A t \in Threads : IF Busy(t) THEN entry[t] # NoEntry /\ locks[key[t]] = entry[t]
                                ELSE entry[t] = NoEntry

(* The mutex of an entry is held by exactly the goroutine in its section. *)
MutexHeld ==
  /\ \A t \in Threads : pc[t] = "held" => mutex[entry[t]] = t
  /\ \A e \in Entries : mutex[e] # NoThread => pc[mutex[e]] = "held" /\ entry[mutex[e]] = e

(* The reference count is the number of users. *)
RefsCountUsers == \A e \in Entries : refs[e] = Cardinality(Users(e))

(* Entries are not shared between keys, and an entry in the map has users. *)
OneKeyPerEntry ==
  /\ \A j, k \in Keys : locks[j] = locks[k] /\ locks[j] # NoEntry => j = k
  /\ \A k \in Keys : locks[k] # NoEntry => Users(locks[k]) # {}

IInv == TypeOK /\ EntryInMap /\ MutexHeld /\ RefsCountUsers /\ OneKeyPerEntry

-----------------------------------------------------------------------------
(* Users is a finite set, whatever the state. *)
LEMMA UsersFinite ==
  \A e : IsFiniteSet(Users(e)) /\ Cardinality(Users(e)) \in Nat
<1>1. TAKE e
<1>2. Users(e) \subseteq Threads
  BY DEF Users
<1>3. IsFiniteSet(Users(e))
  BY <1>2, ThreadsFinite, FS_Subset
<1>4. QED
  BY <1>3, FS_CardinalityType

(* The inductive invariant holds initially: the map is empty. *)
LEMMA InitIInv == Init => IInv
<1> SUFFICES ASSUME Init PROVE IInv
  OBVIOUS
<1>1. TypeOK /\ EntryInMap /\ MutexHeld
  BY DEF Init, TypeOK, EntryInMap, MutexHeld, Busy
<1>2. \A e \in Entries : Users(e) = {}
  BY NoEntryAssumption DEF Init, Users
<1>3. RefsCountUsers
  BY <1>2, FS_EmptySet DEF Init, RefsCountUsers
<1>4. OneKeyPerEntry
  BY DEF Init, OneKeyPerEntry
<1>5. QED
  BY <1>1, <1>3, <1>4 DEF IInv

(* Entering takes one more reference to the entry of the key. *)
LEMMA EnterIInv ==
  ASSUME NEW t \in Threads, NEW k \in Keys, IInv, Enter(t, k)
  PROVE  IInv'
<1> USE DEF IInv
<1>1. PICK e \in Entries :
         /\ IF locks[k] = NoEntry THEN Unreachable(e) ELSE e = locks[k]
         /\ locks' = [locks EXCEPT ![k] = e]
         /\ refs' = [refs EXCEPT ![e] = IF locks[k] = NoEntry THEN 1 ELSE @ + 1]
         /\ entry' = [entry EXCEPT ![t] = e]
  BY DEF Enter
<1>2. /\ pc[t] = "idle" /\ entry[t] = NoEntry
      /\ key' = [key EXCEPT ![t] = k] /\ pc' = [pc EXCEPT ![t] = "wait"] /\ mutex' = mutex
  BY DEF Enter, EntryInMap, Busy
<1>3. TypeOK'
  BY <1>1, <1>2 DEF TypeOK
<1>4. \A j \in Keys : j # k => locks[j] # e
  BY <1>1 DEF Unreachable, OneKeyPerEntry
<1>5. EntryInMap'
  <2> SUFFICES ASSUME NEW u \in Threads
               PROVE  IF Busy(u)' THEN entry'[u] # NoEntry /\ locks'[key'[u]] = entry'[u]
                                  ELSE entry'[u] = NoEntry
    BY DEF EntryInMap
  <2>1. CASE u = t
    BY <2>1, <1>1, <1>2, NoEntryAssumption DEF TypeOK, Busy
  <2>2. CASE u # t /\ ~ Busy(u)
    BY <2>2, <1>1, <1>2 DEF TypeOK, Busy, EntryInMap
  <2>3. CASE u # t /\ Busy(u)
    <3>1. entry[u] # NoEntry /\ locks[key[u]] = entry[u]
      BY <2>3 DEF EntryInMap
    <3>2. key[u] = k => locks[k] = e
      BY <3>1, <1>1
    <3>3. QED
      BY <2>3, <3>1, <3>2, <1>1, <1>2 DEF TypeOK, Busy
  <2>4. QED
    BY <2>1, <2>2, <2>3
<1>6. MutexHeld'
  <2>1. \A u \in Threads : pc'[u] = "held" => mutex'[entry'[u]] = u
    BY <1>1, <1>2 DEF TypeOK, MutexHeld
  <2>2. ASSUME NEW f \in Entries, mutex'[f] # NoThread
        PROVE  pc'[mutex'[f]] = "held" /\ entry'[mutex'[f]] = f
    <3>1. mutex[f] \in Threads /\ pc[mutex[f]] = "held" /\ entry[mutex[f]] = f
      BY <2>2, <1>2 DEF TypeOK, MutexHeld
    <3>2. mutex[f] # t
      BY <3>1, <1>2
    <3>3. QED
      BY <3>1, <3>2, <1>1, <1>2 DEF TypeOK
  <2>3. QED
    BY <2>1, <2>2 DEF MutexHeld
<1>7. Users(e)' = Users(e) \cup {t} /\ t \notin Users(e)
  BY <1>1, <1>2, NoEntryAssumption DEF Users, TypeOK
<1>8. \A f \in Entries : f # e => Users(f)' = Users(f)
  BY <1>1, <1>2, NoEntryAssumption DEF Users, TypeOK
<1>9. RefsCountUsers'
  <2> SUFFICES ASSUME NEW f \in Entries PROVE refs'[f] = Cardinality(Users(f)')
    BY DEF RefsCountUsers
  <2>1. CASE f # e
    BY <2>1, <1>1, <1>8 DEF RefsCountUsers, TypeOK
  <2>2. CASE f = e
    <3>1. Cardinality(Users(e)') = Cardinality(Users(e)) + 1
      BY <1>7, UsersFinite, FS_AddElement
    <3>2. locks[k] = NoEntry => Cardinality(Users(e)) = 0
      <4> SUFFICES ASSUME locks[k] = NoEntry PROVE Users(e) = {}
        BY FS_EmptySet
      <4> QED
        BY <1>1 DEF Unreachable, Users
    <3>3. refs[e] = Cardinality(Users(e))
      BY DEF RefsCountUsers
    <3>4. QED
      BY <2>2, <3>1, <3>2, <3>3, <1>1, UsersFinite DEF TypeOK
  <2>3. QED
    BY <2>1, <2>2
<1>10. OneKeyPerEntry'
  <2>1. \A i, j \in Keys : locks'[i] = locks'[j] /\ locks'[i] # NoEntry => i = j
    BY <1>1, <1>4 DEF OneKeyPerEntry, TypeOK
  <2>2. ASSUME NEW j \in Keys, locks'[j] # NoEntry
        PROVE  (Users(locks[j]))' # {}
    <3>1. CASE j = k
      BY <3>1, <1>1, <1>7 DEF TypeOK
    <3>2. CASE j # k
      <4>1. locks'[j] = locks[j] /\ locks[j] \in Entries /\ locks[j] # e
        BY <3>2, <2>2, <1>1, <1>4 DEF TypeOK
      <4>2. (Users(locks[j]))' = Users(locks[j])
        BY <4>1, <1>1, <1>2, NoEntryAssumption DEF Users, TypeOK
      <4>3. QED
        BY <4>1, <4>2, <2>2 DEF OneKeyPerEntry
    <3>3. QED
      BY <3>1, <3>2
  <2>3. QED
    BY <2>1, <2>2 DEF OneKeyPerEntry
<1>11. QED
  BY <1>3, <1>5, <1>6, <1>9, <1>10

(* Taking and releasing the mutex of an entry leaves the map and the       *)
(* references alone.                                                       *)
LEMMA AcquireIInv ==
  ASSUME NEW t \in Threads, IInv, Acquire(t)
  PROVE  IInv'
<1> USE DEF IInv
<1>1. /\ pc[t] = "wait" /\ mutex[entry[t]] = NoThread /\ UNCHANGED <<locks, refs, key, entry>>
      /\ mutex' = [mutex EXCEPT ![entry[t]] = t] /\ pc' = [pc EXCEPT ![t] = "held"]
  BY DEF Acquire
<1>2. entry[t] \in Entries
  BY <1>1 DEF TypeOK, EntryInMap, Busy
<1>3. TypeOK'
  BY <1>1, <1>2 DEF TypeOK
<1>4. EntryInMap'
  BY <1>1 DEF TypeOK, EntryInMap, Busy
<1>5. MutexHeld'
  BY <1>1, <1>2, NoThreadAssumption DEF TypeOK, MutexHeld
<1>6. RefsCountUsers' /\ OneKeyPerEntry'
  BY <1>1 DEF RefsCountUsers, OneKeyPerEntry, Users
<1>7. QED
  BY <1>3, <1>4, <1>5, <1>6

LEMMA UnlockIInv ==
  ASSUME NEW t \in Threads, IInv, Unlock(t)
  PROVE  IInv'
<1> USE DEF IInv
<1>1. /\ pc[t] = "held" /\ UNCHANGED <<locks, refs, key, entry>>
      /\ mutex' = [mutex EXCEPT ![entry[t]] = NoThread] /\ pc' = [pc EXCEPT ![t] = "leave"]
  BY DEF Unlock
<1>2. entry[t] \in Entries /\ mutex[entry[t]] = t
  BY <1>1 DEF TypeOK, EntryInMap, Busy, MutexHeld
<1>3. TypeOK'
  BY <1>1, <1>2 DEF TypeOK
<1>4. EntryInMap'
  BY <1>1 DEF TypeOK, EntryInMap, Busy
<1>5. MutexHeld'
  <2>1. \A u \in Threads : pc'[u] = "held" => mutex'[entry'[u]] = u
    BY <1>1, <1>2 DEF TypeOK, MutexHeld
  <2>2. ASSUME NEW f \in Entries, mutex'[f] # NoThread
        PROVE  pc'[mutex'[f]] = "held" /\ entry'[mutex'[f]] = f
    BY <2>2, <1>1, <1>2, NoThreadAssumption DEF TypeOK, MutexHeld
  <2>3. QED
    BY <2>1, <2>2 DEF MutexHeld
<1>6. RefsCountUsers' /\ OneKeyPerEntry'
  BY <1>1 DEF RefsCountUsers, OneKeyPerEntry, Users
<1>7. QED
  BY <1>3, <1>4, <1>5, <1>6

(* The last user of an entry takes it out of the map, nobody else. *)
LEMMA LeaveIInv ==
  ASSUME NEW t \in Threads, IInv, Leave(t)
  PROVE  IInv'
<1> USE DEF IInv
<1> PICK e \in Entries, k \in Keys : e = entry[t] /\ k = key[t]
  BY DEF Leave, TypeOK, EntryInMap, Busy
<1>1. /\ pc[t] = "leave" /\ UNCHANGED <<mutex, key>>
      /\ refs' = [refs EXCEPT ![e] = @ - 1]
      /\ locks' = IF refs[e] = 1 THEN [locks EXCEPT ![k] = NoEntry] ELSE locks
      /\ entry' = [entry EXCEPT ![t] = NoEntry] /\ pc' = [pc EXCEPT ![t] = "idle"]
  BY DEF Leave
<1>2. e \in Entries /\ k \in Keys /\ locks[k] = e /\ t \in Users(e)
  BY <1>1 DEF TypeOK, EntryInMap, Busy, Users
<1>3. Users(e)' = Users(e) \ {t} /\ \A f \in Entries : f # e => Users(f)' = Users(f)
  BY <1>1, <1>2, NoEntryAssumption DEF Users, TypeOK
<1>4. /\ Cardinality(Users(e)') = Cardinality(Users(e)) - 1
      /\ Cardinality(Users(e)') \in Nat
  <2>1. Cardinality(Users(e) \ {t}) = Cardinality(Users(e)) - 1
    BY <1>2, UsersFinite, FS_RemoveElement
  <2>2. IsFiniteSet(Users(e) \ {t})
    BY UsersFinite, FS_RemoveElement
  <2>3. Cardinality(Users(e) \ {t}) \in Nat
    BY <2>2, FS_CardinalityType
  <2>4. QED
    BY <2>1, <2>3, <1>3
<1>5. refs[e] = Cardinality(Users(e)) /\ (refs[e] = 1 <=> Users(e) = {t})
  <2>1. refs[e] = Cardinality(Users(e))
    BY <1>2 DEF RefsCountUsers
  <2>2. Cardinality(Users(e) \ {t}) = 0 <=> Users(e) \ {t} = {}
    BY UsersFinite, FS_RemoveElement, FS_EmptySet
  <2>3. Users(e) \ {t} = {} <=> Users(e) = {t}
    BY <1>2
  <2>4. refs[e] \in Nat
    BY <1>2 DEF TypeOK
  <2>5. refs[e] = 1 <=> Cardinality(Users(e) \ {t}) = 0
    BY <1>3, <1>4, <2>1, <2>4
  <2>6. QED
    BY <2>1, <2>2, <2>3, <2>5
<1>6. TypeOK'
  <2>1. refs'[e] \in Nat
    BY <1>1, <1>2, <1>4, <1>5 DEF TypeOK
  <2>2. QED
    BY <2>1, <1>1, <1>2 DEF TypeOK
<1>7. EntryInMap'
  <2> SUFFICES ASSUME NEW u \in Threads
               PROVE  IF Busy(u)' THEN entry'[u] # NoEntry /\ locks'[key'[u]] = entry'[u]
                                  ELSE entry'[u] = NoEntry
    BY DEF EntryInMap
  <2>1. CASE u = t \/ ~ Busy(u)
    BY <2>1, <1>1 DEF TypeOK, EntryInMap, Busy
  <2>2. CASE u # t /\ Busy(u)
    <3>1. entry[u] # NoEntry /\ locks[key[u]] = entry[u] /\ key[u] \in Keys
      BY <2>2 DEF EntryInMap, TypeOK
    <3>2. key[u] = k => refs[e] # 1
      BY <2>2, <3>1, <1>2, <1>5 DEF Users
    <3>3. QED
      BY <2>2, <3>1, <3>2, <1>1 DEF TypeOK, Busy
  <2>3. QED
    BY <2>1, <2>2
<1>8. MutexHeld'
  BY <1>1 DEF TypeOK, MutexHeld
<1>9. RefsCountUsers'
  <2> SUFFICES ASSUME NEW f \in Entries PROVE refs'[f] = Cardinality(Users(f)')
    BY DEF RefsCountUsers
  <2>1. CASE f = e
    BY <2>1, <1>1, <1>2, <1>4, <1>5 DEF TypeOK
  <2>2. CASE f # e
    BY <2>2, <1>1, <1>3 DEF TypeOK, RefsCountUsers
  <2>3. QED
    BY <2>1, <2>2
<1>10. OneKeyPerEntry'
  <2>1. \A i, j \in Keys : locks'[i] = locks'[j] /\ locks'[i] # NoEntry => i = j
    BY <1>1 DEF OneKeyPerEntry, TypeOK
  <2>2. ASSUME NEW j \in Keys, locks'[j] # NoEntry
        PROVE  (Users(locks[j]))' # {}
    <3>1. locks'[j] = locks[j] /\ locks[j] \in Entries
      BY <2>2, <1>1 DEF TypeOK
    <3>2. CASE locks[j] = e
      <4>1. refs[e] # 1
        BY <3>2, <2>2, <1>1, <1>2 DEF OneKeyPerEntry, TypeOK
      <4>2. QED
        BY <4>1, <3>1, <3>2, <1>2, <1>3, <1>5 
    <3>3. CASE locks[j] # e
      <4>1. (Users(locks[j]))' = Users(locks[j])
        BY <3>3, <3>1, <1>1, NoEntryAssumption DEF Users, TypeOK
      <4>2. QED
        BY <4>1, <3>1, <2>2 DEF OneKeyPerEntry
    <3>4. QED
      BY <3>2, <3>3
  <2>3. QED
    BY <2>1, <2>2 DEF OneKeyPerEntry
<1>11. QED
  BY <1>6, <1>7, <1>8, <1>9, <1>10

(* The strengthened invariant holds in every reachable state. *)
THEOREM Inductive == Spec => []IInv
<1>1. Init => IInv
  BY InitIInv
<1>2. IInv /\ [Next]_vars => IInv'
  <2> SUFFICES ASSUME IInv, [Next]_vars PROVE IInv'
    OBVIOUS
  <2>1. ASSUME NEW t \in Threads, Step(t) PROVE IInv'
    BY <2>1, EnterIInv, AcquireIInv, UnlockIInv, LeaveIInv DEF Step
  <2>2. CASE UNCHANGED vars
    BY <2>2 DEF vars, IInv, TypeOK, EntryInMap, MutexHeld, RefsCountUsers, OneKeyPerEntry, Users, Busy
  <2>3. QED
    BY <2>1, <2>2 DEF Next
<1>3. QED
  BY <1>1, <1>2, PTL DEF Spec

-----------------------------------------------------------------------------
(* Type correctness: a mutex is held by a goroutine or free, a counter is  *)
(* a natural, an entry in the map is an address.                           *)
THEOREM TypeCorrect == Spec => []TypeOK
<1>1. IInv => TypeOK
  BY DEF IInv
<1>2. QED
  BY <1>1, Inductive, PTL

(* Two goroutines that hold the same volume went through the same map      *)
(* entry, whose mutex has one holder.                                      *)
LEMMA IInvMutualExclusion == IInv => MutualExclusion
<1> SUFFICES ASSUME IInv, NEW t \in Threads, NEW u \in Threads,
                    pc[t] = "held", pc[u] = "held", key[t] = key[u]
             PROVE  t = u
  BY DEF MutualExclusion
<1>1. entry[t] = entry[u]
  BY DEF IInv, EntryInMap, Busy
<1>2. QED
  BY <1>1 DEF IInv, MutexHeld

(* keylock.go serializes the operations of each volume: at most one        *)
(* goroutine is between Lock and unlock of a key, for any number of them.  *)
THEOREM Exclusion == Spec => []MutualExclusion
<1>1. QED
  BY Inductive, IInvMutualExclusion, PTL

(* keylock.go keeps an entry for the keys in use and for no other: the map *)
(* does not grow with the volumes the node has served.                     *)
THEOREM MapIsTight == Spec => []NoIdleEntry
<1>1. IInv => NoIdleEntry
  <2> SUFFICES ASSUME IInv, NEW k \in Keys
               PROVE  locks[k] # NoEntry <=> \E t \in Threads : pc[t] # "idle" /\ key[t] = k
    BY DEF NoIdleEntry
  <2>1. ASSUME locks[k] # NoEntry
        PROVE  \E t \in Threads : pc[t] # "idle" /\ key[t] = k
    <3>1. PICK t \in Threads : entry[t] = locks[k]
      BY <2>1 DEF IInv, OneKeyPerEntry, Users
    <3>2. Busy(t) /\ locks[key[t]] = locks[k] /\ key[t] \in Keys
      BY <2>1, <3>1 DEF IInv, EntryInMap, TypeOK
    <3>3. QED
      BY <2>1, <3>2 DEF IInv, OneKeyPerEntry, Busy
  <2>2. ASSUME NEW t \in Threads, pc[t] # "idle", key[t] = k
        PROVE  locks[k] # NoEntry
    BY <2>2 DEF IInv, EntryInMap, Busy
  <2>3. QED
    BY <2>1, <2>2
<1>2. QED
  BY <1>1, Inductive, PTL

-----------------------------------------------------------------------------
(* Holder(k) is the one goroutine in the section of k. *)
HolderCorrect ==
  \A k \in Keys :
    /\ Holder(k) \in Threads \cup {NoThread}
    /\ \A t \in Threads : Holder(k) = t <=> pc[t] = "held" /\ key[t] = k

LEMMA HolderOf == IInv => HolderCorrect
<1> SUFFICES ASSUME IInv, NEW k \in Keys
             PROVE  /\ Holder(k) \in Threads \cup {NoThread}
                    /\ \A t \in Threads : Holder(k) = t <=> pc[t] = "held" /\ key[t] = k
  BY DEF HolderCorrect
<1>1. \A t, u \in Threads : pc[t] = "held" /\ key[t] = k /\ pc[u] = "held" /\ key[u] = k => t = u
  BY IInvMutualExclusion DEF MutualExclusion
<1>2. CASE \E t \in Threads : pc[t] = "held" /\ key[t] = k
  BY <1>1, <1>2 DEF Holder
<1>3. CASE ~ \E t \in Threads : pc[t] = "held" /\ key[t] = k
  BY <1>3, NoThreadAssumption DEF Holder
<1>4. QED
  BY <1>2, <1>3

(* The map of volumes to mutexes implements a plain lock per volume. *)
THEOREM Refinement == Spec => ImplementsVolumeLock
<1> DEFINE holder == [k \in Keys |-> Holder(k)]
           wants == [t \in Threads |-> Wants(t)]
<1>1. Init => Abstract!Init
  BY DEF Init, Abstract!Init, Holder, Wants
<1>2. IInv' => HolderCorrect'
  BY HolderOf, PTL
<1>3. IInv /\ IInv' /\ [Next]_vars => [Abstract!Next]_(Abstract!vars)
  <2> SUFFICES ASSUME IInv, IInv', [Next]_vars
               PROVE  Abstract!Next \/ UNCHANGED <<holder, wants>>
    BY DEF Abstract!vars
  <2>1. TypeOK /\ TypeOK'
    BY DEF IInv
  <2>2. HolderCorrect
    BY HolderOf
  <2>3. HolderCorrect'
    BY <1>2
  <2>4. ASSUME NEW t \in Threads, NEW k \in Keys, Enter(t, k) PROVE Abstract!Request(t, k)
    <3>1. /\ pc[t] = "idle" /\ key' = [key EXCEPT ![t] = k] /\ pc' = [pc EXCEPT ![t] = "wait"]
      BY <2>4 DEF Enter
    <3>2. \A j \in Keys : Holder(j)' = Holder(j)
      BY <3>1, <2>1, <2>2, <2>3, NoThreadAssumption DEF TypeOK, HolderCorrect
    <3>3. \A u \in Threads : Wants(u)' = IF u = t THEN {k} ELSE Wants(u)
      BY <3>1, <2>1 DEF TypeOK, Wants
    <3>4. Wants(t) = {} /\ \A j \in Keys : Holder(j) # t
      BY <3>1, <2>2 DEF Wants, HolderCorrect
    <3>5. QED
      BY <3>2, <3>3, <3>4 DEF Abstract!Request
  <2>5. ASSUME NEW t \in Threads, Acquire(t) PROVE Abstract!Grant(t, key[t])
    <3>1. /\ pc[t] = "wait" /\ mutex[entry[t]] = NoThread /\ UNCHANGED <<entry, key>>
          /\ pc' = [pc EXCEPT ![t] = "held"]
      BY <2>5 DEF Acquire
    <3>2. Holder(key[t]) = NoThread
      <4>1. ASSUME NEW u \in Threads, Holder(key[t]) = u PROVE FALSE
        <5>1. pc[u] = "held" /\ key[u] = key[t]
          BY <4>1, <2>1, <2>2 DEF TypeOK, HolderCorrect
        <5>2. mutex[entry[u]] = u /\ entry[u] = entry[t]
          BY <5>1, <3>1 DEF IInv, MutexHeld, EntryInMap, Busy
        <5>3. QED
          BY <5>2, <3>1, NoThreadAssumption
      <4>2. QED
        BY <4>1, <2>1, <2>2 DEF TypeOK, HolderCorrect
    <3>3. \A j \in Keys : Holder(j)' = IF j = key[t] THEN t ELSE Holder(j)
      <4> TAKE j \in Keys
      <4>1. CASE j = key[t]
        BY <4>1, <3>1, <2>1, <2>3 DEF TypeOK, HolderCorrect
      <4>2. CASE j # key[t]
        BY <4>2, <3>1, <2>1, <2>2, <2>3, NoThreadAssumption DEF TypeOK, HolderCorrect
      <4>3. QED
        BY <4>1, <4>2
    <3>4. \A u \in Threads : Wants(u)' = IF u = t THEN {} ELSE Wants(u)
      BY <3>1, <2>1 DEF TypeOK, Wants
    <3>5. Wants(t) = {key[t]} /\ key[t] \in Keys
      BY <3>1, <2>1 DEF Wants, TypeOK
    <3>6. QED
      BY <3>2, <3>3, <3>4, <3>5 DEF Abstract!Grant
  <2>6. ASSUME NEW t \in Threads, Unlock(t) PROVE Abstract!Release(t, key[t])
    <3>1. /\ pc[t] = "held" /\ key' = key /\ pc' = [pc EXCEPT ![t] = "leave"]
      BY <2>6 DEF Unlock
    <3>2. Holder(key[t]) = t /\ key[t] \in Keys
      BY <3>1, <2>1, <2>2 DEF TypeOK, HolderCorrect
    <3>3. \A j \in Keys : Holder(j)' = IF j = key[t] THEN NoThread ELSE Holder(j)
      BY <3>1, <3>2, <2>1, <2>2, <2>3, NoThreadAssumption DEF TypeOK, HolderCorrect
    <3>4. \A u \in Threads : Wants(u)' = Wants(u)
      BY <3>1, <2>1 DEF TypeOK, Wants
    <3>5. QED
      BY <3>2, <3>3, <3>4 DEF Abstract!Release
  <2>7. ASSUME NEW t \in Threads, Leave(t) PROVE UNCHANGED <<holder, wants>>
    <3>1. /\ pc[t] = "leave" /\ key' = key /\ pc' = [pc EXCEPT ![t] = "idle"]
      BY <2>7 DEF Leave
    <3>2. \A j \in Keys : Holder(j)' = Holder(j)
      BY <3>1, <2>1, <2>2, <2>3, NoThreadAssumption DEF TypeOK, HolderCorrect
    <3>3. \A u \in Threads : Wants(u)' = Wants(u)
      BY <3>1, <2>1 DEF TypeOK, Wants
    <3>4. QED
      BY <3>2, <3>3
  <2>8. CASE UNCHANGED vars
    BY <2>8 DEF vars, Holder, Wants
  <2>9. \A t \in Threads : key[t] \in Keys
    BY <2>1 DEF TypeOK, HolderCorrect
  <2>10. QED
    BY <2>4, <2>5, <2>6, <2>7, <2>8, <2>9 DEF Next, Step, Abstract!Next
<1>4. QED
  BY <1>1, <1>3, Inductive, PTL DEF Spec, ImplementsVolumeLock, Abstract!Spec
=============================================================================
