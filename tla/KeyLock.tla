------------------------------ MODULE KeyLock -------------------------------
(***************************************************************************)
(* The per-key lock of the node plugin (internal/driver/keylock.go): a map *)
(* from a volume to a mutex that lives only while somebody uses it.  The   *)
(* map and the reference counts are read and written under keyLock.mu, so  *)
(* each such section is one step here; locking and unlocking the mutex of  *)
(* an entry happens outside that section and is a step of its own.  The    *)
(* hazard is in between: an entry deleted from the map while a goroutine   *)
(* still waits on its mutex would let a third one in through a new entry.  *)
(***************************************************************************)
EXTENDS Naturals, FiniteSets

CONSTANTS
  Threads,      \* goroutines that lock a volume
  Keys,         \* volumes
  Entries,      \* addresses a keyLockEntry may be allocated at
  NoThread,     \* the mutex of an entry is free
  NoEntry       \* no entry in the map, or held by a goroutine

ASSUME NoThreadAssumption == NoThread \notin Threads
ASSUME NoEntryAssumption == NoEntry \notin Entries
ASSUME ThreadsFinite == IsFiniteSet(Threads)

VARIABLES
  locks,        \* keyLock.locks: Keys -> the entry of the key, or NoEntry
  refs,         \* keyLockEntry.refs
  mutex,        \* keyLockEntry.Mutex: the goroutine that holds it
  pc,           \* where each goroutine is
  key,          \* the key it locks
  entry         \* its local variable e

vars == <<locks, refs, mutex, pc, key, entry>>

Init ==
  /\ locks = [k \in Keys |-> NoEntry]
  /\ refs = [e \in Entries |-> 0]
  /\ mutex = [e \in Entries |-> NoThread]
  /\ pc = [t \in Threads |-> "idle"]
  /\ key \in [Threads -> Keys]
  /\ entry = [t \in Threads |-> NoEntry]

-----------------------------------------------------------------------------
(* An address is allocated only once nothing points to it any more. *)
Unreachable(e) ==
  /\ \A k \in Keys : locks[k] # e
  /\ \A t \in Threads : entry[t] # e

(* The section of Lock under l.mu: find or make the entry, take a reference. *)
Enter(t, k) ==
  /\ pc[t] = "idle"
  /\ \E e \in Entries :
       /\ IF locks[k] = NoEntry THEN Unreachable(e) ELSE e = locks[k]
       /\ locks' = [locks EXCEPT ![k] = e]
       /\ refs' = [refs EXCEPT ![e] = IF locks[k] = NoEntry THEN 1 ELSE @ + 1]
       /\ entry' = [entry EXCEPT ![t] = e]
  /\ key' = [key EXCEPT ![t] = k]
  /\ pc' = [pc EXCEPT ![t] = "wait"]
  /\ UNCHANGED mutex

(* e.Lock() returns: the goroutine works on the volume. *)
Acquire(t) ==
  /\ pc[t] = "wait"
  /\ mutex[entry[t]] = NoThread
  /\ mutex' = [mutex EXCEPT ![entry[t]] = t]
  /\ pc' = [pc EXCEPT ![t] = "held"]
  /\ UNCHANGED <<locks, refs, key, entry>>

(* Mutant: e.Unlock() forgotten. *)
UnlockNothing(t) ==
  /\ pc[t] = "held"
  /\ pc' = [pc EXCEPT ![t] = "leave"]
  /\ UNCHANGED <<locks, refs, mutex, key, entry>>

(* unlock, first half: e.Unlock(). *)
Unlock(t) ==
  /\ pc[t] = "held"
  /\ mutex' = [mutex EXCEPT ![entry[t]] = NoThread]
  /\ pc' = [pc EXCEPT ![t] = "leave"]
  /\ UNCHANGED <<locks, refs, key, entry>>

(* Mutants: the entry deleted whoever else uses it; the entry never deleted. *)
LeaveAndDelete(t) ==
  /\ pc[t] = "leave"
  /\ refs' = [refs EXCEPT ![entry[t]] = @ - 1]
  /\ locks' = [locks EXCEPT ![key[t]] = NoEntry]
  /\ entry' = [entry EXCEPT ![t] = NoEntry]
  /\ pc' = [pc EXCEPT ![t] = "idle"]
  /\ UNCHANGED <<mutex, key>>

LeaveAndKeep(t) ==
  /\ pc[t] = "leave"
  /\ refs' = [refs EXCEPT ![entry[t]] = @ - 1]
  /\ entry' = [entry EXCEPT ![t] = NoEntry]
  /\ pc' = [pc EXCEPT ![t] = "idle"]
  /\ UNCHANGED <<locks, mutex, key>>

(* unlock, second half, under l.mu: the last reference deletes the entry. *)
Leave(t) ==
  /\ pc[t] = "leave"
  /\ refs' = [refs EXCEPT ![entry[t]] = @ - 1]
  /\ locks' = IF refs[entry[t]] = 1 THEN [locks EXCEPT ![key[t]] = NoEntry] ELSE locks
  /\ entry' = [entry EXCEPT ![t] = NoEntry]
  /\ pc' = [pc EXCEPT ![t] = "idle"]
  /\ UNCHANGED <<mutex, key>>

Step(t) == (\E k \in Keys : Enter(t, k)) \/ Acquire(t) \/ Unlock(t) \/ Leave(t)

Next == \E t \in Threads : Step(t)

Spec == Init /\ [][Next]_vars

(* A goroutine inside its section ends it, and sync.Mutex is starvation    *)
(* free: a waiter that has waited 1 ms is handed the mutex (strong         *)
(* fairness of Acquire).                                                   *)
Fairness ==
  \A t \in Threads : SF_vars(Acquire(t)) /\ WF_vars(Unlock(t)) /\ WF_vars(Leave(t))

FairSpec == Spec /\ Fairness

-----------------------------------------------------------------------------
TypeOK ==
  /\ locks \in [Keys -> Entries \cup {NoEntry}]
  /\ refs \in [Entries -> Nat]
  /\ mutex \in [Entries -> Threads \cup {NoThread}]
  /\ pc \in [Threads -> {"idle", "wait", "held", "leave"}]
  /\ key \in [Threads -> Keys]
  /\ entry \in [Threads -> Entries \cup {NoEntry}]

(* Two goroutines never work on one volume at a time, although each found  *)
(* its mutex through a map entry that comes and goes (keylock.go:8).       *)
MutualExclusion ==
  \A t, u \in Threads :
    pc[t] = "held" /\ pc[u] = "held" /\ key[t] = key[u] => t = u

(* The map holds an entry for exactly the keys somebody uses: nothing is   *)
(* left behind once the last goroutine is gone, so it does not grow with   *)
(* every volume the node ever saw (keylock.go:36).                         *)
NoIdleEntry ==
  \A k \in Keys : locks[k] # NoEntry <=> \E t \in Threads : pc[t] # "idle" /\ key[t] = k

(* A goroutine that waits for a volume gets it, whatever the other         *)
(* goroutines and volumes do.                                              *)
NoStarvation == \A t \in Threads : pc[t] = "wait" ~> pc[t] = "held"

(* The goroutine between e.Lock() and e.Unlock() of a key, whichever entry *)
(* it went through, and the keys a goroutine waits for.                    *)
Holder(k) ==
  LET InSection(t) == pc[t] = "held" /\ key[t] = k
  IN  IF \E t \in Threads : InSection(t) THEN CHOOSE t \in Threads : InSection(t) ELSE NoThread

Wants(t) == IF pc[t] = "wait" THEN {key[t]} ELSE {}

Abstract == INSTANCE VolumeLock WITH
  holder <- [k \in Keys |-> Holder(k)],
  wants <- [t \in Threads |-> Wants(t)]

(* The reference-counted map behaves as one plain lock per volume: every   *)
(* step of keylock.go asks for, grants or releases a volume, or is         *)
(* invisible (the clean-up of the map in unlock).                          *)
ImplementsVolumeLock == Abstract!Spec
=============================================================================
