----------------------------- MODULE VolumeLock -----------------------------
(***************************************************************************)
(* What the per-volume lock of the node plugin promises: one goroutine at  *)
(* a time works on a volume, and different volumes do not wait for each    *)
(* other.  KeyLock shows that the reference-counted map of keylock.go      *)
(* implements it.                                                          *)
(***************************************************************************)
CONSTANTS Threads, Keys, NoThread

VARIABLES holder,    \* Keys -> the thread that works on the key, or NoThread
          wants      \* Threads -> the keys the thread waits for (at most one)

vars == <<holder, wants>>

Init ==
  /\ holder = [k \in Keys |-> NoThread]
  /\ wants = [t \in Threads |-> {}]

Request(t, k) ==
  /\ wants[t] = {}
  /\ \A j \in Keys : holder[j] # t
  /\ wants' = [wants EXCEPT ![t] = {k}]
  /\ UNCHANGED holder

Grant(t, k) ==
  /\ k \in wants[t]
  /\ holder[k] = NoThread
  /\ holder' = [holder EXCEPT ![k] = t]
  /\ wants' = [wants EXCEPT ![t] = {}]

Release(t, k) ==
  /\ holder[k] = t
  /\ holder' = [holder EXCEPT ![k] = NoThread]
  /\ UNCHANGED wants

Next == \E t \in Threads, k \in Keys : Request(t, k) \/ Grant(t, k) \/ Release(t, k)

Spec == Init /\ [][Next]_vars
=============================================================================
