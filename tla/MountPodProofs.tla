--------------------------- MODULE MountPodProofs ---------------------------
(***************************************************************************)
(* Proofs about MountPod, for every number of configurations and UIDs,     *)
(* every MaxFatalExits and every bound on faults and crashes.  The modes   *)
(* LostResponses and HungKubelet are hypotheses of the theorems that need  *)
(* them.                                                                   *)
(***************************************************************************)
EXTENDS MountPod, TLAPS

USE NoHashAssumption, NoUidAssumption, MaxFatalAssumption, BoundsAssumption, ModesAssumption

(* Objects are what buildPod makes them, no object is NoPod itself, and    *)
(* only a container that ended has an exit code.                           *)
PodShape ==
  /\ pod = NoPod \/ (pod.uid \in Uids /\ pod.hash \in Hashes)
  /\ pod.fatal => pod.status = "exited"
  /\ late = NoPod \/ (\E u \in Uids, h \in Hashes : late = NewPod(u, h))

(* What a call carries from one request to the next. *)
CallShape ==
  /\ call.op = "Ensure" => call.hash \in Hashes
  /\ call.pc = "createPod" => \E u \in Uids : call.seen = NewPod(u, call.hash) /\ call.op = "Ensure"

(* The UID of a pod to be created is that of no pod seen so far. *)
UidsDistinct ==
  /\ late # NoPod => late.uid # pod.uid /\ late.uid # backoff.lastPod
  /\ call.pc = "createPod" => call.seen.uid \notin {pod.uid, late.uid, backoff.lastPod}

(* The pod, while its end is not counted in the current backoff. *)
Uncounted == PodsOf(pod, backoff.hash, backoff.lastPod)

(* The history of the give-up covers the exits counted and the pod there   *)
(* is.                                                                     *)
SeriesCovers == backoff.fatal + Uncounted <= series

(* The last exit counted is that of the pod there is: it was fatal or the  *)
(* count started again.                                                    *)
LastExitCounted ==
  Exists /\ backoff.lastPod = pod.uid /\ ~ pod.fatal => backoff.fatal = 0

IInv == TypeOK /\ PodShape /\ CallShape /\ UidsDistinct /\ SeriesCovers /\ LastExitCounted

-----------------------------------------------------------------------------
(* Helpers of the memory: types, and what they do to the number of exits.  *)

LEMMA PodTypes ==
  /\ NoPod \in Pods
  /\ \A u \in Uids, h \in Hashes : NewPod(u, h) \in Pods
  /\ \A u \in Uids, h \in Hashes : NewPod(u, h).uid = u /\ NewPod(u, h).hash = h
  /\ NoPod.uid = NoUid /\ NoPod.hash = NoHash
BY DEF NoPod, NewPod, Pods, Status

LEMMA BackoffTypes ==
  ASSUME NEW b \in Backoffs, NEW h \in Hashes \cup {NoHash}
  PROVE  /\ FreshBackoff(h) \in Backoffs /\ NoBackoff \in Backoffs
         /\ Reset(b) \in Backoffs /\ Reset(b).hash = b.hash /\ Reset(b).lastPod = b.lastPod
         /\ Reset(b).fatal = 0
         /\ Entry(b, h) \in Backoffs /\ Entry(b, h).hash = h
         /\ b.hash = h => Entry(b, h) = b
         /\ b.hash # h => Entry(b, h).fatal = 0 /\ Entry(b, h).lastPod = NoUid
BY DEF Backoffs, FreshBackoff, NoBackoff, Reset, Entry

LEMMA RecordExitType ==
  ASSUME NEW e \in Backoffs, NEW p \in Pods
  PROVE  /\ RecordExit(e, p) \in Backoffs
         /\ RecordExit(e, p).hash = e.hash
         /\ RecordExit(e, p).lastPod = p.uid
         /\ e.lastPod = p.uid => RecordExit(e, p) = e
         /\ e.lastPod # p.uid => RecordExit(e, p).fatal = IF p.fatal THEN e.fatal + 1 ELSE 0
<1> DEFINE fatal == IF p.fatal THEN e.fatal + 1 ELSE 0
           counted == [e EXCEPT !.lastPod = p.uid, !.fatal = fatal]
<1>1. fatal \in Nat /\ p.uid \in Uids \cup {NoUid}
  BY DEF Backoffs, Pods
<1>2. /\ counted \in Backoffs /\ counted.hash = e.hash /\ counted.lastPod = p.uid
      /\ counted.fatal = fatal
  BY <1>1 DEF Backoffs
<1> HIDE DEF fatal
<1>3. RecordExit(e, p) = IF e.lastPod = p.uid THEN e
                         ELSE IF fatal >= MaxFatalExits THEN [counted EXCEPT !.gaveUp = TRUE, !.due = TRUE]
                         ELSE [counted EXCEPT !.due = FALSE]
  BY DEF RecordExit, fatal
<1> HIDE DEF counted
<1>4. CASE e.lastPod = p.uid
  BY <1>3, <1>4
<1>5. CASE e.lastPod # p.uid
  <2>1. RecordExit(e, p) \in { [counted EXCEPT !.gaveUp = TRUE, !.due = TRUE], [counted EXCEPT !.due = FALSE] }
    BY <1>3, <1>5
  <2>2. /\ RecordExit(e, p) \in Backoffs /\ RecordExit(e, p).hash = e.hash
        /\ RecordExit(e, p).lastPod = p.uid /\ RecordExit(e, p).fatal = fatal
    BY <2>1, <1>2 DEF Backoffs
  <2>3. QED
    BY <2>2, <1>5 DEF fatal
<1>6. QED
  BY <1>4, <1>5

(* What Ensure leaves in memory of the pod it found, and its history: the  *)
(* exits counted and the uncounted pod stay covered by the series.         *)
LEMMA ObserveCovers ==
  ASSUME NEW b \in Backoffs, NEW h \in Hashes, NEW p \in Pods, p.uid \in Uids, p.hash \in Hashes,
         series \in Nat,
         b.fatal + PodsOf(p, b.hash, b.lastPod) <= series,
         b.lastPod = p.uid /\ ~ p.fatal => b.fatal = 0
  PROVE  /\ Observe(b, h, p) \in Backoffs /\ Observe(b, h, p).hash = h
         /\ SeriesAfter(b, h, p) \in Nat
         /\ Observe(b, h, p).fatal + PodsOf(p, h, Observe(b, h, p).lastPod) <= SeriesAfter(b, h, p)
         /\ Observe(b, h, p).lastPod \in {b.lastPod, NoUid, p.uid}
         /\ Observe(b, h, p).lastPod = p.uid /\ ~ p.fatal => Observe(b, h, p).fatal = 0
<1> DEFINE e == Entry(b, h)
           c == CountExit(b, h, p)
           start == IF b.hash = h THEN series
                    ELSE PodsOf(p, h, NoUid) + IF b = NoBackoff THEN series ELSE 0
<1>1. e \in Backoffs /\ e.hash = h /\ e.fatal + PodsOf(p, h, e.lastPod) <= start /\ start \in Nat
  BY BackoffTypes DEF PodsOf, Backoffs
<1>2. e.lastPod \in {b.lastPod, NoUid} /\ (e.lastPod = p.uid /\ ~ p.fatal => e.fatal = 0)
  BY BackoffTypes
<1>6. c \in Backoffs /\ c.hash = h /\ c.lastPod \in {e.lastPod, p.uid}
      /\ (c.lastPod = p.uid /\ ~ p.fatal => c.fatal = 0)
  BY <1>1, <1>2, RecordExitType DEF CountExit
<1>7. /\ Observe(b, h, p) \in Backoffs /\ Observe(b, h, p).hash = h
      /\ Observe(b, h, p).lastPod \in {b.lastPod, NoUid, p.uid}
      /\ Observe(b, h, p).lastPod = p.uid /\ ~ p.fatal => Observe(b, h, p).fatal = 0
  BY <1>2, <1>6, BackoffTypes DEF Observe
<1> DEFINE Covered == /\ SeriesAfter(b, h, p) \in Nat
                      /\ Observe(b, h, p).fatal + PodsOf(p, h, Observe(b, h, p).lastPod)
                           <= SeriesAfter(b, h, p)
<1>3. ASSUME StartsOver(c, p) PROVE Covered
  <2>1. Observe(b, h, p) = Reset(c) /\ SeriesAfter(b, h, p) = 0
    BY <1>3 DEF Observe, SeriesAfter
  <2>2. Reset(c) \in Backoffs /\ Reset(c).hash = h /\ Reset(c).fatal = 0 /\ Reset(c).lastPod = c.lastPod
    BY <1>6, BackoffTypes
  <2>3. PodsOf(p, h, c.lastPod) = 0
    <3>1. CASE p.hash # h
      BY <3>1 DEF PodsOf
    <3>2. CASE p.hash = h
      <4>1. c = RecordExit(e, p)
        BY <1>3, <3>2 DEF StartsOver, CountExit
      <4>2. QED
        BY <4>1, <1>1, RecordExitType DEF PodsOf
    <3>3. QED
      BY <3>1, <3>2
  <2>4. QED
    BY <2>1, <2>2, <2>3
<1>4. ASSUME ~ StartsOver(c, p) PROVE Covered
  <2>1. Observe(b, h, p) = c
    BY <1>4 DEF Observe
  <2>2. CASE Finished(p) /\ p.hash = h
    <3>1. c = RecordExit(e, p) /\ c.lastPod = p.uid /\ PodsOf(p, h, c.lastPod) = 0
      BY <2>2, <1>1, RecordExitType DEF CountExit, PodsOf
    <3>2. CASE ~ p.fatal
      <4>1. SeriesAfter(b, h, p) = 0
        BY <2>2, <3>2 DEF SeriesAfter
      <4>2. c.fatal = 0
        BY <3>1, <3>2, <1>1, <1>6, RecordExitType
      <4>3. QED
        BY <4>1, <4>2, <3>1, <2>1, <1>6
    <3>3. CASE p.fatal
      <4>1. SeriesAfter(b, h, p) = start
        BY <2>2, <3>3, <1>4 DEF SeriesAfter
      <4>2. e.lastPod = p.uid => c.fatal <= start
        BY <1>1, <3>1, RecordExitType DEF PodsOf, Backoffs
      <4>3. e.lastPod # p.uid => c.fatal = e.fatal + 1 /\ PodsOf(p, h, e.lastPod) = 1
        BY <1>1, <2>2, <3>1, <3>3, RecordExitType DEF PodsOf
      <4>4. c.fatal \in Nat /\ e.fatal \in Nat
        BY <1>1, <1>6 DEF Backoffs
      <4>5. QED
        BY <4>1, <4>2, <4>3, <4>4, <3>1, <2>1, <1>1, <1>6
    <3>4. QED
      BY <3>2, <3>3 DEF Pods
  <2>3. CASE ~ (Finished(p) /\ p.hash = h)
    <3>1. c = e /\ SeriesAfter(b, h, p) = start
      BY <2>3, <1>4 DEF CountExit, SeriesAfter
    <3>2. QED
      BY <3>1, <2>1, <1>1
  <2>4. QED
    BY <2>2, <2>3
<1>5. QED
  BY <1>3, <1>4, <1>7

-----------------------------------------------------------------------------
(* The ways a call goes on. *)
LEMMA Moves ==
  ASSUME TypeOK
  PROVE  /\ \A q \in PCs : Goto(q) =>
              /\ call' \in Calls /\ call'.pc = q
              /\ call'.op = call.op /\ call'.hash = call.hash /\ call'.seen = call.seen
         /\ \A r \in Results : Return(r) =>
              call' \in Calls /\ call'.pc = "idle" /\ call'.op = call.op /\ call'.hash = call.hash
         /\ \A q \in PCs, p \in Pods : GotoWith(q, p) =>
              /\ call' \in Calls /\ call'.pc = q
              /\ call'.op = call.op /\ call'.hash = call.hash /\ call'.seen = p
<1>1. call \in Calls
  BY DEF TypeOK
<1>2. ASSUME NEW q \in PCs, Goto(q)
      PROVE  /\ call' \in Calls /\ call'.pc = q
             /\ call'.op = call.op /\ call'.hash = call.hash /\ call'.seen = call.seen
  BY <1>1, <1>2 DEF Calls, Goto
<1>3. ASSUME NEW r \in Results, Return(r)
      PROVE  call' \in Calls /\ call'.pc = "idle" /\ call'.op = call.op /\ call'.hash = call.hash
  BY <1>1, <1>3, PodTypes DEF Calls, Return, PCs
<1>4. ASSUME NEW q \in PCs, NEW p \in Pods, GotoWith(q, p)
      PROVE  /\ call' \in Calls /\ call'.pc = q
             /\ call'.op = call.op /\ call'.hash = call.hash /\ call'.seen = p
  BY <1>1, <1>4 DEF Calls, GotoWith
<1>5. QED
  BY <1>2, <1>3, <1>4

LEMMA DecideMoves ==
  ASSUME TypeOK, NEW b, Decide(b)
  PROVE  /\ call' \in Calls /\ call'.pc \in {"idle", "recheck"}
         /\ call'.op = call.op /\ call'.hash = call.hash
BY Moves DEF Decide, Results, PCs

(* A request of a call leaves the method and the configuration, and only   *)
(* CreateSecret leads to the creation of a pod.                            *)
LEMMA CallMoves ==
  ASSUME TypeOK, CallStep
  PROVE  /\ call' \in Calls /\ call'.op = call.op /\ call'.hash = call.hash
         /\ call'.pc = "createPod" => CreateSecret
<1> DEFINE Moved == /\ call' \in Calls /\ call'.op = call.op /\ call'.hash = call.hash
                    /\ call'.pc # "createPod"
<1>1. pod \in Pods /\ call \in Calls
  BY DEF TypeOK
<1>2. EnsureGet => Moved
  BY <1>1, Moves, DecideMoves DEF EnsureGet, FailsWith, Results, PCs
<1>3. Recheck => Moved
  BY Moves DEF Recheck, FailsWith, Results, PCs
<1>4. Prepare => Moved
  BY Moves DEF Prepare, Results, PCs
<1>5. Sweep => Moved
  BY Moves DEF Sweep, FailsWith, Results, PCs
<1>6. CreateSecret => call' \in Calls /\ call'.op = call.op /\ call'.hash = call.hash
  <2> SUFFICES ASSUME CreateSecret PROVE call' \in Calls /\ call'.op = call.op /\ call'.hash = call.hash
    OBVIOUS
  <2>1. \A u \in FreshUids : NewPod(u, call.hash) \in Pods
    BY <1>1 DEF FreshUids, Calls, NewPod, Pods, Status
  <2>2. QED
    BY <2>1, Moves DEF CreateSecret, FailsWith, Results, PCs
<1>7. CreatePod => Moved
  <2>1. ASSUME CreatePod, Goto("ownSecret") PROVE Moved
    BY <2>1, Moves DEF PCs
  <2>2. ASSUME NEW r \in {"terminating", "error"}, call' = [call EXCEPT !.pc = "undo", !.result = r]
        PROVE  Moved
    BY <2>2, <1>1 DEF Calls, PCs, Results
  <2>3. QED
    BY <2>1, <2>2 DEF CreatePod
<1>8. Undo => Moved
  BY <1>1, Moves DEF Undo, Calls
<1>9. OwnSecret => Moved
  BY Moves DEF OwnSecret, FailsWith, Results, PCs
<1>10. RemoveFinalizer => Moved
  BY Moves DEF RemoveFinalizer, Results, PCs
<1>11. ForceDelete => Moved
  BY Moves, DecideMoves DEF ForceDelete, Results, PCs
<1>12. DeleteGet => Moved
  BY <1>1, Moves DEF DeleteGet, FailsWith, Results, PCs
<1>13. DeletePod => Moved
  BY Moves DEF DeletePod, FailsWith, Results, PCs
<1>14. DeleteSecrets => Moved
  BY Moves DEF DeleteSecrets, FailsWith, Results, PCs
<1>15. QED
  BY <1>2, <1>3, <1>4, <1>5, <1>6, <1>7, <1>8, <1>9, <1>10, <1>11, <1>12, <1>13, <1>14 DEF CallStep

-----------------------------------------------------------------------------
(* A pod stays a pod whatever the kubelet, the API server or a person does *)
(* to it.                                                                  *)
LEMMA PodUpdates ==
  ASSUME NEW p \in Pods, NEW f \in BOOLEAN
  PROVE  /\ [p EXCEPT !.started = TRUE] \in Pods
         /\ [p EXCEPT !.status = "running"] \in Pods
         /\ [p EXCEPT !.status = "exited"] \in Pods
         /\ [p EXCEPT !.status = "exited", !.fatal = f] \in Pods
         /\ [p EXCEPT !.stuck = TRUE] \in Pods
         /\ [p EXCEPT !.finalizer = FALSE] \in Pods
         /\ Deleted(p) \in Pods
BY DEF Pods, Status, Deleted

(* A step that leaves the pods and the backoff alone, and leads to no      *)
(* creation it was not on the way to, keeps the invariant.                 *)
LEMMA Untouched ==
  ASSUME IInv, TypeOK', CallShape', UNCHANGED <<pod, late, backoff, series>>,
         call'.pc = "createPod" => call.pc = "createPod" /\ call'.seen = call.seen
  PROVE  IInv'
BY DEF IInv, PodShape, UidsDistinct, SeriesCovers, LastExitCounted, Uncounted, Exists

(* A step that only changes the state of the pod there is, its identity    *)
(* and what its exit said aside.                                           *)
LEMMA SamePod ==
  ASSUME IInv, Exists, pod' \in Pods, pod'.uid = pod.uid, pod'.hash = pod.hash,
         pod.fatal => pod'.fatal, pod'.fatal => pod'.status = "exited",
         UNCHANGED <<late, secrets, owned, backoff, series, probe, crashes>>,
         live' \subseteq Uids, spool' \subseteq Uids, faults' \in 0..MaxFaults, call' \in Calls,
         call'.op = call.op, call'.hash = call.hash, call'.pc # "createPod" \/ call' = call
  PROVE  IInv'
<1>1. TypeOK'
  BY DEF IInv, TypeOK
<1>2. PodShape' /\ UidsDistinct' /\ CallShape'
  BY PodTypes DEF IInv, PodShape, UidsDistinct, CallShape, Exists
<1>3. SeriesCovers' /\ LastExitCounted'
  BY DEF IInv, SeriesCovers, Uncounted, PodsOf, LastExitCounted, Exists, TypeOK, Pods
<1>4. QED
  BY <1>1, <1>2, <1>3 DEF IInv

(* The history without an uncounted pod still covers the exits counted. *)
LEMMA WithoutCovers ==
  ASSUME IInv
  PROVE  /\ SeriesWithout \in Nat /\ backoff.fatal <= SeriesWithout
         /\ series \in Nat /\ backoff.fatal <= series /\ backoff.fatal \in Nat
<1>1. PodsOf(pod, backoff.hash, backoff.lastPod) \in {0, 1} /\ backoff.fatal \in Nat /\ series \in Nat
  BY DEF IInv, TypeOK, Backoffs, PodsOf
<1>2. QED
  BY <1>1 DEF IInv, SeriesCovers, SeriesWithout, Uncounted

(* A step after which there is no pod. *)
LEMMA PodGone ==
  ASSUME IInv, pod' = NoPod, late' = late, TypeOK', CallShape',
         backoff'.fatal <= series',
         backoff'.lastPod \in {backoff.lastPod, NoUid},
         call'.pc = "createPod" => call.pc = "createPod" /\ call'.seen = call.seen
  PROVE  IInv'
<1>1. PodShape'
  BY DEF IInv, PodShape, NoPod, NewPod
<1>2. late # NoPod => late.uid # NoUid
  BY PodTypes DEF IInv, PodShape
<1>3. call.pc = "createPod" => call.seen.uid # NoUid
  BY PodTypes DEF IInv, CallShape, TypeOK, Calls
<1>4. UidsDistinct'
  BY <1>2, <1>3, PodTypes DEF IInv, UidsDistinct
<1>5. PodsOf(NoPod, backoff'.hash, backoff'.lastPod) = 0 /\ backoff'.fatal \in Nat /\ series' \in Nat
  BY PodTypes DEF PodsOf, TypeOK, Backoffs
<1>6. SeriesCovers' /\ LastExitCounted'
  BY <1>5, PodTypes DEF SeriesCovers, Uncounted, LastExitCounted, Exists
<1>7. QED
  BY <1>1, <1>4, <1>6 DEF IInv

-----------------------------------------------------------------------------
(* The requests of a call, one lemma per request that touches the pod or   *)
(* the memory.                                                             *)

LEMMA EnsureGetIInv == IInv /\ EnsureGet => IInv'
<1> SUFFICES ASSUME IInv, EnsureGet PROVE IInv'
  OBVIOUS
<1>1. /\ call' \in Calls /\ call'.op = call.op /\ call'.hash = call.hash /\ call'.pc # "createPod"
      /\ CallShape'
  BY CallMoves DEF CallStep, IInv, EnsureGet, CreateSecret, At, CallShape
<1>2. CASE FailsWith(Return("error"))
  <2>1. TypeOK'
    BY <1>1, <1>2 DEF FailsWith, Fault, IInv, TypeOK, apiVars, hostVars, memVars
  <2>2. QED
    BY <1>1, <1>2, <2>1, Untouched DEF FailsWith, apiVars, memVars
<1>3. CASE ~ FailsWith(Return("error"))
  <2> DEFINE b == IF Exists THEN Observe(backoff, call.hash, pod) ELSE Entry(backoff, call.hash)
  <2>1. /\ UNCHANGED <<pod, late, secrets, owned, live, spool, probe, crashes, faults>>
        /\ backoff' = b /\ series' = SeriesAfter(backoff, call.hash, pod)
    BY <1>3 DEF EnsureGet, NoFault, apiVars, hostVars
  <2>2. call.hash \in Hashes /\ backoff \in Backoffs /\ pod \in Pods
    BY DEF EnsureGet, At, IInv, CallShape, TypeOK
  <2>3. CASE Exists
    <3>1. pod.uid \in Uids /\ pod.hash \in Hashes
      BY <2>3, PodTypes DEF Exists, IInv, PodShape
    <3>2. backoff.lastPod = pod.uid /\ ~ pod.fatal => backoff.fatal = 0
      BY <2>3 DEF IInv, LastExitCounted
    <3>3. series \in Nat /\ backoff.fatal + PodsOf(pod, backoff.hash, backoff.lastPod) <= series
      BY DEF IInv, SeriesCovers, Uncounted, TypeOK
    <3>4. /\ b \in Backoffs /\ b.hash = call.hash
          /\ series' \in Nat
          /\ b.fatal + PodsOf(pod, call.hash, b.lastPod) <= series'
          /\ b.lastPod \in {backoff.lastPod, NoUid, pod.uid}
          /\ b.lastPod = pod.uid /\ ~ pod.fatal => b.fatal = 0
      BY <2>1, <2>2, <2>3, <3>1, <3>2, <3>3, ObserveCovers
    <3> HIDE DEF b
    <3>5. TypeOK'
      BY <1>1, <2>1, <3>4 DEF IInv, TypeOK
    <3>6. SeriesCovers' /\ LastExitCounted'
      BY <2>1, <3>4 DEF SeriesCovers, Uncounted, LastExitCounted, Exists
    <3>7. UidsDistinct'
      BY <1>1, <2>1, <3>4, PodTypes DEF IInv, UidsDistinct, PodShape
    <3>8. QED
      BY <1>1, <2>1, <3>5, <3>6, <3>7 DEF IInv, PodShape
  <2>4. CASE ~ Exists
    <3>1. pod = NoPod
      BY <2>4 DEF Exists, IInv, PodShape
    <3>2. b \in Backoffs /\ b.lastPod \in {backoff.lastPod, NoUid} /\ (b = backoff \/ b.fatal = 0)
      BY <2>2, <2>4, BackoffTypes
    <3>3. series' \in {0, series} \/ series' = 0 + series
      BY <2>1, <3>1, PodTypes DEF SeriesAfter, PodsOf
    <3>4. series' \in Nat /\ (b = backoff => series' = series)
      <4>1. series \in Nat
        BY DEF IInv, TypeOK
      <4>2. b = backoff => backoff.hash = call.hash
        BY <2>2, <2>4, BackoffTypes
      <4>3. ~ Finished(pod) /\ ~ pod.deleted
        BY <3>1 DEF Finished, NoPod, NewPod
      <4>4. b = backoff => series' = series
        BY <2>1, <4>2, <4>3 DEF SeriesAfter, StartsOver
      <4>5. QED
        BY <4>1, <4>4, <3>3
    <3> HIDE DEF b
    <3>5. TypeOK'
      BY <1>1, <2>1, <3>2, <3>4 DEF IInv, TypeOK
    <3>6. backoff'.fatal <= series'
      BY <2>1, <3>2, <3>4, WithoutCovers
    <3>7. QED
      BY <1>1, <2>1, <3>1, <3>2, <3>5, <3>6, PodGone
  <2>5. QED
    BY <2>3, <2>4
<1>4. QED
  BY <1>2, <1>3

LEMMA CreateSecretIInv == IInv /\ CreateSecret => IInv'
<1> SUFFICES ASSUME IInv, CreateSecret PROVE IInv'
  OBVIOUS
<1>1. call' \in Calls /\ call'.op = "Ensure" /\ call.op = "Ensure" /\ call'.hash = call.hash
  BY CallMoves DEF CallStep, IInv, CreateSecret, At
<1>2. UNCHANGED <<pod, late, owned, hostVars, memVars, crashes>>
  BY DEF CreateSecret, FailsWith, apiVars
<1>3. secrets' \subseteq Uids /\ secrets \subseteq secrets' /\ faults' \in 0..MaxFaults
  BY DEF CreateSecret, FailsWith, Fault, NoFault, FreshUids, apiVars, IInv, TypeOK
<1>4. TypeOK'
  BY <1>1, <1>2, <1>3 DEF IInv, TypeOK, hostVars, memVars
<1>5. CASE call'.pc # "createPod"
  <2>1. CallShape'
    BY <1>1, <1>5 DEF IInv, CallShape
  <2>2. QED
    BY <1>2, <1>4, <1>5, <2>1, Untouched DEF memVars
<1>6. CASE call'.pc = "createPod"
  <2>1. call' # [call EXCEPT !.pc = "idle", !.seen = NoPod, !.result = "error"]
    BY <1>6 DEF IInv, TypeOK, Calls
  <2>2. PICK u \in FreshUids : GotoWith("createPod", NewPod(u, call.hash))
    BY <2>1 DEF CreateSecret, FailsWith, Return
  <2>3. call'.seen = NewPod(u, call.hash) /\ u \in Uids
    BY <2>2 DEF GotoWith, IInv, TypeOK, Calls, FreshUids
  <2>4. CallShape'
    BY <1>1, <2>3 DEF CallShape, IInv
  <2>5. u \notin {pod.uid, late.uid, backoff.lastPod}
    BY <2>2 DEF FreshUids
  <2>6. call'.seen.uid = u
    BY <2>3 DEF NewPod
  <2>7. UidsDistinct'
    BY <1>2, <2>5, <2>6 DEF IInv, UidsDistinct, memVars
  <2>8. PodShape' /\ SeriesCovers' /\ LastExitCounted'
    BY <1>2 DEF IInv, PodShape, SeriesCovers, Uncounted, LastExitCounted, Exists, memVars
  <2>9. QED
    BY <1>4, <2>4, <2>7, <2>8 DEF IInv
<1>7. QED
  BY <1>5, <1>6

(* A pod that appears where there was none: the history counts it if it    *)
(* is of the configuration of the backoff.                                 *)
LEMMA PodAppears ==
  ASSUME IInv, ~ Exists, NEW u \in Uids, NEW h \in Hashes, PodCreated(NewPod(u, h)),
         u # backoff.lastPod, backoff' = backoff, call' \in Calls, call'.pc # "createPod" \/ call' = call,
         call'.op = call.op, call'.hash = call.hash,
         call'.pc = "createPod" => call.seen.uid # u,
         late' = NoPod \/ (late' = late /\ (late # NoPod => late.uid # u)),
         faults' \in 0..MaxFaults, UNCHANGED <<secrets, owned, hostVars, probe, crashes>>
  PROVE  IInv'
<1>1. /\ pod' = NewPod(u, h) /\ pod'.uid = u /\ pod'.hash = h /\ pod' \in Pods /\ ~ pod'.fatal
  BY PodTypes DEF PodCreated, NewPod
<1>2. series' = IF h = backoff.hash THEN series + 1 ELSE series
  BY PodTypes DEF PodCreated
<1>3. series \in Nat /\ backoff.fatal \in Nat /\ backoff.fatal <= series
  BY WithoutCovers
<1>4. TypeOK'
  BY <1>1, <1>2, <1>3, PodTypes DEF IInv, TypeOK, hostVars
<1>5. PodShape' /\ CallShape'
  BY <1>1, PodTypes DEF IInv, PodShape, CallShape
<1>6. UidsDistinct'
  <2>1. late' # NoPod => late'.uid # u /\ late'.uid # backoff.lastPod
    BY DEF IInv, UidsDistinct
  <2>2. ASSUME call'.pc = "createPod"
        PROVE  call'.seen.uid \notin {u, late'.uid, backoff.lastPod}
    <3>1. call' = call /\ call.pc = "createPod" /\ call.seen.uid \in Uids
      BY <2>2, PodTypes DEF IInv, CallShape, TypeOK, Calls
    <3>2. QED
      BY <2>2, <3>1, PodTypes DEF IInv, UidsDistinct
  <2>3. QED
    BY <2>1, <2>2, <1>1 DEF UidsDistinct
<1>7. SeriesCovers'
  <2>1. PodsOf(pod', backoff.hash, backoff.lastPod) = IF h = backoff.hash THEN 1 ELSE 0
    BY <1>1 DEF PodsOf
  <2>2. QED
    BY <2>1, <1>2, <1>3 DEF SeriesCovers, Uncounted
<1>8. LastExitCounted'
  BY <1>1 DEF LastExitCounted
<1>9. QED
  BY <1>4, <1>5, <1>6, <1>7, <1>8 DEF IInv

LEMMA CreatePodIInv == IInv /\ CreatePod => IInv'
<1> SUFFICES ASSUME IInv, CreatePod PROVE IInv'
  OBVIOUS
<1>1. /\ call' \in Calls /\ call'.op = call.op /\ call'.hash = call.hash /\ call'.pc # "createPod"
      /\ CallShape'
  BY CallMoves DEF CallStep, IInv, CreatePod, CreateSecret, At, CallShape
<1>2. UNCHANGED <<secrets, owned, hostVars, backoff, probe, crashes>> /\ faults' \in 0..MaxFaults
  BY DEF CreatePod, Fault, NoFault, IInv, TypeOK
<1>3. PICK u \in Uids : call.seen = NewPod(u, call.hash) /\ call.hash \in Hashes
  BY DEF CreatePod, At, IInv, CallShape
<1>4. u \notin {pod.uid, late.uid, backoff.lastPod}
  BY <1>3, PodTypes DEF CreatePod, At, IInv, UidsDistinct
<1>5. CASE ~ Exists /\ PodCreated(call.seen) /\ UNCHANGED late
  BY <1>1, <1>2, <1>3, <1>4, <1>5, PodAppears
<1>6. CASE UNCHANGED <<pod, late, series>>
  <2>1. TypeOK'
    BY <1>1, <1>2, <1>6 DEF IInv, TypeOK, hostVars
  <2>2. QED
    BY <1>1, <1>2, <1>6, <2>1, Untouched
<1>7. CASE late' = call.seen /\ UNCHANGED <<pod, series>>
  <2>1. late' \in Pods
    BY <1>3, <1>7, PodTypes
  <2>2. TypeOK'
    BY <1>1, <1>2, <1>7, <2>1 DEF IInv, TypeOK, hostVars
  <2>3. PodShape' /\ UidsDistinct'
    BY <1>1, <1>2, <1>3, <1>4, <1>7, PodTypes DEF IInv, PodShape, UidsDistinct
  <2>4. SeriesCovers' /\ LastExitCounted'
    BY <1>2, <1>7 DEF IInv, SeriesCovers, Uncounted, LastExitCounted, Exists
  <2>5. QED
    BY <1>1, <2>2, <2>3, <2>4 DEF IInv
<1>8. QED
  BY <1>5, <1>6, <1>7 DEF CreatePod

LEMMA RemoveFinalizerIInv == IInv /\ RemoveFinalizer => IInv'
<1> SUFFICES ASSUME IInv, RemoveFinalizer PROVE IInv'
  OBVIOUS
<1>1. /\ call' \in Calls /\ call'.op = call.op /\ call'.hash = call.hash /\ call'.pc # "createPod"
      /\ CallShape'
  BY CallMoves DEF CallStep, IInv, RemoveFinalizer, CreateSecret, At, CallShape
<1>2. UNCHANGED <<late, secrets, owned, hostVars, backoff, probe, crashes>> /\ faults' \in 0..MaxFaults
  BY DEF RemoveFinalizer, Fault, NoFault, IInv, TypeOK
<1>3. CASE UNCHANGED <<pod, series>>
  <2>1. TypeOK'
    BY <1>1, <1>2, <1>3 DEF IInv, TypeOK, hostVars
  <2>2. QED
    BY <1>1, <1>2, <1>3, <2>1, Untouched
<1>4. CASE Exists /\ pod' = [pod EXCEPT !.finalizer = FALSE] /\ UNCHANGED series
  <2>1. pod \in Pods /\ (pod.fatal => pod.status = "exited")
    BY DEF IInv, TypeOK, PodShape
  <2>2. pod' \in Pods
    BY <1>4, <2>1, PodUpdates
  <2>3. /\ pod'.uid = pod.uid /\ pod'.hash = pod.hash /\ pod'.fatal = pod.fatal
        /\ pod'.fatal => pod'.status = "exited"
    BY <1>4, <2>1 DEF Pods
  <2>4. QED
    BY <1>1, <1>2, <1>4, <2>2, <2>3, SamePod DEF IInv, TypeOK, hostVars
<1>5. CASE pod' = NoPod /\ series' = SeriesWithout
  <2>1. TypeOK' /\ backoff'.fatal <= series'
    BY <1>1, <1>2, <1>5, WithoutCovers, PodTypes DEF IInv, TypeOK, hostVars
  <2>2. QED
    BY <1>1, <1>2, <1>5, <2>1, PodGone
<1>6. QED
  BY <1>3, <1>4, <1>5 DEF RemoveFinalizer, FinalizerRemoved

LEMMA ForceDeleteIInv == IInv /\ ForceDelete => IInv'
<1> SUFFICES ASSUME IInv, ForceDelete PROVE IInv'
  OBVIOUS
<1>1. /\ call' \in Calls /\ call'.op = call.op /\ call'.hash = call.hash /\ call'.pc # "createPod"
      /\ CallShape'
  BY CallMoves DEF CallStep, IInv, ForceDelete, CreateSecret, At, CallShape
<1>2. UNCHANGED <<late, secrets, owned, hostVars, probe, crashes>> /\ faults' \in 0..MaxFaults
  BY DEF ForceDelete, Fault, NoFault, IInv, TypeOK
<1>3. CASE UNCHANGED <<pod, backoff, series>>
  <2>1. TypeOK'
    BY <1>1, <1>2, <1>3 DEF IInv, TypeOK, hostVars
  <2>2. QED
    BY <1>1, <1>2, <1>3, <2>1, Untouched
<1>4. CASE pod' = NoPod /\ series' = SeriesWithout /\ UNCHANGED backoff
  <2>1. TypeOK' /\ backoff'.fatal <= series'
    BY <1>1, <1>2, <1>4, WithoutCovers, PodTypes DEF IInv, TypeOK, hostVars
  <2>2. QED
    BY <1>1, <1>2, <1>4, <2>1, PodGone
<1>5. CASE /\ pod' = NoPod /\ call.op = "Ensure"
           /\ backoff' = Entry(backoff, call.hash) /\ UNCHANGED series
  <2>1. /\ backoff' \in Backoffs /\ backoff'.lastPod \in {backoff.lastPod, NoUid}
        /\ backoff'.fatal \in {backoff.fatal, 0}
    BY <1>5, BackoffTypes DEF IInv, CallShape, TypeOK
  <2>2. TypeOK' /\ backoff'.fatal <= series'
    BY <1>1, <1>2, <1>5, <2>1, WithoutCovers, PodTypes DEF IInv, TypeOK, hostVars
  <2>3. QED
    BY <1>1, <1>2, <1>5, <2>1, <2>2, PodGone
<1>6. CASE pod' = NoPod /\ (ForgetAll \/ ForgetKeepingGiveUp)
  <2>1. /\ backoff' \in Backoffs /\ backoff'.lastPod \in {backoff.lastPod, NoUid}
        /\ series' \in Nat /\ backoff'.fatal <= series'
    <3>1. NoBackoff \in Backoffs /\ NoBackoff.fatal = 0 /\ NoBackoff.lastPod = NoUid
      BY DEF NoBackoff, FreshBackoff, Backoffs
    <3>2. \/ backoff' = NoBackoff /\ series' \in {0, series}
          \/ backoff' = backoff /\ series' = series
      BY <1>6 DEF ForgetAll, ForgetKeepingGiveUp
    <3>3. backoff \in Backoffs /\ series \in Nat /\ backoff.fatal <= series
      BY WithoutCovers DEF IInv, TypeOK
    <3>4. CASE backoff' = NoBackoff /\ series' \in {0, series}
      BY <3>1, <3>3, <3>4
    <3>5. CASE backoff' = backoff /\ series' = series
      BY <3>3, <3>5
    <3>6. QED
      BY <3>2, <3>4, <3>5
  <2>2. TypeOK'
    BY <1>1, <1>2, <1>6, <2>1, PodTypes DEF IInv, TypeOK, hostVars
  <2>3. QED
    BY <1>1, <1>2, <1>6, <2>1, <2>2, PodGone
<1>7. QED
  BY <1>3, <1>4, <1>5, <1>6 DEF ForceDelete

LEMMA DeleteGetIInv == IInv /\ DeleteGet => IInv'
<1> SUFFICES ASSUME IInv, DeleteGet PROVE IInv'
  OBVIOUS
<1>1. /\ call' \in Calls /\ call'.op = call.op /\ call'.hash = call.hash /\ call'.pc # "createPod"
      /\ CallShape'
  BY CallMoves DEF CallStep, IInv, DeleteGet, CreateSecret, At, CallShape
<1>2. UNCHANGED <<apiVars, hostVars, probe, crashes>> /\ faults' \in 0..MaxFaults
  BY DEF DeleteGet, FailsWith, Fault, NoFault, IInv, TypeOK, memVars
<1>3. CASE UNCHANGED <<backoff, series>>
  <2>1. TypeOK'
    BY <1>1, <1>2, <1>3 DEF IInv, TypeOK, apiVars, hostVars
  <2>2. QED
    BY <1>1, <1>2, <1>3, <2>1, Untouched DEF apiVars
<1>4. CASE ~ Exists /\ ForgetKeepingGiveUp
  <2>1. /\ backoff' \in Backoffs /\ backoff'.lastPod \in {backoff.lastPod, NoUid}
        /\ series' \in Nat /\ backoff'.fatal <= series'
    BY <1>4, WithoutCovers DEF ForgetKeepingGiveUp, NoBackoff, FreshBackoff, Backoffs, IInv, TypeOK
  <2>2. TypeOK'
    BY <1>1, <1>2, <2>1 DEF IInv, TypeOK, apiVars, hostVars
  <2>3. pod' = NoPod
    BY <1>2, <1>4 DEF Exists, IInv, PodShape, apiVars
  <2>4. QED
    BY <1>1, <1>2, <2>1, <2>2, <2>3, PodGone DEF apiVars
<1>5. QED
  BY <1>3, <1>4 DEF DeleteGet, FailsWith, memVars

(* The other requests leave the memory alone, and the pod but for its      *)
(* deletion timestamp.                                                     *)
LEMMA OtherRequestsIInv ==
  IInv /\ (Recheck \/ Prepare \/ Sweep \/ Undo \/ OwnSecret \/ DeletePod \/ DeleteSecrets) => IInv'
<1> SUFFICES ASSUME IInv, Recheck \/ Prepare \/ Sweep \/ Undo \/ OwnSecret \/ DeletePod \/ DeleteSecrets
             PROVE  IInv'
  OBVIOUS
<1>1. /\ call' \in Calls /\ call'.op = call.op /\ call'.hash = call.hash /\ call'.pc # "createPod"
      /\ CallShape'
  <2>1. ~ CreateSecret
    BY DEF Recheck, Prepare, Sweep, Undo, OwnSecret, DeletePod, DeleteSecrets, CreateSecret, At
  <2>2. QED
    BY <2>1, CallMoves DEF CallStep, IInv, CallShape
<1>2. UNCHANGED <<late, backoff, series, probe, crashes>> /\ faults' \in 0..MaxFaults
  BY DEF Recheck, Prepare, Sweep, Undo, OwnSecret, DeletePod, DeleteSecrets, FailsWith, Fault, NoFault,
         IInv, TypeOK, apiVars, memVars
<1>3. secrets' \subseteq Uids /\ owned' \subseteq secrets'
  <2>1. secrets \subseteq Uids /\ owned \subseteq secrets
    BY DEF IInv, TypeOK
  <2>2. QED
    BY <2>1 DEF Recheck, Prepare, Sweep, Undo, OwnSecret, DeletePod, DeleteSecrets, FailsWith, apiVars
<1>4. live' \subseteq Uids /\ spool' \subseteq Uids
  BY DEF Recheck, Prepare, Sweep, Undo, OwnSecret, DeletePod, DeleteSecrets, FailsWith, IInv, TypeOK, hostVars
<1>5. CASE UNCHANGED pod
  <2>1. TypeOK'
    BY <1>1, <1>2, <1>3, <1>4, <1>5 DEF IInv, TypeOK
  <2>2. QED
    BY <1>1, <1>2, <1>5, <2>1, Untouched
<1>6. CASE DeletePod /\ Exists /\ pod' = Deleted(pod)
  <2>1. /\ pod' \in Pods /\ pod'.uid = pod.uid /\ pod'.hash = pod.hash /\ pod'.fatal = pod.fatal
        /\ pod'.fatal => pod'.status = "exited"
    <3>1. pod \in Pods /\ (pod.fatal => pod.status = "exited")
      BY DEF IInv, TypeOK, PodShape
    <3>2. /\ Deleted(pod).uid = pod.uid /\ Deleted(pod).hash = pod.hash
          /\ Deleted(pod).fatal = pod.fatal /\ Deleted(pod).status = pod.status
      BY <3>1 DEF Pods, Deleted
    <3>3. QED
      BY <1>6, <3>1, <3>2, PodUpdates
  <2>2. UNCHANGED <<secrets, owned>>
    BY <1>6 DEF DeletePod, FailsWith, apiVars
  <2>3. QED
    BY <1>1, <1>2, <1>4, <1>6, <2>1, <2>2, SamePod DEF IInv, TypeOK
<1>7. QED
  BY <1>5, <1>6 DEF Recheck, Prepare, Sweep, Undo, OwnSecret, DeletePod, DeleteSecrets, FailsWith, apiVars

-----------------------------------------------------------------------------
(* The start of a call, the other callers of the memory, and Kubernetes.   *)

LEMMA BeginIInv == IInv /\ Begin => IInv'
<1> SUFFICES ASSUME IInv, Begin PROVE IInv'
  OBVIOUS
<1>1. call' \in Calls /\ call'.pc = "get" /\ (call'.op = "Ensure" => call'.hash \in Hashes)
  <2>1. CASE BeginDelete
    BY <2>1, PodTypes DEF BeginDelete, IdleCall, Calls, PCs, Results
  <2>2. ASSUME NEW h \in Hashes, BeginEnsure(h)
        PROVE  call' \in Calls /\ call'.pc = "get" /\ (call'.op = "Ensure" => call'.hash \in Hashes)
    BY <2>2, PodTypes DEF BeginEnsure, IdleCall, Calls, PCs, Results
  <2>3. QED
    BY <2>1, <2>2 DEF Begin
<1>2. UNCHANGED <<apiVars, hostVars, memVars, faults, crashes>>
  BY DEF Begin, BeginEnsure, BeginDelete
<1>3. TypeOK' /\ CallShape'
  BY <1>1, <1>2 DEF IInv, TypeOK, CallShape, apiVars, hostVars, memVars
<1>4. QED
  BY <1>1, <1>2, <1>3, Untouched DEF apiVars, memVars

LEMMA ForgetIInv == IInv /\ Forget => IInv'
<1> SUFFICES ASSUME IInv, Forget PROVE IInv'
  OBVIOUS
<1>1. backoff' = NoBackoff /\ series' = 0 /\ NoBackoff \in Backoffs /\ NoBackoff.fatal = 0
      /\ NoBackoff.lastPod = NoUid
  BY DEF Forget, ForgetAll, NoBackoff, FreshBackoff, Backoffs
<1>2. TypeOK' /\ CallShape'
  BY <1>1 DEF IInv, TypeOK, CallShape, Forget, apiVars, hostVars
<1>3. pod' = NoPod
  BY DEF Forget, Exists, IInv, PodShape, apiVars
<1>4. backoff'.fatal <= series'
  BY <1>1
<1>5. QED
  BY <1>1, <1>2, <1>3, <1>4, PodGone DEF Forget, apiVars

(* A step that only resets the restart state keeps the invariant if the    *)
(* history still covers it.                                                *)
LEMMA MemoryIInv ==
  ASSUME IInv, backoff' \in Backoffs, series' \in Nat, probe' \in BOOLEAN,
         UNCHANGED <<apiVars, hostVars, call, faults, crashes>>,
         backoff'.lastPod = backoff.lastPod, backoff'.fatal \in {0, backoff.fatal},
         backoff'.fatal + PodsOf(pod, backoff'.hash, backoff'.lastPod) <= series'
  PROVE  IInv'
<1>1. TypeOK' /\ CallShape' /\ PodShape' /\ UidsDistinct'
  BY DEF IInv, TypeOK, CallShape, PodShape, UidsDistinct, apiVars, hostVars
<1>2. SeriesCovers' /\ LastExitCounted'
  BY DEF IInv, SeriesCovers, Uncounted, LastExitCounted, Exists, apiVars
<1>3. QED
  BY <1>1, <1>2 DEF IInv

LEMMA ReadyIInv == IInv /\ (Ready \/ ResetBackoff \/ RestartTime) => IInv'
<1> SUFFICES ASSUME IInv, Ready \/ ResetBackoff \/ RestartTime PROVE IInv'
  OBVIOUS
<1>1. /\ backoff \in Backoffs /\ series \in Nat /\ backoff.fatal + Uncounted <= series
      /\ UNCHANGED <<apiVars, hostVars, call, faults, crashes>> /\ probe' \in BOOLEAN
  BY DEF IInv, TypeOK, SeriesCovers, Ready, ResetBackoff, RestartTime
<1>2. CASE UNCHANGED <<backoff, series>>
  BY <1>1, <1>2, MemoryIInv DEF Uncounted
<1>3. CASE backoff' = Reset(backoff) /\ series' = PodsOf(pod, backoff.hash, backoff.lastPod)
  <2>1. /\ Reset(backoff) \in Backoffs /\ Reset(backoff).hash = backoff.hash
        /\ Reset(backoff).lastPod = backoff.lastPod /\ Reset(backoff).fatal = 0
    BY <1>1, BackoffTypes DEF Backoffs
  <2>2. PodsOf(pod, backoff.hash, backoff.lastPod) \in Nat
    BY DEF PodsOf
  <2>3. QED
    BY <1>1, <1>3, <2>1, <2>2, MemoryIInv
<1>4. CASE backoff' = [backoff EXCEPT !.due = TRUE] /\ UNCHANGED series
  <2>1. /\ backoff' \in Backoffs /\ backoff'.hash = backoff.hash
        /\ backoff'.lastPod = backoff.lastPod /\ backoff'.fatal = backoff.fatal
    BY <1>1, <1>4 DEF Backoffs
  <2>2. QED
    BY <1>1, <1>4, <2>1, MemoryIInv DEF Uncounted
<1>5. QED
  BY <1>2, <1>3, <1>4 DEF Ready, ResetBackoff, RestartTime

LEMMA CrashIInv == IInv /\ Crash => IInv'
<1> SUFFICES ASSUME IInv, Crash PROVE IInv'
  OBVIOUS
<1>1. /\ call' = IdleCall /\ IdleCall \in Calls /\ IdleCall.pc = "idle" /\ IdleCall.op = "Delete"
      /\ backoff' = NoBackoff /\ NoBackoff \in Backoffs /\ NoBackoff.fatal = 0 /\ NoBackoff.hash = NoHash
      /\ NoBackoff.lastPod = NoUid
      /\ series' = 0 /\ UNCHANGED <<pod, secrets, owned, hostVars, faults>> /\ probe' = FALSE
      /\ crashes' \in 0..MaxCrashes
  BY PodTypes DEF Crash, IdleCall, Calls, PCs, Results, NoBackoff, FreshBackoff, Backoffs, IInv, TypeOK
<1>2. late' = late \/ (call.pc = "createPod" /\ late' = call.seen)
  BY DEF Crash
<1>3. TypeOK' /\ CallShape'
  BY <1>1, <1>2 DEF IInv, TypeOK, Calls, CallShape, hostVars
<1>4. PodShape' /\ UidsDistinct'
  BY <1>1, <1>2, PodTypes DEF IInv, PodShape, UidsDistinct, CallShape
<1>5. SeriesCovers' /\ LastExitCounted'
  BY <1>1, PodTypes DEF IInv, PodShape, SeriesCovers, Uncounted, PodsOf, LastExitCounted, Exists
<1>6. QED
  BY <1>3, <1>4, <1>5 DEF IInv

LEMMA KubernetesIInv == IInv /\ Kubernetes => IInv'
<1> SUFFICES ASSUME IInv, Kubernetes PROVE IInv'
  OBVIOUS
<1>1. pod \in Pods /\ live \subseteq Uids /\ spool \subseteq Uids /\ call \in Calls /\ faults \in 0..MaxFaults
      /\ secrets \subseteq Uids /\ owned \subseteq secrets
  BY DEF IInv, TypeOK
<1>0. pod.fatal => pod.status = "exited"
  BY DEF IInv, PodShape
<1>2. ~ Exists => pod = NoPod /\ ~ pod.started /\ ~ pod.deleted
  BY DEF Exists, IInv, PodShape, NoPod, NewPod
<1>3. ASSUME Exists, live' \subseteq Uids, spool' \subseteq Uids, UNCHANGED k8sUnchanged,
             pod' \in Pods, pod'.uid = pod.uid, pod'.hash = pod.hash,
             pod.fatal => pod'.fatal, pod'.fatal => pod'.status = "exited"
      PROVE  IInv'
  BY <1>1, <1>3, SamePod DEF k8sUnchanged, memVars
<1>4. CASE KubeletStart
  <2>1. pod.uid \in Uids
    BY <1>4, PodTypes DEF KubeletStart, Exists, IInv, PodShape
  <2>2. live' \subseteq Uids /\ spool' \subseteq Uids /\ Exists /\ UNCHANGED k8sUnchanged
    BY <1>1, <1>4, <2>1 DEF KubeletStart
  <2>3. pod' = [pod EXCEPT !.started = TRUE]
    BY <1>4 DEF KubeletStart
  <2>4. /\ pod' \in Pods /\ pod'.uid = pod.uid /\ pod'.hash = pod.hash
        /\ pod'.fatal = pod.fatal /\ pod'.status = pod.status
    BY <1>1, <2>3, PodUpdates DEF Pods
  <2>5. QED
    BY <1>0, <1>3, <2>2, <2>4
<1>5. CASE KubeletReportsRunning
  BY <1>0, <1>1, <1>2, <1>3, <1>5, PodUpdates DEF KubeletReportsRunning, Pods, hostVars
<1>6. CASE ProcessExits
  <2>1. live' \subseteq Uids /\ UNCHANGED <<pod, spool, k8sUnchanged>>
    BY <1>1, <1>6 DEF ProcessExits
  <2>2. TypeOK' /\ CallShape'
    BY <2>1 DEF IInv, TypeOK, CallShape, k8sUnchanged, memVars
  <2>3. QED
    BY <2>1, <2>2, Untouched DEF k8sUnchanged, memVars
<1>7. CASE KubeletReportsExit
  <2>1. PICK f \in BOOLEAN : pod' = [pod EXCEPT !.status = "exited", !.fatal = f]
    BY <1>7 DEF KubeletReportsExit
  <2>2. pod' \in Pods /\ pod'.uid = pod.uid /\ pod'.hash = pod.hash /\ pod'.status = "exited"
    BY <1>1, <2>1, PodUpdates DEF Pods
  <2>3. ~ pod.fatal
    BY <1>0, <1>7 DEF KubeletReportsExit
  <2>4. QED
    BY <1>1, <1>2, <1>3, <1>7, <2>2, <2>3 DEF KubeletReportsExit, hostVars
<1>8. CASE KubeletFailsPod \/ NodeLost
  <2>1. pod' = [pod EXCEPT !.status = "exited"] /\ Exists /\ UNCHANGED <<live, spool, k8sUnchanged>>
    BY <1>8 DEF KubeletFailsPod, NodeLost, hostVars
  <2>2. /\ pod' \in Pods /\ pod'.uid = pod.uid /\ pod'.hash = pod.hash
        /\ pod'.fatal = pod.fatal /\ pod'.status = "exited"
    BY <1>1, <2>1, PodUpdates DEF Pods
  <2>3. QED
    BY <1>1, <1>3, <2>1, <2>2
<1>9. CASE KubeletConfirmsDelete
  <2>1. TypeOK' /\ backoff'.fatal <= series' /\ CallShape'
    BY <1>9, WithoutCovers, PodTypes DEF KubeletConfirmsDelete, IInv, TypeOK, CallShape, hostVars
  <2>2. QED
    BY <1>9, <2>1, PodGone DEF KubeletConfirmsDelete
<1>10. CASE DeletedByHand
  <2>1. pod' = Deleted(pod) /\ Exists /\ UNCHANGED <<live, spool, k8sUnchanged>>
    BY <1>10 DEF DeletedByHand, hostVars
  <2>2. pod' \in Pods
    BY <1>1, <2>1, PodUpdates
  <2>3. /\ pod'.uid = pod.uid /\ pod'.hash = pod.hash
        /\ pod'.fatal = pod.fatal /\ pod'.status = pod.status
    BY <1>1, <2>1 DEF Pods, Deleted
  <2>4. QED
    BY <1>0, <1>1, <1>3, <2>1, <2>2, <2>3
<1>11. CASE StuckAfter
  <2>1. pod' = [pod EXCEPT !.stuck = TRUE] /\ Exists /\ UNCHANGED <<live, spool, k8sUnchanged>>
    BY <1>2, <1>11 DEF StuckAfter, hostVars
  <2>2. pod' \in Pods
    BY <1>1, <2>1, PodUpdates
  <2>3. /\ pod'.uid = pod.uid /\ pod'.hash = pod.hash
        /\ pod'.fatal = pod.fatal /\ pod'.status = pod.status
    BY <1>1, <2>1 DEF Pods
  <2>4. QED
    BY <1>0, <1>1, <1>3, <2>1, <2>2, <2>3
<1>12. CASE CollectSecret
  <2>1. TypeOK' /\ CallShape'
    BY <1>12 DEF CollectSecret, IInv, TypeOK, CallShape, hostVars, memVars
  <2>2. QED
    BY <1>12, <2>1, Untouched DEF CollectSecret, memVars
<1>13. CASE LateCreate
  <2>1. PICK u \in Uids, h \in Hashes : late = NewPod(u, h)
    BY <1>13 DEF LateCreate, IInv, PodShape
  <2>2. late # NoPod /\ late' = NoPod /\ UNCHANGED <<secrets, owned, hostVars, backoff, probe, call, faults, crashes>>
    BY <1>13 DEF LateCreate
  <2>3. late.uid = u /\ u # backoff.lastPod /\ (call.pc = "createPod" => call.seen.uid # u)
    BY <2>1, <2>2, PodTypes DEF IInv, UidsDistinct
  <2>4. CASE ~ Exists /\ PodCreated(late)
    BY <1>1, <2>1, <2>2, <2>3, <2>4, PodAppears
  <2>5. CASE UNCHANGED <<pod, series>>
    <3>1. TypeOK' /\ CallShape' /\ PodShape' /\ UidsDistinct'
      BY <2>2, <2>5, PodTypes DEF IInv, TypeOK, CallShape, PodShape, UidsDistinct, hostVars, Calls
    <3>2. SeriesCovers' /\ LastExitCounted'
      BY <2>2, <2>5 DEF IInv, SeriesCovers, Uncounted, LastExitCounted, Exists
    <3>3. QED
      BY <3>1, <3>2 DEF IInv
  <2>6. QED
    BY <1>13, <2>4, <2>5 DEF LateCreate
<1>14. QED
  BY <1>4, <1>5, <1>6, <1>7, <1>8, <1>9, <1>10, <1>11, <1>12, <1>13 DEF Kubernetes

-----------------------------------------------------------------------------
LEMMA InitIInv == Init => IInv
<1> SUFFICES ASSUME Init PROVE IInv
  OBVIOUS
<1>1. TypeOK
  <2>1. IdleCall \in Calls
    BY PodTypes DEF IdleCall, Calls, PCs, Results
  <2>2. NoBackoff \in Backoffs
    BY DEF NoBackoff, FreshBackoff, Backoffs
  <2>3. 0 \in 0..MaxFaults /\ 0 \in 0..MaxCrashes /\ 0 \in Nat
    OBVIOUS
  <2>4. /\ pod \in Pods /\ late \in Pods /\ call \in Calls
        /\ backoff \in Backoffs /\ series \in Nat /\ probe \in BOOLEAN
        /\ faults \in 0..MaxFaults /\ crashes \in 0..MaxCrashes
    BY <2>1, <2>2, <2>3, PodTypes DEF Init
  <2>5. QED
    BY <2>4 DEF Init, TypeOK
<1>2. PodShape /\ CallShape /\ UidsDistinct
  BY PodTypes DEF Init, PodShape, CallShape, UidsDistinct, IdleCall, NoPod, NewPod
<1>3. SeriesCovers /\ LastExitCounted
  BY PodTypes DEF Init, SeriesCovers, Uncounted, PodsOf, LastExitCounted, Exists, NoBackoff, FreshBackoff
<1>4. QED
  BY <1>1, <1>2, <1>3 DEF IInv

LEMMA NextIInv == IInv /\ [Next]_vars => IInv'
<1> SUFFICES ASSUME IInv, [Next]_vars PROVE IInv'
  OBVIOUS
<1>1. CASE UNCHANGED vars
  <2>1. TypeOK' /\ CallShape'
    BY <1>1 DEF vars, apiVars, hostVars, memVars, IInv, TypeOK, CallShape
  <2>2. QED
    BY <1>1, <2>1, Untouched DEF vars, apiVars, memVars
<1>2. CASE CallStep
  BY <1>2, EnsureGetIInv, CreateSecretIInv, CreatePodIInv, RemoveFinalizerIInv, ForceDeleteIInv,
     DeleteGetIInv, OtherRequestsIInv DEF CallStep
<1>3. CASE Next /\ ~ CallStep
  BY <1>3, BeginIInv, ForgetIInv, ReadyIInv, CrashIInv, KubernetesIInv DEF Next
<1>4. QED
  BY <1>1, <1>2, <1>3

(* The inductive invariant of the mount pod of a volume, in every mode:    *)
(* with requests that take effect late, and with a kubelet that hangs.     *)
THEOREM Inductive == Spec => []IInv
BY InitIInv, NextIInv, PTL DEF Spec

(* Every step of Manager keeps its state within the types of the code.     *)
THEOREM TypeCorrect == Spec => []TypeOK
<1>1. IInv => TypeOK
  BY DEF IInv
<1>2. QED
  BY <1>1, Inductive, PTL

(* recordExit counts each pod once (backoff.go), so a volume never gives   *)
(* up with fewer than MaxFatalExits pods, whatever fails or crashes.       *)
THEOREM ExitsCountedOnce == Spec => []CountedOnce
<1>1. IInv => CountedOnce
  BY WithoutCovers DEF CountedOnce
<1>2. QED
  BY <1>1, Inductive, PTL
=============================================================================
