--------------------------- MODULE MountSlotProofs --------------------------
(***************************************************************************)
(* Proofs that the mount pods of a volume behave as one slot for a mount   *)
(* process and its spool (MountSlot), that a pod keeps its Secret, and     *)
(* that Delete ends what it says it ends: for every number of              *)
(* configurations and UIDs and every bound.  A theorem names the mode it   *)
(* needs: no kubelet that hangs (~ HungKubelet), no request that takes     *)
(* effect although it failed (~ LostResponses).                            *)
(***************************************************************************)
EXTENDS MountPodProofs

USE NoHashAssumption, NoUidAssumption, MaxFatalAssumption, BoundsAssumption, ModesAssumption

-----------------------------------------------------------------------------
(* The process of the pod, in every mode but that of a kubelet that hangs. *)

Releasing == {"removeFinalizer", "forceDelete"}

(* A process runs in the pod there is, from the start of its container     *)
(* until before the end is reported.                                       *)
ProcessOfPod ==
  /\ live \subseteq {pod.uid}
  /\ pod.status = "exited" \/ ~ pod.started => live = {}

(* The pod that is being released has ended, if it is still the one that   *)
(* was read; one that comes late has another UID.                          *)
SeenEnded ==
  call.pc \in Releasing =>
    /\ late # NoPod => late.uid # call.seen.uid
    /\ Exists /\ pod.uid = call.seen.uid => pod.status = "exited"

ProcInv == ~ pod.stuck /\ ProcessOfPod /\ SeenEnded

(* A call releases a pod that it has just read and that had ended. *)
LEMMA ReleaseMoves ==
  ASSUME TypeOK, CallStep, call'.pc \in Releasing
  PROVE  \/ call.pc \in Releasing /\ call'.seen = call.seen
         \/ call'.seen = pod /\ Exists /\ Finished(pod) /\ UNCHANGED <<pod, late>>
<1>1. call \in Calls /\ pod \in Pods
  BY DEF TypeOK
<1>2. ASSUME NEW r, Return(r) PROVE FALSE
  BY <1>1, <1>2 DEF Return, Calls, Releasing
<1>3. ASSUME NEW b, Decide(b) PROVE FALSE
  BY <1>1, <1>2, <1>3 DEF Decide, Goto, Calls, Releasing
<1>4. ASSUME NEW q, Goto(q) PROVE q \in Releasing /\ call'.seen = call.seen
  BY <1>1, <1>4 DEF Goto, Calls, Releasing
<1>5. ASSUME NEW q, NEW p, GotoWith(q, p) PROVE q \in Releasing /\ call'.seen = p
  BY <1>1, <1>5 DEF GotoWith, Calls, Releasing
<1>6. CASE EnsureGet
  BY <1>2, <1>3, <1>5, <1>6 DEF EnsureGet, FailsWith, apiVars, Releasing
<1>7. CASE DeleteGet
  BY <1>2, <1>4, <1>5, <1>7 DEF DeleteGet, FailsWith, apiVars, Releasing
<1>8. CASE RemoveFinalizer
  BY <1>2, <1>4, <1>8 DEF RemoveFinalizer, Releasing
<1>9. CASE ForceDelete
  BY <1>2, <1>3, <1>4, <1>9 DEF ForceDelete, Releasing
<1>10. CASE CreatePod
  <2>1. call' # [call EXCEPT !.pc = "undo", !.result = "terminating"]
    BY <1>1 DEF Calls, Releasing
  <2>2. call' # [call EXCEPT !.pc = "undo", !.result = "error"]
    BY <1>1 DEF Calls, Releasing
  <2>3. QED
    BY <1>4, <1>10, <2>1, <2>2 DEF CreatePod, Releasing
<1>11. CASE Recheck \/ Prepare \/ Sweep
  BY <1>2, <1>4, <1>11 DEF Recheck, Prepare, Sweep, FailsWith, Releasing
<1>12. CASE CreateSecret \/ Undo \/ OwnSecret \/ DeletePod \/ DeleteSecrets
  BY <1>2, <1>5, <1>12 DEF CreateSecret, Undo, OwnSecret, DeletePod, DeleteSecrets, FailsWith, Releasing
<1>13. QED
  BY <1>6, <1>7, <1>8, <1>9, <1>10, <1>11, <1>12 DEF CallStep

(* What a step may do to the pod and its process.  A pod that is there     *)
(* keeps its UID and does not come back from its end,                      *)
SameProcess ==
  /\ live' \subseteq live
  /\ pod'.uid = pod.uid /\ pod'.started = pod.started /\ pod'.stuck = pod.stuck
  /\ pod'.status # pod.status =>
       \/ pod'.status = "running" /\ pod.status # "exited"
       \/ pod'.status = "exited" /\ live = {}

(* a pod goes once it has ended, and a new one comes where there is none.  *)
PodGoes == pod' = NoPod /\ UNCHANGED live /\ (Exists => pod.status = "exited")

PodComes == ~ Exists /\ UNCHANGED live /\ \E u \in Uids, h \in Hashes : pod' = NewPod(u, h)

LEMMA CallPods ==
  ASSUME IInv, ProcInv, CallStep
  PROVE  SameProcess \/ PodGoes \/ (PodComes /\ pod' = call.seen /\ CreatePod)
<1>1. pod \in Pods /\ (~ Exists => pod = NoPod)
  BY DEF IInv, TypeOK, PodShape, Exists
<1>2. ASSUME UNCHANGED <<pod, live>> PROVE SameProcess
  BY <1>2 DEF SameProcess
<1>3. CASE CreatePod
  <2>1. UNCHANGED live /\ (pod' = pod \/ (~ Exists /\ pod' = call.seen))
    BY <1>3 DEF CreatePod, PodCreated, hostVars
  <2>2. \E u \in Uids, h \in Hashes : call.seen = NewPod(u, h)
    BY <1>3 DEF CreatePod, At, IInv, CallShape
  <2>3. QED
    BY <1>2, <1>3, <2>1, <2>2 DEF PodComes
<1>4. CASE RemoveFinalizer
  <2>1. UNCHANGED live
    BY <1>4 DEF RemoveFinalizer, hostVars
  <2>2. \/ pod' = pod \/ pod' = [pod EXCEPT !.finalizer = FALSE]
        \/ pod' = NoPod /\ pod.status = "exited"
    BY <1>4 DEF RemoveFinalizer, FinalizerRemoved
  <2>3. QED
    BY <1>1, <1>2, <2>1, <2>2 DEF SameProcess, PodGoes, Pods
<1>5. CASE ForceDelete
  <2>1. UNCHANGED live /\ (pod' = pod \/ (pod' = NoPod /\ (Exists => pod.uid = call.seen.uid)))
    BY <1>5 DEF ForceDelete, hostVars
  <2>2. call.pc \in Releasing
    BY <1>5 DEF ForceDelete, Releasing
  <2>3. QED
    BY <1>2, <2>1, <2>2 DEF PodGoes, ProcInv, SeenEnded
<1>6. CASE DeletePod
  <2>1. UNCHANGED live /\ (pod' = pod \/ pod' = Deleted(pod))
    BY <1>6 DEF DeletePod, FailsWith, apiVars, hostVars
  <2>2. QED
    BY <1>1, <1>2, <2>1 DEF SameProcess, Deleted, Pods
<1>7. CASE EnsureGet \/ Recheck \/ Prepare \/ Sweep \/ CreateSecret
  BY <1>2, <1>7 DEF EnsureGet, Recheck, Prepare, Sweep, CreateSecret, FailsWith, apiVars, hostVars
<1>8. CASE Undo \/ OwnSecret \/ DeleteGet \/ DeleteSecrets
  BY <1>2, <1>8 DEF Undo, OwnSecret, DeleteGet, DeleteSecrets, FailsWith, apiVars, hostVars
<1>9. QED
  BY <1>3, <1>4, <1>5, <1>6, <1>7, <1>8 DEF CallStep

LEMMA KubernetesPods ==
  ASSUME ~ HungKubelet, IInv, ProcInv, Kubernetes
  PROVE  /\ UNCHANGED call /\ late' \in {late, NoPod}
         /\ KubeletStart \/ SameProcess \/ PodGoes \/ (PodComes /\ pod' = late /\ LateCreate)
<1>1. pod \in Pods /\ (~ Exists => pod = NoPod) /\ live \subseteq {pod.uid} /\ (~ pod.started => live = {})
  BY DEF IInv, TypeOK, PodShape, Exists, ProcInv, ProcessOfPod
<1>2. UNCHANGED call /\ late' \in {late, NoPod}
  BY DEF Kubernetes, KubeletStart, KubeletReportsRunning, ProcessExits, KubeletReportsExit, KubeletFailsPod,
         KubeletConfirmsDelete, DeletedByHand, StuckAfter, NodeLost, CollectSecret, LateCreate, k8sUnchanged
<1>3. CASE KubeletReportsRunning
  BY <1>1, <1>2, <1>3 DEF KubeletReportsRunning, SameProcess, Pods, hostVars
<1>4. CASE ProcessExits \/ CollectSecret
  BY <1>2, <1>4 DEF ProcessExits, CollectSecret, SameProcess, hostVars
<1>5. CASE KubeletReportsExit
  <2>1. PICK f \in BOOLEAN : pod' = [pod EXCEPT !.status = "exited", !.fatal = f]
    BY <1>5 DEF KubeletReportsExit
  <2>2. live = {} /\ live' = live
    BY <1>1, <1>5 DEF KubeletReportsExit, hostVars
  <2>3. QED
    BY <1>1, <1>2, <2>1, <2>2 DEF SameProcess, Pods
<1>6. CASE KubeletFailsPod
  BY <1>1, <1>2, <1>6 DEF KubeletFailsPod, SameProcess, Pods, hostVars
<1>7. CASE KubeletConfirmsDelete
  BY <1>2, <1>7 DEF KubeletConfirmsDelete, PodGoes, hostVars
<1>8. CASE DeletedByHand
  BY <1>1, <1>2, <1>8 DEF DeletedByHand, Deleted, SameProcess, Pods, hostVars
<1>9. CASE LateCreate
  <2>1. UNCHANGED live /\ late # NoPod /\ (pod' = pod \/ (~ Exists /\ pod' = late))
    BY <1>9 DEF LateCreate, PodCreated, hostVars
  <2>2. \E u \in Uids, h \in Hashes : late = NewPod(u, h)
    BY <2>1 DEF IInv, PodShape
  <2>3. QED
    BY <1>2, <1>9, <2>1, <2>2 DEF SameProcess, PodComes
<1>10. QED
  BY <1>2, <1>3, <1>4, <1>5, <1>6, <1>7, <1>8, <1>9 DEF Kubernetes, StuckAfter, NodeLost

(* The other steps are those of the node plugin's memory. *)
LEMMA MemoryPods ==
  ASSUME [Next]_vars, ~ CallStep, ~ Kubernetes
  PROVE  /\ UNCHANGED <<pod, live, spool, secrets, owned, faults>>
         /\ late' = late \/ (LostResponses /\ call'.pc = "idle")
         /\ UNCHANGED call \/ (call'.pc = "get" /\ call'.result = "none") \/ call' = IdleCall
<1>1. CASE UNCHANGED vars
  BY <1>1 DEF vars, apiVars, hostVars
<1>2. CASE Begin
  BY <1>2 DEF Begin, BeginEnsure, BeginDelete, IdleCall, apiVars, hostVars
<1>3. CASE Forget \/ Ready \/ ResetBackoff \/ RestartTime
  BY <1>3 DEF Forget, Ready, ResetBackoff, RestartTime, apiVars, hostVars
<1>4. CASE Crash
  BY <1>4 DEF Crash, IdleCall, hostVars
<1>5. QED
  BY <1>1, <1>2, <1>3, <1>4 DEF Next

(* Every step keeps the process with its pod. *)
LEMMA ProcStep ==
  ASSUME ~ HungKubelet, IInv, IInv', ProcInv, [Next]_vars
  PROVE  ProcInv'
<1>1. /\ pod \in Pods /\ pod' \in Pods /\ (~ Exists => pod = NoPod) /\ pod.uid \in Uids \cup {NoUid}
      /\ live \subseteq Uids /\ call \in Calls
  BY DEF IInv, TypeOK, PodShape, Exists, Pods
<1>2. ~ pod.stuck /\ live \subseteq {pod.uid} /\ (pod.status = "exited" \/ ~ pod.started => live = {})
  BY DEF ProcInv, ProcessOfPod
<1>3. NoPod.uid = NoUid /\ ~ NoPod.stuck /\ (~ Exists => live = {})
  BY <1>1, <1>2 DEF NoPod, NewPod, Exists
<1>4. \A u \in Uids, h \in Hashes :
        /\ NewPod(u, h).uid = u /\ NewPod(u, h).status = "pending"
        /\ ~ NewPod(u, h).started /\ ~ NewPod(u, h).stuck
  BY DEF NewPod
<1>5. KubeletStart \/ SameProcess \/ PodGoes \/ PodComes
  BY CallPods, KubernetesPods, MemoryPods DEF SameProcess
<1>6. ~ pod'.stuck /\ ProcessOfPod'
  <2>1. CASE KubeletStart
    <3>1. pod' = [pod EXCEPT !.started = TRUE] /\ live' = live \cup {pod.uid} /\ pod.status = "pending"
      BY <2>1 DEF KubeletStart
    <3>2. QED
      BY <1>1, <1>2, <3>1 DEF ProcessOfPod, Pods
  <2>2. CASE SameProcess
    <3>1. pod'.status = "exited" => live = {}
      BY <1>2, <2>2 DEF SameProcess
    <3>2. QED
      BY <1>2, <2>2, <3>1 DEF SameProcess, ProcessOfPod
  <2>3. CASE PodGoes
    BY <1>2, <1>3, <2>3 DEF PodGoes, ProcessOfPod
  <2>4. CASE PodComes
    BY <1>3, <1>4, <2>4 DEF PodComes, ProcessOfPod
  <2>5. QED
    BY <1>5, <2>1, <2>2, <2>3, <2>4
<1>7. SeenEnded'
  <2> SUFFICES ASSUME call'.pc \in Releasing
               PROVE  /\ late' # NoPod => late'.uid # call'.seen.uid
                      /\ Exists' /\ pod'.uid = call'.seen.uid => pod'.status = "exited"
    BY DEF SeenEnded
  <2>1. ASSUME call'.seen = call.seen, call.pc \in Releasing, late' \in {late, NoPod},
               SameProcess \/ PodGoes \/ (PodComes /\ pod' = late)
        PROVE  /\ late' # NoPod => late'.uid # call'.seen.uid
               /\ Exists' /\ pod'.uid = call'.seen.uid => pod'.status = "exited"
    <3>1. /\ late # NoPod => late.uid # call.seen.uid
          /\ Exists /\ pod.uid = call.seen.uid => pod.status = "exited"
      BY <2>1 DEF ProcInv, SeenEnded
    <3>2. CASE SameProcess
      BY <2>1, <3>1, <3>2 DEF SameProcess, Exists
    <3>3. CASE PodGoes
      BY <1>3, <2>1, <3>1, <3>3 DEF PodGoes, Exists
    <3>4. CASE PodComes /\ pod' = late
      <4>1. late # NoPod
        <5>1. PICK u \in Uids, h \in Hashes : pod' = NewPod(u, h)
          BY <3>4 DEF PodComes
        <5>2. QED
          BY <1>3, <1>4, <3>4, <5>1
      <4>2. QED
        BY <2>1, <3>1, <3>4, <4>1
    <3>5. QED
      BY <2>1, <3>2, <3>3, <3>4
  <2>2. CASE CallStep
    <3>1. late' = late \/ CreatePod
      BY <2>2 DEF CallStep, EnsureGet, Recheck, Prepare, Sweep, CreateSecret, Undo, OwnSecret, RemoveFinalizer,
                  ForceDelete, DeleteGet, DeletePod, DeleteSecrets, FailsWith, apiVars
    <3>2. CASE call.pc \in Releasing /\ call'.seen = call.seen
      <4>1. ~ CreatePod
        BY <3>2 DEF CreatePod, At, Releasing
      <4>2. QED
        BY <2>1, <2>2, <3>1, <3>2, <4>1, CallPods
    <3>3. CASE call'.seen = pod /\ Exists /\ Finished(pod) /\ UNCHANGED <<pod, late>>
      BY <1>2, <3>3 DEF Finished, IInv, UidsDistinct
    <3>4. QED
      BY <2>2, <3>2, <3>3, ReleaseMoves DEF IInv
  <2>3. CASE Kubernetes
    <3>1. call' = call /\ late' \in {late, NoPod}
      BY <2>3, KubernetesPods
    <3>2. CASE KubeletStart
      <4>1. pod' = [pod EXCEPT !.started = TRUE]
        BY <3>2 DEF KubeletStart
      <4>2. pod'.uid = pod.uid /\ pod'.status = pod.status
        BY <1>1, <4>1 DEF Pods
      <4>3. QED
        BY <3>1, <4>2 DEF ProcInv, SeenEnded, Exists
    <3>3. QED
      BY <2>1, <2>3, <3>1, <3>2, KubernetesPods
  <2>4. CASE ~ CallStep /\ ~ Kubernetes
    <3>1. call' = call /\ UNCHANGED <<pod, late>>
      BY <2>4, MemoryPods DEF IdleCall, Releasing
    <3>2. QED
      BY <3>1 DEF ProcInv, SeenEnded, Exists
  <2>5. QED
    BY <2>2, <2>3, <2>4
<1>8. QED
  BY <1>6, <1>7 DEF ProcInv

LEMMA ProcInductive ==
  ASSUME ~ HungKubelet
  PROVE  Spec => []ProcInv
<1>1. Init => ProcInv
  BY DEF Init, ProcInv, ProcessOfPod, SeenEnded, Releasing, IdleCall, NoPod, NewPod
<1>2. IInv /\ IInv' /\ ProcInv /\ [Next]_vars => ProcInv'
  BY ProcStep
<1>3. QED
  BY <1>1, <1>2, Inductive, PTL DEF Spec

(* One mount process serves the volume at a time, whatever pods are        *)
(* replaced, evicted or created late, whatever requests fail or are        *)
(* answered late and whenever the node plugin crashes, if the kubelet does *)
(* not hang (Manager.create, release and finished, manager.go).            *)
THEOREM OneProcess ==
  ASSUME ~ HungKubelet
  PROVE  Spec => []OneMountProcess
<1>1. ProcInv => OneMountProcess
  BY DEF ProcInv, ProcessOfPod, OneMountProcess
<1>2. QED
  BY <1>1, ProcInductive, PTL

-----------------------------------------------------------------------------
(* No pod but those the calls create: requests have no effect once they    *)
(* failed.                                                                 *)

(* Between the last look at the API server and the end of the call, and    *)
(* after a Delete that ended, the volume has no pod.                       *)
Podless == {"prepare", "sweep", "createSecret", "createPod", "undo", "deleteSecrets"}

AloneInv ==
  /\ late = NoPod
  /\ call.pc \in Podless => ~ Exists
  /\ call.result = "done" => call.pc = "idle" /\ ~ Exists

LEMMA PodUids ==
  ASSUME IInv, late = NoPod, [Next]_vars
  PROVE  \/ pod'.uid = pod.uid /\ pod'.hash = pod.hash
         \/ pod' = NoPod
         \/ CreatePod /\ pod' = call.seen /\ ~ Exists
<1>1. pod \in Pods
  BY DEF IInv, TypeOK
<1>2. CASE CallStep /\ ~ CreatePod
  BY <1>1, <1>2 DEF CallStep, EnsureGet, Recheck, Prepare, Sweep, CreateSecret, Undo, OwnSecret,
     RemoveFinalizer, FinalizerRemoved, ForceDelete, DeleteGet, DeletePod, DeleteSecrets, FailsWith, apiVars,
     Deleted, Pods
<1>3. CASE CreatePod
  BY <1>3 DEF CreatePod, PodCreated
<1>4. CASE Kubernetes
  <2>1. CASE KubeletReportsExit
    BY <1>1, <2>1 DEF KubeletReportsExit, Pods
  <2>2. CASE KubeletStart \/ KubeletReportsRunning \/ KubeletFailsPod \/ DeletedByHand
    BY <1>1, <2>2 DEF KubeletStart, KubeletReportsRunning, KubeletFailsPod, DeletedByHand, Deleted, Pods
  <2>3. CASE StuckAfter \/ NodeLost
    BY <1>1, <2>3 DEF StuckAfter, NodeLost, Pods
  <2>4. CASE ProcessExits \/ KubeletConfirmsDelete \/ CollectSecret \/ LateCreate
    BY <2>4 DEF ProcessExits, KubeletConfirmsDelete, CollectSecret, LateCreate
  <2>5. QED
    BY <1>4, <2>1, <2>2, <2>3, <2>4 DEF Kubernetes
<1>5. CASE ~ CallStep /\ ~ Kubernetes
  BY <1>5, MemoryPods
<1>6. QED
  BY <1>2, <1>3, <1>4, <1>5

LEMMA PodsAreCreated ==
  ASSUME IInv, late = NoPod, ~ Exists, [Next]_vars, ~ CreatePod
  PROVE  ~ Exists'
BY PodUids DEF Exists, NoPod, NewPod

(* A call says "done" only at the end of deleteSecrets. *)
LEMMA DoneMoves ==
  ASSUME TypeOK, CallStep, call.result # "done"
  PROVE  call'.result = "done" => DeleteSecrets /\ Return("done")
<1>1. call \in Calls
  BY DEF TypeOK
<1>2. ASSUME NEW r, Return(r) PROVE call'.result = r
  BY <1>1, <1>2 DEF Return, Calls
<1>3. ASSUME NEW q, Goto(q) PROVE call'.result # "done"
  BY <1>1, <1>3 DEF Goto, Calls
<1>4. ASSUME NEW q, NEW p, GotoWith(q, p) PROVE call'.result # "done"
  BY <1>1, <1>4 DEF GotoWith, Calls
<1>5. ASSUME NEW b, Decide(b) PROVE call'.result # "done"
  BY <1>2, <1>3, <1>5 DEF Decide
<1>6. ASSUME NEW r \in {"terminating", "error"}, call' = [call EXCEPT !.pc = "undo", !.result = r]
      PROVE  call'.result # "done"
  BY <1>1, <1>6 DEF Calls
<1>7. CASE EnsureGet \/ DeleteGet
  BY <1>2, <1>3, <1>4, <1>5, <1>7 DEF EnsureGet, DeleteGet, FailsWith
<1>8. CASE Recheck \/ Prepare \/ Sweep
  BY <1>2, <1>3, <1>8 DEF Recheck, Prepare, Sweep, FailsWith
<1>9. CASE CreateSecret
  BY <1>2, <1>4, <1>9 DEF CreateSecret, FailsWith
<1>10. CASE CreatePod
  BY <1>3, <1>6, <1>10 DEF CreatePod
<1>11. CASE Undo
  BY <1>2, <1>11 DEF Undo
<1>12. CASE OwnSecret \/ DeletePod
  BY <1>2, <1>12 DEF OwnSecret, DeletePod, FailsWith
<1>13. CASE DeleteSecrets
  BY <1>2, <1>13 DEF DeleteSecrets, FailsWith
<1>14. CASE RemoveFinalizer \/ ForceDelete
  BY <1>2, <1>3, <1>5, <1>14 DEF RemoveFinalizer, ForceDelete
<1>15. QED
  BY <1>7, <1>8, <1>9, <1>10, <1>11, <1>12, <1>13, <1>14 DEF CallStep

(* How a call comes to the requests that find no pod. *)
LEMMA PodlessMoves ==
  ASSUME ~ LostResponses, IInv, AloneInv, CallStep, call'.pc \in Podless
  PROVE  (~ CreatePod /\ (call.pc \in Podless \/ ~ Exists)) \/ ~ Exists'
<1>1. call \in Calls
  BY DEF IInv, TypeOK
<1>2. CreatePod => call.pc = "createPod"
  BY DEF CreatePod, At
<1>3. ASSUME NEW r, Return(r) PROVE FALSE
  BY <1>1, <1>3 DEF Return, Calls, Podless
<1>4. ASSUME NEW q, Goto(q) PROVE q \in Podless
  BY <1>1, <1>4 DEF Goto, Calls
<1>5. ASSUME NEW q, NEW p, GotoWith(q, p) PROVE q \in Podless
  BY <1>1, <1>5 DEF GotoWith, Calls
<1>6. ASSUME NEW b, Decide(b) PROVE FALSE
  BY <1>3, <1>4, <1>6 DEF Decide, Podless
<1>7. CASE EnsureGet
  BY <1>3, <1>5, <1>6, <1>7 DEF EnsureGet, FailsWith, Podless
<1>8. CASE Recheck
  BY <1>2, <1>3, <1>8 DEF Recheck, At, FailsWith
<1>9. CASE Prepare \/ Sweep \/ CreateSecret \/ Undo \/ DeleteSecrets
  BY <1>2, <1>9 DEF Prepare, Sweep, CreateSecret, Undo, DeleteSecrets, At, Podless
<1>10. CASE CreatePod
  <2>1. ~ Exists
    BY <1>10 DEF CreatePod, At, AloneInv, Podless
  <2>2. Goto("ownSecret") \/ UNCHANGED pod
    BY <1>10, <2>1 DEF CreatePod
  <2>3. QED
    BY <1>4, <2>1, <2>2 DEF Podless, Exists
<1>11. CASE OwnSecret \/ DeletePod
  BY <1>3, <1>11 DEF OwnSecret, DeletePod, FailsWith
<1>12. CASE RemoveFinalizer
  BY <1>3, <1>4, <1>12 DEF RemoveFinalizer, Podless
<1>13. CASE ForceDelete
  BY <1>3, <1>6, <1>13 DEF ForceDelete, Exists, NoPod, NewPod
<1>14. CASE DeleteGet
  BY <1>2, <1>3, <1>5, <1>14 DEF DeleteGet, At, FailsWith, Podless
<1>15. QED
  BY <1>7, <1>8, <1>9, <1>10, <1>11, <1>12, <1>13, <1>14 DEF CallStep

LEMMA AloneStep ==
  ASSUME ~ LostResponses, IInv, AloneInv, [Next]_vars
  PROVE  AloneInv'
<1>1. CASE CallStep
  <2>1. call'.pc \in Podless => ~ Exists'
    BY <1>1, PodlessMoves, PodsAreCreated DEF AloneInv
  <2>2. late' = NoPod
    BY <1>1 DEF AloneInv, Podless, CallStep, EnsureGet, Recheck, Prepare, Sweep, CreateSecret, CreatePod, Undo, OwnSecret,
           RemoveFinalizer, ForceDelete, DeleteGet, DeletePod, DeleteSecrets, At, FailsWith, apiVars
  <2>3. call'.result = "done" => DeleteSecrets /\ Return("done")
    <3>1. call.result # "done"
      BY <1>1 DEF AloneInv, CallStep, EnsureGet, Recheck, Prepare, Sweep, CreateSecret, CreatePod, Undo, OwnSecret,
             RemoveFinalizer, ForceDelete, DeleteGet, DeletePod, DeleteSecrets, At
    <3>2. QED
      BY <1>1, <3>1, DoneMoves DEF IInv
  <2>4. DeleteSecrets /\ Return("done") => ~ Exists' /\ call'.pc = "idle"
    BY DEF DeleteSecrets, At, AloneInv, Podless, FailsWith, apiVars, Exists, Return, IInv, TypeOK, Calls
  <2>5. QED
    BY <2>1, <2>2, <2>3, <2>4 DEF AloneInv
<1>2. CASE Kubernetes
  <2>1. UNCHANGED call /\ late' = NoPod
    BY <1>2 DEF Kubernetes, KubeletStart, KubeletReportsRunning, ProcessExits, KubeletReportsExit, KubeletFailsPod,
       KubeletConfirmsDelete, DeletedByHand, StuckAfter, NodeLost, CollectSecret, LateCreate, k8sUnchanged, AloneInv
  <2>2. ~ CreatePod
    BY <2>1 DEF CreatePod, Goto, At, IInv, TypeOK, Calls
  <2>3. QED
    BY <2>1, <2>2, PodsAreCreated DEF AloneInv
<1>3. CASE ~ CallStep /\ ~ Kubernetes
  <2>1. UNCHANGED pod /\ late' = late /\ (call' = call \/ (call'.pc = "get" /\ call'.result = "none") \/ call' = IdleCall)
    BY <1>3, MemoryPods
  <2>2. QED
    BY <2>1 DEF AloneInv, IdleCall, Podless, Exists
<1>4. QED
  BY <1>1, <1>2, <1>3

LEMMA AloneInductive ==
  ASSUME ~ LostResponses
  PROVE  Spec => []AloneInv
<1>1. Init => AloneInv
  BY DEF Init, AloneInv, Podless, IdleCall, NoPod, NewPod, Exists
<1>2. IInv /\ AloneInv /\ [Next]_vars => AloneInv'
  BY AloneStep
<1>3. QED
  BY <1>1, <1>2, Inductive, PTL DEF Spec

-----------------------------------------------------------------------------
(* The slot: one process, and a spool that is emptied while none runs.     *)

(* A pod starts on a spool nothing used since Prepare emptied it. *)
Prepared == {"sweep", "createSecret", "createPod"}

SpoolFresh ==
  /\ call.pc \in Prepared => spool = {}
  /\ Exists /\ ~ pod.started => spool = {}

SlotInv == SpoolKept /\ SpoolFresh

LEMMA PreparedMoves ==
  ASSUME TypeOK, CallStep, call'.pc \in Prepared
  PROVE  (Prepare /\ spool' = {}) \/ (call.pc \in Prepared /\ UNCHANGED spool)
<1>1. call \in Calls
  BY DEF TypeOK
<1>2. ASSUME NEW r, Return(r) PROVE FALSE
  BY <1>1, <1>2 DEF Return, Calls, Prepared
<1>3. ASSUME NEW q, Goto(q) PROVE q \in Prepared
  BY <1>1, <1>3 DEF Goto, Calls
<1>4. ASSUME NEW q, NEW p, GotoWith(q, p) PROVE q \in Prepared
  BY <1>1, <1>4 DEF GotoWith, Calls
<1>5. ASSUME NEW b, Decide(b) PROVE FALSE
  BY <1>2, <1>3, <1>5 DEF Decide, Prepared
<1>6. /\ call' # [call EXCEPT !.pc = "undo", !.result = "terminating"]
      /\ call' # [call EXCEPT !.pc = "undo", !.result = "error"]
  BY <1>1 DEF Calls, Prepared
<1>7. CASE EnsureGet \/ DeleteGet
  BY <1>2, <1>3, <1>4, <1>5, <1>7 DEF EnsureGet, DeleteGet, FailsWith, Prepared
<1>8. CASE Prepare
  BY <1>2, <1>8 DEF Prepare
<1>9. CASE Sweep \/ CreateSecret
  BY <1>9 DEF Sweep, CreateSecret, At, FailsWith, hostVars, Prepared
<1>10. CASE Recheck \/ Undo \/ OwnSecret \/ DeletePod \/ DeleteSecrets
  BY <1>2, <1>3, <1>10 DEF Recheck, Undo, OwnSecret, DeletePod, DeleteSecrets, FailsWith, Prepared
<1>11. CASE CreatePod
  BY <1>3, <1>6, <1>11 DEF CreatePod, Prepared
<1>12. CASE RemoveFinalizer \/ ForceDelete
  BY <1>2, <1>3, <1>5, <1>12 DEF RemoveFinalizer, ForceDelete, Prepared
<1>13. QED
  BY <1>7, <1>8, <1>9, <1>10, <1>11, <1>12 DEF CallStep

(* The steps that touch the host of the volume. *)
LEMMA HostSteps ==
  ASSUME [Next]_vars
  PROVE  KubeletStart \/ ProcessExits \/ Prepare \/ UNCHANGED hostVars
<1>1. CASE CallStep
  BY <1>1 DEF CallStep, EnsureGet, Recheck, Sweep, CreateSecret, CreatePod, Undo, OwnSecret, RemoveFinalizer,
     ForceDelete, DeleteGet, DeletePod, DeleteSecrets, FailsWith
<1>2. CASE Kubernetes
  BY <1>2 DEF Kubernetes, KubeletReportsRunning, KubeletReportsExit, KubeletFailsPod, KubeletConfirmsDelete,
     DeletedByHand, StuckAfter, NodeLost, CollectSecret, LateCreate
<1>3. CASE ~ CallStep /\ ~ Kubernetes
  BY <1>3, MemoryPods DEF hostVars
<1>4. QED
  BY <1>1, <1>2, <1>3

(* Without a pod no process runs; a process starts in a slot that is free. *)
LEMMA NoPodNoProcess ==
  ASSUME IInv, ProcInv
  PROVE  /\ ~ Exists => live = {}
         /\ live # {} => live = {pod.uid}
         /\ KubeletStart => live = {}
BY DEF IInv, TypeOK, ProcInv, ProcessOfPod, Exists, KubeletStart

LEMMA SlotStep ==
  ASSUME ~ HungKubelet, ~ LostResponses, IInv, ProcInv, AloneInv, SlotInv, [Next]_vars
  PROVE  SlotInv'
<1>1. /\ call.pc \in Prepared \cup {"prepare"} => ~ Exists /\ live = {}
      /\ ~ Exists => live = {}
  BY NoPodNoProcess DEF AloneInv, Podless, Prepared
<1>2. KubeletStart => /\ pod' = [pod EXCEPT !.started = TRUE] /\ Exists
                      /\ live' = live \cup {pod.uid} /\ spool' = spool \cup {pod.uid} /\ call' = call
  BY DEF KubeletStart, k8sUnchanged
<1>3. SpoolKept'
  <2>1. Prepare => live' = {}
    BY <1>1 DEF Prepare, At
  <2>2. ProcessExits => live' \subseteq live /\ UNCHANGED spool
    BY DEF ProcessExits
  <2>3. QED
    BY <1>2, <2>1, <2>2, HostSteps DEF SlotInv, SpoolKept, hostVars
<1>4. call'.pc \in Prepared => spool' = {}
  <2>1. CASE CallStep
    BY <2>1, PreparedMoves DEF SlotInv, SpoolFresh, IInv
  <2>2. CASE ~ CallStep
    <3>1. call'.pc \in Prepared => call.pc \in Prepared
      <4>1. Kubernetes => UNCHANGED call
        BY KubernetesPods
      <4>2. IdleCall.pc = "idle"
        BY DEF IdleCall
      <4>3. QED
        BY <2>2, <4>1, <4>2, MemoryPods DEF Prepared
    <3>2. call'.pc \in Prepared => UNCHANGED spool
      <4>1. ~ Prepare
        BY <2>2 DEF CallStep
      <4>2. QED
        BY <1>1, <1>2, <3>1, <4>1, HostSteps DEF ProcessExits, hostVars
    <3>3. QED
      BY <3>1, <3>2 DEF SlotInv, SpoolFresh
  <2>3. QED
    BY <2>1, <2>2
<1>5. Exists' /\ ~ pod'.started => spool' = {}
  <2> SUFFICES ASSUME Exists', ~ pod'.started PROVE spool' = {}
    OBVIOUS
  <2>1. ~ KubeletStart
    BY <1>2 DEF IInv, TypeOK, Pods
  <2>2. spool' \in {spool, {}}
    BY <2>1, HostSteps DEF Prepare, ProcessExits, hostVars
  <2>3. CASE ~ Exists
    <3>1. call.pc \in Prepared
      BY <2>3, PodsAreCreated DEF AloneInv, CreatePod, At, Prepared
    <3>2. QED
      BY <2>2, <3>1 DEF SlotInv, SpoolFresh
  <2>4. CASE Exists
    <3>1. SameProcess \/ PodGoes
      BY <2>1, <2>4, CallPods, KubernetesPods, MemoryPods DEF PodComes, SameProcess
    <3>2. ~ pod.started
      BY <3>1 DEF SameProcess, PodGoes, Exists, NoPod, NewPod
    <3>3. QED
      BY <2>2, <2>4, <3>2 DEF SlotInv, SpoolFresh
  <2>5. QED
    BY <2>3, <2>4
<1>6. QED
  BY <1>3, <1>4, <1>5 DEF SlotInv, SpoolFresh

LEMMA SlotInductive ==
  ASSUME ~ HungKubelet, ~ LostResponses
  PROVE  Spec => []SlotInv
<1>1. Init => SlotInv
  BY DEF Init, SlotInv, SpoolKept, SpoolFresh
<1>2. IInv /\ ProcInv /\ AloneInv /\ SlotInv /\ [Next]_vars => SlotInv'
  BY SlotStep
<1>3. QED
  BY <1>1, <1>2, Inductive, ProcInductive, AloneInductive, PTL DEF Spec

(* The spool is never emptied under a process that runs, although Prepare  *)
(* runs some requests after the last look at the pod (manager.go:408):     *)
(* every pod the calls create comes after it, and one call runs at a time. *)
THEOREM SpoolNeverLost ==
  ASSUME ~ HungKubelet, ~ LostResponses
  PROVE  Spec => []SpoolKept
<1>1. SlotInv => SpoolKept
  BY DEF SlotInv
<1>2. QED
  BY <1>1, SlotInductive, PTL

(* The mount pods of a volume behave as a slot for one mount process: a    *)
(* process starts in a free slot with an empty spool, and the spool is     *)
(* emptied only while the slot is free.                                    *)
THEOREM ImplementsSlot ==
  ASSUME ~ HungKubelet, ~ LostResponses
  PROVE  Spec => ImplementsMountSlot
<1>1. Init => Slot!Init
  BY DEF Init, Slot!Init
<1>2. IInv /\ ProcInv /\ AloneInv /\ SlotInv /\ [Next]_vars => [Slot!Next]_(Slot!vars)
  <2> SUFFICES ASSUME IInv, ProcInv, AloneInv, SlotInv, [Next]_vars
               PROVE  Slot!Next \/ UNCHANGED <<live, spool>>
    BY DEF Slot!vars
  <2>1. CASE KubeletStart
    <3>1. live = {} /\ spool = {} /\ pod.uid \in Uids
      BY <2>1, NoPodNoProcess DEF KubeletStart, SlotInv, SpoolFresh, Exists, IInv, TypeOK, Pods
    <3>2. Slot!Start(pod.uid)
      BY <2>1, <3>1 DEF KubeletStart, Slot!Start
    <3>3. QED
      BY <3>1, <3>2 DEF Slot!Next
  <2>2. CASE ProcessExits
    <3>1. live # {} /\ live' = {} /\ UNCHANGED spool
      BY <2>2, NoPodNoProcess DEF ProcessExits
    <3>2. QED
      BY <3>1 DEF Slot!Exit, Slot!Next
  <2>3. CASE Prepare
    <3>1. live = {} /\ UNCHANGED live /\ spool' \in {spool, {}}
      BY <2>3, NoPodNoProcess DEF Prepare, At, AloneInv, Podless
    <3>2. QED
      BY <3>1 DEF Slot!Clean, Slot!Next
  <2>4. QED
    BY <2>1, <2>2, <2>3, HostSteps DEF hostVars
<1>3. QED
  BY <1>1, <1>2, Inductive, ProcInductive, AloneInductive, SlotInductive, PTL
     DEF Spec, ImplementsMountSlot, Slot!Spec

-----------------------------------------------------------------------------
(* What Delete leaves. *)

(* A call that is done has ended, and left no Secret if every request      *)
(* succeeded.                                                              *)
DoneInv == call.result = "done" => call.pc = "idle" /\ (faults = 0 => secrets = {})

LEMMA DoneStep ==
  ASSUME IInv, DoneInv, [Next]_vars
  PROVE  DoneInv'
<1>1. CASE CallStep
  <2>1. call.result # "done"
    BY <1>1 DEF DoneInv, CallStep, EnsureGet, Recheck, Prepare, Sweep, CreateSecret, CreatePod, Undo, OwnSecret,
           RemoveFinalizer, ForceDelete, DeleteGet, DeletePod, DeleteSecrets, At
  <2>2. ASSUME DeleteSecrets, Return("done") PROVE call'.pc = "idle" /\ (faults' = 0 => secrets' = {})
    <3>1. call'.pc = "idle" /\ call'.result # "error" /\ faults \in Nat
      BY <2>2 DEF Return, IInv, TypeOK, Calls
    <3>2. ~ FailsWith(Return("error"))
      BY <3>1 DEF FailsWith, Return, IInv, TypeOK, Calls
    <3>3. QED
      BY <2>2, <3>1, <3>2 DEF DeleteSecrets, Fault
  <2>3. QED
    BY <1>1, <2>1, <2>2, DoneMoves DEF IInv, DoneInv
<1>2. CASE Kubernetes
  <2>1. UNCHANGED <<call, faults>> /\ secrets' \subseteq secrets
    BY <1>2 DEF Kubernetes, KubeletStart, KubeletReportsRunning, ProcessExits, KubeletReportsExit, KubeletFailsPod,
       KubeletConfirmsDelete, DeletedByHand, StuckAfter, NodeLost, CollectSecret, LateCreate, k8sUnchanged
  <2>2. QED
    BY <2>1 DEF DoneInv
<1>3. CASE ~ CallStep /\ ~ Kubernetes
  BY <1>3, MemoryPods DEF DoneInv, IdleCall
<1>4. QED
  BY <1>1, <1>2, <1>3

(* Delete that ends without a failed request leaves no Secret with         *)
(* credentials, whatever crashed before and in every mode (deleteSecrets,  *)
(* manager.go).                                                            *)
THEOREM NoSecretLeft == Spec => []DeleteLeavesNoSecret
<1>1. Init => DoneInv
  BY DEF Init, DoneInv, IdleCall
<1>2. IInv /\ DoneInv /\ [Next]_vars => DoneInv'
  BY DoneStep
<1>3. DoneInv => DeleteLeavesNoSecret
  BY DEF DoneInv, DeleteLeavesNoSecret
<1>4. QED
  BY <1>1, <1>2, <1>3, Inductive, PTL DEF Spec

(* Once Delete reports the end, the volume has neither a pod nor a mount   *)
(* process on the node, until the next call.                               *)
THEOREM DeletedIsGone ==
  ASSUME ~ HungKubelet, ~ LostResponses
  PROVE  Spec => []DeleteMeansGone
<1>1. IInv /\ ProcInv /\ AloneInv => DeleteMeansGone
  BY NoPodNoProcess DEF AloneInv, DeleteMeansGone
<1>2. QED
  BY <1>1, Inductive, ProcInductive, AloneInductive, PTL

-----------------------------------------------------------------------------
(* The Secret of the pod, also with a kubelet that hangs. *)

(* A Secret that is made has no owner until its pod exists. *)
SecretInv ==
  /\ PodKeepsSecret
  /\ call.pc = "createPod" => call.seen.uid \in secrets \ owned

LEMMA SecretStep ==
  ASSUME ~ LostResponses, IInv, IInv', AloneInv, SecretInv, [Next]_vars
  PROVE  SecretInv'
<1>1. /\ call \in Calls /\ owned \subseteq secrets
      /\ call.pc \in Podless => ~ Exists
      /\ Exists => pod.uid \in secrets
      /\ call.pc = "createPod" => call.seen.uid \in secrets \ owned
  BY DEF IInv, TypeOK, AloneInv, SecretInv, PodKeepsSecret
<1>2. ASSUME ~ CreatePod, Exists', UNCHANGED secrets PROVE pod'.uid \in secrets'
  BY <1>1, <1>2, PodUids DEF AloneInv, Exists, NoPod, NewPod
<1>3. ASSUME call'.pc # "createPod", Exists' => pod'.uid \in secrets' PROVE SecretInv'
  BY <1>3 DEF SecretInv, PodKeepsSecret
<1>4. CASE CallStep
  <2>1. CASE CreateSecret
    <3>1. call.pc = "createSecret" /\ UNCHANGED <<pod, owned>>
      BY <2>1 DEF CreateSecret, At, FailsWith, apiVars
    <3>2. ~ Exists' /\ UNCHANGED owned
      BY <1>1, <3>1 DEF Podless, Exists
    <3>3. call'.pc = "createPod" => call'.seen.uid \in secrets' \ owned'
      <4>1. ASSUME NEW r, Return(r) PROVE call'.pc # "createPod"
        BY <1>1, <4>1 DEF Return, Calls
      <4>2. ASSUME NEW u \in FreshUids, GotoWith("createPod", NewPod(u, call.hash)), secrets' = secrets \cup {u}
            PROVE  call'.seen.uid \in secrets' \ owned'
        BY <1>1, <3>2, <4>2 DEF GotoWith, NewPod, FreshUids, Calls
      <4>3. QED
        BY <2>1, <4>1, <4>2 DEF CreateSecret, FailsWith
    <3>4. QED
      BY <3>2, <3>3 DEF SecretInv, PodKeepsSecret
  <2>2. CASE CreatePod
    <3>1. call.pc = "createPod" /\ (pod' = call.seen \/ pod' = pod) /\ UNCHANGED secrets
      BY <2>2 DEF CreatePod, At, PodCreated
    <3>2. call'.pc # "createPod"
      BY <2>2, <3>1, CallMoves DEF CallStep, CreateSecret, At, IInv
    <3>3. QED
      BY <1>1, <1>3, <3>1, <3>2 DEF Exists
  <2>3. CASE ~ CreateSecret /\ ~ CreatePod
    <3>1. call'.pc # "createPod"
      BY <1>4, <2>3, CallMoves DEF IInv
    <3>2. CASE Sweep \/ Undo \/ DeleteSecrets
      <4>1. ~ Exists /\ UNCHANGED pod
        BY <1>1, <3>2 DEF Sweep, Undo, DeleteSecrets, At, Podless, FailsWith, apiVars
      <4>2. QED
        BY <1>3, <3>1, <4>1 DEF Exists
    <3>3. CASE ~ Sweep /\ ~ Undo /\ ~ DeleteSecrets
      <4>1. UNCHANGED secrets
        BY <1>4, <2>3, <3>3 DEF CallStep, EnsureGet, Recheck, Prepare, OwnSecret, RemoveFinalizer, ForceDelete,
           DeleteGet, DeletePod, FailsWith, apiVars
      <4>2. QED
        BY <1>2, <1>3, <2>3, <3>1, <4>1
    <3>4. QED
      BY <3>2, <3>3
  <2>4. QED
    BY <2>1, <2>2, <2>3
<1>5. CASE ~ CallStep
  <2>1. call' = call \/ call'.pc # "createPod"
    <3>1. Kubernetes => UNCHANGED call
      BY DEF Kubernetes, KubeletStart, KubeletReportsRunning, ProcessExits, KubeletReportsExit, KubeletFailsPod,
       KubeletConfirmsDelete, DeletedByHand, StuckAfter, NodeLost, CollectSecret, LateCreate, k8sUnchanged
    <3>2. QED
      BY <1>5, <3>1, MemoryPods DEF IdleCall
  <2>2. CASE CollectSecret
    <3>1. PICK u \in owned \ {pod.uid} : secrets' = secrets \ {u} /\ owned' = owned \ {u}
      BY <2>2 DEF CollectSecret
    <3>2. UNCHANGED <<pod, call>>
      BY <2>2 DEF CollectSecret
    <3>3. QED
      BY <1>1, <3>1, <3>2 DEF SecretInv, PodKeepsSecret, Exists
  <2>3. CASE ~ CollectSecret
    <3>1. UNCHANGED <<secrets, owned>>
      <4>1. CASE Kubernetes
        BY <2>3, <4>1 DEF Kubernetes, KubeletStart, KubeletReportsRunning, ProcessExits, KubeletReportsExit,
           KubeletFailsPod, KubeletConfirmsDelete, DeletedByHand, StuckAfter, NodeLost, LateCreate, k8sUnchanged
      <4>2. QED
        BY <1>5, <4>1, MemoryPods
    <3>2. ~ CreatePod
      BY <1>5 DEF CallStep
    <3>3. QED
      BY <1>1, <1>2, <2>1, <3>1, <3>2 DEF SecretInv, PodKeepsSecret
  <2>4. QED
    BY <2>2, <2>3
<1>6. QED
  BY <1>4, <1>5

(* A pod keeps its Secret as long as it exists (SpecOf, manager.go:575):   *)
(* neither the sweep of a later creation, nor the clean-up of a failed     *)
(* one, nor the garbage collector takes it, if no request takes effect     *)
(* after it failed.                                                        *)
THEOREM SecretStays ==
  ASSUME ~ LostResponses
  PROVE  Spec => []PodKeepsSecret
<1>1. Init => SecretInv
  BY DEF Init, SecretInv, PodKeepsSecret, Exists, NoPod, NewPod, IdleCall
<1>2. IInv /\ IInv' /\ AloneInv /\ SecretInv /\ [Next]_vars => SecretInv'
  BY SecretStep
<1>3. SecretInv => PodKeepsSecret
  BY DEF SecretInv
<1>4. QED
  BY <1>1, <1>2, <1>3, Inductive, AloneInductive, PTL DEF Spec

-----------------------------------------------------------------------------
(* The give-up, also with a kubelet that hangs. *)

LEMMA RecordExitGivesUp ==
  ASSUME NEW e \in Backoffs, NEW p \in Pods, e.lastPod # p.uid
  PROVE  RecordExit(e, p).gaveUp <=> e.gaveUp \/ RecordExit(e, p).fatal >= MaxFatalExits
<1> DEFINE fatal == IF p.fatal THEN e.fatal + 1 ELSE 0
           counted == [e EXCEPT !.lastPod = p.uid, !.fatal = fatal]
<1>1. RecordExit(e, p) = IF fatal >= MaxFatalExits THEN [counted EXCEPT !.gaveUp = TRUE, !.due = TRUE]
                         ELSE [counted EXCEPT !.due = FALSE]
  BY DEF RecordExit
<1>2. RecordExit(e, p).fatal = fatal
  BY RecordExitType
<1>3. counted.gaveUp = e.gaveUp /\ counted \in Backoffs
  <2>1. fatal \in Nat /\ p.uid \in Uids \cup {NoUid}
    BY DEF Backoffs, Pods
  <2>2. QED
    BY <2>1 DEF Backoffs
<1> HIDE DEF fatal, counted
<1>4. CASE fatal >= MaxFatalExits
  <2>1. [counted EXCEPT !.gaveUp = TRUE, !.due = TRUE].gaveUp = TRUE
    BY <1>3 DEF Backoffs
  <2>2. QED
    BY <1>1, <1>2, <1>4, <2>1
<1>5. CASE ~ (fatal >= MaxFatalExits)
  <2>1. [counted EXCEPT !.due = FALSE].gaveUp = counted.gaveUp
    BY <1>3 DEF Backoffs
  <2>2. QED
    BY <1>1, <1>2, <1>3, <1>5, <2>1
<1>6. QED
  BY <1>4, <1>5

(* The tries of a configuration are accounted for: n of them, of which the *)
(* backoff has counted the fatal ones and misses at most the pod there is; *)
(* a volume that gave up has no pod left to count.                         *)
Accounted(b, p, n) ==
  /\ n = b.fatal + PodsOf(p, b.hash, b.lastPod)
  /\ b.fatal <= MaxFatalExits
  /\ b.gaveUp <=> b.fatal = MaxFatalExits
  /\ b.gaveUp => PodsOf(p, b.hash, b.lastPod) = 0

LEMMA ObserveAccounts ==
  ASSUME NEW b \in Backoffs, NEW h \in Hashes, NEW p \in Pods, p.uid \in Uids, p.hash \in Hashes,
         Accounted(b, p, series),
         b.lastPod = p.uid /\ ~ p.fatal => b.fatal = 0
  PROVE  /\ Accounted(Observe(b, h, p), p, SeriesAfter(b, h, p))
         /\ Observe(b, h, p).hash = h
         /\ Finished(p) => PodsOf(p, h, Observe(b, h, p).lastPod) = 0
<1> DEFINE e == Entry(b, h)
           c == CountExit(b, h, p)
           start == IF b.hash = h THEN series
                    ELSE PodsOf(p, h, NoUid) + IF b = NoBackoff THEN series ELSE 0
<1>1. b.fatal \in Nat /\ PodsOf(p, b.hash, b.lastPod) \in {0, 1} /\ series \in Nat
  BY DEF Backoffs, PodsOf, Accounted
<1>2. e \in Backoffs /\ e.hash = h /\ Accounted(e, p, start) /\ (e.lastPod = p.uid /\ ~ p.fatal => e.fatal = 0)
  <2>1. CASE b.hash = h
    <3>1. e = b /\ start = series
      BY <2>1, BackoffTypes
    <3> HIDE DEF e, start
    <3>2. QED
      BY <2>1, <3>1
  <2>2. CASE b.hash # h
    <3>1. e = FreshBackoff(h) /\ e.hash = h /\ e.fatal = 0 /\ e.lastPod = NoUid /\ ~ e.gaveUp /\ e \in Backoffs
      BY <2>2 DEF Entry, FreshBackoff, Backoffs
    <3>2. b = NoBackoff => series = 0
      BY DEF NoBackoff, FreshBackoff, Accounted, PodsOf
    <3>3. start = PodsOf(p, h, NoUid) /\ PodsOf(p, h, NoUid) \in Nat
      BY <2>2, <3>2 DEF PodsOf
    <3>4. QED
      BY <3>1, <3>3 DEF Accounted
  <2>3. QED
    BY <2>1, <2>2
<1> HIDE DEF e, start
<1>3. e.fatal \in Nat /\ e.fatal <= MaxFatalExits /\ (e.gaveUp <=> e.fatal = MaxFatalExits)
      /\ start = e.fatal + PodsOf(p, h, e.lastPod) /\ (e.gaveUp => PodsOf(p, h, e.lastPod) = 0)
      /\ start \in Nat
  BY <1>2 DEF Accounted, Backoffs, PodsOf
<1>4. CASE Finished(p) /\ p.hash = h
  <2>1. c = RecordExit(e, p)
    BY <1>4 DEF CountExit, e
  <2>2. c \in Backoffs /\ c.hash = h /\ c.lastPod = p.uid /\ PodsOf(p, h, c.lastPod) = 0
    BY <1>2, <2>1, RecordExitType DEF PodsOf
  <2>3. /\ c.fatal \in Nat /\ c.fatal <= MaxFatalExits /\ (c.gaveUp <=> c.fatal = MaxFatalExits)
        /\ c.fatal = IF p.fatal THEN start ELSE 0
    <3>1. CASE e.lastPod = p.uid
      <4>1. c = e /\ PodsOf(p, h, e.lastPod) = 0
        BY <1>2, <2>1, <3>1, RecordExitType DEF PodsOf
      <4>2. p.fatal => start = e.fatal
        BY <1>3, <4>1
      <4>3. ~ p.fatal => e.fatal = 0
        BY <1>2, <3>1
      <4>4. QED
        BY <1>3, <4>1, <4>2, <4>3
    <3>2. CASE e.lastPod # p.uid
      <4>1. PodsOf(p, h, e.lastPod) = 1
        BY <1>4, <3>2 DEF PodsOf
      <4>2. ~ e.gaveUp /\ e.fatal < MaxFatalExits /\ start = e.fatal + 1
        BY <1>3, <4>1
      <4>3. c.fatal = IF p.fatal THEN e.fatal + 1 ELSE 0
        BY <1>2, <2>1, <3>2, RecordExitType
      <4>4. c.gaveUp <=> c.fatal >= MaxFatalExits
        BY <1>2, <2>1, <3>2, <4>2, RecordExitGivesUp
      <4>5. QED
        BY <1>3, <4>2, <4>3, <4>4
    <3>3. QED
      BY <3>1, <3>2
  <2> HIDE DEF c
  <2>4. CASE StartsOver(c, p)
    <3>1. Observe(b, h, p) = Reset(c) /\ SeriesAfter(b, h, p) = 0
      BY <2>4 DEF Observe, SeriesAfter, c
    <3>2. /\ Reset(c).hash = h /\ Reset(c).lastPod = p.uid /\ Reset(c).fatal = 0 /\ ~ Reset(c).gaveUp
      BY <2>2 DEF Reset, FreshBackoff, Backoffs
    <3>3. QED
      BY <2>2, <3>1, <3>2 DEF Accounted
  <2>5. CASE ~ StartsOver(c, p)
    <3>1. Observe(b, h, p) = c
      BY <2>5 DEF Observe, c
    <3>2. SeriesAfter(b, h, p) = IF p.fatal THEN start ELSE 0
      BY <1>4, <2>5 DEF SeriesAfter, c, start, Pods
    <3>3. QED
      BY <1>3, <2>2, <2>3, <3>1, <3>2 DEF Accounted
  <2>6. QED
    BY <2>4, <2>5
<1>5. CASE ~ (Finished(p) /\ p.hash = h)
  <2>1. c = e
    BY <1>5 DEF CountExit, e
  <2>2. Finished(p) => \A u : PodsOf(p, h, u) = 0
    BY <1>5 DEF PodsOf
  <2>3. CASE StartsOver(e, p)
    <3>1. Observe(b, h, p) = Reset(e) /\ SeriesAfter(b, h, p) = 0
      BY <2>1, <2>3 DEF Observe, SeriesAfter
    <3>2. /\ Reset(e).hash = h /\ Reset(e).fatal = 0 /\ ~ Reset(e).gaveUp
      BY <1>2 DEF Reset, FreshBackoff, Backoffs
    <3>3. Finished(p)
      BY <2>3 DEF StartsOver
    <3>4. QED
      BY <2>2, <3>1, <3>2, <3>3 DEF Accounted
  <2>4. CASE ~ StartsOver(e, p)
    <3>1. Observe(b, h, p) = e
      BY <2>1, <2>4 DEF Observe
    <3>2. SeriesAfter(b, h, p) = start
      BY <1>5, <2>1, <2>4 DEF SeriesAfter, start
    <3>3. QED
      BY <1>2, <2>2, <3>1, <3>2
  <2>5. QED
    BY <2>3, <2>4
<1>6. QED
  BY <1>4, <1>5

(* A call on its way to a new pod has found the volume not given up, and   *)
(* one that releases a pod for its successor has counted it.               *)
Trying == {"recheck", "prepare", "sweep", "createSecret", "createPod"}

GiveUpInv ==
  /\ Accounted(backoff, pod, series)
  /\ call.pc \in Trying => ~ backoff.gaveUp
  /\ call.op = "Ensure" /\ call.pc \in Releasing =>
       backoff.hash = call.hash /\ (pod.uid = call.seen.uid => Uncounted = 0)

(* Only Ensure, once it decided to go on, leads to a creation; only        *)
(* EnsureGet and DeleteGet to a release.                                   *)
LEMMA TryingMoves ==
  ASSUME TypeOK, CallStep, ~ EnsureGet, ~ DeleteGet
  PROVE  /\ call'.pc \in Trying => call.pc \in Trying \/ ForceDelete
         /\ call'.pc \in Releasing => call.pc \in Releasing /\ call'.seen = call.seen
<1>1. call \in Calls
  BY DEF TypeOK
<1>2. ASSUME NEW r, Return(r) PROVE call'.pc = "idle"
  BY <1>1, <1>2 DEF Return, Calls
<1>3. ASSUME NEW q, Goto(q) PROVE call'.pc = q /\ call'.seen = call.seen
  BY <1>1, <1>3 DEF Goto, Calls
<1>4. ASSUME NEW q, NEW p, GotoWith(q, p) PROVE call'.pc = q
  BY <1>1, <1>4 DEF GotoWith, Calls
<1>5. ASSUME NEW b, Decide(b) PROVE call'.pc \in {"idle", "recheck"}
  BY <1>2, <1>3, <1>5 DEF Decide
<1>6. ASSUME NEW r, call' = [call EXCEPT !.pc = "undo", !.result = r] PROVE call'.pc = "undo"
  BY <1>1, <1>6 DEF Calls
<1>7. CASE Recheck \/ Prepare \/ Sweep
  BY <1>2, <1>3, <1>7 DEF Recheck, Prepare, Sweep, FailsWith, At, Trying, Releasing
<1>8. CASE CreateSecret
  BY <1>2, <1>4, <1>8 DEF CreateSecret, FailsWith, At, Trying, Releasing
<1>9. CASE CreatePod
  BY <1>3, <1>6, <1>9 DEF CreatePod, Trying, Releasing
<1>10. CASE Undo \/ OwnSecret \/ DeletePod \/ DeleteSecrets
  BY <1>2, <1>10 DEF Undo, OwnSecret, DeletePod, DeleteSecrets, FailsWith, Trying, Releasing
<1>11. CASE RemoveFinalizer
  BY <1>2, <1>3, <1>11 DEF RemoveFinalizer, Trying, Releasing
<1>12. CASE ForceDelete
  BY <1>2, <1>3, <1>5, <1>12 DEF ForceDelete, Trying, Releasing
<1>13. QED
  BY <1>7, <1>8, <1>9, <1>10, <1>11, <1>12 DEF CallStep

(* A step that leaves the memory and the identity of the pod alone. *)
LEMMA GiveUpSame ==
  ASSUME GiveUpInv, UNCHANGED <<backoff, series>>, pod'.uid = pod.uid, pod'.hash = pod.hash,
         call'.pc \in Trying => call.pc \in Trying,
         call'.op = "Ensure" /\ call'.pc \in Releasing =>
           call.op = "Ensure" /\ call.pc \in Releasing /\ call'.hash = call.hash /\ call'.seen = call.seen
  PROVE  GiveUpInv'
BY DEF GiveUpInv, Accounted, Uncounted, PodsOf

(* A step after which there is no pod. *)
LEMMA GiveUpGone ==
  ASSUME GiveUpInv, IInv, pod' = NoPod, series' = backoff'.fatal, backoff'.fatal \in Nat,
         backoff'.fatal <= MaxFatalExits, backoff'.gaveUp <=> backoff'.fatal = MaxFatalExits,
         call'.pc \in Trying => ~ backoff'.gaveUp,
         call'.op = "Ensure" /\ call'.pc \in Releasing => backoff'.hash = call'.hash
  PROVE  GiveUpInv'
<1>1. PodsOf(NoPod, backoff'.hash, backoff'.lastPod) = 0
  BY DEF PodsOf, NoPod, NewPod
<1>2. QED
  BY <1>1 DEF GiveUpInv, Accounted, Uncounted

LEMMA GiveUpCallStep ==
  ASSUME ~ LostResponses, IInv, AloneInv, GiveUpInv, CallStep
  PROVE  GiveUpInv'
<1>1. /\ call \in Calls /\ backoff \in Backoffs /\ pod \in Pods /\ series \in Nat
      /\ call'.op = call.op /\ call'.hash = call.hash
  BY CallMoves DEF IInv, TypeOK
<1>2. /\ series = backoff.fatal + Uncounted /\ backoff.fatal \in Nat /\ Uncounted \in {0, 1}
      /\ backoff.fatal <= MaxFatalExits /\ (backoff.gaveUp <=> backoff.fatal = MaxFatalExits)
      /\ backoff.gaveUp => Uncounted = 0
      /\ ~ Exists => Uncounted = 0
  BY <1>1 DEF GiveUpInv, Accounted, Uncounted, PodsOf, Backoffs, Exists
<1>3. ASSUME NEW r, Return(r) PROVE call'.pc \notin Trying \cup Releasing
  BY <1>1, <1>3 DEF Return, Calls, Trying, Releasing
<1>4. ASSUME NEW b, Decide(b), call'.pc \in Trying PROVE ~ b.gaveUp
  BY <1>3, <1>4 DEF Decide
<1>5. ASSUME NEW b, Decide(b) PROVE call'.pc \notin Releasing
  <2>1. Goto("recheck") => call'.pc = "recheck"
    BY <1>1 DEF Goto, Calls
  <2>2. QED
    BY <1>3, <1>5, <2>1 DEF Decide, Releasing
<1>6. ASSUME NEW q, NEW p, GotoWith(q, p) PROVE call'.pc = q /\ call'.seen = p
  BY <1>1, <1>6 DEF GotoWith, Calls
<1>7. CASE EnsureGet
  <2>1. CASE FailsWith(Return("error"))
    BY <1>3, <2>1, GiveUpSame DEF FailsWith, apiVars, memVars
  <2>2. CASE ~ FailsWith(Return("error"))
    <3> DEFINE b == IF Exists THEN Observe(backoff, call.hash, pod) ELSE Entry(backoff, call.hash)
    <3>1. /\ UNCHANGED pod /\ backoff' = b /\ series' = SeriesAfter(backoff, call.hash, pod)
          /\ call.hash \in Hashes
      BY <1>7, <2>2 DEF EnsureGet, At, IInv, CallShape, apiVars
    <3>2. CASE Exists
      <4>1. /\ pod.uid \in Uids /\ pod.hash \in Hashes
            /\ backoff.lastPod = pod.uid /\ ~ pod.fatal => backoff.fatal = 0
        BY <3>2 DEF Exists, IInv, PodShape, NoPod, NewPod, LastExitCounted
      <4>2. /\ Accounted(b, pod, series') /\ b.hash = call.hash
            /\ Finished(pod) => PodsOf(pod, call.hash, b.lastPod) = 0
        BY <1>1, <3>1, <3>2, <4>1, ObserveAccounts DEF GiveUpInv
      <4> HIDE DEF b
      <4>3. call'.pc \notin Trying
        BY <1>3, <1>6, <1>7, <2>2, <3>2 DEF EnsureGet, Trying
      <4>4. call'.pc \in Releasing => Finished(pod)
        BY <1>3, <1>6, <1>7, <2>2, <3>2 DEF EnsureGet, Releasing
      <4>5. QED
        BY <1>1, <3>1, <4>2, <4>3, <4>4 DEF GiveUpInv, Uncounted
    <3>3. CASE ~ Exists
      <4>1. pod = NoPod /\ ~ Finished(pod) /\ ~ pod.deleted
        BY <3>3 DEF Exists, IInv, PodShape, Finished, NoPod, NewPod
      <4>2. SeriesAfter(backoff, call.hash, pod) = IF backoff.hash = call.hash THEN series
                                                   ELSE 0 + IF backoff = NoBackoff THEN series ELSE 0
        BY <3>3, <4>1 DEF SeriesAfter, StartsOver, PodsOf, Exists
      <4>3. backoff = NoBackoff => series = 0
        BY <1>2, <3>3 DEF NoBackoff, FreshBackoff
      <4>4. /\ series' = b.fatal /\ b.fatal \in Nat /\ b.fatal <= MaxFatalExits
            /\ b.gaveUp <=> b.fatal = MaxFatalExits
        <5>1. CASE backoff.hash = call.hash
          <6>1. b = backoff /\ series' = series
            BY <3>1, <3>3, <4>2, <5>1 DEF Entry
          <6>2. QED
            BY <1>1, <1>2, <3>3, <6>1
        <5>2. CASE backoff.hash # call.hash
          BY <3>1, <3>3, <4>2, <4>3, <5>2 DEF Entry, FreshBackoff
        <5>3. QED
          BY <5>1, <5>2
      <4> HIDE DEF b
      <4>5. Decide(b)
        BY <1>7, <2>2, <3>3 DEF EnsureGet, b
      <4>6. QED
        BY <1>4, <1>5, <3>1, <4>1, <4>4, <4>5, GiveUpGone
    <3>4. QED
      BY <3>2, <3>3
  <2>3. QED
    BY <2>1, <2>2
<1>8. CASE CreatePod
  <2>1. /\ call.pc = "createPod" /\ ~ Exists /\ UNCHANGED backoff /\ ~ backoff.gaveUp
        /\ call'.pc \notin Releasing
    <3>1. call.pc = "createPod" /\ UNCHANGED backoff
      BY <1>8 DEF CreatePod, At
    <3>2. call'.pc \notin Releasing
      BY <1>8, <3>1, TryingMoves DEF EnsureGet, DeleteGet, At, Releasing, IInv
    <3>3. QED
      BY <3>1, <3>2 DEF AloneInv, Podless, GiveUpInv, Trying
  <2>2. CASE UNCHANGED <<pod, series>>
    BY <2>1, <2>2, GiveUpSame DEF Trying
  <2>3. CASE PodCreated(call.seen)
    <3>1. call.seen.uid # backoff.lastPod /\ call.seen.uid # NoUid
      <4>1. PICK u \in Uids : call.seen = NewPod(u, call.hash)
        BY <2>1 DEF IInv, CallShape
      <4>2. call.seen.uid = u
        BY <4>1 DEF NewPod
      <4>3. QED
        BY <2>1, <4>2 DEF IInv, UidsDistinct
    <3>2. PodsOf(call.seen, backoff.hash, backoff.lastPod) = IF call.seen.hash = backoff.hash THEN 1 ELSE 0
      BY <3>1 DEF PodsOf
    <3>3. QED
      BY <1>2, <2>1, <2>3, <3>2 DEF PodCreated, GiveUpInv, Accounted
  <2>4. QED
    BY <1>8, <2>2, <2>3 DEF CreatePod
<1>9. CASE RemoveFinalizer
  <2>1. /\ UNCHANGED backoff /\ call.pc \in Releasing
        /\ call'.pc \notin Trying /\ (call'.pc \in Releasing => call'.seen = call.seen)
    <3>1. UNCHANGED backoff /\ call.pc \in Releasing
      BY <1>9 DEF RemoveFinalizer, Releasing
    <3>2. QED
      BY <1>9, <3>1, TryingMoves DEF EnsureGet, DeleteGet, ForceDelete, RemoveFinalizer, At, Releasing, Trying,
                                     IInv, CallStep
  <2>2. CASE pod' = NoPod /\ series' = SeriesWithout
    <3>1. series' = backoff.fatal
      BY <1>2, <2>2 DEF SeriesWithout, Uncounted
    <3>2. QED
      BY <1>1, <1>2, <2>1, <2>2, <3>1, GiveUpGone DEF GiveUpInv
  <2>3. CASE UNCHANGED series /\ pod' \in {pod, [pod EXCEPT !.finalizer = FALSE]}
    <3>1. pod'.uid = pod.uid /\ pod'.hash = pod.hash
      BY <1>1, <2>3 DEF Pods
    <3>2. QED
      BY <1>1, <2>1, <2>3, <3>1, GiveUpSame
  <2>4. QED
    BY <1>9, <2>2, <2>3 DEF RemoveFinalizer, FinalizerRemoved
<1>10. CASE ForceDelete
  <2>1. call.pc \in Releasing
    BY <1>10 DEF ForceDelete, Releasing
  <2>2. CASE Return("error") /\ UNCHANGED <<pod, series, backoff>>
    BY <1>3, <2>2, GiveUpSame
  <2>3. CASE /\ (Exists => pod.uid = call.seen.uid) /\ pod' = NoPod /\ call.op = "Ensure"
             /\ backoff' = Entry(backoff, call.hash) /\ Decide(backoff') /\ UNCHANGED series
    <3>1. backoff' = backoff /\ Uncounted = 0
      BY <1>2, <2>1, <2>3 DEF GiveUpInv, Entry
    <3>2. QED
      BY <1>2, <1>4, <1>5, <2>3, <3>1, GiveUpGone
  <2>4. CASE pod' = NoPod /\ Goto("deleteSecrets") /\ (ForgetAll \/ ForgetKeepingGiveUp)
    <3>1. call'.pc \notin Trying \cup Releasing
      BY <1>1, <2>4 DEF Goto, Calls, Trying, Releasing
    <3>2. /\ series' = backoff'.fatal /\ backoff'.fatal \in Nat /\ backoff'.fatal <= MaxFatalExits
          /\ backoff'.gaveUp <=> backoff'.fatal = MaxFatalExits
      BY <1>2, <2>4 DEF ForgetAll, ForgetKeepingGiveUp, NoBackoff, FreshBackoff
    <3>3. QED
      BY <2>4, <3>1, <3>2, GiveUpGone
  <2>5. QED
    BY <1>10, <2>2, <2>3, <2>4 DEF ForceDelete
<1>11. CASE DeleteGet
  <2>1. call.op = "Delete" /\ UNCHANGED pod
    BY <1>11 DEF DeleteGet, At, FailsWith, apiVars
  <2>2. call'.pc \notin Trying
    <3>1. Goto("deleteSecrets") => call'.pc = "deleteSecrets"
      BY <1>1 DEF Goto, Calls
    <3>2. QED
      BY <1>3, <1>6, <1>11, <3>1 DEF DeleteGet, FailsWith, Trying
  <2>3. CASE UNCHANGED <<backoff, series>>
    BY <1>1, <2>1, <2>2, <2>3, GiveUpSame
  <2>4. CASE ~ Exists /\ ForgetKeepingGiveUp
    <3>1. pod' = NoPod
      BY <2>1, <2>4 DEF Exists, IInv, PodShape
    <3>2. /\ series' = backoff'.fatal /\ backoff'.fatal \in Nat /\ backoff'.fatal <= MaxFatalExits
          /\ backoff'.gaveUp <=> backoff'.fatal = MaxFatalExits
      BY <1>2, <2>4 DEF ForgetKeepingGiveUp, NoBackoff, FreshBackoff
    <3>3. QED
      BY <1>1, <2>1, <2>2, <3>1, <3>2, GiveUpGone
  <2>5. QED
    BY <1>11, <2>3, <2>4 DEF DeleteGet, FailsWith, memVars
<1>12. CASE Recheck \/ Prepare \/ Sweep \/ CreateSecret \/ Undo \/ OwnSecret \/ DeletePod \/ DeleteSecrets
  <2>1. UNCHANGED <<backoff, series>> /\ pod'.uid = pod.uid /\ pod'.hash = pod.hash
    BY <1>1, <1>12 DEF Recheck, Prepare, Sweep, CreateSecret, Undo, OwnSecret, DeletePod, DeleteSecrets, FailsWith,
                       apiVars, memVars, Deleted, Pods
  <2>2. ~ EnsureGet /\ ~ DeleteGet /\ ~ ForceDelete
    BY <1>12 DEF EnsureGet, DeleteGet, ForceDelete, Recheck, Prepare, Sweep, CreateSecret, Undo, OwnSecret, DeletePod,
                 DeleteSecrets, At
  <2>3. QED
    BY <1>1, <2>1, <2>2, TryingMoves, GiveUpSame DEF IInv
<1>13. QED
  BY <1>7, <1>8, <1>9, <1>10, <1>11, <1>12 DEF CallStep

LEMMA GiveUpOtherStep ==
  ASSUME IInv, AloneInv, GiveUpInv, [Next]_vars, ~ CallStep
  PROVE  GiveUpInv'
<1>1. /\ backoff \in Backoffs /\ pod \in Pods
      /\ series = backoff.fatal + Uncounted /\ backoff.fatal \in Nat /\ Uncounted \in {0, 1}
      /\ backoff.fatal <= MaxFatalExits /\ (backoff.gaveUp <=> backoff.fatal = MaxFatalExits)
      /\ ~ Exists => Uncounted = 0
  BY DEF GiveUpInv, Accounted, Uncounted, PodsOf, Backoffs, Exists, IInv, TypeOK
<1>2. ~ CreatePod
  BY DEF CallStep
<1>3. /\ NoBackoff.fatal = 0 /\ ~ NoBackoff.gaveUp /\ NoBackoff.hash = NoHash /\ NoPod.hash = NoHash
      /\ NoPod.uid = NoUid /\ IdleCall.pc = "idle"
  BY DEF NoBackoff, FreshBackoff, NoPod, NewPod, IdleCall
<1>4. CASE UNCHANGED <<backoff, series, pod>> /\ (call' = call \/ call'.pc = "get")
  BY <1>4, GiveUpSame DEF Trying, Releasing
<1>5. CASE Kubernetes
  <2>1. UNCHANGED <<backoff, call>>
    BY <1>5 DEF Kubernetes, KubeletStart, KubeletReportsRunning, ProcessExits, KubeletReportsExit, KubeletFailsPod,
       KubeletConfirmsDelete, DeletedByHand, StuckAfter, NodeLost, CollectSecret, LateCreate, k8sUnchanged, memVars
  <2>2. CASE KubeletConfirmsDelete
    <3>1. pod' = NoPod /\ series' = backoff.fatal
      BY <1>1, <2>2 DEF KubeletConfirmsDelete, SeriesWithout, Uncounted
    <3>2. QED
      BY <1>1, <2>1, <3>1, GiveUpGone DEF GiveUpInv
  <2>3. CASE ~ KubeletConfirmsDelete
    <3>1. UNCHANGED series /\ (pod' = NoPod => pod' = pod)
      <4>1. UNCHANGED series
        BY <1>5, <2>3 DEF Kubernetes, KubeletStart, KubeletReportsRunning, ProcessExits, KubeletReportsExit,
           KubeletFailsPod, DeletedByHand, StuckAfter, NodeLost, CollectSecret, LateCreate, k8sUnchanged, memVars, AloneInv
      <4>2. CASE KubeletStart \/ KubeletReportsRunning \/ KubeletFailsPod
        BY <1>1, <4>1, <4>2 DEF KubeletStart, KubeletReportsRunning, KubeletFailsPod, NoPod, NewPod, Pods
      <4>3. CASE KubeletReportsExit
        <5>1. PICK f \in BOOLEAN : pod' = [pod EXCEPT !.status = "exited", !.fatal = f]
          BY <4>3 DEF KubeletReportsExit
        <5>2. pod'.status = "exited" /\ NoPod.status = "pending"
          BY <1>1, <5>1 DEF Pods, NoPod, NewPod
        <5>3. QED
          BY <4>1, <5>2
      <4>4. CASE DeletedByHand \/ StuckAfter \/ NodeLost
        BY <1>1, <4>1, <4>4 DEF DeletedByHand, StuckAfter, NodeLost, Deleted, NoPod, NewPod, Pods
      <4>5. CASE ProcessExits \/ CollectSecret \/ LateCreate
        BY <4>1, <4>5 DEF ProcessExits, CollectSecret, LateCreate, AloneInv
      <4>6. QED
        BY <1>5, <2>3, <4>2, <4>3, <4>4, <4>5 DEF Kubernetes
    <3>2. pod'.uid = pod.uid /\ pod'.hash = pod.hash
      BY <1>2, <3>1, PodUids DEF AloneInv
    <3>3. QED
      BY <2>1, <3>1, <3>2, GiveUpSame
  <2>4. QED
    BY <2>2, <2>3
<1>6. CASE Forget
  <2>1. pod' = NoPod /\ backoff' = NoBackoff /\ series' = 0 /\ call.pc = "idle" /\ UNCHANGED call
    BY <1>6 DEF Forget, ForgetAll, Exists, IInv, PodShape, apiVars
  <2>2. QED
    BY <1>3, <2>1, GiveUpGone DEF Trying, Releasing
<1>7. CASE ResetBackoff /\ backoff # NoBackoff
  <2>1. backoff' = Reset(backoff) /\ series' = Uncounted /\ UNCHANGED <<pod, call>>
    BY <1>7 DEF ResetBackoff, Uncounted, apiVars
  <2>2. Reset(backoff).hash = backoff.hash /\ Reset(backoff).lastPod = backoff.lastPod
        /\ Reset(backoff).fatal = 0 /\ ~ Reset(backoff).gaveUp
    BY <1>1 DEF Reset, FreshBackoff, Backoffs
  <2>3. QED
    BY <1>1, <2>1, <2>2 DEF GiveUpInv, Accounted, Uncounted
<1>8. CASE RestartTime
  <2>1. backoff' = [backoff EXCEPT !.due = TRUE] /\ UNCHANGED <<pod, call, series>>
    BY <1>8 DEF RestartTime, apiVars
  <2>2. backoff'.hash = backoff.hash /\ backoff'.lastPod = backoff.lastPod /\ backoff'.fatal = backoff.fatal
        /\ backoff'.gaveUp = backoff.gaveUp
    BY <1>1, <2>1 DEF Backoffs
  <2>3. QED
    BY <2>1, <2>2 DEF GiveUpInv, Accounted, Uncounted
<1>9. CASE Crash
  <2>1. backoff' = NoBackoff /\ series' = 0 /\ UNCHANGED pod /\ call' = IdleCall
    BY <1>9 DEF Crash
  <2>2. PodsOf(pod, NoHash, NoBackoff.lastPod) = 0
    BY <1>3 DEF PodsOf, IInv, PodShape
  <2>3. QED
    BY <1>3, <2>1, <2>2 DEF GiveUpInv, Accounted, Trying, Releasing
<1>10. CASE UNCHANGED vars \/ Begin \/ Ready \/ (ResetBackoff /\ backoff = NoBackoff)
  <2>1. UNCHANGED <<backoff, series, pod>> /\ (call' = call \/ call'.pc = "get")
    BY <1>10 DEF vars, Begin, BeginEnsure, BeginDelete, IdleCall, Ready, ResetBackoff, apiVars, memVars
  <2>2. QED
    BY <1>4, <2>1
<1>11. QED
  BY <1>5, <1>6, <1>7, <1>8, <1>9, <1>10 DEF Next

(* MaxFatalExits pods of a configuration that exit with 77 or 78 in a row  *)
(* are the last ones (recordExit, backoff.go): neither a release of the    *)
(* exited pod, a failed request, a Ready beside the call, a crash nor      *)
(* another call in between earns the volume one more, if no request takes  *)
(* effect after it failed.                                                 *)
THEOREM GiveUpHolds ==
  ASSUME ~ LostResponses
  PROVE  Spec => []GiveUpBound
<1>1. Init => GiveUpInv
  BY DEF Init, GiveUpInv, Accounted, PodsOf, Uncounted, NoPod, NewPod, NoBackoff, FreshBackoff, IdleCall, Trying,
         Releasing
<1>2. IInv /\ AloneInv /\ GiveUpInv /\ [Next]_vars => GiveUpInv'
  BY GiveUpCallStep, GiveUpOtherStep
<1>3. IInv /\ GiveUpInv => GiveUpBound
  <2>1. PodsOf(pod, backoff.hash, backoff.lastPod) \in {0, 1}
    BY DEF PodsOf
  <2>2. QED
    BY <2>1 DEF GiveUpInv, Accounted, GiveUpBound, IInv, TypeOK, Backoffs
<1>4. QED
  BY <1>1, <1>2, <1>3, Inductive, AloneInductive, PTL DEF Spec
=============================================================================
