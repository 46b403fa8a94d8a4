------------------------------ MODULE MountPod ------------------------------
(***************************************************************************)
(* internal/mountpod: the mount pod of one volume on one node, from the    *)
(* node plugin's Manager (Ensure, Delete, Ready, Forget) to the API server *)
(* that keeps the Pod and its Secret and the kubelet that runs it.  Every  *)
(* request to the API server is a step: between two of them the kubelet,   *)
(* the garbage collector, `kubectl delete` and an unlocked Ready call take *)
(* theirs, the request itself may fail, and the node plugin may crash.     *)
(*                                                                         *)
(* The caller is the most general one Manager's comment allows: one call   *)
(* at a time (KeyLock), any method, any configuration.                     *)
(*                                                                         *)
(* Abstractions.  A configuration is its hash.  A Secret is named after    *)
(* the pod it was made for (each pod has its own).  An exit code is fatal  *)
(* (77, 78) or not, and a date is whether it has passed; the length of the *)
(* delays is not modelled.  A UID that nothing refers to any more is used  *)
(* again.  Nobody takes a pod's finalizer off but the node plugin.         *)
(***************************************************************************)
EXTENDS Naturals, FiniteSets

CONSTANTS
  Hashes,         \* configuration hashes
  Uids,           \* UIDs of the pods
  NoHash, NoUid,
  MaxFatalExits,  \* Config.MaxFatalExits
  MaxFaults,      \* bound: failed requests and host operations
  MaxCrashes,     \* bound: restarts of the node plugin
  LostResponses,  \* a failed request may have taken effect, or do so later
  HungKubelet     \* the kubelet may stop reporting while a container runs

ASSUME NoHashAssumption == NoHash \notin Hashes
ASSUME NoUidAssumption == NoUid \notin Uids
ASSUME MaxFatalAssumption == MaxFatalExits \in Nat \ {0}
ASSUME BoundsAssumption == MaxFaults \in Nat /\ MaxCrashes \in Nat
ASSUME ModesAssumption == LostResponses \in BOOLEAN /\ HungKubelet \in BOOLEAN

VARIABLES
  pod,      \* the Pod object with the volume's name, NoPod when there is none
  late,     \* a Pod whose create request has not reached the API server yet
  secrets,  \* the Secret objects, by the pod each was made for
  owned,    \* those that have their pod as owner
  live,     \* the mount processes that run, by pod
  spool,    \* the pods with files in the spool directory of the volume
  backoff,  \* Manager.backoffs[volume]
  call,     \* the call of the Manager under way, or the last one
  probe,    \* a /readyz has answered 200, resetBackoff is not called yet
  faults, crashes,
  series    \* history: pods of backoff.hash since the volume last started over

apiVars == <<pod, late, secrets, owned>>
hostVars == <<live, spool>>
memVars == <<backoff, series, probe>>
vars == <<apiVars, hostVars, memVars, call, faults, crashes>>

-----------------------------------------------------------------------------
Status == {"pending", "running", "exited"}

Pods == [uid : Uids \cup {NoUid}, hash : Hashes \cup {NoHash}, status : Status, started : BOOLEAN,
         fatal : BOOLEAN, deleted : BOOLEAN, stuck : BOOLEAN, finalizer : BOOLEAN]

(* buildPod: a new pod holds FinalizerInUse. *)
NewPod(u, h) ==
  [uid |-> u, hash |-> h, status |-> "pending", started |-> FALSE, fatal |-> FALSE,
   deleted |-> FALSE, stuck |-> FALSE, finalizer |-> TRUE]

NoPod == NewPod(NoUid, NoHash)

Exists == pod.uid # NoUid

(* Mutants of finished: any pod being deleted; never past stuckAfter. *)
FinishedOnceDeleted(p) == p.status = "exited" \/ p.deleted
FinishedOnlyByStatus(p) == p.status = "exited"

(* finished: the status says the container ended, or the pod stayed        *)
(* terminating for stuckAfter past its deletion timestamp.                 *)
Finished(p) == p.status = "exited" \/ (p.deleted /\ p.stuck)

Backoffs == [hash : Hashes \cup {NoHash}, lastPod : Uids \cup {NoUid}, fatal : Nat,
             due : BOOLEAN, gaveUp : BOOLEAN]

FreshBackoff(h) == [hash |-> h, lastPod |-> NoUid, fatal |-> 0, due |-> TRUE, gaveUp |-> FALSE]

NoBackoff == FreshBackoff(NoHash)

Results == {"none", "error", "done", "gaveUp", "waiting", "terminating", "exists"}

PCs == {"idle", "get", "removeFinalizer", "forceDelete", "recheck", "prepare", "sweep", "createSecret",
        "createPod", "undo", "ownSecret", "delete", "deleteSecrets"}

Calls == [pc : PCs, op : {"Ensure", "Delete"}, hash : Hashes \cup {NoHash},
          seen : Pods, result : Results]

-----------------------------------------------------------------------------
(* The restart state, kept in memory (backoff.go). *)

(* Manager.backoff: the entry of a volume, a fresh one for another config. *)
Entry(b, h) == IF b.hash = h THEN b ELSE FreshBackoff(h)

(* resetBackoff and startOver: Backoff{}; the hash and lastPod stay. *)
Reset(b) == [FreshBackoff(b.hash) EXCEPT !.lastPod = b.lastPod]

(* Mutants of recordExit: the check of lastPod dropped; one exit too many. *)
RecordExitAgain(e, p) ==
  LET fatal == IF p.fatal THEN e.fatal + 1 ELSE 0
      counted == [e EXCEPT !.lastPod = p.uid, !.fatal = fatal]
  IN  IF fatal >= MaxFatalExits THEN [counted EXCEPT !.gaveUp = TRUE, !.due = TRUE]
      ELSE [counted EXCEPT !.due = FALSE]

RecordExitLate(e, p) ==
  LET fatal == IF p.fatal THEN e.fatal + 1 ELSE 0
      counted == [e EXCEPT !.lastPod = p.uid, !.fatal = fatal]
  IN  IF e.lastPod = p.uid THEN e
      ELSE IF fatal > MaxFatalExits THEN [counted EXCEPT !.gaveUp = TRUE, !.due = TRUE]
      ELSE [counted EXCEPT !.due = FALSE]

(* recordExit: a pod is counted once; MaxFatalExits fatal exits in a row   *)
(* give up, any other exit sets the time of the next restart.              *)
RecordExit(e, p) ==
  LET fatal == IF p.fatal THEN e.fatal + 1 ELSE 0
      counted == [e EXCEPT !.lastPod = p.uid, !.fatal = fatal]
  IN  IF e.lastPod = p.uid THEN e
      ELSE IF fatal >= MaxFatalExits THEN [counted EXCEPT !.gaveUp = TRUE, !.due = TRUE]
      ELSE [counted EXCEPT !.due = FALSE]

(* countExit, then backoffState: only an exit with the config being        *)
(* ensured counts.                                                         *)
CountExit(b, h, p) == IF Finished(p) /\ p.hash = h THEN RecordExit(Entry(b, h), p) ELSE Entry(b, h)

StartsOver(e, p) == e.gaveUp /\ p.deleted /\ Finished(p)

(* What ensureExisting leaves in memory of a pod it found. *)
Observe(b, h, p) == LET e == CountExit(b, h, p) IN IF StartsOver(e, p) THEN Reset(e) ELSE e

(* History of the give-up: how many pods of a config there have been since *)
(* something allowed a new series of tries.                                *)
PodsOf(p, h, counted) == IF p.uid # NoUid /\ p.hash = h /\ p.uid # counted THEN 1 ELSE 0

SeriesAfter(b, h, p) ==
  IF StartsOver(CountExit(b, h, p), p) \/ (Finished(p) /\ p.hash = h /\ ~ p.fatal) THEN 0
  ELSE IF b.hash = h THEN series
  ELSE PodsOf(p, h, NoUid) + IF b = NoBackoff THEN series ELSE 0

(* A pod that is gone before Ensure saw its end was no try. *)
SeriesWithout == series - PodsOf(pod, backoff.hash, backoff.lastPod)

(* forget keeps a give-up, Forget does not. *)
ForgetKeepingGiveUp ==
  /\ backoff' = IF backoff.gaveUp THEN backoff ELSE NoBackoff
  /\ series' = IF backoff.gaveUp THEN series ELSE 0

ForgetAll == backoff' = NoBackoff /\ series' = 0

-----------------------------------------------------------------------------
IdleCall == [pc |-> "idle", op |-> "Delete", hash |-> NoHash, seen |-> NoPod, result |-> "none"]

Init ==
  /\ pod = NoPod /\ late = NoPod
  /\ secrets = {} /\ owned = {}
  /\ live = {} /\ spool = {}
  /\ backoff = NoBackoff /\ series = 0 /\ probe = FALSE
  /\ call = IdleCall
  /\ faults = 0 /\ crashes = 0

At(op, pc) == call.op = op /\ call.pc = pc

Goto(pc) == call' = [call EXCEPT !.pc = pc]

(* Continue with the pod as just read. *)
GotoWith(pc, p) == call' = [call EXCEPT !.pc = pc, !.seen = p]

Return(result) == call' = [call EXCEPT !.pc = "idle", !.seen = NoPod, !.result = result]

Fault == faults < MaxFaults /\ faults' = faults + 1

NoFault == UNCHANGED faults

(* A step whose request failed without any effect. *)
FailsWith(next) == Fault /\ next /\ UNCHANGED <<apiVars, hostVars, memVars, crashes>>

BeginEnsure(h) ==
  /\ call.pc = "idle"
  /\ call' = [IdleCall EXCEPT !.pc = "get", !.op = "Ensure", !.hash = h]
  /\ UNCHANGED <<apiVars, hostVars, memVars, faults, crashes>>

BeginDelete ==
  /\ call.pc = "idle"
  /\ call' = [IdleCall EXCEPT !.pc = "get", !.op = "Delete"]
  /\ UNCHANGED <<apiVars, hostVars, memVars, faults, crashes>>

(* Forget, for a volume that has left the node: after an unstage, whose    *)
(* Delete ended with the pod gone, or from the sweep of the backoffs       *)
(* (pruneBackoffs), which has just read that there is no pod.              *)
Forget ==
  /\ call.pc = "idle" /\ ~ Exists /\ backoff # NoBackoff
  /\ ForgetAll
  /\ UNCHANGED <<apiVars, hostVars, probe, call, faults, crashes>>

-----------------------------------------------------------------------------
(* Ensure. *)

(* Ensure once no pod is in the way: give-up, restart time, then create. *)
Decide(b) ==
  \/ b.gaveUp /\ Return("gaveUp")
  \/ ~ b.gaveUp /\ ~ b.due /\ Return("waiting")
  \/ ~ b.gaveUp /\ b.due /\ Goto("recheck")

EnsureGet ==
  /\ At("Ensure", "get")
  /\ \/ FailsWith(Return("error"))
     \/ /\ NoFault
        /\ LET b == IF Exists THEN Observe(backoff, call.hash, pod) ELSE Entry(backoff, call.hash)
           IN  /\ backoff' = b
               /\ series' = SeriesAfter(backoff, call.hash, pod)
               /\ \/ ~ Exists /\ Decide(b)
                  \/ Exists /\ ~ Finished(pod) /\ pod.deleted /\ Return("terminating")
                  \/ Exists /\ ~ Finished(pod) /\ ~ pod.deleted /\ GotoWith("ownSecret", pod)
                  \/ Exists /\ Finished(pod) /\ b.gaveUp /\ Return("gaveUp")
                  \/ Exists /\ Finished(pod) /\ ~ b.gaveUp /\ ~ b.due /\ Return("waiting")
                  \/ Exists /\ Finished(pod) /\ ~ b.gaveUp /\ b.due /\ GotoWith("removeFinalizer", pod)
        /\ UNCHANGED <<apiVars, hostVars, probe, crashes>>

(* create: a pod that showed up since is left alone; this is the last look *)
(* at the API server before the spool is emptied.                          *)
Recheck ==
  /\ At("Ensure", "recheck")
  /\ \/ FailsWith(Return("error"))
     \/ /\ NoFault
        /\ IF Exists THEN Return("exists") ELSE Goto("prepare")
        /\ UNCHANGED <<apiVars, hostVars, memVars, crashes>>

(* Prepare unmounts what a former pod left on the staging path, makes the  *)
(* directories and empties the spool; it may fail before or after that.    *)
Prepare ==
  /\ At("Ensure", "prepare")
  /\ \/ Fault /\ Return("error") /\ spool' \in {spool, {}}
     \/ NoFault /\ Goto("sweep") /\ spool' = {}
  /\ UNCHANGED <<apiVars, live, memVars, crashes>>

(* deleteSecrets(onlyOrphans): the Secrets of creations that failed midway.*)
(* A Secret that cannot be deleted is only logged.                         *)
Sweep ==
  /\ At("Ensure", "sweep")
  /\ \/ FailsWith(Return("error"))
     \/ /\ \/ NoFault /\ secrets' = owned
           \/ Fault /\ secrets' \in {owned \cup left : left \in SUBSET (secrets \ owned)}
        /\ Goto("createSecret")
        /\ UNCHANGED <<pod, late, owned, hostVars, memVars, crashes>>

(* UIDs that nothing refers to. *)
FreshUids == Uids \ ({pod.uid, late.uid, backoff.lastPod} \cup secrets \cup live \cup spool)

(* Create the Secret of the pod that comes next, under a name of its own. *)
CreateSecret ==
  /\ At("Ensure", "createSecret")
  /\ \/ FailsWith(Return("error"))
     \/ \E u \in FreshUids :
          /\ secrets' = secrets \cup {u}
          /\ \/ NoFault /\ GotoWith("createPod", NewPod(u, call.hash))
             \/ LostResponses /\ Fault /\ Return("error")
          /\ UNCHANGED <<pod, late, owned, hostVars, memVars, crashes>>

PodCreated(p) ==
  /\ pod' = p
  /\ series' = IF p.hash = backoff.hash THEN series + 1 ELSE series

(* Create the pod.  On an error the Secret just made is deleted again      *)
(* ("undo"), even when the pod was created and only the answer got lost.   *)
CreatePod ==
  /\ At("Ensure", "createPod")
  /\ \/ ~ Exists /\ NoFault /\ PodCreated(call.seen) /\ Goto("ownSecret") /\ UNCHANGED late
     \/ /\ Exists /\ NoFault
        /\ call' = [call EXCEPT !.pc = "undo", !.result = "terminating"]
        /\ UNCHANGED <<pod, late, series>>
     \/ /\ Fault
        /\ call' = [call EXCEPT !.pc = "undo", !.result = "error"]
        /\ \/ UNCHANGED <<pod, late, series>>
           \/ LostResponses /\ ~ Exists /\ PodCreated(call.seen) /\ UNCHANGED late
           \/ LostResponses /\ late = NoPod /\ late' = call.seen /\ UNCHANGED <<pod, series>>
  /\ UNCHANGED <<secrets, owned, hostVars, backoff, probe, crashes>>

Undo ==
  /\ At("Ensure", "undo")
  /\ Return(call.result)
  /\ \/ Fault /\ UNCHANGED <<secrets, owned>>
     \/ NoFault /\ secrets' = secrets \ {call.seen.uid} /\ owned' = owned \ {call.seen.uid}
  /\ UNCHANGED <<pod, late, hostVars, memVars, crashes>>

(* ownSecret: the Secret goes with its pod from now on. *)
OwnSecret ==
  /\ At("Ensure", "ownSecret")
  /\ \/ FailsWith(Return("error"))
     \/ /\ owned' = owned \cup ({call.seen.uid} \cap secrets)
        /\ \/ NoFault /\ Return("exists")
           \/ LostResponses /\ Fault /\ Return("error")
        /\ UNCHANGED <<pod, late, secrets, hostVars, memVars, crashes>>

-----------------------------------------------------------------------------
(* release, for Ensure and Delete. *)

(* The finalizer goes.  An object that was being deleted goes with it if   *)
(* the kubelet has already confirmed the end of its containers.            *)
FinalizerRemoved ==
  \/ pod' = [pod EXCEPT !.finalizer = FALSE] /\ UNCHANGED series
  \/ pod.deleted /\ pod.status = "exited" /\ pod' = NoPod /\ series' = SeriesWithout

(* RemoveFinalizer: nothing to send when the pod read had none; the patch  *)
(* tests the list of finalizers, not the UID.                              *)
RemoveFinalizer ==
  /\ call.pc = "removeFinalizer"
  /\ \/ ~ call.seen.finalizer /\ NoFault /\ Goto("forceDelete") /\ UNCHANGED <<pod, series>>
     \/ call.seen.finalizer /\ Fault /\ Return("error") /\ UNCHANGED <<pod, series>>
     \/ /\ call.seen.finalizer
        /\ IF pod.finalizer /\ Exists THEN FinalizerRemoved ELSE UNCHANGED <<pod, series>>
        /\ \/ NoFault /\ Goto("forceDelete")
           \/ LostResponses /\ Fault /\ Return("error")
  /\ UNCHANGED <<late, secrets, owned, hostVars, backoff, probe, crashes>>

(* Delete without grace, if it is still the pod that was read; then Ensure *)
(* goes on to create, and Delete forgets the backoff: all of it if the     *)
(* finished pod had been deleted by hand.                                  *)
ForceDelete ==
  /\ call.pc = "forceDelete"
  /\ LET same == pod.uid = call.seen.uid IN
     \/ /\ Fault /\ Return("error")
        /\ \/ UNCHANGED <<pod, series>>
           \/ LostResponses /\ same /\ pod' = NoPod /\ series' = SeriesWithout
        /\ UNCHANGED backoff
     \/ /\ NoFault /\ Exists /\ ~ same
        /\ Return("error")
        /\ UNCHANGED <<pod, backoff, series>>
     \/ /\ NoFault /\ (Exists => same)
        /\ pod' = NoPod
        /\ \/ /\ call.op = "Ensure"
              /\ backoff' = Entry(backoff, call.hash)
              /\ Decide(backoff')
              /\ UNCHANGED series
           \/ /\ call.op = "Delete"
              /\ Goto("deleteSecrets")
              /\ IF call.seen.deleted THEN ForgetAll ELSE ForgetKeepingGiveUp
  /\ UNCHANGED <<late, secrets, owned, hostVars, probe, crashes>>

-----------------------------------------------------------------------------
(* Delete. *)

DeleteGet ==
  /\ At("Delete", "get")
  /\ \/ FailsWith(Return("error"))
     \/ /\ NoFault
        /\ \/ ~ Exists /\ Goto("deleteSecrets") /\ ForgetKeepingGiveUp
           \/ Exists /\ Finished(pod) /\ GotoWith("removeFinalizer", pod) /\ UNCHANGED <<backoff, series>>
           \/ /\ Exists /\ ~ Finished(pod) /\ ~ pod.deleted
              /\ GotoWith("delete", pod)
              /\ UNCHANGED <<backoff, series>>
           \/ /\ Exists /\ ~ Finished(pod) /\ pod.deleted
              /\ Return("terminating")
              /\ UNCHANGED <<backoff, series>>
        /\ UNCHANGED <<apiVars, hostVars, probe, crashes>>

(* The API server marks the pod deleted, with its own grace period. *)
Deleted(p) == [p EXCEPT !.deleted = TRUE]

(* Mutant: the Secrets go along with the request to delete the pod. *)
DeletePodAndSecrets ==
  /\ At("Delete", "delete")
  /\ pod' = IF Exists THEN Deleted(pod) ELSE pod
  /\ NoFault /\ Goto("deleteSecrets")
  /\ UNCHANGED <<late, secrets, owned, hostVars, memVars, crashes>>

DeletePod ==
  /\ At("Delete", "delete")
  /\ \/ FailsWith(Return("error"))
     \/ /\ Exists => pod.uid = call.seen.uid
        /\ pod' = IF Exists THEN Deleted(pod) ELSE pod
        /\ \/ NoFault /\ Return("terminating")
           \/ LostResponses /\ Fault /\ Return("error")
        /\ UNCHANGED <<late, secrets, owned, hostVars, memVars, crashes>>

(* Mutant: only the Secrets without owner. *)
DeleteOrphanSecrets ==
  /\ At("Delete", "deleteSecrets")
  /\ NoFault /\ secrets' = owned /\ Return("done")
  /\ UNCHANGED <<pod, late, owned, hostVars, memVars, crashes>>

(* deleteSecrets(all), once the pod is gone. *)
DeleteSecrets ==
  /\ At("Delete", "deleteSecrets")
  /\ \/ FailsWith(Return("error"))
     \/ /\ \/ NoFault /\ secrets' = {}
           \/ Fault /\ secrets' \in SUBSET secrets
        /\ owned' = owned \cap secrets'
        /\ Return("done")
        /\ UNCHANGED <<pod, late, hostVars, memVars, crashes>>

-----------------------------------------------------------------------------
(* Ready, which NodeGetVolumeStats calls without the volume's lock: the    *)
(* answer is one step, the reset of the backoff another.                   *)
Ready ==
  /\ pod.status = "running" /\ pod.uid \in live /\ ~ probe
  /\ probe' = TRUE
  /\ UNCHANGED <<apiVars, hostVars, backoff, series, call, faults, crashes>>

ResetBackoff ==
  /\ probe /\ probe' = FALSE
  /\ IF backoff = NoBackoff THEN UNCHANGED <<backoff, series>>
     ELSE /\ backoff' = Reset(backoff)
          /\ series' = PodsOf(pod, backoff.hash, backoff.lastPod)
  /\ UNCHANGED <<apiVars, hostVars, call, faults, crashes>>

(* The restart time of the volume comes. *)
RestartTime ==
  /\ ~ backoff.due
  /\ backoff' = [backoff EXCEPT !.due = TRUE]
  /\ UNCHANGED <<apiVars, hostVars, series, probe, call, faults, crashes>>

(* The node plugin restarts: its memory is gone, its last request may      *)
(* still be on its way.                                                    *)
Crash ==
  /\ crashes < MaxCrashes /\ crashes' = crashes + 1
  /\ call' = IdleCall
  /\ backoff' = NoBackoff /\ series' = 0 /\ probe' = FALSE
  /\ late' \in {late} \cup {p \in {call.seen} : LostResponses /\ call.pc = "createPod"}
  /\ UNCHANGED <<pod, secrets, owned, hostVars, faults>>

-----------------------------------------------------------------------------
(* Kubernetes: kubelet, API server, garbage collector, people. *)

k8sUnchanged == <<late, secrets, owned, memVars, call, faults, crashes>>

(* The container starts once (restartPolicy Never), if its Secret is       *)
(* there; the kubelet may not have seen yet that the pod is deleted.       *)
KubeletStart ==
  /\ Exists /\ pod.status = "pending" /\ ~ pod.started /\ pod.uid \in secrets
  /\ pod' = [pod EXCEPT !.started = TRUE]
  /\ live' = live \cup {pod.uid}
  /\ spool' = spool \cup {pod.uid}
  /\ UNCHANGED k8sUnchanged

KubeletReportsRunning ==
  /\ pod.started /\ pod.status = "pending"
  /\ pod' = [pod EXCEPT !.status = "running"]
  /\ UNCHANGED <<hostVars, k8sUnchanged>>

(* The process ends: by itself, or by the SIGTERM or SIGKILL of a deletion. *)
ProcessExits ==
  /\ \E u \in live : live' = live \ {u}
  /\ UNCHANGED <<pod, spool, k8sUnchanged>>

KubeletReportsExit ==
  /\ pod.started /\ pod.status # "exited" /\ pod.uid \notin live
  /\ \E fatal \in BOOLEAN : pod' = [pod EXCEPT !.status = "exited", !.fatal = fatal]
  /\ UNCHANGED <<hostVars, k8sUnchanged>>

(* A pod evicted or deleted before its container started. *)
KubeletFailsPod ==
  /\ Exists /\ ~ pod.started /\ pod.status = "pending"
  /\ pod' = [pod EXCEPT !.status = "exited"]
  /\ UNCHANGED <<hostVars, k8sUnchanged>>

(* The kubelet confirms a deletion that no finalizer holds back. *)
KubeletConfirmsDelete ==
  /\ pod.deleted /\ pod.status = "exited" /\ ~ pod.finalizer
  /\ pod' = NoPod /\ series' = SeriesWithout
  /\ UNCHANGED <<late, secrets, owned, hostVars, backoff, probe, call, faults, crashes>>

(* kubectl delete, a drain or an eviction. *)
DeletedByHand ==
  /\ Exists /\ ~ pod.deleted
  /\ pod' = Deleted(pod)
  /\ UNCHANGED <<hostVars, k8sUnchanged>>

(* A hung kubelet: the grace period and stuckAfter pass without a status,  *)
(* or the control plane marks the pod as lost with its node.               *)
StuckAfter ==
  /\ HungKubelet /\ pod.deleted /\ ~ pod.stuck
  /\ pod' = [pod EXCEPT !.stuck = TRUE]
  /\ UNCHANGED <<hostVars, k8sUnchanged>>

NodeLost ==
  /\ HungKubelet /\ Exists /\ pod.status # "exited"
  /\ pod' = [pod EXCEPT !.status = "exited"]
  /\ UNCHANGED <<hostVars, k8sUnchanged>>

CollectSecret ==
  /\ \E u \in owned \ {pod.uid} : secrets' = secrets \ {u} /\ owned' = owned \ {u}
  /\ UNCHANGED <<pod, late, hostVars, memVars, call, faults, crashes>>

(* A create request that was given up reaches the API server, or never does. *)
LateCreate ==
  /\ late # NoPod /\ late' = NoPod
  /\ \/ ~ Exists /\ PodCreated(late)
     \/ UNCHANGED <<pod, series>>
  /\ UNCHANGED <<secrets, owned, hostVars, backoff, probe, call, faults, crashes>>

-----------------------------------------------------------------------------
Begin == (\E h \in Hashes : BeginEnsure(h)) \/ BeginDelete

CallStep ==
  \/ EnsureGet \/ Recheck \/ Prepare \/ Sweep \/ CreateSecret \/ CreatePod \/ Undo \/ OwnSecret
  \/ RemoveFinalizer \/ ForceDelete \/ DeleteGet \/ DeletePod \/ DeleteSecrets

Kubernetes ==
  \/ KubeletStart \/ KubeletReportsRunning \/ ProcessExits \/ KubeletReportsExit \/ KubeletFailsPod
  \/ KubeletConfirmsDelete \/ DeletedByHand \/ StuckAfter \/ NodeLost \/ CollectSecret \/ LateCreate

Next ==
  \/ Begin \/ Forget \/ CallStep \/ Ready \/ ResetBackoff \/ RestartTime \/ Crash \/ Kubernetes

Spec == Init /\ [][Next]_vars

(* The system goes on as long as it can: the caller retries, the requests  *)
(* of a call are sent, the API server does its part, a container that was  *)
(* told to stop stops (SIGKILL ends its grace period), clocks advance.     *)
Fairness ==
  /\ WF_vars(Begin) /\ WF_vars(CallStep)
  /\ WF_vars(ResetBackoff) /\ WF_vars(RestartTime) /\ WF_vars(CollectSecret)
  /\ WF_vars(pod.deleted /\ ProcessExits)
  /\ WF_vars(StuckAfter)

(* The kubelet does its part, unless it hangs.  A pod that can be started  *)
(* again and again is started at some point.                               *)
KubeletServes ==
  /\ SF_vars(KubeletStart)
  /\ WF_vars(KubeletReportsRunning) /\ WF_vars(KubeletReportsExit)
  /\ WF_vars(pod.deleted /\ KubeletFailsPod)
  /\ WF_vars(KubeletConfirmsDelete)

FairSpec == Spec /\ Fairness

-----------------------------------------------------------------------------
TypeOK ==
  /\ pod \in Pods /\ late \in Pods
  /\ secrets \subseteq Uids /\ owned \subseteq secrets
  /\ live \subseteq Uids /\ spool \subseteq Uids
  /\ backoff \in Backoffs /\ series \in Nat /\ probe \in BOOLEAN
  /\ call \in Calls
  /\ faults \in 0..MaxFaults /\ crashes \in 0..MaxCrashes

(* The spool of a process that runs is never emptied under it, although    *)
(* Prepare runs some requests after the last look at the pod               *)
(* (manager.go:408): the writes in it would be lost.                       *)
SpoolKept == live \subseteq spool

(* One mount process serves the volume at a time, across replacements,     *)
(* evictions, crashes of the node plugin and requests that fail.           *)
OneMountProcess == \A u, v \in live : u = v

(* A pod keeps its Secret as long as it exists (manager.go:575), so that   *)
(* its container can start and the recovery can rebuild its spec, while    *)
(* the sweep of a later creation, the clean-up of a failed one and the     *)
(* garbage collector delete Secrets of the same volume.                    *)
PodKeepsSecret == Exists => pod.uid \in secrets

(* Once Delete reports the end (Exited or Absent), the volume has neither  *)
(* a pod nor a mount process on the node.                                  *)
DeleteMeansGone == call.op = "Delete" /\ call.result = "done" => ~ Exists /\ live = {}

(* ... and, as long as no request has failed, no Secret with credentials   *)
(* either, whatever crashed before.                                        *)
DeleteLeavesNoSecret ==
  call.op = "Delete" /\ call.result = "done" /\ faults = 0 => secrets = {}

(* MaxFatalExits pods of a configuration that exit with 77 or 78 in a row  *)
(* are the last ones: neither a release of the exited pod, a failed        *)
(* request nor another call in between earns the volume one more.          *)
GiveUpBound == series <= MaxFatalExits

(* A pod is never counted twice: the fatal exits counted are at most the   *)
(* pods there have been, so a volume never gives up early.                 *)
CountedOnce == backoff.fatal <= series

(* With Delete called until it is done, the pod goes, even if the kubelet  *)
(* hangs and whatever requests fail in the meantime.                       *)
DeleteTerminates == <>[](call.op = "Delete") => <>(~ Exists /\ call.result = "done")

(* With Ensure called over and over for one configuration, a volume whose  *)
(* process is gone gets a new one, or gives up, if the kubelet serves.     *)
EnsureProgress ==
  KubeletServes =>
    \A h \in Hashes : <>[](call.op = "Ensure" /\ call.hash = h) => []<>(live # {} \/ backoff.gaveUp)

(* The pods behave as a slot for one mount process and its spool.          *)
Slot == INSTANCE MountSlot

ImplementsMountSlot == Slot!Spec
=============================================================================
