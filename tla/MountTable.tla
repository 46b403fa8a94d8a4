----------------------------- MODULE MountTable -----------------------------
(***************************************************************************)
(* internal/mount and internal/driver: the layers of mounts of one volume  *)
(* on one node, on its staging path and on the target paths of its pods.   *)
(* A mount process that dies leaves dead layers.  The recovery unmounts    *)
(* them from the staging path (Prepare), and stacks a bind of the next     *)
(* mount on every target path (rebind): a container holds a copy of the    *)
(* layer that was on top when it started, and sees what is mounted above   *)
(* that layer as long as it is there.                                      *)
(*                                                                         *)
(* Prepare and rebind hold the lock of the volume; NodePublishVolume takes *)
(* it only while the staging mount is dead, to have it repaired, and       *)
(* NodeUnpublishVolume never does.                                         *)
(*                                                                         *)
(* Abstractions.  A layer is the device of its FUSE mount, or Bare for a   *)
(* bind of the directory under it.  An unmount and the detach tried after  *)
(* it are one step.  A target path has one container, which starts after   *)
(* the publish and stops before the unpublish.  Read-only binds are left   *)
(* out.                                                                    *)
(***************************************************************************)
EXTENDS Naturals, Sequences

CONSTANTS
  Targets,          \* the target paths
  Staging,          \* the staging path
  Bare,             \* the device of the host's own filesystem
  MaxMounts,        \* bound: mounts the mount processes make, one after another
  MaxLost,          \* bound: publishes whose answer is lost
  MaxTargetLayers   \* maxTargetLayers

ASSUME PathsAssumption == Staging \notin Targets
ASSUME BareAssumption == Bare \notin Nat
ASSUME MountsAssumption == MaxMounts \in Nat /\ MaxLost \in Nat
(* 4 in the code.  With 1 the last layer, which unstack keeps, is already  *)
(* too many, and LayersBounded does not hold.                              *)
ASSUME TargetLayersAssumption == MaxTargetLayers \in Nat \ {0, 1}

VARIABLES
  layers,     \* the mount table: path -> the devices stacked on it, bottom first
  dir,        \* the target directories that exist
  alive,      \* the device of the mount process that runs, 0 without one
  mounts,     \* the last device used
  starting,   \* a mount pod is created, and has mounted nothing yet
  recovery,   \* the handler that holds the lock of the volume
  plan,       \* what rebind is to do, from the mount table it read
  call,       \* the publish or unpublish under way on each target path
  known,      \* what kubelet knows of each target path
  lost,       \* the publishes whose answer was lost
  copied      \* the layer each container copied: 0 lost, or no container

vars == <<layers, dir, alive, mounts, starting, recovery, plan, call, known, lost, copied>>

process == <<alive, mounts, starting>>
handler == <<recovery, plan>>
requests == <<call, known, lost>>

Devices == 1..MaxMounts

Paths == Targets \cup {Staging}

Plans == {"none", "rebind", "unstack"}

-----------------------------------------------------------------------------
Last(s) == s[Len(s)]

Mounted(p) == layers[p] # <<>>

Top(p) == Last(layers[p])

(* mountState: a dead mount answers ENOTCONN. *)
Answers(d) == d = Bare \/ d = alive

Corrupted(p) == Mounted(p) /\ ~ Answers(Top(p))

Healthy(p) == Mounted(p) /\ Answers(Top(p))

(* What a bind of the staging path binds. *)
Source == IF Mounted(Staging) THEN Top(Staging) ELSE Bare

Push(p, d) == layers' = [layers EXCEPT ![p] = Append(@, d)]

(* The top layer goes; a container that copied it loses the volume. *)
Pop(p) ==
  /\ layers' = [layers EXCEPT ![p] = SubSeq(@, 1, Len(@) - 1)]
  /\ copied' = [t \in Targets |-> IF t = p /\ copied[t] = Len(layers[p]) THEN 0 ELSE copied[t]]

Init ==
  /\ layers = [p \in Paths |-> <<>>]
  /\ dir = {}
  /\ alive = 0 /\ mounts = 0 /\ starting = FALSE
  /\ recovery = "idle" /\ plan = [t \in Targets |-> "none"]
  /\ call = [t \in Targets |-> "idle"] /\ known = [t \in Targets |-> "new"] /\ lost = 0
  /\ copied = [t \in Targets |-> 0]

-----------------------------------------------------------------------------
(* The mount process. *)

PodReady ==
  /\ starting /\ mounts < MaxMounts
  /\ starting' = FALSE /\ mounts' = mounts + 1 /\ alive' = mounts + 1
  /\ Push(Staging, mounts + 1)
  /\ UNCHANGED <<dir, handler, requests, copied>>

(* It unmounts the staging path, or is killed. *)
PodDies ==
  /\ alive # 0 /\ alive' = 0
  /\ \/ UNCHANGED <<layers, copied>>
     \/ Mounted(Staging) /\ Top(Staging) = alive /\ Pop(Staging)
  /\ UNCHANGED <<dir, mounts, starting, handler, requests>>

-----------------------------------------------------------------------------
(* Prepare, before a new mount pod. *)

BeginPrepare ==
  /\ recovery = "idle" /\ alive = 0 /\ ~ starting
  /\ recovery' = "prepare"
  /\ UNCHANGED <<layers, dir, process, plan, requests, copied>>

(* unmountAll, layer by layer; then the pod is created. *)
Prepare ==
  /\ recovery = "prepare"
  /\ \/ /\ Mounted(Staging) /\ Pop(Staging)
        /\ UNCHANGED <<process, handler>>
     \/ /\ ~ Mounted(Staging)
        /\ starting' = TRUE /\ recovery' = "idle"
        /\ UNCHANGED <<layers, copied, alive, mounts, plan>>
  /\ UNCHANGED <<dir, requests>>

-----------------------------------------------------------------------------
(* rebind, from the recovery of a pod that is ready. *)

(* Mutant of deadTargets: the bottom layer of a target path is compared.   *)
DeadBottom(t) == Mounted(t) /\ Head(layers[t]) \notin {Bare, Source}

(* deadTargets: the top layer is of the volume, on another device than the *)
(* staging path.                                                           *)
Dead(t) == Mounted(t) /\ Top(t) \notin {Bare, Source}

(* Mutant: a target path that is full is left as it is. *)
PlanUnlessFull(t) == IF Dead(t) /\ Len(layers[t]) < MaxTargetLayers THEN "rebind" ELSE "none"

Plan(t) ==
  IF ~ Dead(t) THEN "none" ELSE IF Len(layers[t]) >= MaxTargetLayers THEN "unstack" ELSE "rebind"

(* recoverVolume reads the mount table first, and asks /readyz next.  If   *)
(* the process had mounted nothing when the table was read, it is not      *)
(* ready or rebind fails.                                                  *)
ReadMounts ==
  /\ recovery = "idle" /\ alive # 0 /\ Mounted(Staging)
  /\ recovery' = "ready" /\ plan' = [t \in Targets |-> Plan(t)]
  /\ UNCHANGED <<layers, dir, process, requests, copied>>

AskReady ==
  /\ recovery = "ready"
  /\ IF alive # 0 THEN recovery' = "rebind" /\ UNCHANGED plan
     ELSE recovery' = "idle" /\ plan' = [t \in Targets |-> "none"]
  /\ UNCHANGED <<layers, dir, process, requests, copied>>

(* The next thing to do on a target path. *)
Turn(t, next) == plan[t] = next /\ recovery = "rebind"

(* Mutant of unstack: down to the last layer included. *)
UnstackAll(t) ==
  /\ Turn(t, "unstack")
  /\ IF Corrupted(t)
     THEN Pop(t) /\ UNCHANGED plan
     ELSE plan' = [plan EXCEPT ![t] = "rebind"] /\ UNCHANGED <<layers, copied>>
  /\ UNCHANGED <<dir, process, recovery, requests>>

(* unstack: the dead layers on top go, down to a live one or the bottom.   *)
Unstack(t) ==
  /\ Turn(t, "unstack")
  /\ IF Corrupted(t) /\ Len(layers[t]) > 1
     THEN Pop(t) /\ UNCHANGED plan
     ELSE plan' = [plan EXCEPT ![t] = "rebind"] /\ UNCHANGED <<layers, copied>>
  /\ UNCHANGED <<dir, process, recovery, requests>>

(* Rebind: it fails if the target directory is gone. *)
Rebind(t) ==
  /\ Turn(t, "rebind")
  /\ IF t \in dir THEN Push(t, Source) ELSE UNCHANGED layers
  /\ plan' = [plan EXCEPT ![t] = "none"]
  /\ UNCHANGED <<dir, process, recovery, requests, copied>>

EndRebind ==
  /\ recovery = "rebind" /\ \A t \in Targets : plan[t] = "none"
  /\ recovery' = "idle"
  /\ UNCHANGED <<layers, dir, process, plan, requests, copied>>

-----------------------------------------------------------------------------
(* NodePublishVolume and NodeUnpublishVolume of a target path. *)

Go(t, pc) == call' = [call EXCEPT ![t] = pc]

Step(t, pc) == Go(t, pc) /\ UNCHANGED <<known, lost>>

Answer(t, answer) == Go(t, "idle") /\ known' = [known EXCEPT ![t] = answer] /\ UNCHANGED lost

Failed(t) == Step(t, "idle")

LoseAnswer(t) == lost < MaxLost /\ lost' = lost + 1 /\ Go(t, "idle") /\ UNCHANGED known

(* repairStaging finds the staging mount healthy.  kubelet publishes the   *)
(* volume until it has an OK: a target path is one pod's.                  *)
BeginPublish(t) ==
  /\ call[t] = "idle" /\ known[t] \in {"new", "uncertain"} /\ Healthy(Staging)
  /\ Go(t, "check") /\ known' = [known EXCEPT ![t] = "uncertain"]
  /\ UNCHANGED <<layers, dir, process, handler, lost, copied>>

(* BindMount: a dead mount on the target path is unmounted, a live one is  *)
(* a former publish, whose answer was lost.                                *)
CheckTarget(t) ==
  /\ call[t] = "check"
  /\ \/ Corrupted(t) /\ Step(t, "clear")
     \/ ~ Mounted(t) /\ Step(t, "bind")
     \/ Healthy(t) /\ Answer(t, "published")
  /\ UNCHANGED <<layers, dir, process, handler, copied>>

ClearTarget(t) ==
  /\ call[t] = "clear"
  /\ IF Mounted(t) THEN Pop(t) /\ Step(t, "bind") ELSE Failed(t) /\ UNCHANGED <<layers, copied>>
  /\ UNCHANGED <<dir, process, handler>>

(* MkdirAll fails on a dead layer that was under the one unmounted, and    *)
(* mount(8) on a staging mount that died meanwhile; the OK may be lost.    *)
BindTarget(t) ==
  /\ call[t] = "bind"
  /\ dir' = dir \cup {t}
  /\ IF ~ Corrupted(t) /\ Answers(Source)
     THEN Push(t, Source) /\ (Answer(t, "published") \/ LoseAnswer(t))
     ELSE UNCHANGED layers /\ Failed(t)
  /\ UNCHANGED <<process, handler, copied>>

ContainerStarts(t) ==
  /\ known[t] = "published" /\ call[t] = "idle" /\ copied[t] = 0 /\ Mounted(t)
  /\ copied' = [copied EXCEPT ![t] = Len(layers[t])]
  /\ UNCHANGED <<layers, dir, process, handler, requests>>

(* The container stops, and kubelet unpublishes the volume.  unmount is    *)
(* done at once if nothing is mounted: kubelet removes the directory.      *)
BeginUnpublish(t) ==
  /\ call[t] = "idle" /\ known[t] \in {"uncertain", "published"}
  /\ IF Mounted(t) THEN Step(t, "unmount") /\ UNCHANGED dir
     ELSE Answer(t, "unpublished") /\ dir' = dir \ {t}
  /\ copied' = [copied EXCEPT ![t] = 0]
  /\ UNCHANGED <<layers, process, handler>>

UnmountTarget(t) ==
  /\ call[t] = "unmount"
  /\ IF Mounted(t) THEN Pop(t) /\ UNCHANGED call ELSE Go(t, "remove") /\ UNCHANGED <<layers, copied>>
  /\ UNCHANGED <<dir, process, handler, known, lost>>

(* Mutant: a directory that cannot be removed is not an error. *)
RemoveOrIgnore(t) ==
  /\ call[t] = "remove" /\ Answer(t, "unpublished")
  /\ dir' = IF Mounted(t) THEN dir ELSE dir \ {t}
  /\ UNCHANGED <<layers, process, handler, copied>>

(* Mutant: the directory is removed with what it holds (os.RemoveAll).     *)
RemoveAll(t) ==
  /\ call[t] = "remove" /\ Answer(t, "unpublished")
  /\ dir' = dir \ {t}
  /\ UNCHANGED <<layers, process, handler, copied>>

(* os.Remove refuses a directory where something was mounted meanwhile:    *)
(* kubelet tries again.                                                    *)
RemoveTarget(t) ==
  /\ call[t] = "remove"
  /\ IF Mounted(t) THEN Failed(t) /\ UNCHANGED dir ELSE Answer(t, "unpublished") /\ dir' = dir \ {t}
  /\ UNCHANGED <<layers, process, handler, copied>>

-----------------------------------------------------------------------------
RecoveryStep ==
  \/ BeginPrepare \/ Prepare \/ ReadMounts \/ AskReady \/ EndRebind
  \/ \E t \in Targets : Unstack(t) \/ Rebind(t)

Request(t) ==
  \/ CheckTarget(t) \/ ClearTarget(t) \/ BindTarget(t)
  \/ UnmountTarget(t) \/ RemoveTarget(t)

Next ==
  \/ PodReady \/ PodDies \/ RecoveryStep
  \/ \E t \in Targets : BeginPublish(t) \/ ContainerStarts(t) \/ BeginUnpublish(t) \/ Request(t)

Spec == Init /\ [][Next]_vars

(* A pod that is created mounts the volume, requests end, and the recovery *)
(* runs at every event and in rounds.                                      *)
Fairness == WF_vars(PodReady) /\ WF_vars(RecoveryStep) /\ \A t \in Targets : WF_vars(Request(t))

FairSpec == Spec /\ Fairness

-----------------------------------------------------------------------------
TypeOK ==
  /\ layers \in [Paths -> Seq(Devices \cup {Bare})]
  /\ dir \subseteq Targets /\ \A t \in Targets : Mounted(t) => t \in dir
  /\ alive \in {0, mounts} /\ mounts \in 0..MaxMounts /\ starting \in BOOLEAN
  /\ recovery \in {"idle", "prepare", "ready", "rebind"} /\ plan \in [Targets -> Plans]
  /\ call \in [Targets -> {"idle", "check", "clear", "bind", "unmount", "remove"}]
  /\ known \in [Targets -> {"new", "uncertain", "published", "unpublished"}]
  /\ lost \in 0..MaxLost
  /\ copied \in [Targets -> Nat] /\ \A t \in Targets : copied[t] <= Len(layers[t])

(* Once kubelet has an OK to its unpublish, nothing is left on the target  *)
(* path, although the recovery may stack a layer on it from a mount table  *)
(* it read before (unmount, bind.go:98): a layer left behind would keep    *)
(* the volume from being an orphan, and its mount pod for ever.            *)
UnpublishedMeansUnbound ==
  \A t \in Targets : known[t] = "unpublished" => ~ Mounted(t)

(* The layers of a target path do not pile up with every mount process     *)
(* that dies (maxTargetLayers, recovery.go:329).  Only a publish that runs *)
(* beside a rebind adds one that rebind has not counted, and each publish  *)
(* but the last has its answer lost.                                       *)
LayersBounded == \A t \in Targets : Len(layers[t]) <= MaxTargetLayers + 1 + MaxLost

(* A container that started before the first replacement keeps the layer   *)
(* it copied, so that every later bind reaches it (unstack,                *)
(* recovery.go:346), until it stops.                                       *)
FirstContainerKept ==
  [][\A t \in Targets : copied[t] = 1 /\ copied'[t] = 0 => call'[t] = "unmount"]_vars

(* "the pod target paths with a layer of the volume's mount, dead or       *)
(* alive: where the volume is still published" (binds, recovery.go:378):   *)
(* a target path kubelet holds published has such a layer.                 *)
PublishedIsBound ==
  \A t \in Targets : known[t] = "published" /\ call[t] = "idle" =>
    \E i \in DOMAIN layers[t] : layers[t][i] # Bare

(* Once a mount process stays, every target path that is published gets    *)
(* its mount, whatever died before, or holds the bare directory.           *)
Repaired ==
  \A t \in Targets :
    <>[](alive # 0 /\ known[t] = "published" /\ call[t] = "idle") => <>[](Mounted(t) /\ Answers(Top(t)))
=============================================================================
