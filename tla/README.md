# Verification of the Retyc CSI driver

TLA+ models of [retyc-k8s-csi](../src/README.md), the TLC runs that check them
on small instances, and theorems about them checked by TLAPS. File names
below are relative to `src/internal` unless they start with `src/`.

- [The system](#the-system)
- [Modules](#modules)
- [Runs](#runs)
- [What the code and its documents disagree on](#what-the-code-and-its-documents-disagree-on)
- [Fairness](#fairness)
- [Proofs](#proofs)
- [What is not modelled](#what-is-not-modelled)
- [Plan](#plan)

## The system

A dataroom of the Retyc service is a volume. On every node the node plugin
answers kubelet's CSI requests and, for each staged volume, keeps one *mount
pod* that runs the FUSE process, its credentials in a Secret of its own. The
writes that were not uploaded yet are in a *spool* directory on the host. The
node plugin keeps nothing on disk: after a restart it rebuilds what it needs
from the mount pods, the mount table and kubelet's `vol_data.json`. The
controller plugin answers csi-provisioner and csi-resizer by running the `retyc`
CLI, and keeps nothing at all: a dataroom is found again by its title.

### Components

| Component | State | Operations | Interacts with |
|---|---|---|---|
| Per-volume lock (`driver/keylock.go`) | map volume -> mutex with a reference count | `Lock`, the unlock it returns | all handlers of the node plugin |
| Mount pod manager (`mountpod/manager.go`, `backoff.go`, `pod.go`) | in memory: restart backoff of each volume; in the API server: Pod, Secret, finalizer; on the host: spool, staging path | `Ensure`, `Delete`, `Ready`, `Forget`, `Get`, `List`, `SpecOf` | API server, kubelet, garbage collector, host |
| Stage and unstage (`driver/node.go`) | `busy` marks, `gaveUp` times, `exitReported` | `NodeStageVolume`, `NodeUnstageVolume` | kubelet, manager, events on the claim |
| Publish, unpublish, stats (`driver/node.go`) | the mount table | `NodePublishVolume`, `NodeUnpublishVolume`, `NodeGetVolumeStats` | kubelet, mounter, recovery (`repairStaging`) |
| Recovery (`driver/recovery.go`) | the same marks | `Recover`, `recoverVolume`, `deleteOrphan`, `rebind`, `pruneBackoffs` | manager, mounter, `vol_data.json` |
| Watch and repair queue (`driver/watch.go`) | informer's cache, rate-limited queue | event handlers, `repairWorker`, the 30 s round | API server, recovery |
| Mounter (`mount/bind.go`, `recover_linux.go`) | the mount table | `BindMount`, `Unpublish`, `Rebind`, `Unmount`, `Detach` | host |
| Controller (`driver/controller.go`) | none of its own; datarooms | `CreateVolume`, `DeleteVolume`, `ControllerExpandVolume`, `ControllerModifyVolume` | Retyc client |
| Tenant guard (`driver/tenant.go`) | none; PVs, classes | `checkDefaultIdentity` | API server |
| Retyc client (`retycclient/client.go`) | none | one subprocess per call | Retyc service |
| Annotations, credentials, settings | none | parsing, validation | stage, controller |
| Health (`health/health.go`) | cached result | `Cached`, the HTTP endpoints | kubelet's probes |
| Identity, metrics, start, Helm chart | none | constant answers, flags, wiring | |

### What is hard in it

- **Interleavings.** Stage, unstage, the recovery and the watch exclude each
  other per volume, but a handler is a series of API requests, and between two
  of them kubelet, the garbage collector, a drain and people act on the same
  objects. Publish, unpublish and stats do not hold the lock at all (publish
  holds it only to repair).
- **No unique titles.** A creation whose answer is lost is found again by the
  title of its dataroom, which nothing makes unique; the CLI may be killed with
  its request on the way, and two replicas may serve the same volume.
- **Errors read from text.** An older CLI gives its errors no kind: the driver
  reads the wording, and the retries depend on what it makes of it.
- **Failures halfway.** Any request may fail, with or without effect; a
  creation is a Secret and a Pod, a release is a finalizer and a deletion; the
  node plugin may stop in between and has no log to resume from.
- **Timeouts and retries.** kubelet gives up a request whose handler goes on,
  retries an `Aborted` unstage, and takes a final error of a stage for an end.
  A pod may hang in termination.
- **State read early, used late.** The recovery decides from a mount table, a
  mark and `vol_data.json` it read some requests before.
- **Long legal sequences.** Dead mounts stack up; exits are counted once, over
  releases and changes of configuration; an event must follow the last change.

`PROJECT.json` lists each hazard at the line where it bites, with the
properties that are about it.

### What makes it correct

| Component | Correct means |
|---|---|
| Lock | one handler per volume, no starvation, the map does not grow |
| Manager | one mount process at a time, its spool never emptied under it, its Secret kept; `Delete` ends and leaves nothing; refused credentials are tried `MaxFatalExits` times and no more, and not fewer |
| Stage, unstage, recovery | OK to an unstage means gone; the recovery never deletes a used volume, never fights an unstage; lost writes and a give-up are told once; a volume in use comes back, an unused one goes |
| Mount table | OK to an unpublish means nothing is bound; layers are bounded; the first container keeps its layer; published paths get the new mount |
| Watch | every exit and every readiness is followed by a repair |
| Controller, client | one dataroom per volume, none after its deletion; a capacity the claim allows, that covers what the PV reports; what is held applied is set; a claim is served, a deletion and an expansion end |

## Modules

| Module | Models | Built on |
|---|---|---|
| `VolumeLock` | abstract: a plain lock per volume | |
| `KeyLock` | `driver/keylock.go` | implements `VolumeLock` |
| `MountSlot` | abstract: one mount process and its spool | |
| `MountPod` | `internal/mountpod` with API server and kubelet | implements `MountSlot`; relies on `KeyLock` for one call at a time |
| `NodeVolume` | `driver/node.go` (stage, unstage, publish's repair), `driver/recovery.go` | one step per manager call, with the outcomes of `MountPod` |
| `MountTable` | `internal/mount`, `rebind` and `unstack` of `driver/recovery.go`, publish and unpublish | the pods of `NodeVolume` reduced to devices |
| `RepairQueue` | `driver/watch.go` with the repairs of a staged volume | what `recoverVolume` and `Ensure` decide, without kubelet's requests |
| `ProvisionedVolume` | abstract: what a volume is promised to be | |
| `Capacity` | `reservedBytes` of `driver/controller.go`, `FormatSize` of `retycclient/client.go` | |
| `CliErrors` | the classification of the errors in `retycclient/client.go`, `apiError` and `updateError` | |
| `Controller` | `driver/controller.go` with the sidecars, the CLI and the Retyc service | `Capacity`, `CliErrors`; implements `ProvisionedVolume` |
| `KeyLockProofs`, `MountTableProofs`, `RepairQueueProofs`, `NodeVolumeProofs` | theorems about one module each | |
| `MountPodProofs`, `MountSlotProofs` | theorems about `MountPod`, and that it implements `MountSlot` | `MountSlotProofs` extends `MountPodProofs` |
| `ControllerProofs`, `PromiseProofs` | theorems about `Capacity`, `CliErrors` and `Controller`, and that it implements `ProvisionedVolume` | `PromiseProofs` extends `ControllerProofs` |
| `MC...` | values of the constants for TLC | |

The composition is by assume and guarantee: a lower module is checked under its
most general caller, and the module above uses what was shown of it. `MountPod`
lets any method be called in any order, one call at a time, which `KeyLock`
guarantees (`MutualExclusion`). `NodeVolume` replaces a call of the manager by
the set of its outcomes (`EnsureOutcomes`, `DeleteOutcomes`), the failures
halfway included, and takes strong fairness for getting the lock from
`NoStarvation`.

### KeyLock

`locks`, `refs` and `mutex` are the fields of `keyLock` and `keyLockEntry`; an
entry is an address that is allocated again once nothing points to it, so that
a stale pointer would be noticed. `Enter` and `Leave` are the two sections under
`keyLock.mu`, `Acquire` and `Unlock` are `e.Lock()` and `e.Unlock()`, outside
of it. The refinement maps `holder[k]` to the goroutine between the last two.

### MountPod

One action per request of a call (`call.pc` is where the call is): `EnsureGet`
(`ensureExisting`, `countExit`, `backoffState`), `RemoveFinalizer` and
`ForceDelete` (`release`), `Recheck`, `Prepare`, `Sweep`, `CreateSecret`,
`CreatePod`, `Undo`, `OwnSecret` (`create`), `DeleteGet`, `DeletePod`,
`DeleteSecrets` (`Delete`). `Ready` and `ResetBackoff` are two steps that run
beside a call, since `NodeGetVolumeStats` holds no lock. Kubernetes is modelled
from what the code relies on: the kubelet starts a container once, only with
its Secret, reports its end after it ended, and confirms a deletion that no
finalizer holds; the garbage collector deletes a Secret whose owner is gone;
anyone may delete a pod. `LostResponses` lets a failed request take effect, at
once or later; `HungKubelet` lets a kubelet stop reporting, and a node be
declared lost. `Crash` loses the memory of the node plugin.

A Secret is named after its pod, a configuration is its hash, an exit code is
fatal (77, 78) or not, and a date is passed or not: no guard of the code tells
more, but for the length of the delays.

### NodeVolume

One volume, one node: kubelet's view (`kubelet`, `volData`, `req`,
`published`), the settings a stage reads (`config`), the marks of the node
plugin, the handler that holds the lock (`op`), the pod and the staging mount.
`Begin...` takes the lock, the actions with a `pc` are the sections of a
handler between two requests, `Finish` is the deferred unlock and `clearBusy`
and gives kubelet its answer. The kubelet part (external) is what its CSI
reconciler does: it writes `vol_data.json` before a stage, retries what is not
a final error, and removes the file after an unstage, or after a final error
unless something is mounted on the path. `told`, `losses`, `unreported`,
`giveUps` and `refused` follow the events on the claim.

A stage or an unstage kubelet has given up keeps waiting for the lock (`late`).
When it gets it, it marks the volume busy, fails at its first request, its
context being cancelled, and clears the mark, whoever set it: `LateRequest`.
The mark also lapses by its age (`busyFor`), if kubelet is away for that long:
`KubeletRestarts`.

### MountTable

A path is the sequence of the devices stacked on it. `Prepare` empties the
staging path layer by layer; `ReadMounts`, `AskReady`, `Unstack`, `Rebind` are
`rebind`, planned from the table read before `/readyz` was asked;
`CheckTarget`, `ClearTarget`, `BindTarget` are `BindMount` and
`UnmountTarget`, `RemoveTarget` are `Unpublish`, none under the lock. A bind fails
if the staging mount does not answer, or if `ClearTarget` uncovered another dead layer.
`copied` is the layer a container copied when it started.

### RepairQueue

`Deliver` is the informer with `podSignature`, `Relist` a watch that broke;
`dirty`, `taken` and `delayed` are the three sets of client-go's work queue
(external, from its documented contract); `Take`, the repair and `Finish` are
`repairWorker`; a round runs the same repair (`BeginRound`). A repair is
`recoverVolume` of a volume that is staged, under its lock: `Look` gets the pod,
`Act` does what its phase asks for, and `Create` makes the next pod. The phase
that was read (`job[a].seen`) decides, while the pod may have changed since.

Each of the two halves of a replacement may fail on its own. `Release` takes the
finalizer and then deletes the pod, so that one that fails may have left a pod
without a finalizer (`loose`), which a kubelet then lets go, or no pod at all.
`Create` that fails leaves no pod, or the new one. A repair that finds no pod
does nothing and succeeds (`Leave`), and the queue forgets the volume.
`restart` is what the backoff holds of the last exit, `gaveUp` the mark of the
node plugin.

### Controller

`call[s][v]` is where the `CreateVolume` or `DeleteVolume` of a volume is, in
each replica, named after the next thing the handler does: read the claim
(`CheckClaim`), list the datarooms (`List`), read the quota (`Quota`), create
(`Create`), delete (`Delete`). `resize` and `modify` are the calls of
csi-resizer; `ExpandList` and `ExpandSet` are the two halves of
`ControllerExpandVolume`, which runs beside `ControllerModifyVolume`
(`ModifySet`). Each of them is one command of the CLI, and ends in one of four
ways: it succeeds, it is refused with an error of `CliErrors`, it breaks with or
without effect, or it breaks and the service serves it later (`flight`,
`LateRequest`). The driver keeps no state, so that a crash of it is a request
that breaks.

Outside of the code (external): csi-provisioner retries, goes on after the codes
it takes for transient even if the claim is deleted (`background`), and forgets
that with its lease; csi-resizer holds a class applied when its call succeeded
(`applied`); a user deletes or enlarges the claim and changes its class; the
owner enlarges the dataroom in the web app; the service refuses to shrink.
`strays` counts the datarooms that came from a request nobody waited for, and
`overtaken` the volumes that such a request changed; both are history.

`Capacity` and `CliErrors` are the two pure parts. A size is sent as a count of
a unit and read back (`Sent`); an error is its kind and the phrases of its text
that the driver looks for.

## Runs

All runs use small sets and bounded faults; a bound is a constant of the module
and is a guard of the action that fails.

| Run | Instance | Shows |
|---|---|---|
| `KeyLock` | 3 goroutines, 2 volumes, 3 addresses | exclusion, no leftover entry, no starvation, refinement of `VolumeLock` |
| `MountPod` | 2 configurations, 3 UIDs (symmetric), 3 fatal exits, 2 failed requests, 1 crash | `SpoolKept`, `PodKeepsSecret`, `DeleteMeansGone`, `DeleteLeavesNoSecret`, `GiveUpBound`, `CountedOnce`, refinement of `MountSlot` |
| `MountPodLost` | 1 configuration, 4 UIDs, lost and late requests, 1 crash | `OneMountProcess` still holds |
| `MountPodLive` | 1 configuration, 2 UIDs, hung kubelet, 1 fault, 1 crash | `DeleteTerminates`, `EnsureProgress` |
| `MountPodLostSecret` | as `MountPodLost`, no crash | a counterexample to `PodKeepsSecret` |
| `NodeVolume` | 2 configurations and an invalid one, 1 fault or timeout, 1 restart | `UnstagedMeansGone`, `RecoverySparesStaged`, `NoLoginAfterGiveUp` |
| `NodeVolumeLive` | 1 configuration and an invalid one, no fault | events told once and not lost, unstage and recovery apart, unused volumes go, used ones come back |
| `NodeVolumePodless` | as above, 1 fault, no deletion by hand | a counterexample to `ConsumerServed` |
| `MountTable` | 2 target paths, 3 mount processes, 2 layers at most, 1 lost answer | `UnpublishedMeansUnbound`, `LayersBounded`, `FirstContainerKept`, `Repaired` |
| `MountTableBare` | 1 target path, 2 mount processes | a counterexample to `PublishedIsBound` |
| `RepairQueue` | 1 volume, 1 worker and the rounds, 1 fault, 2 events ahead | `RestartPlanned`, `RebindPlanned`, `QueueRestarts`, `RoundsRestart` |
| `Controller` | 1 volume, 2 replicas, 3 datarooms ever and 2 at a time, 2 broken requests, 1 change of the leader, 1 change of class or by the owner, a CLI without kinds, a range from below the floor up | `OneDataroom`, `AppliedMeansSet`, `ClaimServed`, `DeleteEnds`, `ExpandEnds`, refinement of `ProvisionedVolume` |

Why these bounds are enough to be interesting:

- *KeyLock.* The error it guards against takes three goroutines: one that
  leaves, one between the map and the mutex, one that comes. Two volumes make
  an entry move from one to the other.
- *MountPod.* A call refers to the pod it read, the one in the way, and the one
  it makes: three UIDs. With the UIDs of a late creation and of the last exit
  counted, four. Two faults let a failure of the clean-up follow the failure it
  cleans up after; two configurations let a count be carried to the wrong one.
- *NodeVolume.* A timeout followed by a retry, or a crash inside a handler, is
  one fault or one restart; a stage interrupted in any place is reached with
  one. The number of pods over a behaviour is not bounded.
- *MountTable.* Two layers reach `maxTargetLayers` with the third process, and
  a second target path shows that a plan for one does not touch the other.
- *RepairQueue.* Volumes share nothing but the workers: one worker that is kept
  from a volume by a round is the contention that matters. Two events ahead are
  the deletion and the creation of a replacement. One fault is a repair that ends
  in any place, the retry after it, and the pod that is lost between its release
  and the next one.
- *Controller.* Volumes share nothing but the quota: one volume, two of its
  datarooms for the quota to be full of leftovers. Two broken requests are a
  creation whose answer is lost and the failure of its retry, or two creations
  on their way. Goals of 3 and 4 above a floor of 2 let an expansion meet a
  reservation that is smaller, equal or larger.

The bounds matter most to liveness: the safety properties of the passing runs
are also proved, for sets of any size and every bound, under the hypotheses that
*Proofs* names.

Deadlock is checked in every run but those of `MountTable` (whose processes and
answers are used up), `RepairQueue` (all volumes ready and nothing queued is
a state where the program waits) and `Controller` (a volume that is deleted); the
others' environments never stop.

Each property of a passing run has a mutant in `PROJECT.json`: an alternative
form of a definition, with a bug the code could plausibly have, under which the
property fails. These operators are marked "Mutant" in the modules.

### Exceptions written into the properties

- `SpoolKept`, with `DeleteMeansGone` and the refinement of `MountSlot`, is
  about a kubelet that does not hang. `finished` takes a pod that stays
  terminating for `stuckAfter` for gone, so that with a kubelet that hangs
  while the process runs, the next creation empties the spool under it. That is
  the price of `DeleteTerminates`.
- The same three and `GiveUpBound` are about requests that do not take effect
  after the call that made them. A pod that is created late comes without a look
  at what the volume is by then: it may start between the look of the next
  creation and its `Prepare`, be there once `Delete` reported the end, or be one
  try more of refused credentials. `OneMountProcess` holds with such requests,
  too. `PodKeepsSecret` does not (below).
- `LossReportedAtDelete` is about the deletions of a pod. The `Ensure` of a
  stage also replaces an exited pod, and does not tell its lost writes if
  nothing found the pod before: a stage with new settings finds it due at once.
- `LossToldOnce` is about a node plugin that does not restart: whether the losses
  of a pod were told is kept in memory, and told again after a restart.
- `UnstageLeftAlone` is checked without failed requests: an unstage that fails
  with `Unavailable` drops its mark, so that the recovery may start a pod before
  the retry. So is `LossReportedAtDelete`: the deletion that fails halfway has
  removed the pod and ends before the report.
- `UnstageEnds` leaves out a stage that failed for good with something mounted
  on the staging path, where kubelet keeps `vol_data.json` and never unstages.
- `RebindPlanned` leaves out a ready pod whose `/readyz` did not answer:
  `recoverVolume` does not take that for a failure, and the rebind waits for the
  next round.
- `QueueRestarts` and `RoundsRestart` except a volume whose pod went while the
  `Ensure` that released it failed (`Podless`): nothing creates the next one, which
  is the second finding below. `QueueRestarts` also leaves out a pod that is being
  deleted and events the watch missed; both are for the rounds.
- `RebindPlanned` leaves out, with those missed events, a pod that was replaced
  and became ready meanwhile: the informer finds it ready as before.
- `OneDataroom` adds the datarooms of requests nobody waited for: a creation
  served after its retry, or the one of a former leader. The code calls this a
  racing double-create and does not prevent it (`driver/controller.go:215`).
  It also allows one dataroom to a volume that never gets bound: when the claim
  is deleted while the answer of a creation is lost, the retry is refused by
  `checkClaim` with a final `NotFound`, and nobody learns the ID.
- `AppliedMeansSet` leaves out a volume whose dataroom was set by a `set` that
  reached the service after the next call.
- `ClaimServed` excepts a claim that is refused for good reason in the end: a
  range nothing satisfies, a full account without a dataroom of the volume, a
  dataroom of its title that does not fit. `ExpandEnds` is about a volume that
  stays bound.
- `LayersBounded` adds one layer per publish that runs beside a rebind; each but
  the last has its answer lost.

## What the code and its documents disagree on

Three runs end in a counterexample; `PROJECT.json` has the quotes.

1. `MountPodLostSecret`. `create` deletes the Secret it made on every error of
   the request for the pod. If only the answer was lost, the pod exists without
   its Secret: it cannot start. The comment of `SpecOf` says the pod keeps it.
2. `NodeVolumePodless`. `Ensure` releases the exited pod, the only record of a
   staged volume, before the next one exists. When the creation then fails, no
   retry and no round finds anything to repair. `RepairQueue` has the same case,
   which its two liveness properties except.
3. `MountTableBare`. A publish checks the staging mount and binds it later,
   without the lock. If the process unmounts it in between, the container gets
   the bare directory of the node, and the rebind passes over it.

Two more have no run. A pod deleted by hand exits in the phase Terminating, for
which `recoverVolume` plans no look at the restart time
(`driver/recovery.go:248`): the replacement waits for the next round, not for the
restart time, although `doc/architecture.md:248` says a pod that is deleted is
repaired at once, within its restart delay. `RestartPlanned` and `QueueRestarts`
leave such a pod out, and `RoundsRestart` covers it. And
`doc/architecture.md:225` says of lost writes that they are told when the node
plugin releases the pod; the `Ensure` of a stage that replaces a pod nobody has
found before tells nothing, which `LossReportedAtDelete` leaves out.

## Fairness

Liveness is checked under fairness that the code, Go or Kubernetes gives:

- *KeyLock*: a goroutine inside its section ends it; `sync.Mutex` hands itself
  to a waiter that has waited a millisecond, hence strong fairness of `Acquire`.
  Nothing makes a goroutine come.
- *MountPod*: kubelet and the recovery call again and again; requests end;
  clocks advance; a container told to stop is killed after its grace period.
  The kubelet is *not* assumed to serve: `DeleteTerminates` holds without it,
  and `EnsureProgress` has it as its premise (`KubeletServes`).
- *NodeVolume*: the handler that has the lock goes on; waiters get the lock in
  the end (strong fairness, from `NoStarvation`); rounds look at every pod again
  and again; kubelet retries; a pod that is started often enough becomes ready.
  Settings that stay valid and a consumer that stays are premises.
- *MountTable*: a pod that is created mounts; requests end; the recovery runs.
  That the process, the publish and the container stay is a premise.
- *Controller*: csi-provisioner and csi-resizer call again after every error,
  and a command of the CLI ends: it has a timeout (`Client.Timeout`). Nothing
  makes a late request reach the service, a lease change, or a user act; that
  the claim or the binding stays is a premise.
- *RepairQueue*: events are delivered, workers take what is queued, timers
  fire. The rounds are a premise of `RoundsRestart` only: `QueueRestarts` holds
  by the events and the queue alone.

## Proofs

TLAPS checks the theorems for every value of the constants, under the named
assumptions of the modules (special values are not members of their sets,
bounds are naturals, the goroutines are finitely many), which TLC evaluates in
every run.

`KeyLockProofs`:

- `TypeCorrect`: `Spec => []TypeOK`
- `Exclusion`: `Spec => []MutualExclusion`
- `MapIsTight`: `Spec => []NoIdleEntry`
- `Refinement`: `Spec => ImplementsVolumeLock`

Neither invariant is inductive alone. `IInv` adds that a goroutine between the
map and the end of `unlock` has its entry in the map under its key
(`EntryInMap`), that the mutex of an entry is held by exactly the goroutine in
its section (`MutexHeld`), that `refs` is the number of goroutines using the
entry (`RefsCountUsers`, by the cardinality lemmas of the library), and that an
entry serves one key (`OneKeyPerEntry`). That the last reference is the last
user is what makes the deletion in `Leave` safe; two goroutines in the section
of one key have the same entry, hence the same mutex. In the refinement `Leave`
is a stutter and the other three actions are those of `VolumeLock`.

`MountPodProofs`:

- `Inductive`: `Spec => []IInv`
- `TypeCorrect`: `Spec => []TypeOK`
- `ExitsCountedOnce`: `Spec => []CountedOnce`

They hold in every mode, with lost responses and a hung kubelet. `IInv` adds
the shape of a pod that exists and of what a call has read (`PodShape`,
`CallShape`), that pods of different UIDs are different (`UidsDistinct`), that
the exits counted plus the pod that is not counted yet are covered by the pods
of the series (`SeriesCovers`), and that the last exit counted, of the pod that
is still there, was counted as what it was (`LastExitCounted`). Counting a
pod moves it from "not counted" to "counted" without changing the sum; the
check of `lastPod` in `recordExit` is what keeps it from moving twice.

`MountSlotProofs`:

| Theorem | Property | Mode |
|---|---|---|
| `OneProcess` | `[]OneMountProcess` | `~ HungKubelet` |
| `SpoolNeverLost` | `[]SpoolKept` | `~ HungKubelet`, `~ LostResponses` |
| `ImplementsSlot` | `ImplementsMountSlot` | the same |
| `DeletedIsGone` | `[]DeleteMeansGone` | the same |
| `NoSecretLeft` | `[]DeleteLeavesNoSecret` | every mode |
| `SecretStays` | `[]PodKeepsSecret` | `~ LostResponses` |
| `GiveUpHolds` | `[]GiveUpBound` | `~ LostResponses` |

The argument for the processes: unless the kubelet hangs, the process that runs
is that of the pod there is, from the start of its container until before its
end is reported (`ProcessOfPod`), and a call releases a pod only when it has
ended (`SeenEnded`). Without late requests only the call creates pods, so that
from `Recheck` to `CreatePod` there is none (`AloneInv`); hence `Prepare` empties
the spool of a free slot, and the pod that comes finds it as `Prepare` left it
(`SlotInv`). In the refinement the start of a container is the start of the slot,
the end of a process its end, `Prepare` the reset, and the rest are stutters. The
Secret of a call at `CreatePod` has no owner yet, so that the garbage collector
does not take it, and nothing sweeps between it and the pod (`SecretInv`). For
the give-up, a bound on the exits is not inductive; `Accounted` says exactly how
the pods of the series divide into those counted and the one not counted yet,
and a call on its way to a creation has seen the volume not given up
(`GiveUpInv`).

`ControllerProofs`:

- `ReservedBytesRight`: `reservedBytes` refuses only what is malformed or cannot
  be satisfied, and otherwise reserves the least capacity the range allows
- `SentAsIs`: `Sent(n) = n`, for every size and every base of the units
- `KindDecides`: the text of an error with a kind changes no answer
- `AgeOfCLI`: every refusal has the same answer from an older CLI, by any of its
  texts, as from one that gives its kind
- `TypeCorrect`: `Spec => []TypeOK`
- `OneDataroomHolds`: `Spec => []OneDataroom`

`PromiseProofs`:

- `OwedHolds`: `Spec => []Owed`
- `AppliedMeansSetHolds`: `Spec => []AppliedMeansSet`
- `ImplementsPromiseHolds`: `Spec => ImplementsPromise`

For the controller the invariant has three layers. `Control` is the types and
what the place of a call says of its volume: a call past `CheckClaim` has a
range that is granted, a call that deletes has a volume that was released.
`Datarooms` counts: the dataroom a PV names is one of its volume (`Titled`), a
deleted volume has lost it (`Gone`), and those that no PV names are bounded by
`strays`, plus one as long as the volume is pending, and by `strays` alone once
the leader's listing showed none (`Counted`). That `List` looks before `Create`,
in the one call of the leader, is what makes the count inductive. `Owed` adds
that a request in flight is one the driver sent for a volume at that point of
its life (`KnownFlight`), that a bound volume has its dataroom (`Kept`), that
the datarooms of a pending volume have the versioning its claim asks for
(`Classed`), and that a reservation covers what the PV reports (`Covered`). Late
requests are harmless to it: a late `rm` is of a volume already released, a late
`set` that would shrink is refused. The refinement then maps each action to one
of `ProvisionedVolume` or a stutter, with a deletion whose answer is lost as a
first step that removes the dataroom and a second that ends the volume.

`NodeVolumeProofs`:

| Theorem | Property | Hypothesis |
|---|---|---|
| `TypeCorrect` | `[]TypeOK` | none |
| `UnstagedIsGone` | `[]UnstagedMeansGone` | none |
| `RecoverySpares` | `RecoverySparesStaged` | none |
| `RefusedStaysOut` | `NoLoginAfterGiveUp` | none |
| `GiveUpsToldOnce` | `[]GiveUpToldOnce` | none |
| `LossesToldOnce` | `[]LossToldOnce` | `MaxCrashes = 0` |
| `LossesReported` | `[]LossReportedAtDelete` | `MaxFaults = 0`, `MaxCrashes = 0` |
| `UnstageNotUndone` | `UnstageLeftAlone` | the same |

"None" is any number of failed requests, timeouts and restarts; *Exceptions* says
why three have a hypothesis. First come lemmas about `EnsureOutcomes` and
`DeleteOutcomes`: each outcome leaves a pod of a valid configuration or none, and
a backoff that fits. Then one invariant for each question:

- *What kubelet holds* (`KubeletInv`, `RecoverInv`): kubelet waits for one request,
  that fits what it takes the volume for, and only the handler of that request
  answers it. So an unstage answers OK where it has seen the pod and the mount
  go; and what a round reads of the binds, under the lock, still tells whether
  the volume is used when the round deletes its pod.
- *Refused credentials* (`RefusedInv`): as long as they are refused, the backoff of
  the manager and the mark of the node plugin both hold the give-up, and no pod
  runs. New settings, an unstage, a deletion by hand, `orphanGrace` and a restart
  of the node plugin allow new tries, and end it. A give-up that was told is held as long.
- *Lost writes* (`LossInv`, `DeletedInv`): losses are told while nothing was told of
  that pod, and what a handler holds in `op.st` is still the pod as it exited. A
  pod whose losses are not told goes only in the hands of the handler that is
  about to tell them.
- *The mark of an unstage* (`LeftAloneInv`): it stays between two tries, and a
  round that took the volume for one to repair before the mark still has the
  lock, so that the unstage that waits for it is not answered.

`MountTableProofs`:

- `TypeCorrect`: `Spec => []TypeOK`
- `UnpublishedHolds`: `Spec => []UnpublishedMeansUnbound`
- `FirstContainerStays`: `Spec => FirstContainerKept`
- `LayersStayBounded`: `Spec => []LayersBounded`

A rebind works from a mount table it read before the calls of kubelet; but a path
whose unpublish was answered has lost its directory (`RequestInv`), and nothing
is bound on a path without one. The bound on the layers is by accounting
(`LayersInv`): each publish that bound the path pays for one layer above
`maxTargetLayers`, and all but the last have lost their answer; against it count
the layers, the bind under way and the one a rebind has planned. Bare layers need a part of their own, since `unstack`
stops at one: they are covered and low, or on top with nothing planned. All of it
takes `maxTargetLayers` to be at least two, as in the code
(`TargetLayersAssumption`): with one, a first layer that is kept and a new one on
top of it are already too many.

`RepairQueueProofs`:

- `TypeCorrect`: `Spec => []TypeOK`
- `ExitedIsPlanned`: `Spec => []RestartPlanned`
- `ReadyIsPlanned`: `Spec => []RebindPlanned`

The properties say that something is planned for a pod: that is not inductive,
since an event may be one that `podSignature` passes over, and a repair may have
looked before the pod changed. `NoticeInv` says which count: an event that differs
from the one before it in something that matters, and a repair that has yet to
look, that saw the pod as it still is, or that puts the volume back. It rests on
`Current`: what the informer knows and its events end with the pod as it is. A
worker's release that fails puts the volume back; one of a round leaves the pod,
and what noticed it, as they were; a pod that goes waits for nothing.

Only liveness, and what holds under fairness, is model-checked and not proved: it
is out of the prover's reach and stays with TLC, with the three runs that end in
a counterexample. That the outcomes `NodeVolume` has for a call of the manager are
those of `MountPod` is neither checked nor proved: it is by reading.

## What is not modelled

- *Lengths of time*: the delays of the backoff and of the queue, `stuckAfter`,
  `orphanGrace`, `busyFor`, the timeout of the CLI; a date is passed or not.
- *A staging path that changes* (`restage`), the migration from the layout of
  an older kubelet, and read-only remounts.
- *Events* other than `WritesLost` and `MountGaveUp`.
- *The Secret without owner* that stays if the node plugin stops between the
  Secret and the Pod and the volume is then never staged again on the node;
  `DeleteLeavesNoSecret` covers the volume that is unstaged.
- *Loops over many layers* (`maxStackedMounts`, 32) never reach their end.
- *Contents*: of the pod, the Secret, annotations, mount options, log lines,
  metrics; the checks of `driverDirReadable`, and `warnPodless`, which only
  logs. In `unmount`, an early return leaves the target directory to kubelet,
  which removes it: one step.
- *The credentials of a controller call* (`client`): one account, whose
  credentials are valid; the errors of a login are classified in `CliErrors`
  only. The checks of free text at the head of the calls, and a class that sets
  no versioning, which changes nothing.
- *A plan that refuses a `set`*: the service refuses for the plan of the account
  when a dataroom is created, and only a shrink when it is set. One range of
  capacity is run; the theorems about `Capacity` have them all.
- *The output of the CLI* (`parseStderrError`, `stripANSI`): an error is its kind
  and the phrases of its text.
- *The tenant guard* (`driver/tenant.go`): a predicate over PVs and classes read
  at the head of a stage, which changes nothing. Its refusal is one of the
  final errors of `stageSpec`: `Invalid` in `NodeVolume`.
- *The health endpoints*: a result kept for a time to live; readiness gates no
  operation on a volume.
- *Identity, metrics, process start, Helm chart, credentials*: no state that
  changes.

## Plan

Done: `KeyLock` and `VolumeLock`, `MountPod` and `MountSlot`, `NodeVolume`,
`MountTable`, `RepairQueue`, `Controller` with `Capacity`, `CliErrors` and
`ProvisionedVolume`, each with the theorems for every safety property, action
property and refinement of its passing runs.

Next: `restage` in `NodeVolume`; `restartDelay`, `LostWrites` and `ExitLabel` as
functions with their theorems; and a theorem that the outcomes `NodeVolume` takes
from a call of the manager cover what `MountPod` does between the start and the
end of one.
