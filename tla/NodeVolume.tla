----------------------------- MODULE NodeVolume -----------------------------
(***************************************************************************)
(* internal/driver: one volume on one node, between kubelet (vol_data.json,*)
(* its requests to stage, publish and unstage, their timeouts and retries),*)
(* the handlers of the node plugin, its recovery, and the mount pod.       *)
(*                                                                         *)
(* The handlers of a volume run one at a time (KeyLock).  A call of the    *)
(* Manager is one step, with the outcomes its requests have in MountPod, a *)
(* failure halfway included.  Between two steps of a handler kubelet, the  *)
(* mount process, people and the clock take theirs, kubelet may stop       *)
(* waiting for the answer, and the node plugin may crash.                  *)
(*                                                                         *)
(* Abstractions.  A configuration is its hash, or invalid; the settings of *)
(* the node plugin itself do not change.  A fatal exit that follows        *)
(* another may be the last of its series (MaxFatalExits > 1).  The staging *)
(* path holds at most one mount and never changes; "published" is whether  *)
(* kubelet binds the volume anywhere.                                      *)
(***************************************************************************)
EXTENDS Naturals

CONSTANTS
  Configs,     \* hashes of the valid configurations
  NoConfig,
  Invalid,     \* settings that stageSpec refuses
  Deletions,   \* pods are deleted by hand, or evicted
  MaxFaults,   \* bound: failed requests and host operations, kubelet timeouts
  MaxCrashes   \* bound: restarts of the node plugin or of kubelet

ASSUME ConfigAssumption == NoConfig \notin Configs /\ Invalid \notin Configs /\ NoConfig # Invalid
ASSUME DeletionsAssumption == Deletions \in BOOLEAN
ASSUME NodeBoundsAssumption == MaxFaults \in Nat /\ MaxCrashes \in Nat

VARIABLES
  pod,        \* the mount pod
  mount,      \* what is mounted on the staging path
  volData,    \* kubelet's vol_data.json exists
  wanted,     \* a consumer pod is on the node
  config,     \* the settings a stage reads
  kubelet,    \* what kubelet takes the volume for
  published,  \* a target path of the volume is bound
  req,        \* the request kubelet waits for
  late,       \* a stage or an unstage that kubelet gave up waits for the lock
  backoff,    \* Manager.backoffs[volume]
  busy,       \* NodeServer.busy
  gaveUp,     \* NodeServer.gaveUp
  told,       \* NodeServer.exitReported, for the mount pod
  op,         \* the handler that holds the lock of the volume
  faults, crashes,
  losses,     \* history: WritesLost events about the last mount pod
  unreported, \* history: how a pod that lost writes went without a WritesLost event
  giveUps,    \* history: MountGaveUp events since the volume gave up
  refused     \* history: the configuration that gave up, until something allows new tries

podVars == <<pod, mount>>
kubeletVars == <<volData, wanted, config, kubelet, published, req, late>>
memVars == <<backoff, busy, gaveUp, told>>
history == <<losses, unreported, giveUps, refused>>
vars == <<podVars, kubeletVars, memVars, op, faults, crashes, history>>

-----------------------------------------------------------------------------
MountPods == [cfg : Configs \cup {NoConfig}, status : {"absent", "starting", "ready", "exited"},
              deleted : BOOLEAN, exit : {"none", "other", "fatal", "lost"}]

NewPod(c) == [cfg |-> c, status |-> "starting", deleted |-> FALSE, exit |-> "none"]

NoPod == [NewPod(NoConfig) EXCEPT !.status = "absent"]

Exited(p) == p.status = "exited"

Running(p) == p.status \in {"starting", "ready"}

(* stateOf: a pod being deleted is Terminating, finished or not. *)
Phase(p) == IF p.deleted THEN "terminating" ELSE p.status

(* "fatal": a fatal exit was counted, so that the next one may be the last. *)
Backoffs ==
  [cfg : Configs \cup {NoConfig}, counted : BOOLEAN, fatal : BOOLEAN, due : BOOLEAN, gaveUp : BOOLEAN]

FreshBackoff(c) == [cfg |-> c, counted |-> FALSE, fatal |-> FALSE, due |-> TRUE, gaveUp |-> FALSE]

Cleared(b) == [b EXCEPT !.fatal = FALSE, !.due = TRUE, !.gaveUp = FALSE]

NoBackoff == FreshBackoff(NoConfig)

Kinds == {"none", "stage", "unstage", "publish", "recover"}

PCs == {"idle", "spec", "ensure", "binds", "recreate", "ready", "checkStaged", "report",
        "delete", "unmount", "look", "decide", "orphan", "repair", "reensure", "healthy"}

Ops == [kind : Kinds, pc : PCs, cfg : Configs \cup {NoConfig}, st : MountPods, bound : BOOLEAN,
        waited : BOOLEAN]

NoOp == [kind |-> "none", pc |-> "idle", cfg |-> NoConfig, st |-> NoPod, bound |-> FALSE, waited |-> FALSE]

Init ==
  /\ pod = NoPod /\ mount = "none"
  /\ volData = FALSE /\ wanted = FALSE /\ config \in Configs
  /\ kubelet = "unmounted" /\ published = FALSE /\ req = "none" /\ late = FALSE
  /\ backoff = NoBackoff /\ busy = FALSE /\ gaveUp = "no" /\ told = FALSE
  /\ op = NoOp
  /\ faults = 0 /\ crashes = 0
  /\ losses = 0 /\ unreported = "no" /\ giveUps = 0 /\ refused = NoConfig

-----------------------------------------------------------------------------
(* The calls of the Manager, as sets of outcomes; "fault" says that the    *)
(* outcome takes a failed request.                                         *)

Outcome(p, m, b, result, st, fault) ==
  [pod |-> p, mount |-> m, backoff |-> b, result |-> result, st |-> st, fault |-> fault]

Same(b, result, fault) == Outcome(pod, mount, b, result, pod, fault)

Entry(c) == IF backoff.cfg = c THEN backoff ELSE FreshBackoff(c)

(* startOver: a finished pod that gave up and was deleted by hand. *)
StartOver(b) ==
  IF b.gaveUp /\ pod.deleted /\ Exited(pod) THEN Cleared(b) ELSE b

(* countExit and startOver: what a pod that Ensure finds may leave. *)
Counted(c) ==
  LET e == Entry(c)
      restart == [e EXCEPT !.counted = TRUE, !.fatal = (pod.exit = "fatal"), !.due = FALSE]
      last == [e EXCEPT !.counted = TRUE, !.due = TRUE, !.gaveUp = TRUE]
  IN  IF ~ Exited(pod) \/ pod.cfg # c \/ e.counted THEN {StartOver(e)}
      ELSE {StartOver(b) : b \in {restart} \cup {x \in {last} : e.fatal /\ pod.exit = "fatal"}}

(* The release of a finished pod, then create: Prepare unmounts the staging *)
(* path, and the Secret and the pod are created.  Any of these may fail,   *)
(* and ownSecret after them.                                               *)
Creations(c, b) ==
  LET fresh == [b EXCEPT !.counted = FALSE]
  IN  {Outcome(NewPod(c), "none", fresh, "state", NewPod(c), FALSE),
       Outcome(NewPod(c), "none", fresh, "error", NewPod(c), TRUE), Same(b, "error", TRUE)}
      \cup {Outcome(NoPod, m, fresh, "error", NoPod, TRUE) : m \in {mount, "none"}}

EnsureWith(c, b) ==
  IF pod # NoPod /\ ~ Exited(pod) THEN {Same(b, "state", FALSE), Same(b, "error", TRUE)}
  ELSE IF b.gaveUp THEN {Same(b, "gaveUp", FALSE)}
  ELSE IF ~ b.due THEN {Same(b, "state", FALSE)}
  ELSE Creations(c, b)

(* Ensure, for a spec whose hash is c. *)
EnsureOutcomes(c) == {Same(backoff, "error", TRUE)} \cup UNION {EnsureWith(c, b) : b \in Counted(c)}

(* Mutant of forget: a give-up is forgotten with the pod. *)
ForgetGiveUp == NoBackoff

(* forget keeps a give-up. *)
Forget == IF backoff.gaveUp THEN [backoff EXCEPT !.counted = FALSE] ELSE NoBackoff

(* Mutant of Released: a pod that was being deleted is still Terminating. *)
ReleasedAsSeen(p) == p

(* st.Phase = PhaseExited, once a finished pod is released. *)
Released(p) == [p EXCEPT !.deleted = FALSE]

(* Delete.  The release of a finished pod may fail after the pod is gone:  *)
(* on its second request, or on the Secrets.                               *)
DeleteOutcomes ==
  LET forgotten == IF pod.deleted THEN NoBackoff ELSE Forget
      deleted == [pod EXCEPT !.deleted = TRUE]
  IN  {Same(backoff, "error", TRUE)} \cup
      CASE pod = NoPod ->
             {Same(Forget, "state", FALSE), Same(Forget, "error", TRUE)}
        [] Exited(pod) ->
             {Outcome(NoPod, mount, forgotten, "state", Released(pod), FALSE)}
             \cup {Outcome(NoPod, mount, b, "error", Released(pod), TRUE) :
                     b \in {forgotten, [backoff EXCEPT !.counted = FALSE]}}
        [] OTHER ->
             {Outcome(deleted, mount, backoff, "state", deleted, FALSE)}

Created(o) == o.pod.status = "starting" /\ pod.status \in {"absent", "exited"}

(* An outcome happens.  Once kubelet has given up the request, its context *)
(* is cancelled and the call fails.                                        *)
Take(o) ==
  /\ IF op.waited THEN /\ o.fault => faults < MaxFaults
                       /\ faults' = IF o.fault THEN faults + 1 ELSE faults
     ELSE o = Same(backoff, "error", TRUE) /\ UNCHANGED faults
  /\ pod' = o.pod /\ mount' = o.mount /\ backoff' = o.backoff
  /\ told' = (told /\ ~ Created(o))
  /\ unreported' = IF Exited(pod) /\ ~ Exited(o.pod) /\ pod.exit = "lost" /\ losses = 0
                   THEN IF o.pod = NoPod THEN "deleted" ELSE "replaced"
                   ELSE unreported
  /\ losses' = IF Created(o) THEN 0 ELSE losses
  /\ refused' = IF o.backoff.gaveUp /\ ~ (backoff.gaveUp /\ backoff.cfg = o.backoff.cfg) THEN o.backoff.cfg
                ELSE IF o.backoff.cfg \in {refused, NoConfig} THEN refused ELSE NoConfig
  /\ UNCHANGED crashes

-----------------------------------------------------------------------------
(* How handlers go on and end. *)

Goto(pc) == op' = [op EXCEPT !.pc = pc]

GotoWith(pc, st) == op' = [op EXCEPT !.pc = pc, !.st = st]

Fault == op.waited /\ faults < MaxFaults /\ faults' = faults + 1

NoFault == op.waited /\ UNCHANGED faults

(* A request fails, or its caller is gone. *)
Fails == Fault \/ (~ op.waited /\ UNCHANGED faults)

(* What kubelet makes of an answer.  A final error of a stage ends it; an  *)
(* unstage is retried whatever the error.                                  *)
Answer(code) ==
  /\ req' = "none"
  /\ kubelet' = CASE op.kind = "stage" /\ code = "OK" -> "mounted"
                   [] op.kind = "stage" /\ code = "Final" -> "failing"
                   [] op.kind = "unstage" /\ code = "OK" -> "unstaged"
                   [] OTHER -> kubelet
  /\ published' = (published \/ (op.kind = "publish" /\ code = "OK"))
  /\ UNCHANGED <<volData, wanted, config, late>>

(* Mutants of clearBusy: the mark goes with every answer, or never. *)
ClearBusyAlways(code) == busy' = FALSE

ClearBusyNever(code) == UNCHANGED busy

(* clearBusy, deferred by a stage and an unstage. *)
ClearBusy(code) == busy' = (busy /\ (op.kind \in {"stage", "unstage"} => code = "Aborted"))

(* Mutant of Finish: the handler returns without unlocking. *)
FinishHoldingLock(code) ==
  /\ op' = [op EXCEPT !.pc = "idle"]
  /\ ClearBusy(code)
  /\ IF op.waited /\ op.kind # "recover" THEN Answer(code) ELSE UNCHANGED kubeletVars

Finish(code) ==
  /\ op' = NoOp
  /\ ClearBusy(code)
  /\ IF op.waited /\ op.kind # "recover" THEN Answer(code) ELSE UNCHANGED kubeletVars

(* emitExit, as far as lost writes go. *)
Emit(st) ==
  /\ losses' = IF st.exit = "lost" THEN losses + 1 ELSE losses
  /\ unreported' = IF st.exit = "lost" THEN "no" ELSE unreported

DoNotEmit == UNCHANGED <<losses, unreported>>

(* Mutant of reportExit: what was reported early is reported again. *)
ReportExitAgain(st) ==
  IF Phase(st) = "exited" /\ st.exit # "none" THEN Emit(st) /\ UNCHANGED told
  ELSE DoNotEmit /\ UNCHANGED told

(* reportExit: at the release, unless it was reported early. *)
ReportExit(st) ==
  IF Phase(st) = "exited" /\ st.exit # "none"
  THEN told' = FALSE /\ IF told THEN DoNotEmit ELSE Emit(st)
  ELSE DoNotEmit /\ UNCHANGED told

(* reportExitEarly: of a pod found dead, once per pod. *)
ReportExitEarly(st) ==
  IF Exited(st) /\ st.exit # "none" /\ ~ told
  THEN told' = TRUE /\ Emit(st)
  ELSE DoNotEmit /\ UNCHANGED told

(* Mutant: every retry tells the give-up again. *)
TellGaveUpAgain ==
  /\ giveUps' = giveUps + 1
  /\ gaveUp' = IF op.kind = "stage" \/ gaveUp = "no" THEN "recent" ELSE gaveUp

(* stageGaveUp and reportGaveUp: the event comes once; a stage renews the  *)
(* time, the recovery does not.                                            *)
TellGaveUp ==
  /\ giveUps' = IF gaveUp = "no" THEN giveUps + 1 ELSE giveUps
  /\ gaveUp' = IF op.kind = "stage" \/ gaveUp = "no" THEN "recent" ELSE gaveUp

(* Any other result of Ensure ends a give-up. *)
AfterEnsure(o) ==
  \/ o.result = "gaveUp" /\ TellGaveUp
  \/ o.result # "gaveUp" /\ giveUps' = (IF o.backoff.gaveUp THEN giveUps ELSE 0)
                         /\ gaveUp' = (IF o.result = "state" THEN "no" ELSE gaveUp)

(* The /readyz of the pod answers 200: the backoff starts over. *)
ResetBackoff ==
  /\ backoff' = Cleared(backoff)
  /\ giveUps' = 0 /\ refused' = NoConfig

(* A handler gets the lock.  A stage and an unstage mark the volume busy;  *)
(* NodePublishVolume only comes here if the staging mount is not healthy.  *)
Begin(kind, pc) ==
  /\ op = NoOp
  /\ op' = [NoOp EXCEPT !.kind = kind, !.pc = pc, !.waited = TRUE]
  /\ busy' = (busy \/ kind \in {"stage", "unstage"})
  /\ UNCHANGED <<podVars, kubeletVars, backoff, gaveUp, told, faults, crashes, history>>

BeginRequest ==
  \/ req = "stage" /\ Begin("stage", "spec")
  \/ req = "unstage" /\ Begin("unstage", "delete")
  \/ req = "publish" /\ mount # "live" /\ Begin("publish", "look")

(* A request whose caller is gone gets the lock: it marks the volume busy, *)
(* its first call to the API server fails, and the mark goes, the one of   *)
(* an earlier try included.                                                *)
LateRequest ==
  /\ late /\ op = NoOp
  /\ late' = FALSE /\ busy' = FALSE
  /\ UNCHANGED <<podVars, volData, wanted, config, kubelet, published, req, backoff, gaveUp, told, op>>
  /\ UNCHANGED <<faults, crashes, history>>

BeginRecover == pod # NoPod /\ Begin("recover", "look")

At(pc) == op.pc = pc

-----------------------------------------------------------------------------
(* NodeStageVolume. *)

stageUnchanged == <<podVars, backoff, gaveUp, told, crashes, history>>

StageSpec ==
  /\ At("spec")
  /\ \/ Fails /\ Finish("Unavailable")
     \/ NoFault /\ config = Invalid /\ Finish("Final")
     \/ /\ NoFault /\ config # Invalid
        /\ op' = [op EXCEPT !.pc = "ensure", !.cfg = config]
        /\ UNCHANGED <<busy, kubeletVars>>
  /\ UNCHANGED stageUnchanged

(* One round of ensureMounted.  Each round that follows another has no pod *)
(* left to wait for, so maxEnsureRounds is not reached.                    *)
StageEnsure ==
  /\ At("ensure")
  /\ \E o \in EnsureOutcomes(op.cfg) :
       /\ Take(o) /\ AfterEnsure(o)
       /\ \/ o.result = "gaveUp" /\ Finish("Final")
          \/ o.result = "error" /\ Finish("Unavailable")
          \/ /\ o.result = "state"
             /\ GotoWith(CASE Phase(o.st) = "terminating" -> "recreate"
                           [] Phase(o.st) \in {"starting", "ready"} /\ o.st.cfg # op.cfg -> "binds"
                           [] OTHER -> "ready", o.st)
             /\ UNCHANGED <<busy, kubeletVars>>

(* Another configuration: the pod is kept while the volume is published    *)
(* (MountConfigChanged), and recreated otherwise.                          *)
StageBinds ==
  /\ At("binds")
  /\ \/ Fault /\ Finish("Unavailable")
     \/ UNCHANGED <<faults, busy, kubeletVars>> /\ Goto(IF published THEN "ready" ELSE "recreate")
  /\ UNCHANGED stageUnchanged

StageRecreate ==
  /\ At("recreate")
  /\ \E o \in DeleteOutcomes :
       /\ Take(o) /\ UNCHANGED <<giveUps, gaveUp>>
       /\ \/ o.result = "error" /\ Finish("Unavailable")
          \/ o.result = "state" /\ Phase(o.st) = "terminating" /\ Finish("Aborted")
          \/ /\ o.result = "state" /\ Phase(o.st) # "terminating"
             /\ GotoWith("report", o.st) /\ UNCHANGED <<busy, kubeletVars>>

(* checkReady: /readyz of a running pod (which may still have been pending *)
(* when Ensure saw it); an exit that waits for its restart is reported     *)
(* meanwhile.                                                              *)
AnswersReady == Running(op.st) /\ pod.status = "ready" /\ NoFault

DoesNotAnswer ==
  /\ Running(op.st)
  /\ Fails \/ (NoFault /\ (pod.status # "ready" \/ op.st.status = "starting"))

StageReady ==
  /\ At("ready")
  /\ \/ /\ AnswersReady
        /\ Goto("checkStaged") /\ ResetBackoff
        /\ DoNotEmit /\ UNCHANGED <<busy, kubeletVars, told>>
     \/ /\ DoesNotAnswer
        /\ Finish("Aborted") /\ UNCHANGED <<backoff, told, history>>
     \/ /\ ~ Running(op.st)
        /\ Finish("Aborted") /\ ReportExitEarly(op.st)
        /\ UNCHANGED <<faults, backoff, giveUps, refused>>
  /\ UNCHANGED <<podVars, gaveUp, crashes>>

(* checkStaged, the last step of a stage that succeeds. *)
StageCheck ==
  /\ At("checkStaged")
  /\ \/ Fault /\ Finish("Unavailable") /\ UNCHANGED gaveUp
     \/ mount # "live" /\ Finish("Final") /\ UNCHANGED <<faults, gaveUp>>
     \/ mount = "live" /\ Finish("OK") /\ gaveUp' = "no" /\ UNCHANGED faults
  /\ UNCHANGED <<podVars, backoff, told, crashes, history>>

-----------------------------------------------------------------------------
(* NodeUnstageVolume. *)

(* Mutant: a pod that drains does not hold the unstage back. *)
UnstageWithoutDrain ==
  /\ At("delete")
  /\ \E o \in DeleteOutcomes :
       /\ Take(o) /\ UNCHANGED <<giveUps, gaveUp>>
       /\ \/ o.result = "error" /\ Finish("Unavailable")
          \/ o.result = "state" /\ GotoWith("report", o.st) /\ UNCHANGED <<busy, kubeletVars>>

UnstageDelete ==
  /\ At("delete")
  /\ \E o \in DeleteOutcomes :
       /\ Take(o) /\ UNCHANGED <<giveUps, gaveUp>>
       /\ \/ o.result = "error" /\ Finish("Unavailable")
          \/ o.result = "state" /\ Phase(o.st) = "terminating" /\ Finish("Aborted")
          \/ /\ o.result = "state" /\ Phase(o.st) # "terminating"
             /\ GotoWith("report", o.st) /\ UNCHANGED <<busy, kubeletVars>>

(* reportExit, after a Delete that ended with the pod gone; an unstage     *)
(* ends a give-up too.                                                     *)
Report ==
  /\ At("report")
  /\ ReportExit(op.st)
  /\ \/ /\ op.kind = "stage"
        /\ Goto("ensure") /\ UNCHANGED <<busy, kubeletVars, gaveUp, backoff, giveUps, refused>>
     \/ op.kind = "recover" /\ Finish("OK") /\ UNCHANGED <<gaveUp, backoff, giveUps, refused>>
     \/ /\ op.kind = "unstage"
        /\ gaveUp' = "no" /\ backoff' = NoBackoff /\ giveUps' = 0 /\ refused' = NoConfig
        /\ Goto("unmount") /\ UNCHANGED <<busy, kubeletVars>>
  /\ UNCHANGED <<podVars, faults, crashes>>

UnstageUnmount ==
  /\ At("unmount")
  /\ \/ Fault /\ Finish("Final") /\ UNCHANGED mount
     \/ mount' = "none" /\ Finish("OK") /\ UNCHANGED faults
  /\ UNCHANGED <<pod, backoff, gaveUp, told, crashes, history>>

-----------------------------------------------------------------------------
(* recoverVolume, from Recover or the pod watch ("recover"), or from       *)
(* repairStaging ("publish": the volume is taken as staged).               *)

Look ==
  /\ At("look")
  /\ \/ Fails /\ Finish("Unavailable")
     \/ NoFault /\ pod = NoPod /\ Finish("Unavailable")
     \/ /\ NoFault /\ pod # NoPod
        /\ op' = [op EXCEPT !.pc = "decide", !.st = pod, !.bound = published]
        /\ UNCHANGED <<busy, kubeletVars>>
  /\ UNCHANGED stageUnchanged

(* Mutants of Orphan: the binds are not looked at; a pod that exited is    *)
(* left for "kubectl logs".                                                *)
OrphanIfUnstaged == op.kind = "recover" /\ ~ volData

OrphanUnlessExited == op.kind = "recover" /\ ~ volData /\ ~ op.bound /\ Phase(op.st) # "exited"

LeaveAlone == op.kind = "recover" /\ busy

Orphan == op.kind = "recover" /\ ~ volData /\ ~ op.bound

EndOfRepair ==
  IF op.kind = "publish" THEN Goto("healthy") /\ UNCHANGED <<busy, kubeletVars>> ELSE Finish("OK")

DecideRepair ==
  /\ At("decide")
  /\ \/ LeaveAlone /\ Finish("OK") /\ UNCHANGED <<told, losses, unreported>>
     \/ ~ LeaveAlone /\ Orphan /\ Goto("orphan") /\ UNCHANGED <<busy, kubeletVars, told, losses, unreported>>
     \/ /\ ~ LeaveAlone /\ ~ Orphan
        /\ IF Phase(op.st) \in {"starting", "ready"}
           THEN Goto("repair") /\ UNCHANGED <<busy, kubeletVars, told, losses, unreported>>
           ELSE Goto("reensure") /\ ReportExitEarly(op.st) /\ UNCHANGED <<busy, kubeletVars>>
  /\ UNCHANGED <<podVars, backoff, gaveUp, faults, crashes, giveUps, refused>>

(* deleteOrphan: one step per round. *)
DeleteOrphan ==
  /\ At("orphan")
  /\ \E o \in DeleteOutcomes :
       /\ Take(o) /\ UNCHANGED <<giveUps, gaveUp>>
       /\ \/ (o.result = "error" \/ Phase(o.st) = "terminating") /\ Finish("OK")
          \/ /\ o.result = "state" /\ Phase(o.st) # "terminating"
             /\ GotoWith("report", o.st) /\ UNCHANGED <<busy, kubeletVars>>

(* A running pod: once ready, the dead binds are stacked again. *)
Repair ==
  /\ At("repair")
  /\ \/ AnswersReady /\ ResetBackoff /\ gaveUp' = "no"
     \/ DoesNotAnswer /\ UNCHANGED <<backoff, gaveUp, giveUps, refused>>
  /\ EndOfRepair
  /\ UNCHANGED <<podVars, told, crashes, losses, unreported>>

(* A dead pod: SpecOf, then Ensure with what the pod recorded. *)
Reensure ==
  /\ At("reensure")
  /\ \E o \in EnsureOutcomes(op.st.cfg) :
       /\ Take(o) /\ AfterEnsure(o)
       /\ IF o.result = "error" THEN Finish("Unavailable") ELSE EndOfRepair

(* repairStaging looks at the staging mount again. *)
Healthy ==
  /\ At("healthy")
  /\ Finish(IF mount = "live" THEN "OK" ELSE "Unavailable")
  /\ UNCHANGED <<podVars, backoff, gaveUp, told, faults, crashes, history>>

(* pruneBackoffs, under the lock: of what it reads, only vol_data.json can *)
(* change meanwhile, and a stage then waits for the lock.                  *)
PruneBackoffs ==
  /\ op = NoOp /\ pod = NoPod /\ ~ busy /\ ~ volData /\ gaveUp # "recent" /\ backoff # NoBackoff
  /\ backoff' = NoBackoff /\ gaveUp' = "no" /\ giveUps' = 0
  /\ UNCHANGED <<podVars, kubeletVars, busy, told, op, faults, crashes, losses, unreported, refused>>

Handlers ==
  \/ StageSpec \/ StageEnsure \/ StageBinds \/ StageRecreate \/ StageReady \/ StageCheck
  \/ UnstageDelete \/ UnstageUnmount \/ Report
  \/ Look \/ DecideRepair \/ DeleteOrphan \/ Repair \/ Reensure \/ Healthy

-----------------------------------------------------------------------------
(* kubelet.  It writes vol_data.json before a stage, and removes it after  *)
(* an unstage, or after a final error unless something is mounted on the   *)
(* staging path.                                                           *)

outside == <<podVars, memVars, op, late, faults, crashes, history>>

KubeletStage ==
  /\ wanted /\ req = "none" /\ kubelet \in {"unmounted", "failed", "uncertain", "unstaging"}
  /\ volData' = TRUE /\ kubelet' = "uncertain" /\ req' = "stage"
  /\ UNCHANGED <<outside, wanted, config, published>>

KubeletPublish ==
  /\ wanted /\ req = "none" /\ kubelet = "mounted"
  /\ req' = "publish"
  /\ UNCHANGED <<outside, volData, wanted, config, kubelet, published>>

(* NodePublishVolume on a healthy staging mount, without the lock. *)
PublishHealthy ==
  /\ req = "publish" /\ op.kind # "publish" /\ mount = "live"
  /\ published' = TRUE /\ req' = "none"
  /\ UNCHANGED <<outside, volData, wanted, config, kubelet>>

(* NodeUnpublishVolume of the last target path, which takes no lock. *)
KubeletUnpublish ==
  /\ published /\ ~ wanted /\ req = "none"
  /\ published' = FALSE
  /\ UNCHANGED <<outside, volData, wanted, config, kubelet, req>>

KubeletUnstage ==
  /\ ~ wanted /\ ~ published /\ req = "none" /\ kubelet \in {"uncertain", "mounted", "unstaging"}
  /\ kubelet' = "unstaging" /\ req' = "unstage"
  /\ UNCHANGED <<outside, volData, wanted, config, published>>

KubeletCleans ==
  /\ kubelet \in {"unstaged", "failing"}
  /\ kubelet' = IF kubelet = "unstaged" THEN "unmounted" ELSE "failed"
  /\ volData' = (kubelet = "failing" /\ mount # "none")
  /\ UNCHANGED <<outside, wanted, config, published, req>>

Served == op.kind = req /\ op.waited

Late == late' = (late \/ (req \in {"stage", "unstage"} /\ ~ Served))

(* kubelet gives up a request: its context is cancelled, and its handler   *)
(* goes on, or waits for the lock.                                         *)
KubeletTimeout ==
  /\ faults < MaxFaults /\ faults' = faults + 1
  /\ req # "none" /\ req' = "none"
  /\ Late /\ op' = [op EXCEPT !.waited = @ /\ ~ Served]
  /\ UNCHANGED <<podVars, volData, wanted, config, kubelet, published, memVars, crashes, history>>

(* A kubelet that restarts is no longer sure of what it had mounted.  One  *)
(* that is down for longer than busyFor finds its mark expired.            *)
KubeletRestarts ==
  /\ crashes < MaxCrashes /\ crashes' = crashes + 1
  /\ kubelet' = IF kubelet = "mounted" THEN "uncertain" ELSE kubelet
  /\ req' = "none"
  /\ Late /\ op' = [op EXCEPT !.waited = @ /\ op.kind = "recover"]
  /\ busy' \in {busy, busy /\ op # NoOp}
  /\ UNCHANGED <<podVars, volData, wanted, config, published, backoff, gaveUp, told, faults, history>>

ConsumerComesOrGoes ==
  /\ wanted' = ~ wanted
  /\ UNCHANGED <<outside, volData, config, kubelet, published, req>>

ConfigChanges ==
  /\ config' \in (Configs \cup {Invalid}) \ {config}
  /\ UNCHANGED <<outside, volData, wanted, kubelet, published, req>>

-----------------------------------------------------------------------------
(* The mount pod, people, and the clock. *)

podSteps == <<kubeletVars, memVars, op, faults, crashes, history>>

PodReady ==
  /\ pod.status = "starting" /\ ~ pod.deleted
  /\ pod' = [pod EXCEPT !.status = "ready"] /\ mount' = "live"
  /\ UNCHANGED podSteps

(* An exit leaves no code if the pod was evicted before it started, and    *)
(* writes are only lost once there is a mount.  A process that is killed   *)
(* leaves its mount dead.                                                  *)
PodExits ==
  /\ Running(pod)
  /\ \E exit \in {"other", "fatal"} \cup (IF pod.status = "ready" THEN {"lost"} ELSE {"none"}) :
       pod' = [pod EXCEPT !.status = "exited", !.exit = exit]
  /\ mount' \in (IF mount = "live" THEN {"none", "dead"} ELSE {mount})
  /\ UNCHANGED podSteps

(* kubectl delete pod, or an eviction: a way to allow new tries. *)
DeletedByHand ==
  /\ Deletions /\ pod # NoPod /\ ~ pod.deleted
  /\ pod' = [pod EXCEPT !.deleted = TRUE] /\ refused' = NoConfig
  /\ UNCHANGED <<mount, kubeletVars, memVars, op, faults, crashes, losses, unreported, giveUps>>

(* Backoff.NextRestart is reached. *)
RestartTime ==
  /\ ~ backoff.due /\ backoff' = [backoff EXCEPT !.due = TRUE]
  /\ UNCHANGED <<podVars, kubeletVars, busy, gaveUp, told, op, faults, crashes, history>>

(* orphanGrace after the last stage that found the volume given up: kubelet *)
(* has stopped retrying it.                                                 *)
GraceOver ==
  /\ gaveUp = "recent" /\ ~ (wanted /\ kubelet # "mounted") /\ op = NoOp /\ req = "none"
  /\ gaveUp' = "old" /\ refused' = NoConfig
  /\ UNCHANGED <<podVars, kubeletVars, backoff, busy, told, op, faults, crashes, losses, unreported, giveUps>>

(* The node plugin restarts: its memory is gone, and kubelet gets no answer. *)
Crash ==
  /\ crashes < MaxCrashes /\ crashes' = crashes + 1
  /\ backoff' = NoBackoff /\ busy' = FALSE /\ gaveUp' = "no" /\ told' = FALSE
  /\ op' = NoOp /\ req' = "none" /\ late' = FALSE
  /\ refused' = NoConfig /\ giveUps' = 0
  /\ UNCHANGED <<podVars, volData, wanted, config, kubelet, published, faults, losses, unreported>>

Next ==
  \/ BeginRequest \/ LateRequest \/ BeginRecover \/ Handlers \/ PruneBackoffs
  \/ KubeletStage \/ KubeletPublish \/ PublishHealthy \/ KubeletUnpublish \/ KubeletUnstage
  \/ KubeletCleans \/ KubeletTimeout \/ KubeletRestarts
  \/ ConsumerComesOrGoes \/ ConfigChanges
  \/ PodReady \/ PodExits \/ DeletedByHand \/ RestartTime \/ GraceOver \/ Crash

Spec == Init /\ [][Next]_vars

(* A handler that has the lock goes on; the lock serves every caller in    *)
(* the end (NoStarvation of KeyLock), hence the strong fairness; the watch *)
(* and its rounds look at a pod again and again; kubelet retries; a pod    *)
(* asked to stop ends, within its grace period; a pod that is started      *)
(* often enough becomes ready.                                             *)
Fairness ==
  /\ WF_vars(Handlers) /\ SF_vars(BeginRequest) /\ SF_vars(BeginRecover)
  /\ WF_vars(KubeletStage) /\ WF_vars(KubeletUnpublish) /\ WF_vars(KubeletUnstage) /\ WF_vars(KubeletCleans)
  /\ WF_vars(PublishHealthy)
  /\ WF_vars(pod.deleted /\ PodExits) /\ SF_vars(PodReady) /\ WF_vars(RestartTime)

FairSpec == Spec /\ Fairness

-----------------------------------------------------------------------------
TypeOK ==
  /\ pod \in MountPods /\ mount \in {"none", "live", "dead"}
  /\ volData \in BOOLEAN /\ wanted \in BOOLEAN /\ config \in Configs \cup {Invalid}
  /\ kubelet \in {"unmounted", "uncertain", "mounted", "unstaging", "unstaged", "failing", "failed"}
  /\ published \in BOOLEAN /\ req \in {"none", "stage", "unstage", "publish"} /\ late \in BOOLEAN
  /\ backoff \in Backoffs /\ busy \in BOOLEAN /\ gaveUp \in {"no", "recent", "old"} /\ told \in BOOLEAN
  /\ op \in Ops /\ (op.pc = "idle" => op = NoOp) /\ (pod.status = "absent" => pod = NoPod)
  /\ faults \in 0..MaxFaults /\ crashes \in 0..MaxCrashes
  /\ losses \in Nat /\ unreported \in {"no", "deleted", "replaced"}
  /\ giveUps \in Nat /\ refused \in Configs \cup {NoConfig}

(* Once kubelet has an OK to its unstage (node.go:438), no mount pod is    *)
(* left, and nothing is mounted on the staging path it removes, whatever   *)
(* recovery, crash or retry came in between.                               *)
UnstagedMeansGone == kubelet \in {"unstaged", "unmounted"} => pod = NoPod /\ mount = "none"

(* The recovery never deletes the mount pod of a volume that kubelet holds *)
(* mounted, or that a pod still uses (recovery.go:242), although it read   *)
(* the mounts, the mark and vol_data.json some requests before.            *)
RecoverySparesStaged ==
  [][op.pc = "orphan" /\ pod' # pod => kubelet # "mounted" /\ ~ published]_vars

(* Between two tries of an unstage (markBusy, node.go:131), the recovery   *)
(* leaves a pod that drains alone: it starts no new one that the unstage   *)
(* would have to drain again.                                              *)
UnstageLeftAlone ==
  [][op.kind = "recover" /\ pod'.status = "starting" /\ ~ Running(pod)
       => ~ (kubelet = "unstaging" /\ req = "none")]_vars

(* Credentials that were refused to the last try of a series log in no     *)
(* more (ensureMounted, node.go:252), across the release of the exited     *)
(* pod, an unfinished deletion and kubelet's retries, until the volume is  *)
(* unstaged, its settings change, its pod is deleted by hand, a pod is     *)
(* ready, the grace of the give-up ends, or the node plugin restarts.      *)
NoLoginAfterGiveUp ==
  [][pod'.status = "starting" /\ ~ Running(pod) => pod'.cfg # refused]_vars

(* The writes that a mount pod lost are told once on the claim, whoever    *)
(* finds the pod first: a stage, an unstage or the recovery.               *)
LossToldOnce == losses <= 1

(* A pod that lost writes and that an unstage, a change of settings or the *)
(* recovery deletes is not gone before they are told (reportExit,          *)
(* node.go:483).  The Ensure of a stage may replace one that nobody told.  *)
LossReportedAtDelete == unreported = "deleted" => op.pc = "report"

(* A give-up is told once, although kubelet retries the stage every two    *)
(* minutes (stageGaveUp, node.go:321).                                     *)
GiveUpToldOnce == giveUps <= 1

(* Once no pod wants the volume, it is unstaged and its mount pod goes,    *)
(* whatever was under way.  The exception is a stage that failed for good  *)
(* with something mounted on the staging path: kubelet leaves both.        *)
UnstageEnds ==
  <>[](~ wanted) =>
    <>[](\/ kubelet \in {"unmounted", "failed"} /\ pod = NoPod
         \/ kubelet = "failed" /\ volData)

(* While a pod wants the volume, and its settings are valid, it is mounted *)
(* again and again, whatever the mount process dies of, or has given up.   *)
ConsumerServed ==
  <>[](wanted /\ config \in Configs) => []<>(mount = "live" \/ gaveUp # "no")
=============================================================================
