---------------------------- MODULE RepairQueue -----------------------------
(***************************************************************************)
(* internal/driver/watch.go: what makes the node plugin look at a volume   *)
(* again.  An informer queues the volume of every mount pod whose state    *)
(* changed in a way a repair acts on; workers repair the volumes of the    *)
(* queue, and queue them again after a failure, or for the restart time of *)
(* their pod; a round of Recover looks at every volume, as a safety net.   *)
(*                                                                         *)
(* Abstractions.  The volumes are staged, with no request of kubelet under *)
(* way (NodeVolume has these).  Delays are timers that fire at any time.   *)
(* A repair is what it reads, then what it does; a pod that is replaced is *)
(* released in one step and created in another, and each may fail halfway  *)
(* (MountPod has every request of Ensure).  The run of Recover before      *)
(* Watch is over.                                                          *)
(***************************************************************************)
EXTENDS Naturals, Sequences

CONSTANTS
  Volumes,
  Workers,      \* the goroutines of repairWorker
  MaxFaults,    \* bound: requests that fail, and /readyz that do not answer
  MaxEvents     \* bound: events the informer has not handled

ASSUME ActorsAssumption == Volumes \cap Workers = {}
ASSUME QueueBoundsAssumption == MaxFaults \in Nat /\ MaxEvents \in Nat

VARIABLES
  pod,      \* the mount pod of each volume
  stuck,    \* volumes whose pod has been terminating for stuckAfter
  loose,    \* and those whose pod has no finalizer any more
  bound,    \* the target paths are bound to its mount; "skipped" if it did not answer
  restart,  \* the exit of the pod: not counted, counted, its restart time reached, or given up
  gaveUp,   \* the mark of the NodeServer, "told" once the claim has its event
  cached,   \* what the informer last saw of each pod
  events,   \* what it has yet to handle
  dirty,    \* the queue: volumes to repair,
  taken,    \* those a worker has, not put back with Done,
  delayed,  \* and those to add later: to retry, or at the restart time of the pod
  job,      \* the repairs under way: of the workers, and one per volume for a round
  faults,
  missed    \* history: volumes not looked at since the watch missed events of theirs

podVars == <<pod, stuck, loose, bound, restart, gaveUp>>
queueVars == <<dirty, taken, delayed>>
vars == <<podVars, cached, events, queueVars, job, faults, missed>>

Actors == Volumes \cup Workers

MountPods == [status : {"starting", "ready", "exited"}, deleted : BOOLEAN]

NewPod == [status |-> "starting", deleted |-> FALSE]

(* The pod is gone from the API server. *)
Gone == [NewPod EXCEPT !.status = "gone"]

NoVolume == "none"

Idle == [vol |-> NoVolume, pc |-> "idle", seen |-> "none"]

Init ==
  /\ pod \in [Volumes -> MountPods] /\ stuck = {} /\ loose = {}
  /\ bound = [v \in Volumes |-> IF pod[v].status = "ready" THEN "yes" ELSE "no"]
  /\ restart = [v \in Volumes |-> "new"]
  /\ gaveUp = [v \in Volumes |-> "no"]
  /\ cached = [v \in Volumes |-> Gone] /\ events = [v \in Volumes |-> <<pod[v]>>]
  /\ dirty = {} /\ taken = {} /\ delayed = [v \in Volumes |-> "no"]
  /\ job = [a \in Actors |-> Idle] /\ faults = 0 /\ missed = {}

-----------------------------------------------------------------------------
(* The mount pod, the kubelet, people. *)

(* A change of the pod is an event of the watch. *)
Change(v, p) ==
  /\ Len(events[v]) < MaxEvents
  /\ pod' = [pod EXCEPT ![v] = p] /\ events' = [events EXCEPT ![v] = Append(@, p)]

outside == <<gaveUp, cached, queueVars, job, faults, missed>>

PodReady(v) ==
  /\ pod[v].status = "starting" /\ ~ pod[v].deleted
  /\ Change(v, [pod[v] EXCEPT !.status = "ready"])
  /\ UNCHANGED <<stuck, loose, bound, restart, outside>>

(* Every bind of its mount is dead. *)
PodExits(v) ==
  /\ pod[v].status \in {"starting", "ready"}
  /\ Change(v, [pod[v] EXCEPT !.status = "exited"])
  /\ bound' = [bound EXCEPT ![v] = "no"]
  /\ UNCHANGED <<stuck, loose, restart, outside>>

DeletedByHand(v) ==
  /\ pod[v] # Gone /\ ~ pod[v].deleted
  /\ Change(v, [pod[v] EXCEPT !.deleted = TRUE])
  /\ UNCHANGED <<stuck, loose, bound, restart, outside>>

(* stuckAfter: no event says that this time is over. *)
StuckAfter(v) ==
  /\ pod[v].deleted /\ pod[v].status # "exited" /\ v \notin stuck
  /\ stuck' = stuck \cup {v}
  /\ UNCHANGED <<pod, loose, bound, restart, events, outside>>

Goes(v) ==
  /\ Change(v, Gone) /\ stuck' = stuck \ {v} /\ loose' = loose \ {v}
  /\ bound' = [bound EXCEPT ![v] = "no"]

(* The kubelet confirms a deletion that no finalizer holds back. *)
KubeletConfirms(v) ==
  /\ v \in loose /\ pod[v].deleted /\ pod[v].status = "exited"
  /\ Goes(v) /\ UNCHANGED <<restart, outside>>

(* Backoff.NextRestart is reached. *)
RestartTime(v) ==
  /\ restart[v] = "counted" /\ restart' = [restart EXCEPT ![v] = "due"]
  /\ UNCHANGED <<pod, stuck, loose, bound, events, outside>>

-----------------------------------------------------------------------------
(* The informer. *)

(* Mutant of podSignature: the readiness is left out. *)
SignatureWithoutReady(p) == <<p.deleted, p.status = "exited">>

(* podSignature; the kubelet clears the Ready condition with the exit. *)
Signature(p) == <<p.deleted, p.status = "exited", p.status = "ready">>

(* AddFunc, UpdateFunc and DeleteFunc. *)
Matters(old, new) ==
  \/ old # Gone /\ new = Gone
  \/ old = Gone /\ new # Gone /\ (new.deleted \/ new.status = "exited")
  \/ old # Gone /\ new # Gone /\ Signature(old) # Signature(new)

Deliver(v) ==
  /\ events[v] # <<>>
  /\ LET new == Head(events[v])
     IN  /\ cached' = [cached EXCEPT ![v] = new]
         /\ dirty' = IF Matters(cached[v], new) THEN dirty \cup {v} ELSE dirty
  /\ events' = [events EXCEPT ![v] = Tail(@)]
  /\ UNCHANGED <<podVars, taken, delayed, job, faults, missed>>

(* The watch broke, and the pods are listed again: a pod that was replaced *)
(* meanwhile under the same name is one update.                            *)
Relist(v) ==
  /\ Len(events[v]) > 1
  /\ events' = [events EXCEPT ![v] = <<pod[v]>>] /\ missed' = missed \cup {v}
  /\ UNCHANGED <<podVars, cached, queueVars, job, faults>>

-----------------------------------------------------------------------------
(* The repairs. *)

(* queue.Get: never a volume that another worker has. *)
Take(w, v) ==
  /\ job[w] = Idle /\ v \in dirty \ taken
  /\ dirty' = dirty \ {v} /\ taken' = taken \cup {v}
  /\ job' = [job EXCEPT ![w] = [vol |-> v, pc |-> "lock", seen |-> "none"]]
  /\ UNCHANGED <<podVars, cached, events, delayed, faults, missed>>

BeginRound(v) ==
  /\ job[v] = Idle
  /\ job' = [job EXCEPT ![v] = [vol |-> v, pc |-> "lock", seen |-> "none"]]
  /\ UNCHANGED <<podVars, cached, events, queueVars, faults, missed>>

(* The phase a repair acts on; "dead" is PhaseExited or PhaseTerminating,  *)
(* "starting" one that is pending, or runs and is not ready.               *)
Phase(p) ==
  IF p = Gone THEN "absent" ELSE IF p.status = "exited" \/ p.deleted THEN "dead" ELSE p.status

(* The lock of the volume, and recoverVolume's Get. *)
Look(a) ==
  /\ job[a].pc = "lock"
  /\ \A b \in Actors : ~ (job[b].vol = job[a].vol /\ job[b].pc \in {"act", "create"})
  /\ job' = [job EXCEPT ![a].pc = "act", ![a].seen = Phase(pod[job[a].vol])]
  /\ missed' = IF a \in Workers THEN missed \ {job[a].vol} ELSE missed
  /\ UNCHANGED <<podVars, cached, events, queueVars, faults>>

(* The end of a repair, under the lock; a round ignores how it went. *)
End(a, result) ==
  job' = [job EXCEPT ![a] = IF a \in Workers THEN [@ EXCEPT !.pc = result, !.seen = "none"] ELSE Idle]

Fault == faults < MaxFaults /\ faults' = faults + 1

(* A request fails that changes nothing: those before Ensure, and its Get. *)
Fails(a) == Fault /\ End(a, "failed") /\ UNCHANGED <<podVars, events>>

(* Ready answers: rebind, which fails if the repair read the mounts before *)
(* the pod had its own.                                                    *)
Rebind(a, v) ==
  /\ pod[v].status = "ready"
  /\ gaveUp' = [gaveUp EXCEPT ![v] = "no"]
  /\ \/ End(a, "done") /\ bound' = [bound EXCEPT ![v] = "yes"] /\ UNCHANGED faults
     \/ End(a, "failed") /\ UNCHANGED bound /\ (Fault \/ (job[a].seen = "starting" /\ UNCHANGED faults))
  /\ UNCHANGED <<pod, stuck, loose, restart, events>>

(* An error of Ready is not one of the repair. *)
Unanswered(a, v) ==
  /\ pod[v].status = "ready" /\ Fault
  /\ bound' = [bound EXCEPT ![v] = IF @ = "no" THEN "skipped" ELSE @]
  /\ End(a, "done") /\ UNCHANGED <<pod, stuck, loose, restart, gaveUp, events>>

(* Nothing to do: no pod, one that was pending, or one that is not ready.  *)
Leave(a, v) ==
  /\ job[a].seen \in {"absent", "starting"} \/ (job[a].seen = "ready" /\ pod[v].status # "ready")
  /\ End(a, "done") /\ UNCHANGED <<podVars, events, faults>>

(* The process is gone for good, or taken for gone. *)
Finished(v) == pod[v].status = "exited" \/ v \in stuck

(* Mutant of countExit: the exit is counted at every look. *)
CountedAgain(v) == {"counted"}

(* countExit, and startOver for a pod that was deleted by hand: an exit is *)
(* counted once, and not at all if the pod had another configuration.      *)
Counted(v) ==
  CASE restart[v] = "new" -> {"counted", "due"} \cup (IF pod[v].deleted THEN {} ELSE {"gaveUp"})
    [] restart[v] = "gaveUp" /\ pod[v].deleted -> {"due"}
    [] OTHER -> {restart[v]}

(* Ensure of a pod that is still stopping. *)
Stopping(a, v) ==
  /\ pod[v] # Gone /\ ~ Finished(v)
  /\ gaveUp' = [gaveUp EXCEPT ![v] = "no"] /\ End(a, "done")
  /\ UNCHANGED <<pod, stuck, loose, bound, restart, events, faults>>

(* reportGaveUp. *)
GivesUp(a, v) ==
  /\ restart'[v] = "gaveUp"
  /\ End(a, IF gaveUp[v] = "told" THEN "done" ELSE "failed")
  /\ gaveUp' = [gaveUp EXCEPT ![v] = "told"]
  /\ UNCHANGED <<pod, stuck, loose, bound, events, faults>>

(* Mutant: no other look at a pod that waits for its restart time. *)
LaterNever(p) == "done"

(* When recoverVolume wants the volume looked at again. *)
Later(p) == IF p.deleted THEN "done" ELSE "later"

AwaitsRestart(a, v) ==
  /\ restart'[v] = "counted"
  /\ gaveUp' = [gaveUp EXCEPT ![v] = "no"] /\ End(a, Later(pod[v]))
  /\ UNCHANGED <<pod, stuck, loose, bound, events, faults>>

(* release: the finalizer, then the pod.  One that fails may have done the *)
(* first, or all of it if the answer was lost.                             *)
Release(a, v) ==
  /\ restart'[v] = "due"
  /\ \/ Goes(v) /\ job' = [job EXCEPT ![a].pc = "create"] /\ UNCHANGED faults
     \/ /\ Fault /\ End(a, "failed")
        /\ Goes(v) \/ (loose' \in {loose, loose \cup {v}} /\ UNCHANGED <<pod, stuck, bound, events>>)
  /\ UNCHANGED gaveUp

(* A pod that went since the repair saw it, maybe with its Secret. *)
WentMeanwhile(a, v) ==
  /\ pod[v] = Gone
  /\ End(a, "failed") \/ job' = [job EXCEPT ![a].pc = "create"]
  /\ UNCHANGED <<podVars, events, faults>>

(* A pod that is dead or going: Ensure. *)
Reensure(a, v) ==
  \/ Stopping(a, v) \/ WentMeanwhile(a, v)
  \/ /\ Finished(v)
     /\ \E c \in Counted(v) : restart' = [restart EXCEPT ![v] = c]
     /\ GivesUp(a, v) \/ AwaitsRestart(a, v) \/ Release(a, v)

Act(a) ==
  /\ job[a].pc = "act"
  /\ LET v == job[a].vol
     IN  \/ Fails(a) \/ Leave(a, v)
         \/ job[a].seen \in {"starting", "ready"} /\ (Rebind(a, v) \/ Unanswered(a, v))
         \/ job[a].seen = "dead" /\ Reensure(a, v)
  /\ UNCHANGED <<cached, queueVars, missed>>

(* create, after a release: a failure leaves no pod, or the new one if it  *)
(* is that of ownSecret, or of the answer.                                 *)
Create(a) ==
  /\ job[a].pc = "create"
  /\ LET v == job[a].vol
     IN  \/ Fails(a)
         \/ /\ Change(v, NewPod) /\ restart' = [restart EXCEPT ![v] = "new"]
            /\ \/ End(a, "done") /\ gaveUp' = [gaveUp EXCEPT ![v] = "no"] /\ UNCHANGED faults
               \/ End(a, "failed") /\ Fault /\ UNCHANGED gaveUp
            /\ UNCHANGED <<stuck, loose, bound>>
  /\ UNCHANGED <<cached, queueVars, missed>>

(* The delaying queue has one entry per volume, the earliest. *)
Delay(v, result) ==
  delayed' = [delayed EXCEPT ![v] =
    IF result = "failed" \/ @ = "retry" THEN "retry" ELSE IF result = "later" THEN "restart" ELSE @]

(* Mutant: Done is left out after a failure. *)
PutBackIfDone(w) == taken' = IF job[w].pc = "failed" THEN taken ELSE taken \ {job[w].vol}

PutBack(w) == taken' = taken \ {job[w].vol}

(* AddRateLimited, AddAfter or Forget, and Done. *)
Finish(w) ==
  /\ job[w].pc \in {"failed", "later", "done"}
  /\ Delay(job[w].vol, job[w].pc) /\ PutBack(w)
  /\ job' = [job EXCEPT ![w] = Idle]
  /\ UNCHANGED <<podVars, cached, events, dirty, faults, missed>>

(* A delay of the queue is over. *)
Timer(v) ==
  /\ delayed[v] = "retry" \/ (delayed[v] = "restart" /\ restart[v] # "counted")
  /\ delayed' = [delayed EXCEPT ![v] = "no"] /\ dirty' = dirty \cup {v}
  /\ UNCHANGED <<podVars, cached, events, taken, job, faults, missed>>

-----------------------------------------------------------------------------
Repairs(a) == Look(a) \/ Act(a) \/ Create(a)

Next ==
  \/ \E v \in Volumes :
       \/ PodReady(v) \/ PodExits(v) \/ DeletedByHand(v) \/ StuckAfter(v) \/ RestartTime(v)
       \/ KubeletConfirms(v) \/ Deliver(v) \/ Relist(v) \/ Timer(v) \/ BeginRound(v)
       \/ \E w \in Workers : Take(w, v)
  \/ \E w \in Workers : Finish(w)
  \/ \E a \in Actors : Repairs(a)

Spec == Init /\ [][Next]_vars

(* Events are delivered, the queue is first in first out, the lock serves  *)
(* every caller in the end (NoStarvation of KeyLock), requests end, clocks *)
(* advance.  Nothing is said of the rounds.                                *)
Fairness ==
  /\ \A v \in Volumes :
       /\ WF_vars(Deliver(v)) /\ WF_vars(Timer(v)) /\ WF_vars(StuckAfter(v)) /\ WF_vars(RestartTime(v))
       /\ SF_vars(\E w \in Workers : Take(w, v))
  /\ \A w \in Workers : WF_vars(Finish(w))
  /\ \A a \in Actors : SF_vars(Look(a)) /\ WF_vars(Act(a)) /\ WF_vars(Create(a))

FairSpec == Spec /\ Fairness

(* The ticker of Watch. *)
Rounds == \A v \in Volumes : WF_vars(BeginRound(v))

-----------------------------------------------------------------------------
TypeOK ==
  /\ pod \in [Volumes -> MountPods \cup {Gone}] /\ stuck \subseteq Volumes /\ loose \subseteq Volumes
  /\ bound \in [Volumes -> {"no", "yes", "skipped"}]
  /\ restart \in [Volumes -> {"new", "counted", "due", "gaveUp"}] /\ gaveUp \in [Volumes -> {"no", "told"}]
  /\ cached \in [Volumes -> MountPods \cup {Gone}] /\ events \in [Volumes -> Seq(MountPods \cup {Gone})]
  /\ dirty \subseteq Volumes /\ delayed \in [Volumes -> {"no", "retry", "restart"}]
  /\ taken = {job[w].vol : w \in {x \in Workers : job[x] # Idle}}
  /\ \A a \in Actors : job[a].pc \in {"idle", "lock", "act", "create", "failed", "later", "done"}
  /\ faults \in 0..MaxFaults /\ missed \subseteq Volumes

(* The queue will have the volume looked at, without a round. *)
Planned(v) ==
  \/ v \in dirty \/ delayed[v] # "no" \/ events[v] # <<>>
  \/ \E w \in Workers : job[w].vol = v
  \/ v \in missed

Waits(v) == pod[v].status = "exited" /\ ~ pod[v].deleted /\ restart[v] # "gaveUp"

(* A pod that exited is looked at again without waiting for a round,       *)
(* whatever repair was under way when it did (repairWorker, watch.go:162), *)
(* unless it was being deleted, or the watch missed it.                    *)
RestartPlanned == \A v \in Volumes : Waits(v) => Planned(v)

(* ... and so is a pod that became ready, for its binds, unless its        *)
(* /readyz did not answer.                                                 *)
RebindPlanned ==
  \A v \in Volumes : pod[v].status = "ready" /\ ~ pod[v].deleted /\ bound[v] = "no" => Planned(v)

Replaced(v) == pod[v].status \in {"starting", "ready"} /\ ~ pod[v].deleted

(* The pod went, and the repair that released it is over: nothing creates  *)
(* another (the finding of NodeVolume's PodlessRecreated).                 *)
Podless(v) == pod[v] = Gone /\ ~ \E a \in Actors : job[a].vol = v /\ job[a].pc = "create"

(* The queue alone replaces a pod that exited, after failures of its       *)
(* repairs, unless people delete it or the watch misses something; all but *)
(* one whose Ensure failed after it had released the pod.                  *)
QueueRestarts ==
  \A v \in Volumes :
    Waits(v) ~> Replaced(v) \/ pod[v].deleted \/ restart[v] = "gaveUp" \/ v \in missed \/ Podless(v)

(* With the rounds every pod that is finished is replaced, or gives up,    *)
(* with the same exception: one that is stuck terminating, of which no     *)
(* event tells, and one whose events the watch missed.                     *)
RoundsRestart ==
  Rounds => \A v \in Volumes : Finished(v) ~> Replaced(v) \/ restart[v] = "gaveUp" \/ Podless(v)
=============================================================================
