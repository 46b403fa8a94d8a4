------------------------- MODULE RepairQueueProofs --------------------------
(***************************************************************************)
(* Proofs about RepairQueue, for any volumes, workers and bounds: its type *)
(* invariant, and that the queue will look at a pod that exited, or that   *)
(* became ready, without a round of Recover.                               *)
(*                                                                         *)
(* The invariant.  "Planned" of RepairQueue is not inductive: an event may *)
(* be one that Matters passes over, and a repair may have looked at the    *)
(* pod before it changed.  NoticeInv says which of them count: an event    *)
(* that differs from the one before it in something podSignature has, and  *)
(* a repair that has yet to look, that saw the pod as it still is, or that *)
(* puts the volume back.  It rests on one fact more: what the informer     *)
(* knows and its events end with the pod as it is.                         *)
(***************************************************************************)
EXTENDS RepairQueue, TLAPS

Seen == MountPods \cup {Gone}

PodsOK ==
  /\ pod \in [Volumes -> Seen] /\ stuck \subseteq Volumes /\ loose \subseteq Volumes
  /\ bound \in [Volumes -> {"no", "yes", "skipped"}]
  /\ restart \in [Volumes -> {"new", "counted", "due", "gaveUp"}] /\ gaveUp \in [Volumes -> {"no", "told"}]

EventsOK == cached \in [Volumes -> Seen] /\ events \in [Volumes -> Seq(Seen)]

QueueOK ==
  /\ dirty \subseteq Volumes /\ delayed \in [Volumes -> {"no", "retry", "restart"}]
  /\ faults \in 0..MaxFaults /\ missed \subseteq Volumes

TakenOK == taken = {job[w].vol : w \in {x \in Workers : job[x] # Idle}}

Jobs ==
  [vol : Volumes \cup {NoVolume}, pc : {"idle", "lock", "act", "create", "failed", "later", "done"},
   seen : {"none", "absent", "starting", "ready", "dead"}]

(* A worker has one volume, and no two workers have the same.              *)
JobsOK ==
  /\ job \in [Actors -> Jobs]
  /\ \A a \in Actors : job[a] = Idle \/ (job[a].pc # "idle" /\ job[a].vol \in Volumes)
  /\ \A x, y \in Workers : job[x] # Idle /\ job[y] # Idle /\ job[x].vol = job[y].vol => x = y

TypeInv == PodsOK /\ EventsOK /\ QueueOK /\ TakenOK /\ JobsOK

-----------------------------------------------------------------------------
(* What a step may do with the repairs.                                    *)

(* The repair of a goes on, or ends.                                       *)
JobGoesOn(a) ==
  /\ job[a] # Idle
  /\ \E j \in Jobs : /\ job' = [job EXCEPT ![a] = j]
                     /\ j = Idle \/ (j.pc # "idle" /\ j.vol = job[a].vol)
                     /\ a \in Workers => j # Idle
  /\ taken' = taken

LEMMA EndGoesOn ==
  ASSUME JobsOK, NEW a \in Actors, job[a] # Idle, NEW r \in {"failed", "later", "done"}, End(a, r)
  PROVE  \E j \in Jobs : /\ job' = [job EXCEPT ![a] = j]
                         /\ j = Idle \/ (j.pc # "idle" /\ j.vol = job[a].vol)
                         /\ a \in Workers => j # Idle
<1>1. job[a] \in Jobs
  BY DEF JobsOK
<1>2. CASE a \in Workers
  <2> DEFINE j == [job[a] EXCEPT !.pc = r, !.seen = "none"]
  <2>1. j \in Jobs /\ j.pc = r /\ j.vol = job[a].vol
    BY <1>1 DEF Jobs
  <2>2. j # Idle
    BY <2>1 DEF Idle
  <2>3. job' = [job EXCEPT ![a] = j]
    BY <1>2 DEF End
  <2> QED
    BY <2>1, <2>2, <2>3
<1>3. CASE a \notin Workers
  <2>1. Idle \in Jobs
    BY DEF Idle, Jobs
  <2>2. job' = [job EXCEPT ![a] = Idle]
    BY <1>3 DEF End
  <2> QED
    BY <1>3, <2>1, <2>2
<1> QED
  BY <1>2, <1>3

(* ... as one that released a pod does.                                    *)
LEMMA CreateGoesOn ==
  ASSUME JobsOK, NEW a \in Actors, job[a] # Idle, job' = [job EXCEPT ![a].pc = "create"]
  PROVE  \E j \in Jobs : /\ job' = [job EXCEPT ![a] = j]
                         /\ j = Idle \/ (j.pc # "idle" /\ j.vol = job[a].vol)
                         /\ a \in Workers => j # Idle
<1> DEFINE j == [job[a] EXCEPT !.pc = "create"]
<1>1. job[a] \in Jobs
  BY DEF JobsOK
<1>2. j \in Jobs /\ j.pc = "create" /\ j.vol = job[a].vol
  BY <1>1 DEF Jobs
<1>3. j # Idle
  BY <1>2 DEF Idle
<1> QED
  BY <1>2, <1>3

LEMMA PhaseType == ASSUME NEW p \in Seen PROVE Phase(p) \in {"absent", "starting", "ready", "dead"}
BY DEF Phase, Seen, MountPods

LEMMA ActGoesOn == ASSUME PodsOK, JobsOK, NEW a \in Actors, Repairs(a) PROVE JobGoesOn(a)
<1>1. CASE Look(a)
  <2> DEFINE j == [job[a] EXCEPT !.pc = "act", !.seen = Phase(pod[job[a].vol])]
  <2>1. job[a] \in Jobs /\ job[a].pc = "lock" /\ job[a] # Idle /\ job[a].vol \in Volumes
    BY <1>1 DEF JobsOK, Look, Idle
  <2>2. Phase(pod[job[a].vol]) \in {"absent", "starting", "ready", "dead"}
    BY <2>1, PhaseType DEF PodsOK
  <2>3. j \in Jobs /\ j.pc = "act" /\ j.vol = job[a].vol
    BY <2>1, <2>2 DEF Jobs
  <2>4. j # Idle
    BY <2>3 DEF Idle
  <2>5. job' = [job EXCEPT ![a] = j] /\ taken' = taken
    BY <1>1 DEF Look, queueVars
  <2> QED
    BY <2>1, <2>3, <2>4, <2>5 DEF JobGoesOn
<1>2. CASE Act(a) \/ Create(a)
  <2>1. job[a] # Idle /\ taken' = taken
    BY <1>2 DEF Act, Create, Idle, queueVars
  <2>2. (\E r \in {"failed", "later", "done"} : End(a, r)) \/ job' = [job EXCEPT ![a].pc = "create"]
    <3>1. CASE Act(a)
      BY <3>1 DEF Act, Fails, Leave, Rebind, Unanswered, Reensure, Stopping, WentMeanwhile, GivesUp, AwaitsRestart,
                  Later, Release
    <3>2. CASE Create(a)
      BY <3>2 DEF Create, Fails
    <3> QED
      BY <1>2, <3>1, <3>2
  <2> QED
    BY <2>1, <2>2, EndGoesOn, CreateGoesOn DEF JobGoesOn
<1> QED
  BY <1>1, <1>2 DEF Repairs

LEMMA GoesOnJobs ==
  ASSUME JobsOK, TakenOK, NEW a \in Actors, JobGoesOn(a)
  PROVE  JobsOK' /\ TakenOK'
<1> PICK j \in Jobs : /\ job' = [job EXCEPT ![a] = j]
                      /\ j = Idle \/ (j.pc # "idle" /\ j.vol = job[a].vol)
                      /\ a \in Workers => j # Idle
  BY DEF JobGoesOn
<1>1. /\ job' \in [Actors -> Jobs] /\ job'[a] = j
      /\ \A b \in Actors : b # a => job'[b] = job[b]
  BY DEF JobsOK
<1>2. job[a] # Idle /\ job[a].vol \in Volumes
  BY DEF JobGoesOn, JobsOK
<1>3. \A b \in Actors : job'[b] = Idle \/ (job'[b].pc # "idle" /\ job'[b].vol \in Volumes)
  BY <1>1, <1>2 DEF JobsOK
<1>4. \A w \in Workers : w \in Actors /\ (job'[w] # Idle <=> job[w] # Idle) /\ (job[w] # Idle => job'[w].vol = job[w].vol)
  BY <1>1, <1>2 DEF Actors
<1>5. JobsOK'
  BY <1>1, <1>3, <1>4 DEF JobsOK
<1>6. TakenOK'
  BY <1>4 DEF TakenOK, JobGoesOn
<1> QED
  BY <1>5, <1>6

LEMMA TakeJobs ==
  ASSUME JobsOK, TakenOK, NEW w \in Workers, NEW v \in Volumes, Take(w, v)
  PROVE  JobsOK' /\ TakenOK'
<1> DEFINE j == [vol |-> v, pc |-> "lock", seen |-> "none"]
<1>1. j \in Jobs /\ j # Idle /\ w \in Actors
  BY DEF Jobs, Idle, Actors
<1>2. /\ job' \in [Actors -> Jobs] /\ job'[w] = j /\ \A b \in Actors : b # w => job'[b] = job[b]
  BY <1>1 DEF Take, JobsOK
<1>3. \A x \in Workers : job[x] # Idle => x # w /\ job[x].vol # v
  BY DEF Take, TakenOK
<1>4. Workers \subseteq Actors
  BY DEF Actors
<1>5. JobsOK'
  BY <1>1, <1>2, <1>3, <1>4 DEF JobsOK
<1>6. taken' = taken \cup {v}
  BY DEF Take
<1>7. \A u : u \in taken' <=> \E x \in Workers : job'[x] # Idle /\ u = job'[x].vol
  BY <1>1, <1>2, <1>3, <1>4, <1>6 DEF TakenOK
<1>8. TakenOK'
  BY <1>7 DEF TakenOK
<1> QED
  BY <1>5, <1>8

LEMMA FinishJobs ==
  ASSUME JobsOK, TakenOK, NEW w \in Workers, Finish(w)
  PROVE  JobsOK' /\ TakenOK'
<1>1. Idle \in Jobs /\ w \in Actors /\ Workers \subseteq Actors
  BY DEF Jobs, Idle, Actors
<1>2. job[w] # Idle
  BY DEF Finish, Idle
<1>3. /\ job' \in [Actors -> Jobs] /\ job'[w] = Idle /\ \A b \in Actors : b # w => job'[b] = job[b]
  BY <1>1 DEF Finish, JobsOK
<1>4. JobsOK'
  BY <1>1, <1>3 DEF JobsOK
<1>5. taken' = taken \ {job[w].vol}
  BY DEF Finish, PutBack
<1>6. \A x \in Workers : x # w /\ job[x] # Idle => job[x].vol # job[w].vol
  BY <1>2 DEF JobsOK
<1>7. \A u : u \in taken' <=> \E x \in Workers : job'[x] # Idle /\ u = job'[x].vol
  BY <1>1, <1>2, <1>3, <1>5, <1>6 DEF TakenOK
<1>8. TakenOK'
  BY <1>7 DEF TakenOK
<1> QED
  BY <1>4, <1>8

LEMMA BeginRoundJobs ==
  ASSUME JobsOK, TakenOK, NEW v \in Volumes, BeginRound(v)
  PROVE  JobsOK' /\ TakenOK'
<1> DEFINE j == [vol |-> v, pc |-> "lock", seen |-> "none"]
<1>1. j \in Jobs /\ j.pc # "idle" /\ v \in Actors /\ v \notin Workers /\ Workers \subseteq Actors
  BY ActorsAssumption DEF Jobs, Actors
<1>2. /\ job' \in [Actors -> Jobs] /\ job'[v] = j /\ \A b \in Actors : b # v => job'[b] = job[b]
  BY <1>1 DEF BeginRound, JobsOK
<1>3. \A w \in Workers : job'[w] = job[w]
  BY <1>1, <1>2
<1>4. JobsOK'
  BY <1>1, <1>2, <1>3 DEF JobsOK
<1>5. TakenOK'
  BY <1>3 DEF TakenOK, BeginRound, queueVars
<1> QED
  BY <1>4, <1>5

-----------------------------------------------------------------------------
(* What a step may do with the pods and their events.                      *)

LEMMA SeenTypes ==
  /\ NewPod \in Seen /\ Gone \in Seen
  /\ \A p \in MountPods : /\ [p EXCEPT !.deleted = TRUE] \in MountPods
                          /\ \A s \in {"ready", "exited"} : [p EXCEPT !.status = s] \in MountPods
  /\ \A p \in Seen : p # Gone => p \in MountPods
  /\ \A p \in Seen : p.status \in {"starting", "ready", "exited"} => p \in MountPods
<1>1. Gone.status = "gone"
  BY DEF Gone, NewPod
<1> QED
  BY <1>1 DEF Seen, MountPods, NewPod, Gone

LEMMA TypeOfChange ==
  ASSUME PodsOK, EventsOK, NEW v \in Volumes, NEW p \in Seen, Change(v, p)
  PROVE  pod' \in [Volumes -> Seen] /\ events' \in [Volumes -> Seq(Seen)]
<1>1. events[v] \in Seq(Seen)
  BY DEF EventsOK
<1>2. Append(events[v], p) \in Seq(Seen)
  BY <1>1
<1> QED
  BY <1>2 DEF Change, PodsOK, EventsOK

LEMMA TypeOfGoing ==
  ASSUME PodsOK, EventsOK, NEW v \in Volumes, Goes(v), UNCHANGED <<restart, gaveUp, cached>>
  PROVE  PodsOK' /\ EventsOK'
<1>1. pod' \in [Volumes -> Seen] /\ events' \in [Volumes -> Seq(Seen)]
  BY SeenTypes, TypeOfChange DEF Goes
<1> QED
  BY <1>1 DEF Goes, PodsOK, EventsOK

(* What happens to the pod of v without the node plugin.                   *)
Outside(v) ==
  PodReady(v) \/ PodExits(v) \/ DeletedByHand(v) \/ StuckAfter(v) \/ RestartTime(v) \/ KubeletConfirms(v)

LEMMA TypeOutside ==
  ASSUME PodsOK, EventsOK, QueueOK, NEW v \in Volumes, Outside(v)
  PROVE  PodsOK' /\ EventsOK' /\ QueueOK' /\ UNCHANGED <<job, taken>>
<1>1. pod[v] \in Seen
  BY DEF PodsOK
<1>2. CASE PodReady(v)
  <2>1. [pod[v] EXCEPT !.status = "ready"] \in Seen
    BY <1>1, <1>2, SeenTypes DEF PodReady, Seen
  <2>2. pod' \in [Volumes -> Seen] /\ events' \in [Volumes -> Seq(Seen)]
    BY <1>2, <2>1, TypeOfChange DEF PodReady
  <2> QED
    BY <1>2, <2>2 DEF PodReady, PodsOK, EventsOK, QueueOK, outside, queueVars
<1>3. CASE PodExits(v)
  <2>1. [pod[v] EXCEPT !.status = "exited"] \in Seen
    BY <1>1, <1>3, SeenTypes DEF PodExits, Seen
  <2>2. pod' \in [Volumes -> Seen] /\ events' \in [Volumes -> Seq(Seen)]
    BY <1>3, <2>1, TypeOfChange DEF PodExits
  <2> QED
    BY <1>3, <2>2 DEF PodExits, PodsOK, EventsOK, QueueOK, outside, queueVars
<1>4. CASE DeletedByHand(v)
  <2>1. [pod[v] EXCEPT !.deleted = TRUE] \in Seen
    BY <1>1, <1>4, SeenTypes DEF DeletedByHand, Seen
  <2>2. pod' \in [Volumes -> Seen] /\ events' \in [Volumes -> Seq(Seen)]
    BY <1>4, <2>1, TypeOfChange DEF DeletedByHand
  <2> QED
    BY <1>4, <2>2 DEF DeletedByHand, PodsOK, EventsOK, QueueOK, outside, queueVars
<1>5. CASE StuckAfter(v)
  BY <1>5 DEF StuckAfter, PodsOK, EventsOK, QueueOK, outside, queueVars
<1>6. CASE RestartTime(v)
  BY <1>6 DEF RestartTime, PodsOK, EventsOK, QueueOK, outside, queueVars
<1>7. CASE KubeletConfirms(v)
  <2>1. PodsOK' /\ EventsOK'
    BY <1>7, TypeOfGoing DEF KubeletConfirms, outside
  <2> QED
    BY <1>7, <2>1 DEF KubeletConfirms, QueueOK, outside, queueVars
<1> QED
  BY <1>2, <1>3, <1>4, <1>5, <1>6, <1>7 DEF Outside

LEMMA TypeOfEvents ==
  ASSUME PodsOK, EventsOK, QueueOK, NEW v \in Volumes, Deliver(v) \/ Relist(v)
  PROVE  PodsOK' /\ EventsOK' /\ QueueOK' /\ UNCHANGED <<job, taken>>
<1>1. events[v] \in Seq(Seen) /\ pod[v] \in Seen
  BY DEF PodsOK, EventsOK
<1>2. CASE Deliver(v)
  <2>1. Head(events[v]) \in Seen /\ Tail(events[v]) \in Seq(Seen)
    BY <1>1, <1>2 DEF Deliver
  <2>2. EventsOK'
    BY <1>2, <2>1 DEF Deliver, EventsOK
  <2>3. dirty' \subseteq Volumes
    BY <1>2 DEF Deliver, QueueOK
  <2> QED
    BY <1>2, <2>2, <2>3 DEF Deliver, PodsOK, QueueOK, podVars
<1>3. CASE Relist(v)
  <2>1. <<pod[v]>> \in Seq(Seen)
    BY <1>1
  <2> QED
    BY <1>3, <2>1 DEF Relist, PodsOK, EventsOK, QueueOK, podVars, queueVars
<1> QED
  BY <1>2, <1>3

LEMMA TypeOfQueue ==
  ASSUME PodsOK, EventsOK, QueueOK, JobsOK,
         \/ \E v \in Volumes : Timer(v) \/ BeginRound(v) \/ \E w \in Workers : Take(w, v)
         \/ \E w \in Workers : Finish(w)
  PROVE  PodsOK' /\ EventsOK' /\ QueueOK'
<1>1. CASE \E v \in Volumes : Timer(v) \/ BeginRound(v) \/ \E w \in Workers : Take(w, v)
  BY <1>1 DEF Timer, BeginRound, Take, PodsOK, EventsOK, QueueOK, podVars, queueVars
<1>2. CASE \E w \in Workers : Finish(w)
  <2> PICK w \in Workers : Finish(w)
    BY <1>2
  <2>1. delayed' \in [Volumes -> {"no", "retry", "restart"}]
    BY DEF Finish, Delay, QueueOK
  <2> QED
    BY <2>1 DEF Finish, PodsOK, EventsOK, QueueOK, podVars
<1> QED
  BY <1>1, <1>2

(* What a repair leaves of the pod and of its backoff.                     *)
LEMMA TypeOfAct ==
  ASSUME PodsOK, EventsOK, QueueOK, JobsOK, NEW a \in Actors, Repairs(a)
  PROVE  PodsOK' /\ EventsOK' /\ QueueOK'
<1>1. CASE Look(a)
  BY <1>1 DEF Look, PodsOK, EventsOK, QueueOK, podVars, queueVars
<1>2. CASE Act(a) \/ Create(a)
  <2> DEFINE v == job[a].vol
  <2>1. v \in Volumes /\ cached' = cached /\ UNCHANGED <<queueVars, missed>>
    BY <1>2 DEF Act, Create, JobsOK, Idle
  <2> HIDE DEF v
  <2>2. CASE Fails(a)
    <3>1. QueueOK'
      BY <2>1, <2>2, QueueBoundsAssumption DEF Fails, Fault, QueueOK, queueVars
    <3> QED
      BY <2>1, <2>2, <3>1 DEF Fails, PodsOK, EventsOK, podVars
  <2>3. CASE Leave(a, v) \/ WentMeanwhile(a, v)
    BY <2>1, <2>3 DEF Leave, WentMeanwhile, PodsOK, EventsOK, QueueOK, podVars, queueVars
  <2>4. CASE Rebind(a, v) \/ Unanswered(a, v)
    <3>1. QueueOK'
      BY <2>1, <2>4, QueueBoundsAssumption DEF Rebind, Unanswered, Fault, QueueOK, queueVars
    <3>2. bound' \in [Volumes -> {"no", "yes", "skipped"}] /\ gaveUp' \in [Volumes -> {"no", "told"}]
      BY <2>1, <2>4 DEF Rebind, Unanswered, PodsOK
    <3> QED
      BY <2>1, <2>4, <3>1, <3>2 DEF Rebind, Unanswered, PodsOK, EventsOK
  <2>5. CASE Stopping(a, v)
    BY <2>1, <2>5 DEF Stopping, PodsOK, EventsOK, QueueOK, queueVars
  <2>6. CASE \E c \in Counted(v) : /\ restart' = [restart EXCEPT ![v] = c]
                                   /\ GivesUp(a, v) \/ AwaitsRestart(a, v) \/ Release(a, v)
    <3>1. restart' \in [Volumes -> {"new", "counted", "due", "gaveUp"}]
      <4>1. Counted(v) \subseteq {"new", "counted", "due", "gaveUp"}
        BY <2>1 DEF Counted, PodsOK
      <4> QED
        BY <2>1, <2>6, <4>1 DEF PodsOK
    <3>2. CASE GivesUp(a, v) \/ AwaitsRestart(a, v)
      BY <2>1, <3>1, <3>2 DEF GivesUp, AwaitsRestart, PodsOK, EventsOK, QueueOK, queueVars
    <3>3. CASE Release(a, v)
      <4>1. QueueOK'
        BY <2>1, <3>3, QueueBoundsAssumption DEF Release, Fault, QueueOK, queueVars
      <4>2. CASE Goes(v)
        <5>1. pod' \in [Volumes -> Seen] /\ events' \in [Volumes -> Seq(Seen)]
          BY <2>1, <4>2, SeenTypes, TypeOfChange DEF Goes
        <5> QED
          BY <2>1, <3>1, <3>3, <4>1, <4>2, <5>1 DEF Release, Goes, PodsOK, EventsOK
      <4>3. CASE ~ Goes(v)
        BY <2>1, <3>1, <3>3, <4>1, <4>3 DEF Release, PodsOK, EventsOK
      <4> QED
        BY <4>2, <4>3
    <3> QED
      BY <2>6, <3>2, <3>3
  <2>7. CASE Change(v, NewPod) /\ Create(a)
    <3>1. pod' \in [Volumes -> Seen] /\ events' \in [Volumes -> Seq(Seen)]
      BY <2>1, <2>7, SeenTypes, TypeOfChange
    <3>2. CASE Fails(a)
      BY <2>2, <3>2
    <3>3. CASE ~ Fails(a)
      <4>1. QueueOK'
        BY <2>1, <2>7, <3>3, QueueBoundsAssumption DEF Create, Fault, QueueOK, queueVars
      <4>2. restart' = [restart EXCEPT ![v] = "new"] /\ UNCHANGED <<stuck, loose, bound>>
            /\ gaveUp' \in {gaveUp, [gaveUp EXCEPT ![v] = "no"]}
        BY <2>7, <3>3 DEF Create, v
      <4> QED
        BY <2>1, <3>1, <4>1, <4>2 DEF PodsOK, EventsOK
    <3> QED
      BY <3>2, <3>3
  <2> QED
    <3>1. CASE Act(a)
      BY <2>2, <2>3, <2>4, <2>5, <2>6, <3>1 DEF Act, Reensure, v
    <3>2. CASE Create(a)
      BY <2>2, <2>7, <3>2 DEF Create, v
    <3> QED
      BY <1>2, <3>1, <3>2
<1> QED
  BY <1>1, <1>2 DEF Repairs

LEMMA TypeInit == Init => TypeInv
<1> SUFFICES ASSUME Init PROVE TypeInv
  OBVIOUS
<1>1. Idle \in Jobs /\ job = [a \in Actors |-> Idle] /\ Workers \subseteq Actors
  BY DEF Jobs, Idle, Init, Actors
<1>2. JobsOK /\ TakenOK
  BY <1>1 DEF JobsOK, TakenOK, Init
<1>3. QueueOK
  BY QueueBoundsAssumption DEF QueueOK, Init
<1>4. PodsOK
  BY DEF PodsOK, Init, Seen
<1>5. EventsOK
  <2>1. \A v \in Volumes : <<pod[v]>> \in Seq(Seen)
    BY <1>4 DEF PodsOK
  <2> QED
    BY <2>1, SeenTypes DEF EventsOK, Init
<1> QED
  BY <1>2, <1>3, <1>4, <1>5 DEF TypeInv

LEMMA TypeStep == TypeInv /\ [Next]_vars => TypeInv'
<1> SUFFICES ASSUME TypeInv, [Next]_vars PROVE TypeInv'
  OBVIOUS
<1> USE DEF TypeInv
<1>1. CASE \E v \in Volumes : Outside(v)
  BY <1>1, TypeOutside DEF TakenOK, JobsOK
<1>2. CASE \E v \in Volumes : Deliver(v) \/ Relist(v)
  BY <1>2, TypeOfEvents DEF TakenOK, JobsOK
<1>3. CASE \E v \in Volumes : Timer(v)
  <2>1. UNCHANGED <<job, taken>>
    BY <1>3 DEF Timer
  <2>2. PodsOK' /\ EventsOK' /\ QueueOK'
    BY <1>3, TypeOfQueue
  <2> QED
    BY <2>1, <2>2 DEF TakenOK, JobsOK
<1>4. CASE \E v \in Volumes : BeginRound(v)
  BY <1>4, TypeOfQueue, BeginRoundJobs
<1>5. CASE \E v \in Volumes : \E w \in Workers : Take(w, v)
  BY <1>5, TypeOfQueue, TakeJobs
<1>6. CASE \E w \in Workers : Finish(w)
  BY <1>6, TypeOfQueue, FinishJobs
<1>7. CASE \E a \in Actors : Repairs(a)
  BY <1>7, TypeOfAct, ActGoesOn, GoesOnJobs
<1>8. CASE UNCHANGED vars
  BY <1>8 DEF vars, podVars, queueVars, PodsOK, EventsOK, QueueOK, TakenOK, JobsOK
<1> QED
  BY <1>1, <1>2, <1>3, <1>4, <1>5, <1>6, <1>7, <1>8 DEF Next, Outside

(* Type correctness of the watch and the queue; a volume that is taken is  *)
(* with one worker, which will put it back.                                *)
THEOREM TypeCorrect == Spec => []TypeOK
<1>1. TypeInv => TypeOK
  BY DEF TypeInv, PodsOK, EventsOK, QueueOK, TakenOK, JobsOK, TypeOK, Jobs, Seen
<1> QED
  BY <1>1, TypeInit, TypeStep, PTL DEF Spec

-----------------------------------------------------------------------------
(* The repairs and the events that will have a pod looked at as it is.     *)

(* What the informer knows and its events end with the pod as it is.       *)
Current(v) ==
  /\ Len(events[v]) = 0 => cached[v] = pod[v]
  /\ Len(events[v]) # 0 => events[v][Len(events[v])] = pod[v]

Before(v, i) == IF i = 1 THEN cached[v] ELSE events[v][i - 1]

(* An event that the informer will put in the queue.                       *)
ToldBy(v, i) == i \in 1..Len(events[v]) /\ Matters(Before(v, i), events[v][i])

Told(v) == \E i \in Nat : ToldBy(v, i)

(* The repair j of v has yet to look, saw its pod in phase d, or puts the  *)
(* volume back.                                                            *)
Sees(j, v, d) == j.vol = v /\ (j.pc \in {"lock", "failed", "later"} \/ (j.pc = "act" /\ j.seen = d))

Acted == {"dead", "ready"}

Queued(v) == v \in dirty \/ delayed[v] # "no" \/ v \in missed

Noticed(v, d) == Queued(v) \/ Told(v) \/ \E w \in Workers : Sees(job[w], v, d)

Unbound(v) == pod[v].status = "ready" /\ ~ pod[v].deleted /\ bound[v] = "no"

NoticeOf(v) ==
  /\ Current(v)
  /\ Waits(v) => Noticed(v, "dead")
  /\ Unbound(v) => Noticed(v, "ready")

NoticeInv == \A v \in Volumes : NoticeOf(v)

(* A pod that exits, or becomes ready, is a change that matters.           *)
LEMMA ChangeMatters ==
  ASSUME NEW p \in MountPods, NEW s \in {"ready", "exited"}, p.status # s, p.status # "exited"
  PROVE  Matters(p, [p EXCEPT !.status = s])
<1> DEFINE q == [p EXCEPT !.status = s]
<1>1. p.status # "gone" /\ q.status = s /\ s # "gone"
  BY DEF MountPods
<1>2. p # Gone /\ q # Gone
  <2>1. Gone.status = "gone"
    BY DEF Gone, NewPod
  <2> QED
    BY <1>1, <2>1
<1>3. CASE s = "exited"
  <2>1. Signature(p)[2] = (p.status = "exited") /\ Signature(q)[2] = (q.status = "exited")
    BY DEF Signature
  <2>2. (p.status = "exited") # (q.status = "exited")
    BY <1>1, <1>3
  <2>3. Signature(p) # Signature(q)
    BY <2>1, <2>2
  <2> QED
    BY <1>2, <2>3 DEF Matters
<1>4. CASE s = "ready"
  <2>1. Signature(p)[3] = (p.status = "ready") /\ Signature(q)[3] = (q.status = "ready")
    BY DEF Signature
  <2>2. (p.status = "ready") # (q.status = "ready")
    BY <1>1, <1>4
  <2>3. Signature(p) # Signature(q)
    BY <2>1, <2>2
  <2> QED
    BY <1>2, <2>3 DEF Matters
<1> QED
  BY <1>3, <1>4

(* A change is the last event, after those that were there.                *)
LEMMA ChangeIsEvent ==
  ASSUME PodsOK, EventsOK, NEW v \in Volumes, NEW p \in Seen, Current(v), cached' = cached,
         pod' = [pod EXCEPT ![v] = p], events' = [events EXCEPT ![v] = Append(events[v], p)]
  PROVE  /\ Current(v)'
         /\ Told(v) => Told(v)'
         /\ Matters(pod[v], p) => Told(v)'
<1> DEFINE e == events[v]  f == Append(e, p)
<1> PICK n \in Nat : n = Len(e)
  BY DEF EventsOK
<1>1. e \in Seq(Seen) /\ n = Len(e) /\ events'[v] = f /\ pod'[v] = p
  BY DEF PodsOK, EventsOK
<1>2. f \in Seq(Seen) /\ Len(f) = n + 1 /\ f[n + 1] = p /\ \A i \in 1..n : f[i] = e[i]
  BY <1>1
<1> HIDE DEF f
<1>3. Current(v)'
  <2>1. Len(f) # 0
    BY <1>1, <1>2
  <2> QED
    BY <1>1, <1>2, <2>1 DEF Current
<1>4. ASSUME NEW i \in 1..n PROVE Before(v, i)' = Before(v, i) /\ f[i] = e[i]
  <2>1. i = 1 \/ (i # 1 /\ i - 1 \in 1..n)
    BY <1>1
  <2> QED
    BY <1>1, <1>2, <2>1 DEF Before
<1>5. ASSUME Told(v) PROVE Told(v)'
  <2>1. PICK i \in Nat : ToldBy(v, i)
    BY <1>5 DEF Told
  <2>2. i \in 1..n /\ i \in 1..Len(f)
    BY <1>1, <1>2, <2>1 DEF ToldBy
  <2>3. ToldBy(v, i)'
    BY <1>1, <1>4, <2>1, <2>2 DEF ToldBy
  <2> QED
    BY <2>1, <2>3 DEF Told
<1>6. ASSUME Matters(pod[v], p) PROVE Told(v)'
  <2>1. Before(v, n + 1)' = pod[v]
    <3>1. CASE n = 0
      <4>1. n + 1 = 1
        BY <3>1
      <4>2. Before(v, n + 1)' = cached'[v]
        BY <4>1, Zenon DEF Before
      <4> QED
        BY <3>1, <4>2, Zenon DEF Current
    <3>2. CASE n > 0
      <4>1. n # 0 /\ n \in 1..n /\ n + 1 # 1 /\ (n + 1) - 1 = n
        BY <1>1, <3>2
      <4>2. Before(v, n + 1)' = f[n]
        BY <1>1, <4>1, Zenon DEF Before
      <4>3. f[n] = e[n] /\ e[n] = pod[v]
        BY <1>2, <4>1, Zenon DEF Current
      <4> QED
        BY <4>2, <4>3
    <3> QED
      BY <1>1, <3>1, <3>2
  <2>2. n + 1 \in 1..Len(f) /\ n + 1 \in Nat
    BY <1>1, <1>2
  <2>3. ToldBy(v, n + 1)'
    BY <1>1, <1>2, <1>6, <2>1, <2>2 DEF ToldBy
  <2> QED
    BY <2>2, <2>3 DEF Told
<1> QED
  BY <1>3, <1>5, <1>6

(* An event is put in the queue if it matters, and the others move up.     *)
LEMMA DeliverTells ==
  ASSUME PodsOK, EventsOK, NEW v \in Volumes, Current(v), Deliver(v)
  PROVE  Current(v)' /\ (Told(v) => v \in dirty' \/ Told(v)')
<1> DEFINE e == events[v]  n == Len(e)  f == Tail(e)
<1>1. e \in Seq(Seen) /\ n \in Nat /\ n # 0 /\ events'[v] = f /\ cached'[v] = e[1] /\ pod' = pod
  BY DEF Deliver, EventsOK, podVars
<1>2. f \in Seq(Seen) /\ Len(f) = n - 1 /\ \A i \in 1..(n - 1) : f[i] = e[i + 1]
  BY <1>1
<1>3. Current(v)'
  <2>1. CASE n = 1
    <3>1. Len(f) = 0 /\ e[n] = e[1]
      BY <1>2, <2>1
    <3>2. e[n] = pod[v]
      BY <1>1, Zenon DEF Current
    <3> QED
      BY <1>1, <3>1, <3>2 DEF Current
  <2>2. CASE n # 1
    <3>1. Len(f) # 0 /\ Len(f) \in 1..(n - 1) /\ Len(f) + 1 = n
      <4> HIDE DEF f, n
      <4> QED
        BY <1>1, <1>2, <2>2
    <3>2. f[Len(f)] = e[n]
      BY <1>2, <3>1
    <3>3. e[n] = pod[v]
      BY <1>1, Zenon DEF Current
    <3> HIDE DEF f
    <3> QED
      BY <1>1, <3>1, <3>2, <3>3 DEF Current
  <2> QED
    BY <2>1, <2>2
<1>4. ASSUME Told(v), v \notin dirty' PROVE Told(v)'
  <2>1. PICK i \in Nat : ToldBy(v, i)
    BY <1>4 DEF Told
  <2>2. i \in 1..n
    BY <2>1 DEF ToldBy
  <2>3. i # 1
    BY <1>1, <1>4, <2>1 DEF Deliver, ToldBy, Before
  <2> DEFINE k == i - 1
  <2>4. k \in Nat /\ k \in 1..(n - 1) /\ k + 1 = i /\ f[k] = e[i]
    BY <1>1, <1>2, <2>2, <2>3
  <2>5. Before(v, k)' = Before(v, i)
    <3>1. CASE k = 1
      <4>1. i = 2 /\ i - 1 = 1
        BY <2>4, <3>1
      <4> QED
        BY <1>1, <2>3, <3>1, <4>1 DEF Before
    <3>2. CASE k # 1
      <4>1. k - 1 \in 1..(n - 1) /\ (k - 1) + 1 = i - 1
        BY <2>2, <2>4, <3>2
      <4>2. f[k - 1] = e[i - 1]
        BY <1>2, <4>1
      <4>3. Before(v, i) = e[i - 1]
        BY <2>3 DEF Before
      <4>4. Before(v, k)' = f[k - 1]
        BY <1>1, <3>2, Zenon DEF Before
      <4> QED
        BY <4>2, <4>3, <4>4
    <3> QED
      BY <3>1, <3>2
  <2> HIDE DEF k
  <2>6. ToldBy(v, k)'
    BY <1>1, <1>2, <2>1, <2>4, <2>5 DEF ToldBy
  <2> QED
    BY <2>4, <2>6 DEF Told
<1> QED
  BY <1>3, <1>4

-----------------------------------------------------------------------------
(* The notice of a volume that a step leaves alone.                        *)
LEMMA NoticeKept ==
  ASSUME NEW q \in Volumes, NoticeOf(q),
         UNCHANGED <<pod[q], bound[q], restart[q], cached[q], events[q]>>,
         Queued(q) => Noticed(q, "dead")' /\ Noticed(q, "ready")',
         \A w \in Workers, d \in Acted : Sees(job[w], q, d) => Noticed(q, d)'
  PROVE  NoticeOf(q)'
<1>1. Current(q)'
  BY DEF NoticeOf, Current
<1>2. \A i : Before(q, i)' = Before(q, i)
  BY DEF Before
<1>3. \A i : ToldBy(q, i) => ToldBy(q, i)'
  BY <1>2 DEF ToldBy
<1>4. Told(q) => Told(q)'
  BY <1>3 DEF Told
<1>5. \A d \in Acted : Noticed(q, d) => Noticed(q, d)'
  <2> TAKE d \in Acted
  <2>1. CASE Told(q)
    BY <1>4, <2>1 DEF Noticed
  <2>2. CASE Queued(q)
    BY <2>2 DEF Acted
  <2>3. CASE \E w \in Workers : Sees(job[w], q, d)
    BY <2>3
  <2> QED
    BY <2>1, <2>2, <2>3 DEF Noticed
<1>6. Waits(q)' = Waits(q) /\ Unbound(q)' = Unbound(q)
  BY DEF Waits, Unbound
<1> QED
  BY <1>1, <1>5, <1>6 DEF NoticeOf, Acted

(* ... as most steps that leave its pod, its events and its repairs alone. *)
LEMMA ElsewhereKept ==
  ASSUME NEW q \in Volumes, NoticeOf(q),
         UNCHANGED <<pod[q], bound[q], restart[q], cached[q], events[q], delayed[q]>>,
         q \in dirty => q \in dirty', q \in missed => q \in missed',
         \A w \in Workers, d \in Acted : Sees(job[w], q, d) => Sees(job'[w], q, d)
  PROVE  NoticeOf(q)'
<1>1. Queued(q) => Queued(q)'
  BY DEF Queued
<1>2. Queued(q) => Noticed(q, "dead")' /\ Noticed(q, "ready")'
  BY <1>1 DEF Noticed
<1>3. \A w \in Workers, d \in Acted : Sees(job[w], q, d) => Noticed(q, d)'
  BY DEF Noticed
<1> QED
  BY <1>2, <1>3, NoticeKept

(* A pod that is gone, or new, is not one that waits for a repair.         *)
LEMMA NoticeOfNew ==
  ASSUME PodsOK, EventsOK, NEW v \in Volumes, Current(v), UNCHANGED cached,
         Change(v, Gone) \/ Change(v, NewPod)
  PROVE  NoticeOf(v)'
<1>1. PICK p \in {Gone, NewPod} : Change(v, p)
  OBVIOUS
<1>2. p \in Seen /\ p.status \notin {"exited", "ready"}
  <2>1. NewPod.status = "starting" /\ Gone.status = "gone"
    BY DEF Gone, NewPod
  <2> QED
    BY <1>1, <2>1, SeenTypes
<1>3. Current(v)' /\ pod'[v] = p
  BY <1>1, <1>2, ChangeIsEvent DEF Change, PodsOK
<1>4. ~ Waits(v)' /\ ~ Unbound(v)'
  BY <1>2, <1>3 DEF Waits, Unbound
<1> QED
  BY <1>3, <1>4 DEF NoticeOf

LEMMA NoticeOfOutside ==
  ASSUME PodsOK, EventsOK, NoticeInv, NEW v \in Volumes, NEW q \in Volumes, Outside(v)
  PROVE  NoticeOf(q)'
<1>1. NoticeOf(q) /\ NoticeOf(v) /\ Current(v)
  BY DEF NoticeInv, NoticeOf
<1>2. /\ UNCHANGED <<cached, dirty, delayed, missed, job>>
      /\ \A x \in Volumes : x # v => UNCHANGED <<pod[x], bound[x], restart[x], events[x]>>
  BY DEF Outside, PodReady, PodExits, DeletedByHand, StuckAfter, RestartTime, KubeletConfirms, Goes, Change,
         outside, queueVars, PodsOK, EventsOK
<1>3. CASE q # v
  BY <1>1, <1>2, <1>3, ElsewhereKept
<1>4. CASE q = v /\ (PodReady(v) \/ PodExits(v) \/ DeletedByHand(v))
  <2>1. PICK p \in MountPods : Change(v, p) /\ (p.deleted \/ Matters(pod[v], p))
    <3>1. pod[v] \in Seen
      BY DEF PodsOK
    <3>2. CASE PodReady(v)
      BY <3>1, <3>2, ChangeMatters, SeenTypes DEF PodReady
    <3>3. CASE PodExits(v)
      <4> DEFINE p == [pod[v] EXCEPT !.status = "exited"]
      <4>1. pod[v] \in MountPods
        BY <3>1, <3>3, SeenTypes DEF PodExits
      <4>2. p \in MountPods /\ Matters(pod[v], p) /\ Change(v, p)
        BY <3>3, <4>1, ChangeMatters, SeenTypes DEF PodExits
      <4> HIDE DEF p
      <4> QED
        BY <4>2
    <3>4. CASE DeletedByHand(v)
      <4> DEFINE p == [pod[v] EXCEPT !.deleted = TRUE]
      <4>1. pod[v] \in MountPods
        BY <3>1, <3>4, SeenTypes DEF DeletedByHand
      <4>2. p \in MountPods /\ p.deleted /\ Change(v, p)
        BY <3>4, <4>1, SeenTypes DEF DeletedByHand, MountPods
      <4> HIDE DEF p
      <4> QED
        BY <4>2
    <3> QED
      BY <1>4, <3>2, <3>3, <3>4
  <2>2. p \in Seen /\ pod'[v] = p
    BY <2>1 DEF Change, PodsOK, Seen
  <2>3. Current(v)' /\ (Matters(pod[v], p) => Told(v)')
    BY <1>1, <1>2, <2>1, <2>2, ChangeIsEvent DEF Change
  <2>4. CASE p.deleted
    <3>1. ~ Waits(v)' /\ ~ Unbound(v)'
      BY <2>2, <2>4 DEF Waits, Unbound
    <3> QED
      BY <1>4, <2>3, <3>1 DEF NoticeOf
  <2>5. CASE Matters(pod[v], p)
    <3>1. Noticed(v, "dead")' /\ Noticed(v, "ready")'
      BY <2>3, <2>5 DEF Noticed
    <3> QED
      BY <1>4, <2>3, <3>1 DEF NoticeOf
  <2> QED
    BY <2>1, <2>4, <2>5
<1>5. CASE q = v /\ StuckAfter(v)
  BY <1>1, <1>2, <1>5, ElsewhereKept DEF StuckAfter
<1>6. CASE q = v /\ RestartTime(v)
  <2>1. restart[v] = "counted" /\ UNCHANGED <<pod, bound, events>>
    BY <1>6 DEF RestartTime
  <2>2. Noticed(v, "dead")' = Noticed(v, "dead") /\ Noticed(v, "ready")' = Noticed(v, "ready")
    BY <1>2, <2>1 DEF Noticed, Queued, Told, ToldBy, Before
  <2>3. Current(v)' = Current(v) /\ (Waits(v)' => Waits(v)) /\ Unbound(v)' = Unbound(v)
    BY <1>2, <2>1 DEF Current, Waits, Unbound
  <2> QED
    BY <1>1, <1>6, <2>2, <2>3 DEF NoticeOf
<1>7. CASE q = v /\ KubeletConfirms(v)
  BY <1>1, <1>2, <1>7, NoticeOfNew DEF KubeletConfirms, Goes
<1> QED
  BY <1>3, <1>4, <1>5, <1>6, <1>7 DEF Outside

LEMMA NoticeOfEvents ==
  ASSUME PodsOK, EventsOK, NoticeInv, NEW v \in Volumes, NEW q \in Volumes, Deliver(v) \/ Relist(v)
  PROVE  NoticeOf(q)'
<1>1. NoticeOf(q) /\ NoticeOf(v)
  BY DEF NoticeInv
<1>2. /\ UNCHANGED <<pod, bound, restart, delayed, job>> /\ dirty \subseteq dirty' /\ missed \subseteq missed'
      /\ \A x \in Volumes : x # v => UNCHANGED <<cached[x], events[x]>>
  BY DEF Deliver, Relist, podVars, queueVars, EventsOK
<1>3. CASE q # v
  BY <1>1, <1>2, <1>3, ElsewhereKept
<1>4. Waits(v)' = Waits(v) /\ Unbound(v)' = Unbound(v)
  BY <1>2 DEF Waits, Unbound
<1>5. CASE q = v /\ Deliver(v)
  <2>1. Current(v)' /\ (Told(v) => v \in dirty' \/ Told(v)')
    BY <1>1, <1>5, DeliverTells DEF NoticeOf
  <2>2. \A d : Noticed(v, d) => Noticed(v, d)'
    BY <1>2, <2>1 DEF Noticed, Queued
  <2> QED
    BY <1>1, <1>2, <1>4, <1>5, <2>1, <2>2 DEF NoticeOf
<1>6. CASE q = v /\ Relist(v)
  <2>1. events'[v] = <<pod[v]>> /\ v \in missed'
    BY <1>6 DEF Relist, EventsOK
  <2>2. Current(v)'
    BY <1>2, <2>1 DEF Current
  <2>3. \A d : Noticed(v, d)'
    BY <2>1 DEF Noticed, Queued
  <2> QED
    BY <1>1, <1>2, <1>4, <1>6, <2>2, <2>3 DEF NoticeOf
<1> QED
  BY <1>3, <1>5, <1>6

LEMMA NoticeOfTaken ==
  ASSUME QueueOK, JobsOK, NoticeInv, NEW w \in Workers, NEW v \in Volumes, Take(w, v), NEW q \in Volumes
  PROVE  NoticeOf(q)'
<1>1. NoticeOf(q) /\ w \in Actors /\ job[w] = Idle
  BY DEF NoticeInv, Take, Actors
<1>2. /\ UNCHANGED <<podVars, cached, events, delayed, missed>> /\ dirty' = dirty \ {v}
      /\ job'[w] = [vol |-> v, pc |-> "lock", seen |-> "none"]
      /\ \A x \in Workers : x # w => job'[x] = job[x]
  BY <1>1 DEF Take, JobsOK, Actors
<1>3. \A x \in Workers, d \in Acted : Sees(job[x], q, d) => Sees(job'[x], q, d)
  BY <1>1, <1>2 DEF Sees, Idle
<1>4. CASE q # v
  BY <1>1, <1>2, <1>3, <1>4, ElsewhereKept DEF podVars
<1>5. CASE q = v
  <2>1. \A d : Sees(job'[w], v, d)
    BY <1>2 DEF Sees
  <2>2. \A d : Noticed(v, d)'
    BY <2>1 DEF Noticed
  <2> QED
    BY <1>1, <1>2, <1>5, <2>2, NoticeKept DEF podVars
<1> QED
  BY <1>4, <1>5

LEMMA NoticeOfFinish ==
  ASSUME QueueOK, JobsOK, NoticeInv, NEW w \in Workers, Finish(w), NEW q \in Volumes
  PROVE  NoticeOf(q)'
<1> DEFINE v == job[w].vol
<1>1. NoticeOf(q) /\ w \in Actors /\ job[w] # Idle /\ v \in Volumes
  BY DEF NoticeInv, Finish, Actors, JobsOK, Idle
<1>2. /\ UNCHANGED <<podVars, cached, events, dirty, missed>>
      /\ \A x \in Workers : x # w => job'[x] = job[x]
  BY <1>1 DEF Finish, JobsOK, Actors
<1>3. /\ \A x \in Volumes : x # v => delayed'[x] = delayed[x]
      /\ delayed[v] # "no" => delayed'[v] # "no"
      /\ job[w].pc \in {"failed", "later"} => delayed'[v] # "no"
  BY <1>1 DEF Finish, Delay, QueueOK
<1>4. job[w].pc \in {"failed", "later", "done"}
  BY DEF Finish
<1>5. Queued(q) => Queued(q)'
  BY <1>2, <1>3 DEF Queued
<1>6. ASSUME NEW x \in Workers, NEW d \in Acted, Sees(job[x], q, d) PROVE Noticed(q, d)'
  <2>1. CASE x = w
    BY <1>3, <1>4, <1>6, <2>1 DEF Sees, Noticed, Queued
  <2>2. CASE x # w
    BY <1>2, <1>6, <2>2 DEF Noticed
  <2> QED
    BY <2>1, <2>2
<1> QED
  BY <1>1, <1>2, <1>5, <1>6, NoticeKept DEF podVars, Noticed

LEMMA NoticeOfQueue ==
  ASSUME QueueOK, JobsOK, NoticeInv, NEW v \in Volumes, Timer(v) \/ BeginRound(v), NEW q \in Volumes
  PROVE  NoticeOf(q)'
<1>1. NoticeOf(q) /\ UNCHANGED <<podVars, cached, events, missed>>
  BY DEF NoticeInv, Timer, BeginRound, queueVars
<1>2. \A w \in Workers : job'[w] = job[w]
  BY ActorsAssumption DEF Timer, BeginRound, JobsOK, Actors
<1>3. Queued(q) => Queued(q)'
  BY DEF Queued, Timer, BeginRound, queueVars, QueueOK
<1> QED
  BY <1>1, <1>2, <1>3, NoticeKept DEF podVars, Noticed

LEMMA NoticeOfLook ==
  ASSUME JobsOK, NoticeInv, NEW a \in Actors, Look(a), NEW q \in Volumes
  PROVE  NoticeOf(q)'
<1> PICK v \in Volumes : v = job[a].vol
  BY DEF JobsOK, Idle, Look
<1>1. NoticeOf(q) /\ v \in Volumes /\ UNCHANGED <<podVars, cached, events, queueVars>>
  BY DEF NoticeInv, Look
<1>2. /\ job'[a].vol = v /\ job'[a].pc = "act" /\ job'[a].seen = Phase(pod[v])
      /\ \A x \in Workers : x # a => job'[x] = job[x]
  BY DEF Look, JobsOK, Actors, Jobs
<1>3. \A x \in Volumes : x \in missed => x \in missed' \/ (x = v /\ a \in Workers)
  BY DEF Look
<1>4. CASE a \in Workers /\ q = v
  <2>1. Waits(v)' => Noticed(v, "dead")'
    <3>1. Waits(v)' => Phase(pod[v]) = "dead"
      BY <1>1 DEF Waits, Phase, Gone, NewPod, podVars
    <3> QED
      BY <1>2, <1>4, <3>1 DEF Noticed, Sees
  <2>2. Unbound(v)' => Noticed(v, "ready")'
    <3>1. Unbound(v)' => Phase(pod[v]) = "ready"
      BY <1>1 DEF Unbound, Phase, Gone, NewPod, podVars
    <3> QED
      BY <1>2, <1>4, <3>1 DEF Noticed, Sees
  <2> QED
    BY <1>1, <1>4, <2>1, <2>2 DEF NoticeOf, Current, podVars
<1>5. CASE ~ (a \in Workers /\ q = v)
  <2>1. \A x \in Workers, d \in Acted : Sees(job[x], q, d) => Sees(job'[x], q, d)
    BY <1>2, <1>5 DEF Sees
  <2> QED
    BY <1>1, <1>3, <1>5, <2>1, ElsewhereKept DEF podVars, queueVars
<1> QED
  BY <1>4, <1>5

(* What the end of a repair leaves of it.                                  *)
LEMMA EndLeaves ==
  ASSUME JobsOK, NEW a \in Actors, NEW r, End(a, r)
  PROVE  /\ \A x \in Workers : x # a => job'[x] = job[x]
         /\ a \in Workers => job'[a].vol = job[a].vol /\ job'[a].pc = r
BY DEF End, JobsOK, Actors, Jobs

(* A repair changes the pod of its own volume, and the job of no other.    *)
LEMMA ActElsewhere ==
  ASSUME PodsOK, EventsOK, JobsOK, NEW a \in Actors, NEW v \in Volumes, v = job[a].vol, Act(a) \/ Create(a),
         NEW q \in Volumes, q # v
  PROVE  UNCHANGED <<pod[q], bound[q], restart[q], events[q]>>
<1>1. CASE Create(a)
  BY <1>1 DEF Create, Fails, Change, podVars, PodsOK, EventsOK
<1>2. CASE Fails(a) \/ Leave(a, v) \/ Rebind(a, v) \/ Unanswered(a, v) \/ Stopping(a, v) \/ WentMeanwhile(a, v)
  BY <1>2 DEF Fails, Leave, Rebind, Unanswered, Stopping, WentMeanwhile, podVars, PodsOK
<1>3. CASE \E c \in Counted(v) : /\ restart' = [restart EXCEPT ![v] = c]
                                 /\ GivesUp(a, v) \/ AwaitsRestart(a, v) \/ Release(a, v)
  <2>1. restart'[q] = restart[q]
    BY <1>3 DEF PodsOK
  <2>2. UNCHANGED <<pod[q], bound[q], events[q]>>
    BY <1>3 DEF GivesUp, AwaitsRestart, Release, Goes, Change, PodsOK, EventsOK
  <2> QED
    BY <2>1, <2>2
<1> QED
  BY <1>1, <1>2, <1>3 DEF Act, Reensure

LEMMA ActJobs ==
  ASSUME JobsOK, NEW a \in Actors, Act(a) \/ Create(a), NEW x \in Workers, x # a
  PROVE  job'[x] = job[x]
BY DEF Act, Create, Fails, Leave, Rebind, Unanswered, Reensure, Stopping, WentMeanwhile, GivesUp, AwaitsRestart,
       Release, End, JobsOK, Actors

(* A repair that fails, or that is to come back, leaves every notice; one  *)
(* that did nothing leaves those of another phase.                         *)
LEMMA NoticeEnds ==
  ASSUME JobsOK, NEW a \in Actors, NEW v \in Volumes, v = job[a].vol, Act(a) \/ Create(a),
         UNCHANGED <<cached, queueVars, missed, events>>, NEW d \in Acted, Noticed(v, d),
         \/ job[a].pc = "create"
         \/ job[a].seen # d
         \/ \E r \in {"failed", "later"} : End(a, r)
  PROVE  Noticed(v, d)'
<1>1. Told(v) => Told(v)'
  BY DEF Told, ToldBy, Before
<1>2. Queued(v)' = Queued(v)
  BY DEF Queued, queueVars
<1>3. job[a].pc \in {"act", "create"}
  BY DEF Act, Create
<1>4. \A w \in Workers : Sees(job[w], v, d) => Sees(job'[w], v, d)
  <2> TAKE w \in Workers
  <2>1. CASE w # a
    BY <2>1, ActJobs
  <2>2. CASE w = a /\ \E r \in {"failed", "later"} : End(a, r)
    BY <2>2, EndLeaves DEF Sees
  <2>3. CASE w = a /\ (job[a].pc = "create" \/ job[a].seen # d)
    BY <1>3, <2>3 DEF Sees
  <2> QED
    BY <2>1, <2>2, <2>3
<1> QED
  BY <1>1, <1>2, <1>4 DEF Noticed

(* What Act or Create does to the notice of its own volume.                *)
LEMMA NoticeOfOwn ==
  ASSUME PodsOK, EventsOK, JobsOK, NEW a \in Actors, NEW v \in Volumes, v = job[a].vol, NoticeOf(v),
         Act(a) \/ Create(a)
  PROVE  NoticeOf(v)'
<1>1. Current(v) /\ UNCHANGED <<cached, queueVars, missed>> /\ job[a].pc \in {"act", "create"}
  BY DEF NoticeOf, Act, Create
<1>2. ASSUME UNCHANGED <<pod, events>> PROVE Current(v)'
  BY <1>1, <1>2 DEF Current
<1>3. CASE Fails(a)
  <2>1. UNCHANGED <<podVars, events>> /\ End(a, "failed")
    BY <1>3 DEF Fails
  <2>2. \A d \in Acted : Noticed(v, d) => Noticed(v, d)'
    BY <1>1, <2>1, NoticeEnds
  <2>3. Waits(v)' = Waits(v) /\ Unbound(v)' = Unbound(v)
    BY <2>1 DEF Waits, Unbound, podVars
  <2> QED
    BY <1>2, <2>1, <2>2, <2>3 DEF NoticeOf, podVars, Acted
<1>4. CASE Change(v, Gone) \/ Change(v, NewPod)
  BY <1>1, <1>4, NoticeOfNew
<1>5. CASE Leave(a, v) /\ job[a].pc = "act"
  <2>1. UNCHANGED <<podVars, events>> /\ job[a].seen # "dead" /\ (job[a].seen = "ready" => ~ Unbound(v))
    BY <1>5 DEF Leave, Unbound
  <2>2. \A d \in Acted : job[a].seen # d /\ Noticed(v, d) => Noticed(v, d)'
    BY <1>1, <2>1, NoticeEnds
  <2>3. Waits(v)' = Waits(v) /\ Unbound(v)' = Unbound(v)
    BY <2>1 DEF Waits, Unbound, podVars
  <2> QED
    BY <1>2, <2>1, <2>2, <2>3 DEF NoticeOf, podVars, Acted
<1>6. CASE (Rebind(a, v) \/ Unanswered(a, v)) /\ job[a].pc = "act"
  <2>1. UNCHANGED <<pod, restart, events>> /\ pod[v].status = "ready"
    BY <1>6 DEF Rebind, Unanswered
  <2>2. ~ Waits(v)'
    BY <2>1 DEF Waits
  <2>3. Unbound(v)' => Unbound(v) /\ End(a, "failed")
    <3>1. CASE Rebind(a, v)
      BY <3>1 DEF Rebind, Unbound, PodsOK
    <3>2. CASE Unanswered(a, v)
      BY <3>2 DEF Unanswered, Unbound, PodsOK
    <3> QED
      BY <1>6, <3>1, <3>2
  <2>4. End(a, "failed") /\ Noticed(v, "ready") => Noticed(v, "ready")'
    BY <1>1, <2>1, NoticeEnds DEF Acted
  <2> QED
    BY <1>2, <2>1, <2>2, <2>3, <2>4 DEF NoticeOf
<1>7. CASE Stopping(a, v) /\ job[a].seen = "dead"
  <2>1. UNCHANGED <<pod, bound, events>> /\ pod[v].status # "exited"
    BY <1>7 DEF Stopping, Finished
  <2>2. ~ Waits(v)' /\ Unbound(v)' = Unbound(v)
    BY <2>1 DEF Waits, Unbound
  <2>3. Noticed(v, "ready") => Noticed(v, "ready")'
    BY <1>1, <1>7, <2>1, NoticeEnds DEF Acted
  <2> QED
    BY <1>2, <2>1, <2>2, <2>3 DEF NoticeOf
<1>8. CASE WentMeanwhile(a, v)
  <2>1. UNCHANGED <<podVars, events>> /\ pod[v].status = "gone"
    BY <1>8 DEF WentMeanwhile, Gone, NewPod
  <2>2. ~ Waits(v)' /\ ~ Unbound(v)'
    BY <2>1 DEF Waits, Unbound, podVars
  <2> QED
    BY <1>2, <2>1, <2>2 DEF NoticeOf, podVars
<1>9. ASSUME NEW c \in Counted(v), restart' = [restart EXCEPT ![v] = c], job[a].seen = "dead",
             GivesUp(a, v) \/ AwaitsRestart(a, v) \/ Release(a, v), ~ Goes(v)
      PROVE  NoticeOf(v)'
  <2>1. UNCHANGED <<pod, bound, events>>
    BY <1>9 DEF GivesUp, AwaitsRestart, Release
  <2>2. Unbound(v)' = Unbound(v) /\ (Noticed(v, "ready") => Noticed(v, "ready")')
    BY <1>1, <1>9, <2>1, NoticeEnds DEF Unbound, Acted
  <2>3. ASSUME Waits(v)' PROVE Noticed(v, "dead")'
    <3>1. pod[v].status = "exited" /\ ~ pod[v].deleted /\ c # "gaveUp"
      BY <1>9, <2>1, <2>3 DEF Waits, PodsOK
    <3>2. Waits(v)
      BY <3>1 DEF Counted, Waits
    <3>3. End(a, "later") \/ End(a, "failed")
      <4>1. CASE GivesUp(a, v)
        BY <1>9, <3>1, <4>1 DEF GivesUp, PodsOK
      <4>2. CASE AwaitsRestart(a, v)
        BY <3>1, <4>2 DEF AwaitsRestart, Later
      <4>3. CASE Release(a, v)
        BY <1>9, <4>3 DEF Release
      <4> QED
        BY <1>9, <4>1, <4>2, <4>3
    <3>4. Noticed(v, "dead")
      BY <3>2 DEF NoticeOf
    <3> QED
      BY <1>1, <2>1, <3>3, <3>4, NoticeEnds DEF Acted
  <2> QED
    BY <1>2, <2>1, <2>2, <2>3 DEF NoticeOf
<1> QED
  <2>1. CASE Act(a)
    BY <1>3, <1>4, <1>5, <1>6, <1>7, <1>8, <1>9, <2>1 DEF Act, Reensure, Goes
  <2>2. CASE Create(a)
    BY <1>3, <1>4, <2>2 DEF Create
  <2> QED
    BY <2>1, <2>2

LEMMA NoticeOfAct ==
  ASSUME PodsOK, EventsOK, JobsOK, NoticeInv, NEW a \in Actors, Act(a) \/ Create(a), NEW q \in Volumes
  PROVE  NoticeOf(q)'
<1> PICK v \in Volumes : v = job[a].vol
  BY DEF JobsOK, Idle, Act, Create
<1>1. NoticeOf(q) /\ UNCHANGED <<cached, queueVars, missed>> /\ NoticeOf(v)
  BY DEF NoticeInv, Act, Create
<1>2. CASE q # v
  <2>1. UNCHANGED <<pod[q], bound[q], restart[q], events[q]>>
    BY <1>2, ActElsewhere
  <2>2. \A x \in Workers, d \in Acted : Sees(job[x], q, d) => Sees(job'[x], q, d)
    BY <1>2, ActJobs DEF Sees
  <2> QED
    BY <1>1, <2>1, <2>2, ElsewhereKept DEF queueVars
<1> QED
  BY <1>1, <1>2, NoticeOfOwn

-----------------------------------------------------------------------------
LEMMA NoticeInit == Init => NoticeInv
<1> SUFFICES ASSUME Init, NEW v \in Volumes PROVE NoticeOf(v)
  BY DEF NoticeInv
<1>1. /\ pod[v] \in MountPods /\ events[v] = <<pod[v]>> /\ cached[v] = Gone
      /\ bound[v] = IF pod[v].status = "ready" THEN "yes" ELSE "no"
  BY DEF Init
<1>2. Current(v) /\ ~ Unbound(v)
  BY <1>1 DEF Current, Unbound
<1>3. ASSUME Waits(v) PROVE Told(v)
  <2>1. Len(events[v]) = 1 /\ events[v][1] = pod[v] /\ Before(v, 1) = Gone
    BY <1>1 DEF Before
  <2>2. Matters(Gone, pod[v])
    BY <1>1, <1>3 DEF Waits, Matters, MountPods, Gone, NewPod
  <2>3. ToldBy(v, 1)
    BY <2>1, <2>2 DEF ToldBy
  <2> QED
    BY <2>3 DEF Told
<1> QED
  BY <1>1, <1>2, <1>3 DEF NoticeOf, Noticed

LEMMA NoticeStep == TypeInv /\ NoticeInv /\ [Next]_vars => NoticeInv'
<1> SUFFICES ASSUME TypeInv, NoticeInv, [Next]_vars, NEW q \in Volumes PROVE NoticeOf(q)'
  BY DEF NoticeInv
<1> USE DEF TypeInv
<1>1. CASE \E v \in Volumes : Outside(v)
  BY <1>1, NoticeOfOutside
<1>2. CASE \E v \in Volumes : Deliver(v) \/ Relist(v)
  BY <1>2, NoticeOfEvents
<1>3. CASE \E v \in Volumes : Timer(v) \/ BeginRound(v)
  BY <1>3, NoticeOfQueue
<1>4. CASE \E v \in Volumes : \E w \in Workers : Take(w, v)
  BY <1>4, NoticeOfTaken
<1>5. CASE \E w \in Workers : Finish(w)
  BY <1>5, NoticeOfFinish
<1>6. CASE \E a \in Actors : Repairs(a)
  BY <1>6, NoticeOfLook, NoticeOfAct DEF Repairs
<1>7. CASE UNCHANGED vars
  <2>1. NoticeOf(q)
    BY DEF NoticeInv
  <2> QED
    BY <1>7, <2>1, ElsewhereKept DEF vars, podVars, queueVars
<1> QED
  BY <1>1, <1>2, <1>3, <1>4, <1>5, <1>6, <1>7 DEF Next, Outside

LEMMA NoticeHolds == Spec => []NoticeInv
<1>1. Spec => []TypeInv
  BY TypeInit, TypeStep, PTL DEF Spec
<1> QED
  BY <1>1, NoticeInit, NoticeStep, PTL DEF Spec

LEMMA NoticedIsPlanned == ASSUME NEW v \in Volumes, NEW d, Noticed(v, d) PROVE Planned(v)
<1>1. Told(v) => events[v] # <<>>
  BY DEF Told, ToldBy
<1> QED
  BY <1>1 DEF Noticed, Queued, Sees, Planned

(* A mount pod that exited is looked at again without waiting for a round, *)
(* whatever repair was under way when it did (repairWorker, watch.go:162), *)
(* with any number of volumes, workers, failures and events under way.     *)
THEOREM ExitedIsPlanned == Spec => []RestartPlanned
<1>1. NoticeInv => RestartPlanned
  BY NoticedIsPlanned DEF NoticeInv, NoticeOf, RestartPlanned
<1> QED
  BY <1>1, NoticeHolds, PTL

(* ... and so is a pod that became ready, whose binds are dead, although a *)
(* repair may have seen it before it was (podSignature, watch.go:126).     *)
THEOREM ReadyIsPlanned == Spec => []RebindPlanned
<1>1. NoticeInv => RebindPlanned
  BY NoticedIsPlanned DEF NoticeInv, NoticeOf, RebindPlanned, Unbound
<1> QED
  BY <1>1, NoticeHolds, PTL
=============================================================================
