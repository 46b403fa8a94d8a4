-------------------------- MODULE NodeVolumeProofs --------------------------
(***************************************************************************)
(* Proofs about NodeVolume, for any configurations, any number of failed   *)
(* requests, timeouts and restarts; the theorems that need fewer of these  *)
(* say so in their hypotheses.                                             *)
(*                                                                         *)
(* First what the outcomes of Ensure and Delete leave of the pod and of    *)
(* its backoff, and type correctness.  Then one inductive invariant for    *)
(* each thing that the properties are about:                               *)
(*   KubeletInv, RecoverInv  what kubelet waits for, and what the recovery *)
(*                           read before it deletes;                       *)
(*   RefusedInv              credentials that were refused;                *)
(*   LossInv, DeletedInv     writes that a pod lost;                       *)
(*   LeftAloneInv            the mark of an unstage.                       *)
(***************************************************************************)
EXTENDS NodeVolume, TLAPS

USE ConfigAssumption, DeletionsAssumption, NodeBoundsAssumption

-----------------------------------------------------------------------------
(* What the calls of the Manager may do. *)

Mounts == {"none", "live", "dead"}

Outcomes ==
  [pod : MountPods, mount : Mounts, backoff : Backoffs, result : {"state", "error", "gaveUp"},
   st : MountPods, fault : BOOLEAN]

(* A mount pod that is there was made from a valid configuration. *)
Fits(p) == p \in MountPods /\ (p.status = "absent" => p = NoPod) /\ (p # NoPod => p.cfg \in Configs)

PodOK == Fits(pod) /\ mount \in Mounts

LEMMA PodTypes ==
  /\ NoPod \in MountPods /\ NoPod.status = "absent" /\ ~ NoPod.deleted /\ NoPod.exit = "none" /\ NoPod.cfg = NoConfig
  /\ NoBackoff \in Backoffs /\ NoBackoff.cfg = NoConfig /\ ~ NoBackoff.gaveUp /\ ~ NoBackoff.fatal
  /\ \A c \in Configs : /\ Fits(NewPod(c)) /\ NewPod(c).cfg = c /\ NewPod(c).status = "starting" /\ ~ NewPod(c).deleted
                        /\ NewPod(c) # NoPod /\ NewPod(c).exit = "none"
<1> DEFINE n == NewPod(NoConfig)
<1>1. n \in MountPods /\ n.cfg = NoConfig /\ ~ n.deleted /\ n.exit = "none" /\ NoPod = [n EXCEPT !.status = "absent"]
  BY DEF NoPod, NewPod, MountPods
<1> HIDE DEF n
<1>2. NoBackoff = [cfg |-> NoConfig, counted |-> FALSE, fatal |-> FALSE, due |-> TRUE, gaveUp |-> FALSE]
  BY DEF NoBackoff, FreshBackoff
<1>3. NoPod \in MountPods /\ NoPod.status = "absent" /\ ~ NoPod.deleted /\ NoPod.exit = "none" /\ NoPod.cfg = NoConfig
  BY <1>1 DEF MountPods
<1>4. NoBackoff \in Backoffs /\ NoBackoff.cfg = NoConfig /\ ~ NoBackoff.gaveUp /\ ~ NoBackoff.fatal
  BY <1>2 DEF Backoffs
<1>5. ASSUME NEW c \in Configs
      PROVE  /\ Fits(NewPod(c)) /\ NewPod(c).cfg = c /\ NewPod(c).status = "starting" /\ ~ NewPod(c).deleted
             /\ NewPod(c) # NoPod /\ NewPod(c).exit = "none"
  <2>1. /\ NewPod(c) \in MountPods /\ NewPod(c).cfg = c /\ NewPod(c).status = "starting" /\ ~ NewPod(c).deleted
        /\ NewPod(c).exit = "none"
    BY DEF NewPod, MountPods
  <2> QED
    BY <1>3, <2>1 DEF Fits
<1> QED
  BY <1>3, <1>4, <1>5

(* What countExit and startOver make of a backoff: a give-up stays, unless *)
(* its pod is being deleted; a new one is that of an exit after a fatal    *)
(* one; and a fatal exit that is not the last waits for its restart time.  *)
LEMMA CountedBackoff ==
  ASSUME backoff \in Backoffs, PodOK, NEW c \in Configs, NEW b \in Counted(c)
  PROVE  /\ b \in Backoffs /\ b.cfg = c
         /\ backoff.cfg = c /\ backoff.gaveUp /\ ~ pod.deleted => b.gaveUp
         /\ b.gaveUp => /\ backoff.cfg = c /\ (backoff.gaveUp \/ (Exited(pod) /\ ~ pod.deleted /\ backoff.fatal))
         /\ b.fatal /\ ~ b.gaveUp => (~ b.due /\ Exited(pod)) \/ (backoff.cfg = c /\ backoff.fatal /\ ~ backoff.gaveUp)
<1> DEFINE e == Entry(c)
           restart == [e EXCEPT !.counted = TRUE, !.fatal = (pod.exit = "fatal"), !.due = FALSE]
           last == [e EXCEPT !.counted = TRUE, !.due = TRUE, !.gaveUp = TRUE]
<1>1. /\ e \in Backoffs /\ e.cfg = c
      /\ e = backoff \/ (~ e.gaveUp /\ ~ e.fatal /\ backoff.cfg # c)
  BY DEF Entry, FreshBackoff, Backoffs
<1>2. restart \in Backoffs /\ restart.cfg = c /\ restart.gaveUp = e.gaveUp /\ restart.due = FALSE
  BY <1>1 DEF Backoffs
<1>3. last \in Backoffs /\ last.cfg = c /\ last.gaveUp = TRUE
  BY <1>1 DEF Backoffs
<1>4. b = StartOver(e) \/ (Exited(pod) /\ (b = StartOver(restart) \/ (e.fatal /\ b = StartOver(last))))
  BY DEF Counted
<1> HIDE DEF e, restart, last
<1>5. ASSUME NEW x \in Backoffs
      PROVE  /\ StartOver(x) \in Backoffs /\ StartOver(x).cfg = x.cfg
             /\ StartOver(x) = x \/ (~ StartOver(x).gaveUp /\ ~ StartOver(x).fatal /\ pod.deleted)
             /\ StartOver(x).gaveUp => StartOver(x) = x /\ (pod.deleted => ~ Exited(pod))
  BY DEF StartOver, Cleared, Backoffs
<1>6. CASE b = StartOver(e)
  BY <1>1, <1>5, <1>6
<1>7. CASE Exited(pod) /\ b = StartOver(restart)
  BY <1>1, <1>2, <1>5, <1>7
<1>8. CASE Exited(pod) /\ e.fatal /\ b = StartOver(last)
  BY <1>1, <1>3, <1>5, <1>8
<1> QED
  BY <1>4, <1>6, <1>7, <1>8

(* The outcomes of Ensure.  A pod is only created with a backoff that has  *)
(* not given up, over a pod that is gone or has exited.                    *)
LEMMA EnsureOutcome ==
  ASSUME backoff \in Backoffs, PodOK, NEW c \in Configs, NEW o \in EnsureOutcomes(c)
  PROVE  \/ o = Same(backoff, "error", TRUE)
         \/ \E b \in Counted(c) :
              \/ /\ pod # NoPod /\ ~ Exited(pod) /\ o \in {Same(b, "state", FALSE), Same(b, "error", TRUE)}
              \/ /\ pod = NoPod \/ Exited(pod)
                 /\ \/ b.gaveUp /\ o = Same(b, "gaveUp", FALSE)
                    \/ ~ b.gaveUp /\ ~ b.due /\ o = Same(b, "state", FALSE)
                    \/ ~ b.gaveUp /\ b.due /\ o \in Creations(c, b)
BY DEF EnsureOutcomes, EnsureWith

LEMMA CreationOutcome ==
  ASSUME backoff \in Backoffs, PodOK, NEW c \in Configs, NEW b \in Backoffs, NEW o \in Creations(c, b)
  PROVE  /\ o \in Outcomes /\ Fits(o.pod)
         /\ o.backoff.cfg = b.cfg /\ o.backoff.gaveUp = b.gaveUp /\ o.backoff.fatal = b.fatal
         /\ \/ o.pod = NewPod(c) /\ o.st = NewPod(c) /\ o.result = "state" /\ o.mount = "none" /\ o.fault = FALSE
            \/ o.pod = NewPod(c) /\ o.st = NewPod(c) /\ o.result = "error" /\ o.mount = "none" /\ o.fault = TRUE
            \/ o.pod \in {pod, NoPod} /\ o.st \in {pod, NoPod} /\ o.result = "error" /\ o.fault = TRUE
<1> DEFINE fresh == [b EXCEPT !.counted = FALSE]
<1>1. fresh \in Backoffs /\ fresh.cfg = b.cfg /\ fresh.gaveUp = b.gaveUp /\ fresh.fatal = b.fatal
  BY DEF Backoffs
<1>2. \/ \E r \in {"state", "error"} : o = Outcome(NewPod(c), "none", fresh, r, NewPod(c), r = "error")
      \/ o = Outcome(pod, mount, b, "error", pod, TRUE)
      \/ \E m \in {mount, "none"} : o = Outcome(NoPod, m, fresh, "error", NoPod, TRUE)
  BY DEF Creations, Same
<1> HIDE DEF fresh
<1>3. pod \in MountPods /\ mount \in Mounts /\ NewPod(c) \in MountPods /\ "none" \in Mounts /\ Fits(NoPod)
  BY PodTypes DEF PodOK, Fits, Mounts
<1>4. ASSUME NEW r \in {"state", "error"}, o = Outcome(NewPod(c), "none", fresh, r, NewPod(c), r = "error")
      PROVE  /\ o \in Outcomes /\ Fits(o.pod) /\ o.backoff = fresh /\ o.st = NewPod(c) /\ o.pod = NewPod(c)
             /\ o.mount = "none" /\ o.result = r /\ o.fault = (r = "error")
  <2>1. o \in Outcomes
    BY <1>1, <1>3, <1>4 DEF Outcome, Outcomes
  <2> QED
    BY <1>4, <2>1, PodTypes DEF Outcome, Fits
<1>5. CASE o = Outcome(pod, mount, b, "error", pod, TRUE)
  <2>1. o \in Outcomes
    BY <1>3, <1>5 DEF Outcome, Outcomes
  <2> QED
    BY <1>5, <2>1 DEF Outcome, PodOK, Fits
<1>6. ASSUME NEW m \in {mount, "none"}, o = Outcome(NoPod, m, fresh, "error", NoPod, TRUE)
      PROVE  /\ o \in Outcomes /\ Fits(o.pod) /\ o.backoff = fresh /\ o.st = NoPod
             /\ o.pod = NoPod /\ o.result = "error" /\ o.fault = TRUE /\ o.mount \in {mount, "none"}
  <2>1. o \in Outcomes
    BY <1>1, <1>3, <1>6, PodTypes DEF Outcome, Outcomes
  <2> QED
    BY <1>3, <1>6, <2>1 DEF Outcome
<1> QED
  BY <1>1, <1>2, <1>4, <1>5, <1>6

SameOutcome(o, b, result, fault) ==
  o.pod = pod /\ o.mount = mount /\ o.backoff = b /\ o.result = result /\ o.st = pod /\ o.fault = fault

LEMMA SameFields ==
  ASSUME PodOK, NEW b \in Backoffs, NEW r \in {"state", "error", "gaveUp"}, NEW f \in BOOLEAN
  PROVE  Same(b, r, f) \in Outcomes /\ SameOutcome(Same(b, r, f), b, r, f)
<1>1. pod \in MountPods /\ mount \in Mounts
  BY DEF PodOK, Fits
<1>2. Same(b, r, f) \in Outcomes
  BY <1>1 DEF Same, Outcome, Outcomes
<1> QED
  BY <1>2 DEF Same, Outcome, SameOutcome

(* What Ensure leaves of the pod.                                          *)
EnsurePod(c, o) ==
  /\ o \in Outcomes /\ Fits(o.pod) /\ Fits(o.st)
  /\ o.result = "gaveUp" => o.pod = pod
  /\ o.result = "error" => /\ o.fault = TRUE
                           /\ \/ o.pod = pod \/ (o.pod = NoPod /\ Exited(pod))
                              \/ o.pod = NewPod(c) /\ (pod = NoPod \/ Exited(pod))
  /\ o.result = "state" => \/ o.pod = pod /\ o.st = pod
                           \/ o.pod = NewPod(c) /\ o.st = NewPod(c) /\ (pod = NoPod \/ Exited(pod))

(* ... and of the backoff.                                                 *)
EnsureBackoff(c, o) ==
  /\ o.backoff = backoff \/ o.backoff.cfg = c
  /\ backoff.gaveUp /\ backoff.cfg = c /\ ~ pod.deleted => o.backoff.gaveUp
  /\ o.backoff.gaveUp => \/ backoff.gaveUp /\ backoff.cfg = o.backoff.cfg
                         \/ /\ Exited(pod) /\ ~ pod.deleted /\ backoff.fatal
                            /\ o.result = "gaveUp" /\ o.backoff.cfg = c /\ backoff.cfg = c
  /\ o.backoff.fatal /\ ~ o.backoff.gaveUp => o.result = "state" \/ (backoff.fatal /\ ~ backoff.gaveUp)
  /\ o.backoff.gaveUp => o.pod = pod /\ (o.result = "state" => Running(pod))
  /\ o.result = "gaveUp" => o.backoff.gaveUp

LEMMA EnsureLeaves ==
  ASSUME backoff \in Backoffs, PodOK, NEW c \in Configs, NEW o \in EnsureOutcomes(c)
  PROVE  EnsurePod(c, o) /\ EnsureBackoff(c, o)
<1>0. Fits(pod) /\ (pod # NoPod /\ ~ Exited(pod) => Running(pod))
  BY DEF PodOK, Fits, Running, Exited, MountPods
<1>1. CASE o = Same(backoff, "error", TRUE)
  <2>1. o \in Outcomes /\ SameOutcome(o, backoff, "error", TRUE)
    BY <1>1, SameFields
  <2> QED
    BY <1>0, <2>1 DEF SameOutcome, EnsurePod, EnsureBackoff, Fits
<1>2. ASSUME NEW b \in Counted(c), NEW r \in {"state", "error"}, NEW f \in BOOLEAN, r = "error" => f = TRUE,
             pod # NoPod /\ ~ Exited(pod), o = Same(b, r, f)
      PROVE  EnsurePod(c, o) /\ EnsureBackoff(c, o)
  <2>1. b \in Backoffs
    BY <1>2, CountedBackoff
  <2>2. o \in Outcomes /\ SameOutcome(o, b, r, f)
    BY <1>2, <2>1, SameFields
  <2>3. EnsurePod(c, o)
    BY <1>0, <1>2, <2>2 DEF SameOutcome, EnsurePod
  <2>4. EnsureBackoff(c, o)
    <3>1. o.backoff = b /\ o.result = r /\ o.pod = pod
      BY <2>2 DEF SameOutcome
    <3>2. /\ b.cfg = c
          /\ backoff.cfg = c /\ backoff.gaveUp /\ ~ pod.deleted => b.gaveUp
          /\ b.gaveUp => backoff.cfg = c /\ backoff.gaveUp
          /\ b.fatal /\ ~ b.gaveUp => backoff.fatal /\ ~ backoff.gaveUp
      BY <1>2, CountedBackoff
    <3>3. Running(pod)
      BY <1>0, <1>2
    <3> QED
      BY <1>2, <3>1, <3>2, <3>3, Zenon DEF EnsureBackoff
  <2> QED
    BY <2>3, <2>4
<1>3. ASSUME NEW b \in Counted(c), NEW r \in {"state", "gaveUp"}, o = Same(b, r, FALSE),
             (b.gaveUp /\ r = "gaveUp") \/ (~ b.gaveUp /\ ~ b.due /\ r = "state")
      PROVE  EnsurePod(c, o) /\ EnsureBackoff(c, o)
  <2>1. b \in Backoffs
    BY <1>3, CountedBackoff
  <2>2. o \in Outcomes /\ SameOutcome(o, b, r, FALSE)
    BY <1>3, <2>1, SameFields
  <2>3. EnsurePod(c, o)
    BY <1>0, <1>3, <2>2 DEF SameOutcome, EnsurePod
  <2>4. EnsureBackoff(c, o)
    <3>1. o.backoff = b /\ o.result = r /\ o.pod = pod
      BY <2>2 DEF SameOutcome
    <3>2. /\ b.cfg = c
          /\ backoff.cfg = c /\ backoff.gaveUp /\ ~ pod.deleted => b.gaveUp
          /\ b.gaveUp => backoff.cfg = c /\ (backoff.gaveUp \/ (Exited(pod) /\ ~ pod.deleted /\ backoff.fatal))
      BY CountedBackoff
    <3>3. (r = "gaveUp" => b.gaveUp) /\ (r = "state" => ~ b.gaveUp) /\ (r = "gaveUp" \/ r = "state")
      BY <1>3
    <3> QED
      BY <3>1, <3>2, <3>3, Zenon DEF EnsureBackoff
  <2> QED
    BY <2>3, <2>4
<1>4. ASSUME NEW b \in Counted(c), ~ b.gaveUp, b.due, pod = NoPod \/ Exited(pod), o \in Creations(c, b)
      PROVE  EnsurePod(c, o) /\ EnsureBackoff(c, o)
  <2>1. b \in Backoffs
    BY <1>4, CountedBackoff
  <2>2. /\ o \in Outcomes /\ Fits(o.pod)
        /\ o.backoff.cfg = b.cfg /\ o.backoff.gaveUp = b.gaveUp /\ o.backoff.fatal = b.fatal
        /\ \/ o.pod = NewPod(c) /\ o.st = NewPod(c) /\ o.result = "state" /\ o.mount = "none" /\ o.fault = FALSE
           \/ o.pod = NewPod(c) /\ o.st = NewPod(c) /\ o.result = "error" /\ o.mount = "none" /\ o.fault = TRUE
           \/ o.pod \in {pod, NoPod} /\ o.st \in {pod, NoPod} /\ o.result = "error" /\ o.fault = TRUE
    BY <1>4, <2>1, CreationOutcome, Zenon
  <2>3. Fits(NewPod(c)) /\ Fits(NoPod)
    BY PodTypes DEF Fits
  <2>4. EnsurePod(c, o)
    BY <1>0, <1>4, <2>2, <2>3 DEF EnsurePod
  <2>5. EnsureBackoff(c, o)
    BY <1>4, <2>2, CountedBackoff DEF EnsureBackoff
  <2> QED
    BY <2>4, <2>5
<1> DEFINE G == EnsurePod(c, o) /\ EnsureBackoff(c, o)
<1>5. ASSUME NEW b \in Counted(c), pod # NoPod /\ ~ Exited(pod),
             o \in {Same(b, "state", FALSE), Same(b, "error", TRUE)}
      PROVE  G
  <2>1. CASE o = Same(b, "state", FALSE)
    BY <1>2, <1>5, <2>1
  <2>2. CASE o = Same(b, "error", TRUE)
    BY <1>2, <1>5, <2>2
  <2> QED
    BY <1>5, <2>1, <2>2
<1>6. ASSUME NEW b \in Counted(c), b.gaveUp, o = Same(b, "gaveUp", FALSE)
      PROVE  G
  BY <1>3, <1>6
<1>7. ASSUME NEW b \in Counted(c), ~ b.gaveUp, ~ b.due, o = Same(b, "state", FALSE)
      PROVE  G
  BY <1>3, <1>7
<1> HIDE DEF G
<1>8. G
  BY <1>1, <1>4, <1>5, <1>6, <1>7, EnsureOutcome, Zenon DEF G
<1> QED
  BY <1>8 DEF G

(* What Delete leaves: a pod that is gone if it had exited, or asked to    *)
(* stop; and a give-up, unless the pod was being deleted.                  *)
DeletePod(o) ==
  /\ o \in Outcomes /\ Fits(o.pod) /\ Fits(o.st) /\ o.result \in {"state", "error"}
  /\ o.mount = mount
  /\ o.result = "error" => o.fault = TRUE
  /\ o.result = "state" /\ Phase(o.st) # "terminating" =>
       o.pod = NoPod /\ ((pod = NoPod /\ o.st = NoPod) \/ (Exited(pod) /\ o.st = Released(pod)))
  /\ \/ o.pod = pod
     \/ Exited(pod) /\ o.pod = NoPod
     \/ Running(pod) /\ o.pod = [pod EXCEPT !.deleted = TRUE] /\ o.backoff = backoff

DeleteBackoff(o) ==
  /\ o.backoff = NoBackoff \/ o.backoff.cfg = backoff.cfg
  /\ backoff.gaveUp /\ ~ pod.deleted => o.backoff.gaveUp /\ o.backoff.cfg = backoff.cfg
  /\ o.backoff.gaveUp => backoff.gaveUp /\ o.backoff.cfg = backoff.cfg
  /\ o.backoff.fatal /\ ~ o.backoff.gaveUp => backoff.fatal /\ ~ backoff.gaveUp

LEMMA DeleteLeaves ==
  ASSUME backoff \in Backoffs, PodOK, NEW o \in DeleteOutcomes
  PROVE  DeletePod(o) /\ DeleteBackoff(o)
<1> DEFINE forgotten == IF pod.deleted THEN NoBackoff ELSE Forget
           deleted == [pod EXCEPT !.deleted = TRUE]
           kept == [backoff EXCEPT !.counted = FALSE]
           IsBackoff(b) == /\ b \in Backoffs /\ (b = NoBackoff \/ b.cfg = backoff.cfg)
                           /\ backoff.gaveUp /\ ~ pod.deleted => b.gaveUp /\ b.cfg = backoff.cfg
                           /\ b.gaveUp => backoff.gaveUp /\ b.cfg = backoff.cfg
                           /\ b.fatal /\ ~ b.gaveUp => backoff.fatal /\ ~ backoff.gaveUp
<1>1. /\ pod \in MountPods /\ mount \in Mounts /\ Fits(pod) /\ Fits(NoPod)
      /\ pod # NoPod /\ ~ Exited(pod) => Running(pod)
  BY PodTypes DEF PodOK, Fits, Running, Exited, MountPods
<1>2. kept \in Backoffs /\ kept.cfg = backoff.cfg /\ kept.gaveUp = backoff.gaveUp /\ kept.fatal = backoff.fatal
  BY DEF Backoffs
<1>3. IsBackoff(backoff) /\ IsBackoff(kept)
  BY <1>2
<1>4. IsBackoff(Forget) /\ IsBackoff(forgotten)
  BY <1>2, <1>3, PodTypes DEF Forget
<1>5. deleted \in MountPods /\ deleted.deleted = TRUE /\ deleted.status = pod.status /\ deleted.cfg = pod.cfg
  BY <1>1 DEF MountPods
<1>6. Released(pod) \in MountPods /\ Released(pod).status = pod.status /\ Released(pod).cfg = pod.cfg
  BY <1>1 DEF Released, MountPods
<1> HIDE DEF forgotten, deleted, kept
<1>7. \/ o = Same(backoff, "error", TRUE)
      \/ pod = NoPod /\ (o = Same(Forget, "state", FALSE) \/ o = Same(Forget, "error", TRUE))
      \/ Exited(pod) /\ o = Outcome(NoPod, mount, forgotten, "state", Released(pod), FALSE)
      \/ Exited(pod) /\ \E b \in {forgotten, kept} : o = Outcome(NoPod, mount, b, "error", Released(pod), TRUE)
      \/ pod # NoPod /\ ~ Exited(pod) /\ o = Outcome(deleted, mount, backoff, "state", deleted, FALSE)
  BY DEF DeleteOutcomes, forgotten, deleted, kept
<1>8. ASSUME NEW b \in Backoffs, IsBackoff(b), NEW r \in {"state", "error"}, NEW f \in BOOLEAN,
             r = "error" => f = TRUE, o = Same(b, r, f), r = "state" => pod = NoPod
      PROVE  DeletePod(o) /\ DeleteBackoff(o)
  <2>1. o \in Outcomes /\ SameOutcome(o, b, r, f)
    BY <1>8, SameFields
  <2> QED
    BY <1>1, <1>8, <2>1 DEF SameOutcome, DeletePod, DeleteBackoff
<1>9. ASSUME Exited(pod), NEW b \in Backoffs, IsBackoff(b), NEW r \in {"state", "error"}, NEW f \in BOOLEAN,
             r = "error" => f = TRUE, o = Outcome(NoPod, mount, b, r, Released(pod), f)
      PROVE  DeletePod(o) /\ DeleteBackoff(o)
  <2>1. o \in Outcomes
    BY <1>1, <1>6, <1>9, PodTypes DEF Outcome, Outcomes
  <2>2. pod # NoPod /\ Fits(Released(pod))
    BY <1>1, <1>6, <1>9, PodTypes DEF Exited, Fits
  <2> QED
    BY <1>1, <1>9, <2>1, <2>2 DEF Outcome, DeletePod, DeleteBackoff
<1>10. ASSUME pod # NoPod, ~ Exited(pod), o = Outcome(deleted, mount, backoff, "state", deleted, FALSE)
       PROVE  DeletePod(o) /\ DeleteBackoff(o)
  <2>1. o \in Outcomes
    BY <1>1, <1>5, <1>10 DEF Outcome, Outcomes
  <2>2. Fits(deleted) /\ Phase(deleted) = "terminating"
    BY <1>1, <1>5, <1>10, PodTypes DEF Fits, Phase, Running
  <2> QED
    BY <1>1, <1>3, <1>10, <2>1, <2>2 DEF Outcome, DeletePod, DeleteBackoff, deleted
<1> QED
  BY <1>3, <1>4, <1>7, <1>8, <1>9, <1>10

-----------------------------------------------------------------------------
(* Type correctness. *)

KubeletOK ==
  /\ volData \in BOOLEAN /\ wanted \in BOOLEAN /\ config \in Configs \cup {Invalid}
  /\ kubelet \in {"unmounted", "uncertain", "mounted", "unstaging", "unstaged", "failing", "failed"}
  /\ published \in BOOLEAN /\ req \in {"none", "stage", "unstage", "publish"} /\ late \in BOOLEAN

MemOK == backoff \in Backoffs /\ busy \in BOOLEAN /\ gaveUp \in {"no", "recent", "old"} /\ told \in BOOLEAN

CountsOK == faults \in 0..MaxFaults /\ crashes \in 0..MaxCrashes

HistoryOK ==
  /\ losses \in Nat /\ unreported \in {"no", "deleted", "replaced"}
  /\ giveUps \in Nat /\ refused \in Configs \cup {NoConfig}

(* Each handler has its steps, and knows the configuration it works with.  *)
HandlerFits(x) ==
  /\ x \in Ops /\ (x.pc = "idle" <=> x = NoOp) /\ (x.pc = "idle" <=> x.kind = "none")
  /\ x.pc \in {"spec", "ensure", "binds", "recreate", "ready", "checkStaged"} => x.kind = "stage"
  /\ x.pc \in {"delete", "unmount"} => x.kind = "unstage"
  /\ x.pc = "orphan" => x.kind = "recover"
  /\ x.pc = "healthy" => x.kind = "publish"
  /\ x.pc \in {"look", "decide", "repair", "reensure"} => x.kind \in {"publish", "recover"}
  /\ x.pc = "report" => x.kind \in {"stage", "unstage", "recover"}
  /\ x.kind = "stage" /\ x.pc # "spec" => x.cfg \in Configs
  /\ x.pc \in {"decide", "repair", "reensure", "orphan"} => x.st.cfg \in Configs

TypeInv == PodOK /\ KubeletOK /\ MemOK /\ CountsOK /\ HistoryOK /\ HandlerFits(op)

LEMMA NoOpFits == NoOp \in Ops /\ HandlerFits(NoOp) /\ NoOp.pc = "idle" /\ NoOp.kind = "none" /\ NoOp.waited = FALSE
<1>1. NoOp \in Ops /\ NoOp.pc = "idle" /\ NoOp.kind = "none" /\ NoOp.waited = FALSE
  BY PodTypes DEF NoOp, Ops, Kinds, PCs
<1> QED
  BY <1>1 DEF HandlerFits

LEMMA TypeFinish ==
  ASSUME KubeletOK, MemOK, NEW code, Finish(code)
  PROVE  KubeletOK' /\ busy' \in BOOLEAN /\ op' = NoOp /\ HandlerFits(op)'
<1>1. op' = NoOp /\ HandlerFits(op)'
  BY NoOpFits DEF Finish
<1>2. busy' \in BOOLEAN
  BY DEF Finish, ClearBusy
<1>3. CASE UNCHANGED kubeletVars
  BY <1>1, <1>2, <1>3 DEF KubeletOK, kubeletVars
<1>4. CASE Answer(code)
  <2>1. published' \in BOOLEAN
    BY <1>4 DEF Answer
  <2>2. /\ kubelet' \in {"unmounted", "uncertain", "mounted", "unstaging", "unstaged", "failing", "failed"}
        /\ req' = "none" /\ UNCHANGED <<volData, wanted, config, late>>
    BY <1>4 DEF Answer, KubeletOK
  <2> QED
    BY <1>1, <1>2, <2>1, <2>2 DEF KubeletOK
<1> QED
  BY <1>1, <1>2, <1>3, <1>4 DEF Finish

LEMMA TypeFaults ==
  ASSUME CountsOK, Fault \/ NoFault \/ Fails \/ UNCHANGED faults, UNCHANGED crashes
  PROVE  CountsOK'
BY DEF CountsOK, Fault, NoFault, Fails

LEMMA TypeTake ==
  ASSUME TypeInv, NEW o \in Outcomes, Fits(o.pod), Take(o)
  PROVE  /\ PodOK' /\ CountsOK' /\ backoff' \in Backoffs /\ told' \in BOOLEAN
         /\ losses' \in Nat /\ unreported' \in {"no", "deleted", "replaced"} /\ refused' \in Configs \cup {NoConfig}
<1>1. /\ pod' = o.pod /\ mount' = o.mount /\ backoff' = o.backoff /\ crashes' = crashes
      /\ o.mount \in Mounts /\ o.backoff \in Backoffs /\ o.backoff.cfg \in Configs \cup {NoConfig}
  BY DEF Take, Outcomes, Backoffs
<1>2. faults' = faults \/ (faults < MaxFaults /\ faults' = faults + 1)
  BY DEF Take
<1>3. CountsOK'
  BY <1>1, <1>2 DEF TypeInv, CountsOK
<1>4. told' \in BOOLEAN
  BY DEF Take
<1>5. losses' \in Nat /\ unreported' \in {"no", "deleted", "replaced"}
  BY DEF Take, TypeInv, HistoryOK
<1>6. refused' \in Configs \cup {NoConfig}
  <2>1. refused' \in {o.backoff.cfg, refused, NoConfig}
    BY DEF Take
  <2> QED
    BY <1>1, <2>1 DEF TypeInv, HistoryOK
<1> QED
  BY <1>1, <1>3, <1>4, <1>5, <1>6 DEF PodOK

LEMMA TypeEmit ==
  ASSUME TypeInv, NEW st, ReportExit(st) \/ ReportExitEarly(st)
  PROVE  told' \in BOOLEAN /\ losses' \in Nat /\ unreported' \in {"no", "deleted", "replaced"}
<1>1. told' \in {TRUE, FALSE, told} /\ (Emit(st) \/ DoNotEmit)
  BY Zenon DEF ReportExit, ReportExitEarly
<1>2. told' \in BOOLEAN
  BY <1>1 DEF TypeInv, MemOK
<1>3. losses' \in Nat /\ unreported' \in {"no", "deleted", "replaced"}
  BY <1>1 DEF Emit, DoNotEmit, TypeInv, HistoryOK
<1> QED
  BY <1>2, <1>3

LEMMA TypeReset ==
  ASSUME TypeInv, ResetBackoff
  PROVE  backoff' \in Backoffs /\ giveUps' = 0 /\ refused' = NoConfig
BY DEF ResetBackoff, Cleared, TypeInv, MemOK, Backoffs

LEMMA TypeTell ==
  ASSUME TypeInv, NEW o, AfterEnsure(o)
  PROVE  giveUps' \in Nat /\ gaveUp' \in {"no", "recent", "old"}
BY DEF AfterEnsure, TellGaveUp, TypeInv, HistoryOK, MemOK

LEMMA TypeGoto ==
  ASSUME HandlerFits(op), NEW pc \in PCs, Goto(pc)
  PROVE  /\ op' \in Ops /\ op'.pc = pc /\ op'.kind = op.kind /\ op'.cfg = op.cfg /\ op'.st = op.st
         /\ op'.waited = op.waited /\ op'.bound = op.bound
BY DEF HandlerFits, Goto, Ops

LEMMA TypeGotoWith ==
  ASSUME HandlerFits(op), NEW pc \in PCs, NEW st \in MountPods, GotoWith(pc, st)
  PROVE  /\ op' \in Ops /\ op'.pc = pc /\ op'.kind = op.kind /\ op'.cfg = op.cfg /\ op'.st = st
         /\ op'.waited = op.waited /\ op'.bound = op.bound
BY DEF HandlerFits, GotoWith, Ops

LEMMA TypeOfStage ==
  ASSUME TypeInv, StageSpec \/ StageBinds \/ StageReady \/ StageCheck
  PROVE  TypeInv'
<1> USE DEF TypeInv
<1>1. CASE StageSpec
  <2>1. UNCHANGED <<podVars, backoff, gaveUp, told, crashes, history>> /\ CountsOK'
    BY <1>1, TypeFaults DEF StageSpec, stageUnchanged
  <2>2. KubeletOK' /\ busy' \in BOOLEAN /\ HandlerFits(op)'
    <3>1. CASE \E code : Finish(code)
      BY <3>1, TypeFinish
    <3>2. CASE /\ config # Invalid /\ op' = [op EXCEPT !.pc = "ensure", !.cfg = config]
               /\ UNCHANGED <<busy, kubeletVars>>
      <4>1. config \in Configs
        BY <3>2 DEF KubeletOK
      <4>2. op' \in Ops /\ op'.pc = "ensure" /\ op'.kind = op.kind /\ op'.cfg = config
        BY <3>2, <4>1 DEF HandlerFits, Ops, PCs
      <4>3. op.kind = "stage"
        BY <1>1 DEF StageSpec, At, HandlerFits
      <4>4. HandlerFits(op)'
        BY <4>1, <4>2, <4>3, NoOpFits DEF HandlerFits
      <4> QED
        BY <3>2, <4>4 DEF KubeletOK, MemOK, kubeletVars
    <3> QED
      BY <1>1, <3>1, <3>2 DEF StageSpec
  <2> QED
    BY <2>1, <2>2 DEF PodOK, MemOK, HistoryOK, podVars, history
<1>2. CASE StageBinds
  <2>1. UNCHANGED <<podVars, backoff, gaveUp, told, crashes, history>> /\ CountsOK'
    BY <1>2, TypeFaults DEF StageBinds, stageUnchanged
  <2>2. KubeletOK' /\ busy' \in BOOLEAN /\ HandlerFits(op)'
    <3>1. CASE \E code : Finish(code)
      BY <3>1, TypeFinish
    <3>2. CASE UNCHANGED <<busy, kubeletVars>> /\ \E pc \in {"ready", "recreate"} : Goto(pc)
      <4>1. PICK pc \in {"ready", "recreate"} : Goto(pc)
        BY <3>2
      <4>2. op' \in Ops /\ op'.pc = pc /\ op'.kind = op.kind /\ op'.cfg = op.cfg /\ pc \in PCs
        BY <4>1, TypeGoto DEF PCs
      <4>3. op.kind = "stage" /\ op.pc = "binds" /\ op.cfg \in Configs
        BY <1>2 DEF StageBinds, At, HandlerFits
      <4>4. HandlerFits(op)'
        BY <4>1, <4>2, <4>3, NoOpFits DEF HandlerFits
      <4> QED
        BY <3>2, <4>4 DEF KubeletOK, MemOK, kubeletVars
    <3> QED
      BY <1>2, <3>1, <3>2 DEF StageBinds
  <2> QED
    BY <2>1, <2>2 DEF PodOK, MemOK, HistoryOK, podVars, history
<1>3. CASE StageReady
  <2>1. UNCHANGED <<podVars, gaveUp, crashes>> /\ CountsOK'
    BY <1>3, TypeFaults DEF StageReady, AnswersReady, DoesNotAnswer
  <2>2. KubeletOK' /\ busy' \in BOOLEAN /\ HandlerFits(op)'
    <3>1. CASE \E code : Finish(code)
      BY <3>1, TypeFinish
    <3>2. CASE UNCHANGED <<busy, kubeletVars>> /\ Goto("checkStaged")
      <4>1. op' \in Ops /\ op'.pc = "checkStaged" /\ op'.kind = op.kind /\ op'.cfg = op.cfg
        BY <3>2, TypeGoto DEF PCs
      <4>2. op.kind = "stage" /\ op.pc = "ready" /\ op.cfg \in Configs
        BY <1>3 DEF StageReady, At, HandlerFits
      <4>3. HandlerFits(op)'
        BY <4>1, <4>2, NoOpFits DEF HandlerFits
      <4> QED
        BY <3>2, <4>3 DEF KubeletOK, MemOK, kubeletVars
    <3> QED
      BY <1>3, <3>1, <3>2 DEF StageReady
  <2>3. backoff' \in Backoffs /\ told' \in BOOLEAN /\ HistoryOK'
    <3>1. CASE ResetBackoff /\ DoNotEmit /\ UNCHANGED told
      BY <3>1, TypeReset DEF DoNotEmit, MemOK, HistoryOK
    <3>2. CASE UNCHANGED <<backoff, told, history>>
      BY <3>2 DEF MemOK, HistoryOK, history
    <3>3. CASE ReportExitEarly(op.st) /\ UNCHANGED <<backoff, giveUps, refused>>
      BY <3>3, TypeEmit DEF MemOK, HistoryOK
    <3> QED
      BY <1>3, <3>1, <3>2, <3>3 DEF StageReady
  <2> QED
    BY <2>1, <2>2, <2>3 DEF PodOK, MemOK, podVars
<1>4. CASE StageCheck
  <2>1. /\ UNCHANGED <<podVars, backoff, told, crashes, history>> /\ CountsOK' /\ gaveUp' \in {"no", gaveUp}
        /\ \E code : Finish(code)
    BY <1>4, TypeFaults DEF StageCheck
  <2>2. KubeletOK' /\ busy' \in BOOLEAN /\ HandlerFits(op)'
    BY <2>1, TypeFinish
  <2> QED
    BY <2>1, <2>2 DEF PodOK, MemOK, HistoryOK, podVars, history
<1> QED
  BY <1>1, <1>2, <1>3, <1>4

LEMMA TypeOfEnsure ==
  ASSUME TypeInv, StageEnsure \/ Reensure
  PROVE  TypeInv'
<1> USE DEF TypeInv
<1>1. CASE StageEnsure
  <2>1. op.kind = "stage" /\ op.pc = "ensure" /\ op.cfg \in Configs
    BY <1>1 DEF StageEnsure, At, HandlerFits
  <2>2. PICK o \in EnsureOutcomes(op.cfg) :
          /\ Take(o) /\ AfterEnsure(o)
          /\ \/ \E code : Finish(code)
             \/ /\ UNCHANGED <<busy, kubeletVars>>
                /\ \E pc \in {"recreate", "binds", "ready"} : GotoWith(pc, o.st)
    BY <1>1, Zenon DEF StageEnsure
  <2>3. o \in Outcomes /\ Fits(o.pod) /\ Fits(o.st)
    BY <2>1, <2>2, EnsureLeaves DEF EnsurePod, MemOK
  <2>4. KubeletOK' /\ busy' \in BOOLEAN /\ HandlerFits(op)'
    <3>1. CASE \E code : Finish(code)
      BY <3>1, TypeFinish
    <3>2. CASE UNCHANGED <<busy, kubeletVars>> /\ \E pc \in {"recreate", "binds", "ready"} : GotoWith(pc, o.st)
      <4>1. PICK pc \in {"recreate", "binds", "ready"} : GotoWith(pc, o.st)
        BY <3>2
      <4>2. op' \in Ops /\ op'.pc = pc /\ op'.kind = op.kind /\ op'.cfg = op.cfg
        BY <2>3, <4>1, TypeGotoWith DEF Fits, PCs
      <4>3. HandlerFits(op)'
        BY <2>1, <4>1, <4>2, NoOpFits DEF HandlerFits
      <4> QED
        BY <3>2, <4>3 DEF KubeletOK, MemOK, kubeletVars
    <3> QED
      BY <2>2, <3>1, <3>2
  <2> QED
    BY <2>2, <2>3, <2>4, TypeTake, TypeTell DEF MemOK, HistoryOK
<1>2. CASE Reensure
  <2>1. op.kind \in {"publish", "recover"} /\ op.pc = "reensure" /\ op.st.cfg \in Configs
    BY <1>2 DEF Reensure, At, HandlerFits
  <2>2. PICK o \in EnsureOutcomes(op.st.cfg) :
          /\ Take(o) /\ AfterEnsure(o)
          /\ \/ \E code : Finish(code)
             \/ op.kind = "publish" /\ Goto("healthy") /\ UNCHANGED <<busy, kubeletVars>>
    BY <1>2 DEF Reensure, EndOfRepair
  <2>3. o \in Outcomes /\ Fits(o.pod) /\ Fits(o.st)
    BY <2>1, <2>2, EnsureLeaves DEF EnsurePod, MemOK
  <2>4. KubeletOK' /\ busy' \in BOOLEAN /\ HandlerFits(op)'
    <3>1. CASE \E code : Finish(code)
      BY <3>1, TypeFinish
    <3>2. CASE op.kind = "publish" /\ Goto("healthy") /\ UNCHANGED <<busy, kubeletVars>>
      <4>1. op' \in Ops /\ op'.pc = "healthy" /\ op'.kind = op.kind
        BY <3>2, TypeGoto DEF PCs
      <4>2. HandlerFits(op)'
        BY <3>2, <4>1, NoOpFits DEF HandlerFits
      <4> QED
        BY <3>2, <4>2 DEF KubeletOK, MemOK, kubeletVars
    <3> QED
      BY <2>2, <3>1, <3>2
  <2> QED
    BY <2>2, <2>3, <2>4, TypeTake, TypeTell DEF MemOK, HistoryOK
<1> QED
  BY <1>1, <1>2

LEMMA TypeOfDelete ==
  ASSUME TypeInv, StageRecreate \/ UnstageDelete \/ DeleteOrphan
  PROVE  TypeInv'
<1> USE DEF TypeInv
<1>1. /\ op.pc # "idle" /\ op.kind \in {"stage", "unstage", "recover"}
      /\ op.kind = "stage" => op.cfg \in Configs
  BY DEF StageRecreate, UnstageDelete, DeleteOrphan, At, HandlerFits
<1>2. PICK o \in DeleteOutcomes :
        /\ Take(o) /\ UNCHANGED <<giveUps, gaveUp>>
        /\ \/ \E code : Finish(code)
           \/ GotoWith("report", o.st) /\ UNCHANGED <<busy, kubeletVars>>
  BY DEF StageRecreate, UnstageDelete, DeleteOrphan
<1>3. o \in Outcomes /\ Fits(o.pod) /\ Fits(o.st)
  BY <1>2, DeleteLeaves DEF DeletePod, MemOK
<1>4. KubeletOK' /\ busy' \in BOOLEAN /\ HandlerFits(op)'
  <2>1. CASE \E code : Finish(code)
    BY <2>1, TypeFinish
  <2>2. CASE GotoWith("report", o.st) /\ UNCHANGED <<busy, kubeletVars>>
    <3>1. op' \in Ops /\ op'.pc = "report" /\ op'.kind = op.kind /\ op'.cfg = op.cfg
      BY <1>3, <2>2, TypeGotoWith DEF Fits, PCs
    <3>2. HandlerFits(op)'
      BY <1>1, <3>1, NoOpFits DEF HandlerFits
    <3> QED
      BY <2>2, <3>2 DEF KubeletOK, MemOK, kubeletVars
  <2> QED
    BY <1>2, <2>1, <2>2
<1> QED
  BY <1>2, <1>3, <1>4, TypeTake DEF MemOK, HistoryOK

LEMMA TypeOfUnstage ==
  ASSUME TypeInv, Report \/ UnstageUnmount
  PROVE  TypeInv'
<1> USE DEF TypeInv
<1>1. CASE Report
  <2>1. UNCHANGED <<podVars, faults, crashes>> /\ told' \in BOOLEAN /\ losses' \in Nat
        /\ unreported' \in {"no", "deleted", "replaced"}
    BY <1>1, TypeEmit DEF Report
  <2>2. backoff' \in Backoffs /\ gaveUp' \in {"no", "recent", "old"} /\ giveUps' \in Nat
        /\ refused' \in Configs \cup {NoConfig}
    BY <1>1, PodTypes DEF Report, MemOK, HistoryOK
  <2>3. KubeletOK' /\ busy' \in BOOLEAN /\ HandlerFits(op)'
    <3>1. CASE \E code : Finish(code)
      BY <3>1, TypeFinish
    <3>2. ASSUME UNCHANGED <<busy, kubeletVars>>, NEW pc \in {"ensure", "unmount"}, Goto(pc),
                 op.kind = IF pc = "ensure" THEN "stage" ELSE "unstage"
          PROVE  KubeletOK' /\ busy' \in BOOLEAN /\ HandlerFits(op)'
      <4>1. op' \in Ops /\ op'.pc = pc /\ op'.kind = op.kind /\ op'.cfg = op.cfg
        BY <3>2, TypeGoto DEF PCs
      <4>2. op.kind = "stage" => op.cfg \in Configs
        BY <1>1 DEF Report, At, HandlerFits
      <4>3. HandlerFits(op)'
        BY <3>2, <4>1, <4>2, NoOpFits DEF HandlerFits
      <4> QED
        BY <3>2, <4>3 DEF KubeletOK, MemOK, kubeletVars
    <3> QED
      BY <1>1, <3>1, <3>2 DEF Report
  <2> QED
    BY <2>1, <2>2, <2>3 DEF PodOK, CountsOK, MemOK, HistoryOK, podVars
<1>2. CASE UnstageUnmount
  <2>1. /\ UNCHANGED <<pod, backoff, gaveUp, told, crashes, history>> /\ CountsOK' /\ mount' \in {"none", mount}
        /\ \E code : Finish(code)
    BY <1>2, TypeFaults DEF UnstageUnmount
  <2>2. KubeletOK' /\ busy' \in BOOLEAN /\ HandlerFits(op)'
    BY <2>1, TypeFinish
  <2> QED
    BY <2>1, <2>2 DEF PodOK, Mounts, MemOK, HistoryOK, history
<1> QED
  BY <1>1, <1>2

LEMMA TypeOfRecover ==
  ASSUME TypeInv, Look \/ DecideRepair \/ Repair \/ Healthy \/ PruneBackoffs
  PROVE  TypeInv'
<1> USE DEF TypeInv
<1>1. CASE Look
  <2>1. UNCHANGED <<podVars, backoff, gaveUp, told, crashes, history>> /\ CountsOK'
    BY <1>1, TypeFaults DEF Look, stageUnchanged
  <2>2. KubeletOK' /\ busy' \in BOOLEAN /\ HandlerFits(op)'
    <3>1. CASE \E code : Finish(code)
      BY <3>1, TypeFinish
    <3>2. CASE /\ pod # NoPod /\ op' = [op EXCEPT !.pc = "decide", !.st = pod, !.bound = published]
               /\ UNCHANGED <<busy, kubeletVars>>
      <4>1. op' \in Ops /\ op'.pc = "decide" /\ op'.kind = op.kind /\ op'.cfg = op.cfg /\ op'.st = pod
        BY <3>2 DEF HandlerFits, PodOK, Fits, KubeletOK, Ops, PCs
      <4>2. op.kind \in {"publish", "recover"} /\ pod.cfg \in Configs
        BY <1>1, <3>2 DEF Look, At, HandlerFits, PodOK, Fits
      <4>3. HandlerFits(op)'
        BY <4>1, <4>2, NoOpFits DEF HandlerFits
      <4> QED
        BY <3>2, <4>3 DEF KubeletOK, MemOK, kubeletVars
    <3> QED
      BY <1>1, <3>1, <3>2 DEF Look
  <2> QED
    BY <2>1, <2>2 DEF PodOK, MemOK, HistoryOK, podVars, history
<1>2. CASE DecideRepair
  <2>1. UNCHANGED <<podVars, backoff, gaveUp, faults, crashes, giveUps, refused>>
    BY <1>2 DEF DecideRepair
  <2>2. told' \in BOOLEAN /\ losses' \in Nat /\ unreported' \in {"no", "deleted", "replaced"}
    <3>1. CASE ReportExitEarly(op.st)
      BY <3>1, TypeEmit
    <3>2. CASE UNCHANGED <<told, losses, unreported>>
      BY <3>2 DEF MemOK, HistoryOK
    <3> QED
      BY <1>2, <3>1, <3>2 DEF DecideRepair
  <2>3. KubeletOK' /\ busy' \in BOOLEAN /\ HandlerFits(op)'
    <3>1. CASE \E code : Finish(code)
      BY <3>1, TypeFinish
    <3>2. ASSUME NEW pc \in {"orphan", "repair", "reensure"}, Goto(pc), UNCHANGED <<busy, kubeletVars>>,
                 pc = "orphan" => op.kind = "recover"
          PROVE  KubeletOK' /\ busy' \in BOOLEAN /\ HandlerFits(op)'
      <4>1. op' \in Ops /\ op'.pc = pc /\ op'.kind = op.kind /\ op'.st = op.st
        BY <3>2, TypeGoto DEF PCs
      <4>2. op.kind \in {"publish", "recover"} /\ op.st.cfg \in Configs
        BY <1>2 DEF DecideRepair, At, HandlerFits
      <4>3. HandlerFits(op)'
        BY <3>2, <4>1, <4>2, NoOpFits DEF HandlerFits
      <4> QED
        BY <3>2, <4>3 DEF KubeletOK, MemOK, kubeletVars
    <3> QED
      BY <1>2, <3>1, <3>2 DEF DecideRepair, Orphan
  <2> QED
    BY <2>1, <2>2, <2>3 DEF PodOK, CountsOK, MemOK, HistoryOK, podVars
<1>3. CASE Repair
  <2>1. UNCHANGED <<podVars, told, crashes, losses, unreported>> /\ CountsOK'
    BY <1>3, TypeFaults DEF Repair, AnswersReady, DoesNotAnswer
  <2>2. backoff' \in Backoffs /\ gaveUp' \in {"no", gaveUp} /\ giveUps' \in Nat /\ refused' \in Configs \cup {NoConfig}
    BY <1>3, TypeReset DEF Repair, MemOK, HistoryOK
  <2>3. KubeletOK' /\ busy' \in BOOLEAN /\ HandlerFits(op)'
    <3>1. CASE \E code : Finish(code)
      BY <3>1, TypeFinish
    <3>2. CASE op.kind = "publish" /\ Goto("healthy") /\ UNCHANGED <<busy, kubeletVars>>
      <4>1. op' \in Ops /\ op'.pc = "healthy" /\ op'.kind = op.kind
        BY <3>2, TypeGoto DEF PCs
      <4>2. HandlerFits(op)'
        BY <3>2, <4>1, NoOpFits DEF HandlerFits
      <4> QED
        BY <3>2, <4>2 DEF KubeletOK, MemOK, kubeletVars
    <3> QED
      BY <1>3, <3>1, <3>2 DEF Repair, EndOfRepair
  <2> QED
    BY <2>1, <2>2, <2>3 DEF PodOK, MemOK, HistoryOK, podVars
<1>4. CASE Healthy
  <2>1. UNCHANGED <<podVars, backoff, gaveUp, told, faults, crashes, history>> /\ \E code : Finish(code)
    BY <1>4 DEF Healthy
  <2>2. KubeletOK' /\ busy' \in BOOLEAN /\ HandlerFits(op)'
    BY <2>1, TypeFinish
  <2> QED
    BY <2>1, <2>2 DEF PodOK, CountsOK, MemOK, HistoryOK, podVars, history
<1>5. CASE PruneBackoffs
  BY <1>5, PodTypes DEF PruneBackoffs, PodOK, KubeletOK, CountsOK, MemOK, HistoryOK, HandlerFits, podVars, kubeletVars
<1> QED
  BY <1>1, <1>2, <1>3, <1>4, <1>5

(* A handler that starts. *)
LEMMA BeginType ==
  ASSUME TypeInv, NEW kind, NEW pc, Begin(kind, pc),
         \/ kind = "stage" /\ pc = "spec"
         \/ kind = "unstage" /\ pc = "delete"
         \/ kind \in {"publish", "recover"} /\ pc = "look"
  PROVE  TypeInv'
<1> USE DEF TypeInv
<1>1. /\ op' \in Ops /\ op'.kind = kind /\ op'.pc = pc
  BY NoOpFits DEF Begin, Ops, Kinds, PCs
<1>2. HandlerFits(op)'
  BY <1>1, NoOpFits DEF HandlerFits
<1>3. busy' \in BOOLEAN
  BY DEF Begin
<1> QED
  BY <1>2, <1>3 DEF Begin, PodOK, KubeletOK, CountsOK, MemOK, HistoryOK, podVars, kubeletVars, history

LEMMA TypeOfBegin ==
  ASSUME TypeInv, BeginRequest \/ BeginRecover \/ LateRequest
  PROVE  TypeInv'
<1>1. CASE Begin("stage", "spec") \/ Begin("unstage", "delete")
  BY <1>1, BeginType
<1>3. CASE Begin("publish", "look") \/ Begin("recover", "look")
  BY <1>3, BeginType
<1>2. CASE LateRequest
  <2>1. KubeletOK'
    BY <1>2 DEF LateRequest, TypeInv, KubeletOK
  <2>2. MemOK'
    BY <1>2 DEF LateRequest, TypeInv, MemOK
  <2> QED
    BY <1>2, <2>1, <2>2 DEF LateRequest, TypeInv, PodOK, CountsOK, HistoryOK, podVars, history
<1> QED
  BY <1>1, <1>2, <1>3 DEF BeginRequest, BeginRecover

KubeletStep ==
  \/ KubeletStage \/ KubeletPublish \/ PublishHealthy \/ KubeletUnpublish \/ KubeletUnstage \/ KubeletCleans
  \/ ConsumerComesOrGoes \/ ConfigChanges

LEMMA TypeOfKubelet ==
  ASSUME TypeInv, KubeletStep
  PROVE  TypeInv'
<1> USE DEF TypeInv
<1>1. UNCHANGED outside
  BY DEF KubeletStep, KubeletStage, KubeletPublish, PublishHealthy, KubeletUnpublish, KubeletUnstage, KubeletCleans,
         ConsumerComesOrGoes, ConfigChanges
<1>2. PodOK' /\ MemOK' /\ CountsOK' /\ HistoryOK' /\ HandlerFits(op)' /\ late' \in BOOLEAN
  BY <1>1 DEF outside, podVars, memVars, history, PodOK, MemOK, CountsOK, HistoryOK, HandlerFits, KubeletOK
<1>3. volData' \in BOOLEAN /\ wanted' \in BOOLEAN /\ published' \in BOOLEAN
  BY DEF KubeletStep, KubeletStage, KubeletPublish, PublishHealthy, KubeletUnpublish, KubeletUnstage, KubeletCleans,
         ConsumerComesOrGoes, ConfigChanges, KubeletOK
<1>4. /\ kubelet' \in {"unmounted", "uncertain", "mounted", "unstaging", "unstaged", "failing", "failed"}
      /\ req' \in {"none", "stage", "unstage", "publish"} /\ config' \in Configs \cup {Invalid}
  BY DEF KubeletStep, KubeletStage, KubeletPublish, PublishHealthy, KubeletUnpublish, KubeletUnstage, KubeletCleans,
         ConsumerComesOrGoes, ConfigChanges, KubeletOK
<1> QED
  BY <1>2, <1>3, <1>4 DEF KubeletOK

(* The caller of the handler gives up. *)
LEMMA TypeWaited ==
  ASSUME HandlerFits(op), NEW w \in BOOLEAN, op.waited = FALSE => w = FALSE, op' = [op EXCEPT !.waited = w]
  PROVE  /\ HandlerFits(op)' /\ op'.pc = op.pc /\ op'.kind = op.kind /\ op'.st = op.st /\ op'.bound = op.bound
         /\ op'.waited = w /\ (op = NoOp => op' = NoOp)
<1>1. /\ op' \in Ops /\ op'.pc = op.pc /\ op'.kind = op.kind /\ op'.st = op.st /\ op'.cfg = op.cfg /\ op'.waited = w
      /\ op'.bound = op.bound
  BY DEF HandlerFits, Ops
<1>2. op = NoOp => op' = NoOp
  BY NoOpFits DEF NoOp
<1>3. HandlerFits(op)'
  BY <1>1, <1>2, NoOpFits DEF HandlerFits
<1> QED
  BY <1>1, <1>2, <1>3

LEMMA TypeOfGivingUp ==
  ASSUME TypeInv, KubeletTimeout \/ KubeletRestarts \/ Crash
  PROVE  TypeInv'
<1> USE DEF TypeInv
<1>0. op.waited \in BOOLEAN
  BY DEF HandlerFits, Ops
<1>1. CASE KubeletTimeout
  <2>1. HandlerFits(op)'
    <3> DEFINE w == op.waited /\ ~ Served
    <3>1. w \in BOOLEAN /\ (op.waited = FALSE => w = FALSE) /\ op' = [op EXCEPT !.waited = w]
      BY <1>0, <1>1 DEF KubeletTimeout
    <3> HIDE DEF w
    <3> QED
      BY <3>1, TypeWaited
  <2>2. late' \in BOOLEAN
    BY <1>1 DEF KubeletTimeout, Late
  <2>3. CountsOK'
    BY <1>1 DEF KubeletTimeout, CountsOK
  <2> QED
    BY <1>1, <2>1, <2>2, <2>3 DEF KubeletTimeout, PodOK, KubeletOK, MemOK, HistoryOK, podVars, memVars, history
<1>2. CASE KubeletRestarts
  <2>1. HandlerFits(op)'
    <3> DEFINE w == op.waited /\ op.kind = "recover"
    <3>1. w \in BOOLEAN /\ (op.waited = FALSE => w = FALSE) /\ op' = [op EXCEPT !.waited = w]
      BY <1>0, <1>2 DEF KubeletRestarts
    <3> HIDE DEF w
    <3> QED
      BY <3>1, TypeWaited
  <2>2. late' \in BOOLEAN /\ busy' \in BOOLEAN
    BY <1>2 DEF KubeletRestarts, Late, MemOK
  <2>3. CountsOK'
    BY <1>2 DEF KubeletRestarts, CountsOK
  <2> QED
    BY <1>2, <2>1, <2>2, <2>3 DEF KubeletRestarts, PodOK, KubeletOK, MemOK, HistoryOK, podVars, history
<1>3. CASE Crash
  <2>1. CountsOK'
    BY <1>3 DEF Crash, CountsOK
  <2> QED
    BY <1>3, <2>1, PodTypes, NoOpFits DEF Crash, PodOK, KubeletOK, MemOK, HistoryOK, podVars
<1> QED
  BY <1>1, <1>2, <1>3

PodStep == PodReady \/ PodExits \/ DeletedByHand

LEMMA TypeOfPod ==
  ASSUME TypeInv, PodStep \/ RestartTime \/ GraceOver
  PROVE  TypeInv'
<1> USE DEF TypeInv
<1>1. CASE PodStep
  <2>1. UNCHANGED <<kubeletVars, memVars, op, faults, crashes, losses, unreported, giveUps>>
        /\ refused' \in {refused, NoConfig}
    BY <1>1 DEF PodStep, PodReady, PodExits, DeletedByHand, podSteps, history
  <2>2. pod # NoPod /\ pod \in MountPods /\ pod.cfg \in Configs
    BY <1>1, PodTypes DEF PodStep, PodReady, PodExits, DeletedByHand, Running, PodOK, Fits
  <2>3. pod' \in MountPods /\ pod'.cfg = pod.cfg /\ pod'.status # "absent" /\ mount' \in Mounts
    BY <1>1, <2>2 DEF PodStep, PodReady, PodExits, DeletedByHand, Running, MountPods, Mounts, PodOK, Fits
  <2>4. PodOK'
    BY <2>2, <2>3, PodTypes DEF PodOK, Fits
  <2> QED
    BY <2>1, <2>4 DEF KubeletOK, MemOK, CountsOK, HistoryOK, kubeletVars, memVars
<1>2. CASE RestartTime
  <2>1. backoff' \in Backoffs
    BY <1>2 DEF RestartTime, MemOK, Backoffs
  <2> QED
    BY <1>2, <2>1 DEF RestartTime, PodOK, KubeletOK, MemOK, CountsOK, HistoryOK, podVars, kubeletVars, history
<1>3. CASE GraceOver
  BY <1>3 DEF GraceOver, PodOK, KubeletOK, MemOK, CountsOK, HistoryOK, podVars, kubeletVars
<1> QED
  BY <1>1, <1>2, <1>3

LEMMA TypeInit == Init => TypeInv
<1> SUFFICES ASSUME Init PROVE TypeInv
  OBVIOUS
<1>1. PodOK
  BY PodTypes DEF Init, PodOK, Fits, Mounts
<1>2. KubeletOK
  BY DEF Init, KubeletOK
<1>3. CountsOK /\ HistoryOK
  BY DEF Init, CountsOK, HistoryOK
<1>4. MemOK /\ HandlerFits(op)
  BY PodTypes, NoOpFits DEF Init, MemOK
<1> QED
  BY <1>1, <1>2, <1>3, <1>4 DEF TypeInv

LEMMA TypeStep == TypeInv /\ [Next]_vars => TypeInv'
<1> SUFFICES ASSUME TypeInv, [Next]_vars PROVE TypeInv'
  OBVIOUS
<1>1. CASE UNCHANGED vars
  BY <1>1 DEF vars, podVars, kubeletVars, memVars, history, TypeInv, PodOK, KubeletOK, MemOK, CountsOK, HistoryOK
<1> QED
  BY <1>1, TypeOfStage, TypeOfEnsure, TypeOfDelete, TypeOfUnstage, TypeOfRecover, TypeOfBegin, TypeOfKubelet,
     TypeOfGivingUp, TypeOfPod
     DEF Next, Handlers, KubeletStep, PodStep

LEMMA TypesHold == Spec => []TypeInv
<1> QED
  BY TypeInit, TypeStep, PTL DEF Spec

(* Type correctness of the volume on its node. *)
THEOREM TypeCorrect == Spec => []TypeOK
<1>1. TypeInv => TypeOK
  BY DEF TypeInv, PodOK, Fits, Mounts, KubeletOK, MemOK, CountsOK, HistoryOK, HandlerFits, TypeOK
<1> QED
  BY <1>1, TypesHold, PTL

-----------------------------------------------------------------------------
(* What an OK to an unstage means, and what the recovery may delete.       *)
(* kubelet waits for one request at a time, that fits what it takes the    *)
(* volume for; only its handler answers it.  So while a handler has the    *)
(* lock kubelet does not come to hold the volume mounted, nor unmounted,   *)
(* by another's doing, and what the recovery read of the binds still       *)
(* tells of a volume whose stage failed.                                   *)

Expects(r) == IF r = "stage" THEN "uncertain" ELSE IF r = "unstage" THEN "unstaging" ELSE "mounted"

KubeletInv ==
  /\ req # "none" => kubelet = Expects(req)
  /\ op.waited /\ op.kind \in {"stage", "unstage", "publish"} => req = op.kind
  /\ kubelet \in {"unstaged", "unmounted"} => op = NoOp /\ pod = NoPod /\ mount = "none"
  /\ kubelet \notin {"unmounted", "failed"} => volData = TRUE
  /\ op.pc \in {"report", "unmount"} => pod = NoPod

RecoverInv ==
  /\ op.pc = "decide" /\ kubelet \in {"failing", "failed"} => (published => op.bound)
  /\ op.pc = "orphan" => kubelet # "mounted" /\ ~ published

LEMMA KubeletInit == Init => KubeletInv /\ RecoverInv
BY NoOpFits DEF Init, KubeletInv, RecoverInv

(* What a handler does to kubelet, when it ends.                           *)
LEMMA FinishAnswers ==
  ASSUME TypeInv, KubeletInv, NEW code, Finish(code)
  PROVE  /\ op' = NoOp /\ volData' = volData
         /\ \/ UNCHANGED <<kubelet, published, req>>
            \/ /\ op.waited /\ req' = "none"
               /\ \/ kubelet' = kubelet
                  \/ kubelet = "uncertain" /\ kubelet' \in {"mounted", "failing"}
                  \/ kubelet = "unstaging" /\ kubelet' = "unstaged" /\ op.kind = "unstage" /\ code = "OK"
<1>1. op' = NoOp
  BY DEF Finish
<1>2. CASE UNCHANGED kubeletVars
  BY <1>1, <1>2 DEF kubeletVars
<1>3. CASE op.waited /\ op.kind # "recover" /\ Answer(code)
  <2>1. op.kind \in {"stage", "unstage"} => kubelet = Expects(op.kind)
    BY <1>3 DEF KubeletInv
  <2> QED
    BY <1>1, <1>3, <2>1 DEF Answer, Expects
<1> QED
  BY <1>2, <1>3 DEF Finish

(* The end of a handler, with the pod as it was, or gone, or new.          *)
LEMMA KubeletFinish ==
  ASSUME TypeInv, KubeletInv, op.pc # "idle", NEW code, Finish(code),
         code = "OK" /\ op.kind = "unstage" => pod' = NoPod /\ mount' = "none"
  PROVE  KubeletInv' /\ RecoverInv'
<1>1. op' = NoOp /\ NoOp.pc = "idle" /\ NoOp.kind = "none" /\ NoOp.waited = FALSE
  BY NoOpFits DEF Finish
<1>2. op # NoOp
  BY NoOpFits
<1>3. kubelet \notin {"unstaged", "unmounted"}
  BY <1>2 DEF KubeletInv
<1> QED
  BY <1>1, <1>3, FinishAnswers DEF KubeletInv, RecoverInv, Expects

(* A step of a handler that goes on.                                       *)
LEMMA KubeletGoesOn ==
  ASSUME TypeInv, KubeletInv, op.pc # "idle", UNCHANGED kubeletVars,
         op'.waited = op.waited, op'.kind = op.kind,
         op'.pc \in {"report", "unmount"} => pod' = NoPod
  PROVE  KubeletInv'
<1>1. op # NoOp
  BY NoOpFits
<1>2. kubelet \notin {"unstaged", "unmounted"}
  BY <1>1 DEF KubeletInv
<1> QED
  BY <1>2 DEF KubeletInv, kubeletVars

LEMMA KubeletOfStage ==
  ASSUME TypeInv, KubeletInv, StageSpec \/ StageBinds \/ StageReady \/ StageCheck
  PROVE  KubeletInv' /\ RecoverInv'
<1>1. op.kind = "stage" /\ op.pc # "idle" /\ UNCHANGED podVars
  BY DEF StageSpec, StageBinds, StageReady, StageCheck, At, stageUnchanged, TypeInv, HandlerFits
<1>2. CASE \E code : Finish(code)
  BY <1>1, <1>2, KubeletFinish
<1>3. CASE UNCHANGED kubeletVars /\ op' = [op EXCEPT !.pc = "ensure", !.cfg = config]
  <2>1. op'.waited = op.waited /\ op'.kind = op.kind /\ op'.pc = "ensure"
    BY <1>3 DEF TypeInv, HandlerFits, Ops
  <2> QED
    BY <1>1, <1>3, <2>1, KubeletGoesOn DEF RecoverInv
<1>4. CASE UNCHANGED kubeletVars /\ \E pc \in {"ready", "recreate", "checkStaged"} : Goto(pc)
  <2>1. op'.waited = op.waited /\ op'.kind = op.kind /\ op'.pc \in {"ready", "recreate", "checkStaged"}
    BY <1>4, TypeGoto DEF TypeInv, PCs
  <2> QED
    BY <1>1, <1>4, <2>1, KubeletGoesOn DEF RecoverInv
<1> QED
  BY <1>2, <1>3, <1>4 DEF StageSpec, StageBinds, StageReady, StageCheck

LEMMA KubeletOfEnsure ==
  ASSUME TypeInv, KubeletInv, StageEnsure \/ Reensure
  PROVE  KubeletInv' /\ RecoverInv'
<1>1. op.pc \in {"ensure", "reensure"} /\ op.kind # "unstage"
  BY DEF StageEnsure, Reensure, At, TypeInv, HandlerFits
<1>2. CASE \E code : Finish(code)
  BY <1>1, <1>2, KubeletFinish
<1>3. CASE UNCHANGED kubeletVars /\ \E pc \in {"recreate", "binds", "ready"} : \E st : GotoWith(pc, st)
  <2>1. op'.waited = op.waited /\ op'.kind = op.kind /\ op'.pc \in {"recreate", "binds", "ready"}
    BY <1>3 DEF TypeInv, HandlerFits, GotoWith, Ops
  <2> QED
    BY <1>1, <1>3, <2>1, KubeletGoesOn DEF RecoverInv
<1>4. CASE UNCHANGED kubeletVars /\ Goto("healthy")
  <2>1. op'.waited = op.waited /\ op'.kind = op.kind /\ op'.pc = "healthy"
    BY <1>4, TypeGoto DEF TypeInv, PCs
  <2> QED
    BY <1>1, <1>4, <2>1, KubeletGoesOn DEF RecoverInv
<1>5. CASE StageEnsure
  <2>1. \/ \E code : Finish(code)
        \/ UNCHANGED kubeletVars /\ \E pc \in {"recreate", "binds", "ready"} : \E st : GotoWith(pc, st)
    BY <1>5, Zenon DEF StageEnsure
  <2> QED
    BY <1>2, <1>3, <2>1
<1> QED
  BY <1>2, <1>4, <1>5 DEF Reensure, EndOfRepair

LEMMA KubeletOfDelete ==
  ASSUME TypeInv, KubeletInv, StageRecreate \/ UnstageDelete \/ DeleteOrphan
  PROVE  KubeletInv' /\ RecoverInv'
<1>1. op.pc \in {"recreate", "delete", "orphan"} /\ (op.kind = "unstage" => UnstageDelete)
  BY DEF StageRecreate, UnstageDelete, DeleteOrphan, At, TypeInv, HandlerFits
<1>2. PICK o \in DeleteOutcomes :
        /\ Take(o)
        /\ \/ \E code : Finish(code) /\ (op.kind = "unstage" => code # "OK")
           \/ /\ o.result = "state" /\ Phase(o.st) # "terminating"
              /\ GotoWith("report", o.st) /\ UNCHANGED <<busy, kubeletVars>>
  BY <1>1 DEF StageRecreate, UnstageDelete, DeleteOrphan, At, TypeInv, HandlerFits
<1>3. CASE \E code : Finish(code) /\ (op.kind = "unstage" => code # "OK")
  BY <1>1, <1>3, KubeletFinish
<1>4. CASE /\ o.result = "state" /\ Phase(o.st) # "terminating"
           /\ GotoWith("report", o.st) /\ UNCHANGED kubeletVars
  <2>1. o.pod = NoPod
    BY <1>2, <1>4, DeleteLeaves DEF DeletePod, TypeInv, MemOK
  <2>2. pod' = NoPod
    BY <1>2, <2>1 DEF Take
  <2>3. op'.waited = op.waited /\ op'.kind = op.kind /\ op'.pc = "report"
    BY <1>4 DEF TypeInv, HandlerFits, GotoWith, Ops
  <2> QED
    BY <1>1, <1>4, <2>2, <2>3, KubeletGoesOn DEF RecoverInv
<1> QED
  BY <1>2, <1>3, <1>4

LEMMA KubeletOfUnstage ==
  ASSUME TypeInv, KubeletInv, Report \/ UnstageUnmount
  PROVE  KubeletInv' /\ RecoverInv'
<1>1. op.pc \in {"report", "unmount"} /\ pod = NoPod /\ pod' = pod
  BY DEF Report, UnstageUnmount, At, KubeletInv, podVars
<1>2. CASE Report /\ op.kind = "recover" /\ Finish("OK")
  BY <1>1, <1>2, KubeletFinish
<1>3. CASE UNCHANGED kubeletVars /\ \E pc \in {"ensure", "unmount"} : Goto(pc)
  <2>1. op'.waited = op.waited /\ op'.kind = op.kind /\ op'.pc \in {"ensure", "unmount"}
    BY <1>3, TypeGoto DEF TypeInv, PCs
  <2> QED
    BY <1>1, <1>3, <2>1, KubeletGoesOn DEF RecoverInv
<1>4. CASE Finish("Final") \/ (mount' = "none" /\ Finish("OK"))
  BY <1>1, <1>4, KubeletFinish
<1> QED
  BY <1>2, <1>3, <1>4 DEF Report, UnstageUnmount

LEMMA KubeletOfRecover ==
  ASSUME TypeInv, KubeletInv, RecoverInv, Look \/ DecideRepair \/ Repair \/ Healthy
  PROVE  KubeletInv' /\ RecoverInv'
<1>1. op.pc \in {"look", "decide", "repair", "healthy"} /\ op.kind \in {"publish", "recover"}
  BY DEF Look, DecideRepair, Repair, Healthy, At, TypeInv, HandlerFits
<1>2. CASE \E code : Finish(code)
  BY <1>1, <1>2, KubeletFinish
<1>3. CASE /\ op' = [op EXCEPT !.pc = "decide", !.st = pod, !.bound = published]
           /\ UNCHANGED kubeletVars
  <2>1. op'.waited = op.waited /\ op'.kind = op.kind /\ op'.pc = "decide" /\ op'.bound = published
    BY <1>3 DEF TypeInv, HandlerFits, Ops
  <2> QED
    BY <1>1, <1>3, <2>1, KubeletGoesOn DEF RecoverInv, kubeletVars
<1>4. CASE UNCHANGED kubeletVars /\ \E pc \in {"repair", "reensure", "healthy"} : Goto(pc)
  <2>1. op'.waited = op.waited /\ op'.kind = op.kind /\ op'.pc \in {"repair", "reensure", "healthy"}
    BY <1>4, TypeGoto DEF TypeInv, PCs
  <2> QED
    BY <1>1, <1>4, <2>1, KubeletGoesOn DEF RecoverInv
<1>5. CASE DecideRepair /\ Orphan /\ Goto("orphan") /\ UNCHANGED kubeletVars
  <2>1. op'.waited = op.waited /\ op'.kind = op.kind /\ op'.pc = "orphan"
    BY <1>5, TypeGoto DEF TypeInv, PCs
  <2>2. op # NoOp /\ op.pc = "decide" /\ ~ volData /\ ~ op.bound
    BY <1>1, <1>5, NoOpFits DEF Orphan, DecideRepair, At
  <2>3. kubelet = "failed"
    BY <2>2 DEF KubeletInv
  <2>4. ~ published
    BY <2>2, <2>3 DEF RecoverInv
  <2> QED
    BY <1>1, <1>5, <2>1, <2>3, <2>4, KubeletGoesOn DEF RecoverInv, kubeletVars
<1> QED
  BY <1>2, <1>3, <1>4, <1>5 DEF Look, DecideRepair, Repair, Healthy, EndOfRepair

LEMMA KubeletOfBegin ==
  ASSUME TypeInv, KubeletInv, BeginRequest \/ BeginRecover \/ LateRequest \/ PruneBackoffs
  PROVE  KubeletInv' /\ RecoverInv'
<1>1. ASSUME NEW kind, NEW pc, Begin(kind, pc), kind \in {"stage", "unstage", "publish", "recover"},
             pc \in {"spec", "delete", "look"}, kind # "recover" => req = kind,
             kind = "recover" => pod # NoPod
      PROVE  KubeletInv' /\ RecoverInv'
  <2>1. op'.kind = kind /\ op'.pc = pc /\ UNCHANGED <<podVars, kubeletVars>>
    BY <1>1, NoOpFits DEF Begin, Ops
  <2>2. kubelet \notin {"unstaged", "unmounted"}
    BY <1>1 DEF KubeletInv, Expects
  <2> QED
    BY <1>1, <2>1, <2>2 DEF KubeletInv, RecoverInv, kubeletVars, podVars
<1>2. CASE BeginRequest \/ BeginRecover
  BY <1>1, <1>2 DEF BeginRequest, BeginRecover
<1>3. CASE LateRequest \/ PruneBackoffs
  <2>1. UNCHANGED <<podVars, volData, kubelet, published, req, op>> /\ op = NoOp
    BY <1>3 DEF LateRequest, PruneBackoffs, kubeletVars
  <2> QED
    BY <2>1, NoOpFits DEF KubeletInv, RecoverInv, podVars
<1> QED
  BY <1>2, <1>3

LEMMA KubeletOfKubelet ==
  ASSUME TypeInv, KubeletInv, RecoverInv, KubeletStep
  PROVE  KubeletInv' /\ RecoverInv'
<1>1. UNCHANGED outside
  BY DEF KubeletStep, KubeletStage, KubeletPublish, PublishHealthy, KubeletUnpublish, KubeletUnstage, KubeletCleans,
         ConsumerComesOrGoes, ConfigChanges
<1>2. pod' = pod /\ mount' = mount /\ op' = op
  BY <1>1 DEF outside, podVars
<1>3. CASE KubeletStage \/ KubeletUnstage
  BY <1>2, <1>3 DEF KubeletStage, KubeletUnstage, KubeletInv, RecoverInv, Expects
<1>4. CASE KubeletPublish
  BY <1>2, <1>4 DEF KubeletPublish, KubeletInv, RecoverInv, Expects
<1>5. CASE PublishHealthy
  <2>1. kubelet = "mounted" /\ (op.waited => op.kind \notin {"stage", "unstage", "publish"})
    BY <1>5 DEF PublishHealthy, KubeletInv, Expects
  <2> QED
    BY <1>2, <1>5, <2>1 DEF PublishHealthy, KubeletInv, RecoverInv
<1>6. CASE KubeletUnpublish \/ ConsumerComesOrGoes \/ ConfigChanges
  BY <1>2, <1>6 DEF KubeletUnpublish, ConsumerComesOrGoes, ConfigChanges, KubeletInv, RecoverInv, Expects
<1>7. CASE KubeletCleans
  BY <1>2, <1>7 DEF KubeletCleans, KubeletInv, RecoverInv, Expects
<1> QED
  BY <1>3, <1>4, <1>5, <1>6, <1>7 DEF KubeletStep

LEMMA KubeletOfGivingUp ==
  ASSUME TypeInv, KubeletInv, RecoverInv, KubeletTimeout \/ KubeletRestarts \/ Crash
  PROVE  KubeletInv' /\ RecoverInv'
<1>0. op.waited \in BOOLEAN /\ HandlerFits(op)
  BY DEF TypeInv, HandlerFits, Ops
<1>1. CASE KubeletTimeout
  <2> DEFINE w == op.waited /\ ~ Served
  <2>1. w \in BOOLEAN /\ (op.waited = FALSE => w = FALSE) /\ op' = [op EXCEPT !.waited = w]
    BY <1>0, <1>1 DEF KubeletTimeout
  <2>2. w => op.kind \notin {"stage", "unstage", "publish"}
    BY DEF Served, KubeletInv
  <2> HIDE DEF w
  <2>3. op'.pc = op.pc /\ op'.kind = op.kind /\ op'.bound = op.bound /\ op'.waited = w /\ (op = NoOp => op' = NoOp)
    BY <1>0, <2>1, TypeWaited
  <2>4. UNCHANGED <<podVars, volData, kubelet, published>> /\ req' = "none"
    BY <1>1 DEF KubeletTimeout
  <2> QED
    BY <2>2, <2>3, <2>4 DEF KubeletInv, RecoverInv, podVars
<1>2. CASE KubeletRestarts
  <2> DEFINE w == op.waited /\ op.kind = "recover"
  <2>1. w \in BOOLEAN /\ (op.waited = FALSE => w = FALSE) /\ op' = [op EXCEPT !.waited = w]
    BY <1>0, <1>2 DEF KubeletRestarts
  <2>2. w => op.kind \notin {"stage", "unstage", "publish"}
    OBVIOUS
  <2> HIDE DEF w
  <2>3. op'.pc = op.pc /\ op'.kind = op.kind /\ op'.bound = op.bound /\ op'.waited = w /\ (op = NoOp => op' = NoOp)
    BY <1>0, <2>1, TypeWaited
  <2>4. /\ UNCHANGED <<podVars, volData, published>> /\ req' = "none"
        /\ kubelet' = IF kubelet = "mounted" THEN "uncertain" ELSE kubelet
    BY <1>2 DEF KubeletRestarts
  <2> QED
    BY <2>2, <2>3, <2>4 DEF KubeletInv, RecoverInv, podVars
<1>3. CASE Crash
  BY <1>3, NoOpFits DEF Crash, KubeletInv, RecoverInv, podVars
<1> QED
  BY <1>1, <1>2, <1>3

LEMMA KubeletOfPod ==
  ASSUME TypeInv, KubeletInv, RecoverInv, PodStep \/ RestartTime \/ GraceOver
  PROVE  KubeletInv' /\ RecoverInv'
<1>1. UNCHANGED <<kubeletVars, op>>
  BY DEF PodStep, PodReady, PodExits, DeletedByHand, RestartTime, GraceOver, podSteps
<1>2. UNCHANGED podVars \/ pod # NoPod
  BY PodTypes DEF PodStep, PodReady, PodExits, DeletedByHand, RestartTime, GraceOver, Running
<1> QED
  BY <1>1, <1>2 DEF KubeletInv, RecoverInv, kubeletVars, podVars

LEMMA KubeletStepKeeps == TypeInv /\ KubeletInv /\ RecoverInv /\ [Next]_vars => KubeletInv' /\ RecoverInv'
<1> SUFFICES ASSUME TypeInv, KubeletInv, RecoverInv, [Next]_vars PROVE KubeletInv' /\ RecoverInv'
  OBVIOUS
<1>1. CASE UNCHANGED vars
  BY <1>1 DEF vars, podVars, kubeletVars, KubeletInv, RecoverInv
<1> QED
  BY <1>1, KubeletOfStage, KubeletOfEnsure, KubeletOfDelete, KubeletOfUnstage, KubeletOfRecover, KubeletOfBegin,
     KubeletOfKubelet, KubeletOfGivingUp, KubeletOfPod
     DEF Next, Handlers, KubeletStep, PodStep

LEMMA KubeletHolds == Spec => [](TypeInv /\ KubeletInv /\ RecoverInv)
<1> QED
  BY TypeInit, TypeStep, KubeletInit, KubeletStepKeeps, PTL DEF Spec

(* Once kubelet has an OK to its unstage, no mount pod and no mount is     *)
(* left, through any number of failures, timeouts and restarts.            *)
THEOREM UnstagedIsGone == Spec => []UnstagedMeansGone
<1>1. KubeletInv => UnstagedMeansGone
  BY DEF KubeletInv, UnstagedMeansGone
<1> QED
  BY <1>1, KubeletHolds, PTL

(* The recovery deletes no pod of a volume that kubelet holds mounted or   *)
(* that is published, although it decided on what it read before.          *)
THEOREM RecoverySpares == Spec => RecoverySparesStaged
<1>1. RecoverInv => [op.pc = "orphan" /\ pod' # pod => kubelet # "mounted" /\ ~ published]_vars
  BY DEF RecoverInv
<1> QED
  BY <1>1, KubeletHolds, PTL DEF RecoverySparesStaged

-----------------------------------------------------------------------------
(* Credentials that were refused.  While they are, the Manager's backoff   *)
(* and the node plugin both hold the give-up, and no pod runs; a fatal     *)
(* exit that is not the last only counts while the node plugin holds no    *)
(* give-up; and a volume whose give-up was told is held as given up.       *)

GiveUpKept ==
  refused # NoConfig => /\ backoff.gaveUp = TRUE /\ backoff.cfg = refused /\ gaveUp = "recent"
                        /\ ~ Running(pod) /\ pod.deleted = FALSE

SeriesInv ==
  /\ gaveUp # "no" => (backoff.fatal => backoff.gaveUp)
  /\ Running(pod) => ~ backoff.gaveUp
  /\ backoff.cfg = NoConfig => ~ backoff.gaveUp /\ ~ backoff.fatal

TellingInv == giveUps \in {0, 1} /\ (giveUps = 1 => gaveUp # "no")

RefusedInv ==
  /\ GiveUpKept /\ SeriesInv /\ TellingInv
  /\ op.pc = "checkStaged" => refused = NoConfig /\ giveUps = 0

LEMMA RefusedInit == Init => RefusedInv
BY PodTypes, NoOpFits DEF Init, RefusedInv, GiveUpKept, SeriesInv, TellingInv, Running

(* What Ensure may make of a give-up. *)
LEMMA RefusedTakeEnsure ==
  ASSUME TypeInv, RefusedInv, NEW c \in Configs, NEW o \in EnsureOutcomes(c), Take(o), AfterEnsure(o)
  PROVE  /\ GiveUpKept' /\ SeriesInv' /\ TellingInv'
         /\ pod'.status = "starting" /\ ~ Running(pod) => pod'.cfg # refused
<1>1. EnsurePod(c, o) /\ EnsureBackoff(c, o) /\ Fits(pod) /\ o.backoff \in Backoffs /\ backoff \in Backoffs
  BY EnsureLeaves DEF TypeInv, MemOK, PodOK, EnsurePod, Outcomes
<1>2. /\ pod' = o.pod /\ backoff' = o.backoff
      /\ refused' = IF o.backoff.gaveUp /\ ~ (backoff.gaveUp /\ backoff.cfg = o.backoff.cfg) THEN o.backoff.cfg
                    ELSE IF o.backoff.cfg \in {refused, NoConfig} THEN refused ELSE NoConfig
  BY DEF Take
<1>3. c # NoConfig /\ o.result \in {"state", "error", "gaveUp"}
  BY <1>1 DEF EnsurePod, Outcomes
<1>4. /\ o.result = "gaveUp" => gaveUp' = IF op.kind = "stage" \/ gaveUp = "no" THEN "recent" ELSE gaveUp
      /\ o.result = "error" => gaveUp' = gaveUp
      /\ o.result = "state" => gaveUp' = "no"
  BY DEF AfterEnsure, TellGaveUp
<1>5. ASSUME o.backoff.gaveUp, ~ (backoff.gaveUp /\ backoff.cfg = o.backoff.cfg)
      PROVE  /\ Exited(pod) /\ ~ pod.deleted /\ o.backoff.cfg = c /\ o.result = "gaveUp"
             /\ gaveUp = "no" /\ gaveUp' = "recent" /\ o.pod = pod
  <2>1. /\ Exited(pod) /\ ~ pod.deleted /\ backoff.fatal
        /\ o.result = "gaveUp" /\ o.backoff.cfg = c /\ backoff.cfg = c /\ o.pod = pod
    BY <1>1, <1>5, Zenon DEF EnsureBackoff
  <2>2. gaveUp = "no"
    BY <1>5, <2>1, Zenon DEF RefusedInv, SeriesInv
  <2> QED
    BY <1>4, <2>1, <2>2
<1>6. ASSUME refused # NoConfig, o.backoff.cfg = refused
      PROVE  /\ o.backoff.gaveUp = TRUE /\ o.pod = pod /\ gaveUp' = "recent" /\ o.result # "state"
  <2>1. backoff.gaveUp = TRUE /\ backoff.cfg = refused /\ gaveUp = "recent" /\ ~ Running(pod) /\ ~ pod.deleted
    BY <1>6 DEF RefusedInv, GiveUpKept
  <2>2. o.backoff.gaveUp
    BY <1>1, <1>6, <2>1, Zenon DEF EnsureBackoff
  <2>3. o.pod = pod /\ o.result # "state"
    BY <1>1, <2>1, <2>2, Zenon DEF EnsureBackoff
  <2>4. o.backoff.gaveUp = TRUE
    BY <1>1, <2>2 DEF Backoffs
  <2> QED
    BY <1>3, <1>4, <2>1, <2>3, <2>4
<1>7. GiveUpKept'
  <2>1. CASE o.backoff.gaveUp /\ ~ (backoff.gaveUp /\ backoff.cfg = o.backoff.cfg)
    BY <1>1, <1>2, <1>5, <2>1 DEF GiveUpKept, Running, Exited, Backoffs, Fits, MountPods
  <2>2. CASE ~ (o.backoff.gaveUp /\ ~ (backoff.gaveUp /\ backoff.cfg = o.backoff.cfg))
    <3>1. refused' # NoConfig => refused' = refused /\ o.backoff.cfg \in {refused, NoConfig}
      BY <1>2, <2>2
    <3>2. refused # NoConfig => o.backoff.cfg # NoConfig
      BY <1>1, <1>3 DEF EnsureBackoff, RefusedInv, GiveUpKept
    <3> QED
      BY <1>2, <1>6, <3>1, <3>2 DEF RefusedInv, GiveUpKept
  <2> QED
    BY <2>1, <2>2
<1>8. SeriesInv'
  <2>1. gaveUp' # "no" => (o.backoff.fatal => o.backoff.gaveUp)
    <3>1. CASE o.result = "state"
      BY <1>4, <3>1
    <3>2. CASE o.result = "gaveUp"
      BY <1>1, <3>2, Zenon DEF EnsureBackoff
    <3>3. CASE o.result = "error"
      <4>1. gaveUp' = gaveUp /\ o.result # "state"
        BY <1>4, <3>3
      <4> QED
        BY <1>1, <4>1, Zenon DEF EnsureBackoff, RefusedInv, SeriesInv
    <3> QED
      BY <1>3, <3>1, <3>2, <3>3
  <2>2. Running(o.pod) => ~ o.backoff.gaveUp
    <3>1. ASSUME o.backoff.gaveUp PROVE ~ Running(pod) /\ o.pod = pod
      <4>1. o.pod = pod /\ (backoff.gaveUp \/ Exited(pod))
        BY <1>1, <3>1, Zenon DEF EnsureBackoff
      <4>2. backoff.gaveUp => ~ Running(pod)
        BY Zenon DEF RefusedInv, SeriesInv
      <4> QED
        BY <4>1, <4>2 DEF Running, Exited
    <3> QED
      BY <3>1
  <2>3. o.backoff.cfg = NoConfig => ~ o.backoff.gaveUp /\ ~ o.backoff.fatal
    <3>1. o.backoff.cfg = NoConfig => o.backoff = backoff
      BY <1>1, <1>3 DEF EnsureBackoff
    <3> QED
      BY <3>1, Zenon DEF RefusedInv, SeriesInv
  <2> QED
    BY <1>2, <2>1, <2>2, <2>3, Zenon DEF SeriesInv, Running
<1>9. TellingInv'
  <2>1. o.result = "state" => ~ o.backoff.gaveUp
    <3>1. ASSUME o.result = "state", o.backoff.gaveUp PROVE FALSE
      <4>1. Running(pod) /\ (backoff.gaveUp \/ Exited(pod))
        BY <1>1, <3>1, Zenon DEF EnsureBackoff
      <4>2. ~ backoff.gaveUp
        BY <4>1, Zenon DEF RefusedInv, SeriesInv
      <4> QED
        BY <4>1, <4>2 DEF Running, Exited
    <3> QED
      BY <3>1
  <2>2. giveUps \in {0, 1} /\ (giveUps = 1 => gaveUp # "no")
    BY DEF RefusedInv, TellingInv
  <2>3. CASE o.result = "gaveUp"
    <3>1. giveUps' = IF gaveUp = "no" THEN giveUps + 1 ELSE giveUps
      BY <2>3 DEF AfterEnsure, TellGaveUp
    <3> QED
      BY <1>4, <2>2, <2>3, <3>1 DEF TellingInv
  <2>4. CASE o.result # "gaveUp"
    <3>1. giveUps' \in {giveUps, 0} /\ (~ o.backoff.gaveUp => giveUps' = 0)
      BY <2>4 DEF AfterEnsure
    <3> QED
      BY <1>3, <1>4, <2>1, <2>2, <2>4, <3>1 DEF TellingInv
  <2> QED
    BY <2>3, <2>4
<1>10. ASSUME pod'.status = "starting", ~ Running(pod) PROVE pod'.cfg # refused
  <2>1. o.pod # pod
    BY <1>2, <1>10 DEF Running
  <2>2. o.pod = NewPod(c) \/ o.pod = NoPod
    BY <1>1, <1>3, <2>1 DEF EnsurePod
  <2>3. pod'.cfg = c
    BY <1>2, <1>10, <2>2, PodTypes
  <2>4. ~ o.backoff.gaveUp
    BY <1>1, <2>1, Zenon DEF EnsureBackoff
  <2>5. ASSUME refused = c PROVE FALSE
    <3>1. backoff.gaveUp /\ backoff.cfg = c /\ ~ pod.deleted
      BY <1>3, <2>5 DEF RefusedInv, GiveUpKept
    <3> QED
      BY <1>1, <2>4, <3>1, Zenon DEF EnsureBackoff
  <2> QED
    BY <2>3, <2>5
<1> QED
  BY <1>7, <1>8, <1>9, <1>10

(* Delete keeps the give-up of a pod that was not being deleted. *)
LEMMA RefusedTakeDelete ==
  ASSUME TypeInv, RefusedInv, NEW o \in DeleteOutcomes, Take(o), UNCHANGED <<giveUps, gaveUp>>
  PROVE  /\ GiveUpKept' /\ SeriesInv' /\ TellingInv'
         /\ pod'.status = "starting" => Running(pod)
<1>1. DeletePod(o) /\ DeleteBackoff(o) /\ Fits(pod) /\ o.backoff \in Backoffs /\ backoff \in Backoffs
  BY DeleteLeaves DEF TypeInv, MemOK, PodOK, DeletePod, Outcomes
<1>2. /\ pod' = o.pod /\ backoff' = o.backoff
      /\ refused' = IF o.backoff.gaveUp /\ ~ (backoff.gaveUp /\ backoff.cfg = o.backoff.cfg) THEN o.backoff.cfg
                    ELSE IF o.backoff.cfg \in {refused, NoConfig} THEN refused ELSE NoConfig
  BY DEF Take
<1>3. ~ (o.backoff.gaveUp /\ ~ (backoff.gaveUp /\ backoff.cfg = o.backoff.cfg))
  BY <1>1, Zenon DEF DeleteBackoff
<1>4. ASSUME ~ Running(pod) PROVE ~ Running(o.pod) /\ o.pod \in {pod, NoPod}
  <2>1. o.pod = pod \/ o.pod = NoPod
    BY <1>1, <1>4 DEF DeletePod
  <2> QED
    BY <1>4, <2>1, PodTypes DEF Running
<1>5. GiveUpKept'
  <2>1. SUFFICES ASSUME refused' # NoConfig
                 PROVE  /\ o.backoff.gaveUp = TRUE /\ o.backoff.cfg = refused' /\ gaveUp = "recent"
                        /\ ~ Running(o.pod) /\ o.pod.deleted = FALSE
    BY <1>2 DEF GiveUpKept, Running
  <2>2. refused' = refused
    BY <1>2, <1>3, <2>1
  <2>3. backoff.gaveUp = TRUE /\ backoff.cfg = refused /\ gaveUp = "recent" /\ ~ Running(pod) /\ pod.deleted = FALSE
    BY <2>1, <2>2 DEF RefusedInv, GiveUpKept
  <2>4. o.backoff.gaveUp /\ o.backoff.cfg = backoff.cfg
    BY <1>1, <2>3 DEF DeleteBackoff
  <2>5. o.backoff.gaveUp = TRUE
    BY <1>1, <2>4 DEF Backoffs
  <2> QED
    BY <1>4, <2>2, <2>3, <2>4, <2>5, PodTypes
<1>6. SeriesInv'
  <2>1. gaveUp # "no" => (o.backoff.fatal => o.backoff.gaveUp)
    BY <1>1, Zenon DEF DeleteBackoff, RefusedInv, SeriesInv
  <2>2. Running(o.pod) => ~ o.backoff.gaveUp
    <3>1. o.backoff.gaveUp => ~ Running(pod)
      BY <1>1, Zenon DEF DeleteBackoff, RefusedInv, SeriesInv
    <3> QED
      BY <1>4, <3>1
  <2>3. o.backoff.cfg = NoConfig => ~ o.backoff.gaveUp /\ ~ o.backoff.fatal
    <3>1. CASE o.backoff = NoBackoff
      BY <3>1, PodTypes
    <3>2. CASE o.backoff.cfg = backoff.cfg
      BY <1>1, <3>2, Zenon DEF DeleteBackoff, RefusedInv, SeriesInv
    <3> QED
      BY <1>1, <3>1, <3>2 DEF DeleteBackoff
  <2> QED
    BY <1>2, <2>1, <2>2, <2>3, Zenon DEF SeriesInv, Running
<1>7. TellingInv'
  BY DEF RefusedInv, TellingInv
<1>8. ASSUME pod'.status = "starting" PROVE Running(pod)
  BY <1>2, <1>4, <1>8 DEF Running
<1> QED
  BY <1>5, <1>6, <1>7, <1>8

(* A ready pod, an unstage and a restart of the node plugin start over.    *)
LEMMA RefusedReset ==
  ASSUME TypeInv, RefusedInv, refused' = NoConfig, giveUps' = 0,
         ResetBackoff \/ backoff' = NoBackoff, pod' = pod
  PROVE  GiveUpKept' /\ SeriesInv' /\ TellingInv' /\ (pod'.status = "starting" => Running(pod))
<1>1. backoff'.gaveUp = FALSE /\ backoff'.fatal = FALSE
  <2>1. CASE ResetBackoff
    BY <2>1 DEF ResetBackoff, Cleared, TypeInv, MemOK, Backoffs
  <2>2. CASE backoff' = NoBackoff
    BY <2>2 DEF NoBackoff, FreshBackoff
  <2> QED
    BY <2>1, <2>2
<1> QED
  BY <1>1 DEF GiveUpKept, SeriesInv, TellingInv, Running

LEMMA RefusedSame ==
  ASSUME RefusedInv, UNCHANGED <<pod, backoff, gaveUp, giveUps, refused>>
  PROVE  GiveUpKept' /\ SeriesInv' /\ TellingInv' /\ (pod'.status = "starting" => Running(pod))
BY DEF RefusedInv, GiveUpKept, SeriesInv, TellingInv, Running

LEMMA RefusedOfHandlers ==
  ASSUME TypeInv, RefusedInv, Handlers
  PROVE  RefusedInv' /\ (pod'.status = "starting" /\ ~ Running(pod) => pod'.cfg # refused)
<1> DEFINE Kept == /\ GiveUpKept' /\ SeriesInv' /\ TellingInv'
                   /\ pod'.status = "starting" /\ ~ Running(pod) => pod'.cfg # refused
<1>0. HandlerFits(op) /\ NoOp.pc # "checkStaged"
  BY NoOpFits DEF TypeInv
<1>1. CASE StageEnsure \/ Reensure
  <2>1. PICK c \in Configs : \E o \in EnsureOutcomes(c) : Take(o) /\ AfterEnsure(o)
    BY <1>0, <1>1 DEF StageEnsure, Reensure, At, HandlerFits
  <2>2. Kept
    BY <2>1, RefusedTakeEnsure
  <2>3. op'.pc # "checkStaged"
    <3>1. \/ \E code : Finish(code)
          \/ \E pc \in {"recreate", "binds", "ready"} : \E st : GotoWith(pc, st)
          \/ Goto("healthy")
      BY <1>1, Zenon DEF StageEnsure, Reensure, EndOfRepair
    <3> QED
      BY <1>0, <3>1 DEF Finish, GotoWith, Goto, HandlerFits, Ops
  <2> QED
    BY <2>2, <2>3 DEF RefusedInv
<1>2. CASE StageRecreate \/ UnstageDelete \/ DeleteOrphan
  <2>1. PICK o \in DeleteOutcomes : Take(o) /\ UNCHANGED <<giveUps, gaveUp>>
    BY <1>2 DEF StageRecreate, UnstageDelete, DeleteOrphan
  <2>2. Kept
    BY <2>1, RefusedTakeDelete
  <2>3. op'.pc # "checkStaged"
    BY <1>0, <1>2 DEF StageRecreate, UnstageDelete, DeleteOrphan, Finish, GotoWith, HandlerFits, Ops
  <2> QED
    BY <2>2, <2>3 DEF RefusedInv
<1>3. CASE StageReady
  <2>0. pod' = pod /\ gaveUp' = gaveUp
    BY <1>3 DEF StageReady, podVars
  <2>1. CASE Goto("checkStaged") /\ ResetBackoff
    <3>1. Kept
      BY <2>0, <2>1, RefusedReset DEF ResetBackoff
    <3> QED
      BY <2>1, <3>1 DEF RefusedInv, ResetBackoff
  <2>2. CASE Finish("Aborted") /\ UNCHANGED <<backoff, giveUps, refused>>
    <3>1. Kept
      BY <2>0, <2>2, RefusedSame
    <3> QED
      BY <1>0, <2>2, <3>1 DEF RefusedInv, Finish
  <2> QED
    BY <1>3, <2>1, <2>2 DEF StageReady, history
<1>4. CASE StageCheck
  <2>1. /\ pod' = pod /\ backoff' = backoff /\ giveUps' = 0 /\ refused' = NoConfig /\ gaveUp' \in {"no", gaveUp}
        /\ op' = NoOp
    BY <1>4 DEF StageCheck, At, podVars, history, RefusedInv, Finish
  <2>2. Kept
    BY <2>1 DEF RefusedInv, GiveUpKept, SeriesInv, TellingInv, Running
  <2> QED
    BY <1>0, <2>1, <2>2 DEF RefusedInv
<1>5. CASE Repair
  <2>0. pod' = pod /\ op'.pc # "checkStaged"
    BY <1>0, <1>5 DEF Repair, podVars, EndOfRepair, Finish, Goto, HandlerFits, Ops
  <2>1. CASE ResetBackoff
    <3>1. Kept
      BY <2>0, <2>1, RefusedReset DEF ResetBackoff
    <3> QED
      BY <2>0, <3>1 DEF RefusedInv
  <2>2. CASE UNCHANGED <<backoff, gaveUp, giveUps, refused>>
    <3>1. Kept
      BY <2>0, <2>2, RefusedSame
    <3> QED
      BY <2>0, <3>1 DEF RefusedInv
  <2> QED
    BY <1>5, <2>1, <2>2 DEF Repair
<1>6. CASE Report
  <2>0. pod' = pod /\ op'.pc # "checkStaged"
    BY <1>0, <1>6 DEF Report, podVars, Finish, Goto, HandlerFits, Ops
  <2>1. CASE backoff' = NoBackoff /\ giveUps' = 0 /\ refused' = NoConfig
    <3>1. Kept
      BY <2>0, <2>1, RefusedReset
    <3> QED
      BY <2>0, <3>1 DEF RefusedInv
  <2>2. CASE UNCHANGED <<backoff, gaveUp, giveUps, refused>>
    <3>1. Kept
      BY <2>0, <2>2, RefusedSame
    <3> QED
      BY <2>0, <3>1 DEF RefusedInv
  <2> QED
    BY <1>6, <2>1, <2>2 DEF Report
<1>7. CASE StageSpec \/ StageBinds \/ UnstageUnmount \/ Look \/ DecideRepair \/ Healthy
  <2>1. UNCHANGED <<pod, backoff, gaveUp, giveUps, refused>>
    BY <1>7 DEF StageSpec, StageBinds, UnstageUnmount, Look, DecideRepair, Healthy, stageUnchanged, podVars, history
  <2>2. op'.pc # "checkStaged"
    <3>1. \/ \E code : Finish(code)
          \/ \E pc \in {"ready", "recreate", "healthy", "orphan", "repair", "reensure"} : Goto(pc)
          \/ op' = [op EXCEPT !.pc = "ensure", !.cfg = config]
          \/ op' = [op EXCEPT !.pc = "decide", !.st = pod, !.bound = published]
      BY <1>7 DEF StageSpec, StageBinds, UnstageUnmount, Look, DecideRepair, Healthy
    <3> QED
      BY <1>0, <3>1 DEF Finish, Goto, HandlerFits, Ops
  <2> QED
    BY <2>1, <2>2, RefusedSame DEF RefusedInv
<1> QED
  BY <1>1, <1>2, <1>3, <1>4, <1>5, <1>6, <1>7 DEF Handlers

LEMMA RefusedOfOthers ==
  ASSUME TypeInv, RefusedInv, [Next]_vars, ~ Handlers
  PROVE  RefusedInv' /\ (pod'.status = "starting" => Running(pod))
<1>0. HandlerFits(op) /\ NoOp.pc # "checkStaged"
  BY NoOpFits DEF TypeInv
<1>1. CASE BeginRequest \/ BeginRecover
  <2>1. UNCHANGED <<pod, backoff, gaveUp, giveUps, refused>> /\ \E kind, pc : Begin(kind, pc) /\ pc # "checkStaged"
    BY <1>1 DEF BeginRequest, BeginRecover, Begin, podVars, history
  <2>2. op'.pc # "checkStaged"
    BY <2>1, NoOpFits DEF Begin, Ops
  <2> QED
    BY <2>1, <2>2, RefusedSame DEF RefusedInv
<1>2. CASE LateRequest \/ KubeletStep \/ UNCHANGED vars
  <2>1. UNCHANGED <<pod, backoff, gaveUp, giveUps, refused, op>>
    BY <1>2 DEF LateRequest, KubeletStep, KubeletStage, KubeletPublish, PublishHealthy, KubeletUnpublish, KubeletUnstage,
         KubeletCleans, ConsumerComesOrGoes, ConfigChanges, outside, vars, podVars, memVars, history
  <2> QED
    BY <2>1, RefusedSame DEF RefusedInv
<1>3. CASE KubeletTimeout \/ KubeletRestarts
  <2>1. UNCHANGED <<pod, backoff, gaveUp, giveUps, refused>>
    BY <1>3 DEF KubeletTimeout, KubeletRestarts, podVars, memVars, history
  <2>2. op'.pc = op.pc
    BY <1>0, <1>3 DEF KubeletTimeout, KubeletRestarts, HandlerFits, Ops
  <2> QED
    BY <2>1, <2>2, RefusedSame DEF RefusedInv
<1>4. CASE Crash
  <2>1. /\ refused' = NoConfig /\ giveUps' = 0 /\ backoff' = NoBackoff /\ pod' = pod /\ op' = NoOp
    BY <1>4 DEF Crash, podVars
  <2> QED
    BY <1>0, <2>1, RefusedReset DEF RefusedInv
<1>5. CASE PruneBackoffs
  <2>1. /\ gaveUp # "recent" /\ refused' = refused /\ giveUps' = 0 /\ backoff' = NoBackoff /\ pod' = pod /\ op' = op
        /\ op = NoOp
    BY <1>5 DEF PruneBackoffs, podVars
  <2>2. refused' = NoConfig
    BY <2>1 DEF RefusedInv, GiveUpKept
  <2> QED
    BY <1>0, <2>1, <2>2, RefusedReset DEF RefusedInv
<1>6. CASE RestartTime
  <2>1. /\ UNCHANGED <<pod, gaveUp, giveUps, refused, op>>
        /\ backoff'.cfg = backoff.cfg /\ backoff'.gaveUp = backoff.gaveUp /\ backoff'.fatal = backoff.fatal
    BY <1>6 DEF RestartTime, podVars, history, TypeInv, MemOK, Backoffs
  <2> QED
    BY <2>1 DEF RefusedInv, GiveUpKept, SeriesInv, TellingInv, Running
<1>7. CASE GraceOver
  <2>1. UNCHANGED <<pod, backoff, giveUps, op>> /\ gaveUp # "no" /\ gaveUp' = "old" /\ refused' = NoConfig
    BY <1>7 DEF GraceOver, podVars
  <2> QED
    BY <2>1 DEF RefusedInv, GiveUpKept, SeriesInv, TellingInv, Running
<1>8. CASE PodStep
  <2>1. UNCHANGED <<backoff, gaveUp, giveUps, op>> /\ refused' \in {refused, NoConfig}
    BY <1>8 DEF PodStep, PodReady, PodExits, DeletedByHand, podSteps, memVars, history
  <2>2. (Running(pod)' => Running(pod)) /\ (Running(pod) \/ refused' = NoConfig)
    BY <1>8 DEF PodStep, PodReady, PodExits, DeletedByHand, Running, TypeInv, PodOK, Fits, MountPods
  <2>3. refused' = NoConfig
    BY <2>1, <2>2 DEF RefusedInv, GiveUpKept
  <2> QED
    BY <2>1, <2>2, <2>3 DEF RefusedInv, GiveUpKept, SeriesInv, TellingInv, Running
<1> QED
  BY <1>1, <1>2, <1>3, <1>4, <1>5, <1>6, <1>7, <1>8 DEF Next, KubeletStep, PodStep

LEMMA RefusedHolds == Spec => [](TypeInv /\ RefusedInv)
<1>1. TypeInv /\ RefusedInv /\ [Next]_vars => RefusedInv'
  BY RefusedOfHandlers, RefusedOfOthers
<1> QED
  BY <1>1, TypeInit, TypeStep, RefusedInit, PTL DEF Spec

(* Credentials that were refused to the last try of a series log in no     *)
(* more, until something allows new tries.                                 *)
THEOREM RefusedStaysOut == Spec => NoLoginAfterGiveUp
<1>1. TypeInv /\ RefusedInv /\ [Next]_vars => [pod'.status = "starting" /\ ~ Running(pod) => pod'.cfg # refused]_vars
  BY RefusedOfHandlers, RefusedOfOthers
<1> QED
  BY <1>1, RefusedHolds, PTL DEF Spec, NoLoginAfterGiveUp

(* A give-up is told once, through kubelet's retries and restarts and      *)
(* failed requests; a restart of the node plugin forgets it.               *)
THEOREM GiveUpsToldOnce == Spec => []GiveUpToldOnce
<1>1. RefusedInv => GiveUpToldOnce
  BY DEF RefusedInv, TellingInv, GiveUpToldOnce
<1> QED
  BY <1>1, RefusedHolds, PTL

-----------------------------------------------------------------------------
(* What a pod lost.  It is told while nothing was told of that pod, either *)
(* of a pod that is still there, as it exited when the handler looked, or  *)
(* of one that is gone; and a pod that runs has nothing told of it.        *)

LossInv ==
  /\ losses \in {0, 1}
  /\ losses = 1 /\ ~ told => pod = NoPod /\ (op.pc = "report" => ~ Exited(op.st))
  /\ op.pc \in {"ready", "decide"} /\ Exited(op.st) => Exited(pod) /\ pod.exit = op.st.exit
  /\ op.pc = "binds" => ~ Exited(op.st)
  /\ Exited(pod) /\ pod.exit = "lost" /\ told => losses = 1
  /\ Running(pod) => ~ told

LEMMA LossInit == Init => LossInv
BY PodTypes, NoOpFits DEF Init, LossInv, Exited, Running

LEMMA TakeTells ==
  ASSUME NEW o, Take(o)
  PROVE  /\ pod' = o.pod
         /\ Created(o) => told' = FALSE /\ losses' = 0
         /\ ~ Created(o) /\ told \in BOOLEAN => told' = told /\ losses' = losses
BY DEF Take

(* A handler that tells nothing, or the end of one.                        *)
LEMMA LossSame ==
  ASSUME LossInv, UNCHANGED <<pod, told, losses>>, op'.pc \notin {"report", "ready", "decide", "binds"}
  PROVE  LossInv'
BY DEF LossInv, Exited, Running

(* What is told of a pod found dead.                                       *)
LEMMA LossEarly ==
  ASSUME TypeInv, LossInv, op.pc \in {"ready", "decide"}, ReportExitEarly(op.st), pod' = pod,
         op'.pc \notin {"report", "ready", "decide", "binds"}
  PROVE  LossInv'
<1>1. told \in BOOLEAN
  BY DEF TypeInv, MemOK
<1>2. CASE Exited(op.st) /\ op.st.exit # "none" /\ ~ told
  <2>1. told' = TRUE /\ losses' = IF op.st.exit = "lost" THEN losses + 1 ELSE losses
    BY <1>2 DEF ReportExitEarly, Emit
  <2>2. Exited(pod) /\ pod.exit = op.st.exit
    BY <1>2 DEF LossInv
  <2>3. losses = 0
    BY <1>2, <2>2, PodTypes DEF LossInv, Exited
  <2> QED
    BY <2>1, <2>2, <2>3 DEF LossInv, Exited, Running
<1>3. CASE ~ (Exited(op.st) /\ op.st.exit # "none" /\ ~ told)
  <2>1. told' = told /\ losses' = losses
    BY <1>3 DEF ReportExitEarly, DoNotEmit
  <2> QED
    BY <2>1, LossSame
<1> QED
  BY <1>2, <1>3

LEMMA LossOfEnsure ==
  ASSUME TypeInv, LossInv, StageEnsure \/ Reensure
  PROVE  LossInv'
<1>0. HandlerFits(op) /\ told \in BOOLEAN /\ op.pc \in {"ensure", "reensure"} /\ NoOp.pc = "idle"
  BY NoOpFits DEF TypeInv, MemOK, StageEnsure, Reensure, At
<1>1. PICK c \in Configs : \E o \in EnsureOutcomes(c) :
        /\ Take(o)
        /\ \/ \E code : Finish(code)
           \/ Goto("healthy")
           \/ /\ o.result = "state"
              /\ \E pc \in {"recreate", "binds", "ready"} :
                   GotoWith(pc, o.st) /\ (pc = "binds" => Phase(o.st) \in {"starting", "ready"})
  <2>1. CASE StageEnsure
    <3>1. op.cfg \in Configs
      BY <1>0, <2>1 DEF StageEnsure, At, HandlerFits
    <3>2. PICK o \in EnsureOutcomes(op.cfg) :
            /\ Take(o)
            /\ \/ \E code : Finish(code)
               \/ /\ o.result = "state"
                  /\ GotoWith(CASE Phase(o.st) = "terminating" -> "recreate"
                                [] Phase(o.st) \in {"starting", "ready"} /\ o.st.cfg # op.cfg -> "binds"
                                [] OTHER -> "ready", o.st)
      BY <2>1 DEF StageEnsure
    <3> DEFINE next == CASE Phase(o.st) = "terminating" -> "recreate"
                         [] Phase(o.st) \in {"starting", "ready"} /\ o.st.cfg # op.cfg -> "binds"
                         [] OTHER -> "ready"
    <3>3. next \in {"recreate", "binds", "ready"} /\ (next = "binds" => Phase(o.st) \in {"starting", "ready"})
      OBVIOUS
    <3>4. (o.result = "state" /\ GotoWith(next, o.st)) \/ \E code : Finish(code)
      BY <3>2
    <3> HIDE DEF next
    <3> QED
      BY <3>1, <3>2, <3>3, <3>4
  <2>2. CASE Reensure
    <3>1. op.st.cfg \in Configs
      BY <1>0, <2>2 DEF Reensure, At, HandlerFits
    <3> QED
      BY <2>2, <3>1 DEF Reensure, EndOfRepair
  <2> QED
    BY <2>1, <2>2
<1>2. PICK o \in EnsureOutcomes(c) :
        /\ Take(o)
        /\ \/ \E code : Finish(code)
           \/ Goto("healthy")
           \/ /\ o.result = "state"
              /\ \E pc \in {"recreate", "binds", "ready"} :
                   GotoWith(pc, o.st) /\ (pc = "binds" => Phase(o.st) \in {"starting", "ready"})
  BY <1>1
<1>3. EnsurePod(c, o) /\ Fits(pod) /\ pod' = o.pod /\ o.result \in {"state", "error", "gaveUp"}
  BY <1>2, EnsureLeaves, TakeTells DEF TypeInv, MemOK, PodOK, EnsurePod, Outcomes
<1>4. \/ op'.pc \notin {"report", "ready", "decide", "binds"}
      \/ /\ o.result = "state" /\ op'.st = o.st /\ op'.pc \in {"ready", "binds"}
         /\ op'.pc = "binds" => ~ Exited(o.st)
  <2>1. CASE \E code : Finish(code)
    BY <1>0, <2>1 DEF Finish
  <2>2. CASE Goto("healthy")
    BY <1>0, <2>2 DEF Goto, HandlerFits, Ops
  <2>3. ASSUME NEW pc \in {"recreate", "binds", "ready"}, o.result = "state", GotoWith(pc, o.st),
               pc = "binds" => Phase(o.st) \in {"starting", "ready"}
        PROVE  \/ op'.pc \notin {"report", "ready", "decide", "binds"}
               \/ /\ o.result = "state" /\ op'.st = o.st /\ op'.pc \in {"ready", "binds"}
                  /\ op'.pc = "binds" => ~ Exited(o.st)
    BY <1>0, <2>3 DEF GotoWith, HandlerFits, Ops, Phase, Exited
  <2> QED
    BY <1>2, <2>1, <2>2, <2>3
<1>5. CASE Created(o)
  <2>1. told' = FALSE /\ losses' = 0
    BY <1>2, <1>5, TakeTells
  <2>2. o.result = "state" => ~ Exited(o.st)
    BY <1>3, <1>5 DEF Created, EnsurePod, Exited
  <2> QED
    BY <1>4, <2>1, <2>2 DEF LossInv
<1>6. CASE ~ Created(o)
  <2>1. told' = told /\ losses' = losses
    BY <1>0, <1>2, <1>6, TakeTells
  <2>2. o.pod = pod \/ (o.pod = NoPod /\ Exited(pod) /\ o.result = "error")
    BY <1>1, <1>3, <1>6, PodTypes DEF EnsurePod, Created, Exited
  <2>3. o.result = "state" => o.pod = pod /\ o.st = pod
    BY <1>1, <1>3, <1>6, <2>2, PodTypes DEF EnsurePod, Created, Exited
  <2> QED
    BY <1>3, <1>4, <2>1, <2>2, <2>3, PodTypes DEF LossInv, Exited, Running
<1> QED
  BY <1>5, <1>6

LEMMA LossOfDelete ==
  ASSUME TypeInv, LossInv, StageRecreate \/ UnstageDelete \/ DeleteOrphan
  PROVE  LossInv'
<1>0. HandlerFits(op) /\ told \in BOOLEAN /\ NoOp.pc = "idle"
  BY NoOpFits DEF TypeInv, MemOK
<1>1. PICK o \in DeleteOutcomes :
        /\ Take(o)
        /\ \/ \E code : Finish(code)
           \/ o.result = "state" /\ Phase(o.st) # "terminating" /\ GotoWith("report", o.st)
  BY DEF StageRecreate, UnstageDelete, DeleteOrphan, DeleteLeaves
<1>2. DeletePod(o) /\ Fits(pod) /\ pod' = o.pod
  BY <1>1, DeleteLeaves, TakeTells DEF TypeInv, MemOK, PodOK
<1>3. ~ Created(o)
  BY <1>2, PodTypes DEF DeletePod, Created, Running, Fits, MountPods
<1>4. told' = told /\ losses' = losses
  BY <1>0, <1>1, <1>3, TakeTells
<1>5. /\ pod = NoPod => o.pod = NoPod
      /\ Exited(o.pod) => o.pod = pod
      /\ Running(o.pod) => Running(pod)
  BY <1>2, PodTypes DEF DeletePod, Exited, Running, Fits, MountPods
<1>6. \/ op'.pc \notin {"report", "ready", "decide", "binds"}
      \/ op'.pc = "report" /\ op'.st = o.st /\ (pod = NoPod => o.st = NoPod)
  <2>1. CASE \E code : Finish(code)
    BY <1>0, <2>1 DEF Finish
  <2>2. CASE o.result = "state" /\ Phase(o.st) # "terminating" /\ GotoWith("report", o.st)
    <3>1. op'.pc = "report" /\ op'.st = o.st
      BY <1>0, <2>2 DEF GotoWith, HandlerFits, Ops
    <3>2. pod = NoPod => o.st = NoPod
      BY <1>2, <2>2, PodTypes DEF DeletePod, Exited
    <3> QED
      BY <3>1, <3>2
  <2> QED
    BY <1>1, <2>1, <2>2
<1> QED
  BY <1>2, <1>4, <1>5, <1>6, PodTypes DEF LossInv, Exited

LEMMA LossOfReport ==
  ASSUME TypeInv, KubeletInv, LossInv, Report
  PROVE  LossInv'
<1>0. HandlerFits(op) /\ told \in BOOLEAN /\ NoOp.pc = "idle" /\ op.pc = "report" /\ pod = NoPod /\ pod' = pod
  BY NoOpFits DEF TypeInv, MemOK, Report, At, podVars, KubeletInv
<1>1. op'.pc \notin {"report", "ready", "decide", "binds"}
  BY <1>0 DEF Report, Finish, Goto, HandlerFits, Ops
<1>2. CASE ~ told /\ Phase(op.st) = "exited" /\ op.st.exit # "none"
  <2>1. Exited(op.st) /\ told' = FALSE /\ losses' = IF op.st.exit = "lost" THEN losses + 1 ELSE losses
    BY <1>2, Zenon DEF Report, ReportExit, Emit, Phase, Exited
  <2>2. losses = 0
    BY <1>0, <1>2, <2>1 DEF LossInv
  <2> QED
    BY <1>0, <1>1, <2>1, <2>2, PodTypes DEF LossInv, Exited, Running
<1>3. CASE told \/ ~ (Phase(op.st) = "exited" /\ op.st.exit # "none")
  <2>1. losses' = losses /\ told' \in BOOLEAN
    BY <1>0, <1>3 DEF Report, ReportExit, DoNotEmit
  <2> QED
    BY <1>0, <1>1, <2>1, PodTypes DEF LossInv, Exited, Running
<1> QED
  BY <1>2, <1>3

LEMMA LossOfReady ==
  ASSUME TypeInv, LossInv, StageReady \/ DecideRepair
  PROVE  LossInv'
<1>0. HandlerFits(op) /\ NoOp.pc = "idle" /\ op.pc \in {"ready", "decide"} /\ pod' = pod
  BY NoOpFits DEF TypeInv, StageReady, DecideRepair, At, podVars
<1>1. op'.pc \notin {"report", "ready", "decide", "binds"}
  <2>1. \/ \E code : Finish(code)
        \/ \E pc \in {"checkStaged", "orphan", "repair", "reensure"} : Goto(pc)
    BY DEF StageReady, DecideRepair
  <2> QED
    BY <1>0, <2>1 DEF Finish, Goto, HandlerFits, Ops
<1>2. ReportExitEarly(op.st) \/ UNCHANGED <<told, losses>>
  BY DEF StageReady, DecideRepair, DoNotEmit, history
<1> QED
  BY <1>0, <1>1, <1>2, LossEarly, LossSame

LEMMA LossOfHandlers ==
  ASSUME TypeInv, KubeletInv, LossInv, Handlers
  PROVE  LossInv'
<1>0. HandlerFits(op) /\ NoOp.pc = "idle"
  BY NoOpFits DEF TypeInv
<1>1. CASE StageSpec \/ StageCheck \/ UnstageUnmount \/ Repair \/ Healthy
  <2>1. UNCHANGED <<pod, told, losses>>
    BY <1>1 DEF StageSpec, StageCheck, UnstageUnmount, Repair, Healthy, stageUnchanged, podVars, history
  <2>2. \/ \E code : Finish(code)
        \/ Goto("healthy")
        \/ op' = [op EXCEPT !.pc = "ensure", !.cfg = config]
    BY <1>1 DEF StageSpec, StageCheck, UnstageUnmount, Repair, Healthy, EndOfRepair
  <2>3. op'.pc \notin {"report", "ready", "decide", "binds"}
    BY <1>0, <2>2 DEF Finish, Goto, HandlerFits, Ops
  <2> QED
    BY <2>1, <2>3, LossSame
<1>2. CASE StageBinds
  <2>1. UNCHANGED <<pod, told, losses>> /\ op.pc = "binds"
    BY <1>2 DEF StageBinds, At, stageUnchanged, podVars, history
  <2>2. (\E code : Finish(code)) \/ \E pc \in {"ready", "recreate"} : Goto(pc)
    BY <1>2 DEF StageBinds
  <2>3. op'.pc \notin {"report", "decide", "binds"} /\ (op'.pc = "ready" => op'.st = op.st)
    BY <1>0, <2>2 DEF Finish, Goto, HandlerFits, Ops
  <2> QED
    BY <2>1, <2>3 DEF LossInv, Exited, Running
<1>3. CASE Look
  <2>1. UNCHANGED <<pod, told, losses>>
    BY <1>3 DEF Look, stageUnchanged, podVars, history
  <2>2. (\E code : Finish(code)) \/ op' = [op EXCEPT !.pc = "decide", !.st = pod, !.bound = published]
    BY <1>3 DEF Look
  <2>3. op'.pc \notin {"report", "ready", "binds"} /\ (op'.pc = "decide" => op'.st = pod)
    BY <1>0, <2>2 DEF Finish, HandlerFits, Ops
  <2> QED
    BY <2>1, <2>3 DEF LossInv, Exited, Running
<1> QED
  BY <1>1, <1>2, <1>3, LossOfEnsure, LossOfDelete, LossOfReport, LossOfReady DEF Handlers

LEMMA LossOfOthers ==
  ASSUME MaxCrashes = 0, TypeInv, LossInv, [Next]_vars, ~ Handlers
  PROVE  LossInv'
<1>0. HandlerFits(op) /\ NoOp.pc = "idle" /\ ~ Crash /\ ~ KubeletRestarts
  BY NoOpFits DEF TypeInv, CountsOK, Crash, KubeletRestarts
<1>1. CASE BeginRequest \/ BeginRecover
  <2>1. UNCHANGED <<pod, told, losses>> /\ \E kind : \E pc \in {"spec", "delete", "look"} : Begin(kind, pc)
    BY <1>1 DEF BeginRequest, BeginRecover, Begin, podVars, history
  <2>2. op'.pc \in {"spec", "delete", "look"}
    BY <2>1, NoOpFits DEF Begin, Ops
  <2> QED
    BY <2>1, <2>2, LossSame
<1>2. CASE LateRequest \/ PruneBackoffs \/ KubeletStep \/ RestartTime \/ GraceOver \/ UNCHANGED vars
  <2>1. UNCHANGED <<pod, told, losses, op>>
    BY <1>2 DEF LateRequest, PruneBackoffs, RestartTime, GraceOver, KubeletStep, KubeletStage, KubeletPublish,
         PublishHealthy, KubeletUnpublish, KubeletUnstage, KubeletCleans, ConsumerComesOrGoes, ConfigChanges,
         outside, vars, podVars, memVars, history
  <2> QED
    BY <2>1 DEF LossInv, Exited, Running
<1>3. CASE KubeletTimeout
  <2>1. UNCHANGED <<pod, told, losses>> /\ op'.pc = op.pc /\ op'.st = op.st
    BY <1>0, <1>3 DEF KubeletTimeout, podVars, memVars, history, HandlerFits, Ops
  <2> QED
    BY <2>1 DEF LossInv, Exited, Running
<1>4. CASE PodStep
  <2>1. UNCHANGED <<told, losses, op>> /\ pod # NoPod
    BY <1>4, PodTypes DEF PodStep, PodReady, PodExits, DeletedByHand, podSteps, memVars, history, Running
  <2>2. \/ Running(pod) /\ (Running(pod)' \/ Exited(pod)')
        \/ Running(pod)' = Running(pod) /\ Exited(pod)' = Exited(pod) /\ pod'.exit = pod.exit
    BY <1>4 DEF PodStep, PodReady, PodExits, DeletedByHand, Running, Exited, TypeInv, PodOK, Fits, MountPods
  <2>3. Running(pod) => ~ told /\ ~ Exited(pod)
    BY DEF LossInv, Running, Exited
  <2> QED
    BY <2>1, <2>2, <2>3 DEF LossInv
<1> QED
  BY <1>0, <1>1, <1>2, <1>3, <1>4 DEF Next, KubeletStep, PodStep

LEMMA LossHolds ==
  ASSUME MaxCrashes = 0
  PROVE  Spec => [](TypeInv /\ KubeletInv /\ LossInv)
<1>1. TypeInv /\ KubeletInv /\ LossInv /\ [Next]_vars => LossInv'
  BY LossOfHandlers, LossOfOthers
<1> QED
  BY <1>1, LossInit, TypeInit, TypeStep, KubeletHolds, PTL DEF Spec

(* While the node plugin does not restart, the writes that a pod lost are  *)
(* told once, whoever finds the pod and whatever request fails.            *)
THEOREM LossesToldOnce ==
  ASSUME MaxCrashes = 0
  PROVE  Spec => []LossToldOnce
<1>1. LossInv => LossToldOnce
  BY DEF LossInv, LossToldOnce
<1> QED
  BY <1>1, LossHolds, PTL

-----------------------------------------------------------------------------
(* While no request fails and nothing restarts: a pod that lost writes and *)
(* was deleted is in the hands of the handler that tells of it.            *)

DeletedInv ==
  unreported = "deleted" => op.pc = "report" /\ Phase(op.st) = "exited" /\ op.st.exit = "lost" /\ ~ told

LEMMA QuietTake ==
  ASSUME MaxFaults = 0, TypeInv, NEW o, Take(o), o.pod # pod
  PROVE  ~ o.fault
<1>1. ~ (faults < MaxFaults)
  BY DEF TypeInv, CountsOK
<1>2. ~ o.fault \/ o = Same(backoff, "error", TRUE)
  BY <1>1, Zenon DEF Take
<1>3. Same(backoff, "error", TRUE).pod = pod
  <2>1. backoff \in Backoffs /\ PodOK
    BY DEF TypeInv, MemOK
  <2>2. SameOutcome(Same(backoff, "error", TRUE), backoff, "error", TRUE)
    BY <2>1, SameFields
  <2> QED
    BY <2>2 DEF SameOutcome
<1> QED
  BY <1>2, <1>3

LEMMA DeletedOfEnsure ==
  ASSUME MaxFaults = 0, TypeInv, DeletedInv, StageEnsure \/ Reensure
  PROVE  DeletedInv'
<1>1. HandlerFits(op) /\ op.pc \in {"ensure", "reensure"}
  BY DEF TypeInv, StageEnsure, Reensure, At
<1>2. PICK c \in Configs : \E o \in EnsureOutcomes(c) : Take(o)
  BY <1>1 DEF StageEnsure, Reensure, At, HandlerFits
<1>3. PICK o \in EnsureOutcomes(c) : Take(o)
  BY <1>2
<1>4. EnsurePod(c, o)
  BY EnsureLeaves DEF TypeInv, MemOK
<1>5. ASSUME Exited(pod), ~ Exited(o.pod), o.pod = NoPod PROVE FALSE
  <2>1. o.result = "error" /\ o.fault = TRUE /\ o.pod # pod
    BY <1>4, <1>5, <1>2, PodTypes DEF EnsurePod, Outcomes, Exited
  <2> QED
    BY <1>3, <2>1, QuietTake
<1>6. unreported' # "deleted"
  BY <1>1, <1>3, <1>5 DEF Take, DeletedInv
<1> QED
  BY <1>6 DEF DeletedInv

LEMMA DeletedOfDelete ==
  ASSUME MaxFaults = 0, TypeInv, LossInv, DeletedInv, StageRecreate \/ UnstageDelete \/ DeleteOrphan
  PROVE  DeletedInv'
<1>0. HandlerFits(op) /\ op.pc # "report" /\ told \in BOOLEAN
  BY DEF TypeInv, MemOK, StageRecreate, UnstageDelete, DeleteOrphan, At
<1>1. PICK o \in DeleteOutcomes :
        /\ Take(o)
        /\ \/ o.result = "error" \/ Phase(o.st) = "terminating"
           \/ o.result = "state" /\ Phase(o.st) # "terminating" /\ GotoWith("report", o.st)
  BY DEF StageRecreate, UnstageDelete, DeleteOrphan
<1>2. DeletePod(o) /\ Fits(pod)
  BY DeleteLeaves DEF TypeInv, MemOK, PodOK
<1> SUFFICES ASSUME unreported' = "deleted"
             PROVE  op'.pc = "report" /\ Phase(op'.st) = "exited" /\ op'.st.exit = "lost" /\ ~ told'
  BY DEF DeletedInv, Phase
<1>3. Exited(pod) /\ ~ Exited(o.pod) /\ pod.exit = "lost" /\ losses = 0 /\ o.pod = NoPod
  BY <1>0, <1>1 DEF Take, DeletedInv
<1>4. o.pod # pod
  BY <1>3
<1>5. o.result = "state"
  <2>1. ~ o.fault
    BY <1>1, <1>4, QuietTake
  <2> QED
    BY <1>2, <2>1 DEF DeletePod
<1>6. o.st = Released(pod)
  BY <1>3, <1>5 DEF DeleteOutcomes, Same, Outcome, Exited
<1>7. Phase(o.st) = "exited" /\ o.st.exit = "lost"
  BY <1>2, <1>3, <1>6 DEF Released, Phase, Exited, Fits, MountPods
<1>8. op'.pc = "report" /\ op'.st = o.st
  BY <1>0, <1>1, <1>5, <1>7 DEF GotoWith, HandlerFits, Ops
<1>9. ~ told
  BY <1>3 DEF LossInv
<1>10. ~ told'
  BY <1>1, <1>9, Zenon DEF Take
<1> QED
  BY <1>7, <1>8, <1>10

LEMMA DeletedOfOthers ==
  ASSUME MaxFaults = 0, MaxCrashes = 0, TypeInv, DeletedInv, [Next]_vars,
         ~ (StageEnsure \/ Reensure), ~ (StageRecreate \/ UnstageDelete \/ DeleteOrphan)
  PROVE  DeletedInv'
<1>0. ~ Crash /\ ~ KubeletRestarts /\ ~ KubeletTimeout
  BY DEF TypeInv, CountsOK, Crash, KubeletRestarts, KubeletTimeout
<1>1. CASE Report
  <2>1. ReportExit(op.st)
    BY <1>1 DEF Report
  <2>2. unreported' # "deleted"
    <3>1. CASE unreported = "deleted"
      <4>1. Emit(op.st) /\ op.st.exit = "lost"
        BY <2>1, <3>1 DEF ReportExit, DeletedInv
      <4> QED
        BY <4>1 DEF Emit
    <3>2. CASE unreported # "deleted"
      BY <2>1, <3>2 DEF ReportExit, Emit, DoNotEmit
    <3> QED
      BY <3>1, <3>2
  <2> QED
    BY <2>2 DEF DeletedInv
<1>2. CASE op.pc # "report" /\ (unreported' = unreported \/ Emit(op.st))
  BY <1>2 DEF Emit, DeletedInv
<1>3. CASE op.pc # "report" /\ Handlers
  <2>1. unreported' = unreported \/ Emit(op.st)
    BY <1>3 DEF Handlers, StageSpec, StageBinds, StageReady, StageCheck, UnstageUnmount, Report, Look, DecideRepair,
         Repair, Healthy, At, stageUnchanged, history, ReportExitEarly, DoNotEmit
  <2> QED
    BY <1>2, <1>3, <2>1
<1>4. CASE op.pc = "report" /\ Handlers
  BY <1>1, <1>4 DEF Handlers, StageSpec, StageBinds, StageReady, StageCheck, UnstageUnmount, Look, DecideRepair,
       Repair, Healthy, At
<1>5. CASE BeginRequest \/ BeginRecover
  <2>1. unreported' = unreported /\ op.pc # "report"
    BY <1>5, NoOpFits DEF BeginRequest, BeginRecover, Begin, history
  <2> QED
    BY <1>2, <2>1
<1>6. CASE LateRequest \/ PruneBackoffs \/ KubeletStep \/ RestartTime \/ GraceOver \/ PodStep \/ UNCHANGED vars
  <2>1. UNCHANGED <<unreported, told, op>>
    BY <1>6 DEF LateRequest, PruneBackoffs, RestartTime, GraceOver, KubeletStep, KubeletStage, KubeletPublish,
         PublishHealthy, KubeletUnpublish, KubeletUnstage, KubeletCleans, ConsumerComesOrGoes, ConfigChanges,
         PodStep, PodReady, PodExits, DeletedByHand, podSteps, outside, vars, memVars, history
  <2> QED
    BY <2>1 DEF DeletedInv, Phase
<1> QED
  BY <1>0, <1>3, <1>4, <1>5, <1>6 DEF Next, KubeletStep, PodStep

(* While no request fails and nothing restarts, a pod that lost writes and *)
(* that an unstage, a change of settings or the recovery deletes does not  *)
(* go before they are told.                                                *)
THEOREM LossesReported ==
  ASSUME MaxFaults = 0, MaxCrashes = 0
  PROVE  Spec => []LossReportedAtDelete
<1>1. Init => DeletedInv
  BY DEF Init, DeletedInv
<1>2. TypeInv /\ LossInv /\ DeletedInv /\ [Next]_vars => DeletedInv'
  BY DeletedOfEnsure, DeletedOfDelete, DeletedOfOthers
<1>3. DeletedInv => LossReportedAtDelete
  BY DEF DeletedInv, LossReportedAtDelete
<1> QED
  BY <1>1, <1>2, <1>3, LossHolds, PTL DEF Spec

-----------------------------------------------------------------------------
(* While no request fails and nothing restarts, the mark of an unstage     *)
(* stays between two of its tries; and a recovery that took the volume for *)
(* one to repair, before the mark, still holds the lock when the unstage   *)
(* that waits for it is answered.                                          *)

BetweenTries == kubelet = "unstaging" /\ req = "none"

LeftAloneInv ==
  /\ ~ late /\ (op.pc # "idle" => op.waited)
  /\ op.kind = "unstage" => busy
  /\ BetweenTries => busy
  /\ op.kind = "recover" /\ op.pc = "reensure" => ~ BetweenTries

LEMMA LeftAloneFinish ==
  ASSUME TypeInv, KubeletInv, LeftAloneInv, op.pc # "idle", NEW code, Finish(code),
         op.kind = "unstage" => code \in {"OK", "Aborted"}
  PROVE  LeftAloneInv'
<1>1. op' = NoOp /\ NoOp.pc = "idle" /\ NoOp.kind = "none" /\ late' = late
  BY NoOpFits DEF Finish, Answer, kubeletVars
<1>2. busy' = (busy /\ (op.kind \in {"stage", "unstage"} => code = "Aborted")) /\ op.waited
  BY DEF Finish, ClearBusy, LeftAloneInv
<1>3. ~ late
  BY DEF LeftAloneInv
<1>4. op.kind \in {"stage", "unstage", "publish", "recover"}
  BY DEF TypeInv, HandlerFits, Ops, Kinds
<1>5. BetweenTries' => busy'
  <2>1. CASE op.kind = "recover"
    BY <1>2, <2>1 DEF Finish, kubeletVars, BetweenTries, LeftAloneInv
  <2>2. CASE op.kind = "unstage"
    <3>1. CASE code = "OK"
      BY <1>2, <2>2, <3>1 DEF Finish, Answer, BetweenTries
    <3>2. CASE code = "Aborted"
      BY <1>2, <2>2, <3>2 DEF LeftAloneInv
    <3> QED
      BY <2>2, <3>1, <3>2
  <2>3. CASE op.kind \in {"stage", "publish"}
    <3>1. kubelet \in {"uncertain", "mounted"}
      BY <1>2, <2>3 DEF KubeletInv, Expects
    <3>2. kubelet' # "unstaging"
      BY <2>3, <3>1, FinishAnswers
    <3> QED
      BY <3>2 DEF BetweenTries
  <2> QED
    BY <1>4, <2>1, <2>2, <2>3
<1> QED
  BY <1>1, <1>3, <1>5 DEF LeftAloneInv

LEMMA LeftAloneGoesOn ==
  ASSUME LeftAloneInv, op.pc # "idle", UNCHANGED <<busy, kubeletVars>>, op'.kind = op.kind, op'.waited = op.waited,
         op.kind = "recover" /\ op'.pc = "reensure" => ~ busy
  PROVE  LeftAloneInv'
BY DEF LeftAloneInv, BetweenTries, kubeletVars

LEMMA LeftAloneOfHandlers ==
  ASSUME MaxFaults = 0, TypeInv, KubeletInv, LeftAloneInv, Handlers
  PROVE  LeftAloneInv'
<1>0. HandlerFits(op) /\ op \in Ops /\ ~ (faults < MaxFaults)
  BY DEF TypeInv, HandlerFits, CountsOK
<1>1. op.pc # "idle" /\ op.waited
  BY DEF Handlers, StageSpec, StageEnsure, StageBinds, StageRecreate, StageReady, StageCheck, UnstageDelete,
       UnstageUnmount, Report, Look, DecideRepair, DeleteOrphan, Repair, Reensure, Healthy, At, LeftAloneInv
<1>2. CASE \E code : Finish(code) /\ (op.kind = "unstage" => code \in {"OK", "Aborted"})
  BY <1>1, <1>2, LeftAloneFinish
<1>3. CASE /\ UNCHANGED <<busy, kubeletVars>> /\ op'.kind = op.kind /\ op'.waited = op.waited
           /\ op.kind = "recover" /\ op'.pc = "reensure" => ~ busy
  BY <1>1, <1>3, LeftAloneGoesOn
<1>4. CASE StageSpec \/ StageEnsure \/ StageBinds \/ StageRecreate \/ StageReady \/ StageCheck
  <2>1. op.kind = "stage"
    BY <1>0, <1>4 DEF StageSpec, StageEnsure, StageBinds, StageRecreate, StageReady, StageCheck, At, HandlerFits
  <2>2. \/ \E code : Finish(code)
        \/ UNCHANGED <<busy, kubeletVars>> /\ op'.kind = op.kind /\ op'.waited = op.waited
    <3>1. \/ \E code : Finish(code)
          \/ /\ UNCHANGED <<busy, kubeletVars>>
             /\ \/ op' = [op EXCEPT !.pc = "ensure", !.cfg = config]
                \/ \E pc : Goto(pc)
                \/ \E pc, st : GotoWith(pc, st)
      BY <1>4, Zenon DEF StageSpec, StageEnsure, StageBinds, StageRecreate, StageReady, StageCheck
    <3> QED
      BY <1>0, <3>1 DEF Goto, GotoWith, Ops
  <2> QED
    BY <1>2, <1>3, <2>1, <2>2
<1>5. CASE UnstageDelete
  <2>1. PICK o \in DeleteOutcomes :
          /\ Take(o)
          /\ \/ o.result = "error"
             \/ Finish("Aborted")
             \/ GotoWith("report", o.st) /\ UNCHANGED <<busy, kubeletVars>>
    BY <1>5 DEF UnstageDelete
  <2>2. op.kind = "unstage"
    BY <1>0, <1>5 DEF UnstageDelete, At, HandlerFits
  <2>3. o.result # "error"
    <3>1. ~ o.fault
      BY <1>0, <1>1, <2>1, Zenon DEF Take
    <3> QED
      BY <2>1, <3>1, DeleteLeaves DEF DeletePod, TypeInv, MemOK
  <2>4. CASE GotoWith("report", o.st) /\ UNCHANGED <<busy, kubeletVars>>
    <3>1. op'.kind = op.kind /\ op'.waited = op.waited
      BY <1>0, <2>4 DEF GotoWith, Ops
    <3> QED
      BY <1>3, <2>2, <2>4, <3>1
  <2> QED
    BY <1>2, <2>1, <2>3, <2>4
<1>6. CASE UnstageUnmount
  BY <1>0, <1>2, <1>6 DEF UnstageUnmount, Fault
<1>7. CASE Report
  <2>1. \/ Finish("OK")
        \/ UNCHANGED <<busy, kubeletVars>> /\ \E pc \in {"ensure", "unmount"} : Goto(pc)
    BY <1>7 DEF Report
  <2>2. CASE UNCHANGED <<busy, kubeletVars>> /\ \E pc \in {"ensure", "unmount"} : Goto(pc)
    <3>1. op'.kind = op.kind /\ op'.waited = op.waited /\ op'.pc # "reensure"
      BY <1>0, <2>2 DEF Goto, Ops
    <3> QED
      BY <1>3, <2>2, <3>1
  <2> QED
    BY <1>2, <2>1, <2>2
<1>8. CASE Look \/ DecideRepair \/ DeleteOrphan \/ Repair \/ Reensure \/ Healthy
  <2>1. op.kind # "unstage"
    BY <1>0, <1>8 DEF Look, DecideRepair, DeleteOrphan, Repair, Reensure, Healthy, At, HandlerFits
  <2>2. \/ \E code : Finish(code)
        \/ /\ UNCHANGED <<busy, kubeletVars>>
           /\ \/ op' = [op EXCEPT !.pc = "decide", !.st = pod, !.bound = published]
              \/ \E pc \in {"orphan", "repair", "healthy"} : Goto(pc)
              \/ ~ LeaveAlone /\ Goto("reensure")
              \/ \E st : GotoWith("report", st)
    BY <1>8 DEF Look, DecideRepair, DeleteOrphan, Repair, Reensure, Healthy, EndOfRepair
  <2>3. \/ \E code : Finish(code)
        \/ /\ UNCHANGED <<busy, kubeletVars>> /\ op'.kind = op.kind /\ op'.waited = op.waited
           /\ op.kind = "recover" /\ op'.pc = "reensure" => ~ busy
    BY <1>0, <2>2 DEF Goto, GotoWith, Ops, LeaveAlone
  <2> QED
    BY <1>2, <1>3, <2>1, <2>3
<1> QED
  BY <1>4, <1>5, <1>6, <1>7, <1>8 DEF Handlers

LEMMA LeftAloneOfOthers ==
  ASSUME MaxFaults = 0, MaxCrashes = 0, TypeInv, KubeletInv, LeftAloneInv, [Next]_vars, ~ Handlers
  PROVE  LeftAloneInv'
<1>0. ~ Crash /\ ~ KubeletRestarts /\ ~ KubeletTimeout
  BY DEF TypeInv, CountsOK, Crash, KubeletRestarts, KubeletTimeout
<1>1. ~ LateRequest
  BY DEF LateRequest, LeftAloneInv
<1>2. ASSUME NEW kind, NEW pc, Begin(kind, pc), pc \in {"spec", "delete", "look"}
      PROVE  LeftAloneInv'
  <2>1. op'.kind = kind /\ op'.pc = pc /\ op'.waited = TRUE
    BY <1>2, NoOpFits DEF Begin, Ops
  <2>2. UNCHANGED <<kubelet, req, late>> /\ busy' = (busy \/ kind \in {"stage", "unstage"})
    BY <1>2 DEF Begin, kubeletVars
  <2>3. BetweenTries' => busy'
    BY <2>2, Zenon DEF LeftAloneInv, BetweenTries
  <2>4. kind = "unstage" => busy'
    BY <2>2, Zenon
  <2> QED
    BY <1>2, <2>1, <2>2, <2>3, <2>4 DEF LeftAloneInv
<1>3. CASE BeginRequest \/ BeginRecover
  BY <1>2, <1>3 DEF BeginRequest, BeginRecover
<1>4. CASE PruneBackoffs \/ RestartTime \/ GraceOver \/ PodStep \/ UNCHANGED vars
  <2>1. UNCHANGED <<op, busy, kubelet, req, late>>
    BY <1>4 DEF PruneBackoffs, RestartTime, GraceOver, PodStep, PodReady, PodExits, DeletedByHand, podSteps, vars,
         memVars, kubeletVars
  <2> QED
    BY <2>1 DEF LeftAloneInv, BetweenTries
<1>5. CASE KubeletStep
  <2>1. UNCHANGED <<op, busy, late>>
    BY <1>5 DEF KubeletStep, KubeletStage, KubeletPublish, PublishHealthy, KubeletUnpublish, KubeletUnstage,
         KubeletCleans, ConsumerComesOrGoes, ConfigChanges, outside, memVars
  <2>2. BetweenTries' => BetweenTries
    BY <1>5 DEF KubeletStep, KubeletStage, KubeletPublish, PublishHealthy, KubeletUnpublish, KubeletUnstage,
         KubeletCleans, ConsumerComesOrGoes, ConfigChanges, BetweenTries, KubeletInv, Expects
  <2> QED
    BY <2>1, <2>2 DEF LeftAloneInv
<1> QED
  BY <1>0, <1>1, <1>3, <1>4, <1>5 DEF Next, KubeletStep, PodStep

LEMMA OnlyEnsureStarts ==
  ASSUME TypeInv, RefusedInv, [Next]_vars, pod'.status = "starting", ~ Running(pod)
  PROVE  StageEnsure \/ Reensure
<1>1. CASE StageRecreate \/ UnstageDelete \/ DeleteOrphan
  BY <1>1, RefusedTakeDelete DEF StageRecreate, UnstageDelete, DeleteOrphan
<1>2. CASE \/ StageSpec \/ StageBinds \/ StageReady \/ StageCheck \/ UnstageUnmount \/ Report
           \/ Look \/ DecideRepair \/ Repair \/ Healthy
  <2>1. pod' = pod
    BY <1>2 DEF StageSpec, StageBinds, StageReady, StageCheck, UnstageUnmount, Report, Look, DecideRepair, Repair,
         Healthy, stageUnchanged, podVars
  <2> QED
    BY <2>1 DEF Running
<1> QED
  BY <1>1, <1>2, RefusedOfOthers DEF Handlers

(* While no request fails and nothing restarts, the recovery starts no pod *)
(* between two tries of an unstage.                                        *)
THEOREM UnstageNotUndone ==
  ASSUME MaxFaults = 0, MaxCrashes = 0
  PROVE  Spec => UnstageLeftAlone
<1>1. Init => LeftAloneInv
  BY NoOpFits DEF Init, LeftAloneInv, BetweenTries
<1>2. TypeInv /\ KubeletInv /\ LeftAloneInv /\ [Next]_vars => LeftAloneInv'
  BY LeftAloneOfHandlers, LeftAloneOfOthers
<1>3. TypeInv /\ RefusedInv /\ LeftAloneInv /\ [Next]_vars =>
        [op.kind = "recover" /\ pod'.status = "starting" /\ ~ Running(pod)
           => ~ (kubelet = "unstaging" /\ req = "none")]_vars
  <2>1. ASSUME TypeInv, RefusedInv, LeftAloneInv, [Next]_vars, op.kind = "recover", pod'.status = "starting",
               ~ Running(pod)
        PROVE  ~ BetweenTries
    <3>1. op.pc = "reensure"
      BY <2>1, OnlyEnsureStarts DEF StageEnsure, Reensure, At, TypeInv, HandlerFits
    <3> QED
      BY <2>1, <3>1 DEF LeftAloneInv
  <2> QED
    BY <2>1 DEF BetweenTries
<1> QED
  BY <1>1, <1>2, <1>3, KubeletHolds, RefusedHolds, PTL DEF Spec, UnstageLeftAlone
=============================================================================
