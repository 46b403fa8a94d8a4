-------------------------- MODULE MountTableProofs --------------------------
(***************************************************************************)
(* Theorems about MountTable, for any number of target paths, and any      *)
(* bounds: an unpublished target path has nothing mounted, the layers of a *)
(* target path stay bounded, and the container that started first keeps    *)
(* its layer.                                                              *)
(***************************************************************************)
EXTENDS MountTable, SequenceTheorems, TLAPS

USE PathsAssumption, BareAssumption, MountsAssumption, TargetLayersAssumption

Layer == Devices \cup {Bare}

-----------------------------------------------------------------------------
(* The two steps of a stack of mounts. *)

Grown(p, d) ==
  /\ Len(layers'[p]) = Len(layers[p]) + 1 /\ Top(p)' = d
  /\ \A i \in 1..Len(layers[p]) : layers'[p][i] = layers[p][i]

Shrunk(p) ==
  /\ Len(layers'[p]) = Len(layers[p]) - 1
  /\ \A i \in 1..Len(layers'[p]) : layers'[p][i] = layers[p][i]

(* A path is mounted if its stack has a layer, and its top is one. *)
LEMMA Stack ==
  ASSUME layers \in [Paths -> Seq(Layer)], NEW p \in Paths
  PROVE  /\ layers[p] \in Seq(Layer) /\ Len(layers[p]) \in Nat
         /\ Mounted(p) <=> Len(layers[p]) > 0
         /\ \A i \in 1..Len(layers[p]) : layers[p][i] \in Layer
         /\ Mounted(p) => Top(p) \in Layer
<1>1. layers[p] \in Seq(Layer)
  OBVIOUS
<1> QED
  BY <1>1 DEF Mounted, Top, Last

LEMMA PushGrows ==
  ASSUME layers \in [Paths -> Seq(Layer)], NEW p \in Paths, NEW d \in Layer, Push(p, d)
  PROVE  /\ layers' \in [Paths -> Seq(Layer)] /\ Grown(p, d)
         /\ \A q \in Paths : q # p => layers'[q] = layers[q]
<1>1. layers[p] \in Seq(Layer) /\ layers'[p] = Append(layers[p], d)
  BY DEF Push
<1>2. /\ layers'[p] \in Seq(Layer) /\ Len(layers'[p]) = Len(layers[p]) + 1
      /\ layers'[p][Len(layers[p]) + 1] = d
      /\ \A i \in 1..Len(layers[p]) : layers'[p][i] = layers[p][i]
  BY <1>1
<1> QED
  BY <1>1, <1>2 DEF Push, Grown, Top, Last

LEMMA PopShrinks ==
  ASSUME layers \in [Paths -> Seq(Layer)], NEW p \in Paths, Mounted(p), Pop(p)
  PROVE  /\ layers' \in [Paths -> Seq(Layer)] /\ Shrunk(p)
         /\ \A q \in Paths : q # p => layers'[q] = layers[q]
<1>1. layers[p] \in Seq(Layer) /\ Len(layers[p]) \in Nat \ {0}
  BY Stack DEF Mounted
<1>2. /\ layers'[p] = SubSeq(layers[p], 1, Len(layers[p]) - 1)
      /\ \A i \in 1..(Len(layers[p]) - 1) : layers[p][i] \in Layer
  BY <1>1 DEF Pop
<1>3. /\ layers'[p] \in Seq(Layer) /\ Len(layers'[p]) = Len(layers[p]) - 1
      /\ \A i \in 1..Len(layers'[p]) : layers'[p][i] = layers[p][i]
  <2> DEFINE s == layers[p]  n == Len(layers[p]) - 1
  <2>1. n \in Int /\ n >= 0
    BY <1>1
  <2>2. /\ SubSeq(s, 1, n) \in Seq(Layer)
        /\ Len(SubSeq(s, 1, n)) = IF 1 <= n THEN n - 1 + 1 ELSE 0
        /\ \A i \in 1..(n - 1 + 1) : SubSeq(s, 1, n)[i] = s[1 + i - 1]
    <3> HIDE DEF n, s
    <3>1. \A i \in 1..n : s[i] \in Layer
      BY <1>2 DEF n, s
    <3> QED
      BY <2>1, <3>1, SubSeqProperties
  <2>3. Len(SubSeq(s, 1, n)) = n /\ \A i \in 1..n : SubSeq(s, 1, n)[i] = s[i]
    <3> HIDE DEF n, s
    <3>1. \A i \in 1..n : i \in 1..(n - 1 + 1) /\ 1 + i - 1 = i
      BY <2>1
    <3>2. (IF 1 <= n THEN n - 1 + 1 ELSE 0) = n
      BY <2>1
    <3>3. Len(SubSeq(s, 1, n)) = n
      BY <2>2, <3>2
    <3>4. ASSUME NEW i \in 1..n
          PROVE  SubSeq(s, 1, n)[i] = s[i]
      <4>1. SubSeq(s, 1, n)[i] = s[1 + i - 1]
        BY <2>2, <3>1
      <4> QED
        BY <3>1, <4>1
    <3> QED
      BY <3>3, <3>4
  <2> QED
    BY <1>2, <2>2, <2>3
<1> QED
  BY <1>3 DEF Pop, Shrunk

(* What a bind of the staging path binds is a layer. *)
LEMMA SourceIsLayer ==
  ASSUME layers \in [Paths -> Seq(Layer)]
  PROVE  Source \in Layer
BY Stack DEF Source, Layer, Paths

-----------------------------------------------------------------------------
(* Every action, once for all: the frame of Next by cases. *)

StepOf(t) ==
  \/ BeginPublish(t) \/ CheckTarget(t) \/ ClearTarget(t) \/ BindTarget(t) \/ ContainerStarts(t)
  \/ BeginUnpublish(t) \/ UnmountTarget(t) \/ RemoveTarget(t) \/ Unstack(t) \/ Rebind(t)

StepOfProcess ==
  PodReady \/ PodDies \/ BeginPrepare \/ Prepare \/ ReadMounts \/ AskReady \/ EndRebind

LEMMA Steps ==
  Next <=> StepOfProcess \/ \E t \in Targets : StepOf(t)
BY DEF Next, RecoveryStep, Request, StepOf, StepOfProcess

(* The two parts of TypeOK. *)
StackOK ==
  /\ layers \in [Paths -> Seq(Layer)]
  /\ dir \subseteq Targets /\ \A t \in Targets : Mounted(t) => t \in dir
  /\ copied \in [Targets -> Nat] /\ \A t \in Targets : copied[t] <= Len(layers[t])

RestOK ==
  /\ alive \in {0, mounts} /\ mounts \in 0..MaxMounts
  /\ recovery \in {"idle", "prepare", "ready", "rebind"} /\ plan \in [Targets -> Plans]
  /\ call \in [Targets -> {"idle", "check", "clear", "bind", "unmount", "remove"}]
  /\ known \in [Targets -> {"new", "uncertain", "published", "unpublished"}]
  /\ lost \in 0..MaxLost

LEMMA TypeParts == TypeOK <=> StackOK /\ RestOK /\ starting \in BOOLEAN
BY Zenon DEF TypeOK, StackOK, RestOK, Layer

LEMMA TypeInit == Init => TypeOK
<1>1. Staging \in Paths /\ Targets \subseteq Paths
  BY DEF Paths
<1>2. <<>> \in Seq(Layer)
  OBVIOUS
<1>3. Init => RestOK
  BY DEF Init, RestOK, Plans
<1>4. ASSUME Init
      PROVE  StackOK
  <2>1. \A p \in Paths : layers[p] = <<>> /\ Len(layers[p]) = 0
    BY <1>4 DEF Init
  <2>2. layers \in [Paths -> Seq(Layer)]
    BY <1>2, <1>4 DEF Init
  <2> QED
    BY <1>1, <1>4, <2>1, <2>2 DEF Init, StackOK, Mounted
<1>5. Init => starting \in BOOLEAN
  BY DEF Init
<1> QED
  BY <1>3, <1>4, <1>5, TypeParts

(* Steps that leave the target paths alone. *)
LEMMA TargetsKept ==
  ASSUME StackOK, layers' \in [Paths -> Seq(Layer)], copied' = copied, dir' = dir,
         \A t \in Targets : layers'[t] = layers[t]
  PROVE  StackOK'
BY DEF StackOK, Mounted

(* A step on the staging path alone. *)
LEMMA StagingPops ==
  ASSUME StackOK, Mounted(Staging), Pop(Staging)
  PROVE  /\ layers' \in [Paths -> Seq(Layer)] /\ copied' = copied /\ Shrunk(Staging)
         /\ \A t \in Targets : layers'[t] = layers[t]
<1>0. Staging \in Paths /\ Targets \subseteq Paths /\ Staging \notin Targets
  BY DEF Paths
<1>1. copied' = [t \in Targets |-> copied[t]]
  BY <1>0 DEF Pop
<1>2. copied' = copied
  BY <1>1 DEF StackOK
<1> QED
  BY <1>0, <1>2, PopShrinks DEF StackOK

LEMMA TypeStepOfProcess == TypeOK /\ StepOfProcess => TypeOK'
<1> SUFFICES ASSUME StackOK, RestOK, starting \in BOOLEAN, StepOfProcess
             PROVE  StackOK' /\ RestOK'
  <2>1. starting \in BOOLEAN /\ StepOfProcess => starting' \in BOOLEAN
    BY DEF StepOfProcess, PodReady, PodDies, BeginPrepare, Prepare, ReadMounts, AskReady, EndRebind, process
  <2> QED
    BY <2>1, Zenon DEF TypeOK, StackOK, RestOK, Layer
<1>0. Staging \in Paths /\ Targets \subseteq Paths /\ Staging \notin Targets
  BY DEF Paths
<1>1. CASE PodReady
  <2>1. mounts + 1 \in Layer
    BY <1>1 DEF PodReady, RestOK, Devices, Layer
  <2>2. /\ layers' \in [Paths -> Seq(Layer)]
        /\ \A q \in Targets : layers'[q] = layers[q]
    BY <1>0, <1>1, <2>1, PushGrows DEF PodReady, StackOK
  <2>3. StackOK'
    BY <1>1, <2>2, TargetsKept DEF PodReady
  <2>4. RestOK'
    BY <1>1 DEF PodReady, RestOK, handler, requests
  <2> QED
    BY <2>3, <2>4
<1>2. CASE PodDies
  <2>1. StackOK'
    <3>1. CASE Mounted(Staging) /\ Pop(Staging)
      BY <1>2, <3>1, StagingPops, TargetsKept DEF PodDies
    <3>2. CASE UNCHANGED <<layers, copied>>
      BY <1>2, <3>2 DEF PodDies, StackOK, Mounted
    <3> QED
      BY <1>2, <3>1, <3>2 DEF PodDies
  <2>2. RestOK'
    BY <1>2 DEF PodDies, RestOK, handler, requests
  <2> QED
    BY <2>1, <2>2
<1>3. CASE BeginPrepare
  BY <1>3 DEF BeginPrepare, StackOK, RestOK, Mounted, process, requests
<1>4. CASE Prepare
  <2>1. StackOK'
    <3>1. CASE Mounted(Staging) /\ Pop(Staging)
      BY <1>4, <3>1, StagingPops, TargetsKept DEF Prepare
    <3>2. CASE UNCHANGED <<layers, copied>>
      BY <1>4, <3>2 DEF Prepare, StackOK, Mounted
    <3> QED
      BY <1>4, <3>1, <3>2 DEF Prepare
  <2>2. RestOK'
    BY <1>4 DEF Prepare, RestOK, process, handler, requests
  <2> QED
    BY <2>1, <2>2
<1>5. CASE ReadMounts
  <2>1. plan' \in [Targets -> Plans]
    BY <1>5 DEF ReadMounts, Plan, Plans
  <2> QED
    BY <1>5, <2>1 DEF ReadMounts, StackOK, RestOK, Mounted, process, requests
<1>6. CASE AskReady
  <2>1. plan' \in [Targets -> Plans]
    BY <1>6 DEF AskReady, RestOK, Plans
  <2> QED
    BY <1>6, <2>1 DEF AskReady, StackOK, RestOK, Mounted, process, requests
<1>7. CASE EndRebind
  BY <1>7 DEF EndRebind, StackOK, RestOK, Mounted, process, requests
<1> QED
  BY <1>1, <1>2, <1>3, <1>4, <1>5, <1>6, <1>7 DEF StepOfProcess

(* A pop leaves what a container copied within its stack. *)
LEMMA CopiedAfterPop ==
  ASSUME StackOK, NEW p \in Targets, Mounted(p), Pop(p)
  PROVE  /\ layers' \in [Paths -> Seq(Layer)] /\ Shrunk(p)
         /\ \A q \in Targets : q # p => layers'[q] = layers[q] /\ copied'[q] = copied[q]
         /\ layers'[Staging] = layers[Staging]
         /\ copied' \in [Targets -> Nat] /\ \A t \in Targets : copied'[t] <= Len(layers'[t])
         /\ copied'[p] \in {0, copied[p]}
         /\ copied[p] # 0 /\ copied'[p] = 0 => copied[p] = Len(layers[p])
<1>0. p \in Paths /\ Targets \subseteq Paths /\ Staging \in Paths /\ Staging # p
  BY DEF Paths
<1>1. /\ layers' \in [Paths -> Seq(Layer)] /\ Shrunk(p)
      /\ \A q \in Paths : q # p => layers'[q] = layers[q]
  BY <1>0, PopShrinks DEF StackOK
<1>2. copied' = [t \in Targets |-> IF t = p /\ copied[t] = Len(layers[p]) THEN 0 ELSE copied[t]]
  BY DEF Pop
<1>3. copied \in [Targets -> Nat] /\ \A t \in Targets : copied[t] <= Len(layers[t])
  BY DEF StackOK
<1>4. \A t \in Targets : Len(layers[t]) \in Nat
  BY <1>0, Stack DEF StackOK
<1>5. copied' \in [Targets -> Nat]
  BY <1>2, <1>3
<1>6. /\ \A q \in Targets : q # p => copied'[q] = copied[q]
      /\ copied'[p] = IF copied[p] = Len(layers[p]) THEN 0 ELSE copied[p]
  BY <1>2
<1>7. copied'[p] <= Len(layers'[p])
  BY <1>1, <1>3, <1>4, <1>6, Stack DEF Shrunk, StackOK, Mounted
<1>8. \A t \in Targets : copied'[t] <= Len(layers'[t])
  BY <1>0, <1>1, <1>3, <1>6, <1>7
<1> QED
  BY <1>0, <1>1, <1>5, <1>6, <1>8

LEMMA PushKeeps ==
  ASSUME StackOK, NEW p \in Targets, p \in dir', dir \subseteq dir', dir' \subseteq Targets, copied' = copied,
         NEW d \in Layer, Push(p, d)
  PROVE  /\ StackOK' /\ Grown(p, d)
         /\ \A q \in Targets : q # p => layers'[q] = layers[q]
         /\ layers'[Staging] = layers[Staging]
<1>0. p \in Paths /\ Targets \subseteq Paths /\ Staging \in Paths /\ Staging # p
  BY DEF Paths
<1>1. /\ layers' \in [Paths -> Seq(Layer)] /\ Grown(p, d)
      /\ \A q \in Paths : q # p => layers'[q] = layers[q]
  BY <1>0, PushGrows DEF StackOK
<1>2. \A t \in Targets : copied'[t] <= Len(layers'[t])
  <2>1. copied[p] \in Nat /\ Len(layers[p]) \in Nat /\ copied[p] <= Len(layers[p])
    BY <1>0, Stack DEF StackOK
  <2>2. copied'[p] <= Len(layers'[p])
    BY <1>1, <2>1 DEF Grown
  <2> QED
    BY <1>0, <1>1, <2>2 DEF StackOK
<1>3. \A t \in Targets : Mounted(t)' => t \in dir'
  BY <1>0, <1>1 DEF StackOK, Mounted
<1> QED
  BY <1>0, <1>1, <1>2, <1>3 DEF StackOK

LEMMA PopKeeps ==
  ASSUME StackOK, NEW p \in Targets, Mounted(p), Pop(p), dir' = dir
  PROVE  StackOK'
<1>1. \A t \in Targets : Mounted(t)' => Mounted(t)
  BY CopiedAfterPop DEF Mounted
<1> QED
  BY <1>1, CopiedAfterPop DEF StackOK

(* Steps that move no mount. *)
LEMMA StackKept ==
  ASSUME StackOK, layers' = layers, dir \subseteq dir', dir' \subseteq Targets,
         copied' \in [Targets -> Nat], \A t \in Targets : copied'[t] <= Len(layers[t])
  PROVE  StackOK'
BY DEF StackOK, Mounted

LEMMA TypeStepOfTarget ==
  ASSUME TypeOK, NEW t \in Targets, StepOf(t)
  PROVE  TypeOK'
<1> SUFFICES ASSUME StackOK, RestOK, starting' = starting
             PROVE  StackOK' /\ RestOK'
  <2>1. starting' = starting
    BY DEF StepOf, BeginPublish, CheckTarget, ClearTarget, BindTarget, ContainerStarts, BeginUnpublish,
           UnmountTarget, RemoveTarget, Unstack, Rebind, process
  <2> QED
    BY <2>1, Zenon DEF TypeOK, StackOK, RestOK, Layer
<1>0. Source \in Layer /\ dir \subseteq Targets
  BY SourceIsLayer DEF StackOK
<1>1. CASE BeginPublish(t)
  <2>1. StackOK'
    BY <1>1, StackKept DEF BeginPublish, StackOK
  <2>2. RestOK'
    BY <1>1 DEF BeginPublish, RestOK, Go, process, handler
  <2> QED
    BY <2>1, <2>2
<1>2. CASE CheckTarget(t)
  <2>1. StackOK'
    BY <1>2, StackKept DEF CheckTarget, StackOK
  <2>2. RestOK'
    BY <1>2 DEF CheckTarget, RestOK, Step, Answer, Go, process, handler
  <2> QED
    BY <2>1, <2>2
<1>3. CASE ClearTarget(t)
  <2>1. StackOK'
    BY <1>3, PopKeeps, StackKept DEF ClearTarget, StackOK
  <2>2. RestOK'
    BY <1>3 DEF ClearTarget, RestOK, Step, Failed, Go, process, handler
  <2> QED
    BY <2>1, <2>2
<1>4. CASE BindTarget(t)
  <2>1. StackOK'
    BY <1>0, <1>4, PushKeeps, StackKept DEF BindTarget, StackOK
  <2>2. RestOK'
    BY <1>4 DEF BindTarget, RestOK, Step, Failed, Answer, LoseAnswer, Go, process, handler
  <2> QED
    BY <2>1, <2>2
<1>5. CASE ContainerStarts(t)
  <2>1. /\ copied' \in [Targets -> Nat]
        /\ \A q \in Targets : copied'[q] <= Len(layers[q])
    BY <1>5, Stack DEF ContainerStarts, StackOK, Paths
  <2>2. StackOK'
    BY <1>0, <1>5, <2>1, StackKept DEF ContainerStarts
  <2>3. RestOK'
    BY <1>5 DEF ContainerStarts, RestOK, process, handler, requests
  <2> QED
    BY <2>2, <2>3
<1>6. CASE BeginUnpublish(t)
  <2>1. /\ copied' \in [Targets -> Nat]
        /\ \A q \in Targets : copied'[q] <= Len(layers[q])
    BY <1>6, Stack DEF BeginUnpublish, StackOK, Paths
  <2>2. StackOK'
    BY <1>6, <2>1 DEF BeginUnpublish, StackOK, Mounted
  <2>3. RestOK'
    BY <1>6 DEF BeginUnpublish, RestOK, Step, Answer, Go, process, handler
  <2> QED
    BY <2>2, <2>3
<1>7. CASE UnmountTarget(t)
  <2>1. StackOK'
    BY <1>7, PopKeeps, StackKept DEF UnmountTarget, StackOK
  <2>2. RestOK'
    BY <1>7 DEF UnmountTarget, RestOK, Go, process, handler
  <2> QED
    BY <2>1, <2>2
<1>8. CASE RemoveTarget(t)
  <2>1. StackOK'
    BY <1>8 DEF RemoveTarget, StackOK, Mounted
  <2>2. RestOK'
    BY <1>8 DEF RemoveTarget, RestOK, Failed, Step, Answer, Go, process, handler
  <2> QED
    BY <2>1, <2>2
<1>9. CASE Unstack(t)
  <2>1. StackOK'
    BY <1>9, PopKeeps, StackKept DEF Unstack, Corrupted, StackOK
  <2>2. RestOK'
    BY <1>9 DEF Unstack, RestOK, Plans, process, requests
  <2> QED
    BY <2>1, <2>2
<1>10. CASE Rebind(t)
  <2>1. StackOK'
    BY <1>0, <1>10, PushKeeps, StackKept DEF Rebind, StackOK
  <2>2. RestOK'
    BY <1>10 DEF Rebind, RestOK, Plans, process, requests
  <2> QED
    BY <2>1, <2>2
<1> QED
  BY <1>1, <1>2, <1>3, <1>4, <1>5, <1>6, <1>7, <1>8, <1>9, <1>10 DEF StepOf

LEMMA TypeStep == TypeOK /\ [Next]_vars => TypeOK'
<1>1. TypeOK /\ UNCHANGED vars => TypeOK'
  BY DEF vars, TypeOK, Mounted
<1> QED
  BY <1>1, Steps, TypeStepOfProcess, TypeStepOfTarget

-----------------------------------------------------------------------------
(* What kubelet and the container know during the requests of a target     *)
(* path: a publish comes before the answer, and a container that has a     *)
(* copy was published and nothing has been asked since.                    *)
RequestInv ==
  \A t \in Targets :
    /\ known[t] = "unpublished" => t \notin dir
    /\ call[t] \in {"check", "clear", "bind"} => known[t] = "uncertain"
    /\ call[t] \in {"unmount", "remove"} => known[t] \in {"uncertain", "published"}
    /\ copied[t] # 0 => known[t] = "published" /\ call[t] = "idle"

LEMMA RequestInit == Init => RequestInv
BY DEF Init, RequestInv

LEMMA RequestStepOfProcess == TypeOK /\ RequestInv /\ StepOfProcess => RequestInv'
<1> SUFFICES ASSUME StackOK, RequestInv, StepOfProcess
             PROVE  RequestInv'
  BY TypeParts
<1>1. UNCHANGED <<requests, dir, copied>>
  BY StagingPops DEF StepOfProcess, PodReady, PodDies, BeginPrepare, Prepare, ReadMounts, AskReady, EndRebind
<1> QED
  BY <1>1 DEF RequestInv, requests

LEMMA RequestStepOfTarget ==
  ASSUME TypeOK, RequestInv, NEW t \in Targets, StepOf(t)
  PROVE  RequestInv'
<1> USE DEF RequestInv
<1>0. StackOK /\ RestOK
  BY TypeParts
<1>1. CASE BeginPublish(t)
  BY <1>0, <1>1 DEF BeginPublish, RestOK, Go
<1>2. CASE CheckTarget(t)
  BY <1>0, <1>2 DEF CheckTarget, RestOK, Step, Answer, Go
<1>3. CASE ClearTarget(t)
  <2>1. copied[t] = 0 /\ \A q \in Targets : copied'[q] \in {0, copied[q]}
    BY <1>0, <1>3, CopiedAfterPop DEF ClearTarget, StackOK
  <2> QED
    BY <1>0, <1>3, <2>1 DEF ClearTarget, RestOK, Step, Failed, Go
<1>4. CASE BindTarget(t)
  BY <1>0, <1>4 DEF BindTarget, RestOK, Step, Failed, Answer, LoseAnswer, Go
<1>5. CASE ContainerStarts(t)
  BY <1>0, <1>5 DEF ContainerStarts, StackOK, RestOK, requests
<1>6. CASE BeginUnpublish(t)
  BY <1>0, <1>6 DEF BeginUnpublish, StackOK, RestOK, Step, Answer, Go
<1>7. CASE UnmountTarget(t)
  <2>1. copied[t] = 0 /\ \A q \in Targets : copied'[q] \in {0, copied[q]}
    BY <1>0, <1>7, CopiedAfterPop DEF UnmountTarget, StackOK
  <2> QED
    BY <1>0, <1>7, <2>1 DEF UnmountTarget, RestOK, Go
<1>8. CASE RemoveTarget(t)
  BY <1>0, <1>8 DEF RemoveTarget, RestOK, Failed, Step, Answer, Go
<1>9. CASE Unstack(t)
  <2>1. \A q \in Targets : copied'[q] \in {0, copied[q]}
    BY <1>0, <1>9, CopiedAfterPop DEF Unstack, Corrupted, StackOK
  <2> QED
    BY <1>0, <1>9, <2>1 DEF Unstack, requests
<1>10. CASE Rebind(t)
  BY <1>0, <1>10 DEF Rebind, requests
<1> QED
  BY <1>1, <1>2, <1>3, <1>4, <1>5, <1>6, <1>7, <1>8, <1>9, <1>10 DEF StepOf

LEMMA RequestStep == TypeOK /\ RequestInv /\ [Next]_vars => RequestInv'
<1>1. RequestInv /\ UNCHANGED vars => RequestInv'
  BY DEF vars, RequestInv
<1> QED
  BY <1>1, Steps, RequestStepOfProcess, RequestStepOfTarget

(* A container that copied the first layer only loses it to an unpublish.  *)
LEMMA FirstCopyStep ==
  ASSUME TypeOK, RequestInv, [Next]_vars, NEW q \in Targets, copied[q] = 1, copied'[q] = 0
  PROVE  call'[q] = "unmount"
<1>0. StackOK /\ RestOK /\ known[q] = "published" /\ call[q] = "idle" /\ Len(layers[q]) \in Nat \ {0}
  BY TypeParts, Stack DEF RequestInv, StackOK, Paths
<1>1. ASSUME StepOfProcess
      PROVE  FALSE
  BY <1>0, <1>1, StagingPops DEF StepOfProcess, PodReady, PodDies, BeginPrepare, Prepare, ReadMounts, AskReady, EndRebind
<1>2. ASSUME NEW t \in Targets, StepOf(t)
      PROVE  call'[q] = "unmount"
  <2>1. CASE ClearTarget(t)
    BY <1>0, <2>1, CopiedAfterPop DEF ClearTarget
  <2>2. CASE ContainerStarts(t)
    BY <1>0, <2>2, Stack DEF ContainerStarts, StackOK, Paths
  <2>3. CASE BeginUnpublish(t)
    <3>1. t = q /\ Mounted(q)
      BY <1>0, <2>3, Stack DEF BeginUnpublish, StackOK, Paths
    <3> QED
      BY <1>0, <2>3, <3>1 DEF BeginUnpublish, Step, Go, RestOK
  <2>4. CASE UnmountTarget(t)
    BY <1>0, <2>4, CopiedAfterPop DEF UnmountTarget
  <2>5. CASE Unstack(t)
    <3>1. CASE Corrupted(t) /\ Len(layers[t]) > 1
      <4>1. Mounted(t) /\ Pop(t)
        BY <2>5, <3>1 DEF Unstack, Corrupted
      <4>2. t = q
        <5> SUFFICES ASSUME t # q
                     PROVE  copied'[q] = copied[q]
          OBVIOUS
        <5> QED
          BY <1>0, <4>1, CopiedAfterPop
      <4>3. copied[q] = Len(layers[q])
        <5>1. Mounted(q) /\ Pop(q) /\ copied[q] # 0 /\ copied'[q] = 0
          BY <4>1, <4>2
        <5> QED
          BY <1>0, <5>1, CopiedAfterPop
      <4> QED
        BY <3>1, <4>2, <4>3
    <3>2. CASE ~ (Corrupted(t) /\ Len(layers[t]) > 1)
      BY <2>5, <3>2 DEF Unstack
    <3> QED
      BY <3>1, <3>2
  <2>6. CASE BeginPublish(t) \/ CheckTarget(t) \/ BindTarget(t) \/ RemoveTarget(t) \/ Rebind(t)
    BY <2>6 DEF BeginPublish, CheckTarget, BindTarget, RemoveTarget, Rebind
  <2> QED
    BY <1>2, <2>1, <2>2, <2>3, <2>4, <2>5, <2>6 DEF StepOf
<1> QED
  BY <1>1, <1>2, Steps DEF vars

-----------------------------------------------------------------------------
(* The staging path, and the devices.  A mount process that runs has the   *)
(* only layer of the staging path, no other comes before the handler that  *)
(* holds the lock is done, and on a target path only its own layers and    *)
(* bare ones come above the first of its layers.                           *)
ProcessInv ==
  /\ Len(layers[Staging]) <= 1 /\ \A i \in 1..Len(layers[Staging]) : layers[Staging][i] # Bare
  /\ alive # 0 => Mounted(Staging) /\ Top(Staging) = alive /\ ~ starting /\ recovery # "prepare"
  /\ starting => recovery = "idle" /\ ~ Mounted(Staging)
  /\ \A t \in Targets : plan[t] # "none" => recovery \in {"ready", "rebind"}

DevicesInv ==
  /\ \A p \in Paths : \A i \in 1..Len(layers[p]) : layers[p][i] \in {Bare} \cup 1..mounts
  /\ \A t \in Targets : \A i, j \in 1..Len(layers[t]) :
       i < j /\ layers[t][i] = alive => layers[t][j] \in {alive, Bare}

LEMMA ProcessInit == Init => ProcessInv /\ DevicesInv
<1>1. Init => \A p \in Paths : layers[p] = <<>> /\ Len(layers[p]) = 0
  BY DEF Init
<1> QED
  BY <1>1 DEF Init, ProcessInv, DevicesInv, Mounted, Paths

LEMMA ProcessStepOfProcess == TypeOK /\ ProcessInv /\ StepOfProcess => ProcessInv'
<1> SUFFICES ASSUME StackOK, RestOK, starting \in BOOLEAN, ProcessInv, StepOfProcess
             PROVE  ProcessInv'
  BY TypeParts
<1>0. Staging \in Paths /\ layers[Staging] \in Seq(Layer) /\ Len(layers[Staging]) \in Nat
  BY Stack DEF StackOK, Paths
<1>1. CASE PodReady
  <2>1. mounts + 1 \in Layer /\ mounts + 1 \in Nat /\ mounts + 1 # Bare /\ mounts + 1 # 0
    BY <1>1 DEF PodReady, RestOK, Devices, Layer
  <2>2. Grown(Staging, mounts + 1) /\ layers' \in [Paths -> Seq(Layer)]
    BY <1>0, <1>1, <2>1, PushGrows DEF PodReady, StackOK
  <2>3. starting /\ recovery = "idle" /\ ~ Mounted(Staging) /\ Len(layers[Staging]) = 0
    BY <1>0, <1>1, Stack DEF PodReady, ProcessInv, StackOK
  <2>4. Len(layers'[Staging]) = 1 /\ layers'[Staging][1] = mounts + 1
    BY <2>2, <2>3 DEF Grown, Top, Last
  <2>5. Mounted(Staging)'
    BY <2>4 DEF Mounted
  <2>6. UNCHANGED <<recovery, plan>> /\ starting' = FALSE /\ alive' = mounts + 1 /\ Top(Staging)' = mounts + 1
    BY <1>1, <2>2 DEF PodReady, handler, Grown
  <2>7. \A t \in Targets : plan[t] = "none"
    BY <2>3 DEF ProcessInv
  <2> QED
    BY <2>1, <2>3, <2>4, <2>5, <2>6, <2>7 DEF ProcessInv
<1>2. CASE PodDies
  <2>1. alive' = 0 /\ UNCHANGED <<starting, recovery, plan>> /\ ~ starting
    BY <1>2 DEF PodDies, handler, ProcessInv
  <2>2. Len(layers'[Staging]) <= 1 /\ \A i \in 1..Len(layers'[Staging]) : layers'[Staging][i] # Bare
    <3>1. CASE Mounted(Staging) /\ Pop(Staging)
      BY <1>0, <3>1, StagingPops DEF ProcessInv, Shrunk
    <3>2. CASE layers' = layers
      BY <3>2 DEF ProcessInv
    <3> QED
      BY <1>2, <3>1, <3>2 DEF PodDies
  <2> QED
    BY <2>1, <2>2 DEF ProcessInv
<1>3. CASE BeginPrepare
  BY <1>3 DEF BeginPrepare, ProcessInv, Mounted, Top, process
<1>4. CASE Prepare
  <2>1. alive = 0 /\ ~ starting /\ \A t \in Targets : plan[t] = "none"
    BY <1>4 DEF Prepare, ProcessInv
  <2>2. CASE Mounted(Staging) /\ Pop(Staging) /\ UNCHANGED <<process, handler>>
    BY <1>0, <2>1, <2>2, StagingPops DEF ProcessInv, Shrunk, process, handler
  <2>3. CASE ~ Mounted(Staging) /\ starting' = TRUE /\ recovery' = "idle" /\ UNCHANGED <<layers, alive, plan>>
    BY <2>1, <2>3 DEF ProcessInv, Mounted
  <2> QED
    BY <1>4, <2>2, <2>3 DEF Prepare
<1>5. CASE ReadMounts
  BY <1>5 DEF ReadMounts, ProcessInv, Mounted, Top, process
<1>6. CASE AskReady
  BY <1>6 DEF AskReady, ProcessInv, Mounted, Top, process
<1>7. CASE EndRebind
  BY <1>7 DEF EndRebind, ProcessInv, Mounted, Top, process
<1> QED
  BY <1>1, <1>2, <1>3, <1>4, <1>5, <1>6, <1>7 DEF StepOfProcess

(* A step of a target path leaves the staging path and the process alone,  *)
(* and plans nothing new.                                                  *)
LEMMA ElsewhereKept ==
  ASSUME StackOK, RestOK, NEW t \in Targets, StepOf(t)
  PROVE  /\ layers'[Staging] = layers[Staging] /\ UNCHANGED <<process, recovery>>
         /\ \A q \in Targets : q # t => /\ layers'[q] = layers[q] /\ plan'[q] = plan[q]
                                        /\ call'[q] = call[q] /\ known'[q] = known[q]
<1>0. Source \in Layer
  BY SourceIsLayer DEF StackOK
<1>1. layers'[Staging] = layers[Staging] /\ \A q \in Targets : q # t => layers'[q] = layers[q]
  <2>1. CASE UNCHANGED layers
    BY <2>1
  <2>2. CASE Mounted(t) /\ Pop(t)
    BY <2>2, CopiedAfterPop
  <2>3. CASE Push(t, Source)
    <3>1. t \in Paths /\ Staging \in Paths /\ Staging # t /\ Targets \subseteq Paths
      BY DEF Paths
    <3> QED
      BY <1>0, <2>3, <3>1, PushGrows DEF StackOK
  <2>4. UNCHANGED layers \/ (Mounted(t) /\ Pop(t)) \/ Push(t, Source)
    BY DEF StepOf, BeginPublish, CheckTarget, ClearTarget, BindTarget, ContainerStarts, BeginUnpublish,
           UnmountTarget, RemoveTarget, Unstack, Rebind, Corrupted
  <2> QED
    BY <2>1, <2>2, <2>3, <2>4
<1>2. UNCHANGED <<process, recovery>>
  BY DEF StepOf, BeginPublish, CheckTarget, ClearTarget, BindTarget, ContainerStarts, BeginUnpublish,
         UnmountTarget, RemoveTarget, Unstack, Rebind, handler
<1>3. \A q \in Targets : q # t => plan'[q] = plan[q]
  BY DEF StepOf, BeginPublish, CheckTarget, ClearTarget, BindTarget, ContainerStarts, BeginUnpublish,
         UnmountTarget, RemoveTarget, Unstack, Rebind, handler, RestOK
<1>4. \A q \in Targets : q # t => call'[q] = call[q] /\ known'[q] = known[q]
  BY DEF StepOf, BeginPublish, CheckTarget, ClearTarget, BindTarget, ContainerStarts, BeginUnpublish,
         UnmountTarget, RemoveTarget, Unstack, Rebind, requests, Step, Failed, Answer, LoseAnswer, Go, RestOK
<1> QED
  BY <1>1, <1>2, <1>3, <1>4

LEMMA ProcessStepOfTarget ==
  ASSUME TypeOK, ProcessInv, NEW t \in Targets, StepOf(t)
  PROVE  ProcessInv'
<1>0. StackOK /\ RestOK
  BY TypeParts
<1>1. layers'[Staging] = layers[Staging] /\ UNCHANGED <<alive, starting, recovery>>
  BY <1>0, ElsewhereKept DEF process
<1>2. \A q \in Targets : plan'[q] # "none" => plan[q] # "none"
  BY <1>0 DEF StepOf, BeginPublish, CheckTarget, ClearTarget, BindTarget, ContainerStarts, BeginUnpublish,
              UnmountTarget, RemoveTarget, Unstack, Rebind, handler, Turn, RestOK
<1> QED
  BY <1>1, <1>2 DEF ProcessInv, Mounted, Top

LEMMA ProcessStep == TypeOK /\ ProcessInv /\ [Next]_vars => ProcessInv'
<1>1. ProcessInv /\ UNCHANGED vars => ProcessInv'
  BY DEF vars, ProcessInv, Mounted, Top
<1> QED
  BY <1>1, Steps, ProcessStepOfProcess, ProcessStepOfTarget

(* What a bind binds is bare, or the only layer of the staging path.       *)
LEMMA SourceFacts ==
  ASSUME StackOK, RestOK, ProcessInv, DevicesInv
  PROVE  /\ Source \in Layer /\ Source \in {Bare} \cup 1..mounts
         /\ alive # 0 => Source = alive
         /\ Source = Bare <=> ~ Mounted(Staging)
<1>0. Staging \in Paths /\ Len(layers[Staging]) \in Nat /\ (Mounted(Staging) <=> Len(layers[Staging]) > 0)
  BY Stack DEF StackOK, Paths
<1>1. CASE Mounted(Staging)
  <2>1. Source = layers[Staging][1] /\ 1 \in 1..Len(layers[Staging])
    BY <1>0, <1>1 DEF Source, Top, Last, ProcessInv
  <2>2. Source # Bare /\ Source \in {Bare} \cup 1..mounts
    BY <1>0, <2>1 DEF ProcessInv, DevicesInv
  <2> QED
    BY <1>1, <2>2, SourceIsLayer DEF ProcessInv, StackOK, Source
<1>2. CASE ~ Mounted(Staging)
  BY <1>2, SourceIsLayer DEF ProcessInv, StackOK, Source
<1> QED
  BY <1>1, <1>2

LEMMA DevicesStepOfProcess == TypeOK /\ ProcessInv /\ DevicesInv /\ StepOfProcess => DevicesInv'
<1> SUFFICES ASSUME StackOK, RestOK, ProcessInv, DevicesInv, StepOfProcess
             PROVE  DevicesInv'
  BY TypeParts
<1>0. /\ Staging \in Paths /\ Targets \subseteq Paths /\ Len(layers[Staging]) \in Nat
      /\ mounts \in Nat /\ Bare \notin Nat /\ alive \in {0, mounts}
      /\ \A p \in Paths : p = Staging \/ p \in Targets
  BY Stack DEF StackOK, RestOK, Paths
<1>1. CASE PodReady
  <2>1. mounts + 1 \in Layer /\ mounts' = mounts + 1 /\ alive' = mounts + 1
    BY <1>1 DEF PodReady, RestOK, Devices, Layer
  <2>2. /\ Grown(Staging, mounts + 1) /\ layers' \in [Paths -> Seq(Layer)]
        /\ \A t \in Targets : layers'[t] = layers[t]
    BY <1>0, <1>1, <2>1, PushGrows DEF PodReady, StackOK
  <2>3. \A i \in 1..Len(layers'[Staging]) : layers'[Staging][i] \in {Bare} \cup 1..(mounts + 1)
    BY <1>0, <2>2 DEF Grown, Top, Last, DevicesInv
  <2>4. \A t \in Targets : \A i \in 1..Len(layers[t]) :
          layers[t][i] \in {Bare} \cup 1..(mounts + 1) /\ layers[t][i] # mounts + 1
    BY <1>0 DEF DevicesInv
  <2> QED
    BY <1>0, <2>1, <2>2, <2>3, <2>4 DEF DevicesInv
<1>2. CASE PodDies
  <2>1. alive' = 0 /\ mounts' = mounts
    BY <1>2 DEF PodDies
  <2>2. /\ \A t \in Targets : layers'[t] = layers[t]
        /\ \A i \in 1..Len(layers'[Staging]) : layers'[Staging][i] \in {Bare} \cup 1..mounts
    <3>1. CASE Mounted(Staging) /\ Pop(Staging)
      BY <1>0, <3>1, StagingPops DEF DevicesInv, Shrunk
    <3>2. CASE layers' = layers
      BY <1>0, <3>2 DEF DevicesInv
    <3> QED
      BY <1>2, <3>1, <3>2 DEF PodDies
  <2>3. \A t \in Targets : \A i \in 1..Len(layers[t]) : layers[t][i] # 0
    BY <1>0 DEF DevicesInv
  <2> QED
    BY <1>0, <2>1, <2>2, <2>3 DEF DevicesInv
<1>3. CASE Prepare /\ Mounted(Staging) /\ Pop(Staging)
  <2>1. UNCHANGED <<alive, mounts>>
    BY <1>3 DEF Prepare, process
  <2>2. /\ \A t \in Targets : layers'[t] = layers[t]
        /\ \A i \in 1..Len(layers'[Staging]) : layers'[Staging][i] \in {Bare} \cup 1..mounts
    BY <1>0, <1>3, StagingPops DEF DevicesInv, Shrunk
  <2> QED
    BY <1>0, <2>1, <2>2 DEF DevicesInv
<1>4. CASE UNCHANGED <<layers, alive, mounts>>
  BY <1>4 DEF DevicesInv
<1> QED
  BY <1>1, <1>2, <1>3, <1>4
     DEF StepOfProcess, BeginPrepare, Prepare, ReadMounts, AskReady, EndRebind, process

(* What a step does to the stack of its target path. *)
LEMMA StackSteps ==
  ASSUME StackOK, NEW t \in Targets, StepOf(t)
  PROVE  \/ layers'[t] = layers[t]
         \/ Mounted(t) /\ Pop(t) /\ Shrunk(t) /\ (ClearTarget(t) \/ UnmountTarget(t) \/ Unstack(t))
         \/ Push(t, Source) /\ Grown(t, Source) /\ (BindTarget(t) \/ Rebind(t))
<1>0. Source \in Layer /\ t \in Paths
  BY SourceIsLayer DEF StackOK, Paths
<1>1. Mounted(t) /\ Pop(t) => Shrunk(t)
  BY CopiedAfterPop
<1>2. Push(t, Source) => Grown(t, Source)
  BY <1>0, PushGrows DEF StackOK
<1> QED
  BY <1>1, <1>2 DEF StepOf, BeginPublish, CheckTarget, ClearTarget, BindTarget, ContainerStarts, BeginUnpublish,
           UnmountTarget, RemoveTarget, Unstack, Rebind, Corrupted

LEMMA DevicesStepOfTarget ==
  ASSUME TypeOK, ProcessInv, DevicesInv, NEW t \in Targets, StepOf(t)
  PROVE  DevicesInv'
<1>0. /\ StackOK /\ RestOK /\ t \in Paths /\ Len(layers[t]) \in Nat
      /\ \A p \in Paths : p = Staging \/ p \in Targets
      /\ Staging \in Paths /\ Staging # t
  BY TypeParts, Stack DEF StackOK, Paths
<1>1. /\ layers'[Staging] = layers[Staging] /\ UNCHANGED <<alive, mounts>>
      /\ \A q \in Targets : q # t => layers'[q] = layers[q]
  BY <1>0, ElsewhereKept DEF process
<1>2. /\ \A i \in 1..Len(layers'[t]) : layers'[t][i] \in {Bare} \cup 1..mounts
      /\ \A i, j \in 1..Len(layers'[t]) : i < j /\ layers'[t][i] = alive => layers'[t][j] \in {alive, Bare}
  <2>1. CASE layers'[t] = layers[t]
    BY <1>0, <2>1 DEF DevicesInv
  <2>2. CASE Shrunk(t)
    <3>1. \A i \in 1..Len(layers'[t]) : i \in 1..Len(layers[t]) /\ layers'[t][i] = layers[t][i]
      BY <1>0, <2>2 DEF Shrunk
    <3> QED
      BY <1>0, <3>1 DEF DevicesInv
  <2>3. CASE Grown(t, Source)
    <3>1. /\ Source \in {Bare} \cup 1..mounts
          /\ alive # 0 => Source = alive
      BY <1>0, SourceFacts
    <3>2. /\ Len(layers'[t]) = Len(layers[t]) + 1 /\ layers'[t][Len(layers[t]) + 1] = Source
          /\ \A i \in 1..Len(layers[t]) : layers'[t][i] = layers[t][i]
      BY <1>0, <2>3 DEF Grown, Top, Last
    <3>3. \A i \in 1..Len(layers[t]) : layers[t][i] = alive => alive # 0
      BY <1>0 DEF DevicesInv, RestOK
    <3>4. ASSUME NEW i \in 1..Len(layers'[t])
          PROVE  layers'[t][i] \in {Bare} \cup 1..mounts
      <4>1. i \in 1..Len(layers[t]) \/ i = Len(layers[t]) + 1
        BY <1>0, <3>2
      <4>2. CASE i \in 1..Len(layers[t])
        BY <1>0, <3>2, <4>2 DEF DevicesInv
      <4> QED
        BY <3>1, <3>2, <4>1, <4>2
    <3>5. ASSUME NEW i \in 1..Len(layers'[t]), NEW j \in 1..Len(layers'[t]), i < j, layers'[t][i] = alive
          PROVE  layers'[t][j] \in {alive, Bare}
      <4>1. i \in 1..Len(layers[t]) /\ layers[t][i] = alive
        BY <1>0, <3>2, <3>5
      <4>2. CASE j \in 1..Len(layers[t])
        BY <1>0, <3>2, <3>5, <4>1, <4>2 DEF DevicesInv
      <4>3. CASE j = Len(layers[t]) + 1
        BY <3>1, <3>2, <3>3, <4>1, <4>3
      <4> QED
        BY <1>0, <3>2, <4>2, <4>3
    <3> QED
      BY <3>4, <3>5
  <2> QED
    BY <1>0, <2>1, <2>2, <2>3, StackSteps
<1> QED
  BY <1>0, <1>1, <1>2 DEF DevicesInv

LEMMA DevicesStep == TypeOK /\ ProcessInv /\ DevicesInv /\ [Next]_vars => DevicesInv'
<1>1. DevicesInv /\ UNCHANGED vars => DevicesInv'
  BY DEF vars, DevicesInv
<1> QED
  BY <1>1, Steps, DevicesStepOfProcess, DevicesStepOfTarget

-----------------------------------------------------------------------------
(* The layers of a target path are paid for.  Each publish that bound the  *)
(* path lost its answer, but for the last: Credit.  Against it count the   *)
(* layers, the one that a bind under way is to add (Binding), and the one  *)
(* that rebind is to add (Pending), unless it unmounts one first.          *)
Credit(t) == IF known[t] \in {"published", "unpublished"} THEN lost + 1 ELSE lost

Unmounts(t) == plan[t] = "unstack" /\ Corrupted(t) /\ Len(layers[t]) > 1

Pending(t) == IF plan[t] = "none" \/ Unmounts(t) THEN 0 ELSE 1

Binding(t) == IF call[t] = "bind" THEN 1 ELSE 0

Paid(t) ==
  /\ Credit(t) = 0 => Len(layers[t]) = 0 /\ plan[t] = "none"
  /\ Credit(t) > 0 => Len(layers[t]) + Pending(t) + Binding(t) <= MaxTargetLayers + Credit(t)

(* unstack stops at a bare layer, too: those that another layer covers, or *)
(* will, are low enough.  The others are on top, and nothing is planned    *)
(* for their path until they are gone.                                     *)
Uncovered(t, i) ==
  /\ \A j \in i..Len(layers[t]) : layers[t][j] = Bare
  /\ plan[t] = "none" \/ ~ Mounted(Staging)
  /\ call[t] = "clear" => i = Len(layers[t]) /\ plan[t] = "none"
  /\ call[t] = "bind" => i < MaxTargetLayers + Credit(t)

BareLow(t) ==
  \A i \in 1..Len(layers[t]) : layers[t][i] = Bare => i + 2 <= MaxTargetLayers + Credit(t) \/ Uncovered(t, i)

LayersInv == \A t \in Targets : Paid(t) /\ BareLow(t)

Numbers(t) ==
  /\ Len(layers[t]) \in Nat /\ Credit(t) \in Nat /\ Pending(t) \in {0, 1} /\ Binding(t) \in {0, 1}
  /\ Mounted(t) <=> Len(layers[t]) > 0

LEMMA AreNumbers ==
  ASSUME StackOK, RestOK, NEW t \in Targets
  PROVE  Numbers(t)
<1>1. Len(layers[t]) \in Nat /\ (Mounted(t) <=> Len(layers[t]) > 0)
  BY Stack DEF StackOK, Paths
<1>2. Credit(t) \in Nat
  BY DEF Credit, RestOK
<1> QED
  BY <1>1, <1>2 DEF Numbers, Pending, Binding

LEMMA AreNumbersNext ==
  ASSUME StackOK', RestOK', NEW t \in Targets
  PROVE  Numbers(t)'
<1>1. Len(layers'[t]) \in Nat /\ (Mounted(t)' <=> Len(layers'[t]) > 0)
  <2>1. layers'[t] \in Seq(Layer)
    BY DEF StackOK, Paths
  <2> QED
    BY <2>1 DEF Mounted
<1>2. Credit(t)' \in Nat
  <2>1. lost' \in Nat
    BY DEF RestOK
  <2>2. Credit(t)' = lost' + 1 \/ Credit(t)' = lost'
    BY Zenon DEF Credit
  <2> QED
    BY <2>1, <2>2
<1> QED
  BY <1>1, <1>2 DEF Numbers, Pending, Binding

LEMMA LayersInit == Init => LayersInv
<1> SUFFICES ASSUME Init, NEW t \in Targets
             PROVE  Paid(t) /\ BareLow(t)
  BY DEF LayersInv
<1>1. layers[t] = <<>>
  BY DEF Init, Paths
<1>2. Len(layers[t]) = 0 /\ 1..Len(layers[t]) = {}
  BY <1>1
<1>3. plan[t] = "none" /\ Credit(t) = 0
  BY DEF Init, Credit
<1> QED
  BY <1>2, <1>3 DEF Paid, BareLow

(* No step takes credit away, and a bind brings some. *)
LEMMA AnswerSteps ==
  ASSUME RestOK, NEW t \in Targets, StepOf(t)
  PROVE  /\ lost' = lost \/ lost' = lost + 1
         /\ known[t] \in {"published", "unpublished"} => known'[t] \in {"published", "unpublished"}
<1> USE DEF RestOK, Step, Failed, Answer, Go
<1>1. CASE BeginPublish(t)
  BY <1>1 DEF BeginPublish
<1>2. CASE CheckTarget(t)
  BY <1>2 DEF CheckTarget
<1>3. CASE ClearTarget(t)
  BY <1>3 DEF ClearTarget
<1>4. CASE BindTarget(t)
  BY <1>4 DEF BindTarget, LoseAnswer
<1>5. CASE ContainerStarts(t) \/ Unstack(t) \/ Rebind(t)
  BY <1>5 DEF ContainerStarts, Unstack, Rebind, requests
<1>6. CASE BeginUnpublish(t)
  BY <1>6 DEF BeginUnpublish
<1>7. CASE UnmountTarget(t)
  BY <1>7 DEF UnmountTarget
<1>8. CASE RemoveTarget(t)
  BY <1>8 DEF RemoveTarget
<1> QED
  BY <1>1, <1>2, <1>3, <1>4, <1>5, <1>6, <1>7, <1>8 DEF StepOf

LEMMA CreditKept ==
  ASSUME StackOK, RestOK, NEW t \in Targets, StepOf(t), NEW q \in Targets
  PROVE  Credit(q)' >= Credit(q)
<1>1. lost \in Nat /\ lost' \in Nat /\ lost' >= lost
  BY AnswerSteps DEF RestOK
<1>2. known[q] \in {"published", "unpublished"} => known'[q] \in {"published", "unpublished"}
  BY AnswerSteps, ElsewhereKept
<1> DEFINE c == Credit(q)  d == Credit(q)'
<1>3. \/ c = lost + 1 /\ d = lost' + 1
      \/ c = lost /\ d = lost' + 1
      \/ c = lost /\ d = lost'
  BY <1>2, Zenon DEF Credit
<1>4. d >= c
  <2> HIDE DEF c, d
  <2> QED
    BY <1>1, <1>3
<1> QED
  BY <1>4

LEMMA CreditOfBind ==
  ASSUME StackOK, RestOK, RequestInv, NEW t \in Targets, BindTarget(t),
         ~ Corrupted(t), Answers(Source)
  PROVE  Credit(t)' = Credit(t) + 1
<1>1. known[t] = "uncertain" /\ lost \in Nat
  BY DEF BindTarget, RequestInv, RestOK
<1>2. \/ known'[t] = "published" /\ lost' = lost
      \/ known'[t] = "uncertain" /\ lost' = lost + 1
  <2>1. CASE Answer(t, "published")
    BY <2>1 DEF Answer, RestOK
  <2>2. CASE LoseAnswer(t)
    BY <1>1, <2>2 DEF LoseAnswer
  <2> QED
    BY <2>1, <2>2 DEF BindTarget
<1> QED
  BY <1>1, <1>2 DEF Credit

(* A step that leaves the stack of a path alone, plans nothing for it, and *)
(* gives it no bind. *)
LEMMA PaidStays ==
  ASSUME NEW t \in Targets, Numbers(t), Numbers(t)', Paid(t),
         layers'[t] = layers[t], Credit(t)' >= Credit(t), Pending(t)' <= Pending(t),
         plan[t] = "none" => plan'[t] = "none", Binding(t)' <= Binding(t) \/ Len(layers[t]) = 0
  PROVE  Paid(t)'
<1> DEFINE n == Len(layers[t])  c == Credit(t)  p == Pending(t)  b == Binding(t)
           d == Credit(t)'  p2 == Pending(t)'  b2 == Binding(t)'
<1>1. /\ n \in Nat /\ c \in Nat /\ p \in {0, 1} /\ b \in {0, 1} /\ d \in Nat /\ p2 \in {0, 1} /\ b2 \in {0, 1}
      /\ c = 0 => n = 0 /\ plan[t] = "none"
      /\ c > 0 => n + p + b <= MaxTargetLayers + c
      /\ plan[t] = "none" => p = 0
      /\ d >= c /\ p2 <= p /\ (b2 <= b \/ n = 0)
  BY Zenon DEF Numbers, Paid, Pending
<1>2. (d = 0 => n = 0 /\ plan'[t] = "none") /\ (d > 0 => n + p2 + b2 <= MaxTargetLayers + d)
  <2> HIDE DEF n, c, p, b, d, p2, b2
  <2>1. d = 0 => n = 0 /\ plan'[t] = "none"
    BY <1>1
  <2>2. CASE c = 0
    BY <1>1, <2>2
  <2>3. CASE c > 0
    BY <1>1, <2>3
  <2> QED
    BY <1>1, <2>1, <2>2, <2>3
<1> QED
  BY <1>2 DEF Paid

LEMMA BareStays ==
  ASSUME NEW t \in Targets, Numbers(t), Numbers(t)', BareLow(t), Credit(t)' >= Credit(t),
         layers'[t] = layers[t], plan'[t] = "none" \/ (plan[t] # "none" /\ (Mounted(Staging)' => Mounted(Staging))),
         call'[t] \in {"clear", "bind"} => call'[t] = call[t] \/ Len(layers[t]) = 0 \/ Corrupted(t)
  PROVE  BareLow(t)'
<1> SUFFICES ASSUME NEW i \in 1..Len(layers[t]), layers[t][i] = Bare,
                    ~ (i + 2 <= MaxTargetLayers + Credit(t)'), Uncovered(t, i)
             PROVE  Uncovered(t, i)'
  BY DEF BareLow, Numbers
<1>1. Len(layers[t]) \in Nat \ {0} /\ layers[t][Len(layers[t])] = Bare
  BY DEF Numbers, Uncovered
<1>2. ~ Corrupted(t)
  BY <1>1 DEF Corrupted, Top, Last, Answers
<1>3. call'[t] \in {"clear", "bind"} => call'[t] = call[t]
  BY <1>1, <1>2
<1> QED
  BY <1>3 DEF Uncovered, Numbers

(* The same for a path whose layer on top is unmounted. *)
LEMMA PaidPops ==
  ASSUME NEW t \in Targets, Numbers(t), Numbers(t)', Paid(t), Len(layers[t]) > 0,
         Len(layers'[t]) = Len(layers[t]) - 1, Credit(t)' >= Credit(t), plan'[t] = plan[t],
         \/ Binding(t)' = 0
         \/ Binding(t) = 0 /\ (Pending(t)' <= Pending(t) \/ Len(layers[t]) < MaxTargetLayers + Credit(t))
  PROVE  Paid(t)'
<1> DEFINE n == Len(layers[t])  c == Credit(t)  p == Pending(t)  b == Binding(t)
           m == Len(layers'[t])  d == Credit(t)'  p2 == Pending(t)'  b2 == Binding(t)'
<1>1. /\ n \in Nat /\ c \in Nat /\ p \in {0, 1} /\ b \in {0, 1} /\ d \in Nat /\ p2 \in {0, 1} /\ b2 \in {0, 1}
      /\ c = 0 => n = 0
      /\ c > 0 => n + p + b <= MaxTargetLayers + c
      /\ n > 0 /\ m = n - 1 /\ d >= c /\ (b2 = 0 \/ (b = 0 /\ (p2 <= p \/ n < MaxTargetLayers + c)))
  BY Zenon DEF Numbers, Paid
<1>2. d > 0 /\ m + p2 + b2 <= MaxTargetLayers + d
  <2> HIDE DEF n, c, p, b, m, d, p2, b2
  <2>1. c > 0 /\ d > 0
    BY <1>1
  <2>2. CASE b2 = 0
    BY <1>1, <2>1, <2>2
  <2>3. CASE b = 0 /\ p2 <= p
    BY <1>1, <2>1, <2>3
  <2>4. CASE b = 0 /\ n < MaxTargetLayers + c
    BY <1>1, <2>1, <2>4
  <2> QED
    BY <1>1, <2>1, <2>2, <2>3, <2>4
<1>3. d # 0
  <2> HIDE DEF d
  <2> QED
    BY <1>2
<1> QED
  BY <1>2, <1>3 DEF Paid

LEMMA BarePops ==
  ASSUME NEW t \in Targets, Numbers(t), Numbers(t)', BareLow(t), Len(layers[t]) > 0, Shrunk(t),
         Credit(t)' >= Credit(t), plan'[t] = plan[t], UNCHANGED Mounted(Staging),
         Corrupted(t) \/ call[t] = "clear" \/ (call'[t] = call[t] /\ call[t] = "unmount")
  PROVE  BareLow(t)'
<1> SUFFICES ASSUME NEW i \in 1..Len(layers'[t]), layers'[t][i] = Bare,
                    ~ (i + 2 <= MaxTargetLayers + Credit(t)')
             PROVE  Uncovered(t, i)'
  BY DEF BareLow
<1>1. i \in 1..Len(layers[t]) /\ i # Len(layers[t]) /\ layers[t][i] = Bare
  BY DEF Shrunk, Numbers
<1>2. Uncovered(t, i)
  BY <1>1 DEF BareLow, Numbers
<1>3. layers[t][Len(layers[t])] = Bare
  BY <1>1, <1>2 DEF Uncovered, Numbers
<1>4. ~ Corrupted(t)
  BY <1>3 DEF Corrupted, Top, Last, Answers
<1>5. call'[t] = "unmount"
  BY <1>1, <1>2, <1>4 DEF Uncovered
<1>6. \A j \in i..Len(layers'[t]) : layers'[t][j] = Bare
  <2>1. \A j \in i..Len(layers'[t]) : j \in i..Len(layers[t]) /\ j \in 1..Len(layers'[t])
    BY DEF Shrunk, Numbers
  <2> QED
    BY <1>2, <2>1 DEF Uncovered, Shrunk
<1>7. plan'[t] = "none" \/ ~ Mounted(Staging)'
  BY <1>2, Zenon DEF Uncovered
<1> QED
  BY <1>5, <1>6, <1>7, Zenon DEF Uncovered

LEMMA UncoveredTop ==
  ASSUME NEW t \in Targets, Numbers(t), NEW i \in 1..Len(layers[t]), Uncovered(t, i)
  PROVE  Top(t) = Bare /\ ~ Corrupted(t) /\ ~ Dead(t)
<1>1. layers[t][Len(layers[t])] = Bare
  BY DEF Uncovered, Numbers
<1> QED
  BY <1>1 DEF Corrupted, Dead, Top, Last, Answers

(* What the recovery plans, it can pay for. *)
LEMMA LayersRead ==
  ASSUME StackOK, RestOK, StackOK', RestOK', ProcessInv, DevicesInv, LayersInv, ReadMounts, NEW t \in Targets
  PROVE  Paid(t)' /\ BareLow(t)'
<1>1. Numbers(t) /\ Numbers(t)' /\ Paid(t) /\ BareLow(t)
  BY AreNumbers, AreNumbersNext DEF LayersInv
<1>2. /\ UNCHANGED <<layers, alive, call, known, lost>> /\ alive # 0 /\ plan[t] = "none" /\ plan'[t] = Plan(t)
  BY DEF ReadMounts, process, requests, ProcessInv
<1>3. Credit(t)' = Credit(t) /\ Binding(t)' = Binding(t)
  BY <1>2, Zenon DEF Credit, Binding
<1>4. CASE ~ Dead(t)
  <2>1. plan'[t] = "none"
    BY <1>2, <1>4 DEF Plan
  <2>2. Pending(t)' = 0 /\ Pending(t) = 0
    BY <1>2, <2>1 DEF Pending
  <2>3. Credit(t)' >= Credit(t) /\ Pending(t)' <= Pending(t) /\ Binding(t)' <= Binding(t)
    <3> DEFINE c == Credit(t)  b == Binding(t)
    <3>1. c \in Nat /\ b \in {0, 1}
      BY <1>1, Zenon DEF Numbers
    <3>2. c >= c /\ b <= b
      <4> HIDE DEF c, b
      <4> QED
        BY <3>1
    <3> QED
      BY <1>3, <2>2, <3>2
  <2> QED
    BY <1>1, <1>2, <2>1, <2>3, PaidStays, BareStays
<1>5. CASE Dead(t)
  <2>1. Mounted(t) /\ Top(t) # Bare /\ Top(t) # alive
    BY <1>2, <1>5, SourceFacts DEF Dead
  <2>2. Corrupted(t)' /\ Top(t)' # Bare
    BY <1>2, <2>1 DEF Corrupted, Mounted, Top, Answers
  <2>3. Pending(t)' = 0 \/ (Pending(t)' = 1 /\ Len(layers[t]) < MaxTargetLayers)
    <3>1. CASE Len(layers[t]) >= MaxTargetLayers
      <4>1. plan'[t] = "unstack" /\ Len(layers'[t]) > 1
        BY <1>1, <1>2, <1>5, <3>1 DEF Plan, Numbers
      <4> QED
        BY <2>2, <4>1 DEF Pending, Unmounts
    <3>2. CASE ~ (Len(layers[t]) >= MaxTargetLayers)
      <4>1. plan'[t] = "rebind" /\ Len(layers[t]) < MaxTargetLayers
        BY <1>1, <1>2, <1>5, <3>2 DEF Plan, Numbers
      <4> QED
        BY <4>1 DEF Pending, Unmounts
    <3> QED
      BY <3>1, <3>2
  <2>4. Paid(t)'
    <3> DEFINE n == Len(layers[t])  c == Credit(t)  p2 == Pending(t)'  b == Binding(t)
    <3>1. /\ n \in Nat /\ c \in Nat /\ b \in {0, 1} /\ n > 0 /\ (c = 0 => n = 0)
          /\ Pending(t) = 0 /\ (c > 0 => n + Pending(t) + b <= MaxTargetLayers + c)
      BY <1>1, <1>2, <2>1, Zenon DEF Numbers, Paid, Pending
    <3>2. c > 0 /\ n + p2 + b <= MaxTargetLayers + c
      <4>1. p2 = 0 \/ (p2 = 1 /\ n < MaxTargetLayers)
        BY <2>3
      <4>2. n + 0 + b <= MaxTargetLayers + c \/ c = 0
        BY <3>1
      <4> HIDE DEF n, c, p2, b
      <4>3. c > 0
        BY <3>1
      <4> QED
        BY <3>1, <4>1, <4>2, <4>3
    <3>3. c # 0
      <4> HIDE DEF n, c, p2, b
      <4> QED
        BY <3>2
    <3> QED
      BY <1>2, <1>3, <3>2, <3>3 DEF Paid
  <2>5. BareLow(t)'
    BY <1>1, <1>2, <1>3, <1>5, UncoveredTop DEF BareLow
  <2> QED
    BY <2>4, <2>5
<1> QED
  BY <1>4, <1>5

(* The other steps of the recovery and those of the process plan nothing.  *)
LEMMA ProcessSteps ==
  ASSUME StackOK, RestOK, ProcessInv, DevicesInv, StepOfProcess, ~ ReadMounts, NEW t \in Targets
  PROVE  /\ layers'[t] = layers[t] /\ UNCHANGED requests
         /\ plan'[t] = "none" \/ /\ plan'[t] = plan[t] /\ (Mounted(Staging)' => Mounted(Staging))
                                 /\ Corrupted(t) => Corrupted(t)'
<1>1. layers'[t] = layers[t] /\ UNCHANGED requests
  <2>1. CASE PodReady
    <3>1. mounts + 1 \in Layer
      BY <2>1 DEF PodReady, RestOK, Devices, Layer
    <3> QED
      BY <2>1, <3>1, PushGrows DEF PodReady, StackOK, Paths
  <2>2. CASE ~ PodReady
    BY <2>2, StagingPops
       DEF StepOfProcess, PodDies, BeginPrepare, Prepare, AskReady, EndRebind
  <2> QED
    BY <2>1, <2>2
<1>2. CASE PodReady \/ BeginPrepare \/ Prepare
  <2>1. plan' = plan
    BY <1>2 DEF PodReady, BeginPrepare, Prepare, handler
  <2>2. recovery \in {"idle", "prepare"}
    BY <1>2 DEF PodReady, BeginPrepare, Prepare, ProcessInv
  <2> QED
    BY <1>1, <2>1, <2>2 DEF ProcessInv
<1>3. CASE PodDies
  <2>1. alive' = 0 /\ plan' = plan
    BY <1>3 DEF PodDies, handler
  <2>2. Mounted(Staging)' => Mounted(Staging)
    BY <1>3 DEF PodDies, Mounted
  <2>3. ASSUME Corrupted(t)
        PROVE  Corrupted(t)'
    <3>1. Top(t) # Bare /\ Mounted(t)
      BY <2>3 DEF Corrupted, Answers
    <3>2. Top(t) # 0
      BY <3>1, Stack DEF DevicesInv, StackOK, Paths, Top, Last, RestOK
    <3> QED
      BY <1>1, <2>1, <3>1, <3>2 DEF Corrupted, Mounted, Top, Answers
  <2> QED
    BY <1>1, <2>1, <2>2, <2>3
<1>4. CASE AskReady \/ EndRebind
  <2>1. UNCHANGED <<layers, alive>> /\ (plan' = plan \/ plan'[t] = "none")
    BY <1>4 DEF AskReady, EndRebind, process
  <2> QED
    BY <1>1, <2>1 DEF Corrupted, Mounted, Top, Answers
<1> QED
  BY <1>1, <1>2, <1>3, <1>4 DEF StepOfProcess

LEMMA LayersStepOfProcess ==
  ASSUME StackOK, RestOK, StackOK', RestOK', ProcessInv, DevicesInv, LayersInv, StepOfProcess, NEW t \in Targets
  PROVE  Paid(t)' /\ BareLow(t)'
<1>1. CASE ReadMounts
  BY <1>1, LayersRead
<1>2. CASE ~ ReadMounts
  <2>1. Numbers(t) /\ Numbers(t)' /\ Paid(t) /\ BareLow(t)
    BY AreNumbers, AreNumbersNext DEF LayersInv
  <2>2. /\ layers'[t] = layers[t] /\ UNCHANGED <<call, known, lost>>
        /\ plan'[t] = "none" \/ /\ plan'[t] = plan[t] /\ (Mounted(Staging)' => Mounted(Staging))
                                /\ Corrupted(t) => Corrupted(t)'
    BY <1>2, ProcessSteps DEF requests
  <2> DEFINE c == Credit(t)  b == Binding(t)  p == Pending(t)
             c2 == Credit(t)'  b2 == Binding(t)'  p2 == Pending(t)'
  <2>3. c2 = c /\ b2 = b /\ c \in Nat /\ b \in {0, 1} /\ p \in {0, 1} /\ (p2 = 0 \/ p2 = p)
    BY <2>1, <2>2, Zenon DEF Credit, Binding, Numbers, Pending, Unmounts
  <2>4. c2 >= c /\ p2 <= p /\ b2 <= b
    <3> HIDE DEF c, b, p, c2, b2, p2
    <3> QED
      BY <2>3
  <2>5. Paid(t)'
    BY <2>1, <2>2, <2>4, PaidStays
  <2>6. BareLow(t)'
    BY <2>1, <2>2, <2>4, BareStays
  <2> QED
    BY <2>5, <2>6
<1> QED
  BY <1>1, <1>2

-----------------------------------------------------------------------------
(* The steps on a target path keep what is paid for it. *)

(* What is dead is under no layer of the process that runs.                *)
LEMMA DeadUnderTop ==
  ASSUME StackOK, RestOK, DevicesInv, NEW t \in Targets, Corrupted(t), NEW i \in 1..Len(layers[t])
  PROVE  layers[t][i] # alive
<1>1. Len(layers[t]) \in Nat \ {0} /\ layers[t][Len(layers[t])] = Top(t) /\ Top(t) \notin {alive, Bare}
  BY Stack DEF StackOK, Paths, Corrupted, Top, Last, Answers
<1> QED
  BY <1>1 DEF DevicesInv

LEMMA LayersClear ==
  ASSUME StackOK, RestOK, StackOK', RestOK', DevicesInv, NEW t \in Targets, Paid(t), BareLow(t),
         ClearTarget(t), Mounted(t), Credit(t)' >= Credit(t), layers'[Staging] = layers[Staging], alive' = alive
  PROVE  Paid(t)' /\ BareLow(t)'
<1>1. Numbers(t) /\ Numbers(t)' /\ Len(layers[t]) > 0
  BY AreNumbers, AreNumbersNext DEF Numbers
<1>2. Pop(t) /\ Shrunk(t) /\ call[t] = "clear" /\ call'[t] = "bind" /\ plan'[t] = plan[t]
  BY CopiedAfterPop DEF ClearTarget, Step, Go, handler, RestOK
<1>3. BareLow(t)'
  BY <1>1, <1>2, BarePops DEF Mounted
<1>4. Binding(t) = 0
  BY <1>2 DEF Binding
<1>5. Len(layers'[t]) = Len(layers[t]) - 1
  BY <1>2 DEF Shrunk
<1>6. Pending(t)' <= Pending(t) \/ Len(layers[t]) < MaxTargetLayers + Credit(t)
  <2>1. CASE Pending(t) = 1
    BY <1>1, <2>1 DEF Numbers
  <2>2. CASE plan[t] = "none"
    <3>1. Pending(t) = 0 /\ Pending(t)' = 0
      BY <1>2, <2>2 DEF Pending
    <3> QED
      BY <3>1
  <2>3. CASE Unmounts(t)
    <3>1. Top(t) # Bare /\ Len(layers'[t]) > 0 /\ plan'[t] = "unstack"
      BY <1>1, <1>2, <1>5, <2>3 DEF Unmounts, Corrupted, Answers, Numbers
    <3>2. Top(t)' = layers[t][Len(layers'[t])] /\ Len(layers'[t]) \in 1..Len(layers[t])
      BY <1>1, <1>2, <1>5, <3>1 DEF Top, Last, Shrunk, Numbers
    <3>3. Top(t)' # alive
      BY <2>3, <3>2, DeadUnderTop DEF Unmounts
    <3>4. Mounted(t)'
      BY <1>1, <3>1 DEF Numbers
    <3>5. CASE Top(t)' = Bare
      <4>1. ~ Uncovered(t, Len(layers'[t]))
        BY <1>1, <2>3, <3>2, UncoveredTop DEF Unmounts
      <4>2. Len(layers'[t]) + 2 <= MaxTargetLayers + Credit(t)
        BY <3>2, <3>5, <4>1 DEF BareLow
      <4> QED
        BY <1>1, <1>5, <4>2 DEF Numbers
    <3>6. CASE Len(layers[t]) = 2
      <4>1. Credit(t) \in Nat \ {0}
        BY <1>1, <3>6 DEF Paid, Numbers
      <4> QED
        BY <3>6, <4>1
    <3>7. CASE Top(t)' # Bare /\ Len(layers[t]) # 2
      <4>1. Corrupted(t)'
        BY <3>3, <3>4, <3>7 DEF Corrupted, Answers
      <4>2. Len(layers'[t]) > 1
        <5>1. Len(layers[t]) \in Nat /\ Len(layers[t]) > 1
          BY <1>1, <2>3 DEF Unmounts, Numbers
        <5> DEFINE n == Len(layers[t])  m == Len(layers'[t])
        <5>2. n \in Nat /\ n > 1 /\ n # 2 /\ m = n - 1
          BY <1>5, <3>7, <5>1
        <5> HIDE DEF n, m
        <5>3. m > 1
          BY <5>2
        <5> QED
          BY <5>3 DEF m
      <4>3. Pending(t)' = 0 /\ Pending(t) = 0
        BY <2>3, <3>1, <4>1, <4>2 DEF Pending, Unmounts
      <4> QED
        BY <4>3
    <3> QED
      BY <3>5, <3>6, <3>7
  <2> QED
    BY <2>1, <2>2, <2>3 DEF Pending
<1>7. Paid(t)'
  BY <1>1, <1>2, <1>4, <1>5, <1>6, PaidPops
<1> QED
  BY <1>3, <1>7

LEMMA LayersPop ==
  ASSUME StackOK, RestOK, StackOK', RestOK', NEW t \in Targets, Paid(t), BareLow(t),
         UnmountTarget(t) \/ Unstack(t), Mounted(t), Pop(t), Shrunk(t),
         Credit(t)' >= Credit(t), layers'[Staging] = layers[Staging]
  PROVE  Paid(t)' /\ BareLow(t)'
<1>1. Numbers(t) /\ Numbers(t)' /\ Len(layers[t]) > 0 /\ Len(layers'[t]) = Len(layers[t]) - 1
  BY AreNumbers, AreNumbersNext DEF Numbers, Shrunk
<1>2. layers' # layers
  BY <1>1 DEF Numbers
<1>3. CASE UnmountTarget(t)
  <2>1. call[t] = "unmount" /\ call'[t] = "unmount" /\ plan'[t] = plan[t]
    BY <1>2, <1>3 DEF UnmountTarget, handler
  <2>2. Binding(t)' = 0
    BY <2>1 DEF Binding
  <2> QED
    BY <1>1, <2>1, <2>2, PaidPops, BarePops DEF Mounted
<1>4. CASE Unstack(t)
  <2>1. Corrupted(t) /\ Len(layers[t]) > 1 /\ plan[t] = "unstack" /\ plan'[t] = plan[t] /\ call'[t] = call[t]
    BY <1>2, <1>4 DEF Unstack, Turn, requests
  <2>2. Pending(t) = 0 /\ Binding(t)' = Binding(t)
    BY <2>1 DEF Pending, Unmounts, Binding
  <2>3. BareLow(t)'
    BY <1>1, <2>1, BarePops DEF Mounted
  <2>4. Paid(t)'
    <3> DEFINE n == Len(layers[t])  m == Len(layers'[t])  c == Credit(t)  c2 == Credit(t)'
               b == Binding(t)  b2 == Binding(t)'  p2 == Pending(t)'
    <3>1. /\ n \in Nat /\ n > 0 /\ m = n - 1 /\ c \in Nat /\ c2 \in Nat /\ b \in {0, 1} /\ p2 \in {0, 1}
          /\ c2 >= c /\ b2 = b /\ (c = 0 => n = 0) /\ (c > 0 => n + Pending(t) + b <= MaxTargetLayers + c)
      BY <1>1, <2>2, Zenon DEF Numbers, Paid
    <3>2. c > 0 => n + 0 + b <= MaxTargetLayers + c
      BY <2>2, <3>1
    <3>3. c2 # 0 /\ m + p2 + b2 <= MaxTargetLayers + c2
      <4> HIDE DEF n, m, c, c2, b, b2, p2
      <4> QED
        BY <3>1, <3>2
    <3> QED
      BY <3>3 DEF Paid
  <2> QED
    BY <2>3, <2>4
<1> QED
  BY <1>3, <1>4

LEMMA LayersBind ==
  ASSUME StackOK, RestOK, StackOK', RestOK', RequestInv, ProcessInv, DevicesInv, NEW t \in Targets,
         Paid(t), BareLow(t), BindTarget(t), Grown(t, Source),
         layers'[Staging] = layers[Staging], alive' = alive
  PROVE  Paid(t)' /\ BareLow(t)'
<1>1. Numbers(t) /\ Numbers(t)' /\ Len(layers'[t]) = Len(layers[t]) + 1
  BY AreNumbers, AreNumbersNext DEF Grown
<1>2. layers' # layers
  BY <1>1 DEF Numbers
<1>3. /\ call[t] = "bind" /\ call'[t] = "idle" /\ plan'[t] = plan[t]
      /\ ~ Corrupted(t) /\ Answers(Source)
  <2>1. /\ ~ Corrupted(t) /\ Answers(Source) /\ (Answer(t, "published") \/ LoseAnswer(t))
        /\ call[t] = "bind" /\ UNCHANGED handler
    BY <1>2 DEF BindTarget
  <2> QED
    BY <2>1 DEF Answer, LoseAnswer, Go, RestOK, handler
<1>4. Credit(t)' = Credit(t) + 1
  BY <1>3, CreditOfBind
<1>5. Binding(t) = 1 /\ Binding(t)' = 0
  BY <1>3 DEF Binding
<1>6. Paid(t)'
  <2> DEFINE n == Len(layers[t])  m == Len(layers'[t])  c == Credit(t)  c2 == Credit(t)'
             p == Pending(t)  p2 == Pending(t)'  b2 == Binding(t)'
  <2>1. /\ n \in Nat /\ m = n + 1 /\ c \in Nat /\ c2 = c + 1 /\ p \in {0, 1} /\ p2 \in {0, 1} /\ b2 = 0
        /\ c = 0 => n = 0
        /\ c > 0 => n + p + Binding(t) <= MaxTargetLayers + c
    BY <1>1, <1>4, <1>5, Zenon DEF Numbers, Paid
  <2>2. c > 0 => n + p + 1 <= MaxTargetLayers + c
    BY <1>5, <2>1
  <2>3. c2 # 0 /\ m + p2 + b2 <= MaxTargetLayers + c2
    <3> HIDE DEF n, m, c, c2, p, p2, b2
    <3> QED
      BY <2>1, <2>2
  <2> QED
    BY <2>3 DEF Paid
<1>7. BareLow(t)'
  <2> SUFFICES ASSUME NEW i \in 1..Len(layers'[t]), layers'[t][i] = Bare,
                      ~ (i + 2 <= MaxTargetLayers + Credit(t)')
               PROVE  Uncovered(t, i)'
    BY DEF BareLow
  <2>1. \A j \in i..Len(layers'[t]) : layers'[t][j] = Bare
    <3>1. CASE i = Len(layers'[t])
      BY <1>1, <3>1 DEF Numbers
    <3>2. CASE i \in 1..Len(layers[t])
      <4>1. layers[t][i] = Bare
        BY <3>2 DEF Grown
      <4>2. Uncovered(t, i)
        <5>1. ~ (i + 2 <= MaxTargetLayers + Credit(t))
          <6> DEFINE c == Credit(t)  c2 == Credit(t)'
          <6>1. c \in Nat /\ c2 = c + 1 /\ ~ (i + 2 <= MaxTargetLayers + c2)
            BY <1>1, <1>4, Zenon DEF Numbers
          <6>2. ~ (i + 2 <= MaxTargetLayers + c)
            <7> HIDE DEF c, c2
            <7> QED
              BY <1>1, <6>1
          <6> QED
            BY <6>2
        <5> QED
          BY <3>2, <4>1, <5>1 DEF BareLow
      <4>3. i < MaxTargetLayers + Credit(t)
        BY <1>3, <4>2 DEF Uncovered
      <4>4. FALSE
        <5> DEFINE c == Credit(t)  c2 == Credit(t)'
        <5>1. c \in Nat /\ c2 = c + 1 /\ ~ (i + 2 <= MaxTargetLayers + c2) /\ i < MaxTargetLayers + c
          BY <1>1, <1>4, <4>3, Zenon DEF Numbers
        <5> HIDE DEF c, c2
        <5> QED
          BY <3>2, <5>1
      <4> QED
        BY <4>4
    <3>3. i = Len(layers'[t]) \/ i \in 1..Len(layers[t])
      <4> DEFINE n == Len(layers[t])  m == Len(layers'[t])
      <4>1. n \in Nat /\ m = n + 1 /\ i \in 1..m
        BY <1>1 DEF Numbers
      <4> HIDE DEF n, m
      <4>2. i = m \/ i \in 1..n
        BY <4>1
      <4> QED
        BY <4>2 DEF n, m
    <3> QED
      BY <3>1, <3>2, <3>3
  <2>2. layers'[t][Len(layers'[t])] = Source /\ Len(layers'[t]) \in i..Len(layers'[t])
    BY <1>1 DEF Grown, Top, Last, Numbers
  <2>3. ~ Mounted(Staging)'
    BY <2>1, <2>2, SourceFacts DEF Mounted
  <2> QED
    BY <1>3, <2>1, <2>3 DEF Uncovered
<1> QED
  BY <1>6, <1>7

LEMMA LayersRebind ==
  ASSUME StackOK, RestOK, StackOK', RestOK', RequestInv, ProcessInv, DevicesInv, NEW t \in Targets,
         Paid(t), BareLow(t), Rebind(t), Grown(t, Source), layers'[Staging] = layers[Staging]
  PROVE  Paid(t)' /\ BareLow(t)'
<1>1. Numbers(t) /\ Numbers(t)' /\ Len(layers'[t]) = Len(layers[t]) + 1
  BY AreNumbers, AreNumbersNext DEF Grown
<1>2. plan[t] = "rebind" /\ plan'[t] = "none" /\ UNCHANGED <<call, known, lost>>
  BY DEF Rebind, Turn, requests, RestOK
<1>3. Credit(t)' = Credit(t) /\ Binding(t)' = Binding(t) /\ Pending(t) = 1 /\ Pending(t)' = 0
  BY <1>2, Zenon DEF Credit, Binding, Pending, Unmounts
<1>4. /\ Credit(t) > 0 /\ Len(layers[t]) + 1 + Binding(t) <= MaxTargetLayers + Credit(t)
  <2>1. Credit(t) # 0 /\ Credit(t) \in Nat
    BY <1>1, <1>2 DEF Paid, Numbers
  <2>2. Credit(t) > 0
    BY <2>1
  <2> QED
    BY <1>3, <2>2 DEF Paid
<1>5. Paid(t)'
  <2> DEFINE n == Len(layers[t])  m == Len(layers'[t])  c == Credit(t)  b == Binding(t)
  <2>1. n \in Nat /\ m = n + 1 /\ c \in Nat /\ b \in {0, 1} /\ c > 0 /\ n + 1 + b <= MaxTargetLayers + c
    BY <1>1, <1>4, Zenon DEF Numbers
  <2>2. c # 0 /\ m + 0 + b <= MaxTargetLayers + c
    <3> HIDE DEF n, m, c, b
    <3> QED
      BY <2>1
  <2> QED
    BY <1>3, <2>2 DEF Paid
<1>6. BareLow(t)'
  <2> SUFFICES ASSUME NEW i \in 1..Len(layers'[t]), layers'[t][i] = Bare,
                      ~ (i + 2 <= MaxTargetLayers + Credit(t))
               PROVE  Uncovered(t, i)'
    BY <1>3 DEF BareLow
  <2>1. ASSUME i \in 1..Len(layers[t])
        PROVE  Uncovered(t, i)
    BY <2>1 DEF BareLow, Grown
  <2>2. Source = Bare
    <3>1. CASE i \in 1..Len(layers[t])
      BY <1>2, <2>1, <3>1, SourceFacts DEF Uncovered
    <3>2. CASE i = Len(layers'[t])
      BY <3>2 DEF Grown, Top, Last
    <3> QED
      BY <1>1, <3>1, <3>2 DEF Numbers
  <2>3. \A j \in i..Len(layers'[t]) : layers'[t][j] = Bare
    <3> SUFFICES ASSUME NEW j \in i..Len(layers'[t])
                 PROVE  layers'[t][j] = Bare
      OBVIOUS
    <3>1. CASE j = Len(layers'[t])
      BY <2>2, <3>1 DEF Grown, Top, Last
    <3>2. CASE j # Len(layers'[t])
      <4>1. i \in 1..Len(layers[t]) /\ j \in i..Len(layers[t]) /\ j \in 1..Len(layers[t])
        <5> DEFINE n == Len(layers[t])  m == Len(layers'[t])
        <5>1. n \in Nat /\ m = n + 1 /\ i \in 1..m /\ j \in i..m /\ j # m
          BY <1>1, <3>2 DEF Numbers
        <5> HIDE DEF n, m
        <5>2. i \in 1..n /\ j \in i..n /\ j \in 1..n
          BY <5>1
        <5> QED
          BY <5>2 DEF n
      <4> QED
        BY <2>1, <4>1 DEF Uncovered, Grown
    <3> QED
      BY <3>1, <3>2
  <2>4. call'[t] = "clear" => i = Len(layers'[t])
    <3>1. call[t] = "clear" => i \notin 1..Len(layers[t])
      BY <1>2, <2>1 DEF Uncovered
    <3>2. i \notin 1..Len(layers[t]) => i = Len(layers'[t])
      BY <1>1 DEF Numbers
    <3> QED
      BY <1>2, <3>1, <3>2
  <2>5. ASSUME call'[t] = "bind"
        PROVE  i < MaxTargetLayers + Credit(t)
    <3> DEFINE n == Len(layers[t])  m == Len(layers'[t])  c == Credit(t)
    <3>1. Binding(t) = 1
      BY <1>2, <2>5 DEF Binding
    <3>2. n \in Nat /\ m = n + 1 /\ c \in Nat /\ n + 1 + 1 <= MaxTargetLayers + c /\ i \in 1..m
      BY <1>1, <1>4, <3>1, Zenon DEF Numbers
    <3>3. i < MaxTargetLayers + c
      <4> HIDE DEF n, m, c
      <4> QED
        BY <3>2
    <3> QED
      BY <3>3
  <2> QED
    BY <1>2, <1>3, <2>3, <2>4, <2>5 DEF Uncovered
<1> QED
  BY <1>5, <1>6

LEMMA LayersStay ==
  ASSUME StackOK, RestOK, StackOK', RestOK', NEW t \in Targets, StepOf(t), Paid(t), BareLow(t),
         layers'[t] = layers[t], Credit(t)' >= Credit(t), layers'[Staging] = layers[Staging], alive' = alive
  PROVE  Paid(t)' /\ BareLow(t)'
<1>1. Numbers(t) /\ Numbers(t)'
  BY AreNumbers, AreNumbersNext
<1>2. Corrupted(t)' = Corrupted(t) /\ (Mounted(Staging)' => Mounted(Staging))
  BY DEF Corrupted, Mounted, Top, Last, Answers
<1>3. \/ plan'[t] = plan[t] \/ plan'[t] = "none"
      \/ plan[t] = "unstack" /\ ~ Unmounts(t) /\ plan'[t] = "rebind"
  <2>1. CASE Unstack(t)
    <3>1. CASE Corrupted(t) /\ Len(layers[t]) > 1
      BY <2>1, <3>1 DEF Unstack
    <3>2. CASE ~ (Corrupted(t) /\ Len(layers[t]) > 1)
      BY <2>1, <3>2 DEF Unstack, Turn, Unmounts, RestOK
    <3> QED
      BY <3>1, <3>2
  <2>2. CASE Rebind(t)
    BY <2>2 DEF Rebind, RestOK
  <2>3. CASE UNCHANGED handler
    BY <2>3 DEF handler
  <2> QED
    BY <2>1, <2>2, <2>3
       DEF StepOf, BeginPublish, CheckTarget, ClearTarget, BindTarget, ContainerStarts, BeginUnpublish,
           UnmountTarget, RemoveTarget
<1>4. Pending(t)' = 0 \/ Pending(t)' = Pending(t)
  <2>1. CASE plan'[t] = plan[t]
    BY <1>2, <2>1 DEF Pending, Unmounts
  <2>2. CASE plan'[t] = "none"
    BY <2>2 DEF Pending
  <2>3. CASE plan[t] = "unstack" /\ ~ Unmounts(t) /\ plan'[t] = "rebind"
    BY <2>3 DEF Pending, Unmounts
  <2> QED
    BY <1>3, <2>1, <2>2, <2>3
<1>5. \/ call'[t] = call[t] \/ call'[t] \notin {"clear", "bind"}
      \/ ~ Mounted(t)
      \/ (Corrupted(t) /\ call'[t] # "bind")
  <2>1. CASE CheckTarget(t)
    BY <2>1 DEF CheckTarget, Step, Answer, Go, RestOK
  <2>2. CASE ClearTarget(t)
    <3>1. CASE Mounted(t)
      <4>1. Shrunk(t) /\ Len(layers[t]) \in Nat
        BY <2>2, <3>1, CopiedAfterPop, Stack DEF ClearTarget, StackOK, Paths
      <4>2. FALSE
        BY <4>1 DEF Shrunk
      <4> QED
        BY <4>2
    <3>2. CASE ~ Mounted(t)
      BY <3>2
    <3> QED
      BY <3>1, <3>2
  <2>3. CASE BindTarget(t)
    BY <2>3 DEF BindTarget, Step, Answer, LoseAnswer, Failed, Go, RestOK
  <2>4. CASE BeginPublish(t) \/ BeginUnpublish(t) \/ UnmountTarget(t) \/ RemoveTarget(t)
    BY <2>4 DEF BeginPublish, BeginUnpublish, UnmountTarget, RemoveTarget, Step, Failed, Answer, Go, RestOK
  <2>5. CASE UNCHANGED requests
    BY <2>5 DEF requests
  <2> QED
    BY <2>1, <2>2, <2>3, <2>4, <2>5 DEF StepOf, ContainerStarts, Unstack, Rebind
<1> DEFINE c == Credit(t)  b == Binding(t)  p == Pending(t)  b2 == Binding(t)'  p2 == Pending(t)'
<1>6. b \in {0, 1} /\ p \in {0, 1} /\ (p2 = 0 \/ p2 = p)
  BY <1>1, <1>4, Zenon DEF Numbers
<1>7. p2 <= p
  <2> HIDE DEF p, p2, b
  <2> QED
    BY <1>6
<1>8. b2 <= b \/ Len(layers[t]) = 0
  <2>1. CASE b2 = 0
    <3> HIDE DEF b, b2
    <3> QED
      BY <1>6, <2>1
  <2>2. CASE call[t] = "bind"
    <3>1. b = 1 /\ b2 \in {0, 1}
      BY <2>2 DEF Binding
    <3> HIDE DEF b, b2
    <3> QED
      BY <3>1
  <2>3. CASE call'[t] = "bind" /\ call[t] # "bind"
    BY <1>1, <1>5, <2>3 DEF Numbers
  <2> QED
    BY <2>1, <2>2, <2>3 DEF Binding
<1>9. Paid(t)'
  BY <1>1, <1>3, <1>7, <1>8, PaidStays
<1>10. BareLow(t)'
  BY <1>1, <1>2, <1>3, <1>5, BareStays DEF Numbers
<1> QED
  BY <1>9, <1>10

LEMMA LayersStepOfTarget ==
  ASSUME StackOK, RestOK, StackOK', RestOK', RequestInv, ProcessInv, DevicesInv, LayersInv,
         NEW t \in Targets, StepOf(t), NEW q \in Targets
  PROVE  Paid(q)' /\ BareLow(q)'
<1>1. /\ Paid(q) /\ BareLow(q) /\ Credit(q)' >= Credit(q)
      /\ layers'[Staging] = layers[Staging] /\ alive' = alive
  BY CreditKept, ElsewhereKept DEF LayersInv, process
<1>2. CASE q # t
  <2>1. layers'[q] = layers[q] /\ plan'[q] = plan[q] /\ call'[q] = call[q]
    BY <1>2, ElsewhereKept
  <2>2. Numbers(q) /\ Numbers(q)'
    BY AreNumbers, AreNumbersNext
  <2>3. Corrupted(q)' = Corrupted(q) /\ (Mounted(Staging)' => Mounted(Staging))
    BY <1>1, <2>1 DEF Corrupted, Mounted, Top, Last, Answers
  <2> DEFINE b == Binding(q)  p == Pending(q)  b2 == Binding(q)'  p2 == Pending(q)'
  <2>4. b \in {0, 1} /\ p \in {0, 1} /\ b2 = b /\ p2 = p
    <3>1. Binding(q)' = Binding(q)
      BY <2>1 DEF Binding
    <3>2. Pending(q)' = Pending(q)
      BY <2>1, <2>3 DEF Pending, Unmounts
    <3> QED
      BY <2>2, <3>1, <3>2, Zenon DEF Numbers
  <2>5. b2 <= b /\ p2 <= p
    <3> HIDE DEF b, p, b2, p2
    <3> QED
      BY <2>4
  <2>6. Paid(q)'
    BY <1>1, <2>1, <2>2, <2>5, PaidStays
  <2>7. BareLow(q)'
    BY <1>1, <2>1, <2>2, <2>3, BareStays
  <2> QED
    BY <2>6, <2>7
<1>3. CASE q = t
  <2>1. CASE layers'[t] = layers[t]
    BY <1>1, <1>3, <2>1, LayersStay
  <2>2. CASE Mounted(t) /\ Pop(t) /\ Shrunk(t) /\ ClearTarget(t)
    BY <1>1, <1>3, <2>2, LayersClear
  <2>3. CASE Mounted(t) /\ Pop(t) /\ Shrunk(t) /\ (UnmountTarget(t) \/ Unstack(t))
    BY <1>1, <1>3, <2>3, LayersPop
  <2>4. CASE Grown(t, Source) /\ BindTarget(t)
    BY <1>1, <1>3, <2>4, LayersBind
  <2>5. CASE Grown(t, Source) /\ Rebind(t)
    BY <1>1, <1>3, <2>5, LayersRebind
  <2> QED
    BY <2>1, <2>2, <2>3, <2>4, <2>5, StackSteps
<1> QED
  BY <1>2, <1>3

LEMMA LayersStep ==
  TypeOK /\ TypeOK' /\ RequestInv /\ ProcessInv /\ DevicesInv /\ LayersInv /\ [Next]_vars => LayersInv'
<1> SUFFICES ASSUME TypeOK, TypeOK', RequestInv, ProcessInv, DevicesInv, LayersInv, [Next]_vars, NEW q \in Targets
             PROVE  Paid(q)' /\ BareLow(q)'
  BY DEF LayersInv
<1>1. StackOK /\ RestOK /\ StackOK' /\ RestOK'
  BY Zenon DEF TypeOK, StackOK, RestOK, Layer
<1>2. CASE UNCHANGED vars
  <2>1. Paid(q) /\ BareLow(q)
    BY DEF LayersInv
  <2> QED
    BY <1>2, <2>1, Zenon
       DEF vars, Paid, BareLow, Credit, Pending, Binding, Unmounts, Uncovered, Corrupted, Mounted, Top, Last, Answers
<1>3. CASE StepOfProcess
  BY <1>1, <1>3, LayersStepOfProcess
<1>4. CASE \E t \in Targets : StepOf(t)
  BY <1>1, <1>4, LayersStepOfTarget
<1> QED
  BY <1>2, <1>3, <1>4, Steps

-----------------------------------------------------------------------------
(* Type correctness of the mount table: a target path that is mounted has  *)
(* its directory, and a container copied a layer that is there.            *)
THEOREM TypeCorrect == Spec => []TypeOK
<1> QED
  BY TypeInit, TypeStep, PTL DEF Spec

LEMMA RequestsHold == Spec => []RequestInv
<1> QED
  BY TypeCorrect, RequestInit, RequestStep, PTL DEF Spec

(* Once kubelet has an OK to its unpublish, nothing is left on the target  *)
(* path, although the recovery may stack a layer on it from a mount table  *)
(* it read before (unmount, bind.go:98), for any paths and any bounds.     *)
THEOREM UnpublishedHolds == Spec => []UnpublishedMeansUnbound
<1>1. TypeOK /\ RequestInv => UnpublishedMeansUnbound
  BY DEF TypeOK, RequestInv, UnpublishedMeansUnbound
<1> QED
  BY <1>1, TypeCorrect, RequestsHold, PTL

(* A container that started before the first replacement keeps the layer   *)
(* it copied until it stops (unstack, recovery.go:346).                    *)
THEOREM FirstContainerStays == Spec => FirstContainerKept
<1>1. TypeOK /\ RequestInv /\ [Next]_vars
        => [\A t \in Targets : copied[t] = 1 /\ copied'[t] = 0 => call'[t] = "unmount"]_vars
  BY FirstCopyStep
<1> QED
  BY <1>1, TypeCorrect, RequestsHold, PTL DEF Spec, FirstContainerKept

LEMMA LayersHold == Spec => [](ProcessInv /\ DevicesInv /\ LayersInv)
<1>1. Init => ProcessInv /\ DevicesInv /\ LayersInv
  BY ProcessInit, LayersInit
<1>2. TypeOK /\ TypeOK' /\ RequestInv /\ ProcessInv /\ DevicesInv /\ LayersInv /\ [Next]_vars
        => ProcessInv' /\ DevicesInv' /\ LayersInv'
  BY ProcessStep, DevicesStep, LayersStep
<1> QED
  BY <1>1, <1>2, TypeCorrect, RequestsHold, PTL DEF Spec

(* The layers of a target path do not pile up, however many mount          *)
(* processes die and however the publishes run beside the rebinds          *)
(* (maxTargetLayers, recovery.go:329): there are at most maxTargetLayers,  *)
(* and one more for each publish that bound the path.                      *)
THEOREM LayersStayBounded == Spec => []LayersBounded
<1>1. ASSUME TypeOK, LayersInv, NEW t \in Targets
      PROVE  Len(layers[t]) <= MaxTargetLayers + 1 + MaxLost
  <2>1. Paid(t) /\ StackOK /\ RestOK
    BY <1>1, TypeParts DEF LayersInv
  <2>2. Numbers(t) /\ lost \in Nat /\ lost <= MaxLost
    BY <2>1, AreNumbers DEF RestOK
  <2> DEFINE n == Len(layers[t])  c == Credit(t)  p == Pending(t)  b == Binding(t)
  <2>3. c = lost \/ c = lost + 1
    BY Zenon DEF Credit
  <2>4. /\ n \in Nat /\ c \in Nat /\ p \in {0, 1} /\ b \in {0, 1}
        /\ c = 0 => n = 0
        /\ c > 0 => n + p + b <= MaxTargetLayers + c
    BY <2>1, <2>2, Zenon DEF Numbers, Paid
  <2>5. n <= MaxTargetLayers + 1 + MaxLost
    <3> HIDE DEF n, c, p, b
    <3>1. CASE c = 0
      BY <2>4, <3>1
    <3>2. CASE c > 0
      <4>1. n <= MaxTargetLayers + c
        BY <2>4, <3>2
      <4>2. c <= MaxLost + 1
        BY <2>2, <2>3
      <4> QED
        BY <2>4, <4>1, <4>2
    <3> QED
      BY <2>4, <3>1, <3>2
  <2> QED
    BY <2>5
<1>2. TypeOK /\ LayersInv => LayersBounded
  BY <1>1 DEF LayersBounded
<1> QED
  BY <1>2, TypeCorrect, LayersHold, PTL

=============================================================================
