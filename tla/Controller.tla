----------------------------- MODULE Controller -----------------------------
(***************************************************************************)
(* internal/driver/controller.go: CreateVolume, DeleteVolume,              *)
(* ControllerExpandVolume and ControllerModifyVolume, call by call of the  *)
(* retyc CLI.  A volume is a dataroom of the Retyc service, titled after   *)
(* the volume; its claim and its PV are objects of Kubernetes.             *)
(*                                                                         *)
(* csi-provisioner and csi-resizer call the driver and retry.  A CLI that  *)
(* is killed or loses its connection leaves a request that took effect,    *)
(* did not, or is still on its way.  With several replicas, the one that   *)
(* leads calls its own driver, and the call of a former leader runs on,    *)
(* with nobody to hear its answer.                                         *)
(*                                                                         *)
(* Abstractions.  One account, whose credentials are valid.  A listing is  *)
(* one step.  A claim without an owner annotation is a claim that is gone: *)
(* both are refused by checkClaim.                                         *)
(***************************************************************************)
EXTENDS Capacity, CliErrors, FiniteSets

CONSTANTS
  Volumes,       \* the volumes, whose names are the titles of their datarooms
  Servers,       \* the replicas of the controller
  FirstLeader,   \* the replica that leads first
  Ask,           \* volume -> the capacity range of its claim
  Goals,         \* the sizes a claim or the owner of a dataroom may ask for later
  MaxDatarooms,  \* the quota of the account
  MaxRooms,      \* bound: datarooms created
  MaxFaults,     \* bound: requests of the CLI that break
  MaxFailovers,  \* bound: changes of the leader
  MaxChanges,    \* bound: changes of a class, and of a reservation by its owner
  OldCLI,        \* the CLI gives no kind to its errors
  NoRoom

ASSUME ServersAssumption == FirstLeader \in Servers
ASSUME AskAssumption == Ask \in [Volumes -> CapacityRanges]
ASSUME GoalsAssumption == Goals \subseteq Nat \ {0}
ASSUME BoundsAssumption ==
  MaxDatarooms \in Nat /\ MaxRooms \in Nat /\ MaxFaults \in Nat /\ MaxFailovers \in Nat /\ MaxChanges \in Nat
ASSUME OldCLIAssumption == OldCLI \in BOOLEAN
ASSUME NoRoomAssumption == NoRoom \notin [title : Volumes, size : Nat, versioning : {"on", "off"}]

VARIABLES
  rooms,       \* the datarooms of the account, by ID
  made,        \* the last ID
  flight,      \* requests whose CLI is dead, that the service has not served
  strays,      \* datarooms a volume got from a request nobody waits for
  overtaken,   \* volumes whose dataroom was set by such a request
  claim,       \* the claims that exist
  goal,        \* the capacity each claim requests now, to expand its volume
  class,       \* the versioning that the class of each claim asks for now
  phase,       \* where each volume is in its life
  pv,          \* the handle of its PV, 0 without one
  reported,    \* the capacity its PV reports
  applied,     \* the class csi-resizer holds applied, if no error left it unknown
  background,  \* csi-provisioner holds that a creation may be under way
  leader,      \* the replica that leads
  call,        \* each driver's CreateVolume or DeleteVolume of each volume
  resize,      \* the ControllerExpandVolume of each volume
  modify,      \* its ControllerModifyVolume, by what it sets
  faults, failovers, changes

service == <<rooms, made, flight, strays, overtaken>>
claims == <<claim, goal, class>>
volume == <<phase, pv, reported, applied, background>>
resizer == <<resize, modify>>
budget == <<faults, failovers, changes>>
vars == <<service, claims, volume, leader, call, resizer, budget>>

Ids == 1..MaxRooms
Versioning == {"on", "off"}
Rooms == [title : Volumes, size : Nat, versioning : Versioning]
NotSent == "not sent"

Init ==
  /\ rooms = [i \in Ids |-> NoRoom] /\ made = 0 /\ flight = {}
  /\ strays = [v \in Volumes |-> 0] /\ overtaken = {}
  /\ claim = Volumes /\ goal = [v \in Volumes |-> Ask[v].required] /\ class = [v \in Volumes |-> "on"]
  /\ phase = [v \in Volumes |-> "pending"] /\ pv = [v \in Volumes |-> 0]
  /\ reported = [v \in Volumes |-> 0] /\ applied = [v \in Volumes |-> "on"]
  /\ background = {}
  /\ leader = FirstLeader
  /\ call = [s \in Servers |-> [v \in Volumes |-> "idle"]]
  /\ resize = [v \in Volumes |-> [step |-> "idle", want |-> 0]]
  /\ modify = [v \in Volumes |-> "idle"]
  /\ faults = 0 /\ failovers = 0 /\ changes = 0

-----------------------------------------------------------------------------
(* The Retyc service, and the CLI. *)

Exists(i) == rooms[i] # NoRoom

RoomsOf(v) == {i \in Ids : Exists(i) /\ rooms[i].title = v}

(* HasDataroomQuota, and what the service holds itself to. *)
Full == Cardinality({i \in Ids : Exists(i)}) >= MaxDatarooms

CreateRequest(v, n) == [op |-> "create", title |-> v, size |-> Sent(n), versioning |-> class[v]]

RemoveRequest(i) == [op |-> "rm", id |-> i]

(* Mutant of settingArgs: the default of the CLI is sent with a capacity.  *)
SetSizeAndDefault(i, n) == [op |-> "set", id |-> i, size |-> Sent(n), versioning |-> "on"]

(* UpdateDataroom sends the settings it is given, and no other. *)
SetSize(i, n) == [op |-> "set", id |-> i, size |-> Sent(n), versioning |-> NotSent]

SetVersioning(i, b) == [op |-> "set", id |-> i, size |-> 0, versioning |-> b]

(* A reservation is not shrunk; 0 is none sent. *)
Accepts(q) ==
  CASE q.op = "create" -> ~ Full /\ made < MaxRooms
    [] q.op = "rm" -> Exists(q.id)
    [] q.op = "set" -> Exists(q.id) /\ (q.size = 0 \/ q.size >= rooms[q.id].size)

Refusal(q) ==
  CASE q.op = "create" -> "api_error"
    [] q.op = "rm" -> "not_found"
    [] q.op = "set" -> IF Exists(q.id) THEN "capacity_shrink" ELSE "not_found"

(* What is not sent stays. *)
Updated(room, q) ==
  [title |-> room.title,
   size |-> IF q.size = 0 THEN room.size ELSE q.size,
   versioning |-> IF q.versioning = NotSent THEN room.versioning ELSE q.versioning]

Serve(q) ==
  /\ Accepts(q)
  /\ \/ /\ q.op = "create" /\ made' = made + 1
        /\ rooms' = [rooms EXCEPT ![made + 1] =
                       [title |-> q.title, size |-> q.size, versioning |-> q.versioning]]
     \/ q.op = "rm" /\ rooms' = [rooms EXCEPT ![q.id] = NoRoom] /\ UNCHANGED made
     \/ q.op = "set" /\ rooms' = [rooms EXCEPT ![q.id] = Updated(@, q)] /\ UNCHANGED made

Fault == faults < MaxFaults /\ faults' = faults + 1 /\ UNCHANGED <<failovers, changes>>

Succeeds(q) == Serve(q) /\ UNCHANGED <<flight, budget>>

Refuses(q) == ~ Accepts(q) /\ UNCHANGED <<rooms, made, flight, budget>>

(* The errors a CLI gives of a refusal. *)
ErrorsOf(q) ==
  IF OldCLI /\ Refusal(q) \in Refusals THEN {TextError(t) : t \in Texts(Refusal(q))}
  ELSE {KindError(Refusal(q))}

Breaks(q) ==
  /\ Fault
  /\ \/ UNCHANGED <<rooms, made, flight>>
     \/ Serve(q) /\ UNCHANGED flight
     \/ flight' = flight \cup {q} /\ UNCHANGED <<rooms, made>>

(* A request reaches the service, long after its CLI. *)
LateRequest ==
  \E q \in flight :
    /\ flight' = flight \ {q}
    /\ Serve(q) \/ (~ Accepts(q) /\ UNCHANGED <<rooms, made>>)
    /\ strays' = IF made' = made THEN strays ELSE [strays EXCEPT ![q.title] = @ + 1]
    /\ overtaken' = IF q.op = "set" /\ q.versioning # NotSent /\ Exists(q.id)
                    THEN overtaken \cup {rooms[q.id].title} ELSE overtaken
    /\ UNCHANGED <<claims, volume, leader, call, resizer, budget>>

(* "A reservation made larger elsewhere (the web app, the CLI)." *)
OwnerEnlarges ==
  \E i \in Ids, n \in Goals :
    /\ changes < MaxChanges /\ changes' = changes + 1
    /\ Exists(i) /\ n > rooms[i].size /\ rooms' = [rooms EXCEPT ![i].size = n]
    /\ UNCHANGED <<made, flight, strays, overtaken, claims, volume, leader, call, resizer, faults, failovers>>

-----------------------------------------------------------------------------
(* csi-provisioner, and the answers it gets. *)

(* Error codes after which a creation may still be under way: it goes on,  *)
(* even for a claim that is deleted.                                       *)
Transient == {"Unavailable", "DeadlineExceeded", "Canceled", "Aborted", "ResourceExhausted"}

(* What the CLI, or the deadline of the call, makes of a request that breaks. *)
BrokenCodes == {ApiError(Broken), "DeadlineExceeded"}

Go(s, v, step) == call' = [call EXCEPT ![s][v] = step]

Continues(s, v, step) == Go(s, v, step) /\ UNCHANGED volume

Fails(s, v, code) ==
  /\ Go(s, v, "idle")
  /\ background' = IF s # leader THEN background
                   ELSE IF code \in Transient THEN background \cup {v} ELSE background \ {v}
  /\ UNCHANGED <<phase, pv, reported, applied>>

(* The PV of a claim that is gone meanwhile is released at once. *)
Provisioned(s, v, i, n) ==
  /\ Go(s, v, "idle")
  /\ IF s # leader THEN UNCHANGED volume
     ELSE /\ phase' = [phase EXCEPT ![v] = IF v \in claim THEN "bound" ELSE "released"]
          /\ pv' = [pv EXCEPT ![v] = i] /\ reported' = [reported EXCEPT ![v] = n]
          /\ applied' = [applied EXCEPT ![v] = class[v]]
          /\ background' = background \ {v}

BeginCreate(v) ==
  /\ phase[v] = "pending" /\ v \in claim \cup background /\ call[leader][v] = "idle"
  /\ Go(leader, v, "claim")
  /\ UNCHANGED <<service, claims, volume, leader, resizer, budget>>

BeginDelete(v) ==
  /\ phase[v] = "released" /\ call[leader][v] = "idle"
  /\ Go(leader, v, "delete")
  /\ UNCHANGED <<service, claims, volume, leader, resizer, budget>>

-----------------------------------------------------------------------------
(* CreateVolume. *)

Reservation(v) == ReservedBytes(Ask[v])

(* Mutant: the quota is checked with the claim, before the listing. *)
CheckClaimAndQuota(s, v) ==
  /\ call[s][v] = "claim"
  /\ \/ v \in claim /\ Full /\ Fails(s, v, "ResourceExhausted") /\ UNCHANGED budget
     \/ v \in claim /\ ~ Full /\ Continues(s, v, "list") /\ UNCHANGED budget
     \/ v \notin claim /\ Fails(s, v, "NotFound") /\ UNCHANGED budget
  /\ UNCHANGED <<service, claims, leader, resizer>>

(* The range, then the claim: everything that can be refused is, before    *)
(* anything is created.                                                    *)
CheckClaim(s, v) ==
  /\ call[s][v] = "claim"
  /\ \/ Reservation(v).code # "OK" /\ Fails(s, v, Reservation(v).code) /\ UNCHANGED budget
     \/ Reservation(v).code = "OK" /\ v \in claim /\ Continues(s, v, "list") /\ UNCHANGED budget
     \/ Reservation(v).code = "OK" /\ v \notin claim /\ Fails(s, v, "NotFound") /\ UNCHANGED budget
     \/ Reservation(v).code = "OK" /\ Fails(s, v, "Unavailable") /\ Fault
  /\ UNCHANGED <<service, claims, leader, resizer>>

(* A dataroom of the title is reused if its reservation fits the request. *)
Compatible(v, room) ==
  \/ room.size = 0
  \/ room.size >= Reservation(v).bytes /\ (Ask[v].limit > 0 => room.size <= Ask[v].limit)

Capacity(v, room) == IF room.size = 0 THEN Reservation(v).bytes ELSE room.size

(* Mutant: no dataroom is reused. *)
ListNothing(s, v) ==
  /\ call[s][v] = "list" /\ Continues(s, v, "quota")
  /\ UNCHANGED <<service, claims, leader, resizer, budget>>

(* The first dataroom of the title decides, in the order of the listing. *)
List(s, v) ==
  /\ call[s][v] = "list"
  /\ \/ RoomsOf(v) = {} /\ Continues(s, v, "quota") /\ UNCHANGED budget
     \/ /\ \E i \in RoomsOf(v) :
             IF Compatible(v, rooms[i]) THEN Provisioned(s, v, i, Capacity(v, rooms[i]))
             ELSE Fails(s, v, "AlreadyExists")
        /\ UNCHANGED budget
     \/ Fault /\ \E code \in BrokenCodes : Fails(s, v, code)
  /\ UNCHANGED <<service, claims, leader, resizer>>

(* The account may also be out of storage for a while: read-only. *)
Quota(s, v) ==
  /\ call[s][v] = "quota"
  /\ \/ ~ Full /\ Continues(s, v, "create") /\ UNCHANGED budget
     \/ Full /\ Fails(s, v, "ResourceExhausted") /\ UNCHANGED budget
     \/ Fault /\ \E code \in BrokenCodes \cup {"ResourceExhausted"} : Fails(s, v, code)
  /\ UNCHANGED <<service, claims, leader, resizer>>

Create(s, v) ==
  /\ call[s][v] = "create"
  /\ \E q \in {CreateRequest(v, Reservation(v).bytes)} :
       \/ Succeeds(q) /\ Provisioned(s, v, made + 1, Reservation(v).bytes)
       \/ Refuses(q) /\ \E e \in ErrorsOf(q) : Fails(s, v, ApiError(e))
       \/ Breaks(q) /\ \E code \in BrokenCodes : Fails(s, v, code)
  /\ strays' = IF s # leader /\ made' # made THEN [strays EXCEPT ![v] = @ + 1] ELSE strays
  /\ UNCHANGED <<overtaken, claims, leader, resizer>>

-----------------------------------------------------------------------------
(* DeleteVolume. *)

Deleted(s, v) ==
  /\ Go(s, v, "idle")
  /\ phase' = IF s = leader THEN [phase EXCEPT ![v] = "deleted"] ELSE phase
  /\ UNCHANGED <<pv, reported, applied, background>>

(* Mutant: any error says that the dataroom is gone. *)
DeleteWhateverIsSaid(s, v) ==
  LET q == RemoveRequest(pv[v])
  IN /\ call[s][v] = "delete"
     /\ (Succeeds(q) \/ Refuses(q) \/ Breaks(q)) /\ Deleted(s, v)
     /\ UNCHANGED <<strays, overtaken, claims, leader, resizer>>

(* A dataroom that is gone already is a success: a retry. *)
Delete(s, v) ==
  LET q == RemoveRequest(pv[v])
  IN /\ call[s][v] = "delete"
     /\ \/ Succeeds(q) /\ Deleted(s, v)
        \/ Refuses(q) /\ \E e \in ErrorsOf(q) :
             IF IsNotFound(e) THEN Deleted(s, v) ELSE Continues(s, v, "idle")
        \/ Breaks(q) /\ Continues(s, v, "idle")
     /\ UNCHANGED <<strays, overtaken, claims, leader, resizer>>

-----------------------------------------------------------------------------
(* ControllerExpandVolume, called by csi-resizer. *)

Resizing(v, step, want) == resize' = [resize EXCEPT ![v] = [step |-> step, want |-> want]]

Expanded(v, n) ==
  Resizing(v, "idle", 0) /\ reported' = [reported EXCEPT ![v] = IF n > @ THEN n ELSE @]

NotExpanded(v) == Resizing(v, "idle", 0) /\ UNCHANGED reported

BeginExpand(v) ==
  /\ phase[v] = "bound" /\ goal[v] > reported[v] /\ resize[v].step = "idle"
  /\ Resizing(v, "list", ReservedBytes([required |-> goal[v], limit |-> 0]).bytes)
  /\ UNCHANGED <<service, claims, volume, leader, call, modify, budget>>

(* Mutant: the reservation is set without a look at it. *)
ExpandUnread(v) ==
  /\ resize[v].step = "list" /\ Resizing(v, "set", resize[v].want)
  /\ UNCHANGED <<service, claims, volume, leader, call, modify, budget>>

(* A reservation that covers the request is left alone. *)
ExpandList(v) ==
  /\ resize[v].step = "list"
  /\ \/ /\ Exists(pv[v]) /\ rooms[pv[v]].size >= resize[v].want
        /\ Expanded(v, rooms[pv[v]].size) /\ UNCHANGED budget
     \/ /\ ~ (Exists(pv[v]) /\ rooms[pv[v]].size >= resize[v].want)
        /\ Resizing(v, "set", resize[v].want) /\ UNCHANGED <<reported, budget>>
     \/ Fault /\ NotExpanded(v)
  /\ UNCHANGED <<service, claims, phase, pv, applied, background, leader, call, modify>>

ExpandSet(v) ==
  /\ resize[v].step = "set"
  /\ \E q \in {SetSize(pv[v], resize[v].want)} :
       \/ Succeeds(q) /\ Expanded(v, resize[v].want)
       \/ (Refuses(q) \/ Breaks(q)) /\ NotExpanded(v)
  /\ UNCHANGED <<strays, overtaken, claims, phase, pv, applied, background, leader, call, modify>>

-----------------------------------------------------------------------------
(* ControllerModifyVolume, called by csi-resizer. *)

BeginModify(v) ==
  /\ phase[v] = "bound" /\ class[v] # applied[v] /\ modify[v] = "idle"
  /\ modify' = [modify EXCEPT ![v] = class[v]]
  /\ UNCHANGED <<service, claims, volume, leader, call, resize, budget>>

ModifySet(v) ==
  LET q == SetVersioning(pv[v], modify[v])
  IN /\ modify[v] # "idle" /\ modify' = [modify EXCEPT ![v] = "idle"]
     /\ \/ Succeeds(q) /\ applied' = [applied EXCEPT ![v] = modify[v]]
        \/ (Refuses(q) \/ Breaks(q)) /\ applied' = [applied EXCEPT ![v] = "unknown"]
     /\ UNCHANGED <<strays, overtaken, claims, phase, pv, reported, background, leader, call, resize>>

-----------------------------------------------------------------------------
(* The users of the cluster, and the lease of the replicas. *)

DeleteClaim(v) ==
  /\ v \in claim /\ claim' = claim \ {v}
  /\ phase' = [phase EXCEPT ![v] = IF @ = "bound" THEN "released" ELSE @]
  /\ UNCHANGED <<service, goal, class, pv, reported, applied, background, leader, call, resizer, budget>>

EnlargeClaim(v) ==
  /\ phase[v] = "bound"
  /\ \E n \in Goals : n > goal[v] /\ goal' = [goal EXCEPT ![v] = n]
  /\ UNCHANGED <<service, claim, class, volume, leader, call, resizer, budget>>

ChangeClass(v) ==
  /\ phase[v] = "bound" /\ changes < MaxChanges /\ changes' = changes + 1
  /\ \E b \in Versioning \ {class[v]} : class' = [class EXCEPT ![v] = b]
  /\ UNCHANGED <<service, claim, goal, volume, leader, call, resizer, faults, failovers>>

(* Another replica leads: what csi-provisioner had in memory is lost.      *)
Failover ==
  /\ failovers < MaxFailovers /\ failovers' = failovers + 1
  /\ \E s \in Servers \ {leader} : (\A v \in Volumes : call[s][v] = "idle") /\ leader' = s
  /\ background' = {}
  /\ UNCHANGED <<service, claims, phase, pv, reported, applied, call, resizer, faults, changes>>

-----------------------------------------------------------------------------
Begin(v) == BeginCreate(v) \/ BeginDelete(v) \/ BeginExpand(v) \/ BeginModify(v)

Step(s, v) ==
  CheckClaim(s, v) \/ List(s, v) \/ Quota(s, v) \/ Create(s, v) \/ Delete(s, v)

Expand(v) == ExpandList(v) \/ ExpandSet(v)

User(v) == DeleteClaim(v) \/ EnlargeClaim(v) \/ ChangeClass(v)

Next ==
  \/ LateRequest \/ OwnerEnlarges \/ Failover
  \/ \E v \in Volumes :
       Begin(v) \/ Expand(v) \/ ModifySet(v) \/ User(v) \/ \E s \in Servers : Step(s, v)

Spec == Init /\ [][Next]_vars

(* The sidecars retry, and the driver answers their calls. *)
Fairness ==
  \A v \in Volumes :
    /\ WF_vars(BeginCreate(v)) /\ WF_vars(BeginDelete(v)) /\ WF_vars(BeginExpand(v))
    /\ WF_vars(Expand(v)) /\ \A s \in Servers : WF_vars(Step(s, v))

FairSpec == Spec /\ Fairness

-----------------------------------------------------------------------------
Requests ==
  [op : {"create"}, title : Volumes, size : Nat, versioning : Versioning]
  \cup [op : {"rm"}, id : Ids]
  \cup [op : {"set"}, id : Ids, size : Nat, versioning : Versioning \cup {NotSent}]

ServiceOK ==
  /\ made \in 0..MaxRooms /\ rooms \in [Ids -> Rooms \cup {NoRoom}]
  /\ \A i \in Ids : Exists(i) => i <= made
  /\ flight \subseteq Requests /\ strays \in [Volumes -> Nat] /\ overtaken \subseteq Volumes

VolumesOK ==
  /\ claim \subseteq Volumes /\ background \subseteq Volumes
  /\ goal \in [Volumes -> Int] /\ class \in [Volumes -> Versioning]
  /\ phase \in [Volumes -> {"pending", "bound", "released", "deleted"}]
  /\ pv \in [Volumes -> 0..made] /\ reported \in [Volumes -> Nat]
  /\ applied \in [Volumes -> Versioning \cup {"unknown"}]

CallsOK ==
  /\ leader \in Servers
  /\ call \in [Servers -> [Volumes -> {"idle", "claim", "list", "quota", "create", "delete"}]]
  /\ resize \in [Volumes -> [step : {"idle", "list", "set"}, want : Nat]]
  /\ modify \in [Volumes -> Versioning \cup {"idle"}]
  /\ faults \in 0..MaxFaults /\ failovers \in 0..MaxFailovers /\ changes \in 0..MaxChanges

TypeOK == ServiceOK /\ VolumesOK /\ CallsOK

(* A creation that is retried reuses the dataroom of the one before        *)
(* (controller.go:212), although titles are not unique: a volume has more  *)
(* than one, or one after its deletion, only from requests that were on    *)
(* their way or of a former leader.                                        *)
OneDataroom ==
  \A v \in Volumes :
    Cardinality(RoomsOf(v)) <= strays[v] + (IF phase[v] = "deleted" THEN 0 ELSE 1)

(* The versioning that csi-resizer holds applied is that of the dataroom,  *)
(* so that a class it finds applied needs no call: an expansion leaves it  *)
(* alone (settingArgs, client.go:350), a call that failed leaves it        *)
(* unknown, and only a request that reaches the service after the next     *)
(* call overtakes it.                                                      *)
AppliedMeansSet ==
  \A v \in Volumes \ overtaken :
    phase[v] = "bound" /\ applied[v] # "unknown" => rooms[pv[v]].versioning = applied[v]

(* A claim that stays gets its volume, although a lost answer left a       *)
(* dataroom that used the last slot of the account (controller.go:213).    *)
Refused(v) ==
  \/ Reservation(v).code # "OK"
  \/ IF RoomsOf(v) = {} THEN Full ELSE \E i \in RoomsOf(v) : ~ Compatible(v, rooms[i])

ClaimServed ==
  \A v \in Volumes : <>[](v \in claim /\ ~ Refused(v)) => <>(phase[v] = "bound")

(* A volume that is released is deleted, whatever the tries before it did. *)
DeleteEnds == \A v \in Volumes : phase[v] = "released" ~> phase[v] = "deleted"

(* A claim that asks for more gets it, even if the owner has enlarged the  *)
(* dataroom past it (controller.go:363).                                   *)
ExpandEnds ==
  \A v \in Volumes : <>[](phase[v] = "bound") => <>[](reported[v] >= goal[v])

(* What the controller promises of a volume to the cluster. *)
Promise ==
  INSTANCE ProvisionedVolume WITH
    NoDataroom <- -1,
    Allowed <- [v \in Volumes |-> {n \in Nat : Allows(Ask[v], n)}],
    reserved <- [v \in Volumes |-> IF pv[v] # 0 /\ Exists(pv[v]) THEN rooms[pv[v]].size ELSE -1]

ImplementsPromise == Promise!Spec
=============================================================================
