---------------------------- MODULE PromiseProofs ----------------------------
(***************************************************************************)
(* Controller implements ProvisionedVolume, and the class that csi-resizer *)
(* holds applied is set, for every value of the constants.  Both rest on   *)
(* what a request can still do when it reaches the service, long after its *)
(* caller: nothing but what its volume is owed.                            *)
(***************************************************************************)
EXTENDS ControllerProofs

USE ServersAssumption, AskAssumption, BoundsAssumption, FloorAssumption

(* What a request may still do. *)
Known(q) ==
  /\ q.op = "create" =>
       /\ phase[q.title] = "pending" => q.versioning = class[q.title]
       /\ q.size = 0 => Reservation(q.title).bytes = 0
  /\ q.op = "rm" => \E w \in Volumes : pv[w] = q.id /\ phase[w] \in {"released", "deleted"}
  /\ q.op = "set" => \E w \in Volumes : pv[w] = q.id

KnownFlight == \A q \in flight : Known(q)

(* The dataroom of a volume that is bound stays. *)
Kept == \A v \in Volumes : phase[v] = "bound" => Exists(pv[v])

(* Until a volume has its PV, its datarooms are those of its creation. *)
Classed ==
  \A v \in Volumes : phase[v] = "pending" => \A i \in RoomsOf(v) : rooms[i].versioning = class[v]

(* No PV reports more than is reserved. *)
Covered ==
  /\ \A v \in Volumes : \A i \in RoomsOf(v) : rooms[i].size = 0 => Reservation(v).bytes = 0
  /\ \A v \in Volumes : pv[v] # 0 /\ Exists(pv[v]) => reported[v] <= rooms[pv[v]].size

Owed == KnownFlight /\ Kept /\ Classed /\ Covered

-----------------------------------------------------------------------------
(* A PV, once a volume has it, is the same, and its life goes on.          *)
LEMMA Lives ==
  ASSUME Control, [Next]_vars, NEW w \in Volumes, phase[w] # "pending"
  PROVE  /\ pv'[w] = pv[w]
         /\ phase[w] = "bound" => phase'[w] \in {"bound", "released"}
         /\ phase[w] = "released" => phase'[w] \in {"released", "deleted"}
         /\ phase[w] = "deleted" => phase'[w] = "deleted"
<1> USE DEF Control, TypeOK
<1>1. CASE UNCHANGED <<pv, phase>>
  BY <1>1
<1>2. ASSUME NEW v \in Volumes, DeleteClaim(v)
      PROVE  pv' = pv /\ phase'[w] \in {phase[w], IF phase[w] = "bound" THEN "released" ELSE phase[w]}
  BY <1>2 DEF DeleteClaim, VolumesOK
<1>3. ASSUME NEW v \in Volumes, NEW s \in Servers, Delete(s, v)
      PROVE  pv' = pv /\ (phase'[w] = phase[w] \/ (phase[w] = "released" /\ phase'[w] = "deleted"))
  <2>1. pv' = pv /\ (phase' = phase \/ (s = leader /\ phase' = [phase EXCEPT ![v] = "deleted"]))
    BY <1>3 DEF Delete, Deleted, Continues, volume
  <2>2. s = leader => phase[v] = "released"
    BY <1>3 DEF Delete, CallsFit
  <2>3. QED
    BY <2>1, <2>2 DEF VolumesOK
<1>4. ASSUME NEW v \in Volumes, NEW s \in Servers, List(s, v) \/ Create(s, v)
      PROVE  pv'[w] = pv[w] /\ phase'[w] = phase[w]
  <2>1. s = leader => phase[v] = "pending"
    BY <1>4 DEF List, Create, CallsFit
  <2>2. CASE UNCHANGED <<pv, phase>>
    BY <2>2
  <2>3. CASE s = leader /\ \E i, n : Provisioned(s, v, i, n)
    BY <2>1, <2>3 DEF Provisioned, VolumesOK
  <2>4. QED
    BY <1>4, <2>2, <2>3 DEF List, Create, Continues, Fails, Provisioned, volume
<1>5. \/ UNCHANGED <<pv, phase>>
      \/ \E v \in Volumes : DeleteClaim(v)
      \/ \E v \in Volumes, s \in Servers : Delete(s, v) \/ List(s, v) \/ Create(s, v)
  <2>1. CASE LateRequest \/ OwnerEnlarges \/ Failover \/ UNCHANGED vars
    BY <2>1 DEF LateRequest, OwnerEnlarges, Failover, vars, volume
  <2>2. ASSUME NEW v \in Volumes, Begin(v) \/ Expand(v) \/ ModifySet(v) \/ EnlargeClaim(v) \/ ChangeClass(v)
        PROVE  UNCHANGED <<pv, phase>>
    BY <2>2 DEF Begin, BeginCreate, BeginDelete, BeginExpand, BeginModify, Expand, ExpandList, ExpandSet,
                ModifySet, EnlargeClaim, ChangeClass, volume
  <2>3. ASSUME NEW v \in Volumes, NEW s \in Servers, CheckClaim(s, v) \/ Quota(s, v)
        PROVE  UNCHANGED <<pv, phase>>
    BY <2>3 DEF CheckClaim, Quota, Continues, Fails, volume
  <2>4. QED
    BY <2>1, <2>2, <2>3 DEF Next, User, Step
<1>6. QED
  BY <1>1, <1>2, <1>3, <1>4, <1>5

(* Two volumes have two datarooms. *)
LEMMA OwnRoom ==
  ASSUME Control, Titled, NEW v \in Volumes, NEW w \in Volumes, pv[v] = pv[w], pv[v] # 0, Exists(pv[v])
  PROVE  v = w
BY DEF Titled, RoomsOf

(* A class changes once its volume is bound. *)
LEMMA ClassKept ==
  ASSUME Control, [Next]_vars, NEW w \in Volumes, phase[w] = "pending"
  PROVE  class'[w] = class[w]
<1>1. ASSUME NEW v \in Volumes, ChangeClass(v) PROVE class'[w] = class[w]
  BY <1>1 DEF ChangeClass, Control, TypeOK, VolumesOK
<1>2. CASE LateRequest \/ OwnerEnlarges \/ Failover \/ UNCHANGED vars
  BY <1>2 DEF LateRequest, OwnerEnlarges, Failover, vars, claims
<1>3. ASSUME NEW v \in Volumes, Begin(v) \/ Expand(v) \/ ModifySet(v) \/ DeleteClaim(v) \/ EnlargeClaim(v)
      PROVE  class' = class
  BY <1>3 DEF Begin, BeginCreate, BeginDelete, BeginExpand, BeginModify, Expand, ExpandList, ExpandSet,
              ModifySet, DeleteClaim, EnlargeClaim, claims
<1>4. ASSUME NEW v \in Volumes, NEW s \in Servers, Step(s, v) PROVE class' = class
  BY <1>4 DEF Step, CheckClaim, List, Quota, Create, Delete, claims
<1>5. QED
  BY <1>1, <1>2, <1>3, <1>4 DEF Next, User

LEMMA KnownKept ==
  ASSUME Control, [Next]_vars, NEW q \in Requests, Known(q)
  PROVE  Known(q)'
<1>1. CASE q.op = "create"
  <2>1. q.title \in Volumes
    BY <1>1 DEF Requests
  <2>2. phase'[q.title] = "pending" => phase[q.title] = "pending"
    <3>1. phase[q.title] \in {"pending", "bound", "released", "deleted"}
      BY <2>1 DEF Control, TypeOK, VolumesOK
    <3>2. QED
      BY <2>1, <3>1, Lives
  <2>3. phase[q.title] = "pending" => class'[q.title] = class[q.title]
    BY <2>1, ClassKept
  <2>4. QED
    BY <1>1, <2>2, <2>3 DEF Known, Reservation
<1>2. CASE q.op = "rm"
  <2>1. PICK w \in Volumes : pv[w] = q.id /\ phase[w] \in {"released", "deleted"}
    BY <1>2 DEF Known
  <2>2. pv'[w] = q.id /\ phase'[w] \in {"released", "deleted"}
    BY <2>1, Lives
  <2>3. QED
    BY <1>2, <2>2 DEF Known
<1>3. CASE q.op = "set"
  <2>1. PICK w \in Volumes : pv[w] = q.id
    BY <1>3 DEF Known
  <2>2. phase[w] # "pending"
    BY <1>3, <2>1 DEF Control, PvSet, Requests, Ids
  <2>3. pv'[w] = q.id
    BY <2>1, <2>2, Lives
  <2>4. QED
    BY <1>3, <2>3 DEF Known
<1>4. QED
  BY <1>1, <1>2, <1>3 DEF Requests

(* The requests of a step: what is done, and what may be done later.       *)
LEMMA KnownRequests ==
  ASSUME Control, KnownFlight, Next
  PROVE  /\ \A q \in flight' \ flight : q \in Requests /\ Known(q)
         /\ \/ UNCHANGED <<rooms, made>>
            \/ OwnerEnlarges /\ made' = made
            \/ \E q \in Requests : Known(q) /\ Serve(q)
<1> USE DEF Control
<1> DEFINE Done == UNCHANGED <<rooms, made>> \/ \E q \in Requests : Known(q) /\ Serve(q)
           Later == \A q \in flight' \ flight : q \in Requests /\ Known(q)
<1>1. CASE LateRequest
  <2>1. \A q \in flight : q \in Requests /\ Known(q)
    BY DEF KnownFlight, TypeOK, ServiceOK
  <2>2. QED
    BY <1>1, <2>1 DEF LateRequest
<1>2. ASSUME NEW q \in Requests, Known(q), Succeeds(q) \/ Refuses(q) \/ Breaks(q)
      PROVE  Done /\ Later
  BY <1>2 DEF Succeeds, Refuses, Breaks
<1>3. ASSUME NEW v \in Volumes, NEW s \in Servers, Create(s, v)
      PROVE  Done /\ Later
  <2>1. CreateRequest(v, Reservation(v).bytes) \in Requests
    BY RequestTypes, ReservationType
  <2>2. Known(CreateRequest(v, Reservation(v).bytes))
    BY SentAsIs, ReservationType DEF Known, CreateRequest
  <2>3. QED
    BY <1>2, <1>3, <2>1, <2>2 DEF Create
<1>4. ASSUME NEW v \in Volumes, NEW s \in Servers, Delete(s, v)
      PROVE  Done /\ Later
  <2>1. phase[v] \in {"released", "deleted"} /\ pv[v] \in Ids
    BY <1>4, PvIds DEF Delete, CallsFit
  <2>2. RemoveRequest(pv[v]) \in Requests /\ Known(RemoveRequest(pv[v]))
    BY <2>1, RequestTypes DEF Known, RemoveRequest
  <2>3. QED
    BY <1>2, <1>4, <2>2 DEF Delete
<1>5. ASSUME NEW v \in Volumes, ExpandSet(v)
      PROVE  Done /\ Later
  <2>1. pv[v] \in Ids /\ resize[v].want \in Nat
    BY <1>5, PvIds DEF ExpandSet, CallsFit, TypeOK, CallsOK
  <2>2. SetSize(pv[v], resize[v].want) \in Requests /\ Known(SetSize(pv[v], resize[v].want))
    BY <2>1, RequestTypes DEF Known, SetSize
  <2>3. QED
    BY <1>2, <1>5, <2>2 DEF ExpandSet
<1>6. ASSUME NEW v \in Volumes, ModifySet(v)
      PROVE  Done /\ Later
  <2>1. pv[v] \in Ids /\ modify[v] \in Versioning
    BY <1>6, PvIds DEF ModifySet, CallsFit, TypeOK, CallsOK
  <2>2. SetVersioning(pv[v], modify[v]) \in Requests /\ Known(SetVersioning(pv[v], modify[v]))
    BY <2>1, RequestTypes DEF Known, SetVersioning
  <2>3. QED
    BY <1>2, <1>6, <2>2 DEF ModifySet
<1>7. CASE OwnerEnlarges
  BY <1>7 DEF OwnerEnlarges
<1>8. CASE Failover
  BY <1>8 DEF Failover, service
<1>9. ASSUME NEW v \in Volumes, Begin(v) \/ User(v) \/ ExpandList(v)
      PROVE  UNCHANGED <<rooms, made, flight>>
  BY <1>9 DEF Begin, BeginCreate, BeginDelete, BeginExpand, BeginModify, User, DeleteClaim, EnlargeClaim,
              ChangeClass, ExpandList, service
<1>10. ASSUME NEW v \in Volumes, NEW s \in Servers, CheckClaim(s, v) \/ List(s, v) \/ Quota(s, v)
      PROVE  UNCHANGED <<rooms, made, flight>>
  BY <1>10 DEF CheckClaim, List, Quota, service
<1>11. QED
  BY <1>1, <1>3, <1>4, <1>5, <1>6, <1>7, <1>8, <1>9, <1>10 DEF Next, Step, Expand

-----------------------------------------------------------------------------
(* Datarooms, volumes, and what is still on its way. *)

LEMMA ServedRoom ==
  ASSUME Control, NEW q \in Requests, Serve(q), NEW i \in Ids, Exists(i)'
  PROVE  \/ rooms'[i] = rooms[i]
         \/ /\ q.op = "create" /\ i = made + 1
            /\ rooms'[i] = [title |-> q.title, size |-> q.size, versioning |-> q.versioning]
         \/ /\ q.op = "set" /\ i = q.id /\ Exists(i) /\ rooms'[i] = Updated(rooms[i], q)
            /\ q.size = 0 \/ q.size >= rooms[i].size
<1> USE DEF Control, TypeOK, ServiceOK
<1>1. CASE q.op = "create"
  BY <1>1 DEF Serve
<1>2. CASE q.op = "rm"
  <2>1. q.id \in Ids /\ rooms' = [rooms EXCEPT ![q.id] = NoRoom]
    BY <1>2 DEF Serve, Requests
  <2>2. QED
    BY <2>1 DEF Exists
<1>3. CASE q.op = "set"
  BY <1>3 DEF Serve, Accepts, Requests
<1>4. QED
  BY <1>1, <1>2, <1>3 DEF Requests

(* A dataroom is as it was, but for its reservation, which grows, and its  *)
(* versioning, once a PV names it; or it is new, and as its volume wants.  *)
LEMMA RoomSteps ==
  ASSUME Control, KnownFlight, Next, NEW i \in Ids, Exists(i)'
  PROVE  \/ /\ Exists(i) /\ rooms'[i].title = rooms[i].title
            /\ rooms[i].size \in Nat /\ rooms'[i].size \in Nat /\ rooms'[i].size >= rooms[i].size
            /\ rooms'[i].versioning = rooms[i].versioning \/ \E w \in Volumes : pv[w] = i
         \/ /\ i = made + 1
            /\ phase[rooms'[i].title] = "pending" => rooms'[i].versioning = class[rooms'[i].title]
            /\ rooms'[i].size = 0 => Reservation(rooms'[i].title).bytes = 0
<1> USE DEF Control, TypeOK, ServiceOK
<1>1. Exists(i) => rooms[i] \in Rooms
  BY DEF Exists
<1>2. CASE rooms'[i] = rooms[i]
  BY <1>1, <1>2 DEF Exists, Rooms
<1>3. CASE OwnerEnlarges
  <2>1. PICK j \in Ids, n \in Goals : Exists(j) /\ n > rooms[j].size /\ rooms' = [rooms EXCEPT ![j].size = n]
    BY <1>3 DEF OwnerEnlarges
  <2>2. rooms' = [rooms EXCEPT ![j] = [rooms[j] EXCEPT !.size = n]]
    BY <2>1
  <2>3. CASE i # j
    BY <2>2, <2>3, <1>2
  <2>4. CASE i = j
    <3>1. rooms'[i] = [rooms[i] EXCEPT !.size = n] /\ n \in Nat
      BY <2>2, <2>4, GoalsAssumption
    <3>2. QED
      BY <1>1, <2>1, <2>4, <3>1 DEF Rooms
  <2>5. QED
    BY <2>3, <2>4
<1>4. ASSUME NEW q \in Requests, Known(q), Serve(q), rooms'[i] # rooms[i]
      PROVE  \/ /\ Exists(i) /\ rooms'[i].title = rooms[i].title
                /\ rooms[i].size \in Nat /\ rooms'[i].size \in Nat /\ rooms'[i].size >= rooms[i].size
                /\ \E w \in Volumes : pv[w] = i
             \/ /\ i = made + 1
                /\ phase[rooms'[i].title] = "pending" => rooms'[i].versioning = class[rooms'[i].title]
                /\ rooms'[i].size = 0 => Reservation(rooms'[i].title).bytes = 0
  <2>1. CASE q.op = "create" /\ i = made + 1
             /\ rooms'[i] = [title |-> q.title, size |-> q.size, versioning |-> q.versioning]
    BY <1>4, <2>1 DEF Known
  <2>2. CASE q.op = "set" /\ i = q.id /\ Exists(i) /\ rooms'[i] = Updated(rooms[i], q)
             /\ (q.size = 0 \/ q.size >= rooms[i].size)
    <3>1. q.size \in Nat
      BY <2>2 DEF Requests
    <3>2. rooms[i].size \in Nat
      BY <1>1, <2>2 DEF Rooms
    <3>3. rooms'[i].title = rooms[i].title /\ rooms'[i].size = (IF q.size = 0 THEN rooms[i].size ELSE q.size)
      BY <2>2 DEF Updated
    <3>4. \E w \in Volumes : pv[w] = i
      BY <1>4, <2>2 DEF Known
    <3>5. QED
      BY <2>2, <3>1, <3>2, <3>3, <3>4
  <2>3. QED
    BY <1>4, <2>1, <2>2, ServedRoom
<1>5. QED
  BY <1>2, <1>3, <1>4, KnownRequests

(* Only CreateVolume gives a volume its PV. *)
LEMMA PhaseSteps ==
  ASSUME Next, NEW w \in Volumes, phase[w] = "pending", phase'[w] # "pending", Control
  PROVE  \E v \in Volumes, s \in Servers : List(s, v) \/ Create(s, v)
<1> USE DEF Control, TypeOK
<1>1. CASE LateRequest \/ OwnerEnlarges \/ Failover
  BY <1>1 DEF LateRequest, OwnerEnlarges, Failover, volume
<1>2. ASSUME NEW v \in Volumes, Begin(v) \/ Expand(v) \/ ModifySet(v) \/ EnlargeClaim(v) \/ ChangeClass(v)
      PROVE  phase' = phase
  BY <1>2 DEF Begin, BeginCreate, BeginDelete, BeginExpand, BeginModify, Expand, ExpandList, ExpandSet,
              ModifySet, EnlargeClaim, ChangeClass, volume
<1>3. ASSUME NEW v \in Volumes, DeleteClaim(v) PROVE phase'[w] = "pending"
  BY <1>3 DEF DeleteClaim, VolumesOK
<1>4. ASSUME NEW v \in Volumes, NEW s \in Servers, CheckClaim(s, v) \/ Quota(s, v)
      PROVE  phase' = phase
  BY <1>4 DEF CheckClaim, Quota, Continues, Fails, volume
<1>5. ASSUME NEW v \in Volumes, NEW s \in Servers, Delete(s, v) PROVE phase'[w] = "pending"
  <2>1. phase' = phase \/ (s = leader /\ phase' = [phase EXCEPT ![v] = "deleted"])
    BY <1>5 DEF Delete, Deleted, Continues, volume
  <2>2. s = leader => phase[v] = "released"
    BY <1>5 DEF Delete, CallsFit
  <2>3. QED
    BY <2>1, <2>2 DEF VolumesOK
<1>6. QED
  BY <1>1, <1>2, <1>3, <1>4, <1>5 DEF Next, User, Step

(* CreateVolume of the leader ends: what the volume gets is what its claim *)
(* asks for.                                                               *)
LEMMA Provisioning ==
  ASSUME Control, Classed, Covered, NEW s \in Servers, NEW v \in Volumes, List(s, v) \/ Create(s, v),
         NEW w \in Volumes, phase[w] = "pending", phase'[w] # "pending"
  PROVE  /\ w = v /\ phase'[v] \in {"bound", "released"}
         /\ \A x \in Volumes \ {v} : phase'[x] = phase[x] /\ pv'[x] = pv[x] /\ reported'[x] = reported[x]
         /\ pv'[v] \in RoomsOf(v)' /\ rooms'[pv'[v]].versioning = class[v] /\ applied'[v] = class[v]
         /\ reported'[v] \in Nat /\ reported'[v] <= rooms'[pv'[v]].size /\ Allows(Ask[v], reported'[v])
         /\ \A i \in Ids : i # made + 1 => rooms'[i] = rooms[i]
<1> USE DEF Control, TypeOK
<1> DEFINE bytes == Reservation(v).bytes
<1>1. bytes \in Nat
  BY ReservationType
<1>2. Reservation(v).code = "OK"
  BY DEF List, Create, CallsFit
<1>3. /\ Allows(Ask[v], bytes)
      /\ bytes = 0 => Unset(Ask[v])
      /\ bytes # 0 => bytes >= MinDataroomCapacity /\ bytes >= Ask[v].required
  BY <1>2, ReservedType DEF Reservation
<1>4. PICK i \in Ids, n \in Nat :
        /\ s = leader /\ Provisioned(s, v, i, n) /\ i \in RoomsOf(v)'
        /\ rooms'[i].versioning = class[v] /\ n <= rooms'[i].size /\ Allows(Ask[v], n)
        /\ \A j \in Ids : j # made + 1 => rooms'[j] = rooms[j]
  <2>1. CASE List(s, v)
    <3>1. UNCHANGED rooms
      BY <2>1 DEF List, service
    <3>2. PICK i \in RoomsOf(v) : Compatible(v, rooms[i]) /\ Provisioned(s, v, i, Capacity(v, rooms[i]))
      BY <2>1 DEF List, Continues, Fails, volume
    <3>3. s = leader /\ phase[v] = "pending"
      BY <2>1, <3>2 DEF Provisioned, volume, List, CallsFit
    <3>4. i \in Ids /\ rooms[i] \in Rooms /\ rooms[i].versioning = class[v]
      BY <3>3 DEF RoomsOf, ServiceOK, Exists, Classed
    <3>5. rooms[i].size \in Nat /\ Ask[v].required \in Int /\ Ask[v].limit \in Int
      BY <3>4 DEF Rooms, CapacityRanges
    <3>6. CASE rooms[i].size = 0
      <4>1. Capacity(v, rooms[i]) = 0 /\ bytes = 0
        BY <3>6 DEF Capacity, Covered
      <4>2. QED
        BY <1>3, <3>1, <3>2, <3>3, <3>4, <3>6, <4>1 DEF RoomsOf, Exists
    <3>7. CASE rooms[i].size # 0
      <4>1. Capacity(v, rooms[i]) = rooms[i].size /\ rooms[i].size >= bytes
            /\ (Ask[v].limit > 0 => rooms[i].size <= Ask[v].limit)
        BY <3>2, <3>7 DEF Compatible, Capacity
      <4>2. Allows(Ask[v], rooms[i].size)
        BY <1>1, <1>3, <3>5, <4>1 DEF Allows
      <4>3. QED
        BY <3>1, <3>2, <3>3, <3>4, <3>5, <4>1, <4>2 DEF RoomsOf, Exists
    <3>8. QED
      BY <3>6, <3>7
  <2>2. CASE Create(s, v)
    <3> DEFINE q == CreateRequest(v, bytes)
    <3>1. q \in Requests /\ q.op = "create" /\ q.title = v /\ q.size = bytes /\ q.versioning = class[v]
      BY <1>1, RequestTypes, SentAsIs DEF CreateRequest
    <3>2. Succeeds(q) /\ Provisioned(s, v, made + 1, Reservation(v).bytes)
      BY <2>2 DEF Create, Fails
    <3>3. s = leader
      BY <3>2 DEF Provisioned, volume
    <3>4. /\ made + 1 \in Ids
          /\ rooms' = [rooms EXCEPT ![made + 1] =
                         [title |-> q.title, size |-> q.size, versioning |-> q.versioning]]
      BY <3>1, <3>2 DEF Succeeds, Serve, Accepts, Ids, ServiceOK
    <3>5. \A j \in Ids : j # made + 1 => rooms'[j] = rooms[j]
      BY <3>4 DEF ServiceOK
    <3>6. rooms'[made + 1] = [title |-> v, size |-> bytes, versioning |-> class[v]]
      BY <3>1, <3>4 DEF ServiceOK
    <3>7. made + 1 \in RoomsOf(v)'
      BY <3>1, <3>2, <3>4, ServedRooms DEF Succeeds
    <3>8. bytes <= bytes
      BY <1>1
    <3>9. QED
      BY <1>1, <1>3, <3>1, <3>2, <3>3, <3>4, <3>5, <3>6, <3>7, <3>8
  <2>3. QED
    BY <2>1, <2>2
<1>5. QED
  BY <1>4 DEF Provisioned, VolumesOK

(* A volume with a PV reports what it did, or what its dataroom has now.   *)
LEMMA ReportedSteps ==
  ASSUME Control, Next, NEW w \in Volumes, phase[w] # "pending"
  PROVE  /\ reported'[w] \in Nat /\ reported'[w] >= reported[w]
         /\ \/ reported'[w] = reported[w]
            \/ /\ phase'[w] = phase[w] /\ Exists(pv[w]) /\ Exists(pv[w])'
               /\ reported'[w] <= rooms'[pv[w]].size
               /\ \E v \in Volumes : w = v /\ Expand(v)
<1> USE DEF Control, TypeOK
<1>a. reported[w] \in Nat /\ pv[w] \in Ids
  BY PvIds DEF VolumesOK
<1>1. CASE UNCHANGED reported
  BY <1>1, <1>a
<1>2. ASSUME NEW v \in Volumes, NEW s \in Servers, List(s, v) \/ Create(s, v)
      PROVE  reported'[w] = reported[w]
  <2>1. s = leader => phase[v] = "pending"
    BY <1>2 DEF List, Create, CallsFit
  <2>2. CASE UNCHANGED reported
    BY <2>2
  <2>3. CASE s = leader /\ \E i, n : Provisioned(s, v, i, n)
    BY <2>1, <2>3 DEF Provisioned, VolumesOK
  <2>4. QED
    BY <1>2, <2>2, <2>3 DEF List, Create, Continues, Fails, Provisioned, volume
<1>3. ASSUME NEW v \in Volumes, ExpandList(v), reported' # reported
      PROVE  /\ \A x \in Volumes \ {v} : reported'[x] = reported[x]
             /\ reported'[v] \in Nat /\ reported'[v] >= reported[v]
             /\ \/ reported'[v] = reported[v]
                \/ Exists(pv[v]) /\ Exists(pv[v])' /\ reported'[v] <= rooms'[pv[v]].size
             /\ phase' = phase
  <2>1. /\ Exists(pv[v]) /\ Expanded(v, rooms[pv[v]].size)
        /\ UNCHANGED <<rooms, phase, pv>>
    BY <1>3 DEF ExpandList, NotExpanded, service
  <2>2. pv[v] \in Ids
    BY <1>3, PvIds DEF ExpandList, CallsFit
  <2>3. rooms[pv[v]].size \in Nat /\ reported[v] \in Nat
    BY <2>1, <2>2 DEF ServiceOK, VolumesOK, Exists, Rooms
  <2>4. reported' = [reported EXCEPT ![v] = IF rooms[pv[v]].size > reported[v] THEN rooms[pv[v]].size ELSE reported[v]]
    BY <2>1 DEF Expanded
  <2>5. QED
    BY <2>1, <2>3, <2>4 DEF VolumesOK, Exists
<1>4. ASSUME NEW v \in Volumes, ExpandSet(v), reported' # reported
      PROVE  /\ \A x \in Volumes \ {v} : reported'[x] = reported[x]
             /\ reported'[v] \in Nat /\ reported'[v] >= reported[v]
             /\ \/ reported'[v] = reported[v]
                \/ Exists(pv[v]) /\ Exists(pv[v])' /\ reported'[v] <= rooms'[pv[v]].size
             /\ phase' = phase
  <2> DEFINE n == resize[v].want
  <2>1. /\ Serve(SetSize(pv[v], n)) /\ Expanded(v, n) /\ UNCHANGED <<phase, pv>>
    BY <1>4 DEF ExpandSet, NotExpanded, Succeeds, SetSize
  <2>2. pv[v] \in Ids /\ n \in Nat
    BY <1>4, PvIds DEF ExpandSet, CallsFit, CallsOK
  <2>3. /\ Exists(pv[v])
        /\ rooms' = [rooms EXCEPT ![pv[v]] = Updated(rooms[pv[v]], SetSize(pv[v], n))]
    BY <2>1, <2>2 DEF Serve, Accepts, SetSize
  <2>4. rooms[pv[v]] \in Rooms /\ Updated(rooms[pv[v]], SetSize(pv[v], n)) \in Rooms
    BY <2>2, <2>3, SentAsIs DEF ServiceOK, Exists, Rooms, Updated, SetSize
  <2>5. Exists(pv[v])' /\ rooms'[pv[v]] = Updated(rooms[pv[v]], SetSize(pv[v], n))
    BY <2>1, <2>2, <2>3, <2>4, NoRoomAssumption DEF ServiceOK, Exists, Rooms, Versioning
  <2>6. rooms'[pv[v]].size = (IF n = 0 THEN rooms[pv[v]].size ELSE n)
    BY <2>2, <2>5, SentAsIs DEF Updated, SetSize
  <2>7. reported' = [reported EXCEPT ![v] = IF n > reported[v] THEN n ELSE reported[v]] /\ reported[v] \in Nat
    BY <2>1 DEF Expanded, VolumesOK
  <2>8. QED
    BY <2>1, <2>2, <2>3, <2>5, <2>6, <2>7 DEF VolumesOK
<1>5. CASE LateRequest \/ OwnerEnlarges \/ Failover
  BY <1>1, <1>5 DEF LateRequest, OwnerEnlarges, Failover, volume
<1>6. ASSUME NEW v \in Volumes, Begin(v) \/ User(v) \/ ModifySet(v)
      PROVE  UNCHANGED reported
  BY <1>6 DEF Begin, BeginCreate, BeginDelete, BeginExpand, BeginModify, User, DeleteClaim, EnlargeClaim,
              ChangeClass, ModifySet, volume
<1>7. ASSUME NEW v \in Volumes, NEW s \in Servers, CheckClaim(s, v) \/ Quota(s, v) \/ Delete(s, v)
      PROVE  UNCHANGED reported
  BY <1>7 DEF CheckClaim, Quota, Delete, Deleted, Continues, Fails, volume
<1>8. ASSUME NEW v \in Volumes, Expand(v), reported' # reported
      PROVE  /\ reported'[w] \in Nat /\ reported'[w] >= reported[w]
             /\ \/ reported'[w] = reported[w]
                \/ /\ phase'[w] = phase[w] /\ Exists(pv[w]) /\ Exists(pv[w])'
                   /\ reported'[w] <= rooms'[pv[w]].size
                   /\ \E x \in Volumes : w = x /\ Expand(x)
  BY <1>a, <1>3, <1>4, <1>8 DEF Expand
<1>9. QED
  BY <1>a, <1>1, <1>2, <1>5, <1>6, <1>7, <1>8 DEF Next, Step

-----------------------------------------------------------------------------
(* What the controller owes its volumes, step by step. *)

LEMMA InitOwed ==
  Init => Owed
<1> SUFFICES ASSUME Init PROVE Owed
  OBVIOUS
<1>1. \A v : RoomsOf(v) = {}
  BY DEF Init, RoomsOf, Exists
<1>2. QED
  BY <1>1 DEF Init, Owed, KnownFlight, Kept, Classed, Covered

LEMMA NextKnown ==
  ASSUME Control, KnownFlight, Next
  PROVE  KnownFlight'
<1> SUFFICES ASSUME NEW q \in flight' PROVE Known(q)'
  BY DEF KnownFlight
<1>1. q \in Requests /\ Known(q)
  BY KnownRequests DEF Control, TypeOK, ServiceOK, KnownFlight
<1>2. QED
  BY <1>1, KnownKept

LEMMA NextKept ==
  ASSUME Control, Datarooms, Owed, Next
  PROVE  Kept'
<1> SUFFICES ASSUME NEW v \in Volumes, phase'[v] = "bound" PROVE Exists(pv[v])'
  BY DEF Kept
<1> USE DEF Control, TypeOK
<1>1. CASE phase[v] = "pending"
  <2>1. pv'[v] \in RoomsOf(v)'
    BY <1>1, PhaseSteps, Provisioning DEF Owed
  <2>2. QED
    BY <2>1 DEF RoomsOf, Exists
<1>2. CASE phase[v] # "pending"
  <2>1. pv'[v] = pv[v] /\ phase[v] = "bound" /\ pv[v] \in Ids /\ Exists(pv[v])
    <3>1. phase[v] = "bound"
      BY <1>2, Lives DEF VolumesOK
    <3>2. QED
      BY <1>2, <3>1, Lives, PvIds DEF Owed, Kept
  <2>2. pv[v] # 0 /\ pv[v] \in RoomsOf(v)
    BY <2>1 DEF Ids, Datarooms, Titled
  <2>3. pv[v] \in RoomsOf(v)'
    <3>1. CASE UNCHANGED rooms
      BY <2>2, <3>1 DEF RoomsOf, Exists
    <3>2. CASE OwnerEnlarges
      BY <2>2, <3>2, OwnerRooms
    <3>3. ASSUME NEW q \in Requests, Known(q), Serve(q) PROVE pv[v] \in RoomsOf(v)'
      <4>1. CASE q.op \in {"create", "set"}
        BY <2>2, <3>3, <4>1, ServedRooms
      <4>2. CASE q.op = "rm"
        <5>1. PICK w \in Volumes : pv[w] = q.id /\ phase[w] \in {"released", "deleted"}
          BY <3>3, <4>2 DEF Known
        <5>2. q.id # pv[v]
          BY <2>1, <2>2, <5>1, OwnRoom DEF Datarooms
        <5>3. QED
          BY <2>2, <3>3, <4>2, <5>2, ServedRooms
      <4>3. QED
        BY <4>1, <4>2 DEF Requests
    <3>4. QED
      BY <3>1, <3>2, <3>3, KnownRequests DEF Owed
  <2>4. QED
    BY <2>1, <2>3 DEF RoomsOf, Exists
<1>3. QED
  BY <1>1, <1>2

LEMMA NextClassed ==
  ASSUME Control, Datarooms, Owed, Next
  PROVE  Classed'
<1> SUFFICES ASSUME NEW v \in Volumes, phase'[v] = "pending", NEW i \in RoomsOf(v)'
             PROVE  rooms'[i].versioning = class'[v]
  BY DEF Classed
<1>1. phase[v] = "pending" /\ class'[v] = class[v]
  <2>1. phase[v] \in {"pending", "bound", "released", "deleted"}
    BY DEF Control, TypeOK, VolumesOK
  <2>2. QED
    BY <2>1, Lives, ClassKept
<1>2. i \in Ids /\ Exists(i)' /\ rooms'[i].title = v
  BY DEF RoomsOf
<1>3. CASE /\ Exists(i) /\ rooms'[i].title = rooms[i].title
           /\ rooms'[i].versioning = rooms[i].versioning \/ \E w \in Volumes : pv[w] = i
  <2>1. i \in RoomsOf(v)
    BY <1>2, <1>3 DEF RoomsOf
  <2>2. ~ \E w \in Volumes : pv[w] = i
    <3>1. SUFFICES ASSUME NEW w \in Volumes, pv[w] = i PROVE FALSE
      OBVIOUS
    <3>2. pv[w] # 0 /\ i \in RoomsOf(w)
      BY <1>2, <1>3, <3>1 DEF Ids, Datarooms, Titled
    <3>3. w = v
      BY <2>1, <3>2 DEF RoomsOf
    <3>4. QED
      BY <1>1, <3>2, <3>3 DEF Control, PvSet
  <2>3. QED
    BY <1>1, <1>3, <2>1, <2>2 DEF Owed, Classed
<1>4. CASE i = made + 1 /\ (phase[rooms'[i].title] = "pending" => rooms'[i].versioning = class[rooms'[i].title])
  BY <1>1, <1>2, <1>4
<1>5. QED
  BY <1>2, <1>3, <1>4, RoomSteps DEF Owed

LEMMA NextCovered ==
  ASSUME Control, Datarooms, Owed, Next
  PROVE  Covered'
<1> USE DEF Control, TypeOK
<1>1. ASSUME NEW v \in Volumes, NEW i \in RoomsOf(v)', rooms'[i].size = 0
      PROVE  Reservation(v).bytes = 0
  <2>1. i \in Ids /\ Exists(i)' /\ rooms'[i].title = v
    BY DEF RoomsOf
  <2>2. CASE /\ Exists(i) /\ rooms'[i].title = rooms[i].title
             /\ rooms[i].size \in Nat /\ rooms'[i].size \in Nat /\ rooms'[i].size >= rooms[i].size
    <3>1. i \in RoomsOf(v) /\ rooms[i].size = 0
      BY <1>1, <2>1, <2>2 DEF RoomsOf
    <3>2. QED
      BY <3>1 DEF Owed, Covered
  <2>3. QED
    BY <1>1, <2>1, <2>2, RoomSteps DEF Owed
<1>2. ASSUME NEW v \in Volumes, pv'[v] # 0, Exists(pv[v])'
      PROVE  reported'[v] <= rooms'[pv'[v]].size
  <2>1. CASE phase[v] = "pending"
    <3>1. phase'[v] # "pending"
      BY <1>2, NextControl DEF PvSet
    <3>2. QED
      BY <2>1, <3>1, PhaseSteps, Provisioning DEF Owed
  <2>2. CASE phase[v] # "pending"
    <3>1. pv'[v] = pv[v] /\ pv[v] \in Ids /\ pv[v] <= made /\ made \in Nat
      BY <2>2, Lives, PvIds DEF VolumesOK, ServiceOK
    <3>2. rooms'[pv[v]] # NoRoom
      BY <1>2, <3>1 DEF Exists
    <3>3. PICK i \in Ids : i = pv[v]
      BY <3>1
    <3>4. Exists(i)' /\ i # made + 1
      BY <3>1, <3>2, <3>3 DEF Exists
    <3>5. /\ Exists(i) /\ rooms[i].size \in Nat /\ rooms'[i].size \in Nat
          /\ rooms'[i].size >= rooms[i].size
      BY <3>4, RoomSteps DEF Owed
    <3>6. reported[v] <= rooms[i].size /\ reported[v] \in Nat
      BY <1>2, <3>1, <3>3, <3>5 DEF Owed, Covered, VolumesOK
    <3>7. QED
      BY <2>2, <3>1, <3>3, <3>5, <3>6, ReportedSteps
  <2>3. QED
    BY <2>1, <2>2
<1>3. QED
  BY <1>1, <1>2 DEF Covered, Reservation, Exists

LEMMA NextOwed ==
  Control /\ Datarooms /\ Owed /\ [Next]_vars => Owed'
<1> SUFFICES ASSUME Control, Datarooms, Owed, [Next]_vars PROVE Owed'
  OBVIOUS
<1>1. CASE UNCHANGED vars
  BY <1>1 DEF vars, service, claims, volume, Owed, KnownFlight, Known, Kept, Classed, Covered, RoomsOf, Exists,
              Reservation
<1>2. CASE Next
  BY <1>2, NextKnown, NextKept, NextClassed, NextCovered DEF Owed
<1>3. QED
  BY <1>1, <1>2

(* Controller: what holds in every state of it. *)
THEOREM OwedHolds ==
  Spec => [](Control /\ Datarooms /\ Owed)
<1>1. QED
  BY InitControl, NextControl, InitDatarooms, NextDatarooms, InitOwed, NextOwed, PTL DEF Spec

-----------------------------------------------------------------------------
(* The class that csi-resizer holds applied. *)

(* What a step leaves of it, but for the ControllerModifyVolume of v.      *)
LEMMA AppliedKept ==
  ASSUME Control, Datarooms, Owed, Next, NEW v \in Volumes, phase[v] = "bound", Exists(pv[v])',
         v \notin overtaken', ~ ModifySet(v)
  PROVE  applied'[v] = applied[v] /\ rooms'[pv[v]].versioning = rooms[pv[v]].versioning
<1> USE DEF Control, TypeOK
<1> DEFINE i == pv[v]
           Same == applied'[v] = applied[v] /\ rooms'[i].versioning = rooms[i].versioning
<1>1. /\ i \in Ids /\ i # 0 /\ i <= made /\ made \in Nat /\ pv'[v] = i
      /\ Exists(i) /\ rooms[i] \in Rooms /\ rooms[i].title = v
  <2>1. i \in Ids /\ pv'[v] = i /\ Exists(i)
    BY PvIds, Lives DEF Owed, Kept
  <2>2. i \in RoomsOf(v)
    BY <2>1 DEF Datarooms, Titled, Ids
  <2>3. QED
    BY <2>1, <2>2 DEF RoomsOf, ServiceOK, VolumesOK, Ids, Exists
<1>2. rooms'[i] # NoRoom
  BY <1>1 DEF Exists
<1>3. PICK j \in Ids : j = i
  BY <1>1
<1>4. Exists(j)' /\ j # made + 1
  BY <1>1, <1>2, <1>3 DEF Exists
<1>5. ASSUME NEW q \in Requests, Serve(q), rooms'[i].versioning # rooms[i].versioning
      PROVE  q.op = "set" /\ i = q.id /\ q.versioning # NotSent
  <2>1. q.op = "set" /\ j = q.id /\ rooms'[j] = Updated(rooms[j], q)
    BY <1>3, <1>4, <1>5, ServedRoom
  <2>2. Updated(rooms[j], q).versioning = IF q.versioning = NotSent THEN rooms[j].versioning ELSE q.versioning
    BY DEF Updated
  <2>3. QED
    BY <1>3, <1>5, <2>1, <2>2
<1>6. CASE LateRequest
  <2>1. applied' = applied
    BY <1>6 DEF LateRequest, volume
  <2>2. PICK q \in flight :
          /\ Serve(q) \/ (~ Accepts(q) /\ UNCHANGED <<rooms, made>>)
          /\ overtaken' = IF q.op = "set" /\ q.versioning # NotSent /\ Exists(q.id)
                          THEN overtaken \cup {rooms[q.id].title} ELSE overtaken
    BY <1>6 DEF LateRequest
  <2>3. q \in Requests
    BY DEF ServiceOK
  <2>4. QED
    BY <1>1, <1>5, <2>1, <2>2, <2>3
<1>7. CASE OwnerEnlarges
  <2>1. PICK k \in Ids, n \in Goals : Exists(k) /\ rooms' = [rooms EXCEPT ![k].size = n]
    BY <1>7 DEF OwnerEnlarges
  <2>2. rooms' = [rooms EXCEPT ![k] = [rooms[k] EXCEPT !.size = n]] /\ rooms[k] \in Rooms
    BY <2>1 DEF ServiceOK, Exists
  <2>3. [rooms[k] EXCEPT !.size = n].versioning = rooms[k].versioning
    BY <2>2 DEF Rooms
  <2>4. QED
    BY <1>1, <1>7, <2>2, <2>3 DEF OwnerEnlarges, volume, ServiceOK
<1>8. ASSUME NEW x \in Volumes, NEW s \in Servers, List(s, x) \/ Create(s, x)
      PROVE  Same
  <2>1. rooms'[i].versioning = rooms[i].versioning
    <3>1. CASE List(s, x)
      BY <3>1 DEF List, service
    <3>2. CASE Create(s, x)
      <4>1. PICK q \in Requests : q.op = "create" /\ (Serve(q) \/ UNCHANGED rooms)
        <5>1. CreateRequest(x, Reservation(x).bytes) \in Requests
              /\ CreateRequest(x, Reservation(x).bytes).op = "create"
          BY RequestTypes, ReservationType DEF CreateRequest
        <5>2. QED
          BY <3>2, <5>1 DEF Create, Succeeds, Refuses, Breaks
      <4>2. QED
        BY <1>5, <4>1
    <3>3. QED
      BY <1>8, <3>1, <3>2
  <2>2. applied'[v] = applied[v]
    <3>1. s = leader => phase[x] = "pending"
      BY <1>8 DEF List, Create, CallsFit
    <3>2. CASE UNCHANGED applied
      BY <3>2
    <3>3. CASE s = leader /\ \E k, n : Provisioned(s, x, k, n)
      BY <3>1, <3>3 DEF Provisioned, VolumesOK
    <3>4. QED
      BY <1>8, <3>2, <3>3 DEF List, Create, Continues, Fails, Provisioned, volume
  <2>3. QED
    BY <2>1, <2>2
<1>9. ASSUME NEW x \in Volumes, NEW s \in Servers, Delete(s, x)
      PROVE  Same
  <2>1. pv[x] \in Ids
    BY <1>9, PvIds DEF Delete, CallsFit
  <2>2. RemoveRequest(pv[x]) \in Requests /\ RemoveRequest(pv[x]).op = "rm"
    BY <2>1, RequestTypes DEF RemoveRequest
  <2>3. QED
    BY <1>5, <1>9, <2>2 DEF Delete, Deleted, Continues, volume, Succeeds, Refuses, Breaks
<1>10. ASSUME NEW x \in Volumes, ExpandSet(x)
      PROVE  Same
  <2>1. pv[x] \in Ids /\ resize[x].want \in Nat
    BY <1>10, PvIds DEF ExpandSet, CallsFit, CallsOK
  <2>2. SetSize(pv[x], resize[x].want) \in Requests /\ SetSize(pv[x], resize[x].want).versioning = NotSent
    BY <2>1, RequestTypes DEF SetSize
  <2>3. QED
    BY <1>5, <1>10, <2>2 DEF ExpandSet, Succeeds, Refuses, Breaks
<1>11. ASSUME NEW x \in Volumes, ModifySet(x)
      PROVE  Same
  <2>1. pv[x] \in Ids /\ modify[x] \in Versioning /\ x # v
    BY <1>11, PvIds DEF ModifySet, CallsFit, CallsOK
  <2>2. SetVersioning(pv[x], modify[x]) \in Requests /\ SetVersioning(pv[x], modify[x]).id = pv[x]
    BY <2>1, RequestTypes DEF SetVersioning
  <2>3. pv[x] # i
    BY <1>1, <2>1, OwnRoom DEF Datarooms
  <2>4. applied'[v] = applied[v]
    BY <1>11, <2>1 DEF ModifySet, VolumesOK
  <2>5. QED
    BY <1>5, <1>11, <2>2, <2>3, <2>4 DEF ModifySet, Succeeds, Refuses, Breaks
<1>12. CASE Failover
  BY <1>12 DEF Failover, service
<1>13. ASSUME NEW x \in Volumes, Begin(x) \/ User(x) \/ ExpandList(x)
      PROVE  Same
  BY <1>13 DEF Begin, BeginCreate, BeginDelete, BeginExpand, BeginModify, User, DeleteClaim, EnlargeClaim,
               ChangeClass, ExpandList, service, volume
<1>14. ASSUME NEW x \in Volumes, NEW s \in Servers, CheckClaim(s, x) \/ Quota(s, x)
      PROVE  Same
  BY <1>14 DEF CheckClaim, Quota, Continues, Fails, service, volume
<1>15. QED
  BY <1>6, <1>7, <1>8, <1>9, <1>10, <1>11, <1>12, <1>13, <1>14 DEF Next, Step, Expand

LEMMA OvertakenGrows ==
  ASSUME Next
  PROVE  overtaken \subseteq overtaken'
<1>1. CASE LateRequest
  BY <1>1 DEF LateRequest
<1>2. CASE OwnerEnlarges \/ Failover
  BY <1>2 DEF OwnerEnlarges, Failover, service
<1>3. ASSUME NEW v \in Volumes, Begin(v) \/ Expand(v) \/ ModifySet(v) \/ User(v) PROVE overtaken' = overtaken
  BY <1>3 DEF Begin, BeginCreate, BeginDelete, BeginExpand, BeginModify, User, DeleteClaim, EnlargeClaim,
              ChangeClass, Expand, ExpandList, ExpandSet, ModifySet, service
<1>4. ASSUME NEW v \in Volumes, NEW s \in Servers, Step(s, v) PROVE overtaken' = overtaken
  BY <1>4 DEF Step, CheckClaim, List, Quota, Create, Delete, service
<1>5. QED
  BY <1>1, <1>2, <1>3, <1>4 DEF Next

LEMMA NextApplied ==
  ASSUME Control, Datarooms, Owed, Owed', AppliedMeansSet, Next
  PROVE  AppliedMeansSet'
<1> SUFFICES ASSUME NEW v \in Volumes, v \notin overtaken', phase'[v] = "bound", applied'[v] # "unknown"
             PROVE  rooms'[pv'[v]].versioning = applied'[v]
  BY DEF AppliedMeansSet
<1> USE DEF Control, TypeOK
<1>1. CASE phase[v] = "pending"
  BY <1>1, PhaseSteps, Provisioning DEF Owed
<1>2. CASE phase[v] # "pending"
  <2>1. phase[v] = "bound" /\ pv'[v] = pv[v] /\ pv[v] \in Ids /\ Exists(pv[v])
    <3>1. phase[v] = "bound"
      BY <1>2, Lives DEF VolumesOK
    <3>2. QED
      BY <1>2, <3>1, Lives, PvIds DEF Owed, Kept
  <2>2. Exists(pv[v])'
    BY DEF Owed, Kept
  <2>3. CASE ~ ModifySet(v)
    <3>1. v \notin overtaken
      BY OvertakenGrows
    <3>2. rooms[pv[v]].versioning = applied[v]
      BY <2>1, <2>2, <2>3, <3>1, AppliedKept DEF AppliedMeansSet
    <3>3. QED
      BY <2>1, <2>2, <2>3, <3>2, AppliedKept
  <2>4. CASE ModifySet(v)
    <3>1. Serve(SetVersioning(pv[v], modify[v])) /\ applied' = [applied EXCEPT ![v] = modify[v]]
      BY <2>4 DEF ModifySet, Succeeds, VolumesOK
    <3>2. rooms' = [rooms EXCEPT ![pv[v]] = Updated(rooms[pv[v]], SetVersioning(pv[v], modify[v]))]
      BY <3>1 DEF Serve, SetVersioning
    <3>3. modify[v] \in Versioning
      BY <2>4 DEF ModifySet, CallsOK
    <3>4. rooms'[pv[v]].versioning = modify[v]
      BY <2>1, <3>2, <3>3 DEF ServiceOK, Updated, SetVersioning, Versioning, NotSent
    <3>5. QED
      BY <2>1, <3>1, <3>4 DEF VolumesOK
  <2>5. QED
    BY <2>3, <2>4
<1>3. QED
  BY <1>1, <1>2

(* A class that csi-resizer holds applied is that of the dataroom, for any *)
(* number of volumes and replicas and however many requests are lost.      *)
THEOREM AppliedMeansSetHolds ==
  Spec => []AppliedMeansSet
<1>1. Init => AppliedMeansSet
  BY DEF Init, AppliedMeansSet
<1>2. Control /\ Datarooms /\ Owed /\ Owed' /\ AppliedMeansSet /\ [Next]_vars => AppliedMeansSet'
  <2>1. UNCHANGED vars /\ AppliedMeansSet => AppliedMeansSet'
    BY DEF vars, service, volume, AppliedMeansSet
  <2>2. QED
    BY <2>1, NextApplied
<1>3. QED
  BY <1>1, <1>2, OwedHolds, PTL DEF Spec

-----------------------------------------------------------------------------
(* The refinement. *)

(* The reservation of the dataroom of a PV, -1 without one. *)
ReservedNow(v) == IF pv[v] # 0 /\ Exists(pv[v]) THEN rooms[pv[v]].size ELSE -1

(* The cluster sees no change of a volume. *)
Still(v) == phase'[v] = phase[v] /\ ReservedNow(v)' = ReservedNow(v) /\ reported'[v] = reported[v]

(* A request changes the dataroom of one volume at most. *)
LEMMA ServedOne ==
  ASSUME Control, Datarooms, NEW q \in Requests, Serve(q),
         NEW v \in Volumes, q.op \in {"rm", "set"} => pv[v] = q.id,
         NEW w \in Volumes, w # v, pv'[w] = pv[w]
  PROVE  ReservedNow(w)' = ReservedNow(w)
<1> USE DEF Control, TypeOK
<1>1. CASE pv[w] = 0
  BY <1>1 DEF ReservedNow
<1>2. CASE pv[w] # 0
  <2>1. pv[w] \in Ids /\ pv[w] <= made /\ made \in Nat
    BY <1>2, PvIds DEF PvSet, VolumesOK, ServiceOK
  <2>2. rooms'[pv[w]] = rooms[pv[w]]
    <3>1. CASE q.op = "create"
      BY <2>1, <3>1 DEF Serve, ServiceOK
    <3>2. CASE q.op \in {"rm", "set"}
      <4>1. q.id = pv[w] => ~ Exists(pv[w])
        BY <1>2, <3>2, OwnRoom DEF Datarooms
      <4>2. Exists(q.id) /\ q.id # pv[w]
        BY <3>2, <4>1 DEF Serve, Accepts
      <4>3. QED
        BY <2>1, <3>2, <4>2 DEF Serve, ServiceOK
    <3>3. QED
      BY <3>1, <3>2 DEF Requests
  <2>3. QED
    BY <2>2 DEF ReservedNow, Exists
<1>3. QED
  BY <1>1, <1>2

(* A step changes one volume at most. *)
LEMMA OneChanges ==
  ASSUME Control, Datarooms, Owed, Next
  PROVE  (\A w \in Volumes : Still(w)) \/ \E v \in Volumes : \A w \in Volumes \ {v} : Still(w)
<1> USE DEF Control, TypeOK
<1>1. ASSUME NEW v \in Volumes, UNCHANGED rooms,
             \A w \in Volumes \ {v} : pv'[w] = pv[w] /\ phase'[w] = phase[w] /\ reported'[w] = reported[w]
      PROVE  \A w \in Volumes \ {v} : Still(w)
  BY <1>1 DEF Still, ReservedNow, Exists
<1>2. ASSUME NEW v \in Volumes, NEW q \in Requests, Serve(q), q.op \in {"rm", "set"} => pv[v] = q.id,
             \A w \in Volumes \ {v} : pv'[w] = pv[w] /\ phase'[w] = phase[w] /\ reported'[w] = reported[w]
      PROVE  \A w \in Volumes \ {v} : Still(w)
  BY <1>2, ServedOne DEF Still
<1>3. CASE LateRequest
  <2>1. PICK q \in flight : Serve(q) \/ UNCHANGED rooms
    BY <1>3 DEF LateRequest
  <2>2. q \in Requests /\ Known(q) /\ UNCHANGED <<pv, phase, reported>>
    BY <1>3 DEF LateRequest, volume, ServiceOK, Owed, KnownFlight
  <2>3. Volumes = {} \/ \E v \in Volumes : q.op \in {"rm", "set"} => pv[v] = q.id
    BY <2>2 DEF Known
  <2>4. QED
    BY <1>1, <1>2, <2>1, <2>2, <2>3
<1>4. CASE OwnerEnlarges
  <2>1. UNCHANGED <<pv, phase, reported>>
    BY <1>4 DEF OwnerEnlarges, volume
  <2>2. PICK i \in Ids, n \in Goals : Exists(i) /\ rooms' = [rooms EXCEPT ![i].size = n]
    BY <1>4 DEF OwnerEnlarges
  <2>3. \A j \in Ids : j # i => rooms'[j] = rooms[j]
    BY <2>2 DEF ServiceOK
  <2>4. ASSUME NEW w \in Volumes, pv[w] # i PROVE Still(w)
    <3>1. pv[w] = 0 \/ rooms'[pv[w]] = rooms[pv[w]]
      BY <2>3, <2>4, PvIds DEF PvSet
    <3>2. QED
      BY <2>1, <3>1 DEF Still, ReservedNow, Exists
  <2>5. CASE \E v \in Volumes : pv[v] = i
    <3>1. PICK v \in Volumes : pv[v] = i
      BY <2>5
    <3>2. \A w \in Volumes \ {v} : pv[w] # i
      BY <2>2, <3>1, OwnRoom DEF Datarooms, Ids
    <3>3. QED
      BY <2>4, <3>2
  <2>6. QED
    BY <2>4, <2>5
<1>5. CASE Failover
  BY <1>5 DEF Failover, service, Still, ReservedNow, Exists
<1>6. ASSUME NEW v \in Volumes, Begin(v) \/ User(v) \/ ExpandList(v)
      PROVE  \A w \in Volumes \ {v} : Still(w)
  <2>1. UNCHANGED rooms /\ \A w \in Volumes \ {v} :
          pv'[w] = pv[w] /\ phase'[w] = phase[w] /\ reported'[w] = reported[w]
    BY <1>6 DEF Begin, BeginCreate, BeginDelete, BeginExpand, BeginModify, User, DeleteClaim, EnlargeClaim,
                ChangeClass, ExpandList, Expanded, NotExpanded, service, volume, VolumesOK
  <2>2. QED
    BY <1>1, <2>1
<1>7. ASSUME NEW v \in Volumes, NEW s \in Servers, CheckClaim(s, v) \/ List(s, v) \/ Quota(s, v)
      PROVE  \A w \in Volumes \ {v} : Still(w)
  <2>1. UNCHANGED rooms /\ \A w \in Volumes \ {v} :
          pv'[w] = pv[w] /\ phase'[w] = phase[w] /\ reported'[w] = reported[w]
    BY <1>7 DEF CheckClaim, List, Quota, Continues, Fails, Provisioned, service, volume, VolumesOK
  <2>2. QED
    BY <1>1, <2>1
<1>8. ASSUME NEW v \in Volumes, NEW s \in Servers, Create(s, v)
      PROVE  \A w \in Volumes \ {v} : Still(w)
  <2>1. \A w \in Volumes \ {v} : pv'[w] = pv[w] /\ phase'[w] = phase[w] /\ reported'[w] = reported[w]
    BY <1>8 DEF Create, Fails, Provisioned, volume, VolumesOK
  <2>2. CreateRequest(v, Reservation(v).bytes) \in Requests
        /\ CreateRequest(v, Reservation(v).bytes).op = "create"
    BY RequestTypes, ReservationType DEF CreateRequest
  <2>3. QED
    BY <1>1, <1>2, <1>8, <2>1, <2>2 DEF Create, Succeeds, Refuses, Breaks
<1>9. ASSUME NEW v \in Volumes, NEW s \in Servers, Delete(s, v)
      PROVE  \A w \in Volumes \ {v} : Still(w)
  <2>1. \A w \in Volumes \ {v} : pv'[w] = pv[w] /\ phase'[w] = phase[w] /\ reported'[w] = reported[w]
    BY <1>9 DEF Delete, Deleted, Continues, volume, VolumesOK
  <2>2. pv[v] \in Ids
    BY <1>9, PvIds DEF Delete, CallsFit
  <2>3. RemoveRequest(pv[v]) \in Requests /\ RemoveRequest(pv[v]).id = pv[v]
    BY <2>2, RequestTypes DEF RemoveRequest
  <2>4. QED
    BY <1>1, <1>2, <1>9, <2>1, <2>3 DEF Delete, Succeeds, Refuses, Breaks
<1>10. ASSUME NEW v \in Volumes, ExpandSet(v)
      PROVE  \A w \in Volumes \ {v} : Still(w)
  <2>1. \A w \in Volumes \ {v} : pv'[w] = pv[w] /\ phase'[w] = phase[w] /\ reported'[w] = reported[w]
    BY <1>10 DEF ExpandSet, Expanded, NotExpanded, VolumesOK
  <2>2. pv[v] \in Ids /\ resize[v].want \in Nat
    BY <1>10, PvIds DEF ExpandSet, CallsFit, CallsOK
  <2>3. SetSize(pv[v], resize[v].want) \in Requests /\ SetSize(pv[v], resize[v].want).id = pv[v]
    BY <2>2, RequestTypes DEF SetSize
  <2>4. QED
    BY <1>1, <1>2, <1>10, <2>1, <2>3 DEF ExpandSet, Succeeds, Refuses, Breaks
<1>11. ASSUME NEW v \in Volumes, ModifySet(v)
      PROVE  \A w \in Volumes \ {v} : Still(w)
  <2>1. \A w \in Volumes \ {v} : pv'[w] = pv[w] /\ phase'[w] = phase[w] /\ reported'[w] = reported[w]
    BY <1>11 DEF ModifySet
  <2>2. pv[v] \in Ids /\ modify[v] \in Versioning
    BY <1>11, PvIds DEF ModifySet, CallsFit, CallsOK
  <2>3. SetVersioning(pv[v], modify[v]) \in Requests /\ SetVersioning(pv[v], modify[v]).id = pv[v]
    BY <2>2, RequestTypes DEF SetVersioning
  <2>4. QED
    BY <1>1, <1>2, <1>11, <2>1, <2>3 DEF ModifySet, Succeeds, Refuses, Breaks
<1>12. QED
  BY <1>3, <1>4, <1>5, <1>6, <1>7, <1>8, <1>9, <1>10, <1>11 DEF Next, Step, Expand

(* A claim that is deleted changes nothing else. *)
LEMMA Releases ==
  ASSUME Control, Next, NEW v \in Volumes, phase[v] = "bound", phase'[v] = "released"
  PROVE  UNCHANGED <<rooms, pv, reported>>
<1> USE DEF Control, TypeOK
<1>1. ASSUME NEW x \in Volumes, DeleteClaim(x) PROVE UNCHANGED <<rooms, pv, reported>>
  BY <1>1 DEF DeleteClaim, service
<1>2. CASE LateRequest \/ OwnerEnlarges \/ Failover
  BY <1>2 DEF LateRequest, OwnerEnlarges, Failover, volume
<1>3. ASSUME NEW x \in Volumes, Begin(x) \/ Expand(x) \/ ModifySet(x) \/ EnlargeClaim(x) \/ ChangeClass(x)
      PROVE  phase' = phase
  BY <1>3 DEF Begin, BeginCreate, BeginDelete, BeginExpand, BeginModify, Expand, ExpandList, ExpandSet,
              ModifySet, EnlargeClaim, ChangeClass, volume
<1>4. ASSUME NEW x \in Volumes, NEW s \in Servers, CheckClaim(s, x) \/ Quota(s, x)
      PROVE  phase' = phase
  BY <1>4 DEF CheckClaim, Quota, Continues, Fails, volume
<1>5. ASSUME NEW x \in Volumes, NEW s \in Servers, Delete(s, x) PROVE phase'[v] # "released"
  BY <1>5 DEF Delete, Deleted, Continues, volume, VolumesOK
<1>6. ASSUME NEW x \in Volumes, NEW s \in Servers, List(s, x) \/ Create(s, x)
      PROVE  phase'[v] = "bound"
  <2>1. s = leader => phase[x] = "pending"
    BY <1>6 DEF List, Create, CallsFit
  <2>2. CASE UNCHANGED phase
    BY <2>2
  <2>3. CASE s = leader /\ \E i, n : Provisioned(s, x, i, n)
    BY <2>1, <2>3 DEF Provisioned, VolumesOK
  <2>4. QED
    BY <1>6, <2>2, <2>3 DEF List, Create, Continues, Fails, Provisioned, volume
<1>7. QED
  BY <1>1, <1>2, <1>3, <1>4, <1>5, <1>6 DEF Next, User, Step

(* Before it has a PV, a volume reports nothing. *)
LEMMA PendingReport ==
  ASSUME Control, Next, NEW w \in Volumes, phase[w] = "pending", phase'[w] = "pending"
  PROVE  reported'[w] = reported[w]
<1> USE DEF Control, TypeOK
<1>1. ASSUME NEW x \in Volumes, NEW s \in Servers, List(s, x) \/ Create(s, x)
      PROVE  reported'[w] = reported[w]
  <2>1. CASE UNCHANGED reported
    BY <2>1
  <2>2. CASE \E i, n : Provisioned(s, x, i, n)
    BY <2>2 DEF Provisioned, VolumesOK, volume
  <2>3. QED
    BY <1>1, <2>1, <2>2 DEF List, Create, Continues, Fails, volume
<1>2. ASSUME NEW x \in Volumes, Expand(x)
      PROVE  reported'[w] = reported[w]
  <2>1. phase[x] # "pending"
    BY <1>2 DEF Expand, ExpandList, ExpandSet, CallsFit
  <2>2. QED
    BY <1>2, <2>1 DEF Expand, ExpandList, ExpandSet, Expanded, NotExpanded, VolumesOK
<1>3. CASE LateRequest \/ OwnerEnlarges \/ Failover
  BY <1>3 DEF LateRequest, OwnerEnlarges, Failover, volume
<1>4. ASSUME NEW v \in Volumes, Begin(v) \/ User(v) \/ ModifySet(v)
      PROVE  UNCHANGED reported
  BY <1>4 DEF Begin, BeginCreate, BeginDelete, BeginExpand, BeginModify, User, DeleteClaim, EnlargeClaim,
              ChangeClass, ModifySet, volume
<1>5. ASSUME NEW v \in Volumes, NEW s \in Servers, CheckClaim(s, v) \/ Quota(s, v) \/ Delete(s, v)
      PROVE  UNCHANGED reported
  BY <1>5 DEF CheckClaim, Quota, Delete, Deleted, Continues, Fails, volume
<1>6. QED
  BY <1>1, <1>2, <1>3, <1>4, <1>5 DEF Next, Step

(* What a step does to a volume, as the cluster sees it. *)
LEMMA VolumeSteps ==
  ASSUME Control, Datarooms, Owed, Control', Datarooms', Owed', Next, NEW v \in Volumes
  PROVE  \/ Still(v)
         \/ Promise!Provision(v) \/ Promise!Expand(v) \/ Promise!Release(v) \/ Promise!Delete(v)
<1> USE DEF Control, TypeOK
<1>a. /\ [w \in Volumes |-> IF pv[w] # 0 /\ Exists(pv[w]) THEN rooms[pv[w]].size ELSE -1][v] = ReservedNow(v)
      /\ [w \in Volumes |-> IF pv[w] # 0 /\ Exists(pv[w]) THEN rooms[pv[w]].size ELSE -1]'[v] = ReservedNow(v)'
  BY DEF ReservedNow
<1>1. CASE phase[v] = "pending" /\ phase'[v] = "pending"
  <2>1. pv[v] = 0 /\ pv'[v] = 0
    BY <1>1 DEF PvSet
  <2>2. reported'[v] = reported[v]
    BY <1>1, PendingReport
  <2>3. QED
    BY <1>1, <2>1, <2>2 DEF Still, ReservedNow
<1>2. CASE phase[v] = "pending" /\ phase'[v] # "pending"
  <2>1. /\ phase'[v] \in {"bound", "released"} /\ pv'[v] \in RoomsOf(v)'
        /\ reported'[v] \in Nat /\ reported'[v] <= rooms'[pv'[v]].size /\ Allows(Ask[v], reported'[v])
    BY <1>2, PhaseSteps, Provisioning DEF Owed
  <2>2. rooms'[pv'[v]] \in Rooms /\ pv'[v] # 0 /\ rooms'[pv'[v]] # NoRoom
    BY <2>1 DEF RoomsOf, Exists, ServiceOK, Ids
  <2>3. ReservedNow(v)' = rooms'[pv'[v]].size /\ rooms'[pv'[v]].size \in Nat
    BY <2>2 DEF ReservedNow, Exists, Rooms
  <2>4. Promise!Provision(v)
    BY <1>a, <1>2, <2>1, <2>3 DEF Promise!Provision, Promise!Covers
  <2>5. QED
    BY <2>4
<1>3. CASE phase[v] # "pending"
  <2>1. PICK i \in Ids : i = pv[v] /\ pv'[v] = i /\ i # 0 /\ i # made + 1
    BY <1>3, Lives, PvIds DEF VolumesOK, ServiceOK, PvSet
  <2>2. reported'[v] \in Nat /\ reported'[v] >= reported[v] /\ reported[v] \in Nat
    BY <1>3, ReportedSteps DEF VolumesOK
  <2>3. CASE phase[v] = "bound" /\ phase'[v] = "released"
    <3>1. UNCHANGED <<rooms, pv, reported>>
      BY <2>3, Releases
    <3>2. ReservedNow(v)' = ReservedNow(v)
      BY <3>1 DEF ReservedNow, Exists
    <3>3. Promise!Release(v)
      BY <1>a, <2>3, <3>1, <3>2 DEF Promise!Release
    <3>4. QED
      BY <3>3
  <2>4. CASE rooms'[i] # NoRoom /\ ~ (phase[v] = "bound" /\ phase'[v] = "released")
    <3>1. Exists(i)'
      BY <2>4 DEF Exists
    <3>2. Exists(i) /\ rooms[i].size \in Nat /\ rooms'[i].size \in Nat /\ rooms'[i].size >= rooms[i].size
      BY <2>1, <3>1, RoomSteps DEF Owed
    <3>3. ReservedNow(v) = rooms[i].size /\ ReservedNow(v)' = rooms'[i].size
      BY <2>1, <2>4, <3>2 DEF ReservedNow, Exists
    <3>4. phase'[v] # "deleted" /\ reported'[v] <= rooms'[i].size
      BY <2>1, <2>4 DEF Datarooms, Gone, Owed, Covered, Exists
    <3>5. phase[v] \in {"bound", "released"} /\ phase'[v] = phase[v]
      BY <1>3, <2>4, <3>4, Lives DEF VolumesOK
    <3>6. Promise!Expand(v)
      BY <1>a, <2>2, <3>2, <3>3, <3>4, <3>5 DEF Promise!Expand, Promise!Covers
    <3>7. QED
      BY <3>6
  <2>5. CASE rooms'[i] = NoRoom /\ ~ (phase[v] = "bound" /\ phase'[v] = "released")
    <3>1. ReservedNow(v)' = -1
      BY <2>1, <2>5 DEF ReservedNow, Exists
    <3>2. phase'[v] # "bound"
      BY <2>1, <2>5 DEF Owed, Kept, Exists
    <3>3. reported'[v] = reported[v]
      BY <1>3, <2>1, <2>5, ReportedSteps DEF Exists
    <3>4. CASE phase[v] = "released"
      <4>1. phase'[v] \in {"released", "deleted"}
        BY <3>4, Lives
      <4>2. Promise!Delete(v)
        BY <1>a, <3>1, <3>3, <3>4, <4>1 DEF Promise!Delete
      <4>3. QED
        BY <4>2
    <3>5. CASE phase[v] = "deleted"
      <4>1. phase'[v] = "deleted" /\ ~ Exists(pv[v])
        BY <3>5, Lives DEF Datarooms, Gone
      <4>2. ReservedNow(v) = -1
        BY <4>1 DEF ReservedNow
      <4>3. QED
        BY <3>1, <3>3, <3>5, <4>1, <4>2 DEF Still
    <3>6. QED
      BY <1>3, <2>5, <3>2, <3>4, <3>5, Lives DEF VolumesOK
  <2>6. QED
    BY <2>3, <2>4, <2>5
<1>4. QED
  BY <1>1, <1>2, <1>3

LEMMA PromiseSteps ==
  ASSUME Control, Datarooms, Owed, Control', Datarooms', Owed', [Next]_vars
  PROVE  [Promise!Next]_(Promise!vars)
<1> DEFINE Reserved == [w \in Volumes |-> IF pv[w] # 0 /\ Exists(pv[w]) THEN rooms[pv[w]].size ELSE -1]
<1>1. SUFFICES Promise!Next \/ UNCHANGED <<phase, Reserved, reported>>
  BY DEF Promise!vars
<1>2. \A w \in Volumes : Reserved[w] = ReservedNow(w) /\ Reserved'[w] = ReservedNow(w)'
  BY DEF ReservedNow
<1>3. CASE \A w \in Volumes : Still(w)
  <2>1. Reserved' = Reserved
    BY <1>3 DEF Still, ReservedNow
  <2>2. phase' = phase /\ reported' = reported
    BY <1>3 DEF Still, Control, TypeOK, VolumesOK
  <2>3. QED
    BY <2>1, <2>2
<1>4. ASSUME NEW v \in Volumes, \A w \in Volumes \ {v} : Still(w), ~ Still(v), Next
      PROVE  Promise!Next
  <2>1. Promise!Others(v)
    BY <1>2, <1>4 DEF Still, Promise!Others
  <2>2. Promise!Provision(v) \/ Promise!Expand(v) \/ Promise!Release(v) \/ Promise!Delete(v)
    BY <1>4, VolumeSteps
  <2>3. QED
    BY <2>1, <2>2 DEF Promise!Next
<1>5. CASE UNCHANGED vars
  <2>1. \A w \in Volumes : Still(w)
    BY <1>5 DEF vars, service, volume, Still, ReservedNow, Exists
  <2>2. QED
    BY <1>3, <2>1
<1>6. CASE Next
  BY <1>3, <1>4, <1>6, OneChanges
<1>7. QED
  BY <1>5, <1>6

(* The controller keeps its promise to the cluster for any number of       *)
(* volumes and replicas, every capacity range, floor and quota: a claim    *)
(* that is bound has its dataroom, of a capacity its range allows, the PV  *)
(* reports no more than is reserved, and a volume that is deleted has no   *)
(* dataroom.                                                               *)
THEOREM ImplementsPromiseHolds ==
  Spec => ImplementsPromise
<1>1. Init => Promise!Init
  BY DEF Init, Promise!Init
<1>2. QED
  BY <1>1, OwedHolds, PromiseSteps, PTL DEF Spec, ImplementsPromise, Promise!Spec
=============================================================================
