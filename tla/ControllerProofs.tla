-------------------------- MODULE ControllerProofs --------------------------
(***************************************************************************)
(* Proofs about Controller, for any number of volumes and replicas, every  *)
(* capacity range, quota, floor and bound, with an older or a newer CLI;   *)
(* and, before it, about CliErrors: what the driver answers does not       *)
(* depend on the age of the CLI.                                           *)
(***************************************************************************)
EXTENDS Controller, FiniteSetTheorems, TLAPS

-----------------------------------------------------------------------------
(* The errors of the CLI. *)

Predicates(e) ==
  <<IsStorageExhausted(e), IsValidation(e), IsCapacityRefused(e), IsNotEnlarged(e), IsNotFound(e),
    IsUnauthenticated(e), IsConfig(e), IsForbidden(e), IsRateLimited(e), IsCLITooOld(e)>>

LEMMA PredicatesDecide ==
  ASSUME NEW d, NEW e, Predicates(d) = Predicates(e)
  PROVE  ApiError(d) = ApiError(e) /\ UpdateError(d) = UpdateError(e) /\ IsNotFound(d) = IsNotFound(e)
BY DEF Predicates, ApiError, UpdateError

(* A kind decides, whatever the text says (classify, client.go:86): a      *)
(* phrase of another refusal in the text changes no answer.                *)
THEOREM KindDecides ==
  ASSUME NEW e \in Errors, e.cli, e.kind # NoKind
  PROVE  ApiError(e) = ApiError(KindError(e.kind)) /\ UpdateError(e) = UpdateError(KindError(e.kind))
<1>1. ASSUME NEW kinds, NEW phrases
      PROVE  Is(e, kinds, phrases) = Is(KindError(e.kind), kinds, phrases)
  BY DEF Is, KindError, Errors
<1>2. Predicates(e) = Predicates(KindError(e.kind))
  BY <1>1 DEF Predicates, HasKind, IsStorageExhausted, IsValidation, IsCapacityRefused, IsNotEnlarged, IsNotFound,
              IsUnauthenticated, IsConfig, IsForbidden, IsRateLimited, IsCLITooOld
<1>3. QED
  BY <1>2, PredicatesDecide

(* A refusal has the same answer from an older CLI, by any of its texts,   *)
(* and from one that gives its kind (apiError and updateError,             *)
(* controller.go:441 and :421), although the texts of the refusals         *)
(* overlap.                                                                *)
THEOREM AgeOfCLI ==
  ASSUME NEW r \in Refusals, NEW t \in Texts(r)
  PROVE  /\ ApiError(TextError(t)) = ApiError(KindError(r))
         /\ UpdateError(TextError(t)) = UpdateError(KindError(r))
         /\ IsNotFound(TextError(t)) <=> IsNotFound(KindError(r))
<1>1. TextError(t).cli /\ TextError(t).kind = NoKind /\ TextError(t).says = t
  BY DEF TextError
<1>2. KindError(r).cli /\ KindError(r).kind = r /\ r # NoKind
  BY DEF KindError, NoKind, Refusals
<1>3. /\ IsStorageExhausted(TextError(t)) <=> "not enough" \in t
      /\ IsValidation(TextError(t)) <=> "422" \in t
      /\ IsCapacityRefused(TextError(t)) <=> "422" \in t /\ "at least" \in t
      /\ IsNotEnlarged(TextError(t)) <=> "enlarged" \in t
      /\ IsNotFound(TextError(t)) <=> "404" \in t
  BY <1>1 DEF Is, IsStorageExhausted, IsValidation, IsCapacityRefused, IsNotEnlarged, IsNotFound
<1>4. /\ ~ IsUnauthenticated(TextError(t)) /\ ~ IsConfig(TextError(t)) /\ ~ IsCLITooOld(TextError(t))
      /\ ~ IsForbidden(TextError(t)) /\ ~ IsRateLimited(TextError(t))
  BY <1>1 DEF Is, HasKind, IsUnauthenticated, IsConfig, IsForbidden, IsRateLimited, IsCLITooOld
<1>5. /\ IsStorageExhausted(KindError(r)) <=> r = "plan_exceeded"
      /\ IsValidation(KindError(r)) <=> r = "invalid"
      /\ IsCapacityRefused(KindError(r)) <=> r = "capacity_too_small"
      /\ IsNotEnlarged(KindError(r)) <=> r = "capacity_shrink"
      /\ IsNotFound(KindError(r)) <=> r = "not_found"
  BY <1>2 DEF Is, IsStorageExhausted, IsValidation, IsCapacityRefused, IsNotEnlarged, IsNotFound, Refusals
<1>6. /\ ~ IsUnauthenticated(KindError(r)) /\ ~ IsConfig(KindError(r)) /\ ~ IsCLITooOld(KindError(r))
      /\ ~ IsForbidden(KindError(r)) /\ ~ IsRateLimited(KindError(r))
  BY <1>2 DEF Is, HasKind, IsUnauthenticated, IsConfig, IsForbidden, IsRateLimited, IsCLITooOld, Refusals
<1>7. /\ r = "plan_exceeded" => "not enough" \in t /\ "404" \notin t
      /\ r = "capacity_too_small" => /\ "422" \in t /\ "at least" \in t /\ "404" \notin t
                                     /\ "not enough" \notin t
      /\ r = "capacity_shrink" => "enlarged" \in t /\ "404" \notin t /\ "not enough" \notin t
      /\ r = "not_found" => t = {"404"}
      /\ r = "invalid" => /\ "422" \in t /\ "404" \notin t /\ "not enough" \notin t
                          /\ "enlarged" \notin t /\ "at least" \notin t
  <2>1. CASE r = "plan_exceeded"
    <3>1. Texts(r) = {{"not enough"}, {"not enough", "422"}}
      BY <2>1 DEF Texts
    <3>2. t = {"not enough"} \/ t = {"not enough", "422"}
      BY <3>1
    <3>3. QED
      BY <2>1, <3>2
  <2>2. CASE r = "capacity_shrink"
    <3>1. Texts(r) = {{"enlarged"}, {"enlarged", "422"}, {"enlarged", "422", "at least"}}
      BY <2>2 DEF Texts
    <3>2. t = {"enlarged"} \/ t = {"enlarged", "422"} \/ t = {"enlarged", "422", "at least"}
      BY <3>1
    <3>3. QED
      BY <2>2, <3>2
  <2>3. CASE r \in {"capacity_too_small", "not_found", "invalid"}
    <3>1. /\ r = "capacity_too_small" => t = {"422", "at least"}
          /\ r = "not_found" => t = {"404"}
          /\ r = "invalid" => t = {"422"}
      BY <2>3 DEF Texts
    <3>2. QED
      BY <2>3, <3>1
  <2>4. QED
    BY <2>1, <2>2, <2>3 DEF Refusals
<1>8. /\ ApiError(TextError(t)) = ApiError(KindError(r))
      /\ IsNotFound(TextError(t)) <=> IsNotFound(KindError(r))
  <2>1. CASE r = "plan_exceeded"
    BY <2>1, <1>3, <1>5, <1>7 DEF ApiError
  <2>2. CASE r = "capacity_too_small"
    BY <2>2, <1>3, <1>5, <1>7 DEF ApiError
  <2>3. CASE r = "capacity_shrink"
    BY <2>3, <1>3, <1>5, <1>7 DEF ApiError
  <2>4. CASE r = "not_found"
    BY <2>4, <1>3, <1>4, <1>5, <1>6, <1>7 DEF ApiError
  <2>5. CASE r = "invalid"
    BY <2>5, <1>3, <1>5, <1>7 DEF ApiError
  <2>6. QED
    BY <2>1, <2>2, <2>3, <2>4, <2>5 DEF Refusals
<1>9. QED
  BY <1>8 DEF UpdateError

-----------------------------------------------------------------------------
USE ServersAssumption, AskAssumption, BoundsAssumption, FloorAssumption

(* A volume has a PV once it is provisioned. *)
PvSet == \A v \in Volumes : pv[v] = 0 <=> phase[v] = "pending"

(* What a call that is under way says of its volume: a former leader's     *)
(* deletion may find it deleted, its creation may find it in any phase.    *)
CallsFit ==
  \A v \in Volumes :
    /\ call[leader][v] \in {"claim", "list", "quota", "create"} => phase[v] = "pending"
    /\ call[leader][v] = "delete" => phase[v] = "released"
    /\ \A s \in Servers :
         /\ call[s][v] = "delete" => phase[v] \in {"released", "deleted"}
         /\ call[s][v] \in {"list", "quota", "create"} => Reservation(v).code = "OK"
    /\ resize[v].step # "idle" \/ modify[v] # "idle" => phase[v] # "pending"

Control == TypeOK /\ PvSet /\ CallsFit

-----------------------------------------------------------------------------
(* What a capacity range reserves. *)

LEMMA ReservedType ==
  ASSUME NEW r \in CapacityRanges
  PROVE  /\ ReservedBytes(r).bytes \in Nat
         /\ ReservedBytes(r).code = "OK" => Allows(r, ReservedBytes(r).bytes)
         /\ ReservedBytes(r).code = "OK" /\ ReservedBytes(r).bytes = 0 => Unset(r)
         /\ ReservedBytes(r).code = "OK" /\ ReservedBytes(r).bytes # 0 =>
              ReservedBytes(r).bytes >= MinDataroomCapacity /\ ReservedBytes(r).bytes >= r.required
BY DEF CapacityRanges, ReservedBytes, Allows, Unset, Refuse, Grant, RoundedUp

(* reservedBytes (controller.go:153) refuses a range only if it is         *)
(* malformed or no capacity meets it, and reserves the least that does.    *)
THEOREM ReservedBytesRight ==
  ASSUME NEW r \in CapacityRanges
  PROVE  /\ ReservedBytes(r).code = "OK" <=>
              r.required >= 0 /\ r.limit >= 0 /\ \E n \in Nat : Allows(r, n)
         /\ ReservedBytes(r).code = "OK" =>
              \A n \in Nat : Allows(r, n) => Unset(r) \/ ReservedBytes(r).bytes <= n
<1>1. r.required \in Int /\ r.limit \in Int
  BY DEF CapacityRanges
<1>2. CASE ReservedBytes(r).code = "OK"
  <2>1. r.required >= 0 /\ r.limit >= 0 /\ ReservedBytes(r).bytes \in Nat /\ Allows(r, ReservedBytes(r).bytes)
    BY <1>1, <1>2, ReservedType DEF ReservedBytes, Refuse
  <2>2. ~ Unset(r) => ReservedBytes(r).bytes = RoundedUp(r.required)
    BY <1>2 DEF ReservedBytes, Refuse, Grant
  <2>3. \A n \in Nat : Allows(r, n) => Unset(r) \/ ReservedBytes(r).bytes <= n
    BY <1>1, <2>1, <2>2 DEF Allows, RoundedUp
  <2>4. QED
    BY <1>2, <2>1, <2>3
<1>3. CASE ReservedBytes(r).code # "OK"
  <2>1. \/ r.required < 0 \/ r.limit < 0
        \/ ~ Unset(r) /\ r.limit > 0 /\ (r.required > r.limit \/ r.limit < MinDataroomCapacity)
    BY <1>1, <1>3 DEF ReservedBytes, Grant, Unset
  <2>2. ASSUME ~ Unset(r), r.limit > 0, r.required > r.limit \/ r.limit < MinDataroomCapacity
        PROVE  ~ \E n \in Nat : Allows(r, n)
    BY <1>1, <2>2 DEF Allows
  <2>3. QED
    BY <1>1, <1>3, <2>1, <2>2
<1>4. QED
  BY <1>2, <1>3

LEMMA ReservationType ==
  ASSUME NEW v \in Volumes
  PROVE  Reservation(v).bytes \in Nat
BY ReservedType DEF Reservation

(* n % s = 0 leaves no remainder. *)
LEMMA Quotient ==
  ASSUME NEW n \in Nat, NEW s \in Nat \ {0}, n % s = 0
  PROVE  (n \div s) * s = n
OBVIOUS

(* The service reads the number of bytes that the driver was asked for:    *)
(* FormatSize (client.go:369) takes a larger unit only where it divides    *)
(* the size, for every base of the units.                                  *)
THEOREM SentAsIs ==
  ASSUME NEW n \in Nat
  PROVE  Sent(n) = n
<1> DEFINE First(u) == Divides(u, n) /\ \A w \in 1..(u - 1) : ~ Divides(w, n)
           unit == IF n = 0 THEN 5 ELSE CHOOSE u \in Units : First(u)
<1>1. \A u \in Units : Size[u] \in Nat \ {0}
  <2>1. Kibi \in Nat \ {0}
    BY KibiAssumption
  <2>2. Kibi * Kibi \in Nat \ {0} /\ Kibi * Kibi * Kibi \in Nat \ {0} /\ Kibi * Kibi * Kibi * Kibi \in Nat \ {0}
    BY <2>1
  <2>3. QED
    BY <2>1, <2>2 DEF Size, Units
<1>2. Divides(5, n)
  BY DEF Divides, Size
<1>3. unit \in Units /\ n % Size[unit] = 0
  <2>1. \E u \in Units : First(u)
    BY <1>2 DEF Units
  <2>2. CASE n # 0
    <3>1. unit \in Units /\ First(unit)
      BY <2>1, <2>2
    <3>2. QED
      BY <3>1 DEF Divides
  <2>3. CASE n = 0
    BY <1>2, <2>3 DEF Units, Divides
  <2>4. QED
    BY <2>2, <2>3
<1>4. (n \div Size[unit]) * Size[unit] = n
  BY <1>1, <1>3, Quotient
<1>5. QED
  BY <1>4 DEF Sent, ParseSize, FormatSize

-----------------------------------------------------------------------------
(* What the service does with a request. *)

LEMMA RequestTypes ==
  ASSUME TypeOK
  PROVE  /\ \A v \in Volumes, n \in Nat : CreateRequest(v, n) \in Requests
         /\ \A i \in Ids : RemoveRequest(i) \in Requests
         /\ \A i \in Ids, n \in Nat : SetSize(i, n) \in Requests
         /\ \A i \in Ids, b \in Versioning : SetVersioning(i, b) \in Requests
BY SentAsIs DEF TypeOK, VolumesOK, Requests, CreateRequest, RemoveRequest, SetSize, SetVersioning

LEMMA Served ==
  ASSUME ServiceOK, NEW q \in Requests, Serve(q)
  PROVE  /\ made' \in 0..MaxRooms /\ made' >= made
         /\ rooms' \in [Ids -> Rooms \cup {NoRoom}]
         /\ \A i \in Ids : rooms'[i] # NoRoom => i <= made'
<1>1. CASE q.op = "create"
  <2>1. [title |-> q.title, size |-> q.size, versioning |-> q.versioning] \in Rooms
    BY <1>1 DEF Requests, Rooms
  <2>2. /\ made' = made + 1 /\ made < MaxRooms
        /\ rooms' = [rooms EXCEPT ![made + 1] =
                       [title |-> q.title, size |-> q.size, versioning |-> q.versioning]]
    BY <1>1 DEF Serve, Accepts
  <2>3. made + 1 \in Ids
    BY <2>2 DEF ServiceOK, Ids
  <2>4. QED
    BY <2>1, <2>2, <2>3 DEF ServiceOK, Exists, Ids
<1>2. CASE q.op = "rm"
  BY <1>2 DEF ServiceOK, Serve, Accepts, Exists, Ids
<1>3. CASE q.op = "set"
  <2>1. q.id \in Ids /\ Exists(q.id)
    BY <1>3 DEF Requests, Serve, Accepts
  <2>2. rooms[q.id] \in Rooms /\ q.size \in Nat /\ q.versioning \in Versioning \cup {NotSent}
    BY <2>1, <1>3 DEF ServiceOK, Exists, Requests
  <2>3. Updated(rooms[q.id], q) \in Rooms
    BY <2>2 DEF Rooms, Updated
  <2>4. QED
    BY <1>3, <2>1, <2>3 DEF ServiceOK, Serve, Exists
<1>4. QED
  BY <1>1, <1>2, <1>3 DEF Requests

LEMMA Answered ==
  ASSUME TypeOK, NEW q \in Requests, Succeeds(q) \/ Refuses(q) \/ Breaks(q)
  PROVE  /\ made' \in 0..MaxRooms /\ made' >= made
         /\ rooms' \in [Ids -> Rooms \cup {NoRoom}]
         /\ \A i \in Ids : rooms'[i] # NoRoom => i <= made'
         /\ flight' \subseteq Requests
         /\ faults' \in 0..MaxFaults /\ failovers' = failovers /\ changes' = changes
<1>1. CASE Serve(q) /\ UNCHANGED flight
  BY <1>1, Served DEF TypeOK, ServiceOK, CallsOK, Succeeds, Refuses, Breaks, Fault, budget
<1>2. CASE UNCHANGED <<rooms, made>> /\ flight' \subseteq flight \cup {q}
  BY <1>2 DEF TypeOK, ServiceOK, CallsOK, Exists, Succeeds, Refuses, Breaks, Fault, budget
<1>3. QED
  BY <1>1, <1>2 DEF Succeeds, Refuses, Breaks
-----------------------------------------------------------------------------
(* Types, and what the calls know of their volumes. *)

LEMMA PvIds ==
  ASSUME Control, NEW v \in Volumes, phase[v] # "pending"
  PROVE  pv[v] \in Ids
<1>1. pv[v] # 0
  BY DEF Control, PvSet
<1>2. pv[v] \in 0..made /\ made \in 0..MaxRooms
  BY DEF Control, TypeOK, ServiceOK, VolumesOK
<1>3. QED
  BY <1>1, <1>2 DEF Ids

LEMMA InitControl ==
  Init => Control
<1> SUFFICES ASSUME Init PROVE Control
  OBVIOUS
<1> USE DEF Init
<1>1. ServiceOK
  BY DEF ServiceOK, Exists
<1>2. VolumesOK
  BY DEF VolumesOK, Versioning, CapacityRanges
<1>3. CallsOK
  BY DEF CallsOK
<1>4. PvSet /\ CallsFit
  BY DEF PvSet, CallsFit
<1>5. QED
  BY <1>1, <1>2, <1>3, <1>4 DEF Control, TypeOK

LEMMA BeginControl ==
  ASSUME Control, NEW v \in Volumes, Begin(v)
  PROVE  Control'
<1> USE DEF Control, TypeOK
<1>1. CASE BeginCreate(v)
  <2>1. ServiceOK' /\ VolumesOK' /\ CallsOK'
    BY <1>1 DEF BeginCreate, Go, ServiceOK, VolumesOK, CallsOK, Exists, service, claims, volume, resizer, budget
  <2>2. PvSet' /\ CallsFit'
    BY <1>1 DEF BeginCreate, Go, CallsOK, PvSet, CallsFit, Reservation, service, claims, volume, resizer, budget
  <2>3. QED
    BY <2>1, <2>2
<1>2. CASE BeginDelete(v)
  <2>1. ServiceOK' /\ VolumesOK' /\ CallsOK'
    BY <1>2 DEF BeginDelete, Go, ServiceOK, VolumesOK, CallsOK, Exists, service, claims, volume, resizer, budget
  <2>2. PvSet' /\ CallsFit'
    BY <1>2 DEF BeginDelete, Go, CallsOK, PvSet, CallsFit, Reservation, service, claims, volume, resizer, budget
  <2>3. QED
    BY <2>1, <2>2
<1>3. CASE BeginExpand(v)
  <2>1. [required |-> goal[v], limit |-> 0] \in CapacityRanges
    BY DEF VolumesOK, CapacityRanges
  <2>2. ReservedBytes([required |-> goal[v], limit |-> 0]).bytes \in Nat
    BY <2>1, ReservedType
  <2>3. ServiceOK' /\ VolumesOK' /\ CallsOK'
    BY <1>3, <2>2
       DEF BeginExpand, Resizing, ServiceOK, VolumesOK, CallsOK, Exists, service, claims, volume, resizer, budget
  <2>4. PvSet' /\ CallsFit'
    BY <1>3 DEF BeginExpand, Resizing, CallsOK, PvSet, CallsFit, Reservation, service, claims, volume, budget
  <2>5. QED
    BY <2>3, <2>4
<1>4. CASE BeginModify(v)
  <2>1. ServiceOK' /\ VolumesOK' /\ CallsOK'
    BY <1>4 DEF BeginModify, ServiceOK, VolumesOK, CallsOK, Exists, service, claims, volume, resizer, budget
  <2>2. PvSet' /\ CallsFit'
    BY <1>4 DEF BeginModify, CallsOK, PvSet, CallsFit, Reservation, service, claims, volume, budget
  <2>3. QED
    BY <2>1, <2>2
<1>5. QED
  BY <1>1, <1>2, <1>3, <1>4 DEF Begin

(* A step of CreateVolume that goes on, or fails. *)
LEMMA CreationGoesOn ==
  ASSUME Control, NEW s \in Servers, NEW v \in Volumes, NEW step \in {"list", "quota", "create"},
         call[s][v] \in {"claim", "list", "quota", "create"}, Reservation(v).code = "OK",
         Continues(s, v, step), UNCHANGED <<service, claims, leader, resizer>>,
         faults' \in 0..MaxFaults, UNCHANGED <<failovers, changes>>
  PROVE  Control'
<1> USE DEF Control, TypeOK, Continues, Go
<1>1. ServiceOK' /\ VolumesOK' /\ CallsOK'
  BY DEF ServiceOK, VolumesOK, CallsOK, Exists, service, claims, volume, resizer
<1>2. PvSet' /\ CallsFit'
  BY DEF CallsOK, PvSet, CallsFit, Reservation, volume, resizer
<1>3. QED
  BY <1>1, <1>2

LEMMA CreationFails ==
  ASSUME Control, NEW s \in Servers, NEW v \in Volumes, NEW code,
         Fails(s, v, code), ServiceOK', made' >= made, UNCHANGED <<claims, leader, resizer>>,
         faults' \in 0..MaxFaults, UNCHANGED <<failovers, changes>>
  PROVE  Control'
<1> USE DEF Control, TypeOK, Fails, Go
<1>1. VolumesOK' /\ CallsOK'
  BY DEF ServiceOK, VolumesOK, CallsOK, claims, resizer
<1>2. PvSet' /\ CallsFit'
  BY DEF CallsOK, PvSet, CallsFit, Reservation, resizer
<1>3. QED
  BY <1>1, <1>2

(* CreateVolume answers OK: the volume has a PV. *)
LEMMA CreationEnds ==
  ASSUME Control, NEW s \in Servers, NEW v \in Volumes, NEW i \in 1..made', NEW n \in Nat,
         call[s][v] \in {"list", "create"},
         Provisioned(s, v, i, n), ServiceOK', made' >= made, UNCHANGED <<claims, leader, resizer>>,
         faults' \in 0..MaxFaults, UNCHANGED <<failovers, changes>>
  PROVE  Control'
<1> USE DEF Control, TypeOK, Provisioned, Go
<1>1. CallsOK'
  BY DEF CallsOK, resizer
<1>2. CASE s = leader
  <2>1. phase[v] = "pending"
    BY <1>2 DEF CallsFit
  <2>2. VolumesOK'
    <3>1. /\ phase' = [phase EXCEPT ![v] = IF v \in claim THEN "bound" ELSE "released"]
          /\ pv' = [pv EXCEPT ![v] = i] /\ reported' = [reported EXCEPT ![v] = n]
          /\ applied' = [applied EXCEPT ![v] = class[v]]
          /\ background' = background \ {v}
      BY <1>2
    <3>2. made \in Nat /\ made' \in Nat
      BY DEF ServiceOK
    <3>3. pv' \in [Volumes -> 0..made']
      BY <3>1, <3>2 DEF VolumesOK
    <3>4. QED
      BY <3>1, <3>3 DEF VolumesOK, claims
  <2>3. PvSet'
    BY <1>2, <2>1 DEF VolumesOK, PvSet
  <2>4. CallsFit'
    BY <1>2, <2>1 DEF VolumesOK, CallsOK, CallsFit, Reservation, resizer
  <2>5. QED
    BY <1>1, <2>2, <2>3, <2>4
<1>3. CASE s # leader
  <2>1. VolumesOK'
    BY <1>3 DEF ServiceOK, VolumesOK, claims, volume
  <2>2. PvSet' /\ CallsFit'
    BY <1>3 DEF CallsOK, PvSet, CallsFit, Reservation, volume, resizer
  <2>3. QED
    BY <1>1, <2>1, <2>2
<1>4. QED
  BY <1>2, <1>3

(* What a request leaves of the service. *)
LEMMA AnsweredService ==
  ASSUME TypeOK, NEW q \in Requests, Succeeds(q) \/ Refuses(q) \/ Breaks(q),
         strays' \in [Volumes -> Nat], overtaken' = overtaken
  PROVE  ServiceOK' /\ made' >= made
BY Answered DEF TypeOK, ServiceOK, Exists

LEMMA StepControl ==
  ASSUME Control, NEW s \in Servers, NEW v \in Volumes, Step(s, v)
  PROVE  Control'
<1> USE DEF Control
<1>a. faults \in 0..MaxFaults
  BY DEF TypeOK, CallsOK
<1>b. Fault => faults' \in 0..MaxFaults /\ UNCHANGED <<failovers, changes>>
  BY <1>a DEF Fault
<1>c. UNCHANGED budget => faults' \in 0..MaxFaults /\ UNCHANGED <<failovers, changes>>
  BY <1>a DEF budget
<1>d. UNCHANGED service => ServiceOK' /\ made' >= made
  BY DEF service, TypeOK, ServiceOK, Exists
<1>1. CASE CheckClaim(s, v)
  <2>1. call[s][v] = "claim" /\ UNCHANGED <<service, claims, leader, resizer>>
        /\ faults' \in 0..MaxFaults /\ UNCHANGED <<failovers, changes>>
    BY <1>1, <1>b, <1>c DEF CheckClaim
  <2>2. CASE Reservation(v).code = "OK" /\ Continues(s, v, "list")
    BY <2>1, <2>2, CreationGoesOn
  <2>3. CASE \E code : Fails(s, v, code)
    BY <2>1, <2>3, <1>d, CreationFails
  <2>4. QED
    BY <1>1, <2>2, <2>3 DEF CheckClaim
<1>2. CASE List(s, v)
  <2>1. call[s][v] = "list" /\ UNCHANGED <<service, claims, leader, resizer>>
        /\ faults' \in 0..MaxFaults /\ UNCHANGED <<failovers, changes>>
    BY <1>2, <1>b, <1>c DEF List
  <2>2. CASE Continues(s, v, "quota")
    BY <2>1, <2>2, CreationGoesOn DEF CallsFit
  <2>3. CASE \E code : Fails(s, v, code)
    BY <2>1, <2>3, <1>d, CreationFails
  <2>4. ASSUME NEW i \in RoomsOf(v), Provisioned(s, v, i, Capacity(v, rooms[i]))
        PROVE  Control'
    <3>1. i \in Ids /\ rooms[i] \in Rooms /\ i <= made
      BY DEF RoomsOf, TypeOK, ServiceOK, Exists
    <3>2. Capacity(v, rooms[i]) \in Nat
      BY <3>1, ReservationType DEF Capacity, Rooms
    <3>3. i \in 1..made'
      BY <3>1, <2>1 DEF Ids, TypeOK, ServiceOK, service
    <3>4. QED
      BY <2>1, <2>4, <3>2, <3>3, <1>d, CreationEnds
  <2>5. QED
    BY <1>2, <2>2, <2>3, <2>4 DEF List
<1>3. CASE Quota(s, v)
  <2>1. call[s][v] = "quota" /\ UNCHANGED <<service, claims, leader, resizer>>
        /\ faults' \in 0..MaxFaults /\ UNCHANGED <<failovers, changes>>
    BY <1>3, <1>b, <1>c DEF Quota
  <2>2. CASE Continues(s, v, "create")
    BY <2>1, <2>2, CreationGoesOn DEF CallsFit
  <2>3. CASE \E code : Fails(s, v, code)
    BY <2>1, <2>3, <1>d, CreationFails
  <2>4. QED
    BY <1>3, <2>2, <2>3 DEF Quota
<1>4. CASE Create(s, v)
  <2> DEFINE q == CreateRequest(v, Reservation(v).bytes)
  <2>1. q \in Requests /\ q.op = "create" /\ Reservation(v).bytes \in Nat
    BY ReservationType, RequestTypes DEF CreateRequest
  <2>2. call[s][v] = "create" /\ UNCHANGED <<claims, leader, resizer, overtaken>>
    BY <1>4 DEF Create
  <2>3. Succeeds(q) \/ Refuses(q) \/ Breaks(q)
    BY <1>4 DEF Create
  <2>4. strays' \in [Volumes -> Nat]
    BY <1>4 DEF Create, TypeOK, ServiceOK
  <2>5. ServiceOK' /\ made' >= made /\ faults' \in 0..MaxFaults /\ UNCHANGED <<failovers, changes>>
    BY <2>1, <2>2, <2>3, <2>4, Answered, AnsweredService
  <2>6. CASE Succeeds(q) /\ Provisioned(s, v, made + 1, Reservation(v).bytes)
    <3>1. made + 1 \in 1..made'
      BY <2>1, <2>6 DEF Succeeds, Serve, TypeOK, ServiceOK
    <3>2. QED
      BY <2>1, <2>2, <2>5, <2>6, <3>1, CreationEnds
  <2>7. CASE \E code : Fails(s, v, code)
    BY <2>2, <2>5, <2>7, CreationFails
  <2>8. QED
    BY <1>4, <2>6, <2>7 DEF Create
<1>5. CASE Delete(s, v)
  <2> DEFINE q == RemoveRequest(pv[v])
  <2>1. call[s][v] = "delete" /\ UNCHANGED <<claims, leader, resizer, strays, overtaken>>
    BY <1>5 DEF Delete
  <2>2. pv[v] \in Ids
    BY <2>1, PvIds DEF CallsFit
  <2>3. q \in Requests
    BY <2>2, RequestTypes
  <2>4. Succeeds(q) \/ Refuses(q) \/ Breaks(q)
    BY <1>5 DEF Delete
  <2>5. ServiceOK' /\ made' >= made /\ faults' \in 0..MaxFaults /\ UNCHANGED <<failovers, changes>>
    BY <2>1, <2>3, <2>4, Answered, AnsweredService DEF TypeOK, ServiceOK
  <2>6. /\ Go(s, v, "idle") /\ UNCHANGED <<pv, reported, applied, background>>
        /\ phase' = phase \/ (s = leader /\ phase' = [phase EXCEPT ![v] = "deleted"])
    BY <1>5 DEF Delete, Deleted, Continues, Go, volume
  <2>7. VolumesOK' /\ CallsOK'
    BY <2>1, <2>5, <2>6 DEF Go, TypeOK, ServiceOK, VolumesOK, CallsOK, claims, resizer
  <2>8. PvSet' /\ CallsFit'
    BY <2>1, <2>6 DEF Go, PvSet, CallsFit, TypeOK, VolumesOK, CallsOK, Reservation, resizer
  <2>9. QED
    BY <2>5, <2>7, <2>8 DEF TypeOK
<1>6. QED
  BY <1>1, <1>2, <1>3, <1>4, <1>5 DEF Step

LEMMA ResizerControl ==
  ASSUME Control, NEW v \in Volumes, Expand(v) \/ ModifySet(v)
  PROVE  Control'
<1> USE DEF Control
<1>1. CASE ExpandList(v)
  <2>1. rooms[pv[v]] \in Rooms \/ rooms[pv[v]] = NoRoom
    <3>1. phase[v] # "pending"
      BY <1>1 DEF ExpandList, CallsFit
    <3>2. QED
      BY <3>1, PvIds DEF TypeOK, ServiceOK
  <2>2. ServiceOK'
    BY <1>1 DEF ExpandList, TypeOK, ServiceOK, Exists, service
  <2>3. Exists(pv[v]) => rooms[pv[v]].size \in Nat
    BY <2>1 DEF Exists, Rooms
  <2>4. reported' \in [Volumes -> Nat]
    BY <1>1, <2>3 DEF ExpandList, Expanded, NotExpanded, TypeOK, VolumesOK
  <2>5. /\ resize' \in [Volumes -> [step : {"idle", "list", "set"}, want : Nat]]
        /\ faults' \in 0..MaxFaults /\ UNCHANGED <<failovers, changes>>
    <3>1. resize[v].want \in Nat
      BY DEF TypeOK, CallsOK
    <3>2. \/ resize' = [resize EXCEPT ![v] = [step |-> "idle", want |-> 0]]
          \/ resize' = [resize EXCEPT ![v] = [step |-> "set", want |-> resize[v].want]]
      BY <1>1 DEF ExpandList, Expanded, NotExpanded, Resizing
    <3>3. UNCHANGED budget \/ Fault
      BY <1>1 DEF ExpandList
    <3>4. faults' \in 0..MaxFaults /\ UNCHANGED <<failovers, changes>>
      BY <3>3 DEF TypeOK, CallsOK, Fault, budget
    <3>5. resize' \in [Volumes -> [step : {"idle", "list", "set"}, want : Nat]]
      <4>1. resize \in [Volumes -> [step : {"idle", "list", "set"}, want : Nat]]
        BY DEF TypeOK, CallsOK
      <4>2. QED
        BY <3>1, <3>2, <4>1
    <3>6. QED
      BY <3>4, <3>5
  <2>6. VolumesOK' /\ CallsOK'
    BY <1>1, <2>4, <2>5 DEF ExpandList, TypeOK, VolumesOK, CallsOK, service, claims
  <2>7. PvSet' /\ CallsFit'
    BY <1>1 DEF ExpandList, Expanded, NotExpanded, Resizing, TypeOK, CallsOK, PvSet, CallsFit, Reservation
  <2>8. QED
    BY <2>2, <2>6, <2>7 DEF TypeOK
<1>2. CASE ExpandSet(v)
  <2> DEFINE q == SetSize(pv[v], resize[v].want)
  <2>1. phase[v] # "pending"
    BY <1>2 DEF ExpandSet, CallsFit
  <2>2. resize[v].want \in Nat
    BY DEF TypeOK, CallsOK
  <2>3. q \in Requests
    BY <2>1, <2>2, PvIds, RequestTypes
  <2>4. Succeeds(q) \/ Refuses(q) \/ Breaks(q)
    BY <1>2 DEF ExpandSet
  <2>5. ServiceOK' /\ made' >= made /\ faults' \in 0..MaxFaults /\ UNCHANGED <<failovers, changes>>
    BY <1>2, <2>3, <2>4, Answered, AnsweredService DEF ExpandSet, TypeOK, ServiceOK
  <2>6. reported' \in [Volumes -> Nat]
    BY <1>2, <2>2 DEF ExpandSet, Expanded, NotExpanded, TypeOK, VolumesOK
  <2>7. resize' \in [Volumes -> [step : {"idle", "list", "set"}, want : Nat]]
    <3>1. Resizing(v, "idle", 0)
      BY <1>2 DEF ExpandSet, Expanded, NotExpanded
    <3>2. QED
      BY <3>1 DEF Resizing, TypeOK, CallsOK
  <2>8. VolumesOK' /\ CallsOK'
    BY <1>2, <2>5, <2>6, <2>7 DEF ExpandSet, TypeOK, ServiceOK, VolumesOK, CallsOK, claims
  <2>9. PvSet' /\ CallsFit'
    BY <1>2 DEF ExpandSet, Expanded, NotExpanded, Resizing, TypeOK, CallsOK, PvSet, CallsFit, Reservation
  <2>10. QED
    BY <2>5, <2>8, <2>9 DEF TypeOK
<1>3. CASE ModifySet(v)
  <2> DEFINE q == SetVersioning(pv[v], modify[v])
  <2>1. phase[v] # "pending" /\ modify[v] \in Versioning
    BY <1>3 DEF ModifySet, CallsFit, TypeOK, CallsOK
  <2>2. q \in Requests
    BY <2>1, PvIds, RequestTypes
  <2>3. Succeeds(q) \/ Refuses(q) \/ Breaks(q)
    BY <1>3 DEF ModifySet
  <2>4. ServiceOK' /\ made' >= made /\ faults' \in 0..MaxFaults /\ UNCHANGED <<failovers, changes>>
    BY <1>3, <2>2, <2>3, Answered, AnsweredService DEF ModifySet, TypeOK, ServiceOK
  <2>5. VolumesOK' /\ CallsOK'
    BY <1>3, <2>1, <2>4 DEF ModifySet, TypeOK, ServiceOK, VolumesOK, CallsOK, claims
  <2>6. PvSet' /\ CallsFit'
    BY <1>3 DEF ModifySet, TypeOK, CallsOK, PvSet, CallsFit, Reservation
  <2>7. QED
    BY <2>4, <2>5, <2>6 DEF TypeOK
<1>4. QED
  BY <1>1, <1>2, <1>3 DEF Expand

LEMMA UserControl ==
  ASSUME Control, NEW v \in Volumes, User(v)
  PROVE  Control'
<1> USE DEF Control, TypeOK
<1>1. CASE DeleteClaim(v)
  BY <1>1 DEF DeleteClaim, ServiceOK, VolumesOK, CallsOK, Exists, PvSet, CallsFit, Reservation,
              service, resizer, budget
<1>2. CASE EnlargeClaim(v)
  <2>1. goal' \in [Volumes -> Int]
    BY <1>2, GoalsAssumption DEF EnlargeClaim, VolumesOK
  <2>2. QED
    BY <1>2, <2>1 DEF EnlargeClaim, ServiceOK, VolumesOK, CallsOK, Exists, PvSet, CallsFit, Reservation,
                      service, volume, resizer, budget
<1>3. CASE ChangeClass(v)
  BY <1>3 DEF ChangeClass, ServiceOK, VolumesOK, CallsOK, Exists, PvSet, CallsFit, Reservation,
              service, volume, resizer
<1>4. QED
  BY <1>1, <1>2, <1>3 DEF User

LEMMA OtherControl ==
  ASSUME Control, LateRequest \/ OwnerEnlarges \/ Failover
  PROVE  Control'
<1> USE DEF Control, TypeOK
<1>1. CASE LateRequest
  <2>1. PICK q \in flight :
          /\ flight' = flight \ {q}
          /\ Serve(q) \/ (~ Accepts(q) /\ UNCHANGED <<rooms, made>>)
          /\ strays' = IF made' = made THEN strays ELSE [strays EXCEPT ![q.title] = @ + 1]
          /\ overtaken' = IF q.op = "set" /\ q.versioning # NotSent /\ Exists(q.id)
                          THEN overtaken \cup {rooms[q.id].title} ELSE overtaken
    BY <1>1 DEF LateRequest
  <2>2. q \in Requests
    BY DEF ServiceOK
  <2>3. /\ made' \in 0..MaxRooms /\ made' >= made /\ rooms' \in [Ids -> Rooms \cup {NoRoom}]
        /\ \A i \in Ids : rooms'[i] # NoRoom => i <= made'
    BY <2>1, <2>2, Served DEF ServiceOK, Exists
  <2>4. strays' \in [Volumes -> Nat]
    <3>1. made' # made => q.title \in Volumes
      BY <2>1, <2>2 DEF Serve, Requests
    <3>2. QED
      BY <2>1, <3>1 DEF ServiceOK
  <2>5. overtaken' \subseteq Volumes
    <3>1. q.op = "set" /\ Exists(q.id) => rooms[q.id].title \in Volumes
      BY <2>2 DEF Requests, ServiceOK, Exists, Rooms
    <3>2. QED
      BY <2>1, <3>1 DEF ServiceOK
  <2>6. ServiceOK'
    BY <2>1, <2>3, <2>4, <2>5 DEF ServiceOK, Exists
  <2>7. VolumesOK' /\ CallsOK' /\ PvSet' /\ CallsFit'
    BY <1>1, <2>3 DEF LateRequest, ServiceOK, VolumesOK, CallsOK, PvSet, CallsFit, Reservation,
                      claims, volume, resizer, budget
  <2>8. QED
    BY <2>6, <2>7
<1>2. CASE OwnerEnlarges
  <2>1. PICK i \in Ids, n \in Goals : Exists(i) /\ rooms' = [rooms EXCEPT ![i].size = n]
    BY <1>2 DEF OwnerEnlarges
  <2>2. rooms' = [rooms EXCEPT ![i] = [rooms[i] EXCEPT !.size = n]]
    BY <2>1
  <2>3. [rooms[i] EXCEPT !.size = n] \in Rooms
    BY <2>1, GoalsAssumption DEF ServiceOK, Exists, Rooms
  <2>4. ServiceOK'
    BY <1>2, <2>1, <2>2, <2>3 DEF OwnerEnlarges, ServiceOK, Exists
  <2>5. VolumesOK' /\ CallsOK' /\ PvSet' /\ CallsFit'
    BY <1>2 DEF OwnerEnlarges, VolumesOK, CallsOK, PvSet, CallsFit, Reservation, claims, volume, resizer
  <2>6. QED
    BY <2>4, <2>5
<1>3. CASE Failover
  BY <1>3 DEF Failover, ServiceOK, VolumesOK, CallsOK, Exists, PvSet, CallsFit, Reservation,
              service, claims, resizer
<1>4. QED
  BY <1>1, <1>2, <1>3

LEMMA NextControl ==
  Control /\ [Next]_vars => Control'
<1> SUFFICES ASSUME Control, [Next]_vars PROVE Control'
  OBVIOUS
<1>1. CASE UNCHANGED vars
  BY <1>1 DEF Control, TypeOK, ServiceOK, VolumesOK, CallsOK, Exists, PvSet, CallsFit, Reservation,
              vars, service, claims, volume, resizer, budget
<1>2. CASE Next
  BY <1>2, BeginControl, StepControl, ResizerControl, UserControl, OtherControl DEF Next
<1>3. QED
  BY <1>1, <1>2

(* The types of Controller, and what each call that is under way says of   *)
(* its volume, hold in every state.                                        *)
THEOREM ControlHolds ==
  Spec => []Control
<1>1. QED
  BY InitControl, NextControl, PTL DEF Spec

-----------------------------------------------------------------------------
(* The datarooms of a volume. *)

(* The dataroom a PV names is one of the volume, until it is gone. *)
Titled == \A v \in Volumes : pv[v] # 0 /\ Exists(pv[v]) => pv[v] \in RoomsOf(v)

Gone == \A v \in Volumes : phase[v] = "deleted" => ~ Exists(pv[v])

(* Those that no PV names. *)
Spare(v) == Cardinality(RoomsOf(v) \ {pv[v]})

(* One of them may be that of a creation that failed; none once a listing  *)
(* showed none, but for strays.                                            *)
CountedFor(v) ==
  /\ Spare(v) <= strays[v] + (IF phase[v] = "pending" THEN 1 ELSE 0)
  /\ call[leader][v] \in {"quota", "create"} => Spare(v) <= strays[v]

Counted == \A v \in Volumes : CountedFor(v)

LEMMA InRooms ==
  ASSUME ServiceOK, NEW i \in Ids, Exists(i)
  PROVE  rooms[i] \in Rooms /\ i \in RoomsOf(rooms[i].title)
BY DEF ServiceOK, Exists, Rooms, RoomsOf

LEMMA FiniteRooms ==
  ASSUME NEW v
  PROVE  IsFiniteSet(RoomsOf(v))
<1>1. IsFiniteSet(Ids)
  BY FS_Interval DEF Ids
<1>2. RoomsOf(v) \subseteq Ids
  BY DEF RoomsOf
<1>3. QED
  BY <1>1, <1>2, FS_Subset

LEMMA CountOf ==
  ASSUME NEW S, IsFiniteSet(S), NEW x, NEW T, T \subseteq S \cup {x}
  PROVE  /\ Cardinality(S) \in Nat /\ Cardinality(T) \in Nat
         /\ Cardinality(T) <= Cardinality(S) + 1
         /\ T \subseteq S => Cardinality(T) <= Cardinality(S)
<1>1. Cardinality(S) \in Nat /\ IsFiniteSet(S \cup {x})
      /\ Cardinality(S \cup {x}) <= Cardinality(S) + 1 /\ Cardinality(S \cup {x}) \in Nat
  BY FS_AddElement, FS_CardinalityType
<1>2. IsFiniteSet(T) /\ Cardinality(T) <= Cardinality(S \cup {x}) /\ Cardinality(T) \in Nat
  BY <1>1, FS_Subset, FS_CardinalityType
<1>3. T \subseteq S => Cardinality(T) <= Cardinality(S)
  BY FS_Subset
<1>4. QED
  BY <1>1, <1>2, <1>3

(* A request that is served adds a dataroom of its title, removes one, or  *)
(* leaves the titles as they are.                                          *)
LEMMA ServedRooms ==
  ASSUME ServiceOK, NEW q \in Requests, Serve(q), NEW v
  PROVE  /\ q.op = "create" => /\ made' = made + 1 /\ made + 1 \in Ids
                               /\ made + 1 \notin RoomsOf(v) /\ rooms'[made + 1] # NoRoom
                               /\ RoomsOf(v)' = RoomsOf(v) \cup (IF q.title = v THEN {made + 1} ELSE {})
         /\ q.op = "rm" => made' = made /\ RoomsOf(v)' = RoomsOf(v) \ {q.id} /\ ~ Exists(q.id)'
         /\ q.op = "set" => made' = made /\ RoomsOf(v)' = RoomsOf(v)
<1>1. CASE q.op = "create"
  <2> DEFINE room == [title |-> q.title, size |-> q.size, versioning |-> q.versioning]
  <2>1. room \in Rooms /\ room # NoRoom /\ room.title = q.title
    BY <1>1, NoRoomAssumption DEF Requests, Rooms, Versioning
  <2>2. made' = made + 1 /\ made < MaxRooms /\ rooms' = [rooms EXCEPT ![made + 1] = room]
    BY <1>1 DEF Serve, Accepts
  <2>3. made + 1 \in Ids /\ ~ Exists(made + 1)
    BY <2>2 DEF ServiceOK, Ids
  <2> HIDE DEF room
  <2>4. rooms'[made + 1] = room /\ \A i \in Ids : i # made + 1 => rooms'[i] = rooms[i]
    BY <2>2, <2>3 DEF ServiceOK
  <2>5. RoomsOf(v)' = RoomsOf(v) \cup (IF q.title = v THEN {made + 1} ELSE {})
    BY <2>1, <2>3, <2>4 DEF RoomsOf, Exists
  <2>6. made + 1 \notin RoomsOf(v)
    BY <2>3 DEF RoomsOf
  <2>7. QED
    BY <1>1, <2>1, <2>2, <2>3, <2>4, <2>5, <2>6
<1>2. CASE q.op = "rm"
  <2>1. q.id \in Ids /\ rooms' = [rooms EXCEPT ![q.id] = NoRoom] /\ made' = made
    BY <1>2 DEF Serve, Requests
  <2>2. QED
    BY <1>2, <2>1 DEF ServiceOK, RoomsOf, Exists
<1>3. CASE q.op = "set"
  <2>1. /\ q.id \in Ids /\ Exists(q.id) /\ made' = made
        /\ rooms' = [rooms EXCEPT ![q.id] = Updated(rooms[q.id], q)]
    BY <1>3 DEF Serve, Accepts, Requests
  <2>2. /\ q.size \in Nat /\ q.versioning \in Versioning \cup {NotSent}
        /\ rooms[q.id] \in Rooms
    BY <1>3, <2>1 DEF Requests, ServiceOK, Exists
  <2>3. /\ Updated(rooms[q.id], q) \in Rooms /\ Updated(rooms[q.id], q) # NoRoom
        /\ Updated(rooms[q.id], q).title = rooms[q.id].title
    BY <2>2, NoRoomAssumption DEF Updated, Rooms, Versioning
  <2>4. QED
    BY <1>3, <2>1, <2>3 DEF ServiceOK, RoomsOf, Exists
<1>4. QED
  BY <1>1, <1>2, <1>3 DEF Requests

LEMMA OwnerRooms ==
  ASSUME ServiceOK, OwnerEnlarges, NEW v
  PROVE  RoomsOf(v)' = RoomsOf(v)
<1>1. PICK i \in Ids, n \in Goals : Exists(i) /\ rooms' = [rooms EXCEPT ![i].size = n]
  BY DEF OwnerEnlarges
<1>2. rooms' = [rooms EXCEPT ![i] = [rooms[i] EXCEPT !.size = n]]
  BY <1>1
<1>3. [rooms[i] EXCEPT !.size = n] \in Rooms /\ [rooms[i] EXCEPT !.size = n] # NoRoom
      /\ [rooms[i] EXCEPT !.size = n].title = rooms[i].title
  BY <1>1, GoalsAssumption, NoRoomAssumption DEF ServiceOK, Exists, Rooms, Versioning
<1>4. QED
  BY <1>1, <1>2, <1>3 DEF ServiceOK, RoomsOf, Exists

(* The requests that a step makes, or that reach the service. *)
LEMMA StepRequests ==
  ASSUME Control, Next
  PROVE  \/ UNCHANGED <<rooms, made>>
         \/ OwnerEnlarges /\ made' = made
         \/ \E q \in Requests : Serve(q)
<1> USE DEF Control
<1>1. CASE LateRequest
  BY <1>1 DEF LateRequest, TypeOK, ServiceOK
<1>2. ASSUME NEW v \in Volumes, NEW s \in Servers, Create(s, v)
      PROVE  UNCHANGED <<rooms, made>> \/ \E q \in Requests : Serve(q)
  <2>1. CreateRequest(v, Reservation(v).bytes) \in Requests
    BY RequestTypes, ReservationType
  <2>2. QED
    BY <1>2, <2>1 DEF Create, Succeeds, Refuses, Breaks
<1>3. ASSUME NEW v \in Volumes, NEW s \in Servers, Delete(s, v)
      PROVE  UNCHANGED <<rooms, made>> \/ \E q \in Requests : Serve(q)
  <2>1. RemoveRequest(pv[v]) \in Requests
    BY <1>3, RequestTypes, PvIds DEF Delete, CallsFit
  <2>2. QED
    BY <1>3, <2>1 DEF Delete, Succeeds, Refuses, Breaks
<1>4. ASSUME NEW v \in Volumes, ExpandSet(v)
      PROVE  UNCHANGED <<rooms, made>> \/ \E q \in Requests : Serve(q)
  <2>1. pv[v] \in Ids /\ resize[v].want \in Nat
    BY <1>4, PvIds DEF ExpandSet, CallsFit, TypeOK, CallsOK
  <2>2. SetSize(pv[v], resize[v].want) \in Requests
    BY <2>1, RequestTypes
  <2>3. QED
    BY <1>4, <2>2 DEF ExpandSet, Succeeds, Refuses, Breaks
<1>5. ASSUME NEW v \in Volumes, ModifySet(v)
      PROVE  UNCHANGED <<rooms, made>> \/ \E q \in Requests : Serve(q)
  <2>1. pv[v] \in Ids /\ modify[v] \in Versioning
    BY <1>5, PvIds DEF ModifySet, CallsFit, TypeOK, CallsOK
  <2>2. SetVersioning(pv[v], modify[v]) \in Requests
    BY <2>1, RequestTypes
  <2>3. QED
    BY <1>5, <2>2 DEF ModifySet, Succeeds, Refuses, Breaks
<1>6. CASE OwnerEnlarges
  BY <1>6 DEF OwnerEnlarges
<1>7. CASE Failover
  BY <1>7 DEF Failover, service
<1>8. ASSUME NEW v \in Volumes, Begin(v) \/ User(v) \/ ExpandList(v)
      PROVE  UNCHANGED <<rooms, made>>
  BY <1>8 DEF Begin, BeginCreate, BeginDelete, BeginExpand, BeginModify, User, DeleteClaim, EnlargeClaim,
              ChangeClass, ExpandList, service
<1>9. ASSUME NEW v \in Volumes, NEW s \in Servers, CheckClaim(s, v) \/ List(s, v) \/ Quota(s, v)
      PROVE  UNCHANGED <<rooms, made>>
  BY <1>9 DEF CheckClaim, List, Quota, service
<1>10. QED
  BY <1>1, <1>2, <1>3, <1>4, <1>5, <1>6, <1>7, <1>8, <1>9 DEF Next, Step, Expand

(* An ID is given once, and a dataroom keeps its title. *)
LEMMA OlderRooms ==
  ASSUME Control, [Next]_vars, NEW i \in Ids, i <= made, Exists(i)'
  PROVE  Exists(i) /\ rooms'[i].title = rooms[i].title
<1>1. PICK v : v = rooms'[i].title
  OBVIOUS
<1>2. i \in RoomsOf(v)'
  BY <1>1 DEF RoomsOf
<1>3. made \in Nat /\ i # made + 1
  BY DEF Control, TypeOK, ServiceOK, Ids
<1>4. i \in RoomsOf(v)
  <2>1. CASE UNCHANGED rooms
    BY <1>2, <2>1 DEF RoomsOf, Exists
  <2>2. CASE OwnerEnlarges
    BY <1>2, <2>2, OwnerRooms DEF Control, TypeOK
  <2>3. ASSUME NEW q \in Requests, Serve(q)
        PROVE  i \in RoomsOf(v)
    <3>1. q.op \in {"create", "rm", "set"}
      BY DEF Requests
    <3>2. QED
      BY <1>2, <1>3, <2>3, <3>1, ServedRooms DEF Control, TypeOK
  <2>4. QED
    BY <2>1, <2>2, <2>3, StepRequests DEF vars, service
<1>5. QED
  BY <1>1, <1>4 DEF RoomsOf

LEMMA TitledKept ==
  ASSUME Control, Titled, [Next]_vars, NEW w \in Volumes, pv'[w] = pv[w], pv[w] # 0, Exists(pv[w])'
  PROVE  pv[w] \in RoomsOf(w) /\ pv[w] \in RoomsOf(w)'
<1>1. pv[w] \in Ids /\ pv[w] <= made
  <2>1. pv[w] \in 0..made /\ made \in 0..MaxRooms
    BY DEF Control, TypeOK, ServiceOK, VolumesOK
  <2>2. QED
    BY <2>1 DEF Ids
<1>2. Exists(pv[w]) /\ rooms'[pv[w]].title = rooms[pv[w]].title
  BY <1>1, OlderRooms
<1>3. pv[w] \in RoomsOf(w)
  BY <1>2 DEF Titled
<1>4. QED
  BY <1>1, <1>2, <1>3 DEF RoomsOf

(* What does not add a dataroom to a volume. *)
LEMMA CountedKept ==
  ASSUME Control, NEW w \in Volumes, CountedFor(w),
         RoomsOf(w)' \subseteq RoomsOf(w), pv'[w] = pv[w],
         strays'[w] \in Nat, strays'[w] >= strays[w],
         phase[w] = "pending" => phase'[w] = "pending",
         call'[leader'][w] \in {"quota", "create"} =>
           call[leader][w] \in {"quota", "create"} \/ RoomsOf(w) = {}
  PROVE  CountedFor(w)'
<1>1. Spare(w)' <= Spare(w) /\ Spare(w) \in Nat /\ Spare(w)' \in Nat
  <2> DEFINE S == RoomsOf(w) \ {pv[w]}
  <2>1. IsFiniteSet(S)
    BY FiniteRooms, FS_Subset
  <2>2. (RoomsOf(w)' \ {pv'[w]}) \subseteq S
    OBVIOUS
  <2> HIDE DEF S
  <2>3. PICK T : T = RoomsOf(w)' \ {pv'[w]}
    OBVIOUS
  <2>4. Cardinality(T) <= Cardinality(S) /\ Cardinality(S) \in Nat /\ Cardinality(T) \in Nat
    BY <2>1, <2>2, <2>3, CountOf
  <2>5. QED
    BY <2>3, <2>4 DEF Spare, S
<1>2. strays[w] \in Nat
  BY DEF Control, TypeOK, ServiceOK
<1>3. RoomsOf(w) = {} => Spare(w) = 0
  BY FS_EmptySet DEF Spare
<1>4. QED
  BY <1>1, <1>2, <1>3 DEF CountedFor

(* A dataroom more, of a request that nobody waits for, or of the creation *)
(* of the leader.                                                          *)
LEMMA CountedMore ==
  ASSUME Control, NEW w \in Volumes, CountedFor(w),
         RoomsOf(w)' = RoomsOf(w) \cup {made + 1}, pv'[w] = pv[w], phase'[w] = "pending" <=> phase[w] = "pending",
         \/ /\ strays'[w] = strays[w] + 1
            /\ call'[leader'][w] \in {"quota", "create"} => call[leader][w] \in {"quota", "create"}
         \/ /\ strays'[w] = strays[w] /\ call[leader][w] = "create" /\ phase[w] = "pending"
            /\ call'[leader'][w] = "idle"
  PROVE  CountedFor(w)'
<1>1. Spare(w)' <= Spare(w) + 1 /\ Spare(w) \in Nat /\ Spare(w)' \in Nat
  <2> DEFINE S == RoomsOf(w) \ {pv[w]}
  <2>1. IsFiniteSet(S)
    BY FiniteRooms, FS_Subset
  <2>2. (RoomsOf(w)' \ {pv'[w]}) \subseteq S \cup {made + 1}
    OBVIOUS
  <2> HIDE DEF S
  <2>3. PICK T, i : T = RoomsOf(w)' \ {pv'[w]} /\ i = made + 1
    OBVIOUS
  <2>4. Cardinality(T) <= Cardinality(S) + 1 /\ Cardinality(S) \in Nat /\ Cardinality(T) \in Nat
    BY <2>1, <2>2, <2>3, CountOf
  <2>5. QED
    BY <2>3, <2>4 DEF Spare, S
<1>2. strays[w] \in Nat
  BY DEF Control, TypeOK, ServiceOK
<1>3. QED
  BY <1>1, <1>2 DEF CountedFor

Datarooms == Titled /\ Gone /\ Counted

LEMMA InitDatarooms ==
  Init => Datarooms
<1> SUFFICES ASSUME Init PROVE Datarooms
  OBVIOUS
<1>1. \A v : RoomsOf(v) = {}
  BY DEF Init, RoomsOf, Exists
<1>2. \A v \in Volumes : Spare(v) = 0
  BY <1>1, FS_EmptySet DEF Spare
<1>3. QED
  BY <1>2 DEF Init, Datarooms, Titled, Gone, Counted, CountedFor

(* Steps after which the datarooms, the PVs and the strays are as before.  *)
LEMMA QuietDatarooms ==
  ASSUME Control, Datarooms, UNCHANGED <<rooms, made, strays, pv>>,
         \A w \in Volumes : phase'[w] = phase[w] \/ (phase[w] = "bound" /\ phase'[w] = "released"),
         \A w \in Volumes : call'[leader'][w] \in {"quota", "create"} =>
                              call[leader][w] \in {"quota", "create"} \/ RoomsOf(w) = {}
  PROVE  Datarooms'
<1>1. \A w \in Volumes : RoomsOf(w)' = RoomsOf(w)
  BY DEF RoomsOf, Exists
<1>2. \A w \in Volumes : strays[w] \in Nat
  BY DEF Control, TypeOK, ServiceOK
<1>3. ASSUME NEW w \in Volumes PROVE CountedFor(w)'
  <2>1. CountedFor(w) /\ RoomsOf(w)' \subseteq RoomsOf(w) /\ strays'[w] \in Nat /\ strays'[w] >= strays[w]
    BY <1>1, <1>2 DEF Datarooms, Counted
  <2>2. phase[w] = "pending" => phase'[w] = "pending"
    OBVIOUS
  <2>3. QED
    BY <2>1, <2>2, CountedKept
<1>4. Titled' /\ Gone'
  BY <1>1 DEF Datarooms, Titled, Gone, Exists
<1>5. QED
  BY <1>3, <1>4 DEF Datarooms, Counted

LEMMA QuietSteps ==
  ASSUME Control, Datarooms,
         \/ UNCHANGED vars \/ Failover
         \/ \E v \in Volumes : Begin(v) \/ User(v) \/ ExpandList(v)
         \/ \E v \in Volumes, s \in Servers : CheckClaim(s, v) \/ Quota(s, v)
  PROVE  Datarooms'
<1> USE DEF Control, TypeOK
<1>1. CASE UNCHANGED vars
  BY <1>1, QuietDatarooms DEF vars, service, volume
<1>2. CASE Failover
  <2>1. \A w \in Volumes : call'[leader'][w] = "idle"
    BY <1>2 DEF Failover
  <2>2. QED
    BY <1>2, <2>1, QuietDatarooms DEF Failover, service
<1>3. ASSUME NEW v \in Volumes, BeginCreate(v) \/ BeginDelete(v)
      PROVE  Datarooms'
  <2>1. \A w \in Volumes : call'[leader'][w] \in {call[leader][w], "claim", "delete"}
    BY <1>3 DEF BeginCreate, BeginDelete, Go, CallsOK
  <2>2. QED
    BY <1>3, <2>1, QuietDatarooms DEF BeginCreate, BeginDelete, service, volume
<1>4. ASSUME NEW v \in Volumes, BeginExpand(v) \/ BeginModify(v) \/ User(v) \/ ExpandList(v)
      PROVE  Datarooms'
  <2>1. UNCHANGED <<rooms, made, strays, pv, call, leader>>
    BY <1>4 DEF BeginExpand, BeginModify, User, DeleteClaim, EnlargeClaim, ChangeClass, ExpandList,
                service, volume
  <2>2. \A w \in Volumes : phase'[w] = phase[w] \/ (phase[w] = "bound" /\ phase'[w] = "released")
    BY <1>4 DEF BeginExpand, BeginModify, User, DeleteClaim, EnlargeClaim, ChangeClass, ExpandList,
                volume, VolumesOK
  <2>3. QED
    BY <2>1, <2>2, QuietDatarooms
<1>5. ASSUME NEW v \in Volumes, NEW s \in Servers, CheckClaim(s, v) \/ Quota(s, v)
      PROVE  Datarooms'
  <2>1. \A w \in Volumes : call'[leader'][w] \in {"quota", "create"} => call[leader][w] \in {"quota", "create"}
    BY <1>5 DEF CheckClaim, Quota, Continues, Fails, Go, CallsOK
  <2>2. UNCHANGED <<rooms, made, strays, pv, phase>>
    BY <1>5 DEF CheckClaim, Quota, Continues, Fails, service, volume
  <2>3. QED
    BY <2>1, <2>2, QuietDatarooms
<1>6. QED
  BY <1>1, <1>2, <1>3, <1>4, <1>5 DEF Begin

(* The listing: none is seen, or one becomes that of the PV. *)
LEMMA ListDatarooms ==
  ASSUME Control, Datarooms, NEW s \in Servers, NEW v \in Volumes, List(s, v)
  PROVE  Datarooms'
<1> USE DEF Control, TypeOK
<1>1. call[s][v] = "list" /\ UNCHANGED <<rooms, made, strays, leader>>
  BY DEF List, service
<1>2. CASE RoomsOf(v) = {} /\ Continues(s, v, "quota")
  <2>1. \A w \in Volumes : call'[leader'][w] \in {"quota", "create"} =>
                             call[leader][w] \in {"quota", "create"} \/ RoomsOf(w) = {}
    BY <1>1, <1>2 DEF Continues, Go, CallsOK
  <2>2. QED
    BY <1>1, <1>2, <2>1, QuietDatarooms DEF Continues, volume
<1>3. ASSUME \/ \E code : Fails(s, v, code)
             \/ s # leader /\ \E i, n : Provisioned(s, v, i, n)
      PROVE  Datarooms'
  <2>1. \A w \in Volumes : call'[leader'][w] \in {"quota", "create"} => call[leader][w] \in {"quota", "create"}
    BY <1>1, <1>3 DEF Fails, Provisioned, Go, CallsOK
  <2>2. UNCHANGED <<pv, phase>>
    BY <1>3 DEF Fails, Provisioned, volume
  <2>3. QED
    BY <1>1, <2>1, <2>2, QuietDatarooms
<1>4. ASSUME s = leader, NEW i \in RoomsOf(v), NEW n, Provisioned(s, v, i, n)
      PROVE  Datarooms'
  <2>1. phase[v] = "pending" /\ pv[v] = 0
    BY <1>1, <1>4 DEF CallsFit, PvSet
  <2>2. /\ phase' = [phase EXCEPT ![v] = IF v \in claim THEN "bound" ELSE "released"]
        /\ pv' = [pv EXCEPT ![v] = i] /\ call' = [call EXCEPT ![s][v] = "idle"]
    BY <1>4 DEF Provisioned, Go
  <2>3. \A w \in Volumes : RoomsOf(w)' = RoomsOf(w)
    BY <1>1 DEF RoomsOf, Exists
  <2>4. i \in Ids /\ i # 0
    BY DEF RoomsOf, Ids
  <2>5. Titled' /\ Gone'
    BY <1>1, <2>1, <2>2, <2>3, <2>4 DEF Datarooms, Titled, Gone, Exists, VolumesOK
  <2>6. ASSUME NEW w \in Volumes, w # v PROVE CountedFor(w)'
    <3>1. pv'[w] = pv[w] /\ phase'[w] = phase[w] /\ call'[leader'][w] = call[leader][w]
      BY <1>1, <2>2, <2>6 DEF VolumesOK, CallsOK
    <3>2. QED
      BY <1>1, <2>3, <3>1, CountedKept DEF Datarooms, Counted, ServiceOK
  <2>7. CountedFor(v)'
    <3> DEFINE S == RoomsOf(v)
    <3>1. IsFiniteSet(S) /\ S = S \ {0}
      BY FiniteRooms DEF RoomsOf, Ids
    <3>2. Cardinality(S) <= strays[v] + 1
      BY <2>1, <3>1 DEF Datarooms, Counted, CountedFor, Spare
    <3>3. Cardinality(S \ {i}) = Cardinality(S) - 1 /\ Cardinality(S) \in Nat
      BY <3>1, FS_RemoveElement, FS_CardinalityType
    <3>4. RoomsOf(v)' \ {pv'[v]} = S \ {i}
      BY <2>2, <2>3 DEF VolumesOK
    <3> HIDE DEF S
    <3>5. Spare(v)' <= strays[v]
      <4>1. PICK T : T = S \ {i}
        OBVIOUS
      <4>2. Spare(v)' = Cardinality(T)
        BY <3>4, <4>1 DEF Spare
      <4>3. QED
        BY <3>2, <3>3, <4>1, <4>2 DEF ServiceOK
    <3>6. strays[v] \in Nat /\ Spare(v)' \in Int
      <4>1. PICK T : T = S \ {i}
        OBVIOUS
      <4>2. Spare(v)' = Cardinality(T)
        BY <3>4, <4>1 DEF Spare
      <4>3. QED
        BY <3>3, <4>1, <4>2 DEF ServiceOK
    <3>7. phase'[v] # "pending"
      BY <2>2 DEF VolumesOK
    <3>8. QED
      BY <1>1, <3>5, <3>6, <3>7 DEF CountedFor
  <2>8. QED
    BY <2>5, <2>6, <2>7 DEF Datarooms, Counted
<1>5. QED
  BY <1>2, <1>3, <1>4 DEF List

LEMMA GoneKept ==
  ASSUME Control, Gone, [Next]_vars, NEW w \in Volumes, phase[w] = "deleted", pv'[w] = pv[w]
  PROVE  ~ Exists(pv[w])'
<1>1. pv[w] \in Ids /\ pv[w] <= made
  BY PvIds DEF Control, TypeOK, VolumesOK, ServiceOK
<1>2. QED
  BY <1>1, OlderRooms DEF Gone

(* Steps of the service, with the PVs as they are: no title changes, and a *)
(* dataroom more is a stray one, or of the creation of the leader.         *)
LEMMA ServiceDatarooms ==
  ASSUME Control, Datarooms, Next, UNCHANGED pv,
         \A w \in Volumes :
           /\ phase'[w] = "pending" <=> phase[w] = "pending"
           /\ phase'[w] = "deleted" => phase[w] = "deleted" \/ ~ Exists(pv[w])'
           /\ call'[leader'][w] \in {"quota", "create"} => call[leader][w] \in {"quota", "create"}
           /\ strays'[w] \in Nat /\ strays'[w] >= strays[w],
         \A w \in Volumes :
           \/ RoomsOf(w)' \subseteq RoomsOf(w)
           \/ /\ RoomsOf(w)' = RoomsOf(w) \cup {made + 1}
              /\ \/ strays'[w] = strays[w] + 1
                 \/ /\ strays'[w] = strays[w] /\ call[leader][w] = "create" /\ phase[w] = "pending"
                    /\ call'[leader'][w] = "idle"
  PROVE  Datarooms'
<1>1. Titled'
  BY TitledKept DEF Datarooms, Titled
<1>2. Gone'
  BY GoneKept DEF Datarooms, Gone
<1>3. ASSUME NEW w \in Volumes PROVE CountedFor(w)'
  <2>1. CountedFor(w)
    BY DEF Datarooms, Counted
  <2>2. CASE RoomsOf(w)' \subseteq RoomsOf(w)
    BY <2>1, <2>2, CountedKept
  <2>3. CASE RoomsOf(w)' = RoomsOf(w) \cup {made + 1}
    BY <2>1, <2>2, <2>3, CountedMore
  <2>4. QED
    BY <2>2, <2>3
<1>4. QED
  BY <1>1, <1>2, <1>3 DEF Datarooms, Counted

LEMMA LateDatarooms ==
  ASSUME Control, Datarooms, Next, LateRequest \/ OwnerEnlarges \/ \E v \in Volumes : ExpandSet(v) \/ ModifySet(v)
  PROVE  Datarooms'
<1> USE DEF Control, TypeOK
<1>1. \A w \in Volumes : strays[w] \in Nat
  BY DEF ServiceOK
<1>2. CASE OwnerEnlarges
  <2>1. \A w \in Volumes : RoomsOf(w)' = RoomsOf(w)
    BY <1>2, OwnerRooms
  <2>2. UNCHANGED <<pv, phase, call, leader, strays>>
    BY <1>2 DEF OwnerEnlarges, volume
  <2>3. QED
    BY <1>1, <2>1, <2>2, ServiceDatarooms
<1>3. CASE LateRequest
  <2>1. PICK q \in flight :
          /\ Serve(q) \/ (~ Accepts(q) /\ UNCHANGED <<rooms, made>>)
          /\ strays' = IF made' = made THEN strays ELSE [strays EXCEPT ![q.title] = @ + 1]
    BY <1>3 DEF LateRequest
  <2>2. q \in Requests
    BY DEF ServiceOK
  <2>3. UNCHANGED <<pv, phase, call, leader>>
    BY <1>3 DEF LateRequest, volume
  <2>4. CASE UNCHANGED <<rooms, made>>
    BY <1>1, <2>1, <2>3, <2>4, ServiceDatarooms DEF RoomsOf, Exists
  <2>5. CASE Serve(q) /\ q.op = "create"
    <3>1. q.title \in Volumes /\ made' = made + 1
      BY <2>2, <2>5, ServedRooms DEF Requests
    <3>2. strays' = [strays EXCEPT ![q.title] = strays[q.title] + 1]
      BY <2>1, <3>1 DEF ServiceOK
    <3>3. \A w \in Volumes : RoomsOf(w)' = RoomsOf(w) \cup (IF q.title = w THEN {made + 1} ELSE {})
      BY <2>2, <2>5, ServedRooms
    <3>4. QED
      BY <1>1, <2>3, <3>1, <3>2, <3>3, ServiceDatarooms DEF ServiceOK
  <2>6. CASE Serve(q) /\ q.op # "create"
    <3>1. q.op \in {"rm", "set"}
      BY <2>2, <2>6 DEF Requests
    <3>2. made' = made /\ \A w \in Volumes : RoomsOf(w)' \subseteq RoomsOf(w)
      BY <2>2, <2>6, <3>1, ServedRooms
    <3>3. QED
      BY <1>1, <2>1, <2>3, <3>2, ServiceDatarooms
  <2>7. QED
    BY <2>1, <2>4, <2>5, <2>6
<1>4. ASSUME NEW v \in Volumes, ExpandSet(v) \/ ModifySet(v) PROVE Datarooms'
  <2>1. UNCHANGED <<pv, phase, call, leader, strays>>
    BY <1>4 DEF ExpandSet, ModifySet
  <2>2. PICK q \in Requests : q.op = "set" /\ (Succeeds(q) \/ Refuses(q) \/ Breaks(q))
    <3>1. pv[v] \in Ids
      BY <1>4, PvIds DEF ExpandSet, ModifySet, CallsFit
    <3>2. CASE ExpandSet(v)
      <4>1. SetSize(pv[v], resize[v].want) \in Requests /\ SetSize(pv[v], resize[v].want).op = "set"
        BY <3>1, RequestTypes DEF CallsOK, SetSize
      <4>2. QED
        BY <3>2, <4>1 DEF ExpandSet
    <3>3. CASE ModifySet(v)
      <4>1. modify[v] \in Versioning
        BY <3>3 DEF ModifySet, CallsOK
      <4>2. SetVersioning(pv[v], modify[v]) \in Requests /\ SetVersioning(pv[v], modify[v]).op = "set"
        BY <3>1, <4>1, RequestTypes DEF SetVersioning
      <4>3. QED
        BY <3>3, <4>2 DEF ModifySet
    <3>4. QED
      BY <1>4, <3>2, <3>3
  <2>3. \A w \in Volumes : RoomsOf(w)' = RoomsOf(w)
    <3>1. CASE Serve(q)
      BY <2>2, <3>1, ServedRooms
    <3>2. CASE UNCHANGED rooms
      BY <3>2 DEF RoomsOf, Exists
    <3>3. QED
      BY <2>2, <3>1, <3>2 DEF Succeeds, Refuses, Breaks
  <2>4. QED
    BY <1>1, <2>1, <2>3, ServiceDatarooms
<1>5. QED
  BY <1>2, <1>3, <1>4

(* The leader's creation is answered: its dataroom is that of the PV.      *)
LEMMA CreatedDatarooms ==
  ASSUME Control, Datarooms, Next, NEW v \in Volumes, NEW n,
         call[leader][v] = "create", Provisioned(leader, v, made + 1, n),
         UNCHANGED <<strays, leader>>, made + 1 \notin RoomsOf(v), made + 1 \in Ids,
         \A w \in Volumes : RoomsOf(w)' = RoomsOf(w) \cup (IF v = w THEN {made + 1} ELSE {})
  PROVE  Datarooms'
<1> USE DEF Control, TypeOK
<1>1. phase[v] = "pending" /\ pv[v] = 0
  BY DEF CallsFit, PvSet
<1>2. /\ phase' = [phase EXCEPT ![v] = IF v \in claim THEN "bound" ELSE "released"]
      /\ pv' = [pv EXCEPT ![v] = made + 1] /\ call' = [call EXCEPT ![leader][v] = "idle"]
  BY DEF Provisioned, Go
<1>3. pv'[v] = made + 1 /\ phase'[v] \in {"bound", "released"} /\ call'[leader'][v] = "idle"
  BY <1>2 DEF VolumesOK, CallsOK
<1>4. \A w \in Volumes \ {v} :
        pv'[w] = pv[w] /\ phase'[w] = phase[w] /\ call'[leader'][w] = call[leader][w]
  BY <1>2 DEF VolumesOK, CallsOK
<1>5. Titled'
  BY <1>3, <1>4, TitledKept DEF Datarooms, Titled
<1>6. Gone'
  BY <1>3, <1>4, GoneKept DEF Datarooms, Gone
<1>7. ASSUME NEW w \in Volumes, w # v PROVE CountedFor(w)'
  <2>1. RoomsOf(w)' = RoomsOf(w)
    BY <1>7
  <2>2. QED
    BY <1>4, <1>7, <2>1, CountedKept DEF Datarooms, Counted, ServiceOK
<1>8. CountedFor(v)'
  <2>1. Spare(v) <= strays[v]
    BY DEF Datarooms, Counted, CountedFor
  <2>2. RoomsOf(v)' \ {pv'[v]} = RoomsOf(v) \ {pv[v]}
    BY <1>1, <1>3 DEF RoomsOf, Ids
  <2>3. Spare(v)' = Spare(v)
    BY <2>2 DEF Spare
  <2>4. QED
    BY <1>3, <2>1, <2>3 DEF CountedFor, ServiceOK
<1>9. QED
  BY <1>5, <1>6, <1>7, <1>8 DEF Datarooms, Counted

LEMMA CreateDatarooms ==
  ASSUME Control, Datarooms, Next, NEW s \in Servers, NEW v \in Volumes, Create(s, v)
  PROVE  Datarooms'
<1> USE DEF Control, TypeOK
<1> DEFINE q == CreateRequest(v, Reservation(v).bytes)
<1>1. q \in Requests /\ q.op = "create" /\ q.title = v
  BY ReservationType, RequestTypes DEF CreateRequest
<1>2. /\ call[s][v] = "create" /\ UNCHANGED <<claims, leader, resizer>>
      /\ strays' = IF s # leader /\ made' # made THEN [strays EXCEPT ![v] = @ + 1] ELSE strays
  BY DEF Create
<1>3. \A w \in Volumes : strays'[w] \in Nat /\ strays'[w] >= strays[w]
  BY <1>2 DEF ServiceOK
<1>4. \/ Succeeds(q) /\ Provisioned(s, v, made + 1, Reservation(v).bytes)
      \/ (Refuses(q) \/ Breaks(q)) /\ \E code : Fails(s, v, code)
  BY DEF Create
<1>5. Serve(q) => /\ made' = made + 1 /\ made + 1 \in Ids /\ made + 1 \notin RoomsOf(v)
                  /\ \A w \in Volumes : RoomsOf(w)' = RoomsOf(w) \cup (IF v = w THEN {made + 1} ELSE {})
  BY <1>1, ServedRooms
<1>6. ~ Serve(q) => made' = made /\ \A w \in Volumes : RoomsOf(w)' = RoomsOf(w)
  BY <1>4 DEF Succeeds, Refuses, Breaks, RoomsOf, Exists
<1>7. made \in Nat
  BY DEF ServiceOK
<1>8. CASE s = leader /\ Succeeds(q) /\ Provisioned(s, v, made + 1, Reservation(v).bytes)
  <2>1. Serve(q) /\ strays' = strays
    BY <1>2, <1>8 DEF Succeeds
  <2>2. QED
    BY <1>2, <1>5, <1>8, <2>1, CreatedDatarooms
<1>9. CASE (s # leader /\ Provisioned(s, v, made + 1, Reservation(v).bytes)) \/ \E code : Fails(s, v, code)
  <2>1. UNCHANGED <<pv, phase>> /\ call' = [call EXCEPT ![s][v] = "idle"]
    BY <1>9 DEF Provisioned, Fails, Go, volume
  <2>2. \A w \in Volumes : call'[leader'][w] \in {"quota", "create"} => call[leader][w] \in {"quota", "create"}
    BY <1>2, <2>1 DEF CallsOK
  <2>3. CASE ~ Serve(q)
    BY <1>3, <1>6, <2>1, <2>2, <2>3, ServiceDatarooms
  <2>4. CASE Serve(q) /\ s # leader
    <3>1. strays' = [strays EXCEPT ![v] = strays[v] + 1]
      BY <1>2, <1>5, <1>7, <2>4
    <3>2. \A w \in Volumes : \/ RoomsOf(w)' \subseteq RoomsOf(w)
                             \/ RoomsOf(w)' = RoomsOf(w) \cup {made + 1} /\ strays'[w] = strays[w] + 1
      BY <1>5, <2>4, <3>1 DEF ServiceOK
    <3>3. QED
      BY <1>3, <2>1, <2>2, <3>2, ServiceDatarooms
  <2>5. CASE Serve(q) /\ s = leader
    <3>1. strays' = strays /\ call[leader][v] = "create" /\ phase[v] = "pending" /\ call'[leader'][v] = "idle"
      BY <1>2, <2>1, <2>5 DEF CallsFit, CallsOK
    <3>2. \A w \in Volumes : \/ RoomsOf(w)' \subseteq RoomsOf(w)
                             \/ w = v /\ RoomsOf(w)' = RoomsOf(w) \cup {made + 1}
      BY <1>5, <2>5
    <3>3. QED
      BY <1>3, <2>1, <2>2, <3>1, <3>2, ServiceDatarooms
  <2>6. QED
    BY <2>3, <2>4, <2>5
<1>10. QED
  BY <1>4, <1>8, <1>9

(* A deletion that says deleted has removed the dataroom, or was told that *)
(* there is none.                                                          *)
LEMMA DeleteDatarooms ==
  ASSUME Control, Datarooms, Next, NEW s \in Servers, NEW v \in Volumes, Delete(s, v)
  PROVE  Datarooms'
<1> USE DEF Control, TypeOK
<1> DEFINE q == RemoveRequest(pv[v])
<1>1. call[s][v] = "delete" /\ UNCHANGED <<claims, leader, resizer, strays, overtaken, pv>>
  BY DEF Delete, Deleted, Continues, volume
<1>2. phase[v] \in {"released", "deleted"} /\ pv[v] \in Ids
  BY <1>1, PvIds DEF CallsFit
<1>3. q \in Requests /\ q.op = "rm" /\ q.id = pv[v]
  BY <1>2, RequestTypes DEF RemoveRequest
<1>4. \A w \in Volumes : RoomsOf(w)' \subseteq RoomsOf(w)
  <2>1. CASE Serve(q)
    BY <1>3, <2>1, ServedRooms
  <2>2. CASE UNCHANGED rooms
    BY <2>2 DEF RoomsOf, Exists
  <2>3. QED
    BY <2>1, <2>2 DEF Delete, Succeeds, Refuses, Breaks
<1>5. \A w \in Volumes : strays'[w] \in Nat /\ strays'[w] >= strays[w]
  BY <1>1 DEF ServiceOK
<1>6. call' = [call EXCEPT ![s][v] = "idle"]
  BY DEF Delete, Deleted, Continues, Go
<1>7. \A w \in Volumes : call'[leader'][w] \in {"quota", "create"} => call[leader][w] \in {"quota", "create"}
  BY <1>1, <1>6 DEF CallsOK
<1>8. CASE phase' = phase
  BY <1>1, <1>4, <1>5, <1>7, <1>8, ServiceDatarooms
<1>9. CASE phase' # phase
  <2>1. phase' = [phase EXCEPT ![v] = "deleted"]
    BY <1>9 DEF Delete, Deleted, Continues, volume
  <2>2. Succeeds(q) \/ Refuses(q)
    BY <1>9 DEF Delete, Continues, volume
  <2>3. ~ Exists(pv[v])'
    <3>1. CASE Succeeds(q)
      <4>1. rooms' = [rooms EXCEPT ![pv[v]] = NoRoom]
        BY <1>3, <3>1 DEF Succeeds, Serve
      <4>2. QED
        BY <1>1, <1>2, <4>1 DEF Exists, ServiceOK
    <3>2. CASE Refuses(q)
      BY <1>1, <1>3, <3>2 DEF Refuses, Accepts, Exists
    <3>3. QED
      BY <2>2, <3>1, <3>2
  <2>4. ~ Exists(pv[v])' /\ \A w \in Volumes :
          /\ phase'[w] = "pending" <=> phase[w] = "pending"
          /\ phase'[w] = "deleted" => phase[w] = "deleted" \/ w = v
    BY <1>2, <2>1, <2>3 DEF VolumesOK
  <2>5. QED
    BY <1>1, <1>4, <1>5, <1>7, <2>4, ServiceDatarooms
<1>10. QED
  BY <1>8, <1>9

LEMMA NextDatarooms ==
  Control /\ Datarooms /\ [Next]_vars => Datarooms'
<1> SUFFICES ASSUME Control, Datarooms, [Next]_vars PROVE Datarooms'
  OBVIOUS
<1>1. CASE UNCHANGED vars
  BY <1>1, QuietSteps
<1>2. CASE Next
  <2>1. CASE LateRequest \/ OwnerEnlarges \/ Failover
    BY <1>2, <2>1, LateDatarooms, QuietSteps
  <2>2. ASSUME NEW v \in Volumes, Begin(v) \/ Expand(v) \/ ModifySet(v) \/ User(v)
        PROVE  Datarooms'
    BY <1>2, <2>2, LateDatarooms, QuietSteps DEF Expand
  <2>3. ASSUME NEW v \in Volumes, NEW s \in Servers, Step(s, v)
        PROVE  Datarooms'
    BY <1>2, <2>3, QuietSteps, ListDatarooms, CreateDatarooms, DeleteDatarooms DEF Step
  <2>4. QED
    BY <1>2, <2>1, <2>2, <2>3 DEF Next
<1>3. QED
  BY <1>1, <1>2

(* What is counted bounds the datarooms of a title. *)
LEMMA DataroomsSuffice ==
  Control /\ Datarooms => OneDataroom
<1> SUFFICES ASSUME Control, Datarooms, NEW v \in Volumes
             PROVE  Cardinality(RoomsOf(v)) <= strays[v] + (IF phase[v] = "deleted" THEN 0 ELSE 1)
  BY DEF OneDataroom
<1>1. strays[v] \in Nat /\ IsFiniteSet(RoomsOf(v) \ {pv[v]})
  BY FiniteRooms, FS_Subset DEF Control, TypeOK, ServiceOK
<1>2. Spare(v) <= strays[v] + (IF phase[v] = "pending" THEN 1 ELSE 0)
  BY DEF Datarooms, Counted, CountedFor
<1>3. PICK T, S : T = RoomsOf(v) /\ S = RoomsOf(v) \ {pv[v]}
  OBVIOUS
<1>4. /\ Cardinality(S) \in Nat /\ Cardinality(T) \in Nat /\ Cardinality(T) <= Cardinality(S) + 1
      /\ T \subseteq S => Cardinality(T) <= Cardinality(S)
  <2>1. T \subseteq S \cup {pv[v]} /\ IsFiniteSet(S)
    BY <1>1, <1>3
  <2>2. QED
    BY <2>1, CountOf
<1>5. phase[v] \in {"pending", "deleted"} => T \subseteq S
  <2>1. pv[v] \notin RoomsOf(v) => RoomsOf(v) \subseteq RoomsOf(v) \ {pv[v]}
    OBVIOUS
  <2>2. phase[v] = "pending" => pv[v] \notin RoomsOf(v)
    BY DEF Control, PvSet, RoomsOf, Ids
  <2>3. phase[v] = "deleted" => pv[v] \notin RoomsOf(v)
    BY DEF Datarooms, Gone, RoomsOf
  <2>4. QED
    BY <1>3, <2>1, <2>2, <2>3
<1>6. Cardinality(S) <= strays[v] + (IF phase[v] = "pending" THEN 1 ELSE 0)
  BY <1>2, <1>3 DEF Spare
<1>7. Cardinality(T) <= strays[v] + (IF phase[v] = "deleted" THEN 0 ELSE 1)
  BY <1>1, <1>4, <1>5, <1>6
<1>8. QED
  BY <1>3, <1>7

(* The types of Controller hold in every state. *)
THEOREM TypeCorrect ==
  Spec => []TypeOK
<1>1. Control => TypeOK
  BY DEF Control
<1>2. QED
  BY <1>1, ControlHolds, PTL

(* A volume has one dataroom, and none after its deletion, whatever        *)
(* answers are lost and however often CreateVolume is retried, but for the *)
(* requests nobody waits for.                                              *)
THEOREM OneDataroomHolds ==
  Spec => []OneDataroom
<1>1. Spec => []Datarooms
  BY InitDatarooms, NextDatarooms, ControlHolds, PTL DEF Spec
<1>2. QED
  BY <1>1, DataroomsSuffice, ControlHolds, PTL
=============================================================================
