------------------------- MODULE ProvisionedVolume --------------------------
(***************************************************************************)
(* What the controller promises for a volume: once it is provisioned it    *)
(* has a dataroom, of a capacity that the range of its claim allows and at *)
(* least the one the PV reports, until it is released; when it is deleted, *)
(* its dataroom is gone.                                                   *)
(***************************************************************************)
EXTENDS Integers

CONSTANTS
  Volumes,
  Allowed,     \* volume -> the capacities the range of its claim allows
  NoDataroom

VARIABLES
  phase,     \* volume -> where it is in its life
  reserved,  \* volume -> the reservation of its dataroom, 0 without one
  reported   \* volume -> the capacity of its PV

vars == <<phase, reserved, reported>>

(* A dataroom without a reservation is bounded by the plan of its owner.   *)
Covers(n, m) == n # NoDataroom /\ (n = 0 \/ m <= n)

Init ==
  /\ phase = [v \in Volumes |-> "pending"]
  /\ reserved = [v \in Volumes |-> NoDataroom]
  /\ reported = [v \in Volumes |-> 0]

Others(v) ==
  \A w \in Volumes \ {v} :
    phase'[w] = phase[w] /\ reserved'[w] = reserved[w] /\ reported'[w] = reported[w]

(* The claim may be gone by the end of CreateVolume. *)
Provision(v) ==
  /\ phase[v] = "pending" /\ phase'[v] \in {"bound", "released"}
  /\ reported'[v] \in Allowed[v] /\ Covers(reserved'[v], reported'[v])

(* A reservation is only enlarged, and the PV reports no more than it.     *)
Expand(v) ==
  /\ phase[v] \in {"bound", "released"} /\ phase'[v] = phase[v]
  /\ IF reserved[v] = NoDataroom THEN reserved'[v] = NoDataroom
     ELSE reserved'[v] # NoDataroom /\ reserved'[v] >= reserved[v]
  /\ reported'[v] >= reported[v]
  /\ phase[v] = "bound" => Covers(reserved'[v], reported'[v])

Release(v) ==
  /\ phase[v] = "bound" /\ phase'[v] = "released"
  /\ reserved'[v] = reserved[v] /\ reported'[v] = reported[v]

(* The dataroom goes, at the latest when the volume is deleted. *)
Delete(v) ==
  /\ phase[v] = "released" /\ phase'[v] \in {"released", "deleted"}
  /\ reserved'[v] = NoDataroom /\ reported'[v] = reported[v]

Next ==
  \E v \in Volumes : Others(v) /\ (Provision(v) \/ Expand(v) \/ Release(v) \/ Delete(v))

Spec == Init /\ [][Next]_vars
=============================================================================
