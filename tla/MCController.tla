---------------------------- MODULE MCController ----------------------------
(* Values of Controller's constants for TLC. *)
EXTENDS Controller, TLC

CONSTANTS v1, v2, s1, s2

OneVolume == {v1}
TwoVolumes == {v1, v2}
TwoServers == {s1, s2}

(* A floor of 2, so that a request of 1 is rounded up. *)
AskOfOne == (v1 :> [required |-> 1, limit |-> 3])
=============================================================================
