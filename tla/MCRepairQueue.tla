---------------------------- MODULE MCRepairQueue ---------------------------
(* Values of RepairQueue's constants for TLC. *)
EXTENDS RepairQueue

CONSTANTS v1, v2, w1, w2

OneVolume == {v1}
TwoVolumes == {v1, v2}
OneWorker == {w1}
TwoWorkers == {w1, w2}
=============================================================================
