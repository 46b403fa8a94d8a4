---------------------------- MODULE MCMountTable ----------------------------
(* Values of MountTable's constants for TLC. *)
EXTENDS MountTable, TLC

CONSTANTS t1, t2

OneTarget == {t1}
TwoTargets == {t1, t2}

TargetSymmetry == Permutations(TwoTargets)
=============================================================================
