---------------------------- MODULE MCNodeVolume ----------------------------
(* Values of NodeVolume's constants for TLC. *)
EXTENDS NodeVolume

CONSTANTS c1, c2

OneConfig == {c1}
TwoConfigs == {c1, c2}
=============================================================================
