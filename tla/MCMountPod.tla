----------------------------- MODULE MCMountPod -----------------------------
(* Values of MountPod's constants for TLC. *)
EXTENDS MountPod, TLC

CONSTANTS h1, h2, u1, u2, u3, u4

OneHash == {h1}
TwoHashes == {h1, h2}
TwoUids == {u1, u2}
ThreeUids == {u1, u2, u3}
FourUids == {u1, u2, u3, u4}

UidSymmetry == Permutations(ThreeUids)
FourUidSymmetry == Permutations(FourUids)
=============================================================================
