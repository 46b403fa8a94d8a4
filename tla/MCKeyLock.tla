----------------------------- MODULE MCKeyLock ------------------------------
(* Values of KeyLock's constants for TLC: three goroutines, two volumes. *)
EXTENDS KeyLock

CONSTANTS t1, t2, t3, vol1, vol2, e1, e2, e3

MCThreads == {t1, t2, t3}
MCKeys == {vol1, vol2}
MCEntries == {e1, e2, e3}
=============================================================================
