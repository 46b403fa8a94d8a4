----------------------------- MODULE MountSlot ------------------------------
(***************************************************************************)
(* What the mount pods of one volume on one node promise, whatever pods,   *)
(* Secrets and API calls it takes: at most one mount process serves the    *)
(* volume at a time, and the spool directory, which holds the writes that  *)
(* were not uploaded yet, is emptied only while no process uses it.        *)
(* MountPod implements it.                                                 *)
(***************************************************************************)
CONSTANT Uids

VARIABLES live,      \* the mount processes that run, by the pod they run in
          spool      \* the pods with files in the volume's spool directory

vars == <<live, spool>>

Init == live = {} /\ spool = {}

(* The mount process of a new pod starts, on a spool no other pod used. *)
Start(u) ==
  /\ live = {} /\ spool = {}
  /\ live' = {u}
  /\ spool' = {u}

Exit == live # {} /\ live' = {} /\ UNCHANGED spool

Clean == live = {} /\ spool' = {} /\ UNCHANGED live

Next == (\E u \in Uids : Start(u)) \/ Exit \/ Clean

Spec == Init /\ [][Next]_vars
=============================================================================
