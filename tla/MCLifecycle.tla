----------------------------- MODULE MCLifecycle -----------------------------
(***************************************************************************)
(* Small instances of Lifecycle for TLC: which commands each process runs, *)
(* and the symmetries that are sound for them.                             *)
(***************************************************************************)
EXTENDS Lifecycle, TLC

CONSTANTS p1, p2

AnyCommand == [p \in Procs |-> CommandNames]
DestroyBesideUp == [p \in Procs |-> IF p = p1 THEN {"destroy", "purge", "rebuild"} ELSE {"up"}]

VolumeSymmetry == Permutations(Volumes)
=============================================================================
