-------------------------- MODULE MCSnapshotRunner --------------------------
(* Two snapshot runs that overlap, on small sets for TLC. *)
EXTENDS SnapshotRunner, TLC

Symmetry == Permutations(Claims) \cup Permutations(Jobs)
=============================================================================
