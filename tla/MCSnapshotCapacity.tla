------------------------- MODULE MCSnapshotCapacity -------------------------
(* More organizations than slots, on small sets for TLC. *)
EXTENDS SnapshotCapacity, TLC

Symmetry == Permutations(Orgs)
=============================================================================
