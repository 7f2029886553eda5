--------------------------- MODULE MCCoordinator ---------------------------
(* The coordinator with callers in any order, on small sets for TLC. *)
EXTENDS CoordinatorLifecycle, TLC

Symmetry == Permutations(Deliveries) \cup Permutations(Claims)
=============================================================================
