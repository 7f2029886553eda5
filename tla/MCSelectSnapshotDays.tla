----------------------- MODULE MCSelectSnapshotDays -----------------------
(* Every graph on four days, with every set of dirty and incomplete days. *)
EXTENDS SelectSnapshotDays

FourDays == 1..4
=============================================================================
