--------------------------- MODULE MCUsageTracker ---------------------------
(***************************************************************************)
(* A configuration without a period, of which the clock makes periods of   *)
(* length two, and two with periods: one has an earlier end for the same   *)
(* start and is rolled in steps of one, the other starts in the middle of  *)
(* an estimate and reaches back over periods that are closed.  The outbox  *)
(* holds three periods and a page two.                                     *)
(***************************************************************************)
EXTENDS UsageTracker

Config(start, end, monthly, addon) ==
  [start |-> start, end |-> end, monthly |-> monthly, addon |-> addon]

MCConfigs ==
  {Config(Unknown, 0, 1, 1), Config(0, 1, 1, 0), Config(1, 4, 1, 1)}
=============================================================================
