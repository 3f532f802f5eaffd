--------------------------- MODULE MCWaypointPlayer ---------------------------
(***************************************************************************)
(* Two points, so that what a first one leaves behind meets a second; each *)
(* leg has time for a few turns of its loop, the drive for one more.       *)
(***************************************************************************)
EXTENDS WaypointPlayer

LegTicks == <<1, 2, 1>>
=============================================================================
