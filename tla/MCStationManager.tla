--------------------------- MODULE MCStationManager ---------------------------
(* At most four station numbers are handed out, to pools of up to three, so *)
(* that a pool can shrink and grow past the numbers it started with.        *)
EXTENDS StationManager
=============================================================================
