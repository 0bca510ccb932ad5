-------------------------- MODULE MCStationPipeline --------------------------
(***************************************************************************)
(* A small worker: two process ids (a tracked pipeline, and one that       *)
(* shutdown can leave behind), a breaker that opens at the second failure, *)
(* restarts counted to 2 (to 3 where recovery is asked for) and two        *)
(* attempts at the first synchronisation.                                  *)
(***************************************************************************)
EXTENDS StationPipeline
=============================================================================
