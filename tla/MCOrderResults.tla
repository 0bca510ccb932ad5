---------------------------- MODULE MCOrderResults ----------------------------
(* Two threads that report a result each of one order; three videos under  *)
(* two ids, of which two are listed; one request to clear, two restarts,   *)
(* and one failure to write or delete the file.                            *)
EXTENDS OrderResults

CONSTANTS w1, w2, o1, v1, v2

Symmetry == Permutations(Writer) \cup Permutations(VideoId)
=============================================================================
