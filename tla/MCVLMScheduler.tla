---------------------------- MODULE MCVLMScheduler ----------------------------
(***************************************************************************)
(* A station that asks, times out and asks again next to one that asks     *)
(* once; batches of two, a work queue of one: the batcher blocks on a full *)
(* work queue while the other batches are with the two workers.            *)
(***************************************************************************)
EXTENDS VLMScheduler

CONSTANTS a, b

Requests == [s \in Station |-> IF s = a THEN 2 ELSE 1]
=============================================================================
