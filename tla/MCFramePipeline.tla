---- MODULE MCFramePipeline ----
(* Constants small enough for TLC. *)
EXTENDS FramePipeline

CONSTANTS a, b, x
====
