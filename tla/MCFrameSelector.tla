---- MODULE MCFrameSelector ----
(* Constants small enough for TLC. *)
EXTENDS FrameSelector
====
