---- MODULE MCOrderFlow ----
(* Constants small enough for TLC. *)
EXTENDS OrderFlow

CONSTANTS a, x, f, g
====
