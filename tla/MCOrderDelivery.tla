---- MODULE MCOrderDelivery ----
(* Constants small enough for TLC. *)
EXTENDS OrderDelivery

CONSTANTS a, b, desk

Stations == [o \in {a, b} |-> desk]
====
