------------------------------ MODULE OrderFeed ------------------------------
(***************************************************************************)
(* What the pipeline process promises to the readers of the object store:  *)
(* an order's marker comes after its frames.  No frame is stored under an  *)
(* order that has its marker, except under the orders in doubt.            *)
(* FramePipeline implements it (its property KeepsFeed); OrderFlow runs    *)
(* the station's order work on top of it.                                  *)
(***************************************************************************)
CONSTANTS Order, Frame

VARIABLES
  store,  (* the stored frames, each with its order                         *)
  eos,    (* the orders with a marker                                       *)
  doubt   (* the orders nothing is promised of                              *)

vars == <<store, eos, doubt>>

Init == store = {} /\ eos = {} /\ doubt = {}

(* A frame arrives; it may replace an old one.                             *)
Write(o) ==
  /\ o \in eos => o \in doubt
  /\ \E f, old \in Frame : store' = (store \ {<<o, old>>}) \cup {<<o, f>>}
  /\ UNCHANGED <<eos, doubt>>

Mark(o) ==
  /\ eos' = eos \cup {o}
  /\ UNCHANGED <<store, doubt>>

Doubt ==
  /\ doubt' \in SUBSET Order
  /\ UNCHANGED <<store, eos>>

Next == Doubt \/ \E o \in Order : Write(o) \/ Mark(o)

Spec == Init /\ [][Next]_vars
=============================================================================
