------------------------------ MODULE OrderFlow ------------------------------
(***************************************************************************)
(* From the object store to the result: the pipeline process, as OrderFeed *)
(* abstracts it, writes frames and markers into the store; the order work  *)
(* of the station worker (StationOrders) reads them.  The store is all     *)
(* they share.                                                             *)
(***************************************************************************)
EXTENDS Integers, FiniteSets

CONSTANTS Order, Known, NoOrder, Frame

ASSUME OrdersAssumption == Known \subseteq Order /\ Known # {} /\ NoOrder \notin Order

VARIABLES store, eos, doubt,
          reachable, running, open, external, processed, ready, monitor, found, looking,
          main, todo, current, requests,
          played   (* the video, played once, has ended: no process follows *)

Feed == INSTANCE OrderFeed

Orders == INSTANCE StationOrders

feedOnly == <<doubt, played>>

ordersOnly == <<reachable, running, open, external, processed, ready, monitor, found,
                looking, main, todo, current, requests>>

vars == <<store, eos, feedOnly, ordersOnly>>

TypeOK == Orders!TypeOK /\ doubt \subseteq Order /\ played \in BOOLEAN

Init == Feed!Init /\ Orders!Init /\ played = FALSE

(* The pipeline process writes until the video is over.                    *)
FeedStep ==
  /\ ~played
  /\ Feed!Next
  /\ UNCHANGED <<ordersOnly, played>>

OrdersStep ==
  /\ Orders!Station \/ Orders!Surroundings
  /\ UNCHANGED <<store, eos, feedOnly>>

(* The health thread finds the process gone at the end of the video.       *)
VideoEnds ==
  /\ ~played
  /\ Orders!WriteMissingMarkers
  /\ played' = TRUE
  /\ UNCHANGED doubt

Next == FeedStep \/ OrdersStep \/ VideoEnds

Spec == Init /\ [][Next]_vars

(* The two threads of the worker are scheduled, and every call they make   *)
(* returns.                                                                *)
Fairness ==
  /\ WF_vars(Orders!Monitor /\ UNCHANGED feedOnly)
  /\ WF_vars(Orders!Main /\ UNCHANGED feedOnly)

FairSpec == Spec /\ Fairness
-----------------------------------------------------------------------------
(* Properties.                                                             *)

AtMostOneRepeat == Orders!AtMostOneRepeat

(* What the worker reads is complete: from the moment an order is ready,   *)
(* the frames kept for it do not change under the worker, in whichever     *)
(* order the two processes move.                                           *)
StoredFor(o) == {f \in store : f[1] = o}

StableInput ==
  [][\A o \in ready \ doubt : StoredFor(o)' = StoredFor(o)]_vars

(* A marked order of orders.json is processed in the end, as long as the   *)
(* worker runs, the store answers and the circuit stays closed.            *)
MarkedProcessed ==
  <>[](reachable /\ ~open)
    => \A o \in Known : o \in eos ~> o \in processed \/ ~running
=============================================================================
