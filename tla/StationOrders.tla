---------------------------- MODULE StationOrders ----------------------------
(***************************************************************************)
(* The order work of a station worker                                      *)
(* (take-away/src/parallel/station_worker.py): the frame monitor thread    *)
(* finds orders with an end-of-order marker in the object store, the main  *)
(* loop processes them.  The threads share _active_orders and              *)
(* _processed_orders without a lock, so every access is a step of its own. *)
(***************************************************************************)
EXTENDS Integers, FiniteSets

CONSTANTS
  Order,     (* order numbers that occur in the store                       *)
  Known,     (* the orders of orders.json                                   *)
  NoOrder,
  Frame      (* what the store keeps for an order: an opaque value per frame *)

VARIABLES
  store,      (* pairs of an order and a frame: the frames in MinIO         *)
  eos,        (* the orders with an __EOS__ marker                          *)
  reachable,  (* MinIO answers                                              *)
  running,    (* _running                                                   *)
  open,       (* the pipeline's circuit is open: no order is processed      *)
  external,   (* EXTERNAL_FRAME_SELECTOR (never changes)                    *)
  processed,  (* _processed_orders                                          *)
  ready,      (* the keys of _active_orders, all of them 'ready'            *)
  monitor,    (* where the monitor is                                       *)
  found,      (* orders of its scan still to look at                        *)
  looking,    (* the one it looks at                                        *)
  main,       (* where the main loop is                                     *)
  todo,       (* orders of its snapshot of _active_orders still to process  *)
  current,    (* the one it processes                                       *)
  requests    (* history: requests made to the VLM for each order (3: more) *)

monitorVars == <<monitor, found, looking>>
mainVars    == <<main, todo, current>>
stationVars == <<running, open, external, reachable>>
storeVars   == <<store, eos>>

vars == <<storeVars, stationVars, processed, ready, monitorVars, mainVars, requests>>

TypeOK ==
  /\ store \subseteq Order \X Frame
  /\ eos \subseteq Order
  /\ reachable \in BOOLEAN /\ running \in BOOLEAN /\ open \in BOOLEAN
  /\ external \in BOOLEAN
  /\ processed \subseteq Order
  /\ ready \subseteq Order
  /\ monitor \in {"scan", "look", "unseen", "stopped"}
  /\ found \subseteq Order
  /\ looking \in Order \cup {NoOrder}
  /\ main \in {"loop", "next", "load", "ask", "answered", "done", "drop", "stopped"}
  /\ todo \subseteq Order
  /\ current \in ready \cup {NoOrder}     (* nobody removes it in the meantime *)
  /\ requests \in [Order -> 0..3]

Init ==
  /\ store = {}
  /\ eos = {}
  /\ reachable \in BOOLEAN
  /\ running = TRUE
  /\ open \in BOOLEAN
  /\ external \in BOOLEAN
  /\ processed = {}
  /\ ready = {}
  /\ monitor = "scan" /\ found = {} /\ looking = NoOrder
  /\ main = "loop" /\ todo = {} /\ current = NoOrder
  /\ requests = [o \in Order |-> 0]

-----------------------------------------------------------------------------
(* _frame_monitor_loop.                                                    *)

(* Whether the store has a frame of order o.                               *)
HasFrames(o) == \E f \in Frame : <<o, f>> \in store

(* _scan_minio_for_completed_orders; an error of the store is an empty     *)
(* scan (not a directory of frames without a marker, and the monitor       *)
(* survives the error).                                                    *)
ScanDirectories ==
  /\ monitor = "scan" /\ running
  /\ found' = IF reachable THEN {o \in Order : o \in eos \/ HasFrames(o)}
              ELSE {}
  /\ monitor' = "look"
  /\ UNCHANGED <<storeVars, stationVars, processed, ready, looking, mainVars, requests>>

ScanDies ==
  /\ monitor = "scan" /\ running
  /\ found' = IF reachable THEN eos ELSE {}
  /\ monitor' = IF reachable THEN "look" ELSE "stopped"
  /\ UNCHANGED <<storeVars, stationVars, processed, ready, looking, mainVars, requests>>

Scan ==
  /\ monitor = "scan" /\ running
  /\ found' = IF reachable THEN eos ELSE {}
  /\ monitor' = "look"
  /\ UNCHANGED <<storeVars, stationVars, processed, ready, looking, mainVars, requests>>

(* "order_id not in self._processed_orders ..."                            *)
LookProcessed(o) ==
  /\ monitor = "look" /\ o \in found
  /\ found' = found \ {o}
  /\ IF o \in processed THEN UNCHANGED <<monitor, looking>>
     ELSE monitor' = "unseen" /\ looking' = o
  /\ UNCHANGED <<storeVars, stationVars, processed, ready, mainVars, requests>>

(* "... and order_id not in self._active_orders": an order that is not in  *)
(* orders.json is taken for processed, another one becomes ready.          *)
LookActive ==
  /\ monitor = "unseen"
  /\ IF looking \in ready THEN UNCHANGED <<processed, ready>>
     ELSE IF looking \in Known THEN ready' = ready \cup {looking} /\ UNCHANGED processed
     ELSE processed' = processed \cup {looking} /\ UNCHANGED ready
  /\ monitor' = "look" /\ looking' = NoOrder
  /\ UNCHANGED <<storeVars, stationVars, found, mainVars, requests>>

Looked ==
  /\ monitor = "look" /\ found = {}
  /\ monitor' = "scan"
  /\ UNCHANGED <<storeVars, stationVars, processed, ready, found, looking, mainVars, requests>>

MonitorStops ==
  /\ monitor = "scan" /\ ~running
  /\ monitor' = "stopped"
  /\ UNCHANGED <<storeVars, stationVars, processed, ready, found, looking, mainVars, requests>>

Monitor == Scan \/ (\E o \in Order : LookProcessed(o)) \/ LookActive \/ Looked \/ MonitorStops

-----------------------------------------------------------------------------
(* The main loop.  With the circuit open it goes round without looking at  *)
(* the orders.                                                             *)
Turn ==
  /\ main = "loop" /\ running /\ ~open
  /\ todo' = ready
  /\ main' = "next"
  /\ UNCHANGED <<storeVars, stationVars, processed, ready, monitorVars, current, requests>>

TurnEnds ==
  /\ main = "next" /\ todo = {}
  /\ main' = "loop"
  /\ UNCHANGED <<storeVars, stationVars, processed, ready, monitorVars, todo, current, requests>>

Stops ==
  /\ main = "loop" /\ ~running
  /\ main' = "stopped"
  /\ UNCHANGED <<storeVars, stationVars, processed, ready, monitorVars, todo, current, requests>>

(* _process_single_order: nothing to do when the frame selector service    *)
(* owns the orders (the order is in orders.json: the monitor saw to that). *)
Begin(o) ==
  /\ main = "next" /\ o \in todo
  /\ todo' = todo \ {o}
  /\ current' = o
  /\ main' = IF external THEN "done" ELSE "load"
  /\ UNCHANGED <<storeVars, stationVars, processed, ready, monitorVars, requests>>

(* _load_order_frames_from_minio: a frame that cannot be read is left out, *)
(* an error of the listing leaves none.  Without frames there is nothing   *)
(* to ask.                                                                 *)
Load ==
  /\ main = "load"
  /\ \/ HasFrames(current) /\ main' = "ask"
     \/ ~(reachable /\ HasFrames(current)) /\ main' = "done"
  /\ UNCHANGED <<storeVars, stationVars, processed, ready, monitorVars, todo, current,
                 requests>>

(* YOLO may find no frame worth sending.                                   *)
NoneSelected ==
  /\ main = "ask"
  /\ main' = "done"
  /\ UNCHANGED <<storeVars, stationVars, processed, ready, monitorVars, todo, current, requests>>

(* _request_vlm_inference (its handshake with the scheduler is the subject *)
(* of VLMScheduler).                                                       *)
Ask ==
  /\ main = "ask"
  /\ requests' = [requests EXCEPT ![current] = IF @ < 3 THEN @ + 1 ELSE 3]
  /\ main' = "answered"
  /\ UNCHANGED <<storeVars, stationVars, processed, ready, monitorVars, todo, current>>

(* The answer is validated and its result saved; or it is late, an error,  *)
(* or an exception is raised on the way: nothing is tried again.           *)
SettledOrRetried ==
  /\ main = "answered"
  /\ main' \in {"done", "drop"}
  /\ UNCHANGED <<storeVars, stationVars, processed, ready, monitorVars, todo, current,
                 requests>>

Settled ==
  /\ main = "answered"
  /\ main' = "done"
  /\ UNCHANGED <<storeVars, stationVars, processed, ready, monitorVars, todo, current,
                 requests>>

(* _process_ready_orders: _processed_orders.add (not the other way round,  *)
(* and whether or not there was an answer), ...                            *)
Done ==
  /\ main = "done"
  /\ processed' = processed \cup {current}
  /\ main' = "drop"
  /\ UNCHANGED <<storeVars, stationVars, ready, monitorVars, todo, current, requests>>

(* ... then del _active_orders.                                            *)
Drop ==
  /\ main = "drop"
  /\ ready' = ready \ {current}
  /\ current' = NoOrder
  /\ main' = "next"
  /\ UNCHANGED <<storeVars, stationVars, processed, monitorVars, todo, requests>>

Main ==
  \/ Turn \/ TurnEnds \/ Stops
  \/ \E o \in Order : Begin(o)
  \/ Load \/ NoneSelected \/ Ask \/ Settled
  \/ Done \/ Drop

-----------------------------------------------------------------------------
(* After the end of a video played once, the health thread writes the      *)
(* markers the dead pipeline process could not: for every order with       *)
(* frames, unless the store refuses one.                                   *)
OrdersWithFrames == {o \in Order : HasFrames(o)}

WriteMissingMarkers ==
  /\ running
  /\ eos' \in {eos \cup written : written \in SUBSET OrdersWithFrames}
  /\ reachable => OrdersWithFrames \subseteq eos'
  /\ UNCHANGED <<store, stationVars, processed, ready, monitorVars, mainVars, requests>>

(* The surroundings: the network, the breaker of the pipeline, a signal.   *)
StoreReachable ==
  /\ reachable' = ~reachable
  /\ UNCHANGED <<storeVars, running, open, external, processed, ready, monitorVars, mainVars,
                 requests>>

Circuit ==
  /\ open' = ~open
  /\ UNCHANGED <<storeVars, running, reachable, external, processed, ready, monitorVars,
                 mainVars, requests>>

Signal ==
  /\ running
  /\ running' = FALSE
  /\ UNCHANGED <<storeVars, reachable, open, external, processed, ready, monitorVars,
                 mainVars, requests>>

Station == Monitor \/ Main

Surroundings == StoreReachable \/ Circuit \/ Signal
-----------------------------------------------------------------------------
(* Properties.                                                             *)

(* The monitor tests two collections the main loop changes one after the   *)
(* other, so an order may be picked up again right after it was processed. *)
(* It happens once at most: no order is sent to the VLM a third time.      *)
AtMostOneRepeat == \A o \in Order : requests[o] <= 2
=============================================================================
