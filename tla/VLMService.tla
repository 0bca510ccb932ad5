------------------------------ MODULE VLMService ------------------------------
(***************************************************************************)
(* The VLM service (take-away/src/core/vlm_service.py): run_vlm puts an    *)
(* order into the queue of its station and waits; a worker task for each   *)
(* station, started by the first call, takes the orders one by one.  The   *)
(* calls come from the HTTP API and, with RabbitMQ, from the thread of the *)
(* consumer, which has an event loop of its own (main.py) and runs it only *)
(* while it waits for an answer.  The queues are shared by the two.        *)
(***************************************************************************)
EXTENDS Integers, Sequences

CONSTANTS
  Order,
  Station,
  StationOf,  (* the station of each order                                  *)
  NoCall      (* no order                                                   *)

Loop == {"api", "consumer"}

Call == [order : Order, loop : Loop]

VARIABLES
  line,      (* _station_queues                                             *)
  started,   (* the keys of _station_workers_started                        *)
  task,      (* the worker tasks of each station, by the loop they run in   *)
  serving,   (* the call each task is working on                            *)
  bound,     (* the loop a station's asyncio.Queue has been bound to        *)
  step,      (* where each call of run_vlm is                               *)
  future,    (* its future                                                  *)
  users      (* history: the loops that have called run_vlm for a station   *)

vars == <<line, started, task, serving, bound, step, future, users>>

workerVars == <<task, serving, bound>>
callVars   == <<step, future, users>>

TypeOK ==
  /\ line \in [Station -> Seq(Call)]
  /\ started \subseteq Station
  /\ task \in [Station \X Loop -> {"none", "idle", "waiting", "busy", "dead"}]
  /\ serving \in [Station \X Loop -> Call \cup {NoCall}]
  /\ bound \in [Station -> Loop \cup {"none"}]
  /\ step \in [Call -> {"none", "put", "start", "await"}]
  /\ future \in [Call -> {"open", "good", "bad"}]
  /\ users \in [Station -> SUBSET Loop]

Init ==
  /\ line = [s \in Station |-> <<>>]
  /\ started = {}
  /\ task = [w \in Station \X Loop |-> "none"]
  /\ serving = [w \in Station \X Loop |-> NoCall]
  /\ bound = [s \in Station |-> "none"]
  /\ step = [c \in Call |-> "none"]
  /\ future = [c \in Call |-> "open"]
  /\ users = [s \in Station |-> {}]
-----------------------------------------------------------------------------
(* A loop runs one coroutine up to its next await; the consumer's loop     *)
(* runs during its call only.                                              *)
Turns(l) ==
  /\ l = "api" \/ \E c \in Call : c.loop = l /\ step[c] # "none"
  /\ \A c \in Call : c.loop = l => step[c] \in {"none", "await"}

StationFor(c) == StationOf[c.order]

(* run_vlm up to "await future" has no await that suspends it (put on an   *)
(* unbounded queue does not), but the other loop's thread goes on.         *)
Put(c) ==
  /\ step[c] = "none"
  /\ \A d \in Call : d.loop = c.loop =>
       step[d] \in IF c.loop = "api" THEN {"none", "await"} ELSE {"none"}
  /\ LET s == StationFor(c)
     IN /\ line' = [line EXCEPT ![s] = Append(@, c)]
        /\ users' = [users EXCEPT ![s] = @ \cup {c.loop}]
  /\ step' = [step EXCEPT ![c] = "put"]
  /\ UNCHANGED <<started, workerVars, future>>

(* "Start worker for this station if not already running": the test ...    *)
LooksForWorker(c) ==
  /\ step[c] = "put"
  /\ step' = [step EXCEPT ![c] = IF StationFor(c) \in started THEN "await" ELSE "start"]
  /\ UNCHANGED <<line, started, workerVars, future, users>>

(* ... and create_task on the caller's own loop.                           *)
StartsWorker(c) ==
  /\ step[c] = "start"
  /\ started' = started \cup {StationFor(c)}
  /\ task' = [task EXCEPT ![<<StationFor(c), c.loop>>] = "idle"]
  /\ step' = [step EXCEPT ![c] = "await"]
  /\ UNCHANGED <<line, serving, bound, future, users>>

(* run_vlm returns.  A future set by the other loop's thread does not wake *)
(* a loop that sleeps in select.                                           *)
Answered(c) == step[c] = "await" /\ future[c] # "open"

Returns(c) ==
  /\ Answered(c)
  /\ Turns(c.loop)
  /\ step' = [step EXCEPT ![c] = "none"]
  /\ future' = [future EXCEPT ![c] = "open"]
  /\ UNCHANGED <<line, started, workerVars, users>>

(* _vlm_worker_for_station, a task on loop l.  A get that has to wait      *)
(* binds the queue to its loop; to another loop it raises, outside of the  *)
(* try, and the task is dead.                                              *)
Waits(s, l) ==
  /\ Turns(l)
  /\ task[<<s, l>>] = "idle" /\ line[s] = <<>>
  /\ bound' = [bound EXCEPT ![s] = IF @ = "none" THEN l ELSE @]
  /\ task' = [task EXCEPT ![<<s, l>>] = IF bound'[s] = l THEN "waiting" ELSE "dead"]
  /\ UNCHANGED <<line, started, serving, callVars>>

Takes(s, l) ==
  /\ Turns(l)
  /\ task[<<s, l>>] \in {"idle", "waiting"} /\ line[s] # <<>>
  /\ task' = [task EXCEPT ![<<s, l>>] = "busy"]
  /\ serving' = [serving EXCEPT ![<<s, l>>] = Head(line[s])]
  /\ line' = [line EXCEPT ![s] = Tail(@)]
  /\ UNCHANGED <<started, bound, callVars>>

(* _run_vlm_internal comes to its end: a result is stored (ok), or the     *)
(* order is unknown, has no frames, or an exception was raised (bad).      *)
Finishes(s, l, ok) ==
  /\ Turns(l)
  /\ task[<<s, l>>] = "busy"
  /\ future' = [future EXCEPT ![serving[<<s, l>>]] = IF ok THEN "good" ELSE "bad"]
  /\ task' = [task EXCEPT ![<<s, l>>] = "idle"]
  /\ serving' = [serving EXCEPT ![<<s, l>>] = NoCall]
  /\ UNCHANGED <<line, started, bound, step, users>>
=============================================================================
