---------------------------- MODULE StationManager ----------------------------
(***************************************************************************)
(* The pool of station worker processes kept by                            *)
(* take-away/src/parallel/station_manager.py, and how a worker process     *)
(* (station_worker.py) answers to it: the control queue all workers share, *)
(* SIGTERM, and SIGKILL.  The manager's thread is driven by                *)
(* benchmark_runner.py, which calls set_station_count and then stop(), or  *)
(* by main.py, which blocks in start() until a signal.                     *)
(***************************************************************************)
EXTENDS Integers, Sequences, FiniteSets, FiniteSetsExt

CONSTANTS
  MaxId,       (* bound: station numbers handed out                          *)
  PreCreated   (* max_stations: response queues created for 1..PreCreated    *)

ASSUME ManagerAssumption == MaxId \in Nat \ {0} /\ PreCreated \in Nat \ {0}

Id == 1..MaxId

VARIABLES
  service,   (* run by main.py, or by the benchmark runner (never changes)   *)
  running,   (* _running of the manager                                      *)
  pc,        (* where the manager's thread is                                *)
  goal,      (* the station count being set                                  *)
  target,    (* the worker _stop_worker is stopping, 0 for none              *)
  pool,      (* the station numbers in self.workers                          *)
  next,      (* _next_station_id                                             *)
  proc,      (* the worker process of each station number                    *)
  told,      (* workers whose signal handler has cleared _running            *)
  control    (* control_queue: the station number each message is for        *)

poolVars == <<service, running, pc, goal, target, pool, next, proc, told, control>>

managerVars == <<service, running, pc, goal, target, pool, next>>

ProcState == {"none", "init", "starting", "loop", "busy", "cleanup", "dead"}

Alive(i) == proc[i] \notin {"none", "dead"}

PoolTypeOK ==
  /\ service \in BOOLEAN
  /\ running \in BOOLEAN
  /\ pc \in {"ready", "resize", "join", "terminated", "killed", "monitor", "pause",
             "exiting", "stopped"}
  /\ goal \in 0..PreCreated
  /\ target \in 0..MaxId
  /\ pool \in SUBSET Id
  /\ next \in 1..(MaxId + 1)
  /\ proc \in [Id -> ProcState]
  /\ told \in SUBSET Id
  /\ control \in Seq(Id)

PoolInit ==
  /\ service \in BOOLEAN
  /\ running = FALSE
  /\ pc = "ready"
  /\ goal = 0
  /\ target = 0
  /\ pool = {}
  /\ next = 1
  /\ proc = [i \in Id |-> "none"]
  /\ told = {}
  /\ control = <<>>

-----------------------------------------------------------------------------
(* The manager.                                                            *)

(* set_station_count(n) for a count within max_stations; main.py's         *)
(* initial_stations is the same loop.                                      *)
SetStationCount ==
  /\ pc = "ready"
  /\ service => next = 1
  /\ \E n \in 0..PreCreated :
       /\ n <= Cardinality(pool) + (MaxId + 1 - next)
       /\ goal' = n
  /\ pc' = "resize"
  /\ UNCHANGED <<service, running, target, pool, next, proc, told, control>>

(* Numbering by the size of the pool would hand a number out again.        *)
StartWorkerByCount ==
  /\ pc = "resize"
  /\ Cardinality(pool) < goal
  /\ LET i == Cardinality(pool) + 1 IN
       /\ proc' = [proc EXCEPT ![i] = "init"]
       /\ pool' = pool \cup {i}
       /\ next' = IF next = MaxId THEN MaxId ELSE next + 1
  /\ UNCHANGED <<service, running, pc, goal, target, told, control>>

StartWorker ==
  /\ pc = "resize"
  /\ Cardinality(pool) < goal
  /\ proc' = [proc EXCEPT ![next] = "init"]
  /\ pool' = pool \cup {next}
  /\ next' = next + 1
  /\ UNCHANGED <<service, running, pc, goal, target, told, control>>

(* _stop_worker() picks the oldest worker and puts a message for it.       *)
StopOldest ==
  /\ pc = "resize"
  /\ Cardinality(pool) > goal
  /\ target' = Min(pool)
  /\ control' = Append(control, Min(pool))
  /\ pc' = "join"
  /\ UNCHANGED <<service, running, goal, pool, next, proc, told>>

(* A join that times out is followed by the next, stronger, request.       *)
Terminate ==
  /\ pc = "join"
  /\ Alive(target)
  /\ told' = IF proc[target] = "init" THEN told ELSE told \cup {target}
  /\ pc' = "terminated"
  /\ UNCHANGED <<service, running, goal, target, pool, next, proc, control>>

(* A manager that gives up on a worker that ignores SIGTERM.               *)
Forget ==
  /\ pc = "terminated"
  /\ Alive(target)
  /\ proc' = proc
  /\ pc' = "killed"
  /\ UNCHANGED <<service, running, goal, target, pool, next, told, control>>

(* A manager that kills only a worker that has noticed SIGTERM.            *)
KillTold ==
  /\ pc = "terminated"
  /\ Alive(target) /\ target \in told
  /\ proc' = [proc EXCEPT ![target] = "dead"]
  /\ pc' = "killed"
  /\ UNCHANGED <<service, running, goal, target, pool, next, told, control>>

Kill ==
  /\ pc = "terminated"
  /\ Alive(target)
  /\ proc' = [proc EXCEPT ![target] = "dead"]
  /\ pc' = "killed"
  /\ UNCHANGED <<service, running, goal, target, pool, next, told, control>>

(* join() returns: the worker leaves the pool.                             *)
Joined ==
  /\ pc \in {"join", "terminated", "killed"}
  /\ pc = "killed" \/ ~Alive(target)
  /\ pool' = pool \ {target}
  /\ target' = 0
  /\ pc' = "resize"
  /\ UNCHANGED <<service, running, goal, next, proc, told, control>>

Resized ==
  /\ pc = "resize"
  /\ Cardinality(pool) = goal
  /\ pc' = IF service THEN "monitor" ELSE "ready"
  /\ running' = service
  /\ UNCHANGED <<service, goal, target, pool, next, proc, told, control>>

(* stop() of a manager that is not _running returns at once.  The          *)
(* benchmark never calls start(); in main.py the signal handler has        *)
(* cleared _running before start() gets to its finally.                    *)
BenchmarkStop ==
  /\ ~service
  /\ pc = "ready"
  /\ pc' = "stopped"
  /\ UNCHANGED <<service, running, goal, target, pool, next, proc, told, control>>

MonitorEnds ==
  /\ pc = "monitor"
  /\ ~running
  /\ pc' = "pause"
  /\ UNCHANGED <<service, running, goal, target, pool, next, proc, told, control>>

(* main.py installs its own handler only after start() has returned: the   *)
(* first signal is the manager's, the next one main.py's.                  *)
FirstSignal ==
  /\ pc = "monitor"
  /\ running
  /\ running' = FALSE
  /\ UNCHANGED <<service, pc, goal, target, pool, next, proc, told, control>>

SecondSignal ==
  /\ pc = "pause"
  /\ pc' = "exiting"
  /\ UNCHANGED <<service, running, goal, target, pool, next, proc, told, control>>

(* The interpreter joins the worker processes, which are not daemons.      *)
Exit ==
  /\ pc = "exiting"
  /\ \A i \in Id : ~Alive(i)
  /\ pc' = "stopped"
  /\ UNCHANGED <<service, running, goal, target, pool, next, proc, told, control>>

-----------------------------------------------------------------------------
(* A worker process: start_worker_process and StationWorker.run.           *)

Move(i, from, to) ==
  /\ proc[i] \in from
  /\ proc' = [proc EXCEPT ![i] = to]
  /\ UNCHANGED <<managerVars, told, control>>

(* _running is set, after the handlers are installed: a SIGTERM that came  *)
(* before is forgotten.                                                    *)
Initialised(i) == Move(i, {"init"}, "starting")

(* The stream is there and the pipeline starts, or three waits were in     *)
(* vain and run() returns.                                                 *)
Started(i) == Move(i, {"starting"}, "loop")

NoStream(i) == Move(i, {"starting"}, "cleanup")

(* Orders and the circuit breaker keep the main thread away from the       *)
(* control queue for longer than the manager waits.                        *)
Work(i) == i \notin told /\ Move(i, {"loop"}, "busy")

WorkDone(i) == Move(i, {"busy"}, "loop")

SeesSignal(i) == i \in told /\ Move(i, {"loop"}, "cleanup")

(* _check_shutdown_signal takes the head of the queue, whoever it is for.  *)
Poll(i) ==
  /\ proc[i] = "loop"
  /\ i \notin told
  /\ control # <<>>
  /\ control' = Tail(control)
  /\ proc' = IF Head(control) = i THEN [proc EXCEPT ![i] = "cleanup"] ELSE proc
  /\ UNCHANGED <<managerVars, told>>

CleanUp(i) == Move(i, {"cleanup"}, "dead")

(* The process is killed from outside; the manager is not told.            *)
Crash(i) == Alive(i) /\ Move(i, ProcState, "dead")

-----------------------------------------------------------------------------
Manager ==
  \/ StartWorker \/ StopOldest \/ Terminate \/ Kill \/ Joined \/ Resized
  \/ MonitorEnds \/ Exit

WorkerStep(i) ==
  \/ Initialised(i) \/ Started(i) \/ NoStream(i)
  \/ Work(i) \/ WorkDone(i) \/ SeesSignal(i) \/ Poll(i) \/ CleanUp(i)

PoolNext ==
  \/ Manager
  \/ SetStationCount \/ BenchmarkStop \/ FirstSignal \/ SecondSignal
  \/ \E i \in Id : WorkerStep(i) \/ Crash(i)

PoolSpec == PoolInit /\ [][PoolNext]_poolVars

(* The processes are scheduled; nothing is assumed of the callers.         *)
PoolFairSpec ==
  /\ PoolSpec
  /\ WF_poolVars(Manager)
  /\ \A i \in Id : WF_poolVars(WorkerStep(i))

-----------------------------------------------------------------------------
(* Properties.                                                             *)

(* A process the manager has dropped from the pool is dead: a stopped      *)
(* station never goes on working next to its replacement.                  *)
NoStray == \A i \in Id : Alive(i) => i \in pool

(* A station number is used for one process only, so that no message,      *)
(* result or response queue of an old worker reaches a new one.            *)
NumbersAreFresh ==
  [][\A i \in Id : proc[i] # "none" => proc'[i] # "init" \/ proc[i] = "init"]_poolVars

(* set_station_count returns, whatever the worker it stops is doing.       *)
ResizeReturns == pc \in {"resize", "join", "terminated", "killed"} ~> pc \in {"ready", "monitor"}
=============================================================================
