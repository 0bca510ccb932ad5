--------------------------- MODULE BenchmarkService ---------------------------
(***************************************************************************)
(* The benchmark of dine-in: BenchmarkService with its workers and its     *)
(* scaling monitor (dine-in/src/services/benchmark_service.py), and the    *)
(* requests that start and stop it (dine-in/src/api.py), which keep the    *)
(* one instance in the global _benchmark_service.  Everything runs on one  *)
(* event loop: an action is what a task or a request does from one await   *)
(* to the next, and a task that never awaits stops all others.             *)
(***************************************************************************)
EXTENDS Integers, FiniteSets, FiniteSetsExt

CONSTANTS
  MaxServices,  (* bound: instances created, one per benchmark started       *)
  MaxTasks,     (* bound: worker numbers of one instance                     *)
  Caller,       (* stop requests that can be under way at a time             *)
  Initial, Least, Most,  (* initial_workers, min_workers, max_workers        *)
  NoService     (* the None of _benchmark_service                            *)

(* config.py takes the three numbers from the environment unchecked; the   *)
(* defaults, 1, 1 and 10, are ordered like this.                           *)
ASSUME BenchmarkAssumption ==
  /\ MaxServices \in Nat \ {0} /\ MaxTasks \in Nat
  /\ Initial \in Nat /\ Least \in Nat /\ Most \in Nat
  /\ Least <= Initial /\ Initial <= Most /\ Initial <= MaxTasks
  /\ NoService \notin 1..MaxServices

Service == 1..MaxServices

Worker == 1..MaxTasks

VARIABLES
  made,      (* instances created                                            *)
  held,      (* _benchmark_service                                           *)
  paired,    (* is there an order for one of the test images?                *)
  told,      (* should_stop                                                  *)
  active,    (* active_workers: numbers, appended in increasing order        *)
  count,     (* worker_id_counter                                            *)
  task,      (* where each worker's task is                                  *)
  doomed,    (* tasks whose cancellation has been requested                  *)
  monitor,   (* where _monitor_and_scale is                                  *)
  leaving,   (* the worker that _remove_worker awaits                        *)
  measured,  (* is there a validation to compute metrics from?               *)
  waiting,   (* the instance whose workers a stop request awaits             *)
  gathered,  (* those workers                                                *)
  crossed    (* history: two stop requests were under way at once            *)

workerVars == <<task, doomed>>

scalingVars == <<active, count, monitor, leaving>>

requestVars == <<made, held, paired, told, waiting, gathered, crossed>>

benchmarkVars == <<workerVars, scalingVars, requestVars, measured>>

TaskState == {"none", "new", "calling", "pausing", "spinning", "done"}

MonitorState == {"none", "queued", "asleep", "removing", "done"}

BenchmarkTypeOK ==
  /\ made \in 0..MaxServices /\ held \in (1..made) \cup {NoService}
  /\ paired \in [Service -> BOOLEAN] /\ told \in [Service -> BOOLEAN]
  /\ active \in [Service -> SUBSET Worker] /\ count \in [Service -> 0..MaxTasks]
  /\ task \in [Service \X Worker -> TaskState] /\ doomed \in SUBSET (Service \X Worker)
  /\ monitor \in [Service -> MonitorState] /\ leaving \in [Service -> 0..MaxTasks]
  /\ measured \in [Service -> BOOLEAN]
  /\ waiting \in [Caller -> Service \cup {NoService}]
  /\ gathered \in [Caller -> SUBSET Worker]
  /\ crossed \in BOOLEAN

BenchmarkInit ==
  /\ made = 0 /\ held = NoService
  /\ paired = [s \in Service |-> FALSE] /\ told = [s \in Service |-> FALSE]
  /\ active = [s \in Service |-> {}] /\ count = [s \in Service |-> 0]
  /\ task = [p \in Service \X Worker |-> "none"] /\ doomed = {}
  /\ monitor = [s \in Service |-> "none"] /\ leaving = [s \in Service |-> 0]
  /\ measured = [s \in Service |-> FALSE]
  /\ waiting = [c \in Caller |-> NoService] /\ gathered = [c \in Caller |-> {}]
  /\ crossed = FALSE

Ended(s, w) == task[<<s, w>>] \in {"none", "done"}

Blocked == \E p \in Service \X Worker : task[p] = "spinning"

---------------------------------------------------------------------------
(* The workers.  Which image is validated, and whether that succeeds,      *)
(* makes no difference to anyone but the metrics.                          *)

Goes(s, w, where) == task' = [task EXCEPT ![<<s, w>>] = where]

May(s, w) == ~Blocked /\ <<s, w>> \notin doomed

(* The top of the loops.  Without an image that has an order, the inner    *)
(* loop is empty and the outer one awaits nothing.                         *)
Begins(s, w) ==
  /\ May(s, w) /\ task[<<s, w>>] = "new"
  /\ Goes(s, w, IF told[s] THEN "done" ELSE IF paired[s] THEN "calling" ELSE "spinning")
  /\ UNCHANGED <<doomed, scalingVars, requestVars, measured>>

(* record_validation, of a success or a failure: from now on there are     *)
(* metrics.                                                                *)
Records(s) == measured' = [measured EXCEPT ![s] = TRUE]

Validated(s, w) ==
  /\ May(s, w) /\ task[<<s, w>>] = "calling"
  /\ Goes(s, w, "pausing") /\ Records(s)
  /\ UNCHANGED <<doomed, scalingVars, requestVars>>

Continues(s, w) ==
  /\ May(s, w) /\ task[<<s, w>>] = "pausing"
  /\ Goes(s, w, IF told[s] THEN "done" ELSE "calling")
  /\ UNCHANGED <<doomed, scalingVars, requestVars, measured>>

(* CancelledError, thrown at the await or before the first step.           *)
Cancelled(s, w) ==
  /\ ~Blocked /\ <<s, w>> \in doomed
  /\ doomed' = doomed \ {<<s, w>>} /\ Goes(s, w, "done")
  /\ UNCHANGED <<scalingVars, requestVars, measured>>

---------------------------------------------------------------------------
(* The monitor.                                                            *)

(* A monitor whose loop never looks at should_stop.                        *)
NextRoundForever(s) == monitor' = [monitor EXCEPT ![s] = "asleep"]

(* The monitor's loop looks at should_stop only between two rounds.        *)
NextRound(s) == monitor' = [monitor EXCEPT ![s] = IF told[s] THEN "done" ELSE "asleep"]

(* The end of the sleep; should_stop is not looked at before scaling.      *)
Wakes(s) == ~Blocked /\ monitor[s] = "asleep"

MonitorRests(s) == Wakes(s) /\ NextRound(s) /\ UNCHANGED <<active, count, leaving, workerVars>>

(* AutoScaler: latency, load and the 30 s between two changes are what they *)
(* happen to be, so that with metrics to go by it may want more workers,   *)
(* fewer, or neither; the size of the pool decides.                        *)
MayScale(s) == Wakes(s) /\ measured[s]

(* A monitor that takes the limit for one more than it is.                 *)
ScaleUpBeyond(s) ==
  /\ MayScale(s) /\ count[s] < MaxTasks /\ Cardinality(active[s]) <= Most
  /\ count' = [count EXCEPT ![s] = @ + 1] /\ active' = [active EXCEPT ![s] = @ \cup {count'[s]}]
  /\ Goes(s, count'[s], "new") /\ NextRound(s)
  /\ UNCHANGED <<leaving, doomed>>

ScaleUp(s) ==
  /\ MayScale(s) /\ count[s] < MaxTasks /\ Cardinality(active[s]) < Most
  /\ count' = [count EXCEPT ![s] = @ + 1] /\ active' = [active EXCEPT ![s] = @ \cup {count'[s]}]
  /\ Goes(s, count'[s], "new") /\ NextRound(s)
  /\ UNCHANGED <<leaving, doomed>>

(* The worker added last is taken off the list, cancelled and awaited.     *)
ScaleDown(s) ==
  /\ MayScale(s) /\ Cardinality(active[s]) > Least
  /\ LET w == Max(active[s]) IN
       /\ active' = [active EXCEPT ![s] = @ \ {w}] /\ leaving' = [leaving EXCEPT ![s] = w]
       /\ doomed' = IF Ended(s, w) THEN doomed ELSE doomed \cup {<<s, w>>}
  /\ monitor' = [monitor EXCEPT ![s] = "removing"]
  /\ UNCHANGED <<count, task>>

Removed(s) ==
  /\ ~Blocked /\ monitor[s] = "removing" /\ Ended(s, leaving[s])
  /\ leaving' = [leaving EXCEPT ![s] = 0] /\ NextRound(s)
  /\ UNCHANGED <<active, count, workerVars>>

(* start(), run by the server once the request that created the instance   *)
(* has been answered; the instance may have been stopped by then.          *)
Starts(s) ==
  /\ ~Blocked /\ monitor[s] = "queued"
  /\ count' = [count EXCEPT ![s] = Initial] /\ active' = [active EXCEPT ![s] = 1..Initial]
  /\ task' = [p \in Service \X Worker |-> IF p[1] = s /\ p[2] <= Initial THEN "new" ELSE task[p]]
  /\ NextRound(s)
  /\ UNCHANGED <<leaving, doomed>>

---------------------------------------------------------------------------
(* The requests.                                                           *)

(* A start that looks only at whether the last benchmark was told to stop. *)
StartBenchmarkUnlessRunning ==
  /\ ~Blocked /\ (\A s \in {held} \ {NoService} : told[s]) /\ made < MaxServices
  /\ made' = made + 1 /\ held' = made'
  /\ monitor' = [monitor EXCEPT ![made'] = "queued"]
  /\ \E p \in BOOLEAN : paired' = [paired EXCEPT ![made'] = p]
  /\ UNCHANGED <<active, count, leaving, workerVars, told, waiting, gathered, crossed>>

(* POST /api/benchmark/start; there are images, but perhaps no orders.     *)
StartBenchmark ==
  /\ ~Blocked /\ held = NoService /\ made < MaxServices
  /\ made' = made + 1 /\ held' = made'
  /\ monitor' = [monitor EXCEPT ![made'] = "queued"]
  /\ \E p \in BOOLEAN : paired' = [paired EXCEPT ![made'] = p]
  /\ UNCHANGED <<active, count, leaving, workerVars, told, waiting, gathered, crossed>>

(* POST /api/benchmark/stop: stop() tells and cancels the workers on the   *)
(* list, and awaits them; with none on the list it does not wait.          *)
StopBenchmark(c) ==
  /\ ~Blocked /\ waiting[c] = NoService /\ held # NoService
  /\ told' = [told EXCEPT ![held] = TRUE]
  /\ doomed' = doomed \cup {<<held, w>> : w \in {v \in active[held] : ~Ended(held, v)}}
  /\ IF active[held] = {}
     THEN held' = NoService /\ UNCHANGED <<waiting, gathered>>
     ELSE /\ waiting' = [waiting EXCEPT ![c] = held]
          /\ gathered' = [gathered EXCEPT ![c] = active[held]]
          /\ UNCHANGED held
  /\ crossed' = (crossed \/ \E d \in Caller : waiting[d] # NoService)
  /\ UNCHANGED <<made, paired, task, scalingVars>>

(* The report is taken of, and None assigned to, the _benchmark_service of *)
(* now: when it is None already the request fails and leaves it so.        *)
StopReturns(c) ==
  /\ ~Blocked /\ waiting[c] # NoService
  /\ \A w \in gathered[c] : Ended(waiting[c], w)
  /\ active' = [active EXCEPT ![waiting[c]] = {}] /\ held' = NoService
  /\ waiting' = [waiting EXCEPT ![c] = NoService] /\ gathered' = [gathered EXCEPT ![c] = {}]
  /\ UNCHANGED <<made, paired, told, crossed, count, monitor, leaving, workerVars>>

---------------------------------------------------------------------------
Works(s, w) == Begins(s, w) \/ Validated(s, w) \/ Continues(s, w) \/ Cancelled(s, w)

Monitors(s) ==
  /\ MonitorRests(s) \/ ScaleUp(s) \/ ScaleDown(s) \/ Removed(s) \/ Starts(s)
  /\ UNCHANGED <<requestVars, measured>>

BenchmarkNext ==
  \/ \E s \in Service, w \in Worker : Works(s, w)
  \/ \E s \in Service : Monitors(s)
  \/ StartBenchmark /\ UNCHANGED measured
  \/ \E c \in Caller : (StopBenchmark(c) \/ StopReturns(c)) /\ UNCHANGED measured

BenchmarkSpec == BenchmarkInit /\ [][BenchmarkNext]_benchmarkVars

(* The loop runs every task that is ready; a validation ends, at the       *)
(* latest with the time-outs of its clients; sleeps end.  Nobody need      *)
(* start or stop a benchmark.                                              *)
FairSpec ==
  /\ BenchmarkSpec
  /\ \A s \in Service : WF_benchmarkVars(Monitors(s)) /\ \A w \in Worker : WF_benchmarkVars(Works(s, w))
  /\ \A c \in Caller : WF_benchmarkVars(StopReturns(c) /\ UNCHANGED measured)

---------------------------------------------------------------------------
Running(s) == {w \in Worker : ~Ended(s, w)}

(* Until it is told to stop, a benchmark that has started keeps at least   *)
(* min_workers and at most max_workers workers, the one being removed      *)
(* included: the monitor does not add one while it waits for one to go     *)
(* (_remove_worker), and no worker ends unasked.                           *)
PoolBounded ==
  \A s \in Service : monitor[s] \notin {"none", "queued"} /\ ~told[s] =>
    Cardinality(Running(s)) \in Least..Most

(* A benchmark that has not been told to stop is the one a stop request    *)
(* reaches ("Benchmark already running", api.py 779), as long as stop      *)
(* requests do not overlap.                                                *)
NoOrphan == ~crossed => \A s \in 1..made : told[s] \/ held = s

Quiet(s) == monitor[s] = "done" /\ Running(s) = {}

(* A benchmark told to stop comes to rest, also when it had not started    *)
(* yet, when the monitor adds a worker after the stop, or waits for one to *)
(* go; and the request returns.  The exception is a loop that has been     *)
(* taken over by a worker without images to validate.                      *)
StopEnds ==
  /\ \A s \in Service : told[s] ~> Quiet(s) \/ Blocked
  /\ \A c \in Caller : waiting[c] # NoService ~> waiting[c] = NoService \/ Blocked
=============================================================================
