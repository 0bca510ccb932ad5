--------------------------- MODULE StationPipeline ---------------------------
(***************************************************************************)
(* The GStreamer pipeline lifecycle of one station worker process          *)
(* (take-away/src/parallel/station_worker.py).  Two threads of the worker  *)
(* act on the pipeline: "main" (run, the circuit-open handler, the         *)
(* stability check, cleanup) and "health" (the health monitor).  Both call *)
(* _safe_pipeline_restart and _terminate_pipeline_subprocess, so the steps *)
(* of those two functions are parameterised by the calling thread t.  A    *)
(* step is what runs between two lock acquisitions, sleeps or subprocess   *)
(* calls.                                                                  *)
(***************************************************************************)
EXTENDS Integers, FiniteSets

CONSTANTS
  Pid,            (* OS process ids a gst-launch pipeline can get            *)
  NoPid,          (* no subprocess: _pipeline_subprocess is None             *)
  MaxFailures,    (* circuit_breaker_max_failures                            *)
  RestartCap,     (* restart counts are counted exactly up to this bound:    *)
                  (* from there on the delay is restart_max_delay_sec        *)
  MaxSyncRetries  (* max_sync_retries of run()                               *)

ASSUME PipelineAssumption ==
  /\ NoPid \notin Pid
  /\ MaxFailures \in Nat \ {0}
  /\ RestartCap \in Nat \ {0}
  /\ MaxSyncRetries \in Nat \ {0}

VARIABLES
  state,        (* _pipeline_state                                           *)
  pc,           (* where each thread is                                      *)
  running,      (* _running                                                  *)
  child,        (* the process _pipeline_subprocess refers to                *)
  alive,        (* pipeline processes the operating system still runs        *)
  ended,        (* how the process of child ended: its poll() result         *)
  restartCount, (* _restart_count, saturated at RestartCap                   *)
  failures,     (* failure_timestamps still inside the window                *)
  breakerOpen,  (* CircuitBreakerState.is_open                               *)
  cooled,       (* the cooldown has elapsed since opened_at                  *)
  stable,       (* the stability period has elapsed since the last start     *)
  exponent,     (* the exponent of the backoff delay being slept             *)
  syncRetry,    (* sync_retry of run()                                       *)
  rtsp,         (* the RTSP server: down, up, or up and serving the stream    *)
  singlePlay    (* LOOP_COUNT # -1: the video is played once (never changes)  *)

vars == <<state, pc, running, child, alive, ended, restartCount, failures,
          breakerOpen, cooled, stable, exponent, syncRetry, rtsp, singlePlay>>

breakerVars == <<failures, breakerOpen, cooled>>
processVars == <<child, alive, ended>>
quietVars   == <<restartCount, breakerVars, stable, exponent, syncRetry, rtsp, singlePlay>>

Thread == {"main", "health"}

PipelineState == {"STOPPED", "STARTING", "RUNNING", "STALLED", "RESTARTING",
                  "CIRCUIT_OPEN", "SHUTTING_DOWN"}

RestartStep == {"restart", "enter", "record", "delay", "sleep", "spawn",
                "popen", "started"}

Step == RestartStep \cup
  {"init", "sync", "loop", "circuit", "stability", "reset", "finally",  (* main *)
   "terminate", "terminated", "leave", "exited",
   "idle", "top", "poll", "clean", "stalled", "dead"}                   (* health *)

RtspState == {"down", "server", "stream"}

TypeOK ==
  /\ state \in PipelineState
  /\ pc \in [Thread -> Step]
  /\ running \in BOOLEAN
  /\ child \in Pid \cup {NoPid}
  /\ alive \in SUBSET Pid
  /\ ended \in {"no", "expected", "failed"}
  /\ restartCount \in 0..RestartCap
  /\ failures \in 0..MaxFailures
  /\ breakerOpen \in BOOLEAN
  /\ cooled \in BOOLEAN
  /\ stable \in BOOLEAN
  /\ exponent \in -1..(RestartCap - 1)
  /\ syncRetry \in 0..MaxSyncRetries
  /\ rtsp \in RtspState
  /\ singlePlay \in BOOLEAN

Init ==
  /\ state = "STOPPED"
  /\ pc = [t \in Thread |-> IF t = "main" THEN "init" ELSE "idle"]
  /\ running = FALSE
  /\ child = NoPid
  /\ alive = {}
  /\ ended = "no"
  /\ restartCount = 0
  /\ failures = 0
  /\ breakerOpen = FALSE
  /\ cooled = FALSE
  /\ stable = FALSE
  /\ exponent = 0
  /\ syncRetry = 0
  /\ rtsp \in RtspState
  /\ singlePlay \in BOOLEAN

-----------------------------------------------------------------------------
(* Control points.                                                         *)

At(t, p) == pc[t] = p

Goto(t, p) == pc' = [pc EXCEPT ![t] = p]

(* Where _safe_pipeline_restart returns to in each of its callers.         *)
AfterRestart(t) == IF t = "main" THEN "loop" ELSE "top"

(* _start_persistent_pipeline is called by run() itself before the monitor *)
(* threads exist: there an exception leaves run() through its finally.     *)
StartingUp(t) == t = "main" /\ pc["health"] = "idle"

-----------------------------------------------------------------------------
(* _safe_pipeline_restart, run by thread t.                                *)

(* The early returns.                                                      *)
RestartRefusedIn == {"RESTARTING", "STARTING", "CIRCUIT_OPEN"}

RestartCheck(t) ==
  /\ At(t, "restart")
  /\ Goto(t, IF state \in RestartRefusedIn THEN AfterRestart(t) ELSE "enter")
  /\ UNCHANGED <<state, running, processVars, quietVars>>

(* The lock has been released since the check: entering RESTARTING is a    *)
(* second critical section.                                                *)
RestartEnter(t) ==
  /\ At(t, "enter")
  /\ state' = "RESTARTING"
  /\ restartCount' = IF restartCount < RestartCap THEN restartCount + 1
                     ELSE restartCount
  /\ Goto(t, "record")
  /\ UNCHANGED <<running, processVars, breakerVars, stable, exponent, syncRetry, rtsp, singlePlay>>

(* CircuitBreakerState.record_failure: the failures that have left the     *)
(* window are dropped (any number of them: time is abstracted), and the    *)
(* breaker opens when the rest and this one reach the threshold.           *)
TripsAtExtra(n) == n > MaxFailures

TripsAt(n) == n >= MaxFailures

RecordFailure(t) ==
  /\ At(t, "record")
  /\ \E kept \in 0..failures :
       /\ failures' = kept + 1
       /\ \/ /\ TripsAt(kept + 1)
             /\ breakerOpen' = TRUE
             /\ cooled' = FALSE
             /\ state' = "CIRCUIT_OPEN"
             /\ Goto(t, AfterRestart(t))
          \/ /\ ~TripsAt(kept + 1)
             /\ Goto(t, "delay")
             /\ UNCHANGED <<state, breakerOpen, cooled>>
  /\ UNCHANGED <<running, processVars, restartCount, stable, exponent, syncRetry, rtsp, singlePlay>>

(* delay = min(base * 2 ** (_restart_count - 1), max): the exponent is     *)
(* read now, after the increment, without a lock.                          *)
BackoffDelay(t) ==
  /\ At(t, "delay")
  /\ exponent' = restartCount - 1
  /\ Goto(t, "sleep")
  /\ UNCHANGED <<state, running, processVars, restartCount, breakerVars, stable,
                 syncRetry, rtsp, singlePlay>>

(* After the sleep, _wait_for_rtsp_stream(timeout=30) finds a server that  *)
(* answers OPTIONS, or gives up.                                           *)
ServerAnswers == rtsp # "down"

VerifyStream(t) ==
  /\ At(t, "sleep")
  /\ \/ /\ ServerAnswers
        /\ Goto(t, "spawn")
        /\ UNCHANGED state
     \/ /\ ~ServerAnswers
        /\ state' = "STOPPED"
        /\ Goto(t, AfterRestart(t))
  /\ UNCHANGED <<running, processVars, quietVars>>

-----------------------------------------------------------------------------
(* _start_persistent_pipeline, run by thread t.                            *)

EnterStarting(t) ==
  /\ At(t, "spawn")
  /\ state' = "STARTING"
  /\ Goto(t, "popen")
  /\ UNCHANGED <<running, processVars, quietVars>>

PopenSucceeds(t) ==
  /\ At(t, "popen")
  /\ \E p \in Pid \ alive :
       /\ child' = p
       /\ alive' = alive \cup {p}
  /\ ended' = "no"
  /\ stable' = FALSE
  /\ Goto(t, "started")
  /\ UNCHANGED <<state, running, restartCount, breakerVars, exponent, syncRetry, rtsp, singlePlay>>

(* The exception handler of _state_transition stores STOPPED; so does the  *)
(* handler in _safe_pipeline_restart, when that is the caller.             *)
PopenFails(t) ==
  /\ At(t, "popen")
  /\ state' = "STOPPED"
  /\ Goto(t, IF StartingUp(t) THEN "finally" ELSE AfterRestart(t))
  /\ UNCHANGED <<running, processVars, quietVars>>

(* RUNNING is set; at startup the monitor threads are started next.        *)
EnterRunning(t) ==
  /\ At(t, "started")
  /\ state' = "RUNNING"
  /\ IF StartingUp(t) THEN pc' = [main |-> "loop", health |-> "top"]
                      ELSE Goto(t, AfterRestart(t))
  /\ UNCHANGED <<running, processVars, quietVars>>

-----------------------------------------------------------------------------
(* _terminate_pipeline_subprocess, run by thread t: SIGTERM, and SIGKILL   *)
(* when that is not enough, to the process group of the child; then the    *)
(* handle is dropped.  Without a child there is nothing to do.  A process  *)
(* that a SIGKILL does not end in time, or a signal that fails, is logged  *)
(* and its handle dropped as well: left out, a killed process is taken to  *)
(* have ended.                                                             *)

AfterTerminate(t) == IF t = "main" THEN "leave" ELSE "restart"

TerminateBegin(t) ==
  /\ At(t, "terminate")
  /\ \/ /\ child = NoPid
        /\ Goto(t, AfterTerminate(t))
     \/ /\ child # NoPid
        /\ Goto(t, "terminated")
  /\ alive' = alive \ {child}
  /\ UNCHANGED <<state, running, child, ended, quietVars>>

TerminateEnd(t) ==
  /\ At(t, "terminated")
  /\ child' = NoPid
  /\ Goto(t, AfterTerminate(t))
  /\ UNCHANGED <<state, running, alive, ended, quietVars>>

-----------------------------------------------------------------------------
(* The main thread: run().                                                 *)

(* _initialize_pipeline is done and _running is set, whatever a signal     *)
(* handler stored in it before; or it has raised.                          *)
Initialise ==
  /\ At("main", "init")
  /\ \/ running' = TRUE /\ Goto("main", "sync")
     \/ UNCHANGED running /\ Goto("main", "finally")
  /\ UNCHANGED <<state, processVars, quietVars>>

WaitForStream ==
  /\ At("main", "sync")
  /\ \/ /\ ServerAnswers
        /\ Goto("main", "spawn")
        /\ syncRetry' = 0            (* a local variable, no longer used      *)
     \/ /\ ~ServerAnswers
        /\ syncRetry' = syncRetry + 1
        /\ Goto("main", IF syncRetry + 1 < MaxSyncRetries THEN "sync" ELSE "finally")
  /\ UNCHANGED <<state, running, processVars, restartCount, breakerVars, stable,
                 exponent, rtsp, singlePlay>>

MainLoopForever ==
  /\ At("main", "loop")
  /\ Goto("main", IF state = "CIRCUIT_OPEN" THEN "circuit" ELSE "stability")
  /\ UNCHANGED <<state, running, processVars, quietVars>>

(* One turn of the loop up to the first test that leaves it.  The order    *)
(* work of the turn is the subject of StationOrders.                       *)
MainLoop ==
  /\ At("main", "loop")
  /\ Goto("main", IF ~running THEN "finally"
                  ELSE IF state = "CIRCUIT_OPEN" THEN "circuit" ELSE "stability")
  /\ UNCHANGED <<state, running, processVars, quietVars>>

(* _check_shutdown_signal finds a shutdown message for this station.       *)
ShutdownMessage ==
  /\ At("main", "loop")
  /\ running
  /\ Goto("main", "finally")
  /\ UNCHANGED <<state, running, processVars, quietVars>>

(* _check_pipeline_stability: the state is read under the lock ...         *)
StabilityCheck ==
  /\ At("main", "stability")
  /\ Goto("main", IF state = "RUNNING" THEN "reset" ELSE "loop")
  /\ UNCHANGED <<state, running, processVars, quietVars>>

(* ... and the counters are reset without it.                              *)
StabilityReset ==
  /\ At("main", "reset")
  /\ \/ /\ stable /\ restartCount > 0
        /\ restartCount' = 0
        /\ failures' = 0
        /\ breakerOpen' = FALSE
     \/ /\ ~(stable /\ restartCount > 0)
        /\ UNCHANGED <<restartCount, failures, breakerOpen>>
  /\ Goto("main", "loop")
  /\ UNCHANGED <<state, running, processVars, cooled, stable, exponent, syncRetry, rtsp, singlePlay>>

(* _handle_circuit_open_state: should_retry, then a quick probe that opens *)
(* the stream itself; a failed probe restarts the cooldown, a successful   *)
(* one closes the breaker and restarts the pipeline from this thread.      *)
ShouldRetry == breakerOpen => cooled

StreamOpens == rtsp = "stream"

CircuitWait ==
  /\ At("main", "circuit")
  /\ ~ShouldRetry
  /\ Goto("main", "loop")
  /\ UNCHANGED <<state, running, processVars, quietVars>>

CircuitProbeFails ==
  /\ At("main", "circuit")
  /\ ShouldRetry
  /\ ~StreamOpens
  /\ cooled' = FALSE
  /\ Goto("main", "loop")
  /\ UNCHANGED <<state, running, processVars, restartCount, failures, breakerOpen,
                 stable, exponent, syncRetry, rtsp, singlePlay>>

(* A reset that forgets to leave CIRCUIT_OPEN: the restart is refused.     *)
CircuitResetKeepsState ==
  /\ At("main", "circuit")
  /\ ShouldRetry
  /\ StreamOpens
  /\ failures' = 0
  /\ breakerOpen' = FALSE
  /\ restartCount' = 0
  /\ Goto("main", "restart")
  /\ UNCHANGED <<state, running, processVars, cooled, stable, exponent, syncRetry, rtsp, singlePlay>>

CircuitReset ==
  /\ At("main", "circuit")
  /\ ShouldRetry
  /\ StreamOpens
  /\ failures' = 0
  /\ breakerOpen' = FALSE
  /\ restartCount' = 0
  /\ state' = "STOPPED"
  /\ Goto("main", "restart")
  /\ UNCHANGED <<running, processVars, cooled, stable, exponent, syncRetry, rtsp, singlePlay>>

(* The finally of run() and _cleanup: the daemon threads run on until the  *)
(* process is gone.                                                        *)
ShutDown ==
  /\ At("main", "finally")
  /\ state' = "SHUTTING_DOWN"
  /\ Goto("main", "terminate")
  /\ UNCHANGED <<running, processVars, quietVars>>

ProcessExit ==
  /\ At("main", "leave")
  /\ pc' = [main |-> "exited", health |-> "dead"]
  /\ UNCHANGED <<state, running, processVars, quietVars>>

-----------------------------------------------------------------------------
(* The health thread: _health_monitor_loop.                                *)

HealthSkips == {"STOPPED", "STARTING", "RESTARTING", "SHUTTING_DOWN", "CIRCUIT_OPEN"}

(* The states in which the loop goes on to restart what it finds dead,     *)
(* had the list of skipped states lost STOPPED.                            *)
HealthTopNoStopped ==
  /\ At("health", "top")
  /\ Goto("health", IF ~running THEN "dead"
                    ELSE IF state \in HealthSkips \ {"STOPPED"} THEN "top" ELSE "poll")
  /\ UNCHANGED <<state, running, processVars, quietVars>>

HealthTop ==
  /\ At("health", "top")
  /\ Goto("health", IF ~running THEN "dead"
                    ELSE IF state \in HealthSkips THEN "top" ELSE "poll")
  /\ UNCHANGED <<state, running, processVars, quietVars>>

(* Check 1: the subprocess has exited.  An expected end of the video       *)
(* forgives the past failures; played once, the pipeline stays stopped.    *)
FoundExited ==
  /\ At("health", "poll")
  /\ child # NoPid /\ child \notin alive
  /\ \/ /\ ended = "expected"
        /\ restartCount' = 0
        /\ failures' = 0
        /\ breakerOpen' = FALSE
        /\ Goto("health", IF singlePlay THEN "clean" ELSE "restart")
     \/ /\ ended # "expected"
        /\ Goto("health", "restart")
        /\ UNCHANGED <<restartCount, failures, breakerOpen>>
  /\ UNCHANGED <<state, running, processVars, cooled, stable, exponent, syncRetry, rtsp, singlePlay>>

PlayedOnce ==
  /\ At("health", "clean")
  /\ child' = NoPid
  /\ state' = "STOPPED"
  /\ Goto("health", "top")
  /\ UNCHANGED <<running, alive, ended, quietVars>>

FoundHealthy ==
  /\ At("health", "poll")
  /\ child = NoPid \/ child \in alive
  /\ Goto("health", "top")
  /\ UNCHANGED <<state, running, processVars, quietVars>>

FoundStalledNoKill ==
  /\ At("health", "poll")
  /\ child = NoPid \/ child \in alive
  /\ state' = "STALLED"
  /\ Goto("health", "restart")
  /\ UNCHANGED <<running, processVars, quietVars>>

(* Check 2: no completed order for stall_detection_timeout_sec.            *)
FoundStalled ==
  /\ At("health", "poll")
  /\ child = NoPid \/ child \in alive
  /\ state' = "STALLED"
  /\ Goto("health", "terminate")
  /\ UNCHANGED <<running, processVars, quietVars>>

-----------------------------------------------------------------------------
(* The environment: the stream, the pipeline process, time and signals.    *)

StreamChanges ==
  /\ rtsp' \in RtspState \ {rtsp}
  /\ UNCHANGED <<state, pc, running, processVars, restartCount, breakerVars, stable,
                 exponent, syncRetry, singlePlay>>

PipelineExits ==
  /\ \E p \in alive :
       /\ alive' = alive \ {p}
       /\ ended' \in IF p = child THEN {"expected", "failed"} ELSE {ended}
  /\ UNCHANGED <<state, pc, running, child, quietVars>>

StabilityPeriodElapses ==
  /\ ~stable
  /\ pc["health"] # "idle"
  /\ stable' = TRUE
  /\ UNCHANGED <<state, pc, running, processVars, restartCount, breakerVars,
                 exponent, syncRetry, rtsp, singlePlay>>

CooldownElapses ==
  /\ breakerOpen /\ ~cooled
  /\ cooled' = TRUE
  /\ UNCHANGED <<state, pc, running, processVars, restartCount, failures, breakerOpen,
                 stable, exponent, syncRetry, rtsp, singlePlay>>

(* SIGTERM or SIGINT: _handle_shutdown_signal.                             *)
Signal ==
  /\ running
  /\ running' = FALSE
  /\ UNCHANGED <<state, pc, processVars, quietVars>>

-----------------------------------------------------------------------------
Restart(t) ==
  \/ RestartCheck(t)
  \/ RestartEnter(t)
  \/ RecordFailure(t)
  \/ BackoffDelay(t)
  \/ VerifyStream(t)
  \/ EnterStarting(t)
  \/ PopenSucceeds(t)
  \/ PopenFails(t)
  \/ EnterRunning(t)

Terminate(t) == TerminateBegin(t) \/ TerminateEnd(t)

Main ==
  \/ Initialise
  \/ WaitForStream
  \/ MainLoop
  \/ StabilityCheck
  \/ StabilityReset
  \/ CircuitWait
  \/ CircuitProbeFails
  \/ CircuitReset
  \/ Restart("main")
  \/ ShutDown
  \/ Terminate("main")
  \/ ProcessExit

Health ==
  \/ HealthTop
  \/ FoundExited
  \/ PlayedOnce
  \/ FoundHealthy
  \/ FoundStalled
  \/ Restart("health")
  \/ Terminate("health")

Environment ==
  \/ StreamChanges
  \/ PipelineExits
  \/ StabilityPeriodElapses
  \/ CooldownElapses
  \/ ShutdownMessage
  \/ Signal

Next == Main \/ Health \/ Environment

Spec == Init /\ [][Next]_vars

(* The two threads are scheduled by the operating system and every call    *)
(* they block in has a timeout; the clock goes on.  Nothing is assumed of  *)
(* the stream, of the pipeline process or of whoever asks for a shutdown.  *)
Fairness ==
  /\ WF_vars(Main)
  /\ WF_vars(Health)
  /\ WF_vars(CooldownElapses)

FairSpec == Spec /\ Fairness
-----------------------------------------------------------------------------
(* Properties.                                                             *)

ShuttingDown == pc["main"] \in {"finally", "terminate", "terminated", "leave", "exited"}

(* Until the worker shuts down it holds the handle of every pipeline that  *)
(* runs: there is never a second gst-launch on the same stream, and none   *)
(* that _terminate_pipeline_subprocess could not reach.                    *)
TrackedPipeline == ShuttingDown \/ alive \subseteq {child}

(* The two threads are never inside _safe_pipeline_restart together,       *)
(* although its check and its transition to RESTARTING are two critical    *)
(* sections: only the states the check lets through keep them apart.       *)
OneRestarter == ~(pc["main"] \in RestartStep /\ pc["health"] \in RestartStep)

(* An open circuit means no pipeline is running behind it.                 *)
QuietWhenOpen == state = "CIRCUIT_OPEN" /\ ~ShuttingDown => alive = {}

(* A video to be played once is played once: after its end no pipeline     *)
(* runs again, neither restarted by the health thread nor by the breaker.  *)
PlayedOut ==
  /\ state = "STOPPED" /\ child = NoPid /\ ended = "expected"
  /\ ~ShuttingDown /\ pc["main"] \notin RestartStep

StaysPlayedOut == [](PlayedOut => [](alive = {}))

(* A worker asked to stop by a signal gets out of run(): no state of the   *)
(* breaker or of a restart in progress holds the main thread for ever.     *)
ShutdownCompletes ==
  (pc["main"] # "init" /\ ~running) ~> At("main", "exited")

(* A circuit does not stay open while the stream is there to be played:    *)
(* _handle_circuit_open_state gets it out of CIRCUIT_OPEN.                 *)
CircuitRetried ==
  <>[](rtsp = "stream") => []<>(state # "CIRCUIT_OPEN" \/ ShuttingDown)

(* "circuit-breaker fault tolerance and automatic recovery"                *)
(* (README.md:55-56): a stream that is back for good is played again,      *)
(* unless the worker is told to stop.                                      *)
Recovers ==
  <>[](rtsp = "stream") => []<>(state = "RUNNING" \/ ~running \/ ShuttingDown)
=============================================================================
