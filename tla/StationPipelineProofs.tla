------------------------ MODULE StationPipelineProofs ------------------------
(***************************************************************************)
(* Proofs about StationPipeline, for every breaker threshold, every bound  *)
(* and any number of processes: one restart at a time, and no pipeline the *)
(* worker has lost the handle of before it shuts down.                     *)
(***************************************************************************)
EXTENDS StationPipeline, TLAPS

(* The invariant.                                                          *)

HealthQuiet == pc["health"] \in {"idle", "top", "dead"}

(* While the main thread starts up, restarts, or the circuit is open, the  *)
(* health thread is not acting on the pipeline.                            *)
OneActor ==
  /\ pc["main"] \in {"init", "sync"} => pc["health"] = "idle" /\ state = "STOPPED"
  /\ pc["main"] \in RestartStep => HealthQuiet /\ state \in HealthSkips \ {"CIRCUIT_OPEN"}
  /\ state = "CIRCUIT_OPEN" => HealthQuiet
  /\ pc["main"] = "circuit" => state = "CIRCUIT_OPEN"
  /\ state = "SHUTTING_DOWN" => ShuttingDown

(* A breaker that has counted to its threshold has nobody restarting: the  *)
(* next failure is counted only after a reset.                             *)
FullIsOpen ==
  failures = MaxFailures =>
    /\ state \in {"CIRCUIT_OPEN", "SHUTTING_DOWN"}
    /\ HealthQuiet
    /\ pc["main"] \notin RestartStep

(* The loop of run() over sync_retry leaves at the bound.                  *)
RetriesLeft == pc["main"] \in {"init", "sync"} => syncRetry < MaxSyncRetries

(* Where no pipeline may be running: before the first Popen, in a restart  *)
(* up to its Popen, after a termination, and behind an open circuit.       *)
BeforePopen == RestartStep \ {"started"}

Cleared ==
  \/ pc["main"] \in {"init", "sync"} \cup BeforePopen
  \/ pc["health"] \in {"clean", "terminated"} \cup BeforePopen
  \/ state = "CIRCUIT_OPEN"

ClearedIsQuiet == Cleared => ShuttingDown \/ alive = {}

IInv == TypeOK /\ OneActor /\ FullIsOpen /\ RetriesLeft /\ ClearedIsQuiet /\ TrackedPipeline

-----------------------------------------------------------------------------
(* The bounds are not empty ranges.                                        *)
LEMMA Bounds ==
  /\ 0 \in 0..RestartCap /\ 0 \in 0..MaxFailures /\ 0 \in 0..MaxSyncRetries
  /\ 0 \in -1..(RestartCap - 1) /\ MaxFailures # 0 /\ 0 < MaxSyncRetries
  BY PipelineAssumption

(* The typing conjunct of the invariant.                                   *)
LEMMA TypeStep == IInv /\ [Next]_vars => TypeOK'
<1> SUFFICES ASSUME IInv, [Next]_vars PROVE TypeOK'
  OBVIOUS
<1> MaxFailures \in Nat \ {0} /\ RestartCap \in Nat \ {0} /\ MaxSyncRetries \in Nat \ {0} /\ NoPid \notin Pid
  BY PipelineAssumption
<1> USE DEF IInv, TypeOK, PipelineState, RtspState, Step, RestartStep,
        Thread, At, Goto, AfterRestart, AfterTerminate, processVars, breakerVars,
        quietVars
<1>1. ASSUME NEW t \in Thread, Restart(t) PROVE TypeOK'
  <2>1. CASE RestartCheck(t) BY <2>1 DEF RestartCheck
  <2>2. CASE RestartEnter(t) BY <2>2 DEF RestartEnter
  <2>3. CASE RecordFailure(t) 
    <3>1. failures < MaxFailures
      BY <2>3 DEF RecordFailure, FullIsOpen, HealthQuiet
    <3>2. failures' \in 0..MaxFailures
      BY <3>1, <2>3 DEF RecordFailure
    <3>3. state' \in PipelineState /\ pc' \in [Thread -> Step]
      BY <2>3 DEF RecordFailure
    <3>4. breakerOpen' \in BOOLEAN /\ cooled' \in BOOLEAN
      BY <2>3 DEF RecordFailure
    <3> QED BY <3>2, <3>3, <3>4, <2>3 DEF RecordFailure
  <2>4. CASE BackoffDelay(t) BY <2>4 DEF BackoffDelay
  <2>5. CASE VerifyStream(t) BY <2>5 DEF VerifyStream
  <2>6. CASE EnterStarting(t) BY <2>6 DEF EnterStarting
  <2>7. CASE PopenSucceeds(t) BY <2>7 DEF PopenSucceeds
  <2>8. CASE PopenFails(t) BY <2>8 DEF PopenFails
  <2>9. CASE EnterRunning(t) BY <2>9 DEF EnterRunning
  <2> QED BY <1>1, <2>1, <2>2, <2>3, <2>4, <2>5, <2>6, <2>7, <2>8, <2>9 DEF Restart
<1>2. ASSUME NEW t \in Thread, Terminate(t) PROVE TypeOK'
  BY <1>2 DEF Terminate, TerminateBegin, TerminateEnd
<1>3. CASE Main
  <2>1. CASE Initialise
    <3>1. running' \in BOOLEAN
      BY <2>1 DEF Initialise
    <3>2. pc' \in [Thread -> Step]
      BY <2>1 DEF Initialise, Step
    <3> QED BY <3>1, <3>2, <2>1 DEF Initialise
  <2>2. CASE WaitForStream
    <3>1. syncRetry' \in 0..MaxSyncRetries
      BY <2>2 DEF WaitForStream, RetriesLeft
    <3> QED BY <3>1, <2>2 DEF WaitForStream
  <2>3. CASE MainLoop BY <2>3 DEF MainLoop
  <2>4. CASE StabilityCheck BY <2>4 DEF StabilityCheck
  <2>5. CASE StabilityReset
    <3>1. pc' \in [Thread -> Step]
      BY <2>5 DEF StabilityReset
    <3>2. restartCount' \in 0..RestartCap /\ failures' \in 0..MaxFailures /\ breakerOpen' \in BOOLEAN
      BY <2>5, Bounds DEF StabilityReset
    <3> QED BY <3>1, <3>2, <2>5 DEF StabilityReset
  <2>6. CASE CircuitWait BY <2>6 DEF CircuitWait
  <2>7. CASE CircuitProbeFails BY <2>7 DEF CircuitProbeFails
  <2>8. CASE CircuitReset BY <2>8, Bounds DEF CircuitReset
  <2>9. CASE ShutDown BY <2>9 DEF ShutDown
  <2>10. CASE ProcessExit BY <2>10 DEF ProcessExit
  <2> QED BY <1>1, <1>2, <1>3, <2>1, <2>2, <2>3, <2>4, <2>5, <2>6, <2>7, <2>8, <2>9,
             <2>10 DEF Main
<1>4. CASE Health
  <2>1. CASE HealthTop BY <2>1 DEF HealthTop, HealthSkips
  <2>2. CASE FoundExited
    <3>1. pc' \in [Thread -> Step]
      BY <2>2 DEF FoundExited
    <3>2. restartCount' \in 0..RestartCap /\ failures' \in 0..MaxFailures /\ breakerOpen' \in BOOLEAN
      BY <2>2, Bounds DEF FoundExited
    <3> QED BY <3>1, <3>2, <2>2 DEF FoundExited
  <2>3. CASE PlayedOnce BY <2>3 DEF PlayedOnce
  <2>4. CASE FoundHealthy BY <2>4 DEF FoundHealthy
  <2>5. CASE FoundStalled BY <2>5 DEF FoundStalled
  <2> QED BY <1>1, <1>2, <1>4, <2>1, <2>2, <2>3, <2>4, <2>5 DEF Health
<1>5. CASE Environment
  <2>1. CASE StreamChanges BY <2>1 DEF StreamChanges
  <2>2. CASE PipelineExits BY <2>2 DEF PipelineExits
  <2>3. CASE StabilityPeriodElapses BY <2>3 DEF StabilityPeriodElapses
  <2>4. CASE CooldownElapses BY <2>4 DEF CooldownElapses
  <2>5. CASE ShutdownMessage BY <2>5 DEF ShutdownMessage
  <2>6. CASE Signal BY <2>6 DEF Signal
  <2> QED BY <1>5, <2>1, <2>2, <2>3, <2>4, <2>5, <2>6 DEF Environment
<1>6. CASE UNCHANGED vars BY <1>6 DEF vars
<1> QED BY <1>3, <1>4, <1>5, <1>6 DEF Next

(* The health thread takes the pipeline over only from a main thread that  *)
(* is neither restarting it nor waiting behind an open circuit.            *)
LEMMA OneActorStep == IInv /\ [Next]_vars => OneActor'
<1> SUFFICES ASSUME IInv, [Next]_vars PROVE OneActor'
  OBVIOUS
<1> MaxFailures \in Nat \ {0} /\ RestartCap \in Nat \ {0} /\ MaxSyncRetries \in Nat \ {0} /\ NoPid \notin Pid
  BY PipelineAssumption
<1> USE DEF IInv, TypeOK, Thread, At, Goto, AfterRestart, AfterTerminate, processVars,
        breakerVars, quietVars, OneActor, HealthQuiet, RestartStep,
        HealthSkips, RestartRefusedIn, ShuttingDown
<1>1. ASSUME NEW t \in Thread, Restart(t) PROVE OneActor'
  <2>1. CASE RestartCheck(t) BY <2>1 DEF RestartCheck
  <2>2. CASE RestartEnter(t) BY <2>2 DEF RestartEnter
  <2>3. CASE RecordFailure(t) BY <2>3 DEF RecordFailure, TripsAt
  <2>4. CASE BackoffDelay(t) BY <2>4 DEF BackoffDelay
  <2>5. CASE VerifyStream(t) BY <2>5 DEF VerifyStream
  <2>6. CASE EnterStarting(t) BY <2>6 DEF EnterStarting
  <2>7. CASE PopenSucceeds(t) BY <2>7 DEF PopenSucceeds
  <2>8. CASE PopenFails(t) BY <2>8 DEF PopenFails, StartingUp
  <2>9. CASE EnterRunning(t) BY <2>9 DEF EnterRunning, StartingUp
  <2> QED BY <1>1, <2>1, <2>2, <2>3, <2>4, <2>5, <2>6, <2>7, <2>8, <2>9 DEF Restart
<1>2. ASSUME NEW t \in Thread, Terminate(t) PROVE OneActor'
  <2>1. CASE TerminateBegin(t) BY <2>1 DEF TerminateBegin
  <2>2. CASE TerminateEnd(t) BY <2>2 DEF TerminateEnd
  <2> QED BY <1>2, <2>1, <2>2 DEF Terminate
<1>3. CASE Main
  <2>1. CASE Initialise BY <2>1 DEF Initialise
  <2>2. CASE WaitForStream BY <2>2 DEF WaitForStream
  <2>3. CASE MainLoop BY <2>3 DEF MainLoop
  <2>4. CASE StabilityCheck BY <2>4 DEF StabilityCheck
  <2>5. CASE StabilityReset BY <2>5 DEF StabilityReset
  <2>6. CASE CircuitWait BY <2>6 DEF CircuitWait
  <2>7. CASE CircuitProbeFails BY <2>7 DEF CircuitProbeFails
  <2>8. CASE CircuitReset BY <2>8 DEF CircuitReset
  <2>9. CASE ShutDown BY <2>9 DEF ShutDown
  <2>10. CASE ProcessExit BY <2>10 DEF ProcessExit
  <2> QED BY <1>1, <1>2, <1>3, <2>1, <2>2, <2>3, <2>4, <2>5, <2>6, <2>7, <2>8,
             <2>9, <2>10 DEF Main, Thread
<1>4. CASE Health
  <2>1. CASE HealthTop BY <2>1 DEF HealthTop
  <2>2. CASE FoundExited BY <2>2 DEF FoundExited
  <2>3. CASE PlayedOnce BY <2>3 DEF PlayedOnce
  <2>4. CASE FoundHealthy BY <2>4 DEF FoundHealthy
  <2>5. CASE FoundStalled BY <2>5 DEF FoundStalled
  <2> QED BY <1>1, <1>2, <1>4, <2>1, <2>2, <2>3, <2>4, <2>5 DEF Health, Thread
<1>5. CASE Environment
  <2>1. CASE StreamChanges BY <2>1 DEF StreamChanges
  <2>2. CASE PipelineExits BY <2>2 DEF PipelineExits
  <2>3. CASE StabilityPeriodElapses BY <2>3 DEF StabilityPeriodElapses
  <2>4. CASE CooldownElapses BY <2>4 DEF CooldownElapses
  <2>5. CASE ShutdownMessage BY <2>5 DEF ShutdownMessage
  <2>6. CASE Signal BY <2>6 DEF Signal
  <2> QED BY <1>5, <2>1, <2>2, <2>3, <2>4, <2>5, <2>6 DEF Environment
<1>6. CASE UNCHANGED vars BY <1>6 DEF vars
<1> QED BY <1>3, <1>4, <1>5, <1>6 DEF Next

(* The count reaches the threshold only in the step that opens the         *)
(* circuit, and leaves it only by a reset.                                 *)
LEMMA FullIsOpenStep == IInv /\ [Next]_vars => (FullIsOpen /\ RetriesLeft)'
<1> SUFFICES ASSUME IInv, [Next]_vars PROVE (FullIsOpen /\ RetriesLeft)'
  OBVIOUS
<1> MaxFailures \in Nat \ {0} /\ RestartCap \in Nat \ {0} /\ MaxSyncRetries \in Nat \ {0} /\ NoPid \notin Pid
  BY PipelineAssumption
<1> USE DEF IInv, TypeOK, Thread, At, Goto, AfterRestart, AfterTerminate, processVars,
        breakerVars, quietVars, OneActor, FullIsOpen, RetriesLeft, HealthQuiet, RestartStep,
        HealthSkips, RestartRefusedIn, ShuttingDown
<1>1. ASSUME NEW t \in Thread, Restart(t) PROVE (FullIsOpen /\ RetriesLeft)'
  <2>1. CASE RestartCheck(t) BY <2>1 DEF RestartCheck
  <2>2. CASE RestartEnter(t) BY <2>2 DEF RestartEnter
  <2>3. CASE RecordFailure(t) BY <2>3 DEF RecordFailure, TripsAt
  <2>4. CASE BackoffDelay(t) BY <2>4 DEF BackoffDelay
  <2>5. CASE VerifyStream(t) BY <2>5 DEF VerifyStream
  <2>6. CASE EnterStarting(t) BY <2>6 DEF EnterStarting
  <2>7. CASE PopenSucceeds(t) BY <2>7 DEF PopenSucceeds
  <2>8. CASE PopenFails(t) BY <2>8 DEF PopenFails, StartingUp
  <2>9. CASE EnterRunning(t) BY <2>9 DEF EnterRunning, StartingUp
  <2> QED BY <1>1, <2>1, <2>2, <2>3, <2>4, <2>5, <2>6, <2>7, <2>8, <2>9 DEF Restart
<1>2. ASSUME NEW t \in Thread, Terminate(t) PROVE (FullIsOpen /\ RetriesLeft)'
  <2>1. CASE TerminateBegin(t) BY <2>1 DEF TerminateBegin
  <2>2. CASE TerminateEnd(t) BY <2>2 DEF TerminateEnd
  <2> QED BY <1>2, <2>1, <2>2 DEF Terminate
<1>3. CASE Main
  <2>1. CASE Initialise BY <2>1 DEF Initialise
  <2>2. CASE WaitForStream BY <2>2 DEF WaitForStream
  <2>3. CASE MainLoop BY <2>3 DEF MainLoop
  <2>4. CASE StabilityCheck BY <2>4 DEF StabilityCheck
  <2>5. CASE StabilityReset BY <2>5 DEF StabilityReset
  <2>6. CASE CircuitWait BY <2>6 DEF CircuitWait
  <2>7. CASE CircuitProbeFails BY <2>7 DEF CircuitProbeFails
  <2>8. CASE CircuitReset BY <2>8 DEF CircuitReset
  <2>9. CASE ShutDown BY <2>9 DEF ShutDown
  <2>10. CASE ProcessExit BY <2>10 DEF ProcessExit
  <2> QED BY <1>1, <1>2, <1>3, <2>1, <2>2, <2>3, <2>4, <2>5, <2>6, <2>7, <2>8,
             <2>9, <2>10 DEF Main, Thread
<1>4. CASE Health
  <2>1. CASE HealthTop BY <2>1 DEF HealthTop
  <2>2. CASE FoundExited BY <2>2 DEF FoundExited
  <2>3. CASE PlayedOnce BY <2>3 DEF PlayedOnce
  <2>4. CASE FoundHealthy BY <2>4 DEF FoundHealthy
  <2>5. CASE FoundStalled BY <2>5 DEF FoundStalled
  <2> QED BY <1>1, <1>2, <1>4, <2>1, <2>2, <2>3, <2>4, <2>5 DEF Health, Thread
<1>5. CASE Environment
  <2>1. CASE StreamChanges BY <2>1 DEF StreamChanges
  <2>2. CASE PipelineExits BY <2>2 DEF PipelineExits
  <2>3. CASE StabilityPeriodElapses BY <2>3 DEF StabilityPeriodElapses
  <2>4. CASE CooldownElapses BY <2>4 DEF CooldownElapses
  <2>5. CASE ShutdownMessage BY <2>5 DEF ShutdownMessage
  <2>6. CASE Signal BY <2>6 DEF Signal
  <2> QED BY <1>5, <2>1, <2>2, <2>3, <2>4, <2>5, <2>6 DEF Environment
<1>6. CASE UNCHANGED vars BY <1>6 DEF vars
<1> QED BY <1>3, <1>4, <1>5, <1>6 DEF Next

(* No second pipeline is started next to a running one.                    *)
LEMMA PipelineStep == IInv /\ [Next]_vars => (ClearedIsQuiet /\ TrackedPipeline)'
<1> SUFFICES ASSUME IInv, [Next]_vars PROVE (ClearedIsQuiet /\ TrackedPipeline)'
  OBVIOUS
<1> MaxFailures \in Nat \ {0} /\ RestartCap \in Nat \ {0} /\ MaxSyncRetries \in Nat \ {0} /\ NoPid \notin Pid
  BY PipelineAssumption
<1> USE DEF IInv, TypeOK, Thread, At, Goto, AfterRestart, AfterTerminate, processVars,
        breakerVars, quietVars, OneActor, HealthQuiet, RestartStep, Step,
        HealthSkips, RestartRefusedIn, ShuttingDown, ClearedIsQuiet, Cleared,
        BeforePopen, TrackedPipeline
<1>1. ASSUME NEW t \in Thread, Restart(t) PROVE (ClearedIsQuiet /\ TrackedPipeline)'
  <2>1. CASE RestartCheck(t) BY <2>1 DEF RestartCheck
  <2>2. CASE RestartEnter(t) BY <2>2 DEF RestartEnter
  <2>3. CASE RecordFailure(t) BY <2>3 DEF RecordFailure, TripsAt
  <2>4. CASE BackoffDelay(t) BY <2>4 DEF BackoffDelay
  <2>5. CASE VerifyStream(t) BY <2>5 DEF VerifyStream
  <2>6. CASE EnterStarting(t) BY <2>6 DEF EnterStarting
  <2>7. CASE PopenSucceeds(t) BY <2>7 DEF PopenSucceeds
  <2>8. CASE PopenFails(t) BY <2>8 DEF PopenFails, StartingUp
  <2>9. CASE EnterRunning(t) BY <2>9 DEF EnterRunning, StartingUp
  <2> QED BY <1>1, <2>1, <2>2, <2>3, <2>4, <2>5, <2>6, <2>7, <2>8, <2>9 DEF Restart
<1>2. ASSUME NEW t \in Thread, Terminate(t) PROVE (ClearedIsQuiet /\ TrackedPipeline)'
  <2>1. CASE TerminateBegin(t) BY <2>1 DEF TerminateBegin
  <2>2. CASE TerminateEnd(t) BY <2>2 DEF TerminateEnd
  <2> QED BY <1>2, <2>1, <2>2 DEF Terminate
<1>3. CASE Main
  <2>1. CASE Initialise BY <2>1 DEF Initialise
  <2>2. CASE WaitForStream BY <2>2 DEF WaitForStream
  <2>3. CASE MainLoop BY <2>3 DEF MainLoop
  <2>4. CASE StabilityCheck BY <2>4 DEF StabilityCheck
  <2>5. CASE StabilityReset BY <2>5 DEF StabilityReset
  <2>6. CASE CircuitWait BY <2>6 DEF CircuitWait
  <2>7. CASE CircuitProbeFails BY <2>7 DEF CircuitProbeFails
  <2>8. CASE CircuitReset BY <2>8 DEF CircuitReset
  <2>9. CASE ShutDown BY <2>9 DEF ShutDown
  <2>10. CASE ProcessExit BY <2>10 DEF ProcessExit
  <2> QED BY <1>1, <1>2, <1>3, <2>1, <2>2, <2>3, <2>4, <2>5, <2>6, <2>7, <2>8,
             <2>9, <2>10 DEF Main, Thread
<1>4. CASE Health
  <2>1. CASE HealthTop BY <2>1 DEF HealthTop
  <2>2. CASE FoundExited BY <2>2 DEF FoundExited
  <2>3. CASE PlayedOnce BY <2>3 DEF PlayedOnce
  <2>4. CASE FoundHealthy BY <2>4 DEF FoundHealthy
  <2>5. CASE FoundStalled BY <2>5 DEF FoundStalled
  <2> QED BY <1>1, <1>2, <1>4, <2>1, <2>2, <2>3, <2>4, <2>5 DEF Health, Thread
<1>5. CASE Environment
  <2>1. CASE StreamChanges BY <2>1 DEF StreamChanges
  <2>2. CASE PipelineExits BY <2>2 DEF PipelineExits
  <2>3. CASE StabilityPeriodElapses BY <2>3 DEF StabilityPeriodElapses
  <2>4. CASE CooldownElapses BY <2>4 DEF CooldownElapses
  <2>5. CASE ShutdownMessage BY <2>5 DEF ShutdownMessage
  <2>6. CASE Signal BY <2>6 DEF Signal
  <2> QED BY <1>5, <2>1, <2>2, <2>3, <2>4, <2>5, <2>6 DEF Environment
<1>6. CASE UNCHANGED vars BY <1>6 DEF vars
<1> QED BY <1>3, <1>4, <1>5, <1>6 DEF Next

-----------------------------------------------------------------------------
(* The invariant holds initially and is preserved by every step.           *)
THEOREM Invariance == Spec => []IInv
<1>1. Init => IInv
  BY PipelineAssumption, Bounds DEF Init, IInv, TypeOK, PipelineState, RtspState, Step,
     RestartStep, Thread, OneActor, FullIsOpen, RetriesLeft, HealthQuiet, HealthSkips,
     ClearedIsQuiet, Cleared, BeforePopen, ShuttingDown, TrackedPipeline
<1>2. IInv /\ [Next]_vars => IInv'
  BY TypeStep, OneActorStep, FullIsOpenStep, PipelineStep DEF IInv
<1> QED BY <1>1, <1>2, PTL DEF Spec

(* Every variable keeps to its type: in particular the failures counted by *)
(* record_failure never pass the threshold, whatever the interleaving.     *)
THEOREM TypeCorrect == Spec => []TypeOK
<1>1. IInv => TypeOK BY DEF IInv
<1> QED BY <1>1, Invariance, PTL

(* The two threads never restart the pipeline at the same time, although   *)
(* _safe_pipeline_restart checks and enters in two critical sections.      *)
THEOREM RestartExclusion == Spec => []OneRestarter
<1>1. IInv => OneRestarter
  BY DEF IInv, OneActor, HealthQuiet, OneRestarter, RestartStep
<1> QED BY <1>1, Invariance, PTL

(* Until it shuts down, the worker holds the handle of every pipeline that *)
(* runs, so there is at most one.                                          *)
THEOREM PipelineTracked == Spec => []TrackedPipeline
<1>1. IInv => TrackedPipeline BY DEF IInv
<1> QED BY <1>1, Invariance, PTL

(* Nothing runs behind an open circuit.                                    *)
THEOREM OpenIsQuiet == Spec => []QuietWhenOpen
<1>1. IInv => QuietWhenOpen
  BY DEF IInv, ClearedIsQuiet, Cleared, QuietWhenOpen
<1> QED BY <1>1, Invariance, PTL

-----------------------------------------------------------------------------
(* StaysPlayedOut.  A stopped pipeline is nobody's business but the main   *)
(* thread's: the health thread skips it.  Nothing has ended before the     *)
(* first pipeline was started; and the main thread is at a step of its own *)
(* or of the restart.                                                      *)
StoppedIsQuiet ==
  /\ state = "STOPPED" => HealthQuiet
  /\ pc["main"] \in {"init", "sync"} => ended = "no"
  /\ \/ pc["main"] \in {"init", "sync", "loop", "circuit", "stability", "reset"} \cup RestartStep
     \/ ShuttingDown

LEMMA StoppedStep == IInv /\ StoppedIsQuiet /\ [Next]_vars => StoppedIsQuiet'
<1> SUFFICES ASSUME IInv, StoppedIsQuiet, [Next]_vars PROVE StoppedIsQuiet'
  OBVIOUS
<1> MaxFailures \in Nat \ {0} /\ RestartCap \in Nat \ {0} /\ MaxSyncRetries \in Nat \ {0} /\ NoPid \notin Pid
  BY PipelineAssumption
<1> USE DEF IInv, TypeOK, Thread, At, Goto, AfterRestart, AfterTerminate, processVars,
        breakerVars, quietVars, OneActor, HealthQuiet, RestartStep,
        HealthSkips, RestartRefusedIn, ShuttingDown, StoppedIsQuiet,
        ClearedIsQuiet, Cleared
<1>1. ASSUME NEW t \in Thread, Restart(t) PROVE StoppedIsQuiet'
  <2>1. CASE RestartCheck(t) BY <2>1 DEF RestartCheck
  <2>2. CASE RestartEnter(t) BY <2>2 DEF RestartEnter
  <2>3. CASE RecordFailure(t) BY <2>3 DEF RecordFailure, TripsAt
  <2>4. CASE BackoffDelay(t) BY <2>4 DEF BackoffDelay
  <2>5. CASE VerifyStream(t) BY <2>5 DEF VerifyStream
  <2>6. CASE EnterStarting(t) BY <2>6 DEF EnterStarting
  <2>7. CASE PopenSucceeds(t) BY <2>7 DEF PopenSucceeds
  <2>8. CASE PopenFails(t) BY <2>8 DEF PopenFails, StartingUp
  <2>9. CASE EnterRunning(t) BY <2>9 DEF EnterRunning, StartingUp
  <2> QED BY <1>1, <2>1, <2>2, <2>3, <2>4, <2>5, <2>6, <2>7, <2>8, <2>9 DEF Restart
<1>2. ASSUME NEW t \in Thread, Terminate(t) PROVE StoppedIsQuiet'
  <2>1. CASE TerminateBegin(t) BY <2>1 DEF TerminateBegin
  <2>2. CASE TerminateEnd(t) BY <2>2 DEF TerminateEnd
  <2> QED BY <1>2, <2>1, <2>2 DEF Terminate
<1>3. CASE Main
  <2>1. CASE Initialise BY <2>1 DEF Initialise
  <2>2. CASE WaitForStream BY <2>2 DEF WaitForStream
  <2>3. CASE MainLoop BY <2>3 DEF MainLoop
  <2>4. CASE StabilityCheck BY <2>4 DEF StabilityCheck
  <2>5. CASE StabilityReset BY <2>5 DEF StabilityReset
  <2>6. CASE CircuitWait BY <2>6 DEF CircuitWait
  <2>7. CASE CircuitProbeFails BY <2>7 DEF CircuitProbeFails
  <2>8. CASE CircuitReset BY <2>8 DEF CircuitReset
  <2>9. CASE ShutDown BY <2>9 DEF ShutDown
  <2>10. CASE ProcessExit BY <2>10 DEF ProcessExit
  <2> QED BY <1>1, <1>2, <1>3, <2>1, <2>2, <2>3, <2>4, <2>5, <2>6, <2>7, <2>8,
             <2>9, <2>10 DEF Main, Thread
<1>4. CASE Health
  <2>1. CASE HealthTop BY <2>1 DEF HealthTop
  <2>2. CASE FoundExited BY <2>2 DEF FoundExited
  <2>3. CASE PlayedOnce BY <2>3 DEF PlayedOnce
  <2>4. CASE FoundHealthy BY <2>4 DEF FoundHealthy
  <2>5. CASE FoundStalled BY <2>5 DEF FoundStalled
  <2> QED BY <1>1, <1>2, <1>4, <2>1, <2>2, <2>3, <2>4, <2>5 DEF Health, Thread
<1>5. CASE Environment
  <2>1. CASE StreamChanges BY <2>1 DEF StreamChanges
  <2>2. CASE PipelineExits BY <2>2 DEF PipelineExits
  <2>3. CASE StabilityPeriodElapses BY <2>3 DEF StabilityPeriodElapses
  <2>4. CASE CooldownElapses BY <2>4 DEF CooldownElapses
  <2>5. CASE ShutdownMessage BY <2>5 DEF ShutdownMessage
  <2>6. CASE Signal BY <2>6 DEF Signal
  <2> QED BY <1>5, <2>1, <2>2, <2>3, <2>4, <2>5, <2>6 DEF Environment
<1>6. CASE UNCHANGED vars BY <1>6 DEF vars
<1> QED BY <1>3, <1>4, <1>5, <1>6 DEF Next

(* What keeps the pipeline stopped once it has been played out: there is   *)
(* no state from which either thread restarts it.                          *)
PlayedToTheEnd ==
  /\ alive = {} /\ child = NoPid
  /\ state \in {"STOPPED", "SHUTTING_DOWN"}
  /\ HealthQuiet
  /\ pc["main"] \in {"loop", "stability", "reset"} \/ ShuttingDown

LEMMA PlayedStep == IInv /\ PlayedToTheEnd /\ [Next]_vars => PlayedToTheEnd'
<1> SUFFICES ASSUME IInv, PlayedToTheEnd, [Next]_vars PROVE PlayedToTheEnd'
  OBVIOUS
<1> MaxFailures \in Nat \ {0} /\ RestartCap \in Nat \ {0} /\ MaxSyncRetries \in Nat \ {0} /\ NoPid \notin Pid
  BY PipelineAssumption
<1> USE DEF IInv, TypeOK, Thread, At, Goto, AfterRestart, AfterTerminate, processVars,
        breakerVars, quietVars, OneActor, HealthQuiet, RestartStep,
        HealthSkips, RestartRefusedIn, ShuttingDown, PlayedToTheEnd
<1>1. ASSUME NEW t \in Thread, Restart(t) PROVE PlayedToTheEnd'
  <2>1. CASE RestartCheck(t) BY <2>1 DEF RestartCheck
  <2>2. CASE RestartEnter(t) BY <2>2 DEF RestartEnter
  <2>3. CASE RecordFailure(t) BY <2>3 DEF RecordFailure, TripsAt
  <2>4. CASE BackoffDelay(t) BY <2>4 DEF BackoffDelay
  <2>5. CASE VerifyStream(t) BY <2>5 DEF VerifyStream
  <2>6. CASE EnterStarting(t) BY <2>6 DEF EnterStarting
  <2>7. CASE PopenSucceeds(t) BY <2>7 DEF PopenSucceeds
  <2>8. CASE PopenFails(t) BY <2>8 DEF PopenFails, StartingUp
  <2>9. CASE EnterRunning(t) BY <2>9 DEF EnterRunning, StartingUp
  <2> QED BY <1>1, <2>1, <2>2, <2>3, <2>4, <2>5, <2>6, <2>7, <2>8, <2>9 DEF Restart
<1>2. ASSUME NEW t \in Thread, Terminate(t) PROVE PlayedToTheEnd'
  <2>1. CASE TerminateBegin(t) BY <2>1 DEF TerminateBegin
  <2>2. CASE TerminateEnd(t) BY <2>2 DEF TerminateEnd
  <2> QED BY <1>2, <2>1, <2>2 DEF Terminate
<1>3. CASE Main
  <2>1. CASE Initialise BY <2>1 DEF Initialise
  <2>2. CASE WaitForStream BY <2>2 DEF WaitForStream
  <2>3. CASE MainLoop BY <2>3 DEF MainLoop
  <2>4. CASE StabilityCheck BY <2>4 DEF StabilityCheck
  <2>5. CASE StabilityReset BY <2>5 DEF StabilityReset
  <2>6. CASE CircuitWait BY <2>6 DEF CircuitWait
  <2>7. CASE CircuitProbeFails BY <2>7 DEF CircuitProbeFails
  <2>8. CASE CircuitReset BY <2>8 DEF CircuitReset
  <2>9. CASE ShutDown BY <2>9 DEF ShutDown
  <2>10. CASE ProcessExit BY <2>10 DEF ProcessExit
  <2> QED BY <1>1, <1>2, <1>3, <2>1, <2>2, <2>3, <2>4, <2>5, <2>6, <2>7, <2>8,
             <2>9, <2>10 DEF Main, Thread
<1>4. CASE Health
  <2>1. CASE HealthTop BY <2>1 DEF HealthTop
  <2>2. CASE FoundExited BY <2>2 DEF FoundExited
  <2>3. CASE PlayedOnce BY <2>3 DEF PlayedOnce
  <2>4. CASE FoundHealthy BY <2>4 DEF FoundHealthy
  <2>5. CASE FoundStalled BY <2>5 DEF FoundStalled
  <2> QED BY <1>1, <1>2, <1>4, <2>1, <2>2, <2>3, <2>4, <2>5 DEF Health, Thread
<1>5. CASE Environment
  <2>1. CASE StreamChanges BY <2>1 DEF StreamChanges
  <2>2. CASE PipelineExits BY <2>2 DEF PipelineExits
  <2>3. CASE StabilityPeriodElapses BY <2>3 DEF StabilityPeriodElapses
  <2>4. CASE CooldownElapses BY <2>4 DEF CooldownElapses
  <2>5. CASE ShutdownMessage BY <2>5 DEF ShutdownMessage
  <2>6. CASE Signal BY <2>6 DEF Signal
  <2> QED BY <1>5, <2>1, <2>2, <2>3, <2>4, <2>5, <2>6 DEF Environment
<1>6. CASE UNCHANGED vars BY <1>6 DEF vars
<1> QED BY <1>3, <1>4, <1>5, <1>6 DEF Next

(* A video that is to be played once is played once.                       *)
THEOREM PlayedOnceOnly == Spec => StaysPlayedOut
<1>1. Init => StoppedIsQuiet
  BY DEF Init, StoppedIsQuiet, HealthQuiet, Thread
<1>2. IInv /\ StoppedIsQuiet /\ PlayedOut => PlayedToTheEnd
  <2> SUFFICES ASSUME IInv, StoppedIsQuiet, PlayedOut PROVE PlayedToTheEnd
    OBVIOUS
  <2>1. child = NoPid /\ alive = {}
    BY PipelineAssumption DEF IInv, TypeOK, TrackedPipeline, PlayedOut
  <2>2. pc["main"] \in {"init", "sync", "loop", "circuit", "stability", "reset"}
    BY DEF StoppedIsQuiet, PlayedOut
  <2>3. pc["main"] \notin {"init", "sync", "circuit"}
    BY DEF IInv, OneActor, StoppedIsQuiet, PlayedOut
  <2>4. pc["main"] \in {"loop", "stability", "reset"}
    BY <2>2, <2>3
  <2> QED BY <2>1, <2>4 DEF PlayedOut, StoppedIsQuiet, PlayedToTheEnd
<1>3. PlayedToTheEnd => alive = {}
  BY DEF PlayedToTheEnd
<1> QED BY <1>1, <1>2, <1>3, Invariance, StoppedStep, PlayedStep, PTL DEF Spec, StaysPlayedOut
=============================================================================
