---------------------------- MODULE TakeAwayProofs ----------------------------
(***************************************************************************)
(* Proofs about the two ends of take-away: StationManager, which keeps the *)
(* pool of station workers, for any number of stations, and OrderDelivery, *)
(* by which an order comes to its result, for any stations, orders and     *)
(* retries.                                                                *)
(***************************************************************************)
EXTENDS StationManager, OrderDelivery, FiniteSetTheorems, WellFoundedInduction, TLAPS

---------------------------------------------------------------------------
(* The pool: a process that is not in it is dead, and a station number is  *)
(* used once.                                                              *)

(* The pool is finite, and has an oldest worker if any.                    *)
LEMMA PoolFinite ==
  ASSUME NEW S \in SUBSET Id
  PROVE  IsFiniteSet(S) /\ Cardinality(S) \in Nat
<1>1. IsFiniteSet(Id) BY FS_Interval, ManagerAssumption DEF Id
<1>2. IsFiniteSet(S) BY <1>1, FS_Subset
<1> QED BY <1>2, FS_CardinalityType

LEMMA MinIsIn ==
  ASSUME NEW S \in SUBSET Id, S # {}
  PROVE  Min(S) \in S
<1>1. S \subseteq Nat BY ManagerAssumption DEF Id
<1>2. PICK x \in S : \A y \in S : <<y, x>> \notin OpToRel(<, Nat)
  BY <1>1, NatLessThanWellFounded, WFMin
<1>3. \A y \in S : ~(y < x) BY <1>1, <1>2 DEF OpToRel
<1>4. \A y \in S : x =< y BY <1>1, <1>3
<1> QED BY <1>4 DEF Min

(* Numbers from next on have no process; the pool has numbers to spare for *)
(* the count that is being set; the worker being stopped is in the pool,   *)
(* and dead once it has been killed.                                       *)
Fresh ==
  /\ \A i \in Id : proc[i] = "none" <=> i >= next
  /\ \A i \in pool : i < next

Enough ==
  pc \in {"resize", "join", "terminated", "killed"} => goal <= Cardinality(pool) + (MaxId + 1 - next)

Stopping ==
  /\ pc \in {"join", "terminated", "killed"} => target \in pool /\ goal < Cardinality(pool)
  /\ pc = "killed" => ~Alive(target)

PoolInv == PoolTypeOK /\ Fresh /\ Enough /\ Stopping /\ NoStray

LEMMA PoolStarts == PoolInit => PoolInv
<1> SUFFICES ASSUME PoolInit PROVE PoolInv OBVIOUS
<1>1. PoolTypeOK
  <2>1. /\ service \in BOOLEAN /\ running \in BOOLEAN /\ pool \in SUBSET Id /\ told \in SUBSET Id
        /\ pc \in {"ready", "resize", "join", "terminated", "killed", "monitor", "pause",
                  "exiting", "stopped"}
    BY DEF PoolInit
  <2>2. goal \in 0..PreCreated /\ target \in 0..MaxId /\ next \in 1..(MaxId + 1)
    BY ManagerAssumption DEF PoolInit
  <2>3. proc \in [Id -> ProcState] BY DEF PoolInit, ProcState
  <2>4. control \in Seq(Id) BY DEF PoolInit
  <2> QED BY <2>1, <2>2, <2>3, <2>4 DEF PoolTypeOK
<1>2. Fresh BY ManagerAssumption DEF PoolInit, Fresh, Id
<1>3. Enough /\ Stopping BY DEF PoolInit, Enough, Stopping
<1>4. NoStray BY DEF PoolInit, NoStray, Alive
<1> QED BY <1>1, <1>2, <1>3, <1>4 DEF PoolInv

---------------------------------------------------------------------------
(* A step of a worker, or its death.                                       *)
LEMMA WorkerSteps ==
  ASSUME PoolTypeOK, NEW i \in Id, WorkerStep(i) \/ Crash(i)
  PROVE  /\ UNCHANGED managerVars /\ told' = told /\ control' \in Seq(Id)
         /\ proc[i] \notin {"none", "dead"}
         /\ \/ proc' = proc
            \/ \E to \in ProcState \ {"none", "init"} : proc' = [proc EXCEPT ![i] = to]
<1>1. control \in Seq(Id) BY DEF PoolTypeOK
<1>2. CASE Poll(i)
  BY <1>1, <1>2 DEF Poll, ProcState
<1>3. CASE \E from \in SUBSET (ProcState \ {"none", "dead"}) :
             \E to \in ProcState \ {"none", "init"} : Move(i, from, to)
  BY <1>1, <1>3 DEF Move
<1>4. CASE Crash(i) BY <1>1, <1>4 DEF Crash, Move, Alive, ProcState
<1>5. Initialised(i) => Move(i, {"init"}, "starting") BY DEF Initialised
<1>6. Started(i) => Move(i, {"starting"}, "loop") BY DEF Started
<1>7. NoStream(i) => Move(i, {"starting"}, "cleanup") BY DEF NoStream
<1>8. Work(i) => Move(i, {"loop"}, "busy") BY DEF Work
<1>9. WorkDone(i) => Move(i, {"busy"}, "loop") BY DEF WorkDone
<1>10. SeesSignal(i) => Move(i, {"loop"}, "cleanup") BY DEF SeesSignal
<1>11. CleanUp(i) => Move(i, {"cleanup"}, "dead") BY DEF CleanUp
<1> QED
  BY <1>2, <1>3, <1>4, <1>5, <1>6, <1>7, <1>8, <1>9, <1>10, <1>11 DEF WorkerStep, ProcState

(* It leaves the manager's facts alone.                                    *)
LEMMA WorkerKeeps ==
  ASSUME PoolInv, NEW i \in Id, WorkerStep(i) \/ Crash(i)
  PROVE  PoolInv'
<1>1. /\ UNCHANGED managerVars /\ told' = told /\ control' \in Seq(Id)
      /\ proc[i] \notin {"none", "dead"}
      /\ \/ proc' = proc
         \/ \E to \in ProcState \ {"none", "init"} : proc' = [proc EXCEPT ![i] = to]
  BY WorkerSteps DEF PoolInv
<1>2. proc \in [Id -> ProcState] BY DEF PoolInv, PoolTypeOK
<1>3. \A j \in Id : (proc'[j] = "none" <=> proc[j] = "none") /\ (Alive(j)' => Alive(j))
  BY <1>1, <1>2 DEF Alive
<1>4. proc' \in [Id -> ProcState] BY <1>1, <1>2
<1>5. PoolTypeOK' BY <1>1, <1>4 DEF PoolInv, PoolTypeOK, managerVars
<1>6. Fresh' /\ Enough' /\ NoStray'
  BY <1>1, <1>3 DEF PoolInv, Fresh, Enough, NoStray, managerVars
<1>7. Stopping'
  BY <1>1, <1>3 DEF PoolInv, PoolTypeOK, Stopping, managerVars
<1> QED BY <1>5, <1>6, <1>7 DEF PoolInv

---------------------------------------------------------------------------
(* The manager's own steps.                                                *)
LEMMA ManagerSteps ==
  ASSUME PoolInv, Manager
  PROVE  PoolInv'
<1> USE ManagerAssumption
<1>1. /\ service \in BOOLEAN /\ running \in BOOLEAN
      /\ goal \in 0..PreCreated /\ target \in 0..MaxId /\ pool \in SUBSET Id
      /\ next \in 1..(MaxId + 1) /\ proc \in [Id -> ProcState] /\ told \in SUBSET Id
      /\ control \in Seq(Id) /\ MaxId \in Nat
      /\ IsFiniteSet(pool) /\ Cardinality(pool) \in Nat
  BY PoolFinite DEF PoolInv, PoolTypeOK
<1>2. CASE StartWorker
  <2>1. /\ pc = "resize" /\ pc' = pc /\ Cardinality(pool) < goal
        /\ proc' = [proc EXCEPT ![next] = "init"] /\ pool' = pool \cup {next} /\ next' = next + 1
        /\ UNCHANGED <<service, running, goal, target, told, control>>
    BY <1>2 DEF StartWorker
  <2>2. next \in Id
    <3>1. goal <= Cardinality(pool) + (MaxId + 1 - next) BY <2>1 DEF PoolInv, Enough
    <3> QED BY <1>1, <2>1, <3>1 DEF Id
  <2>3. next \notin pool BY <1>1 DEF PoolInv, Fresh
  <2>4. Cardinality(pool') = Cardinality(pool) + 1
    BY <1>1, <2>1, <2>3, FS_AddElement
  <2>5. PoolTypeOK'
    <3>1. pool' \in SUBSET Id /\ next' \in 1..(MaxId + 1) BY <1>1, <2>1, <2>2 DEF Id
    <3>2. proc' \in [Id -> ProcState] BY <1>1, <2>1 DEF ProcState
    <3> QED BY <1>1, <2>1, <3>1, <3>2 DEF PoolInv, PoolTypeOK
  <2>6. Fresh' BY <1>1, <2>1, <2>2 DEF PoolInv, Fresh, Id
  <2>7. Enough' BY <1>1, <2>1, <2>4 DEF PoolInv, Enough
  <2>8. Stopping' BY <2>1 DEF Stopping
  <2>9. NoStray' BY <1>1, <2>1 DEF PoolInv, NoStray, Alive
  <2> QED BY <2>5, <2>6, <2>7, <2>8, <2>9 DEF PoolInv
<1>3. CASE StopOldest
  <2>1. /\ pc = "resize" /\ pc' = "join" /\ Cardinality(pool) > goal /\ target' = Min(pool)
        /\ control' = Append(control, Min(pool))
        /\ UNCHANGED <<service, running, goal, pool, next, proc, told>>
    BY <1>3 DEF StopOldest
  <2>2. pool # {} BY <1>1, <2>1, FS_EmptySet
  <2>3. Min(pool) \in pool BY <1>1, <2>2, MinIsIn
  <2>4. Min(pool) \in Id /\ Min(pool) \in 0..MaxId
    <3>1. Min(pool) \in Id BY <1>1, <2>3
    <3>2. Id \subseteq 0..MaxId BY DEF Id
    <3> QED BY <3>1, <3>2
  <2>5. PoolTypeOK' BY <1>1, <2>1, <2>4 DEF PoolTypeOK
  <2>6. Fresh' /\ Enough' /\ NoStray' BY <2>1 DEF PoolInv, Fresh, Enough, NoStray, Alive
  <2>7. Stopping' BY <1>1, <2>1, <2>3 DEF Stopping
  <2> QED BY <2>5, <2>6, <2>7 DEF PoolInv
<1>4. CASE Terminate
  <2>1. /\ pc = "join" /\ pc' = "terminated"
        /\ told' \in SUBSET Id
        /\ UNCHANGED <<service, running, goal, target, pool, next, proc, control>>
    BY <1>1, <1>4 DEF Terminate, PoolInv, Stopping
  <2> QED
    BY <1>1, <2>1 DEF PoolInv, PoolTypeOK, Fresh, Enough, Stopping, NoStray, Alive
<1>5. CASE Kill
  <2>1. /\ pc = "terminated" /\ pc' = "killed" /\ target \in pool /\ Alive(target)
        /\ proc' = [proc EXCEPT ![target] = "dead"]
        /\ UNCHANGED <<service, running, goal, target, pool, next, told, control>>
    BY <1>5 DEF Kill, PoolInv, Stopping
  <2>2. target \in Id BY <1>1, <2>1
  <2>3. PoolTypeOK' BY <1>1, <2>1 DEF PoolTypeOK, ProcState, PoolInv
  <2>4. Fresh' BY <1>1, <2>1, <2>2 DEF PoolInv, Fresh, Alive
  <2>5. NoStray' BY <1>1, <2>1, <2>2 DEF PoolInv, NoStray, Alive
  <2>6. Stopping' BY <1>1, <2>1, <2>2 DEF PoolInv, Stopping, Alive
  <2>7. Enough' BY <2>1 DEF PoolInv, Enough
  <2> QED BY <2>3, <2>4, <2>5, <2>6, <2>7 DEF PoolInv
<1>6. CASE Joined
  <2>1. /\ pc \in {"join", "terminated", "killed"} /\ pc' = "resize"
        /\ pool' = pool \ {target} /\ target' = 0
        /\ UNCHANGED <<service, running, goal, next, proc, told, control>>
    BY <1>6 DEF Joined
  <2>2. target \in pool /\ ~Alive(target) /\ goal < Cardinality(pool)
    BY <1>6, <2>1 DEF Joined, PoolInv, Stopping
  <2>3. Cardinality(pool') = Cardinality(pool) - 1
    BY <1>1, <2>1, <2>2, FS_RemoveElement
  <2>4. PoolTypeOK' BY <1>1, <2>1 DEF PoolTypeOK
  <2>5. Fresh' BY <2>1 DEF PoolInv, Fresh
  <2>6. Enough' BY <1>1, <2>1, <2>2, <2>3 DEF Enough
  <2>7. Stopping' BY <2>1 DEF Stopping
  <2>8. NoStray' BY <2>1, <2>2 DEF PoolInv, NoStray, Alive
  <2> QED BY <2>4, <2>5, <2>6, <2>7, <2>8 DEF PoolInv
<1>7. CASE Resized
  <2>1. pc' \in {"monitor", "ready"} /\ running' \in BOOLEAN
        /\ UNCHANGED <<service, goal, target, pool, next, proc, told, control>>
    BY <1>1, <1>7 DEF Resized
  <2> QED BY <1>1, <2>1 DEF PoolInv, PoolTypeOK, Fresh, Enough, Stopping, NoStray, Alive
<1>8. CASE MonitorEnds \/ Exit
  <2>1. pc' \in {"pause", "stopped"}
        /\ UNCHANGED <<service, running, goal, target, pool, next, proc, told, control>>
    BY <1>8 DEF MonitorEnds, Exit
  <2> QED BY <1>1, <2>1 DEF PoolInv, PoolTypeOK, Fresh, Enough, Stopping, NoStray, Alive
<1> QED BY <1>2, <1>3, <1>4, <1>5, <1>6, <1>7, <1>8 DEF Manager

LEMMA PoolGoesOn == PoolInv /\ [PoolNext]_poolVars => PoolInv'
<1> SUFFICES ASSUME PoolInv, [PoolNext]_poolVars PROVE PoolInv' OBVIOUS
<1>1. CASE Manager BY <1>1, ManagerSteps
<1>2. CASE SetStationCount
  <2>1. PICK n \in 0..PreCreated : n <= Cardinality(pool) + (MaxId + 1 - next) /\ goal' = n
    BY <1>2 DEF SetStationCount
  <2>2. /\ pc' = "resize"
        /\ UNCHANGED <<service, running, target, pool, next, proc, told, control>>
    BY <1>2 DEF SetStationCount
  <2> QED BY <2>1, <2>2 DEF PoolInv, PoolTypeOK, Fresh, Enough, Stopping, NoStray, Alive
<1>3. CASE BenchmarkStop \/ FirstSignal \/ SecondSignal
  <2>1. /\ pc' \in {"stopped", "monitor", "exiting"} /\ running' \in BOOLEAN
        /\ UNCHANGED <<service, goal, target, pool, next, proc, told, control>>
    BY <1>3 DEF BenchmarkStop, FirstSignal, SecondSignal, PoolInv, PoolTypeOK
  <2> QED BY <2>1 DEF PoolInv, PoolTypeOK, Fresh, Enough, Stopping, NoStray, Alive
<1>4. ASSUME NEW i \in Id, WorkerStep(i) \/ Crash(i) PROVE PoolInv'
  BY <1>4, WorkerKeeps
<1>5. CASE UNCHANGED poolVars
  BY <1>5 DEF poolVars, PoolInv, PoolTypeOK, Fresh, Enough, Stopping, NoStray, Alive
<1> QED BY <1>1, <1>2, <1>3, <1>4, <1>5 DEF PoolNext

LEMMA PoolInvariance == PoolSpec => []PoolInv
BY PoolStarts, PoolGoesOn, PTL DEF PoolSpec

(* The state stays of its type: no station number past the last is handed  *)
(* out, and what is put on the control queue is a station's number.        *)
THEOREM PoolTypeCorrect == PoolSpec => []PoolTypeOK
<1>1. PoolInv => PoolTypeOK BY DEF PoolInv
<1> QED BY <1>1, PoolInvariance, PTL

(* A process that is not in the pool is dead, whichever of the message,    *)
(* SIGTERM and SIGKILL ended it, and however long it was busy.             *)
THEOREM StoppedStationsAreDead == PoolSpec => []NoStray
<1>1. PoolInv => NoStray BY DEF PoolInv
<1> QED BY <1>1, PoolInvariance, PTL

(* No station number is used for two processes.                            *)
THEOREM NumbersUsedOnce == PoolSpec => NumbersAreFresh
<1> DEFINE Step == \A i \in Id : proc[i] # "none" => proc'[i] # "init" \/ proc[i] = "init"
<1>1. ASSUME PoolInv, [PoolNext]_poolVars PROVE Step
  <2>1. proc \in [Id -> ProcState] BY <1>1 DEF PoolInv, PoolTypeOK
  <2>2. CASE proc' = proc BY <2>2
  <2>3. CASE StartWorker
    <3>1. proc' = [proc EXCEPT ![next] = "init"] BY <2>3 DEF StartWorker
    <3>2. next \in Id => proc[next] = "none"
      BY <1>1, ManagerAssumption DEF PoolInv, Fresh, Id
    <3> QED BY <2>1, <3>1, <3>2
  <2>4. CASE Kill BY <2>1, <2>4 DEF Kill
  <2>5. ASSUME NEW i \in Id, WorkerStep(i) \/ Crash(i) PROVE Step
    <3>1. proc' = proc \/ \E to \in ProcState \ {"none", "init"} : proc' = [proc EXCEPT ![i] = to]
      BY <1>1, <2>5, WorkerSteps DEF PoolInv
    <3> QED BY <2>1, <3>1
  <2> QED
    BY <1>1, <2>2, <2>3, <2>4, <2>5
    DEF PoolNext, poolVars, Manager, StopOldest, Terminate, Joined, Resized, MonitorEnds, Exit,
        SetStationCount, BenchmarkStop, FirstSignal, SecondSignal
<1>2. PoolInv /\ [PoolNext]_poolVars => [Step]_poolVars BY <1>1
<1> QED BY <1>2, PoolInvariance, PTL DEF PoolSpec, NumbersAreFresh

---------------------------------------------------------------------------
(* The delivery: no message and no request leads to two results.           *)

(* What the selector is publishing or posting is an order.                 *)
Sending == selector \in {"publish", "post"} => sending \in Order

(* In the service a call is at one place at a time, in the queue of its    *)
(* station or with one of the two workers, and has no answer there; one    *)
(* that has returned has left nothing behind.                              *)
InLine(s) ==
  /\ \A i \in DOMAIN line[s] :
       /\ StationOf[line[s][i].order] = s
       /\ step[line[s][i]] # "none" /\ future[line[s][i]] = "open"
  /\ \A i, j \in DOMAIN line[s] : line[s][i] = line[s][j] => i = j

InService(s, l) ==
  LET c == serving[<<s, l>>]
  IN /\ task[<<s, l>>] = "busy" <=> c # NoCall
     /\ c # NoCall =>
          /\ StationOf[c.order] = s
          /\ step[c] # "none" /\ future[c] = "open"
          /\ \A i \in DOMAIN line[s] : line[s][i] # c
          /\ \A k \in Service!Loop : serving[<<s, k>>] = c => k = l

(* A loop starts one worker at a time, and a worker only once.             *)
Starting ==
  /\ \A c, d \in Service!Call :
       c.loop = d.loop /\ step[c] \in {"put", "start"} /\ step[d] \in {"put", "start"} => c = d
  /\ \A s \in Station, l \in Service!Loop : task[<<s, l>>] # "none" => s \in started
  /\ \A c \in Service!Call : step[c] = "start" => task[<<StationOf[c.order], c.loop>>] = "none"

Apart ==
  /\ \A c \in Service!Call : step[c] = "none" => future[c] = "open"
  /\ \A s \in Station : InLine(s)
  /\ \A s \in Station, l \in Service!Loop : InService(s, l)

(* The consumer works on one message at a time, and its call in the        *)
(* service is for that message.                                            *)
InHand ==
  /\ consumer \in {"call", "await", "ack", "failed", "backoff"} => message \in Queue!Message
  /\ \A c \in Service!Call : c.loop = "consumer" /\ step[c] # "none" =>
       consumer = "await" /\ c.order = message.order

(* What may still lead to a result for an order: messages in the queue, a  *)
(* message in the consumer's hands that has no good answer, and a request  *)
(* in the service without an answer.                                       *)
Copies(q, o) == Cardinality({i \in DOMAIN q : q[i].order = o})

Held(o) ==
  /\ consumer \in {"call", "await", "failed", "backoff"}
  /\ message.order = o
  /\ consumer = "await" => future[ConsumerCall(o)] # "good"

Posted(o) == step[ApiCall(o)] # "none" /\ future[ApiCall(o)] = "open"

One(p) == IF p THEN 1 ELSE 0

(* ... is no more than is owed.                                            *)
Covered == \A o \in Order : owed[o] >= Copies(ready, o) + One(Held(o)) + One(Posted(o))

IInv == TypeOK /\ Sending /\ Starting /\ Apart /\ InHand /\ Covered

LEMMA DeliveryConstants ==
  /\ StationOf \in [Order -> Station] /\ NoOrder \notin Order
  /\ MaxRetries \in Nat /\ MaxRetries > 0 /\ Attempts \in Nat /\ Attempts > 0
  /\ NoCall \notin Service!Call
BY DeliveryAssumption, NoneAssumption

(* The calls and messages of an order.                                     *)
LEMMA CallsAre ==
  /\ \A o \in Order : ApiCall(o) \in Service!Call /\ ConsumerCall(o) \in Service!Call
  /\ \A c \in Service!Call :
       /\ c.order \in Order /\ c.loop \in Service!Loop
       /\ c.loop = "api" => c = ApiCall(c.order)
       /\ c.loop = "consumer" => c = ConsumerCall(c.order)
  /\ \A o, p \in Order : ApiCall(o) # ConsumerCall(p)
  /\ \A o, p \in Order : ApiCall(o) = ApiCall(p) \/ ConsumerCall(o) = ConsumerCall(p) => o = p
BY DEF ApiCall, ConsumerCall, Service!Call, Service!Loop

LEMMA Parts ==
  /\ <<>> \in Seq(Queue!Message)
  /\ \A q \in Seq(Queue!Message), m \in Queue!Message : Append(q, m) \in Seq(Queue!Message)
  /\ \A q \in Seq(Queue!Message) : q # <<>> =>
       Head(q) \in Queue!Message /\ Tail(q) \in Seq(Queue!Message)
OBVIOUS

LEMMA QueueTypesStart == Init => TypeOK
<1> SUFFICES ASSUME Init PROVE TypeOK OBVIOUS
<1>1. Service!TypeOK BY DEF Init, Service!Init, Service!TypeOK
<1>2. Queue!TypeOK
  <2>1. attempt \in 0..Attempts BY DeliveryConstants DEF Init, Queue!Init
  <2>2. owed \in [Order -> Int] BY DEF Init, Queue!Init
  <2>3. ready \in Seq(Queue!Message) BY Parts DEF Init, Queue!Init
  <2> QED BY <2>1, <2>2, <2>3 DEF Init, Queue!Init, Queue!TypeOK
<1> QED BY <1>1, <1>2 DEF Init, TypeOK, MaybeOrder

(* The consumer and the broker.                                            *)
LEMMA ConsumerTypes ==
  ASSUME Queue!TypeOK, InHand,
         Queue!Consumer \/ Queue!Connects \/ Queue!Expires \/ Queue!LinkBreaks
  PROVE  Queue!TypeOK'
<1> USE DEF Queue!brokerVars, Queue!consumerVars, Queue!producerVars
<1>1. CASE Queue!Connects BY <1>1 DEF Queue!Connects, Queue!TypeOK
<1>2. CASE Queue!Disconnected BY <1>2 DEF Queue!Disconnected, Queue!TypeOK
<1>3. CASE Queue!Delivers BY <1>3, Parts DEF Queue!Delivers, Queue!TypeOK
<1>4. CASE Queue!Acks BY <1>4 DEF Queue!Acks, Queue!Settled, Queue!TypeOK
<1>5. CASE Queue!GivesUp BY <1>5 DEF Queue!GivesUp, Queue!Settled, Queue!TypeOK
<1>6. CASE Queue!BacksOff
  <2>1. message' \in Queue!Message
    BY <1>6, DeliveryConstants
    DEF Queue!BacksOff, Queue!LastTry, InHand, Queue!Message
  <2> QED BY <1>6, <2>1 DEF Queue!BacksOff, Queue!TypeOK
<1>7. CASE Queue!Republishes
  <2>1. message \in Queue!Message BY <1>7 DEF Queue!Republishes, InHand
  <2>2. ready' \in Seq(Queue!Message) /\ pending' \subseteq Order
    BY <1>7, <2>1, Parts DEF Queue!Republishes, Queue!Enqueued, Queue!TypeOK
  <2> QED BY <1>7, <2>2 DEF Queue!Republishes, Queue!TypeOK
<1>8. CASE Queue!Expires BY <1>8, Parts DEF Queue!Expires, Queue!TypeOK
<1>9. CASE Queue!LinkBreaks 
  <2>1. ready' \in Seq(Queue!Message) BY <1>9, Parts DEF Queue!LinkBreaks
  <2>2. pending' \subseteq Order BY <1>9 DEF Queue!LinkBreaks, Queue!TypeOK
  <2> QED BY <1>9, <2>1, <2>2 DEF Queue!LinkBreaks, Queue!TypeOK
<1> QED BY <1>1, <1>2, <1>3, <1>4, <1>5, <1>6, <1>7, <1>8, <1>9 DEF Queue!Consumer

LEMMA ProducerTypes ==
  ASSUME Queue!TypeOK, NEW o \in Order,
         Queue!Opens \/ Queue!PublishFails(o) \/ Queue!Publishes(o) \/ Queue!PublishGivesUp
  PROVE  Queue!TypeOK'
<1> USE DEF Queue!brokerVars, Queue!consumerVars, Queue!producerVars
<1>1. Queue!New(o) \in Queue!Message BY DeliveryConstants DEF Queue!New, Queue!Message
<1>2. CASE Queue!Opens 
  <2>1. attempt' \in 0..Attempts BY <1>2, DeliveryConstants DEF Queue!Opens, Queue!TypeOK
  <2>2. open' \in BOOLEAN /\ declared' \in BOOLEAN BY <1>2 DEF Queue!Opens, Queue!TypeOK
  <2> QED BY <1>2, <2>1, <2>2 DEF Queue!Opens, Queue!TypeOK
<1>3. CASE Queue!PublishFails(o)
  <2>1. ready' \in Seq(Queue!Message) /\ pending' \subseteq Order
    BY <1>1, <1>3, Parts DEF Queue!PublishFails, Queue!Enqueued, Queue!TypeOK
  <2>2. owed' \in [Order -> Int]
    BY <1>3 DEF Queue!PublishFails, Queue!Counted, Queue!TypeOK
  <2>3. attempt' \in 0..Attempts
    BY <1>3, DeliveryConstants DEF Queue!PublishFails, Queue!TypeOK
  <2> QED BY <1>3, <2>1, <2>2, <2>3 DEF Queue!PublishFails, Queue!TypeOK
<1>4. CASE Queue!Publishes(o)
  <2>1. ready' \in Seq(Queue!Message) /\ pending' \subseteq Order
    BY <1>1, <1>4, Parts DEF Queue!Publishes, Queue!Enqueued, Queue!TypeOK
  <2>2. owed' \in [Order -> Int]
    BY <1>4 DEF Queue!Publishes, Queue!Counted, Queue!TypeOK
  <2>3. attempt' \in 0..Attempts BY <1>4, DeliveryConstants DEF Queue!Publishes
  <2> QED BY <1>4, <2>1, <2>2, <2>3 DEF Queue!Publishes, Queue!TypeOK
<1>5. CASE Queue!PublishGivesUp
  BY <1>5, DeliveryConstants DEF Queue!PublishGivesUp, Queue!TypeOK
<1> QED BY <1>2, <1>3, <1>4, <1>5

(* A call of the service, and a turn of a worker.                          *)
LEMMA ServiceTypes ==
  ASSUME Service!TypeOK, NEW c \in Service!Call,
         \/ Service!Put(c) \/ Service!LooksForWorker(c) \/ Service!StartsWorker(c)
         \/ Service!Returns(c)
  PROVE  Service!TypeOK'
<1> USE DEF Service!workerVars, Service!callVars
<1>1. Service!StationFor(c) \in Station /\ c.loop \in Service!Loop
  BY DeliveryConstants, CallsAre DEF Service!StationFor
<1>2. CASE Service!Put(c)
  <2>1. line' \in [Station -> Seq(Service!Call)]
    BY <1>1, <1>2 DEF Service!Put, Service!TypeOK
  <2>2. users' \in [Station -> SUBSET Service!Loop]
    BY <1>1, <1>2 DEF Service!Put, Service!TypeOK
  <2>3. step' \in [Service!Call -> {"none", "put", "start", "await"}]
    BY <1>2 DEF Service!Put, Service!TypeOK
  <2> QED BY <1>2, <2>1, <2>2, <2>3 DEF Service!Put, Service!TypeOK
<1>3. CASE Service!LooksForWorker(c) BY <1>3 DEF Service!LooksForWorker, Service!TypeOK
<1>4. CASE Service!StartsWorker(c) BY <1>1, <1>4 DEF Service!StartsWorker, Service!TypeOK
<1>5. CASE Service!Returns(c) BY <1>5 DEF Service!Returns, Service!TypeOK
<1> QED BY <1>2, <1>3, <1>4, <1>5

LEMMA WorkerTypes ==
  ASSUME Service!TypeOK, NEW s \in Station, NEW l \in Service!Loop, InService(s, l),
         \/ Service!Waits(s, l) \/ Service!Takes(s, l)
         \/ Service!Finishes(s, l, TRUE) \/ Service!Finishes(s, l, FALSE)
  PROVE  Service!TypeOK'
<1> USE DEF Service!workerVars, Service!callVars
<1>1. CASE Service!Waits(s, l)
  <2>1. bound' \in [Station -> Service!Loop \cup {"none"}]
    BY <1>1 DEF Service!Waits, Service!TypeOK
  <2>2. task' \in [Station \X Service!Loop -> {"none", "idle", "waiting", "busy", "dead"}]
    BY <1>1 DEF Service!Waits, Service!TypeOK
  <2> QED BY <1>1, <2>1, <2>2 DEF Service!Waits, Service!TypeOK
<1>2. CASE Service!Takes(s, l)
  <2>1. Head(line[s]) \in Service!Call /\ Tail(line[s]) \in Seq(Service!Call)
    BY <1>2 DEF Service!Takes, Service!TypeOK
  <2> QED BY <1>2, <2>1 DEF Service!Takes, Service!TypeOK
<1>3. CASE Service!Finishes(s, l, TRUE) BY <1>3 DEF Service!Finishes, Service!TypeOK
<1>4. CASE Service!Finishes(s, l, FALSE) BY <1>4 DEF Service!Finishes, Service!TypeOK
<1> QED BY <1>1, <1>2, <1>3, <1>4

(* What a step does to the service and to the queue, whoever takes it.     *)
LEMMA DeliveryTypes ==
  ASSUME IInv, [Next]_vars
  PROVE  TypeOK' /\ Sending'
<1> USE DEF serviceVars, queueOnly, historyVars, queueVars, selectorVars
<1> DEFINE Rest ==
      /\ route \in {"fire", "queue", "rabbit"}
      /\ selector \in {"ready", "publish", "post", "stopped"}
      /\ sending \in MaybeOrder
      /\ sent \subseteq Order
      /\ backlog \in [Station -> Seq(Order)]
      /\ posting \in [Station -> MaybeOrder]
      /\ http \subseteq Order
      /\ Sending
<1>1. Service!TypeOK /\ Queue!TypeOK /\ Rest /\ InHand BY DEF IInv, TypeOK
<1>2. Rest /\ UNCHANGED <<selectorVars, http>> => Rest' BY DEF Sending
<1>3. UNCHANGED serviceVars => Service!TypeOK' BY <1>1 DEF Service!TypeOK
<1>4. UNCHANGED queueOnly /\ owed' \in [Order -> Int] /\ pending' \subseteq Order => Queue!TypeOK'
  BY <1>1 DEF Queue!TypeOK
<1>5. UNCHANGED queueVars => Queue!TypeOK' BY <1>1, <1>4 DEF Queue!TypeOK
<1>6. Service!TypeOK' /\ Queue!TypeOK' /\ Rest' => TypeOK' /\ Sending' BY DEF TypeOK
<1>7. ASSUME NEW o \in Order, Fires(o) \/ Submits(o) \/ BeginsPublishing(o)
      PROVE  TypeOK' /\ Sending'
  <2>1. Service!TypeOK' /\ Queue!TypeOK'
    BY <1>1, <1>3, <1>4, <1>7 DEF Fires, Submits, BeginsPublishing, Sends, Queue!TypeOK
  <2>2. backlog' \in [Station -> Seq(Order)]
    <3>1. CASE backlog' = backlog BY <1>1, <3>1
    <3>2. CASE Submits(o)
      <4>1. StationOf[o] \in Station BY DeliveryConstants
      <4>2. Append(backlog[StationOf[o]], o) \in Seq(Order) BY <1>1, <4>1
      <4> QED BY <1>1, <3>2, <4>1, <4>2 DEF Submits
    <3> QED BY <1>7, <3>1, <3>2 DEF Fires, BeginsPublishing
  <2>3. Rest'
    BY <1>1, <1>7, <2>2 DEF Fires, Submits, BeginsPublishing, Sends, Sending, MaybeOrder
  <2> QED BY <1>6, <2>1, <2>3
<1>8. CASE Publishing
  <2>1. sending \in Order BY <1>1, <1>8 DEF Publishing, Sending
  <2>2. Service!TypeOK' BY <1>3, <1>8 DEF Publishing
  <2>3. Queue!TypeOK'
    BY <1>1, <1>8, <2>1, ProducerTypes DEF Publishing
  <2>4. Rest' BY <1>1, <1>8, <2>1 DEF Publishing, Sending, MaybeOrder
  <2> QED BY <1>6, <2>2, <2>3, <2>4
<1>9. CASE PostEnds
  <2>1. Service!TypeOK' /\ Queue!TypeOK' BY <1>3, <1>5, <1>9 DEF PostEnds
  <2>2. Rest' BY <1>1, <1>9 DEF PostEnds, Sending, MaybeOrder
  <2> QED BY <1>6, <2>1, <2>2
<1>10. CASE SelectorStops
  <2>1. Service!TypeOK' /\ Queue!TypeOK'
    BY <1>1, <1>3, <1>4, <1>10 DEF SelectorStops, Queue!TypeOK
  <2>2. backlog' \in [Station -> Seq(Order)] BY <1>10 DEF SelectorStops
  <2>3. Rest' BY <1>1, <1>10, <2>2 DEF SelectorStops, Sending, MaybeOrder
  <2> QED BY <1>6, <2>1, <2>3
<1>11. ASSUME NEW s \in Station, StationPosts(s) \/ StationPosted(s)
       PROVE  TypeOK' /\ Sending'
  <2>1. Service!TypeOK' /\ Queue!TypeOK'
    BY <1>3, <1>5, <1>11 DEF StationPosts, StationPosted
  <2>2. CASE StationPosts(s)
    <3>1. backlog[s] \in Seq(Order) /\ backlog[s] # <<>> BY <1>1, <2>2 DEF StationPosts
    <3>2. Head(backlog[s]) \in Order /\ Tail(backlog[s]) \in Seq(Order) BY <3>1
    <3>3. Rest' BY <1>1, <2>2, <3>2 DEF StationPosts, Sending, MaybeOrder
    <3> QED BY <1>6, <2>1, <3>3
  <2>3. CASE StationPosted(s)
    <3>1. Rest' BY <1>1, <2>3 DEF StationPosted, Sending, MaybeOrder
    <3> QED BY <1>6, <2>1, <3>1
  <2> QED BY <1>11, <2>2, <2>3
<1>12. CASE Connecting \/ Broker
          \/ (Queue!Consumer /\ UNCHANGED <<serviceVars, selectorVars, http>>)
  <2>1. Queue!TypeOK' BY <1>1, <1>12, ConsumerTypes DEF Connecting, Broker
  <2>2. Service!TypeOK' BY <1>3, <1>12 DEF Connecting, Broker
  <2>3. Rest' BY <1>1, <1>2, <1>12 DEF Connecting, Broker
  <2> QED BY <1>6, <2>1, <2>2, <2>3
<1>13. ASSUME NEW o \in Order, ConsumerCalls(o)
       PROVE  TypeOK' /\ Sending'
  <2>1. Service!TypeOK' BY <1>1, <1>13, ServiceTypes, CallsAre DEF ConsumerCalls
  <2>2. Queue!TypeOK'
    BY <1>1, <1>13 DEF ConsumerCalls, Queue!Calls, Queue!TypeOK, Queue!brokerVars,
                       Queue!producerVars
  <2>3. Rest' BY <1>1, <1>2, <1>13 DEF ConsumerCalls
  <2> QED BY <1>6, <2>1, <2>2, <2>3
<1>14. ASSUME NEW o \in Order, Arrives(o)
       PROVE  TypeOK' /\ Sending'
  <2>1. Service!TypeOK' BY <1>1, <1>14, ServiceTypes, CallsAre DEF Arrives
  <2>2. Queue!TypeOK' BY <1>1, <1>4, <1>14 DEF Arrives, Queue!Counted, Queue!TypeOK
  <2>3. Rest' BY <1>1, <1>14 DEF Arrives, Sending
  <2> QED BY <1>6, <2>1, <2>2, <2>3
<1>15. ASSUME NEW o \in Order, HttpFails(o)
       PROVE  TypeOK' /\ Sending'
  <2>1. Service!TypeOK' BY <1>3, <1>15 DEF HttpFails
  <2>2. Queue!TypeOK' BY <1>1, <1>4, <1>15 DEF HttpFails, Queue!TypeOK
  <2>3. Rest' BY <1>1, <1>15 DEF HttpFails, Sending
  <2> QED BY <1>6, <2>1, <2>2, <2>3
<1>16. ASSUME NEW c \in Service!Call, Entering(c)
       PROVE  TypeOK' /\ Sending'
  <2>1. Service!TypeOK' BY <1>1, <1>16, ServiceTypes DEF Entering
  <2>2. Queue!TypeOK' BY <1>5, <1>16 DEF Entering
  <2>3. Rest' BY <1>1, <1>2, <1>16 DEF Entering
  <2> QED BY <1>6, <2>1, <2>2, <2>3
<1>17. ASSUME NEW c \in Service!Call, Returns(c)
       PROVE  TypeOK' /\ Sending'
  <2>1. Service!TypeOK' BY <1>1, <1>17, ServiceTypes DEF Returns
  <2>2. Queue!TypeOK'
    <3>1. CASE c.loop = "consumer"
      BY <1>1, <1>17, <3>1 DEF Returns, Queue!IsAnswered, Queue!TypeOK, Queue!brokerVars,
                               Queue!producerVars
    <3>2. CASE c.loop # "consumer"
      BY <1>1, <1>4, <1>17, <3>2 DEF Returns, Queue!TypeOK
    <3> QED BY <3>1, <3>2
  <2>3. Rest' BY <1>1, <1>2, <1>17 DEF Returns
  <2> QED BY <1>6, <2>1, <2>2, <2>3
<1>18. ASSUME NEW s \in Station, NEW l \in Service!Loop, Works(s, l)
       PROVE  TypeOK' /\ Sending'
  <2>1. Service!TypeOK'
    BY <1>1, <1>18, WorkerTypes DEF Works, IInv, Apart
  <2>2. Queue!TypeOK'
    <3>1. CASE UNCHANGED <<owed, pending>> BY <1>5, <1>18, <3>1 DEF Works
    <3>2. CASE /\ Service!Finishes(s, l, TRUE)
               /\ LET o == serving[<<s, l>>].order
                  IN /\ owed' = [owed EXCEPT ![o] = @ - 1]
                     /\ pending' = pending \ {o}
      <4>1. serving[<<s, l>>].order \in Order
        BY <1>1, <3>2, CallsAre DEF IInv, Apart, InService, Service!Finishes, Service!TypeOK
      <4>2. owed' \in [Order -> Int] BY <1>1, <3>2, <4>1 DEF Queue!TypeOK
      <4>3. pending' \subseteq Order BY <1>1, <3>2 DEF Queue!TypeOK
      <4> QED BY <1>4, <1>18, <4>2, <4>3 DEF Works
    <3> QED BY <1>18, <3>1, <3>2 DEF Works
  <2>3. Rest' BY <1>1, <1>2, <1>18 DEF Works
  <2> QED BY <1>6, <2>1, <2>2, <2>3
<1>19. CASE UNCHANGED vars
  <2>1. Rest' BY <1>1, <1>2, <1>19 DEF vars
  <2> QED BY <1>3, <1>5, <1>6, <1>19, <2>1 DEF vars
<1> QED
  BY <1>7, <1>8, <1>9, <1>10, <1>11, <1>12, <1>13, <1>14, <1>15, <1>16, <1>17, <1>18, <1>19
  DEF Next, Selector, Consuming

(* The actions of the service.                                             *)
ServiceMoves ==
  \/ \E c \in Service!Call :
       \/ Service!Put(c) \/ Service!LooksForWorker(c) \/ Service!StartsWorker(c)
       \/ Service!Returns(c)
  \/ \E s \in Station, l \in Service!Loop :
       \/ Service!Waits(s, l) \/ Service!Takes(s, l)
       \/ Service!Finishes(s, l, TRUE) \/ Service!Finishes(s, l, FALSE)

LEMMA ServiceOrNot ==
  ASSUME [Next]_vars
  PROVE  ServiceMoves \/ UNCHANGED serviceVars
<1> USE DEF serviceVars
<1>1. CASE Selector
  BY <1>1 DEF Selector, Fires, Submits, BeginsPublishing, Publishing, PostEnds, SelectorStops,
              StationPosts, StationPosted
<1>2. CASE Connecting \/ Consuming \/ Broker
  BY <1>2, CallsAre DEF Connecting, Consuming, Broker, ConsumerCalls, ServiceMoves
<1>3. ASSUME NEW o \in Order, Arrives(o) \/ HttpFails(o)
      PROVE  ServiceMoves \/ UNCHANGED serviceVars
  BY <1>3, CallsAre DEF Arrives, HttpFails, ServiceMoves
<1>4. ASSUME NEW c \in Service!Call, Entering(c) \/ Returns(c)
      PROVE  ServiceMoves
  BY <1>4 DEF Entering, Returns, ServiceMoves
<1>5. ASSUME NEW s \in Station, NEW l \in Service!Loop, Works(s, l)
      PROVE  ServiceMoves
  BY <1>5 DEF Works, ServiceMoves
<1> QED BY <1>1, <1>2, <1>3, <1>4, <1>5 DEF Next, vars

LEMMA StartsOnce ==
  ASSUME Service!TypeOK, Starting, ServiceMoves
  PROVE  Starting'
<1> USE DEF Service!workerVars, Service!callVars, Service!StationFor
<1>1. ASSUME NEW c \in Service!Call, Service!Put(c) PROVE Starting'
  <2>1. \A d \in Service!Call : step'[d] = IF d = c THEN "put" ELSE step[d]
    BY <1>1 DEF Service!Put, Service!TypeOK
  <2>2. \A d \in Service!Call : d.loop = c.loop => step[d] \notin {"put", "start"}
    BY <1>1 DEF Service!Put
  <2> QED BY <1>1, <2>1, <2>2 DEF Service!Put, Starting
<1>2. ASSUME NEW c \in Service!Call, Service!LooksForWorker(c) PROVE Starting'
  <2>1. StationOf[c.order] \in Station /\ c.loop \in Service!Loop
    BY DeliveryConstants, CallsAre
  <2>2. \A d \in Service!Call :
          step'[d] = IF d # c THEN step[d]
                     ELSE IF StationOf[c.order] \in started THEN "await" ELSE "start"
    BY <1>2 DEF Service!LooksForWorker, Service!TypeOK
  <2>3. step[c] = "put" /\ UNCHANGED <<task, started>> BY <1>2 DEF Service!LooksForWorker
  <2> QED BY <2>1, <2>2, <2>3 DEF Starting
<1>3. ASSUME NEW c \in Service!Call, Service!StartsWorker(c) PROVE Starting'
  <2>1. StationOf[c.order] \in Station /\ c.loop \in Service!Loop
    BY DeliveryConstants, CallsAre
  <2>2. \A d \in Service!Call : step'[d] = IF d = c THEN "await" ELSE step[d]
    BY <1>3 DEF Service!StartsWorker, Service!TypeOK
  <2>3. \A w \in Station \X Service!Loop :
          task'[w] = IF w = <<StationOf[c.order], c.loop>> THEN "idle" ELSE task[w]
    BY <1>3 DEF Service!StartsWorker, Service!TypeOK
  <2>4. step[c] = "start" /\ started' = started \cup {StationOf[c.order]}
    BY <1>3 DEF Service!StartsWorker
  <2>5. ASSUME NEW d \in Service!Call, step'[d] = "start"
        PROVE  task'[<<StationOf[d.order], d.loop>>] = "none"
    <3>1. step[d] = "start" /\ d # c BY <2>2, <2>5
    <3>2. d.loop # c.loop BY <2>4, <3>1 DEF Starting
    <3>3. <<StationOf[d.order], d.loop>> \in Station \X Service!Loop
      BY DeliveryConstants, CallsAre
    <3> QED BY <2>3, <3>1, <3>2, <3>3 DEF Starting
  <2> QED BY <2>2, <2>3, <2>4, <2>5 DEF Starting
<1>4. ASSUME NEW c \in Service!Call, Service!Returns(c) PROVE Starting'
  <2>1. \A d \in Service!Call : step'[d] = IF d = c THEN "none" ELSE step[d]
    BY <1>4 DEF Service!Returns, Service!TypeOK
  <2> QED BY <1>4, <2>1 DEF Service!Returns, Starting
<1>5. ASSUME NEW s \in Station, NEW l \in Service!Loop,
             \/ Service!Waits(s, l) \/ Service!Takes(s, l)
             \/ Service!Finishes(s, l, TRUE) \/ Service!Finishes(s, l, FALSE)
      PROVE  Starting'
  <2>1. step' = step /\ started' = started
    BY <1>5 DEF Service!Waits, Service!Takes, Service!Finishes
  <2>2. \A w \in Station \X Service!Loop : task'[w] = "none" <=> task[w] = "none"
    BY <1>5 DEF Service!Waits, Service!Takes, Service!Finishes, Service!TypeOK
  <2>3. \A c \in Service!Call : <<StationOf[c.order], c.loop>> \in Station \X Service!Loop
    BY DeliveryConstants, CallsAre
  <2> QED BY <2>1, <2>2, <2>3 DEF Starting
<1> QED BY <1>1, <1>2, <1>3, <1>4, <1>5 DEF ServiceMoves

(* A call is put into the queue that is nowhere in the service, and leaves *)
(* it when it has been answered, by the one worker that had it.            *)
LEMMA CallsStayApart ==
  ASSUME Service!TypeOK, Starting, Apart, ServiceMoves
  PROVE  Apart'
<1> USE DEF Service!workerVars, Service!callVars, Service!StationFor
<1>1. ASSUME NEW c \in Service!Call, Service!Put(c) PROVE Apart'
  <2> DEFINE h == StationOf[c.order]
  <2>1. h \in Station BY DeliveryConstants, CallsAre
  <2>2. step[c] = "none" /\ future[c] = "open" BY <1>1 DEF Service!Put, Apart
  <2>3. \A d \in Service!Call : step'[d] = IF d = c THEN "put" ELSE step[d]
    BY <1>1 DEF Service!Put, Service!TypeOK
  <2>4. UNCHANGED <<task, serving, future>> BY <1>1 DEF Service!Put
  <2>5. \A s \in Station : line[s] \in Seq(Service!Call) BY DEF Service!TypeOK
  <2>6. \A s \in Station : s # h => line'[s] = line[s]
    BY <1>1 DEF Service!Put, Service!TypeOK
  <2>7. line'[h] = Append(line[h], c) BY <1>1, <2>1 DEF Service!Put, Service!TypeOK
  <2>8. /\ DOMAIN line'[h] = 1..(Len(line[h]) + 1) /\ Len(line[h]) \in Nat
        /\ DOMAIN line[h] = 1..Len(line[h])
        /\ line'[h][Len(line[h]) + 1] = c
        /\ \A i \in DOMAIN line[h] : line'[h][i] = line[h][i] /\ line[h][i] \in Service!Call
    BY <2>1, <2>5, <2>7
  <2>9. \A i \in DOMAIN line[h] : line[h][i] # c BY <2>1, <2>2 DEF Apart, InLine
  <2> HIDE DEF h
  <2>10. ASSUME NEW s \in Station PROVE InLine(s)'
    <3>1. CASE s # h
      <4>1. \A i \in DOMAIN line[s] : line[s][i] \in Service!Call BY <2>5
      <4> QED BY <2>3, <2>4, <2>6, <3>1, <4>1 DEF Apart, InLine
    <3>2. CASE s = h
      <4>1. ASSUME NEW i \in DOMAIN line'[h]
            PROVE  /\ StationOf[line'[h][i].order] = h
                   /\ step'[line'[h][i]] # "none" /\ future'[line'[h][i]] = "open"
        <5>1. CASE i = Len(line[h]) + 1 BY <2>2, <2>3, <2>4, <2>8, <5>1 DEF h
        <5>2. CASE i \in DOMAIN line[h]
          BY <2>1, <2>3, <2>4, <2>8, <5>2 DEF Apart, InLine
        <5> QED BY <2>8, <5>1, <5>2
      <4>2. ASSUME NEW i \in DOMAIN line'[h], NEW j \in DOMAIN line'[h],
                   line'[h][i] = line'[h][j]
            PROVE  i = j
        <5>1. \A k \in DOMAIN line'[h] : k \in DOMAIN line[h] \/ k = Len(line[h]) + 1
          BY <2>8
        <5> QED BY <2>1, <2>8, <2>9, <4>2, <5>1 DEF Apart, InLine
      <4> QED BY <3>2, <4>1, <4>2 DEF InLine
    <3> QED BY <3>1, <3>2
  <2>11. ASSUME NEW s \in Station, NEW l \in Service!Loop PROVE InService(s, l)'
    <3>1. InService(s, l) BY DEF Apart
    <3>2. serving[<<s, l>>] \in Service!Call \cup {NoCall} BY DEF Service!TypeOK
    <3>3. serving[<<s, l>>] # c BY <2>2, <3>1, DeliveryConstants DEF InService
    <3>4. \A i \in DOMAIN line'[s] :
            line'[s][i] = c \/ (i \in DOMAIN line[s] /\ line'[s][i] = line[s][i])
      BY <2>6, <2>8
    <3> QED BY <2>3, <2>4, <3>1, <3>2, <3>3, <3>4 DEF InService
  <2>12. \A d \in Service!Call : step'[d] = "none" => future'[d] = "open"
    BY <2>3, <2>4 DEF Apart
  <2> QED BY <2>10, <2>11, <2>12 DEF Apart
<1>2. ASSUME NEW c \in Service!Call, Service!LooksForWorker(c) \/ Service!StartsWorker(c)
      PROVE  Apart'
  <2>1. step[c] # "none" /\ \A d \in Service!Call : step'[d] # "none" <=> step[d] # "none"
    BY <1>2 DEF Service!LooksForWorker, Service!StartsWorker, Service!TypeOK
  <2>2. UNCHANGED <<line, serving, future>>
    BY <1>2 DEF Service!LooksForWorker, Service!StartsWorker
  <2>3. \A w \in Station \X Service!Loop : task'[w] = "busy" <=> task[w] = "busy"
    BY <1>2, DeliveryConstants, CallsAre
    DEF Service!LooksForWorker, Service!StartsWorker, Service!TypeOK, Starting
  <2>4. \A s \in Station : \A i \in DOMAIN line[s] : line[s][i] \in Service!Call
    BY DEF Service!TypeOK
  <2>5. \A w \in Station \X Service!Loop : serving[w] \in Service!Call \cup {NoCall}
    BY DEF Service!TypeOK
  <2>6. ASSUME NEW s \in Station PROVE InLine(s)'
    BY <2>1, <2>2, <2>4 DEF Apart, InLine
  <2>7. ASSUME NEW s \in Station, NEW l \in Service!Loop PROVE InService(s, l)'
    BY <2>1, <2>2, <2>3, <2>5 DEF Apart, InService
  <2> QED BY <2>1, <2>2, <2>6, <2>7 DEF Apart
<1>3. ASSUME NEW c \in Service!Call, Service!Returns(c) PROVE Apart'
  <2>1. future[c] # "open" BY <1>3 DEF Service!Returns, Service!Answered
  <2>2. UNCHANGED <<line, task, serving>> BY <1>3 DEF Service!Returns
  <2>3. \A d \in Service!Call : /\ step'[d] = IF d = c THEN "none" ELSE step[d]
                                /\ future'[d] = IF d = c THEN "open" ELSE future[d]
    BY <1>3 DEF Service!Returns, Service!TypeOK
  <2>4. \A s \in Station : \A i \in DOMAIN line[s] : line[s][i] \in Service!Call
    BY DEF Service!TypeOK
  <2>5. \A w \in Station \X Service!Loop : serving[w] \in Service!Call \cup {NoCall}
    BY DEF Service!TypeOK
  <2>6. ASSUME NEW s \in Station PROVE InLine(s)'
    BY <2>1, <2>2, <2>3, <2>4 DEF Apart, InLine
  <2>7. ASSUME NEW s \in Station, NEW l \in Service!Loop PROVE InService(s, l)'
    BY <2>1, <2>2, <2>3, <2>5 DEF Apart, InService
  <2> QED BY <2>3, <2>6, <2>7 DEF Apart
<1>4. ASSUME NEW s \in Station, NEW l \in Service!Loop, Service!Waits(s, l) PROVE Apart'
  <2>1. UNCHANGED <<line, serving, step, future>> BY <1>4 DEF Service!Waits
  <2>2. \A w \in Station \X Service!Loop : task'[w] = "busy" <=> task[w] = "busy"
    BY <1>4 DEF Service!Waits, Service!TypeOK
  <2>3. ASSUME NEW h \in Station PROVE InLine(h)' BY <2>1 DEF Apart, InLine
  <2>4. ASSUME NEW h \in Station, NEW k \in Service!Loop PROVE InService(h, k)'
    BY <2>1, <2>2 DEF Apart, InService
  <2> QED BY <2>1, <2>3, <2>4 DEF Apart
<1>5. ASSUME NEW s \in Station, NEW l \in Service!Loop, Service!Takes(s, l) PROVE Apart'
  <2> DEFINE c == Head(line[s])
  <2>1. line[s] \in Seq(Service!Call) /\ line[s] # <<>>
    BY <1>5 DEF Service!Takes, Service!TypeOK
  <2>2. /\ c \in Service!Call /\ c = line[s][1] /\ 1 \in DOMAIN line[s]
        /\ \A i \in DOMAIN Tail(line[s]) :
             /\ i + 1 \in DOMAIN line[s] /\ Tail(line[s])[i] = line[s][i + 1]
             /\ i \in Nat \ {0}
    BY <2>1
  <2>3. \A h \in Station : line'[h] = IF h = s THEN Tail(line[s]) ELSE line[h]
    BY <1>5 DEF Service!Takes, Service!TypeOK
  <2>4. \A w \in Station \X Service!Loop :
          /\ serving'[w] = IF w = <<s, l>> THEN c ELSE serving[w]
          /\ task'[w] = IF w = <<s, l>> THEN "busy" ELSE task[w]
    BY <1>5 DEF Service!Takes, Service!TypeOK
  <2>5. UNCHANGED <<step, future>> BY <1>5 DEF Service!Takes
  <2> HIDE DEF c
  <2>6. /\ StationOf[c.order] = s /\ step[c] # "none" /\ future[c] = "open"
        /\ \A i \in DOMAIN Tail(line[s]) : Tail(line[s])[i] # c
    <3>1. InLine(s) BY DEF Apart
    <3>2. ASSUME NEW i \in DOMAIN Tail(line[s]) PROVE Tail(line[s])[i] # c
      <4>1. i + 1 # 1 BY <2>2
      <4> QED BY <2>2, <3>1, <4>1 DEF InLine
    <3> QED BY <2>2, <3>1, <3>2 DEF InLine
  <2>7. \A h \in Station, k \in Service!Loop : serving[<<h, k>>] # c
    <3> SUFFICES ASSUME NEW h \in Station, NEW k \in Service!Loop, serving[<<h, k>>] = c
                 PROVE  FALSE
      OBVIOUS
    <3>1. c # NoCall BY <2>2, DeliveryConstants
    <3>2. InService(h, k) BY DEF Apart
    <3>3. h = s BY <2>6, <3>1, <3>2 DEF InService
    <3> QED BY <2>2, <3>1, <3>2, <3>3 DEF InService
  <2>8. ASSUME NEW h \in Station PROVE InLine(h)'
    <3>1. CASE h # s BY <2>3, <2>5, <3>1 DEF Apart, InLine
    <3>2. CASE h = s
      <4>1. InLine(s) BY DEF Apart
      <4>2. ASSUME NEW i \in DOMAIN Tail(line[s]), NEW j \in DOMAIN Tail(line[s]),
                   Tail(line[s])[i] = Tail(line[s])[j]
            PROVE  i = j
        <5>1. i + 1 = j + 1 BY <2>2, <4>1, <4>2 DEF InLine
        <5> QED BY <2>2, <5>1
      <4>3. ASSUME NEW i \in DOMAIN Tail(line[s])
            PROVE  /\ StationOf[Tail(line[s])[i].order] = s
                   /\ step'[Tail(line[s])[i]] # "none" /\ future'[Tail(line[s])[i]] = "open"
        BY <2>2, <2>5, <4>1 DEF InLine
      <4>4. line'[h] = Tail(line[s]) BY <2>3, <3>2
      <4> QED BY <3>2, <4>2, <4>3, <4>4 DEF InLine
    <3> QED BY <3>1, <3>2
  <2>9. ASSUME NEW h \in Station, NEW k \in Service!Loop PROVE InService(h, k)'
    <3>1. InService(h, k) BY DEF Apart
    <3>2. \A i \in DOMAIN line'[h] : \E j \in DOMAIN line[h] : line'[h][i] = line[h][j]
      BY <2>2, <2>3
    <3>3. CASE <<h, k>> = <<s, l>>
      <4>1. c # NoCall BY <2>2, DeliveryConstants
      <4>2. serving'[<<h, k>>] = c /\ task'[<<h, k>>] = "busy" BY <2>4, <3>3
      <4>3. \A m \in Service!Loop : serving'[<<h, m>>] = c => m = k BY <2>4, <2>7, <3>3
      <4>4. \A i \in DOMAIN line'[h] : line'[h][i] # c BY <2>3, <2>6, <3>3
      <4> QED BY <2>5, <2>6, <3>3, <4>1, <4>2, <4>3, <4>4 DEF InService
    <3>4. CASE <<h, k>> # <<s, l>>
      <4>1. serving'[<<h, k>>] = serving[<<h, k>>] /\ task'[<<h, k>>] = task[<<h, k>>]
        BY <2>4, <3>4
      <4>2. \A m \in Service!Loop : serving'[<<h, m>>] = serving[<<h, k>>]
              => serving[<<h, m>>] = serving[<<h, k>>]
        BY <2>4, <2>7
      <4> QED BY <2>5, <3>1, <3>2, <4>1, <4>2 DEF InService
    <3> QED BY <3>3, <3>4
  <2> QED BY <2>5, <2>8, <2>9 DEF Apart
<1>6. ASSUME NEW s \in Station, NEW l \in Service!Loop, NEW ok \in BOOLEAN,
             Service!Finishes(s, l, ok)
      PROVE  Apart'
  <2> DEFINE c == serving[<<s, l>>]
  <2>1. InService(s, l) /\ task[<<s, l>>] = "busy" BY <1>6 DEF Service!Finishes, Apart
  <2>2. c # NoCall /\ c \in Service!Call /\ StationOf[c.order] = s /\ step[c] # "none"
    BY <2>1 DEF InService, Service!TypeOK
  <2>3. \A d \in Service!Call : d # c => future'[d] = future[d]
    BY <1>6 DEF Service!Finishes, Service!TypeOK
  <2>4. \A w \in Station \X Service!Loop :
          /\ serving'[w] = IF w = <<s, l>> THEN NoCall ELSE serving[w]
          /\ task'[w] = IF w = <<s, l>> THEN "idle" ELSE task[w]
    BY <1>6 DEF Service!Finishes, Service!TypeOK
  <2>5. UNCHANGED <<line, step>> BY <1>6 DEF Service!Finishes
  <2>6. \A h \in Station : \A i \in DOMAIN line[h] : line[h][i] \in Service!Call
    BY DEF Service!TypeOK
  <2>7. \A w \in Station \X Service!Loop : serving[w] \in Service!Call \cup {NoCall}
    BY DEF Service!TypeOK
  <2>8. \A h \in Station : \A i \in DOMAIN line[h] : line[h][i] # c
    <3> SUFFICES ASSUME NEW h \in Station, NEW i \in DOMAIN line[h], line[h][i] = c
                 PROVE  FALSE
      OBVIOUS
    <3>1. h = s BY <2>2 DEF Apart, InLine
    <3> QED BY <2>1, <2>2, <3>1 DEF InService
  <2>9. \A h \in Station, k \in Service!Loop : serving[<<h, k>>] = c => <<h, k>> = <<s, l>>
    <3> SUFFICES ASSUME NEW h \in Station, NEW k \in Service!Loop, serving[<<h, k>>] = c
                 PROVE  <<h, k>> = <<s, l>>
      OBVIOUS
    <3>1. h = s BY <2>2 DEF Apart, InService
    <3> QED BY <2>1, <2>2, <3>1 DEF InService
  <2> HIDE DEF c
  <2>10. ASSUME NEW h \in Station PROVE InLine(h)'
    BY <2>3, <2>5, <2>6, <2>8 DEF Apart, InLine
  <2>11. ASSUME NEW h \in Station, NEW k \in Service!Loop PROVE InService(h, k)'
    <3>1. CASE <<h, k>> = <<s, l>> BY <2>4, <3>1 DEF InService
    <3>2. CASE <<h, k>> # <<s, l>>
      <4>1. InService(h, k) BY DEF Apart
      <4>2. serving'[<<h, k>>] = serving[<<h, k>>] /\ task'[<<h, k>>] = task[<<h, k>>]
        BY <2>4, <3>2
      <4>3. serving[<<h, k>>] # c BY <2>9, <3>2
      <4>4. \A m \in Service!Loop : serving'[<<h, m>>] # NoCall
              => serving'[<<h, m>>] = serving[<<h, m>>]
        BY <2>4
      <4>5. serving[<<h, k>>] \in Service!Call \cup {NoCall} BY <2>7
      <4> QED BY <2>3, <2>5, <4>1, <4>2, <4>3, <4>4, <4>5 DEF InService
    <3> QED BY <3>1, <3>2
  <2>12. \A d \in Service!Call : step'[d] = "none" => future'[d] = "open"
    BY <2>2, <2>3, <2>5 DEF Apart
  <2> QED BY <2>10, <2>11, <2>12 DEF Apart
<1> QED BY <1>1, <1>2, <1>3, <1>4, <1>5, <1>6 DEF ServiceMoves

(* Who moves the consumer, its message, and the calls it makes.            *)
LEMMA MessageStaysInHand ==
  ASSUME IInv, [Next]_vars
  PROVE  InHand'
<1> USE DEF serviceVars, queueOnly, historyVars, queueVars, selectorVars
<1>1. Service!TypeOK /\ Queue!TypeOK /\ InHand BY DEF IInv, TypeOK
<1>2. CASE UNCHANGED <<consumer, message, step>> BY <1>1, <1>2 DEF InHand
<1>3. ASSUME UNCHANGED step, consumer # "await",
             consumer' \in {"call", "ack", "failed", "backoff"} => message' \in Queue!Message,
             consumer' # "await"
      PROVE  InHand'
  BY <1>1, <1>3 DEF InHand
<1>4. CASE Selector
  BY <1>2, <1>4
  DEF Selector, Fires, Submits, BeginsPublishing, Publishing, PostEnds, SelectorStops,
      StationPosts, StationPosted, Queue!Opens, Queue!PublishFails, Queue!Publishes,
      Queue!PublishGivesUp, Queue!consumerVars
<1>5. CASE Connecting \/ (Queue!Consumer /\ UNCHANGED <<serviceVars, selectorVars, http>>)
  <2>1. UNCHANGED step BY <1>5 DEF Connecting
  <2>2. CASE Queue!Connects BY <1>3, <2>1, <2>2 DEF Queue!Connects
  <2>3. CASE Queue!Disconnected BY <1>3, <2>1, <2>3 DEF Queue!Disconnected
  <2>4. CASE Queue!Delivers
    <3>1. message' \in Queue!Message BY <1>1, <2>4, Parts DEF Queue!Delivers, Queue!TypeOK
    <3> QED BY <1>3, <2>1, <2>4, <3>1 DEF Queue!Delivers
  <2>5. CASE Queue!Acks \/ Queue!GivesUp
    BY <1>3, <2>1, <2>5 DEF Queue!Acks, Queue!GivesUp, Queue!Settled
  <2>6. CASE Queue!BacksOff
    <3>1. message' \in Queue!Message
      BY <1>1, <2>6, DeliveryConstants DEF Queue!BacksOff, Queue!LastTry, InHand, Queue!Message
    <3> QED BY <1>3, <2>1, <2>6, <3>1 DEF Queue!BacksOff
  <2>7. CASE Queue!Republishes BY <1>3, <2>1, <2>7 DEF Queue!Republishes
  <2> QED BY <1>5, <2>2, <2>3, <2>4, <2>5, <2>6, <2>7 DEF Connecting, Queue!Consumer
<1>6. ASSUME NEW o \in Order, ConsumerCalls(o) PROVE InHand'
  <2>1. /\ consumer = "call" /\ consumer' = "await"
        /\ message' = message /\ message.order = o
    BY <1>6 DEF ConsumerCalls, Queue!Calls
  <2>2. \A c \in Service!Call : c # ConsumerCall(o) => step'[c] = step[c]
    BY <1>1, <1>6 DEF ConsumerCalls, Service!Put, Service!TypeOK
  <2>3. ConsumerCall(o).order = o BY DEF ConsumerCall
  <2> QED BY <1>1, <2>1, <2>2, <2>3 DEF InHand
<1>7. CASE Broker
  BY <1>2, <1>7 DEF Broker, Queue!Expires, Queue!LinkBreaks, Queue!consumerVars
<1>8. ASSUME NEW o \in Order, Arrives(o) PROVE InHand'
  <2>1. UNCHANGED <<consumer, message>> BY <1>8 DEF Arrives
  <2>2. \A c \in Service!Call : c # ApiCall(o) => step'[c] = step[c]
    BY <1>1, <1>8 DEF Arrives, Service!Put, Service!TypeOK
  <2>3. ApiCall(o).loop = "api" BY DEF ApiCall
  <2> QED BY <1>1, <2>1, <2>2, <2>3 DEF InHand
<1>9. ASSUME NEW o \in Order, HttpFails(o) PROVE InHand' BY <1>2, <1>9 DEF HttpFails
<1>10. ASSUME NEW c \in Service!Call, Entering(c) PROVE InHand'
  <2>1. UNCHANGED <<consumer, message>> BY <1>10 DEF Entering
  <2>2. \A d \in Service!Call : step'[d] # "none" => step[d] # "none"
    BY <1>1, <1>10
    DEF Entering, Service!LooksForWorker, Service!StartsWorker, Service!TypeOK
  <2> QED BY <1>1, <2>1, <2>2 DEF InHand
<1>11. ASSUME NEW c \in Service!Call, Returns(c) PROVE InHand'
  <2>1. step[c] = "await" /\ \A d \in Service!Call : step'[d] = IF d = c THEN "none" ELSE step[d]
    BY <1>1, <1>11 DEF Returns, Service!Returns, Service!Answered, Service!TypeOK
  <2>2. CASE c.loop = "consumer"
    <3>1. consumer = "await" /\ message' = message /\ consumer' \in {"ack", "failed"}
      BY <1>11, <2>2 DEF Returns, Queue!IsAnswered
    <3>2. ASSUME NEW d \in Service!Call, d.loop = "consumer" PROVE step'[d] = "none"
      <4>1. step[d] # "none" => d.order = c.order BY <1>1, <2>1, <2>2, <3>2 DEF InHand
      <4> QED BY <2>1, <2>2, <3>2, <4>1, CallsAre
    <3> QED BY <1>1, <3>1, <3>2 DEF InHand
  <2>3. CASE c.loop # "consumer"
    <3>1. UNCHANGED <<consumer, message>> BY <1>11, <2>3 DEF Returns
    <3> QED BY <1>1, <2>1, <3>1 DEF InHand
  <2> QED BY <2>2, <2>3
<1>12. ASSUME NEW s \in Station, NEW l \in Service!Loop, Works(s, l) PROVE InHand'
  BY <1>2, <1>12
  DEF Works, Service!Waits, Service!Takes, Service!Finishes, Service!callVars
<1> QED
  BY <1>2, <1>4, <1>5, <1>6, <1>7, <1>8, <1>9, <1>10, <1>11, <1>12 DEF Next, Consuming, vars

-----------------------------------------------------------------------------
(* Counting the messages of an order.                                      *)
LEMMA CopiesAreFew ==
  ASSUME NEW q \in Seq(Queue!Message), NEW o
  PROVE  /\ IsFiniteSet({i \in DOMAIN q : q[i].order = o})
         /\ Copies(q, o) \in Nat
<1> DEFINE S == {i \in DOMAIN q : q[i].order = o}
<1>1. S \subseteq 1..Len(q) /\ Len(q) \in Nat OBVIOUS
<1>2. IsFiniteSet(1..Len(q)) BY <1>1, FS_Interval
<1>3. IsFiniteSet(S) BY <1>1, <1>2, FS_Subset
<1> QED BY <1>3, FS_CardinalityType DEF Copies

LEMMA CopiesOfNone == \A o : Copies(<<>>, o) = 0
<1>1. \A o : {i \in DOMAIN <<>> : <<>>[i].order = o} = {} OBVIOUS
<1> QED BY <1>1, FS_EmptySet DEF Copies

LEMMA CopiesAppended ==
  ASSUME NEW q \in Seq(Queue!Message), NEW m \in Queue!Message, NEW o
  PROVE  Copies(Append(q, m), o) <= Copies(q, o) + One(m.order = o)
<1> DEFINE S == {i \in DOMAIN q : q[i].order = o}
           T == {i \in DOMAIN Append(q, m) : Append(q, m)[i].order = o}
           n == Len(q) + 1
<1>1. /\ DOMAIN Append(q, m) = 1..n /\ Len(q) \in Nat /\ DOMAIN q = 1..Len(q)
      /\ Append(q, m)[n] = m /\ \A i \in 1..Len(q) : Append(q, m)[i] = q[i]
  OBVIOUS
<1>2. T = IF m.order = o THEN S \cup {n} ELSE S
  <2>1. \A i \in 1..n : i \in 1..Len(q) \/ i = n BY <1>1
  <2> QED BY <1>1, <2>1
<1>3. n \notin S BY <1>1
<1>4. IsFiniteSet(S) /\ Cardinality(S) \in Nat BY CopiesAreFew DEF Copies
<1> HIDE DEF S, T, n
<1>5. Cardinality(S \cup {n}) = Cardinality(S) + 1 BY <1>3, <1>4, FS_AddElement
<1>6. Cardinality(T) <= Cardinality(S) + One(m.order = o) BY <1>2, <1>4, <1>5 DEF One
<1> QED BY <1>6 DEF Copies, S, T

LEMMA CopiesTaken ==
  ASSUME NEW q \in Seq(Queue!Message), q # <<>>, NEW o
  PROVE  Copies(Tail(q), o) + One(Head(q).order = o) <= Copies(q, o)
<1> DEFINE S == {i \in DOMAIN q : q[i].order = o}
           T == {i \in DOMAIN Tail(q) : Tail(q)[i].order = o}
           R == S \ {1}
           f == [i \in T |-> i + 1]
<1>1. /\ Head(q) = q[1] /\ 1 \in DOMAIN q
      /\ \A i \in DOMAIN Tail(q) : /\ i \in Nat \ {0} /\ i + 1 \in DOMAIN q
                                   /\ Tail(q)[i] = q[i + 1]
  OBVIOUS
<1>2. IsFiniteSet(S) /\ Cardinality(S) \in Nat BY CopiesAreFew DEF Copies
<1>3. f \in Injection(T, R)
  <2>1. f \in [T -> R] BY <1>1
  <2>2. \A i, j \in T : f[i] = f[j] => i = j BY <1>1
  <2> QED BY <2>1, <2>2 DEF Injection, IsInjective
<1>4. IsFiniteSet(R) /\ R \subseteq S BY <1>2, FS_Subset
<1>5. 1 \in S <=> Head(q).order = o BY <1>1
<1> HIDE DEF S, T, R, f
<1>6. Cardinality(T) <= Cardinality(R) /\ Cardinality(T) \in Nat /\ Cardinality(R) \in Nat
  BY <1>3, <1>4, FS_Injection, FS_CardinalityType
<1>7. Cardinality(R) = IF 1 \in S THEN Cardinality(S) - 1 ELSE Cardinality(S)
  BY <1>2, FS_RemoveElement DEF R
<1>8. Cardinality(T) + One(Head(q).order = o) <= Cardinality(S)
  BY <1>2, <1>5, <1>6, <1>7 DEF One
<1> QED BY <1>8 DEF Copies, S, T

(* A step that adds no message, no answer to be had and no request, and    *)
(* owes no less.                                                           *)
LEMMA NothingAdded ==
  ASSUME Queue!TypeOK, Queue!TypeOK', Covered, NEW o \in Order,
         owed'[o] = owed[o], Copies(ready', o) <= Copies(ready, o),
         Held(o)' => Held(o), Posted(o)' => Posted(o)
  PROVE  owed'[o] >= Copies(ready', o) + One(Held(o)') + One(Posted(o)')
<1>1. owed[o] \in Int /\ owed[o] >= Copies(ready, o) + One(Held(o)) + One(Posted(o))
  BY DEF Covered, Queue!TypeOK
<1>2. Copies(ready, o) \in Nat /\ Copies(ready', o) \in Nat BY CopiesAreFew DEF Queue!TypeOK
<1>3. One(Held(o)') <= One(Held(o)) /\ One(Held(o)') \in 0..1 /\ One(Held(o)) \in 0..1
  BY DEF One
<1>4. One(Posted(o)') <= One(Posted(o)) /\ One(Posted(o)') \in 0..1 /\ One(Posted(o)) \in 0..1
  BY DEF One
<1> QED BY <1>1, <1>2, <1>3, <1>4

(* A message of an order is put into the queue, and counted.               *)
LEMMA MessageAdded ==
  ASSUME Queue!TypeOK, Covered, NEW p \in Order, Queue!Enqueued(Queue!New(p)),
         Queue!Counted(p), UNCHANGED <<consumer, message, step, future>>
  PROVE  Covered'
<1> SUFFICES ASSUME NEW o \in Order
             PROVE  owed'[o] >= Copies(ready', o) + One(Held(o)') + One(Posted(o)')
  BY DEF Covered
<1>1. owed[o] \in Int /\ owed[o] >= Copies(ready, o) + One(Held(o)) + One(Posted(o))
  BY DEF Covered, Queue!TypeOK
<1>2. Queue!New(p) \in Queue!Message /\ Queue!New(p).order = p
  BY DeliveryConstants DEF Queue!New, Queue!Message
<1>3. ready' = Append(ready, Queue!New(p)) \/ ready' = ready BY DEF Queue!Enqueued
<1>4. ready \in Seq(Queue!Message) /\ Copies(ready, o) \in Nat
  BY CopiesAreFew DEF Queue!TypeOK
<1>5. ready' \in Seq(Queue!Message) BY <1>2, <1>3, <1>4, Parts
<1>6. Copies(ready', o) \in Nat BY <1>5, CopiesAreFew
<1>7. Copies(ready', o) <= Copies(ready, o) + One(p = o)
  <2>1. CASE ready' = ready BY <1>4, <2>1 DEF One
  <2>2. CASE ready' = Append(ready, Queue!New(p)) BY <1>2, <1>4, <2>2, CopiesAppended
  <2> QED BY <1>3, <2>1, <2>2
<1>8. owed'[o] = owed[o] + One(p = o) BY DEF Queue!Counted, Queue!TypeOK, One
<1>9. One(p = o) \in 0..1 /\ One(Held(o)) \in 0..1 /\ One(Posted(o)) \in 0..1 BY DEF One
<1>10. (Held(o)' <=> Held(o)) /\ (Posted(o)' <=> Posted(o)) BY DEF Held, Posted
<1>11. One(Held(o)') = One(Held(o)) /\ One(Posted(o)') = One(Posted(o)) BY <1>10 DEF One
<1> QED BY <1>1, <1>4, <1>6, <1>7, <1>8, <1>9, <1>11

(* The consumer's own steps: a message passes from the queue into its      *)
(* hands, and back.                                                        *)
LEMMA ConsumerCovered ==
  ASSUME IInv, Queue!TypeOK', UNCHANGED <<step, future>>,
         Queue!Consumer \/ Queue!Connects \/ Queue!Expires \/ Queue!LinkBreaks
  PROVE  Covered'
<1> USE DEF Queue!brokerVars, Queue!consumerVars, Queue!producerVars
<1> SUFFICES ASSUME NEW o \in Order
             PROVE  owed'[o] >= Copies(ready', o) + One(Held(o)') + One(Posted(o)')
  BY DEF Covered
<1>1. Queue!TypeOK /\ InHand /\ Covered BY DEF IInv, TypeOK
<1>2. owed[o] \in Int /\ owed[o] >= Copies(ready, o) + One(Held(o)) + One(Posted(o))
  BY <1>1 DEF Covered, Queue!TypeOK
<1>3. /\ ready \in Seq(Queue!Message) /\ ready' \in Seq(Queue!Message)
      /\ Copies(ready, o) \in Nat /\ Copies(ready', o) \in Nat
  BY <1>1, CopiesAreFew DEF Queue!TypeOK
<1>4. (Posted(o)' <=> Posted(o)) /\ One(Posted(o)') = One(Posted(o)) BY DEF Posted, One
<1>5. One(Held(o)) \in 0..1 /\ One(Held(o)') \in 0..1 /\ One(Posted(o)) \in 0..1 BY DEF One
<1>6. owed' = owed
  BY DEF Queue!Consumer, Queue!Connects, Queue!Disconnected, Queue!Delivers, Queue!Acks,
         Queue!GivesUp, Queue!BacksOff, Queue!Republishes, Queue!Expires, Queue!LinkBreaks
<1>7. CASE Queue!Connects \/ Queue!Disconnected \/ Queue!Acks \/ Queue!GivesUp \/ Queue!BacksOff
  <2>1. ready' = ready
    BY <1>7 DEF Queue!Connects, Queue!Disconnected, Queue!Acks, Queue!GivesUp, Queue!BacksOff
  <2>2. Held(o)' => Held(o)
    <3>1. CASE Queue!BacksOff
      <4>1. message \in Queue!Message /\ message'.order = message.order
        BY <1>1, <3>1 DEF Queue!BacksOff, InHand, Queue!Message
      <4> QED BY <3>1, <4>1 DEF Queue!BacksOff, Held
    <3>2. CASE Queue!Connects \/ Queue!Disconnected \/ Queue!Acks \/ Queue!GivesUp
      BY <3>2 DEF Queue!Connects, Queue!Disconnected, Queue!Acks, Queue!GivesUp,
                  Queue!Settled, Held
    <3> QED BY <1>7, <3>1, <3>2
  <2> QED BY <1>1, <1>3, <1>4, <1>6, <2>1, <2>2, NothingAdded
<1>8. CASE Queue!Delivers
  <2>1. ready # <<>> /\ ready' = Tail(ready) /\ message' = Head(ready) /\ consumer' = "call"
    BY <1>8 DEF Queue!Delivers
  <2>2. Held(o)' <=> Head(ready).order = o BY <2>1 DEF Held
  <2>3. Copies(Tail(ready), o) + One(Head(ready).order = o) <= Copies(ready, o)
    BY <1>3, <2>1, CopiesTaken
  <2>4. One(Held(o)') = One(Head(ready).order = o) BY <2>2 DEF One
  <2> QED BY <1>2, <1>3, <1>4, <1>5, <1>6, <2>1, <2>3, <2>4
<1>9. CASE Queue!Republishes
  <2>1. message \in Queue!Message BY <1>1, <1>9 DEF Queue!Republishes, InHand
  <2>2. ready' = ready \/ ready' = Append(ready, message)
    BY <1>9 DEF Queue!Republishes, Queue!Enqueued
  <2>3. ~Held(o)' /\ (Held(o) <=> message.order = o) BY <1>9 DEF Queue!Republishes, Held
  <2>4. One(Held(o)') = 0 /\ One(Held(o)) = One(message.order = o) BY <2>3 DEF One
  <2>5. Copies(ready', o) <= Copies(ready, o) + One(message.order = o)
    <3>1. CASE ready' = ready BY <1>3, <1>5, <2>4, <3>1
    <3>2. CASE ready' = Append(ready, message) BY <1>3, <2>1, <3>2, CopiesAppended
    <3> QED BY <2>2, <3>1, <3>2
  <2> QED BY <1>2, <1>3, <1>4, <1>5, <1>6, <2>4, <2>5
<1>10. CASE Queue!Expires
  <2>1. ready # <<>> /\ ready' = Tail(ready) /\ UNCHANGED <<consumer, message>>
    BY <1>10 DEF Queue!Expires
  <2>2. Copies(Tail(ready), o) + One(Head(ready).order = o) <= Copies(ready, o)
    BY <1>3, <2>1, CopiesTaken
  <2>3. One(Head(ready).order = o) \in 0..1 BY DEF One
  <2>4. Copies(ready', o) <= Copies(ready, o) BY <1>3, <2>1, <2>2, <2>3
  <2>5. Held(o)' => Held(o) BY <2>1 DEF Held
  <2> QED BY <1>1, <1>4, <1>6, <2>4, <2>5, NothingAdded
<1>11. CASE Queue!LinkBreaks
  <2>1. ready' = <<>> /\ UNCHANGED <<consumer, message>> BY <1>11 DEF Queue!LinkBreaks
  <2>2. Copies(ready', o) <= Copies(ready, o) BY <1>3, <2>1, CopiesOfNone
  <2>3. Held(o)' => Held(o) BY <2>1 DEF Held
  <2> QED BY <1>1, <1>4, <1>6, <2>2, <2>3, NothingAdded
<1> QED BY <1>7, <1>8, <1>9, <1>10, <1>11 DEF Queue!Consumer

(* A request that arrives is counted, and may have its answer.             *)
LEMMA ArrivalCovered ==
  ASSUME IInv, NEW p \in Order, Arrives(p)
  PROVE  Covered'
<1> USE DEF queueOnly, selectorVars
<1> SUFFICES ASSUME NEW o \in Order
             PROVE  owed'[o] >= Copies(ready', o) + One(Held(o)') + One(Posted(o)')
  BY DEF Covered
<1>1. Service!TypeOK /\ Queue!TypeOK /\ Apart /\ Covered BY DEF IInv, TypeOK
<1>2. owed[o] \in Int /\ owed[o] >= Copies(ready, o) + One(Held(o)) + One(Posted(o))
  BY <1>1 DEF Covered, Queue!TypeOK
<1>3. Copies(ready, o) \in Nat BY <1>1, CopiesAreFew DEF Queue!TypeOK
<1>4. /\ step[ApiCall(p)] = "none" /\ UNCHANGED <<ready, consumer, message, future>>
      /\ \A c \in Service!Call : c # ApiCall(p) => step'[c] = step[c]
  BY <1>1 DEF Arrives, Service!Put, Service!TypeOK
<1>5. Held(o)' <=> Held(o) BY <1>4 DEF Held
<1>6. owed'[o] = owed[o] + One(p = o)
  BY <1>1 DEF Arrives, Queue!Counted, Queue!TypeOK, One
<1>7. One(Posted(o)') <= One(Posted(o)) + One(p = o)
  <2>1. CASE p = o
    <3>1. ~Posted(o) BY <1>4, <2>1 DEF Posted
    <3> QED BY <2>1, <3>1 DEF One
  <2>2. CASE p # o
    <3>1. ApiCall(o) \in Service!Call /\ ApiCall(o) # ApiCall(p) BY <2>2, CallsAre
    <3>2. Posted(o)' <=> Posted(o) BY <1>4, <3>1 DEF Posted
    <3> QED BY <2>2, <3>2 DEF One
  <2> QED BY <2>1, <2>2
<1>8. /\ One(Held(o)') = One(Held(o))
      /\ One(Held(o)) \in 0..1 /\ One(Posted(o)) \in 0..1 /\ One(Posted(o)') \in 0..1
      /\ One(p = o) \in 0..1
  BY <1>5 DEF One
<1> QED BY <1>2, <1>3, <1>4, <1>6, <1>7, <1>8

(* A stored result uses up what its order owes: the request has its        *)
(* answer, or the message in hand a good one.                              *)
LEMMA ResultCovered ==
  ASSUME IInv, NEW s \in Station, NEW l \in Service!Loop, Service!Finishes(s, l, TRUE),
         owed' = [owed EXCEPT ![serving[<<s, l>>].order] = @ - 1],
         UNCHANGED <<ready, consumer, message>>
  PROVE  Covered'
<1> SUFFICES ASSUME NEW o \in Order
             PROVE  owed'[o] >= Copies(ready', o) + One(Held(o)') + One(Posted(o)')
  BY DEF Covered
<1> DEFINE c == serving[<<s, l>>]
<1>1. Service!TypeOK /\ Queue!TypeOK /\ Apart /\ InHand /\ Covered BY DEF IInv, TypeOK
<1>2. owed[o] \in Int /\ owed[o] >= Copies(ready, o) + One(Held(o)) + One(Posted(o))
  BY <1>1 DEF Covered, Queue!TypeOK
<1>3. Copies(ready, o) \in Nat BY <1>1, CopiesAreFew DEF Queue!TypeOK
<1>4. c \in Service!Call /\ step[c] # "none" /\ future[c] = "open"
  BY <1>1 DEF Apart, InService, Service!Finishes, Service!TypeOK
<1>5. future' = [future EXCEPT ![c] = "good"] /\ UNCHANGED step BY DEF Service!Finishes
<1>6. owed'[o] = owed[o] - One(o = c.order) BY <1>1, <1>4, CallsAre DEF Queue!TypeOK, One
<1> HIDE DEF c
<1>7. future'[c] = "good" /\ \A d \in Service!Call : d # c => future'[d] = future[d]
  BY <1>1, <1>4, <1>5 DEF Service!TypeOK
<1>8. ApiCall(o) \in Service!Call /\ ConsumerCall(o) \in Service!Call BY CallsAre
<1>9. c = ApiCall(o) \/ c = ConsumerCall(o) <=> o = c.order
  BY <1>4, CallsAre DEF ApiCall, ConsumerCall, Service!Loop
<1>10. CASE c = ApiCall(o)
  <2>1. Posted(o) /\ ~Posted(o)' BY <1>4, <1>7, <1>10 DEF Posted
  <2>2. ConsumerCall(o) # c BY <1>10, CallsAre
  <2>3. Held(o)' <=> Held(o) BY <1>7, <1>8, <2>2 DEF Held
  <2>4. One(Posted(o)) = 1 /\ One(Posted(o)') = 0 /\ One(Held(o)') = One(Held(o))
    BY <2>1, <2>3 DEF One
  <2>5. One(o = c.order) = 1 /\ One(Held(o)) \in 0..1 BY <1>9, <1>10 DEF One
  <2> QED BY <1>2, <1>3, <1>6, <2>4, <2>5
<1>11. CASE c = ConsumerCall(o)
  <2>1. c.loop = "consumer" /\ c.order = o BY <1>11 DEF ConsumerCall
  <2>2. consumer = "await" /\ message.order = o BY <1>1, <1>4, <2>1 DEF InHand
  <2>3. Held(o) /\ ~Held(o)' BY <1>4, <1>7, <1>11, <2>2 DEF Held
  <2>4. ApiCall(o) # c BY <1>11, CallsAre
  <2>5. Posted(o)' <=> Posted(o) BY <1>5, <1>7, <1>8, <2>4 DEF Posted
  <2>6. One(Held(o)) = 1 /\ One(Held(o)') = 0 /\ One(Posted(o)') = One(Posted(o))
    BY <2>3, <2>5 DEF One
  <2>7. One(o = c.order) = 1 /\ One(Posted(o)) \in 0..1 BY <2>1 DEF One
  <2> QED BY <1>2, <1>3, <1>6, <2>6, <2>7
<1>12. CASE c # ApiCall(o) /\ c # ConsumerCall(o)
  <2>1. (Held(o)' <=> Held(o)) /\ (Posted(o)' <=> Posted(o))
    BY <1>5, <1>7, <1>8, <1>12 DEF Held, Posted
  <2>2. One(Held(o)') = One(Held(o)) /\ One(Posted(o)') = One(Posted(o)) BY <2>1 DEF One
  <2>3. One(o = c.order) = 0 BY <1>9, <1>12 DEF One
  <2> QED BY <1>2, <1>3, <1>6, <2>2, <2>3
<1> QED BY <1>10, <1>11, <1>12

(* All other steps of the service leave no more answers to be had.         *)
LEMMA ServiceCovered ==
  ASSUME IInv, Queue!TypeOK', ServiceMoves, owed' = owed, ready' = ready,
         \A o \in Order : Held(o)' => Held(o), \A o \in Order : Posted(o)' => Posted(o)
  PROVE  Covered'
<1> SUFFICES ASSUME NEW o \in Order
             PROVE  owed'[o] >= Copies(ready', o) + One(Held(o)') + One(Posted(o)')
  BY DEF Covered
<1>1. Queue!TypeOK /\ Covered BY DEF IInv, TypeOK
<1>2. Copies(ready, o) \in Nat BY <1>1, CopiesAreFew DEF Queue!TypeOK
<1>3. Copies(ready', o) <= Copies(ready, o) BY <1>2
<1> QED BY <1>1, <1>3, NothingAdded

LEMMA ResultsStayCovered ==
  ASSUME IInv, [Next]_vars
  PROVE  Covered'
<1> USE DEF serviceVars, queueOnly, historyVars, queueVars, selectorVars
<1>1. Service!TypeOK /\ Queue!TypeOK /\ Apart /\ InHand /\ Covered BY DEF IInv, TypeOK
<1>2. Queue!TypeOK' BY DeliveryTypes DEF TypeOK
<1>3. CASE UNCHANGED <<owed, ready, consumer, message, step, future>>
  BY <1>1, <1>3 DEF Covered, Held, Posted
<1>4. CASE Publishing
  <2>1. sending \in Order BY <1>4 DEF Publishing, IInv, Sending
  <2>2. UNCHANGED <<consumer, message, step, future>>
    BY <1>4 DEF Publishing, Queue!Opens, Queue!PublishFails, Queue!Publishes,
                Queue!PublishGivesUp, Queue!consumerVars
  <2>3. \/ UNCHANGED <<owed, ready>>
        \/ Queue!Enqueued(Queue!New(sending)) /\ Queue!Counted(sending)
    BY <1>4 DEF Publishing, Queue!Opens, Queue!PublishFails, Queue!Publishes,
                Queue!PublishGivesUp, Queue!brokerVars
  <2> QED BY <1>1, <1>3, <2>1, <2>2, <2>3, MessageAdded
<1>5. CASE Selector
  BY <1>3, <1>4, <1>5 DEF Selector, Fires, Submits, BeginsPublishing, Sends, PostEnds,
                          SelectorStops, StationPosts, StationPosted
<1>6. CASE Connecting \/ Broker
          \/ (Queue!Consumer /\ UNCHANGED <<serviceVars, selectorVars, http>>)
  BY <1>2, <1>6, ConsumerCovered DEF Connecting, Broker
<1>7. ASSUME NEW p \in Order, ConsumerCalls(p) PROVE Covered'
  <2>1. /\ consumer = "call" /\ consumer' = "await" /\ UNCHANGED <<message, owed, ready, future>>
        /\ \A c \in Service!Call : c # ConsumerCall(p) => step'[c] = step[c]
    BY <1>1, <1>7 DEF ConsumerCalls, Queue!Calls, Queue!brokerVars, Service!Put, Service!TypeOK
  <2>2. \A o \in Order : Held(o)' => Held(o) BY <2>1 DEF Held
  <2>3. \A o \in Order : Posted(o)' => Posted(o) BY <2>1, CallsAre DEF Posted
  <2>4. ServiceMoves BY <1>7, CallsAre DEF ConsumerCalls, ServiceMoves
  <2> QED BY <1>2, <2>1, <2>2, <2>3, <2>4, ServiceCovered
<1>8. ASSUME NEW p \in Order, Arrives(p) PROVE Covered' BY <1>8, ArrivalCovered
<1>9. ASSUME NEW p \in Order, HttpFails(p) PROVE Covered' BY <1>3, <1>9 DEF HttpFails
<1>10. ASSUME NEW c \in Service!Call, Entering(c) PROVE Covered'
  <2>1. UNCHANGED <<owed, ready, consumer, message, future>>
    BY <1>10 DEF Entering, Service!LooksForWorker, Service!StartsWorker
  <2>2. \A d \in Service!Call : step'[d] # "none" => step[d] # "none"
    BY <1>1, <1>10
    DEF Entering, Service!LooksForWorker, Service!StartsWorker, Service!TypeOK
  <2>3. \A o \in Order : Held(o)' => Held(o) BY <2>1 DEF Held
  <2>4. \A o \in Order : Posted(o)' => Posted(o) BY <2>1, <2>2, CallsAre DEF Posted
  <2>5. ServiceMoves BY <1>10 DEF Entering, ServiceMoves
  <2> QED BY <1>2, <2>1, <2>3, <2>4, <2>5, ServiceCovered
<1>11. ASSUME NEW c \in Service!Call, Returns(c) PROVE Covered'
  <2>1. /\ step[c] = "await"
        /\ \A d \in Service!Call : /\ step'[d] = IF d = c THEN "none" ELSE step[d]
                                   /\ future'[d] = IF d = c THEN "open" ELSE future[d]
    BY <1>1, <1>11 DEF Returns, Service!Returns, Service!Answered, Service!TypeOK
  <2>2. UNCHANGED <<owed, ready, message>>
    BY <1>11 DEF Returns, Queue!IsAnswered, Queue!brokerVars
  <2>3. \A o \in Order : Posted(o)' => Posted(o) BY <2>1, CallsAre DEF Posted
  <2>4. ASSUME NEW o \in Order, Held(o)' PROVE Held(o)
    <3>1. CASE c.loop = "consumer"
      <4>1. /\ consumer = "await" /\ c.order = message.order
            /\ consumer' = IF future[c] = "good" THEN "ack" ELSE "failed"
        BY <1>1, <1>11, <2>1, <3>1 DEF InHand, Returns, Queue!IsAnswered
      <4>2. c.order = o BY <2>2, <2>4, <4>1 DEF Held
      <4>3. c = ConsumerCall(o) BY <3>1, <4>2, CallsAre
      <4> QED BY <2>2, <2>4, <4>1, <4>2, <4>3 DEF Held
    <3>2. CASE c.loop # "consumer"
      <4>1. consumer' = consumer BY <1>11, <3>2 DEF Returns
      <4>2. ConsumerCall(o) \in Service!Call /\ ConsumerCall(o) # c
        BY <3>2, CallsAre DEF ConsumerCall
      <4> QED BY <2>1, <2>2, <2>4, <4>1, <4>2 DEF Held
    <3> QED BY <3>1, <3>2
  <2>5. ServiceMoves BY <1>11 DEF Returns, ServiceMoves
  <2> QED BY <1>2, <2>2, <2>3, <2>4, <2>5, ServiceCovered
<1>12. ASSUME NEW s \in Station, NEW l \in Service!Loop, Works(s, l) PROVE Covered'
  <2>1. UNCHANGED <<ready, consumer, message>> BY <1>12 DEF Works
  <2>2. CASE (Service!Waits(s, l) \/ Service!Takes(s, l)) /\ UNCHANGED <<owed, pending>>
    BY <1>3, <2>1, <2>2 DEF Service!Waits, Service!Takes, Service!callVars
  <2>3. CASE Service!Finishes(s, l, FALSE) /\ UNCHANGED <<owed, pending>>
    <3>1. /\ UNCHANGED step
          /\ serving[<<s, l>>] \in Service!Call /\ future[serving[<<s, l>>]] = "open"
      BY <1>1, <2>3 DEF Service!Finishes, Apart, InService, Service!TypeOK
    <3>2. \A d \in Service!Call :
            future'[d] = IF d = serving[<<s, l>>] THEN "bad" ELSE future[d]
      BY <1>1, <2>3 DEF Service!Finishes, Service!TypeOK
    <3>3. \A o \in Order : Held(o)' => Held(o) BY <2>1, <3>1, <3>2, CallsAre DEF Held
    <3>4. \A o \in Order : Posted(o)' => Posted(o) BY <3>1, <3>2, CallsAre DEF Posted
    <3>5. ServiceMoves BY <2>3 DEF ServiceMoves
    <3> QED BY <1>2, <2>1, <2>3, <3>3, <3>4, <3>5, ServiceCovered
  <2>4. CASE /\ Service!Finishes(s, l, TRUE)
             /\ owed' = [owed EXCEPT ![serving[<<s, l>>].order] = @ - 1]
    BY <2>1, <2>4, ResultCovered
  <2> QED BY <1>12, <2>2, <2>3, <2>4 DEF Works
<1> QED
  BY <1>3, <1>5, <1>6, <1>7, <1>8, <1>9, <1>10, <1>11, <1>12 DEF Next, Consuming, vars

-----------------------------------------------------------------------------
LEMMA DeliveryStarts == Init => IInv
<1> SUFFICES ASSUME Init PROVE IInv OBVIOUS
<1> USE DEF Init, Service!Init, Queue!Init
<1>1. TypeOK BY QueueTypesStart
<1>2. Sending /\ Starting BY DeliveryConstants, CallsAre DEF Sending, Starting
<1>3. Apart BY DEF Apart, InLine, InService
<1>4. InHand BY DEF InHand
<1>5. Covered
  <2>1. \A o \in Order : ApiCall(o) \in Service!Call BY CallsAre
  <2>2. \A o \in Order : ~Held(o) /\ ~Posted(o) BY <2>1 DEF Held, Posted
  <2>3. \A o \in Order : One(Held(o)) = 0 /\ One(Posted(o)) = 0 BY <2>2 DEF One
  <2> QED BY <2>3, CopiesOfNone DEF Covered
<1> QED BY <1>1, <1>2, <1>3, <1>4, <1>5 DEF IInv

LEMMA DeliveryInvariant == Spec => []IInv
<1>1. Init => IInv BY DeliveryStarts
<1>2. ASSUME IInv, [Next]_vars PROVE IInv'
  <2>1. TypeOK' /\ Sending' /\ InHand' /\ Covered'
    BY <1>2, DeliveryTypes, MessageStaysInHand, ResultsStayCovered
  <2>2. Service!TypeOK /\ Starting /\ Apart BY <1>2 DEF IInv, TypeOK
  <2>3. CASE ServiceMoves
    <3>1. Starting' /\ Apart' BY <2>2, <2>3, StartsOnce, CallsStayApart
    <3> QED BY <2>1, <3>1 DEF IInv
  <2>4. CASE UNCHANGED serviceVars
    <3>1. Starting' BY <2>2, <2>4 DEF Starting, serviceVars
    <3>2. Apart' BY <2>2, <2>4 DEF Apart, InLine, InService, serviceVars
    <3> QED BY <2>1, <3>1, <3>2 DEF IInv
  <2> QED BY <1>2, <2>3, <2>4, ServiceOrNot
<1> QED BY <1>1, <1>2, PTL DEF Spec

(* Types of the three parts of the delivery, the queues of the stations    *)
(* and the slots of their workers included.                                *)
THEOREM DeliveryTypeCorrect == Spec => []TypeOK
<1>1. IInv => TypeOK BY DEF IInv
<1> QED BY <1>1, DeliveryInvariant, PTL

(* For any stations, orders, retries and attempts: a message or a request  *)
(* leads to one result at most, whatever is lost, retried or left behind   *)
(* by a broken link.                                                       *)
THEOREM ResultsOnceOnly == Spec => []OneResult
<1>1. ASSUME IInv PROVE OneResult
  <2> SUFFICES ASSUME NEW o \in Order PROVE owed[o] >= 0 BY DEF OneResult
  <2>1. Queue!TypeOK /\ Covered BY <1>1 DEF IInv, TypeOK
  <2>2. Copies(ready, o) \in Nat /\ owed[o] \in Int BY <2>1, CopiesAreFew DEF Queue!TypeOK
  <2>3. One(Held(o)) \in 0..1 /\ One(Posted(o)) \in 0..1 BY DEF One
  <2> QED BY <2>1, <2>2, <2>3 DEF Covered
<1> QED BY <1>1, DeliveryInvariant, PTL
=============================================================================
