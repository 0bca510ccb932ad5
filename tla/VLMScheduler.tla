----------------------------- MODULE VLMScheduler -----------------------------
(***************************************************************************)
(* The VLM scheduler of take-away (take-away/src/parallel/vlm_scheduler.py *)
(* over the queues of shared_queue.py) between the station workers'        *)
(* _request_vlm_inference and OVMS: a collector thread, a batching thread  *)
(* that holds _buffer_lock while it puts a batch, and worker threads that  *)
(* send the requests of a batch in parallel and route each answer to the   *)
(* response queue of its station.                                          *)
(***************************************************************************)
EXTENDS Integers, Sequences, SequencesExt, FiniteSets

CONSTANTS
  Station,       (* station workers                                          *)
  Worker,        (* the scheduler's worker threads                           *)
  MaxRequests,   (* bound: requests each station makes                       *)
  MaxBatchSize,  (* max_batch_size                                           *)
  RequestCap,    (* maxsize of vlm_request_queue (500)                       *)
  WorkCap,       (* maxsize of _work_queue (100)                             *)
  ResponseCap,   (* maxsize of a response queue (100)                        *)
  Nobody         (* no request, no answer                                    *)

ASSUME SchedulerAssumption ==
  /\ MaxRequests \in [Station -> Nat \ {0}] /\ MaxBatchSize \in Nat \ {0}
  /\ RequestCap \in Nat \ {0} /\ WorkCap \in Nat \ {0} /\ ResponseCap \in Nat \ {0}

(* request_id is station, order and millisecond: the number of the request *)
(* at its station stands for the last two.                                 *)
Request == UNION {[station : {s}, number : 1..MaxRequests[s]] : s \in Station}

Response == [request : Request, ok : BOOLEAN]

ASSUME NobodyAssumption == Nobody \notin Request \cup Response

VARIABLES
  running,    (* _running                                                    *)
  left,       (* threads that have seen it false and left their loops        *)
  requests,   (* vlm_request_queue                                           *)
  held,       (* the request the collector has got and not yet appended      *)
  buffer,     (* _request_buffer                                             *)
  windowOver, (* batch_window has passed since _last_batch_time              *)
  batch,      (* the batch being put, _buffer_lock held; <<>> when free      *)
  work,       (* _work_queue                                                 *)
  calls,      (* requests of a worker's batch whose future is not yet seen   *)
  reply,      (* the answer a worker is putting, or Nobody                   *)
  responses,  (* the response queue of each station                          *)
  sent,       (* requests each station has made                              *)
  status,     (* what became of each request at its station                  *)
  got         (* the answer its station returned for it, or Nobody           *)

vars == <<running, left, requests, held, buffer, windowOver, batch, work, calls, reply,
          responses, sent, status, got>>

Thread == {"collector", "batcher"} \cup Worker

stationVars   == <<sent, status, got>>
collectorVars == <<requests, held>>
batcherVars   == <<windowOver, batch>>
workerVars    == <<calls, reply>>

TypeOK ==
  /\ running \in BOOLEAN
  /\ left \in SUBSET Thread
  /\ requests \in Seq(Request) /\ Len(requests) <= RequestCap
  /\ held \in Request \cup {Nobody}
  /\ buffer \in Seq(Request)
  /\ windowOver \in BOOLEAN
  /\ batch \in Seq(Request) /\ Len(batch) <= MaxBatchSize
  /\ work \in Seq(Seq(Request)) /\ Len(work) <= WorkCap
  /\ calls \in [Worker -> SUBSET Request]
  /\ reply \in [Worker -> Response \cup {Nobody}]
  /\ responses \in [Station -> Seq(Response)]
  /\ \A s \in Station : Len(responses[s]) <= ResponseCap
  /\ sent \in [Station -> Nat] /\ \A s \in Station : sent[s] <= MaxRequests[s]
  /\ status \in [Request -> {"unsent", "pending", "answered", "lost"}]
  /\ got \in [Request -> Response \cup {Nobody}]

Init ==
  /\ running = TRUE
  /\ left = {}
  /\ requests = <<>>
  /\ held = Nobody
  /\ buffer = <<>>
  /\ windowOver = FALSE
  /\ batch = <<>>
  /\ work = <<>>
  /\ calls = [w \in Worker |-> {}]
  /\ reply = [w \in Worker |-> Nobody]
  /\ responses = [s \in Station |-> <<>>]
  /\ sent = [s \in Station |-> 0]
  /\ status = [r \in Request |-> "unsent"]
  /\ got = [r \in Request |-> Nobody]

-----------------------------------------------------------------------------
(* A station worker: _request_vlm_inference.                               *)

Current(s) == [station |-> s, number |-> sent[s]]

Waiting(s) == sent[s] > 0 /\ status[Current(s)] = "pending"

Submit(s) ==
  /\ ~Waiting(s)
  /\ sent[s] < MaxRequests[s]
  /\ Len(requests) < RequestCap
  /\ sent' = [sent EXCEPT ![s] = @ + 1]
  /\ LET r == [station |-> s, number |-> sent[s] + 1] IN
       /\ requests' = Append(requests, r)
       /\ status' = [status EXCEPT ![r] = "pending"]
  /\ UNCHANGED <<running, left, got, held, buffer, batcherVars, work, workerVars, responses>>

(* An answer to another request than the one waited for is thrown away.    *)
ReceiveUnchecked(s) ==
  /\ Waiting(s)
  /\ responses[s] # <<>>
  /\ responses' = [responses EXCEPT ![s] = Tail(@)]
  /\ status' = [status EXCEPT ![Current(s)] = "answered"]
  /\ got' = [got EXCEPT ![Current(s)] = Head(responses[s])]
  /\ UNCHANGED <<running, left, collectorVars, buffer, batcherVars, work, workerVars, sent>>

Receive(s) ==
  /\ Waiting(s)
  /\ responses[s] # <<>>
  /\ responses' = [responses EXCEPT ![s] = Tail(@)]
  /\ IF Head(responses[s]).request = Current(s)
     THEN /\ status' = [status EXCEPT ![Current(s)] = "answered"]
          /\ got' = [got EXCEPT ![Current(s)] = Head(responses[s])]
     ELSE UNCHANGED <<status, got>>
  /\ UNCHANGED <<running, left, collectorVars, buffer, batcherVars, work, workerVars, sent>>

(* 120 seconds without an answer: the order is given up.                   *)
TimeOut(s) ==
  /\ Waiting(s)
  /\ status' = [status EXCEPT ![Current(s)] = "lost"]
  /\ UNCHANGED <<running, left, got, collectorVars, buffer, batcherVars, work, workerVars,
                 responses, sent>>

-----------------------------------------------------------------------------
(* The collector thread: _collect_requests_loop.                           *)

Locked == batch # <<>>

Collect ==
  /\ "collector" \notin left
  /\ held = Nobody
  /\ requests # <<>>
  /\ held' = Head(requests)
  /\ requests' = Tail(requests)
  /\ UNCHANGED <<running, left, buffer, batcherVars, work, workerVars, responses, stationVars>>

(* Appending needs _buffer_lock; the thread finishes this even when it has *)
(* been told to stop.                                                      *)
BufferRequest ==
  /\ held # Nobody
  /\ ~Locked
  /\ buffer' = Append(buffer, held)
  /\ held' = Nobody
  /\ UNCHANGED <<running, left, requests, batcherVars, work, workerVars, responses, stationVars>>

-----------------------------------------------------------------------------
(* The batching thread: _batching_loop.                                    *)

(* A batch of all that has been collected.                                 *)
BatchAll == Len(buffer)

BatchLength == IF Len(buffer) < MaxBatchSize THEN Len(buffer) ELSE MaxBatchSize

(* A batch triggered by its size alone.                                    *)
ShouldBatchOnSize == Len(buffer) >= MaxBatchSize

ShouldBatch == windowOver \/ Len(buffer) >= MaxBatchSize

(* A batch of the newest requests instead of the oldest.                   *)
MakeBatchFromEnd ==
  /\ "batcher" \notin left
  /\ ~Locked
  /\ buffer # <<>>
  /\ ShouldBatch
  /\ LET n == BatchLength IN
       /\ batch' = SubSeq(buffer, Len(buffer) - n + 1, Len(buffer))
       /\ buffer' = SubSeq(buffer, 1, Len(buffer) - n)
  /\ windowOver' = FALSE
  /\ UNCHANGED <<running, left, collectorVars, work, workerVars, responses, stationVars>>

(* A batch that leaves its last request in the buffer.                     *)
MakeBatchKeepsLast ==
  /\ "batcher" \notin left
  /\ ~Locked
  /\ buffer # <<>>
  /\ ShouldBatch
  /\ LET n == BatchLength IN
       /\ batch' = SubSeq(buffer, 1, n)
       /\ buffer' = SubSeq(buffer, n, Len(buffer))
  /\ windowOver' = FALSE
  /\ UNCHANGED <<running, left, collectorVars, work, workerVars, responses, stationVars>>

MakeBatch ==
  /\ "batcher" \notin left
  /\ ~Locked
  /\ buffer # <<>>
  /\ ShouldBatch
  /\ LET n == BatchLength IN
       /\ batch' = SubSeq(buffer, 1, n)
       /\ buffer' = SubSeq(buffer, n + 1, Len(buffer))
  /\ windowOver' = FALSE
  /\ UNCHANGED <<running, left, collectorVars, work, workerVars, responses, stationVars>>

(* The blocking put, inside the critical section.                          *)
SubmitBatch ==
  /\ Locked
  /\ Len(work) < WorkCap
  /\ work' = Append(work, batch)
  /\ batch' = <<>>
  /\ UNCHANGED <<running, left, collectorVars, buffer, windowOver, workerVars, responses,
                 stationVars>>

WindowPasses ==
  /\ ~windowOver
  /\ windowOver' = TRUE
  /\ UNCHANGED <<running, left, collectorVars, buffer, batch, work, workerVars, responses,
                 stationVars>>

-----------------------------------------------------------------------------
(* A worker thread: _worker_loop, _process_batch and _send_to_ovms.        *)

Idle(w) == calls[w] = {} /\ reply[w] = Nobody

TakeBatch(w) ==
  /\ w \notin left
  /\ Idle(w)
  /\ work # <<>>
  /\ calls' = [calls EXCEPT ![w] = ToSet(Head(work))]
  /\ work' = Tail(work)
  /\ UNCHANGED <<running, left, collectorVars, buffer, batcherVars, reply, responses, stationVars>>

(* as_completed yields the calls in any order; each has succeeded or has   *)
(* raised (an OVMS error, a timeout, no decodable image).                  *)
Complete(w) ==
  /\ reply[w] = Nobody
  /\ \E r \in calls[w], ok \in BOOLEAN :
       /\ calls' = [calls EXCEPT ![w] = @ \ {r}]
       /\ reply' = [reply EXCEPT ![w] = [request |-> r, ok |-> ok]]
  /\ UNCHANGED <<running, left, collectorVars, buffer, batcherVars, work, responses, stationVars>>

(* A worker that routes only the answers of calls that succeeded.          *)
RouteSuccessOnly(w) ==
  /\ reply[w] # Nobody
  /\ LET s == reply[w].request.station IN
       /\ Len(responses[s]) < ResponseCap
       /\ responses' = IF reply[w].ok
                       THEN [responses EXCEPT ![s] = Append(@, reply[w])] ELSE responses
  /\ reply' = [reply EXCEPT ![w] = Nobody]
  /\ UNCHANGED <<running, left, collectorVars, buffer, batcherVars, work, calls, stationVars>>

Route(w) ==
  /\ reply[w] # Nobody
  /\ LET s == reply[w].request.station IN
       /\ Len(responses[s]) < ResponseCap
       /\ responses' = [responses EXCEPT ![s] = Append(@, reply[w])]
  /\ reply' = [reply EXCEPT ![w] = Nobody]
  /\ UNCHANGED <<running, left, collectorVars, buffer, batcherVars, work, calls, stationVars>>

-----------------------------------------------------------------------------
(* stop(), and each thread leaving its loop when it is next at the top: a  *)
(* thread that has tested _running takes one more turn.                    *)
Stop ==
  /\ running
  /\ running' = FALSE
  /\ UNCHANGED <<left, collectorVars, buffer, batcherVars, work, workerVars, responses,
                 stationVars>>

AtLoopTop(t) ==
  CASE t = "collector" -> held = Nobody
    [] t = "batcher"   -> ~Locked
    [] OTHER           -> Idle(t)

Leave(t) ==
  /\ ~running
  /\ t \notin left
  /\ AtLoopTop(t)
  /\ left' = left \cup {t}
  /\ UNCHANGED <<running, collectorVars, buffer, batcherVars, work, workerVars, responses,
                 stationVars>>

Next ==
  \/ \E s \in Station : Submit(s) \/ Receive(s) \/ TimeOut(s)
  \/ Collect \/ BufferRequest
  \/ MakeBatch \/ SubmitBatch \/ WindowPasses
  \/ \E w \in Worker : TakeBatch(w) \/ Complete(w) \/ Route(w)
  \/ Stop
  \/ \E t \in Thread : Leave(t)

Spec == Init /\ [][Next]_vars

(* Threads are scheduled, time passes, and an OVMS call ends within its    *)
(* 400 seconds; a station's wait ends within its 120.                      *)
Fairness ==
  /\ WF_vars(Collect) /\ WF_vars(BufferRequest)
  /\ WF_vars(MakeBatch) /\ WF_vars(SubmitBatch) /\ WF_vars(WindowPasses)
  /\ \A w \in Worker : WF_vars(TakeBatch(w)) /\ WF_vars(Complete(w)) /\ WF_vars(Route(w))
  /\ \A s \in Station : WF_vars(Receive(s) \/ TimeOut(s))

FairSpec == Spec /\ Fairness

-----------------------------------------------------------------------------
(* Properties.                                                             *)

HeldSeq == IF held = Nobody THEN <<>> ELSE <<held>>

(* What has not been put for the workers yet, oldest first.                *)
Backlog == batch \o buffer \o HeldSeq \o requests

(* The requests on their way to a worker, oldest first: the batches put,   *)
(* and the rest.                                                           *)
Line == Append(work, Backlog)

InLine == UNION {ToSet(Line[k]) : k \in 1..Len(Line)}

InCall == (UNION {calls[w] : w \in Worker})
          \cup {reply[w].request : w \in {v \in Worker : reply[v] # Nobody}}

Open == InLine \cup InCall

Answers == UNION {ToSet(responses[s]) : s \in Station}

(* A request is in one place only: no thread handles it twice and none     *)
(* answers one that another still has.                                     *)
HandledOnce ==
  /\ \A j, k \in 1..Len(Line) : \A h \in 1..Len(Line[j]), i \in 1..Len(Line[k]) :
       Line[j][h] = Line[k][i] => j = k /\ h = i
  /\ InLine \cap InCall = {}
  /\ \A v, w \in Worker : v # w => calls[v] \cap calls[w] = {}
  /\ \A a \in Answers : a.request \notin Open

(* A request a station waits for has not been lost: it is in the scheduler *)
(* or its answer is in the station's own response queue.                   *)
NothingLost ==
  \A s \in Station : Waiting(s) =>
    \/ Current(s) \in Open
    \/ \E a \in ToSet(responses[s]) : a.request = Current(s)

(* Requests reach the workers in the order they were put.                  *)
ArrivalOrder ==
  \A j, k \in 1..Len(Line) : \A h \in 1..Len(Line[j]), i \in 1..Len(Line[k]) :
    (j < k \/ (j = k /\ h < i)) /\ Line[j][h].station = Line[k][i].station =>
      Line[j][h].number < Line[k][i].number

(* The scheduler does what RequestReply promises.                          *)
StationOf(r) == r.station

Promise == INSTANCE RequestReply WITH
  open <- Open, answers <- Answers, status <- status, got <- got

KeepsPromise == Promise!Spec

(* Every request put is answered unless the scheduler is stopped: the lock *)
(* held over a blocking put, and the full queues behind it, pass.          *)
AllAnswered ==
  \A r \in Request : r \in Open ~> r \notin Open \/ ~running
=============================================================================
