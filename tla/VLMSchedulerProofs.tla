-------------------------- MODULE VLMSchedulerProofs --------------------------
(***************************************************************************)
(* The VLM scheduler, for any number of stations, requests and workers and *)
(* any bounds of the queues: a request is in one place only, the place is  *)
(* one from which its answer comes, requests reach the workers in the      *)
(* order they were put, and the scheduler implements RequestReply.         *)
(***************************************************************************)
EXTENDS VLMScheduler, SequenceTheorems, TLAPS

---------------------------------------------------------------------------
(* Requests, and the line they stand in.                                   *)

LEMMA RequestFacts ==
  /\ \A r \in Request : /\ r.station \in Station /\ r.number \in 1..MaxRequests[r.station]
                        /\ r = [station |-> r.station, number |-> r.number]
  /\ \A s \in Station : \A n \in 1..MaxRequests[s] : [station |-> s, number |-> n] \in Request
  /\ \A s \in Station : MaxRequests[s] \in Nat
BY SchedulerAssumption DEF Request

LEMMA NobodyFacts == Nobody \notin Request /\ Nobody \notin Response
BY NobodyAssumption

LEMMA ResponseFacts ==
  /\ \A a \in Response : a.request \in Request /\ a.ok \in BOOLEAN
  /\ \A r \in Request, ok \in BOOLEAN : [request |-> r, ok |-> ok] \in Response
BY DEF Response

LEMMA ToSetFacts ==
  ASSUME NEW S, NEW q \in Seq(S)
  PROVE  /\ ToSet(q) \subseteq S
         /\ \A x : x \in ToSet(q) <=> \E i \in 1..Len(q) : q[i] = x
BY DEF ToSet

Members(L) == UNION {ToSet(L[k]) : k \in 1..Len(L)}

LEMMA MemberFacts ==
  ASSUME NEW L \in Seq(Seq(Request))
  PROVE  /\ \A k \in 1..Len(L) : L[k] \in Seq(Request) /\ Len(L[k]) \in Nat
         /\ \A r : r \in Members(L) <=> \E k \in 1..Len(L) : \E i \in 1..Len(L[k]) : r = L[k][i]
         /\ Members(L) \subseteq Request
<1>1. \A k \in 1..Len(L) : L[k] \in Seq(Request) /\ Len(L[k]) \in Nat OBVIOUS
<1>2. \A k \in 1..Len(L) : \A x : x \in ToSet(L[k]) <=> \E i \in 1..Len(L[k]) : L[k][i] = x
  BY <1>1, ToSetFacts
<1>3. \A r : r \in Members(L) <=> \E k \in 1..Len(L) : \E i \in 1..Len(L[k]) : r = L[k][i]
  BY <1>2 DEF Members
<1>4. ASSUME NEW r \in Members(L) PROVE r \in Request
  <2>1. PICK k \in 1..Len(L) : \E i \in 1..Len(L[k]) : r = L[k][i] BY <1>3
  <2> QED BY <1>1, <2>1
<1> QED BY <1>1, <1>3, <1>4

LEMMA LineFacts ==
  ASSUME TypeOK
  PROVE  /\ HeldSeq \in Seq(Request) /\ Backlog \in Seq(Request)
         /\ Line \in Seq(Seq(Request)) /\ Len(Line) = Len(work) + 1 /\ Len(work) \in Nat
         /\ \A k \in 1..Len(work) : Line[k] = work[k]
         /\ Line[Len(work) + 1] = Backlog
         /\ \A k \in 1..Len(Line) : Line[k] \in Seq(Request) /\ Len(Line[k]) \in Nat
         /\ \A r : r \in InLine <=> \E k \in 1..Len(Line) : \E i \in 1..Len(Line[k]) : r = Line[k][i]
         /\ InLine \subseteq Request
<1>1. HeldSeq \in Seq(Request) BY DEF TypeOK, HeldSeq
<1>2. Backlog \in Seq(Request) BY <1>1 DEF TypeOK, Backlog
<1>3. work \in Seq(Seq(Request)) BY DEF TypeOK
<1>4. /\ Line \in Seq(Seq(Request)) /\ Len(Line) = Len(work) + 1 /\ Len(work) \in Nat
      /\ \A k \in 1..Len(work) : Line[k] = work[k]
      /\ Line[Len(work) + 1] = Backlog
  BY <1>2, <1>3, AppendProperties DEF Line
<1>5. InLine = Members(Line) BY DEF InLine, Members
<1> QED BY <1>1, <1>2, <1>4, <1>5, MemberFacts

(* In an ordered line no request stands twice.                             *)
LEMMA OrderedOnce ==
  ASSUME TypeOK, ArrivalOrder
  PROVE  \A j, k \in 1..Len(Line) : \A h \in 1..Len(Line[j]), i \in 1..Len(Line[k]) :
           Line[j][h] = Line[k][i] => j = k /\ h = i
<1> SUFFICES ASSUME NEW j \in 1..Len(Line), NEW k \in 1..Len(Line),
                    NEW h \in 1..Len(Line[j]), NEW i \in 1..Len(Line[k]),
                    Line[j][h] = Line[k][i]
             PROVE  j = k /\ h = i
  OBVIOUS
<1>1. /\ Line[j][h] \in Request /\ Line[k][i] \in Request
      /\ j \in Int /\ k \in Int /\ h \in Int /\ i \in Int
  BY LineFacts
<1>2. Line[j][h].number \in Int BY <1>1, RequestFacts
<1>3. ~(j < k \/ (j = k /\ h < i)) /\ ~(k < j \/ (k = j /\ i < h))
  BY <1>1, <1>2 DEF ArrivalOrder
<1> QED BY <1>1, <1>3

---------------------------------------------------------------------------
(* Types.                                                                  *)

LEMMA TypeInit == Init => TypeOK
<1> SUFFICES ASSUME Init PROVE TypeOK OBVIOUS
<1>1. /\ requests = <<>> /\ buffer = <<>> /\ batch = <<>> /\ work = <<>> /\ held = Nobody
      /\ running = TRUE /\ left = {} /\ windowOver = FALSE
  BY DEF Init
<1>2. /\ calls \in [Worker -> SUBSET Request] /\ reply \in [Worker -> Response \cup {Nobody}]
      /\ responses \in [Station -> Seq(Response)]
      /\ \A s \in Station : Len(responses[s]) <= ResponseCap
  BY SchedulerAssumption DEF Init
<1>3. /\ sent \in [Station -> Nat] /\ \A s \in Station : sent[s] <= MaxRequests[s]
      /\ status \in [Request -> {"unsent", "pending", "answered", "lost"}]
      /\ got \in [Request -> Response \cup {Nobody}]
  BY RequestFacts DEF Init
<1>4. /\ requests \in Seq(Request) /\ Len(requests) <= RequestCap /\ buffer \in Seq(Request)
      /\ batch \in Seq(Request) /\ Len(batch) <= MaxBatchSize
      /\ work \in Seq(Seq(Request)) /\ Len(work) <= WorkCap
  BY <1>1, SchedulerAssumption
<1> QED BY <1>1, <1>2, <1>3, <1>4 DEF TypeOK

(* The request of a station that waits, and the next one it makes.         *)
LEMMA CurrentFacts ==
  ASSUME TypeOK, NEW s \in Station
  PROVE  /\ Waiting(s) => Current(s) \in Request
         /\ sent[s] < MaxRequests[s] => [station |-> s, number |-> sent[s] + 1] \in Request
<1>1. sent[s] \in Nat /\ sent[s] <= MaxRequests[s] /\ MaxRequests[s] \in Nat
  BY RequestFacts DEF TypeOK
<1> QED BY <1>1, RequestFacts DEF Waiting, Current

LEMMA StationTypes ==
  ASSUME TypeOK, NEW s \in Station, Submit(s) \/ Receive(s) \/ TimeOut(s)
  PROVE  TypeOK'
<1>1. CASE Submit(s)
  <2> DEFINE r == [station |-> s, number |-> sent[s] + 1]
  <2>1. r \in Request /\ sent[s] \in Nat /\ sent[s] + 1 <= MaxRequests[s]
    BY <1>1, CurrentFacts, RequestFacts DEF Submit, TypeOK
  <2>2. requests' \in Seq(Request) /\ Len(requests') <= RequestCap
    BY <1>1, <2>1, SchedulerAssumption DEF Submit, TypeOK
  <2>3. sent' \in [Station -> Nat] /\ \A t \in Station : sent'[t] <= MaxRequests[t]
    BY <1>1, <2>1 DEF Submit, TypeOK
  <2>4. status' \in [Request -> {"unsent", "pending", "answered", "lost"}]
    BY <1>1, <2>1 DEF Submit, TypeOK
  <2> QED BY <1>1, <2>2, <2>3, <2>4 DEF Submit, TypeOK, batcherVars, workerVars
<1>2. CASE Receive(s)
  <2>1. /\ responses[s] \in Seq(Response) /\ responses[s] # <<>> /\ Len(responses[s]) <= ResponseCap
        /\ ResponseCap \in Nat /\ Current(s) \in Request
    BY <1>2, SchedulerAssumption, CurrentFacts DEF Receive, TypeOK
  <2>2. /\ Head(responses[s]) \in Response /\ Tail(responses[s]) \in Seq(Response)
        /\ Len(Tail(responses[s])) <= ResponseCap
    BY <2>1
  <2>3. responses' \in [Station -> Seq(Response)] /\ \A t \in Station : Len(responses'[t]) <= ResponseCap
    BY <1>2, <2>2 DEF Receive, TypeOK
  <2>4. /\ status' \in [Request -> {"unsent", "pending", "answered", "lost"}]
        /\ got' \in [Request -> Response \cup {Nobody}]
    BY <1>2, <2>1, <2>2 DEF Receive, TypeOK
  <2> QED BY <1>2, <2>3, <2>4 DEF Receive, TypeOK, collectorVars, batcherVars, workerVars
<1>3. CASE TimeOut(s)
  <2>1. status' \in [Request -> {"unsent", "pending", "answered", "lost"}]
    BY <1>3, CurrentFacts DEF TimeOut, TypeOK
  <2> QED BY <1>3, <2>1 DEF TimeOut, TypeOK, collectorVars, batcherVars, workerVars
<1> QED BY <1>1, <1>2, <1>3

LEMMA ThreadTypes ==
  ASSUME TypeOK, Collect \/ BufferRequest \/ MakeBatch \/ SubmitBatch \/ WindowPasses
  PROVE  TypeOK'
<1>1. CASE Collect
  <2>1. held' \in Request /\ requests' \in Seq(Request) /\ Len(requests') <= RequestCap
    BY <1>1, SchedulerAssumption DEF Collect, TypeOK
  <2> QED BY <1>1, <2>1 DEF Collect, TypeOK, batcherVars, workerVars, stationVars
<1>2. CASE BufferRequest
  <2>1. buffer' \in Seq(Request) /\ held' \in Request \cup {Nobody}
    BY <1>2 DEF BufferRequest, TypeOK
  <2> QED BY <1>2, <2>1 DEF BufferRequest, TypeOK, batcherVars, workerVars, stationVars
<1>3. CASE MakeBatch
  <2>1. /\ buffer \in Seq(Request) /\ Len(buffer) \in Nat /\ BatchLength \in 0..Len(buffer)
        /\ BatchLength <= MaxBatchSize
    BY SchedulerAssumption DEF TypeOK, BatchLength
  <2>2. /\ batch' = SubSeq(buffer, 1, BatchLength)
        /\ buffer' = SubSeq(buffer, BatchLength + 1, Len(buffer))
    BY <1>3 DEF MakeBatch
  <2>3. /\ batch' \in Seq(Request) /\ Len(batch') <= MaxBatchSize /\ buffer' \in Seq(Request)
    BY <2>1, <2>2, SubSeqProperties
  <2> QED BY <1>3, <2>3 DEF MakeBatch, TypeOK, collectorVars, workerVars, stationVars
<1>4. CASE SubmitBatch
  <2>1. work' \in Seq(Seq(Request)) /\ Len(work') <= WorkCap
    BY <1>4, SchedulerAssumption DEF SubmitBatch, TypeOK
  <2>2. batch' \in Seq(Request) /\ Len(batch') <= MaxBatchSize
    BY <1>4, SchedulerAssumption DEF SubmitBatch
  <2> QED BY <1>4, <2>1, <2>2 DEF SubmitBatch, TypeOK, collectorVars, workerVars, stationVars
<1>5. CASE WindowPasses
  BY <1>5 DEF WindowPasses, TypeOK, collectorVars, workerVars, stationVars
<1> QED BY <1>1, <1>2, <1>3, <1>4, <1>5

LEMMA WorkerTypes ==
  ASSUME TypeOK, NEW w \in Worker, TakeBatch(w) \/ Complete(w) \/ Route(w)
  PROVE  TypeOK'
<1>1. CASE TakeBatch(w)
  <2>1. /\ work \in Seq(Seq(Request)) /\ work # <<>> /\ Len(work) <= WorkCap /\ WorkCap \in Nat
    BY <1>1, SchedulerAssumption DEF TakeBatch, TypeOK
  <2>2. Head(work) \in Seq(Request) /\ Tail(work) \in Seq(Seq(Request)) /\ Len(Tail(work)) <= WorkCap
    BY <2>1
  <2>3. ToSet(Head(work)) \subseteq Request BY <2>2, ToSetFacts
  <2>4. calls' \in [Worker -> SUBSET Request] BY <1>1, <2>3 DEF TakeBatch, TypeOK
  <2> QED BY <1>1, <2>2, <2>4 DEF TakeBatch, TypeOK, collectorVars, batcherVars, stationVars
<1>2. CASE Complete(w)
  <2>1. PICK r \in calls[w], ok \in BOOLEAN :
          /\ calls' = [calls EXCEPT ![w] = @ \ {r}]
          /\ reply' = [reply EXCEPT ![w] = [request |-> r, ok |-> ok]]
    BY <1>2 DEF Complete
  <2>2. calls[w] \subseteq Request BY DEF TypeOK
  <2>3. [request |-> r, ok |-> ok] \in Response BY <2>2, ResponseFacts
  <2>4. calls' \in [Worker -> SUBSET Request] BY <2>1, <2>2 DEF TypeOK
  <2>5. reply' \in [Worker -> Response \cup {Nobody}] BY <2>1, <2>3 DEF TypeOK
  <2> QED BY <1>2, <2>4, <2>5 DEF Complete, TypeOK, collectorVars, batcherVars, stationVars
<1>3. CASE Route(w)
  <2> DEFINE s == reply[w].request.station
  <2>1. reply[w] \in Response BY <1>3 DEF Route, TypeOK
  <2>2. s \in Station BY <2>1, ResponseFacts, RequestFacts
  <2>3. responses[s] \in Seq(Response) /\ Len(responses[s]) < ResponseCap /\ ResponseCap \in Nat
    BY <1>3, <2>2, SchedulerAssumption DEF Route, TypeOK
  <2>4. /\ Append(responses[s], reply[w]) \in Seq(Response)
        /\ Len(Append(responses[s], reply[w])) <= ResponseCap
    BY <2>1, <2>3
  <2>5. responses' = [responses EXCEPT ![s] = Append(@, reply[w])] BY <1>3 DEF Route
  <2>6. responses' \in [Station -> Seq(Response)] /\ \A t \in Station : Len(responses'[t]) <= ResponseCap
    BY <2>2, <2>4, <2>5 DEF TypeOK
  <2>7. reply' \in [Worker -> Response \cup {Nobody}] BY <1>3 DEF Route, TypeOK
  <2> QED BY <1>3, <2>6, <2>7 DEF Route, TypeOK, collectorVars, batcherVars, stationVars
<1> QED BY <1>1, <1>2, <1>3

LEMMA TypeStep == TypeOK /\ [Next]_vars => TypeOK'
<1> SUFFICES ASSUME TypeOK, [Next]_vars PROVE TypeOK' OBVIOUS
<1>1. CASE Stop BY <1>1 DEF Stop, TypeOK, collectorVars, batcherVars, workerVars, stationVars
<1>2. ASSUME NEW t \in Thread, Leave(t) PROVE TypeOK'
  <2>1. left' \in SUBSET Thread BY <1>2 DEF Leave, TypeOK
  <2> QED BY <1>2, <2>1 DEF Leave, TypeOK, collectorVars, batcherVars, workerVars, stationVars
<1>3. CASE UNCHANGED vars BY <1>3 DEF vars, TypeOK
<1> QED BY <1>1, <1>2, <1>3, StationTypes, ThreadTypes, WorkerTypes DEF Next

(* For any stations, workers and bounds: the types of all the scheduler    *)
(* has, and that no queue outgrows its capacity (shared_queue.py).         *)
THEOREM TypeCorrect == Spec => []TypeOK
<1> QED BY TypeInit, TypeStep, PTL DEF Spec

---------------------------------------------------------------------------
(* How the steps move the line.                                            *)

(* A request goes from one of the collector's and batcher's places to the  *)
(* next: the line stays as it is.                                          *)
LEMMA BacklogKept ==
  ASSUME TypeOK, Collect \/ BufferRequest \/ MakeBatch
  PROVE  Backlog' = Backlog /\ work' = work
<1>1. CASE Collect
  <2>1. /\ held = Nobody /\ held' = Head(requests) /\ requests' = Tail(requests)
        /\ requests # <<>> /\ requests \in Seq(Request)
        /\ batch' = batch /\ buffer' = buffer /\ work' = work
        /\ batch \o buffer \in Seq(Request)
    BY <1>1 DEF Collect, TypeOK, batcherVars
  <2>2. /\ Head(requests) \in Request /\ Tail(requests) \in Seq(Request)
        /\ Len(requests) \in Nat \ {0}
    BY <2>1
  <2>3. HeldSeq = <<>> /\ HeldSeq' = <<Head(requests)>> BY <2>1, <2>2, NobodyFacts DEF HeldSeq
  <2>4. <<Head(requests)>> \o Tail(requests) = requests BY <2>1, <2>2
  <2>5. (batch \o buffer) \o <<>> = batch \o buffer BY <2>1, ConcatEmptySeq
  <2>6. <<Head(requests)>> \in Seq(Request) BY <2>2
  <2>7. ((batch \o buffer) \o <<Head(requests)>>) \o Tail(requests)
          = (batch \o buffer) \o (<<Head(requests)>> \o Tail(requests))
    BY <2>1, <2>2, <2>6, ConcatAssociative
  <2> QED BY <2>1, <2>3, <2>4, <2>5, <2>7 DEF Backlog
<1>2. CASE BufferRequest
  <2>1. /\ held \in Request /\ held # Nobody /\ held' = Nobody /\ buffer' = Append(buffer, held)
        /\ batch = <<>> /\ batch' = batch /\ requests' = requests /\ work' = work
        /\ buffer \in Seq(Request)
    BY <1>2 DEF BufferRequest, TypeOK, batcherVars, Locked
  <2>2. HeldSeq = <<held>> /\ HeldSeq' = <<>> BY <2>1 DEF HeldSeq
  <2>3. Append(buffer, held) = buffer \o <<held>> /\ Append(buffer, held) \in Seq(Request)
    BY <2>1, AppendIsConcat
  <2>4. /\ <<>> \o buffer = buffer /\ <<>> \o Append(buffer, held) = Append(buffer, held)
        /\ Append(buffer, held) \o <<>> = Append(buffer, held)
    BY <2>1, <2>3, ConcatEmptySeq
  <2> QED BY <2>1, <2>2, <2>3, <2>4 DEF Backlog
<1>3. CASE MakeBatch
  <2>1. /\ batch = <<>> /\ buffer \in Seq(Request) /\ BatchLength \in 0..Len(buffer) /\ Len(buffer) \in Nat
        /\ batch' = SubSeq(buffer, 1, BatchLength)
        /\ buffer' = SubSeq(buffer, BatchLength + 1, Len(buffer))
        /\ held' = held /\ requests' = requests /\ work' = work
    BY <1>3, SchedulerAssumption DEF MakeBatch, TypeOK, collectorVars, Locked, BatchLength
  <2>2. SubSeq(buffer, 1, BatchLength) \o SubSeq(buffer, BatchLength + 1, Len(buffer))
          = SubSeq(buffer, 1, Len(buffer))
    <3>1. /\ 1 \in 1..(Len(buffer) + 1) /\ BatchLength \in (1 - 1)..Len(buffer)
          /\ Len(buffer) \in BatchLength..Len(buffer)
      BY <2>1
    <3> QED BY <2>1, <3>1, ConcatAdjacentSubSeq
  <2>3. SubSeq(buffer, 1, Len(buffer)) = buffer /\ <<>> \o buffer = buffer
    BY <2>1, SubSeqFull, ConcatEmptySeq
  <2> QED BY <2>1, <2>2, <2>3 DEF Backlog, HeldSeq
<1> QED BY <1>1, <1>2, <1>3

LEMMA LineKept ==
  ASSUME TypeOK, [Next]_vars, \A s \in Station : ~Submit(s), ~SubmitBatch,
         \A w \in Worker : ~TakeBatch(w)
  PROVE  Line' = Line /\ InLine' = InLine
<1>1. CASE Collect \/ BufferRequest \/ MakeBatch BY <1>1, BacklogKept DEF Line, InLine
<1>2. CASE UNCHANGED <<work, batch, buffer, held, requests>>
  BY <1>2 DEF Line, InLine, Backlog, HeldSeq
<1>3. ASSUME NEW s \in Station, Receive(s) \/ TimeOut(s)
      PROVE  UNCHANGED <<work, batch, buffer, held, requests>>
  BY <1>3 DEF Receive, TimeOut, collectorVars, batcherVars
<1>4. CASE WindowPasses BY <1>4, <1>2 DEF WindowPasses, collectorVars
<1>5. ASSUME NEW w \in Worker, Complete(w) \/ Route(w)
      PROVE  UNCHANGED <<work, batch, buffer, held, requests>>
  BY <1>5 DEF Complete, Route, collectorVars, batcherVars
<1>6. CASE Stop BY <1>6, <1>2 DEF Stop, collectorVars, batcherVars
<1>7. ASSUME NEW t \in Thread, Leave(t)
      PROVE  UNCHANGED <<work, batch, buffer, held, requests>>
  BY <1>7 DEF Leave, collectorVars, batcherVars
<1>8. CASE UNCHANGED vars BY <1>8, <1>2 DEF vars
<1> QED BY <1>1, <1>2, <1>3, <1>4, <1>5, <1>6, <1>7, <1>8 DEF Next

(* A request that is put comes last.                                       *)
LEMMA LineSubmit ==
  ASSUME TypeOK, NEW s \in Station, Submit(s)
  PROVE  LET r == [station |-> s, number |-> sent[s] + 1] IN
         /\ r \in Request
         /\ InLine' = InLine \cup {r}
         /\ Len(Line') = Len(Line)
         /\ \A k \in 1..Len(Line') : \A i \in 1..Len(Line'[k]) :
              \/ i \in 1..Len(Line[k]) /\ Line'[k][i] = Line[k][i]
              \/ k = Len(Line) /\ i = Len(Line[k]) + 1 /\ Line'[k][i] = r
<1> DEFINE r == [station |-> s, number |-> sent[s] + 1]
           X == (batch \o buffer) \o HeldSeq
<1>1. r \in Request BY CurrentFacts DEF Submit
<1>2. /\ requests' = Append(requests, r) /\ requests \in Seq(Request)
      /\ work' = work /\ batch' = batch /\ buffer' = buffer /\ held' = held
      /\ X \in Seq(Request)
  BY LineFacts DEF Submit, TypeOK, batcherVars
<1>3. HeldSeq' = HeldSeq BY <1>2 DEF HeldSeq
<1>4. X \o Append(requests, r) = Append(X \o requests, r)
  <2>1. /\ Append(requests, r) = requests \o <<r>> /\ <<r>> \in Seq(Request)
        /\ X \o requests \in Seq(Request)
    BY <1>1, <1>2, AppendIsConcat, ConcatProperties
  <2>2. Append(X \o requests, r) = (X \o requests) \o <<r>> BY <1>1, <2>1, AppendIsConcat
  <2> HIDE DEF X, r
  <2> QED BY <1>2, <2>1, <2>2, ConcatAssociative
<1>5. Backlog' = Append(Backlog, r) BY <1>2, <1>3, <1>4 DEF Backlog
<1>6. /\ InLine' = InLine \cup {r} /\ Len(Line') = Len(Line)
      /\ \A k \in 1..Len(Line') : \A i \in 1..Len(Line'[k]) :
           \/ i \in 1..Len(Line[k]) /\ Line'[k][i] = Line[k][i]
           \/ k = Len(Line) /\ i = Len(Line[k]) + 1 /\ Line'[k][i] = r
  <2> DEFINE n == Len(work) + 1
             L == Line'
  <2>1. /\ Backlog \in Seq(Request) /\ work \in Seq(Seq(Request))
        /\ Append(Backlog, r) \in Seq(Request)
        /\ Len(Append(Backlog, r)) = Len(Backlog) + 1 /\ Len(Backlog) \in Nat
        /\ \A i \in 1..Len(Backlog) : Append(Backlog, r)[i] = Backlog[i]
        /\ Append(Backlog, r)[Len(Backlog) + 1] = r
    BY <1>1, LineFacts, AppendProperties DEF TypeOK
  <2>2. L = Append(work, Append(Backlog, r)) BY <1>2, <1>5 DEF Line
  <2>3. /\ L \in Seq(Seq(Request)) /\ n \in Nat \ {0} /\ Len(Line) = n /\ Len(L) = n
        /\ \A k \in 1..Len(work) : Line[k] = work[k] /\ L[k] = work[k]
        /\ Line[n] = Backlog /\ L[n] = Append(Backlog, r)
    <3> HIDE DEF L, r
    <3>1. Len(work) \in Nat BY <2>1
    <3>2. /\ L \in Seq(Seq(Request)) /\ Len(L) = Len(work) + 1
          /\ \A k \in 1..Len(work) : L[k] = work[k] /\ L[Len(work) + 1] = Append(Backlog, r)
      BY <2>1, <2>2, AppendProperties
    <3> QED BY <2>1, <2>2, <3>1, <3>2, LineFacts, AppendProperties
  <2>4. InLine' = Members(L) BY DEF InLine, Members
  <2>a. L = Line' OBVIOUS
  <2> HIDE DEF r, L, n
  <2>5. ASSUME NEW q \in InLine PROVE q \in Members(L)
    <3>1. PICK k \in 1..n : \E i \in 1..Len(Line[k]) : q = Line[k][i] BY <2>3, LineFacts
    <3>2. PICK i \in 1..Len(Line[k]) : q = Line[k][i] BY <3>1
    <3>3. k \in 1..Len(work) \/ k = n BY <2>3, LineFacts DEF n
    <3>4. i \in 1..Len(L[k]) /\ q = L[k][i]
      <4>1. CASE k = n
        <5>1. Line[k] = Backlog /\ L[k] = Append(Backlog, r) BY <2>3, <4>1
        <5> QED BY <2>1, <3>2, <5>1
      <4>2. CASE k \in 1..Len(work) BY <2>3, <3>2, <4>2
      <4> QED BY <3>3, <4>1, <4>2
    <3> QED BY <2>3, <3>4, MemberFacts
  <2>6. r \in Members(L)
    <3>1. Len(Backlog) + 1 \in 1..Len(L[n]) /\ r = L[n][Len(Backlog) + 1] BY <2>1, <2>3
    <3> QED BY <2>3, <3>1, MemberFacts
  <2>7. ASSUME NEW q \in Members(L) PROVE q \in InLine \/ q = r
    <3>1. PICK k \in 1..n : \E i \in 1..Len(L[k]) : q = L[k][i] BY <2>3, MemberFacts
    <3>2. PICK i \in 1..Len(L[k]) : q = L[k][i] BY <3>1
    <3>3. k \in 1..Len(work) \/ k = n BY <2>3, LineFacts DEF n
    <3>4. q = r \/ (i \in 1..Len(Line[k]) /\ q = Line[k][i])
      <4>1. CASE k = n
        <5>1. Line[k] = Backlog /\ L[k] = Append(Backlog, r) BY <2>3, <4>1
        <5> QED BY <2>1, <3>2, <5>1
      <4>2. CASE k \in 1..Len(work) BY <2>3, <3>2, <4>2
      <4> QED BY <3>3, <4>1, <4>2
    <3> QED BY <2>3, <3>4, LineFacts
  <2>8. ASSUME NEW k \in 1..n, NEW i \in 1..Len(L[k])
        PROVE  \/ i \in 1..Len(Line[k]) /\ L[k][i] = Line[k][i]
               \/ k = n /\ i = Len(Line[k]) + 1 /\ L[k][i] = r
    <3>1. k \in 1..Len(work) \/ k = n BY <2>3, LineFacts DEF n
    <3>2. CASE k = n
      <4>1. Line[k] = Backlog /\ L[k] = Append(Backlog, r) BY <2>3, <3>2
      <4> QED BY <2>1, <3>2, <4>1
    <3>3. CASE k \in 1..Len(work) BY <2>3, <3>3
    <3> QED BY <3>1, <3>2, <3>3
  <2> QED BY <2>3, <2>4, <2>5, <2>6, <2>7, <2>8, <2>a
<1> QED BY <1>1, <1>6

(* A batch that is put: the last part of the line becomes two.             *)
LEMMA LineSplit ==
  ASSUME TypeOK, SubmitBatch
  PROVE  /\ InLine' = InLine
         /\ Len(Line') = Len(Line) + 1 /\ Len(batch) \in Nat
         /\ \A k \in 1..Len(Line') : \A i \in 1..Len(Line'[k]) :
              \/ /\ k <= Len(Line) /\ i \in 1..Len(Line[k]) /\ Line'[k][i] = Line[k][i]
                 /\ k = Len(Line) => i <= Len(batch)
              \/ /\ k = Len(Line) + 1 /\ Len(batch) + i \in 1..Len(Line[Len(Line)])
                 /\ Line'[k][i] = Line[Len(Line)][Len(batch) + i]
<1> DEFINE rest == (buffer \o HeldSeq) \o requests
           n == Len(work) + 1
           L == Append(Append(work, batch), rest)
<1>1. /\ batch \in Seq(Request) /\ buffer \in Seq(Request) /\ HeldSeq \in Seq(Request)
      /\ requests \in Seq(Request) /\ work \in Seq(Seq(Request)) /\ buffer \o HeldSeq \in Seq(Request)
      /\ batch' = <<>> /\ buffer' = buffer /\ held' = held /\ requests' = requests
      /\ work' = Append(work, batch)
  BY LineFacts DEF SubmitBatch, TypeOK, collectorVars
<1>2. rest \in Seq(Request) BY <1>1
<1>3. Backlog = batch \o rest
  <2> HIDE DEF rest, n, L
  <2> DEFINE e == buffer \o HeldSeq
  <2>1. e \in Seq(Request) /\ rest = e \o requests BY <1>1 DEF rest
  <2>2. (batch \o buffer) \o HeldSeq = batch \o e
    <3>1. /\ batch \in Seq(Request) /\ buffer \in Seq(Request) /\ HeldSeq \in Seq(Request)
      BY <1>1
    <3> QED BY <3>1, ConcatAssociative
  <2> HIDE DEF e
  <2>3. (batch \o e) \o requests = batch \o (e \o requests)
    <3>1. batch \in Seq(Request) /\ e \in Seq(Request) /\ requests \in Seq(Request) BY <1>1, <2>1
    <3> QED BY <3>1, ConcatAssociative
  <2> QED BY <2>1, <2>2, <2>3 DEF Backlog
<1>4. Backlog' = rest
  <2>1. <<>> \o buffer = buffer BY <1>1, ConcatEmptySeq
  <2> QED BY <1>1, <2>1 DEF Backlog, HeldSeq
<1>5. Line' = L BY <1>1, <1>4 DEF Line
<1>6. /\ InLine' = InLine /\ Len(Line') = Len(Line) + 1 /\ Len(batch) \in Nat
      /\ \A k \in 1..Len(Line') : \A i \in 1..Len(Line'[k]) :
           \/ /\ k <= Len(Line) /\ i \in 1..Len(Line[k]) /\ Line'[k][i] = Line[k][i]
              /\ k = Len(Line) => i <= Len(batch)
           \/ /\ k = Len(Line) + 1 /\ Len(batch) + i \in 1..Len(Line[Len(Line)])
              /\ Line'[k][i] = Line[Len(Line)][Len(batch) + i]
  <2>1. /\ Len(Backlog) = Len(batch) + Len(rest) /\ Len(batch) \in Nat /\ Len(rest) \in Nat
        /\ \A i \in 1..Len(batch) : Backlog[i] = batch[i]
        /\ \A i \in 1..Len(rest) : Backlog[Len(batch) + i] = rest[i]
    BY <1>1, <1>2, <1>3, ConcatProperties
  <2>2. /\ L \in Seq(Seq(Request)) /\ n \in Nat \ {0} /\ Len(Line) = n /\ Len(L) = n + 1
        /\ \A k \in 1..Len(work) : Line[k] = work[k] /\ L[k] = work[k]
        /\ Line[n] = Backlog /\ L[n] = batch /\ L[n + 1] = rest
    <3> HIDE DEF rest
    <3>1. /\ Append(work, batch) \in Seq(Seq(Request)) /\ Len(work) \in Nat
          /\ Len(Append(work, batch)) = n /\ Append(work, batch)[n] = batch
          /\ \A k \in 1..Len(work) : Append(work, batch)[k] = work[k]
      BY <1>1, AppendProperties
    <3>2. /\ L \in Seq(Seq(Request)) /\ Len(L) = n + 1 /\ L[n + 1] = rest
          /\ \A k \in 1..n : L[k] = Append(work, batch)[k]
      BY <1>2, <3>1, AppendProperties
    <3> QED BY <3>1, <3>2, LineFacts
  <2>3. InLine' = Members(L) BY <1>5 DEF InLine, Members
  <2>a. L = Line' BY <1>5
  <2> HIDE DEF rest, L, n
  <2>4. ASSUME NEW q \in InLine PROVE q \in Members(L)
    <3>1. PICK k \in 1..n : \E i \in 1..Len(Line[k]) : q = Line[k][i] BY <2>2, LineFacts
    <3>2. PICK i \in 1..Len(Line[k]) : q = Line[k][i] BY <3>1
    <3>3. k \in 1..Len(work) \/ k = n BY <2>2, LineFacts DEF n
    <3>4. CASE k \in 1..Len(work)
      <4>1. k \in 1..Len(L) /\ i \in 1..Len(L[k]) /\ q = L[k][i] BY <2>2, <3>2, <3>4
      <4> QED BY <2>2, <4>1, MemberFacts
    <3>5. CASE k = n
      <4>1. Line[k] = Backlog BY <2>2, <3>5
      <4>2. CASE i \in 1..Len(batch)
        <5>1. n \in 1..Len(L) /\ i \in 1..Len(L[n]) /\ q = L[n][i] BY <2>1, <2>2, <3>2, <4>1, <4>2
        <5> QED BY <2>2, <5>1, MemberFacts
      <4>3. CASE i \notin 1..Len(batch)
        <5> DEFINE j == i - Len(batch)
        <5>1. j \in 1..Len(rest) /\ i = Len(batch) + j BY <2>1, <3>2, <4>1, <4>3
        <5> HIDE DEF j
        <5>2. q = rest[j] BY <2>1, <3>2, <4>1, <5>1
        <5>3. n + 1 \in 1..Len(L) /\ j \in 1..Len(L[n + 1]) /\ q = L[n + 1][j] BY <2>2, <5>1, <5>2
        <5> QED BY <2>2, <5>3, MemberFacts
      <4> QED BY <4>2, <4>3
    <3> QED BY <3>3, <3>4, <3>5
  <2>5. ASSUME NEW q \in Members(L) PROVE q \in InLine
    <3>1. PICK k \in 1..(n + 1) : \E i \in 1..Len(L[k]) : q = L[k][i] BY <2>2, MemberFacts
    <3>2. PICK i \in 1..Len(L[k]) : q = L[k][i] BY <3>1
    <3>3. k \in 1..Len(work) \/ k = n \/ k = n + 1
      <4>1. Len(work) \in Nat BY LineFacts
      <4> QED BY <4>1 DEF n
    <3>4. CASE k \in 1..Len(work)
      <4>1. k \in 1..Len(Line) /\ i \in 1..Len(Line[k]) /\ q = Line[k][i]
        BY <2>2, <3>2, <3>4, LineFacts DEF n
      <4> QED BY <4>1, LineFacts
    <3>5. CASE k = n
      <4>1. n \in 1..Len(Line) /\ i \in 1..Len(Line[n]) /\ q = Line[n][i]
        BY <2>1, <2>2, <3>2, <3>5
      <4> QED BY <4>1, LineFacts
    <3>6. CASE k = n + 1
      <4>1. L[k] = rest BY <2>2, <3>6
      <4>2. /\ n \in 1..Len(Line) /\ Len(batch) + i \in 1..Len(Line[n])
            /\ q = Line[n][Len(batch) + i]
        BY <2>1, <2>2, <3>2, <4>1
      <4> QED BY <4>2, LineFacts
    <3> QED BY <3>3, <3>4, <3>5, <3>6
  <2>6. ASSUME NEW k \in 1..(n + 1), NEW i \in 1..Len(L[k])
        PROVE  \/ /\ k <= n /\ i \in 1..Len(Line[k]) /\ L[k][i] = Line[k][i]
                  /\ k = n => i <= Len(batch)
               \/ /\ k = n + 1 /\ Len(batch) + i \in 1..Len(Line[n])
                  /\ L[k][i] = Line[n][Len(batch) + i]
    <3>1. (k \in 1..Len(work) /\ k < n) \/ k = n \/ k = n + 1
      <4>1. Len(work) \in Nat BY LineFacts
      <4> QED BY <4>1 DEF n
    <3>2. CASE k \in 1..Len(work) /\ k < n
      <4>1. L[k] = Line[k] BY <2>2, <3>2
      <4> QED BY <2>2, <3>2, <4>1
    <3>3. CASE k = n
      <4>1. L[k] = batch /\ Line[k] = Backlog BY <2>2, <3>3
      <4> QED BY <2>1, <2>2, <3>3, <4>1
    <3>4. CASE k = n + 1
      <4>1. L[k] = rest /\ Line[n] = Backlog BY <2>2, <3>4
      <4> QED BY <2>1, <2>2, <3>4, <4>1
    <3> QED BY <3>1, <3>2, <3>3, <3>4
  <2>7. InLine' = InLine BY <2>3, <2>4, <2>5
  <2>8. n = Len(Line) /\ Len(L) = n + 1 /\ Len(batch) \in Nat BY <2>1, <2>2
  <2> QED BY <2>6, <2>7, <2>8, <2>a
<1> QED BY <1>6

(* A batch that is taken: the line loses its first part.                   *)
LEMMA LineTake ==
  ASSUME TypeOK, NEW w \in Worker, TakeBatch(w)
  PROVE  /\ Len(Line) \in Nat \ {0} /\ Len(Line') = Len(Line) - 1
         /\ \A k \in 1..Len(Line') : Line'[k] = Line[k + 1]
         /\ calls[w] = {} /\ reply[w] = Nobody
         /\ calls' = [calls EXCEPT ![w] = ToSet(Line[1])]
         /\ InLine = InLine' \cup ToSet(Line[1])
<1>1. /\ work \in Seq(Seq(Request)) /\ work # <<>> /\ work' = Tail(work)
      /\ batch' = batch /\ buffer' = buffer /\ held' = held /\ requests' = requests
      /\ calls' = [calls EXCEPT ![w] = ToSet(Head(work))] /\ calls[w] = {} /\ reply[w] = Nobody
      /\ Backlog \in Seq(Request)
  BY LineFacts DEF TakeBatch, Idle, TypeOK, collectorVars, batcherVars
<1>2. Backlog' = Backlog BY <1>1 DEF Backlog, HeldSeq
<1>3. Line' = Tail(Line) /\ Line # <<>> /\ Line[1] = Head(work)
  <2>1. Tail(Append(work, Backlog)) = Append(Tail(work), Backlog)
    BY <1>1, HeadTailAppend
  <2> QED BY <1>1, <1>2, <2>1, LineFacts DEF Line
<1>4. /\ Line \in Seq(Seq(Request)) /\ Tail(Line) \in Seq(Seq(Request)) /\ Len(Line) \in Nat \ {0}
      /\ Len(Tail(Line)) = Len(Line) - 1
      /\ \A k \in 1..Len(Tail(Line)) : Tail(Line)[k] = Line[k + 1]
  BY <1>3, LineFacts, HeadTailProperties
<1>5. InLine = InLine' \cup ToSet(Line[1])
  <2>2. InLine = Members(Line) /\ InLine' = Members(Tail(Line)) BY <1>3 DEF InLine, Members
  <2>3. ASSUME NEW q \in Members(Line) PROVE q \in Members(Tail(Line)) \cup ToSet(Line[1])
    <3>1. PICK k \in 1..Len(Line) : \E i \in 1..Len(Line[k]) : q = Line[k][i] BY <1>4, MemberFacts
    <3>2. CASE k = 1
      <4>1. Line[1] \in Seq(Request) BY <1>4
      <4> QED BY <3>1, <3>2, <4>1, ToSetFacts
    <3>3. CASE k # 1
      <4>1. k - 1 \in 1..Len(Tail(Line)) /\ Tail(Line)[k - 1] = Line[k] BY <1>4, <3>3
      <4> QED BY <1>4, <3>1, <4>1, MemberFacts
    <3> QED BY <3>2, <3>3
  <2>4. ASSUME NEW q \in Members(Tail(Line)) PROVE q \in Members(Line)
    <3> DEFINE T == Tail(Line)
    <3>1. /\ T \in Seq(Seq(Request)) /\ q \in Members(T) /\ Len(T) = Len(Line) - 1
          /\ Len(Line) \in Nat \ {0} /\ \A k \in 1..Len(T) : T[k] = Line[k + 1]
      BY <1>4, <2>4
    <3> HIDE DEF T
    <3>a. \A r : r \in Members(T) <=> \E k \in 1..Len(T) : \E i \in 1..Len(T[k]) : r = T[k][i]
      BY <3>1, MemberFacts
    <3>2. PICK k \in 1..Len(T) : \E i \in 1..Len(T[k]) : q = T[k][i] BY <3>1, <3>a
    <3>3. k + 1 \in 1..Len(Line) /\ T[k] = Line[k + 1] BY <3>1
    <3> QED BY <1>4, <3>2, <3>3, MemberFacts
  <2>5. ToSet(Line[1]) \subseteq Members(Line)
    <3>1. Line[1] \in Seq(Request) /\ 1 \in 1..Len(Line) BY <1>4
    <3> QED BY <1>4, <3>1, ToSetFacts, MemberFacts
  <2> QED BY <2>2, <2>3, <2>4, <2>5
<1> QED BY <1>1, <1>3, <1>4, <1>5

---------------------------------------------------------------------------
(* The invariant: besides what the properties say, that a request is       *)
(* pending only as the latest of its station, that what the scheduler has  *)
(* is neither unsent nor answered, that an answer waits in the queue of    *)
(* its own station, and that no two answers are to the same request.       *)

Numbered ==
  /\ \A r \in Request : status[r] = "unsent" <=> r.number > sent[r.station]
  /\ \A r \in Request : status[r] = "pending" => r = Current(r.station)

Known ==
  /\ \A r \in Open : status[r] \in {"pending", "lost"}
  /\ \A x \in Answers : status[x.request] \in {"pending", "lost"}

OwnQueue ==
  \A s \in Station : \A i \in 1..Len(responses[s]) : responses[s][i].request.station = s

OneAnswer ==
  \A s \in Station : \A i, j \in 1..Len(responses[s]) :
    responses[s][i].request = responses[s][j].request => i = j

OneReply ==
  \A w \in Worker : reply[w] # Nobody =>
    \A v \in Worker : /\ reply[w].request \notin calls[v]
                      /\ reply[v] # Nobody /\ reply[v].request = reply[w].request => v = w

Apart ==
  /\ InLine \cap InCall = {}
  /\ \A v, w \in Worker : v # w => calls[v] \cap calls[w] = {}
  /\ \A x \in Answers : x.request \notin Open

Inv ==
  /\ TypeOK /\ ArrivalOrder /\ Apart /\ NothingLost
  /\ Numbered /\ Known /\ OwnQueue /\ OneAnswer /\ OneReply

---------------------------------------------------------------------------
(* Order.                                                                  *)

(* What is in line was sent: it has no later number than its station.      *)
LEMMA InLineSent ==
  ASSUME Inv
  PROVE  \A r \in InLine : r \in Request /\ r.number \in Int /\ r.number <= sent[r.station]
<1> SUFFICES ASSUME NEW r \in InLine
             PROVE  r \in Request /\ r.number \in Int /\ r.number <= sent[r.station]
  OBVIOUS
<1>1. r \in Request BY LineFacts DEF Inv
<1>2. r.station \in Station /\ r.number \in Int BY <1>1, RequestFacts
<1>3. sent[r.station] \in Int BY <1>2 DEF Inv, TypeOK
<1>4. status[r] # "unsent" BY DEF Inv, Known, Open
<1> QED BY <1>1, <1>2, <1>3, <1>4 DEF Inv, Numbered

LEMMA OrderStation ==
  ASSUME Inv, NEW s \in Station, Submit(s)
  PROVE  ArrivalOrder'
<1> DEFINE r == [station |-> s, number |-> sent[s] + 1]
           L == Line'
           n == Len(Line)
<1>1. /\ Len(L) = n /\ n \in Nat
      /\ \A k \in 1..n : \A i \in 1..Len(L[k]) :
           \/ i \in 1..Len(Line[k]) /\ L[k][i] = Line[k][i]
           \/ k = n /\ i = Len(Line[k]) + 1 /\ L[k][i] = r
      /\ \A k \in 1..n : Len(Line[k]) \in Nat
  BY LineSubmit, LineFacts DEF Inv
<1>2. r.station = s /\ r.number = sent[s] + 1 OBVIOUS
<1> SUFFICES ASSUME NEW j \in 1..n, NEW k \in 1..n,
                    NEW h \in 1..Len(L[j]), NEW i \in 1..Len(L[k]),
                    j < k \/ (j = k /\ h < i), L[j][h].station = L[k][i].station
             PROVE  L[j][h].number < L[k][i].number
  BY <1>1 DEF ArrivalOrder
<1> HIDE DEF r, L, n
<1>3. h \in 1..Len(Line[j]) /\ L[j][h] = Line[j][h]
  <2>1. CASE j = n /\ h = Len(Line[j]) + 1
    <3>1. k = n /\ h < i BY <1>1, <2>1
    <3>2. i \in 1..Len(Line[k]) \/ i = Len(Line[k]) + 1 BY <1>1
    <3> QED BY <1>1, <2>1, <3>1, <3>2
  <2> QED BY <1>1, <2>1
<1>4. CASE i \in 1..Len(Line[k]) /\ L[k][i] = Line[k][i]
  <2>1. j \in 1..Len(Line) /\ k \in 1..Len(Line) BY DEF n
  <2> QED BY <1>3, <1>4, <2>1 DEF Inv, ArrivalOrder
<1>5. CASE L[k][i] = r
  <2>1. Line[j][h] \in InLine
    <3>1. j \in 1..Len(Line) BY DEF n
    <3> QED BY <1>3, <3>1, LineFacts DEF Inv
  <2>2. sent[s] \in Int BY DEF Inv, TypeOK
  <2>3. Line[j][h].station = s BY <1>2, <1>3, <1>5
  <2>4. Line[j][h].number \in Int /\ Line[j][h].number <= sent[s] BY <2>1, <2>3, InLineSent
  <2> QED BY <1>2, <1>3, <1>5, <2>2, <2>4
<1> QED BY <1>1, <1>4, <1>5

LEMMA OrderSplit ==
  ASSUME Inv, SubmitBatch
  PROVE  ArrivalOrder'
<1> DEFINE L == Line'
           n == Len(Line)
           b == Len(batch)
<1>1. /\ Len(L) = n + 1 /\ n \in Nat /\ b \in Nat
      /\ \A k \in 1..(n + 1) : \A i \in 1..Len(L[k]) :
           \/ k <= n /\ i \in 1..Len(Line[k]) /\ L[k][i] = Line[k][i] /\ (k = n => i <= b)
           \/ k = n + 1 /\ b + i \in 1..Len(Line[n]) /\ L[k][i] = Line[n][b + i]
  <2>1. Len(L) = n + 1 /\ n \in Nat /\ b \in Nat BY LineSplit, LineFacts DEF Inv
  <2> SUFFICES ASSUME NEW k \in 1..(n + 1), NEW i \in 1..Len(L[k])
               PROVE  \/ /\ k <= n /\ i \in 1..Len(Line[k])
                         /\ L[k][i] = Line[k][i] /\ (k = n => i <= b)
                      \/ k = n + 1 /\ b + i \in 1..Len(Line[n]) /\ L[k][i] = Line[n][b + i]
    BY <2>1
  <2>2. k \in 1..Len(L) BY <2>1
  <2> QED BY <2>2, LineSplit DEF Inv
<1>2. n \in 1..n BY LineFacts DEF Inv
<1> SUFFICES ASSUME NEW j \in 1..(n + 1), NEW k \in 1..(n + 1),
                    NEW h \in 1..Len(L[j]), NEW i \in 1..Len(L[k]),
                    j < k \/ (j = k /\ h < i), L[j][h].station = L[k][i].station
             PROVE  L[j][h].number < L[k][i].number
  BY <1>1 DEF ArrivalOrder
<1> HIDE DEF L, n, b
<1>3. \A p, q \in 1..n : \A g \in 1..Len(Line[p]), f \in 1..Len(Line[q]) :
        (p < q \/ (p = q /\ g < f)) /\ Line[p][g].station = Line[q][f].station =>
          Line[p][g].number < Line[q][f].number
  BY DEF Inv, ArrivalOrder, n
<1>4. CASE k <= n
  <2>1. j \in 1..n /\ k \in 1..n BY <1>1, <1>4
  <2>2. /\ h \in 1..Len(Line[j]) /\ L[j][h] = Line[j][h]
        /\ i \in 1..Len(Line[k]) /\ L[k][i] = Line[k][i]
    BY <1>1, <2>1
  <2> QED BY <1>3, <2>1, <2>2
<1>5. CASE k = n + 1
  <2>1. b + i \in 1..Len(Line[n]) /\ L[k][i] = Line[n][b + i] BY <1>1, <1>5
  <2>2. CASE j = n + 1
    <3>1. b + h \in 1..Len(Line[n]) /\ L[j][h] = Line[n][b + h] BY <1>1, <2>2
    <3>2. b + h < b + i BY <1>1, <1>5, <2>2
    <3> QED BY <1>2, <1>3, <2>1, <3>1, <3>2
  <2>3. CASE j # n + 1
    <3>1. /\ j \in 1..n /\ h \in 1..Len(Line[j]) /\ L[j][h] = Line[j][h] /\ (j = n => h <= b)
      BY <1>1, <2>3
    <3>2. j < n \/ (j = n /\ h < b + i) BY <1>1, <3>1
    <3> QED BY <1>2, <1>3, <2>1, <3>1, <3>2
  <2> QED BY <2>2, <2>3
<1> QED BY <1>1, <1>4, <1>5

LEMMA OrderTake ==
  ASSUME Inv, NEW w \in Worker, TakeBatch(w)
  PROVE  ArrivalOrder'
<1> DEFINE L == Line'
           n == Len(Line)
<1>1. /\ Len(L) = n - 1 /\ n \in Nat \ {0} /\ \A k \in 1..(n - 1) : L[k] = Line[k + 1]
  BY LineTake DEF Inv
<1> SUFFICES ASSUME NEW j \in 1..(n - 1), NEW k \in 1..(n - 1),
                    NEW h \in 1..Len(L[j]), NEW i \in 1..Len(L[k]),
                    j < k \/ (j = k /\ h < i), L[j][h].station = L[k][i].station
             PROVE  L[j][h].number < L[k][i].number
  BY <1>1 DEF ArrivalOrder
<1> HIDE DEF L, n
<1>2. /\ j + 1 \in 1..n /\ k + 1 \in 1..n /\ L[j] = Line[j + 1] /\ L[k] = Line[k + 1]
      /\ j + 1 < k + 1 \/ (j + 1 = k + 1 /\ h < i)
  BY <1>1
<1> QED BY <1>2 DEF Inv, ArrivalOrder, n

LEMMA OrderStep == Inv /\ [Next]_vars => ArrivalOrder'
<1> SUFFICES ASSUME Inv, [Next]_vars PROVE ArrivalOrder' OBVIOUS
<1>1. CASE \/ \E s \in Station : Submit(s)
           \/ SubmitBatch
           \/ \E w \in Worker : TakeBatch(w)
  BY <1>1, OrderStation, OrderSplit, OrderTake
<1>2. CASE ~ \/ \E s \in Station : Submit(s)
             \/ SubmitBatch
             \/ \E w \in Worker : TakeBatch(w)
  <2>1. Line' = Line BY <1>2, LineKept DEF Inv
  <2> QED BY <2>1 DEF Inv, ArrivalOrder
<1> QED BY <1>1, <1>2

---------------------------------------------------------------------------
(* How the steps move a request from place to place.                       *)

AnswersOf(R) == UNION {ToSet(R[s]) : s \in Station}

LEMMA AnswerFacts ==
  ASSUME NEW R \in [Station -> Seq(Response)]
  PROVE  /\ \A x : x \in AnswersOf(R) <=> \E s \in Station : \E i \in 1..Len(R[s]) : x = R[s][i]
         /\ \A s \in Station : \A x : x \in ToSet(R[s]) <=> \E i \in 1..Len(R[s]) : x = R[s][i]
         /\ AnswersOf(R) \subseteq Response
<1>1. \A s \in Station : R[s] \in Seq(Response) OBVIOUS
<1>2. \A s \in Station : \A x : x \in ToSet(R[s]) <=> \E i \in 1..Len(R[s]) : x = R[s][i]
  BY <1>1, ToSetFacts
<1>3. \A x : x \in AnswersOf(R) <=> \E s \in Station : \E i \in 1..Len(R[s]) : x = R[s][i]
  BY <1>2 DEF AnswersOf
<1>4. ASSUME NEW x \in AnswersOf(R) PROVE x \in Response
  <2>1. PICK s \in Station : \E i \in 1..Len(R[s]) : x = R[s][i] BY <1>3
  <2> QED BY <1>1, <2>1
<1> QED BY <1>2, <1>3, <1>4

LEMMA PlacesTyped ==
  ASSUME Inv
  PROVE  /\ InCall \subseteq Request /\ Open \subseteq Request
         /\ \A x \in Answers : x \in Response /\ x.request \in Request
<1>1. \A q \in InCall : q \in Request BY ResponseFacts DEF Inv, TypeOK, InCall
<1>2. responses \in [Station -> Seq(Response)] /\ Answers = AnswersOf(responses)
  BY DEF Inv, TypeOK, Answers, AnswersOf
<1>3. \A x \in Answers : x \in Response BY <1>2, AnswerFacts
<1> QED BY <1>1, <1>3, LineFacts, ResponseFacts DEF Open, Inv

LEMMA PlacesSubmit ==
  ASSUME Inv, NEW s \in Station, Submit(s)
  PROVE  LET r == [station |-> s, number |-> sent[s] + 1] IN
         /\ r \in Request /\ r.station = s /\ r.number = sent[s] + 1 /\ sent[s] \in Nat
         /\ status[r] = "unsent" /\ r \notin Open
         /\ \A x \in Answers : x.request # r
         /\ InLine' = InLine \cup {r} /\ InCall' = InCall /\ Open' = Open \cup {r}
         /\ Answers' = Answers
<1> DEFINE r == [station |-> s, number |-> sent[s] + 1]
<1>1. r \in Request /\ InLine' = InLine \cup {r} BY LineSubmit DEF Inv
<1>2. sent[s] \in Nat /\ r.station = s /\ r.number = sent[s] + 1 BY DEF Inv, TypeOK
<1>3. status[r] = "unsent" BY <1>1, <1>2 DEF Inv, Numbered
<1>4. InCall' = InCall /\ Answers' = Answers BY DEF Submit, InCall, Answers, workerVars
<1>5. r \notin Open /\ \A x \in Answers : x.request # r BY <1>3 DEF Inv, Known
<1> HIDE DEF r
<1>6. Open' = Open \cup {r} BY <1>1, <1>4 DEF Open
<1> QED BY <1>1, <1>2, <1>3, <1>4, <1>5, <1>6 DEF r

(* The collector, the batcher, the clock and the stop leave every request  *)
(* where it is.                                                            *)
Quiet ==
  \/ Collect \/ BufferRequest \/ MakeBatch \/ SubmitBatch \/ WindowPasses \/ Stop
  \/ \E t \in Thread : Leave(t)
  \/ UNCHANGED vars

LEMMA PlacesQuiet ==
  ASSUME Inv, Quiet
  PROVE  /\ InLine' = InLine /\ InCall' = InCall /\ Open' = Open /\ Answers' = Answers
         /\ UNCHANGED <<calls, reply, responses, sent, status, got>>
<1>1. UNCHANGED <<calls, reply, responses, sent, status, got>>
  BY DEF Quiet, Collect, BufferRequest, MakeBatch, SubmitBatch, WindowPasses, Stop, Leave, vars,
         workerVars, stationVars
<1>2. InCall' = InCall /\ Answers' = Answers BY <1>1 DEF InCall, Answers
<1>3. InLine' = InLine
  <2>1. CASE SubmitBatch BY <2>1, LineSplit DEF Inv
  <2>2. CASE Collect \/ BufferRequest \/ MakeBatch BY <2>2, BacklogKept DEF Inv, InLine, Line
  <2>3. CASE WindowPasses \/ Stop \/ (\E t \in Thread : Leave(t)) \/ UNCHANGED vars
    <3>1. UNCHANGED <<work, batch, buffer, held, requests>>
      BY <2>3 DEF WindowPasses, Stop, Leave, vars, collectorVars, batcherVars
    <3> QED BY <3>1 DEF InLine, Line, Backlog, HeldSeq
  <2> QED BY <2>1, <2>2, <2>3 DEF Quiet
<1> QED BY <1>1, <1>2, <1>3 DEF Open

LEMMA PlacesTake ==
  ASSUME Inv, NEW w \in Worker, TakeBatch(w)
  PROVE  \E B \in SUBSET Request :
         /\ B \subseteq InLine /\ InLine' = InLine \ B /\ InCall' = InCall \cup B
         /\ B \cap InCall = {} /\ Open' = Open /\ Answers' = Answers
         /\ calls' = [calls EXCEPT ![w] = B]
         /\ UNCHANGED <<reply, responses, sent, status, got>>
<1> DEFINE B == ToSet(Line[1])
<1>1. /\ Len(Line) \in Nat \ {0} /\ Len(Line') = Len(Line) - 1
      /\ \A k \in 1..Len(Line') : Line'[k] = Line[k + 1]
      /\ calls[w] = {} /\ calls' = [calls EXCEPT ![w] = B]
      /\ InLine = InLine' \cup B
  BY LineTake DEF Inv
<1>2. UNCHANGED <<reply, responses, sent, status, got>> BY DEF TakeBatch, stationVars
<1>3. B \subseteq InLine /\ B \subseteq Request BY <1>1, LineFacts DEF Inv
<1>4. \A r : r \in B <=> \E i \in 1..Len(Line[1]) : Line[1][i] = r
  <2>1. Line[1] \in Seq(Request) BY <1>1, LineFacts DEF Inv
  <2> QED BY <2>1, ToSetFacts
<1>5. ASSUME NEW r \in InLine' PROVE r \notin B
  <2>1. PICK k \in 1..Len(Line') : \E i \in 1..Len(Line'[k]) : r = Line'[k][i]
    <3> DEFINE L == Line'
    <3>1. L \in Seq(Seq(Request)) /\ r \in Members(L)
      <4>1. TypeOK' BY WorkerTypes DEF Inv
      <4>2. InLine' = Members(L) BY DEF InLine, Members
      <4>3. Line' \in Seq(Seq(Request))
        <5>1. work' \in Seq(Seq(Request)) /\ Backlog' = Backlog /\ Backlog \in Seq(Request)
          BY <4>1, LineFacts DEF TypeOK, TakeBatch, Backlog, HeldSeq, collectorVars,
                 batcherVars, Inv
        <5> QED BY <5>1, AppendProperties DEF Line
      <4> QED BY <4>2, <4>3
    <3> HIDE DEF L
    <3>2. \E k \in 1..Len(L) : \E i \in 1..Len(L[k]) : r = L[k][i] BY <3>1, MemberFacts
    <3> QED BY <3>2 DEF L
  <2>2. PICK i \in 1..Len(Line'[k]) : r = Line'[k][i] BY <2>1
  <2>3. /\ k + 1 \in 1..Len(Line) /\ k + 1 # 1 /\ 1 \in 1..Len(Line)
        /\ i \in 1..Len(Line[k + 1]) /\ r = Line[k + 1][i]
    BY <1>1, <2>2
  <2> QED BY <1>4, <2>3, OrderedOnce DEF Inv
<1> HIDE DEF B
<1>6. InLine' = InLine \ B BY <1>1, <1>5
<1>7. B \cap InCall = {} BY <1>3 DEF Inv, Apart
<1>8. InCall' = InCall \cup B
  <2>1. calls'[w] = B /\ calls[w] = {} /\ \A v \in Worker : v # w => calls'[v] = calls[v]
    BY <1>1 DEF Inv, TypeOK
  <2> QED BY <1>2, <2>1 DEF InCall
<1>9. Open' = Open BY <1>3, <1>6, <1>8 DEF Open
<1>10. Answers' = Answers BY <1>2 DEF Answers
<1> QED BY <1>1, <1>2, <1>3, <1>6, <1>7, <1>8, <1>9, <1>10

LEMMA PlacesComplete ==
  ASSUME Inv, NEW w \in Worker, Complete(w)
  PROVE  \E r \in calls[w], ok \in BOOLEAN :
         /\ reply[w] = Nobody
         /\ calls' = [calls EXCEPT ![w] = @ \ {r}]
         /\ reply' = [reply EXCEPT ![w] = [request |-> r, ok |-> ok]]
         /\ InLine' = InLine /\ InCall' = InCall /\ Open' = Open /\ Answers' = Answers
         /\ UNCHANGED <<responses, sent, status, got>>
<1>1. PICK r \in calls[w], ok \in BOOLEAN :
        /\ calls' = [calls EXCEPT ![w] = @ \ {r}]
        /\ reply' = [reply EXCEPT ![w] = [request |-> r, ok |-> ok]]
  BY DEF Complete
<1>2. /\ reply[w] = Nobody /\ UNCHANGED <<responses, sent, status, got>>
      /\ UNCHANGED <<work, batch, buffer, held, requests>>
  BY DEF Complete, stationVars, collectorVars, batcherVars
<1>3. [request |-> r, ok |-> ok] # Nobody /\ [request |-> r, ok |-> ok].request = r
  <2>1. r \in Request BY DEF Inv, TypeOK
  <2> QED BY <2>1, ResponseFacts, NobodyFacts
<1>4. /\ calls'[w] = calls[w] \ {r} /\ reply'[w] = [request |-> r, ok |-> ok]
      /\ \A v \in Worker : v # w => calls'[v] = calls[v] /\ reply'[v] = reply[v]
  BY <1>1 DEF Inv, TypeOK
<1>5. InCall' = InCall
  <2>1. \A q : q \in InCall <=>
          \E v \in Worker : q \in calls[v] \/ (reply[v] # Nobody /\ q = reply[v].request)
    BY DEF InCall
  <2>2. \A q : q \in InCall' <=>
          \E v \in Worker : q \in calls'[v] \/ (reply'[v] # Nobody /\ q = reply'[v].request)
    BY DEF InCall
  <2>3. \A q : (q \in calls'[w] \/ (reply'[w] # Nobody /\ q = reply'[w].request)) <=> q \in calls[w]
    BY <1>1, <1>3, <1>4
  <2>4. ASSUME NEW q \in InCall PROVE q \in InCall'
    <3>1. PICK v \in Worker : q \in calls[v] \/ (reply[v] # Nobody /\ q = reply[v].request)
      BY <2>1
    <3> QED BY <1>2, <1>4, <2>2, <2>3, <3>1
  <2>5. ASSUME NEW q \in InCall' PROVE q \in InCall
    <3>1. PICK v \in Worker : q \in calls'[v] \/ (reply'[v] # Nobody /\ q = reply'[v].request) BY <2>2
    <3> QED BY <1>4, <2>1, <2>3, <3>1
  <2> QED BY <2>4, <2>5
<1>6. InLine' = InLine BY <1>2 DEF InLine, Line, Backlog, HeldSeq
<1>7. Open' = Open /\ Answers' = Answers BY <1>2, <1>5, <1>6 DEF Open, Answers
<1> QED BY <1>1, <1>2, <1>5, <1>6, <1>7

LEMMA PlacesRoute ==
  ASSUME Inv, NEW w \in Worker, Route(w)
  PROVE  LET x == reply[w]
             s == x.request.station
         IN
         /\ x \in Response /\ x # Nobody /\ x.request \in Request /\ s \in Station
         /\ x.request \in Open /\ x.request \notin InLine
         /\ \A y \in Answers : y.request # x.request
         /\ Len(responses[s]) \in Nat
         /\ responses' = [responses EXCEPT ![s] = Append(@, x)]
         /\ reply' = [reply EXCEPT ![w] = Nobody]
         /\ InLine' = InLine /\ InCall' = InCall \ {x.request} /\ Open' = Open \ {x.request}
         /\ Answers' = Answers \cup {x}
         /\ UNCHANGED <<calls, sent, status, got>>
<1> DEFINE x == reply[w]
           s == x.request.station
<1>1. /\ x # Nobody /\ responses' = [responses EXCEPT ![s] = Append(@, x)]
      /\ reply' = [reply EXCEPT ![w] = Nobody]
      /\ UNCHANGED <<calls, sent, status, got>> /\ UNCHANGED <<work, batch, buffer, held,
          requests>>
  BY DEF Route, stationVars, collectorVars, batcherVars
<1>2. x \in Response /\ x.request \in Request /\ s \in Station
  BY <1>1, ResponseFacts, RequestFacts DEF Inv, TypeOK
<1>3. x.request \in InCall BY <1>1 DEF InCall
<1>4. x.request \in Open /\ x.request \notin InLine /\ \A y \in Answers : y.request # x.request
  BY <1>3 DEF Open, Inv, Apart
<1>5. InLine' = InLine BY <1>1 DEF InLine, Line, Backlog, HeldSeq
<1>6. /\ reply'[w] = Nobody /\ \A v \in Worker : v # w => reply'[v] = reply[v]
      /\ calls' = calls
  BY <1>1 DEF Inv, TypeOK
<1>7. responses[s] \in Seq(Response) /\ Len(responses[s]) \in Nat BY <1>2 DEF Inv, TypeOK
<1> HIDE DEF s
<1>8. InCall' = InCall \ {x.request}
  <2>1. \A q : q \in InCall <=>
          \E v \in Worker : q \in calls[v] \/ (reply[v] # Nobody /\ q = reply[v].request)
    BY DEF InCall
  <2>2. \A q : q \in InCall' <=>
          \E v \in Worker : q \in calls'[v] \/ (reply'[v] # Nobody /\ q = reply'[v].request)
    BY DEF InCall
  <2>3. ASSUME NEW q \in InCall, q # x.request PROVE q \in InCall'
    <3>1. PICK v \in Worker : q \in calls[v] \/ (reply[v] # Nobody /\ q = reply[v].request)
      BY <2>1
    <3> QED BY <1>6, <2>2, <2>3, <3>1
  <2>4. ASSUME NEW q \in InCall' PROVE q \in InCall /\ q # x.request
    <3>1. PICK v \in Worker : q \in calls'[v] \/ (reply'[v] # Nobody /\ q = reply'[v].request) BY <2>2
    <3>2. CASE q \in calls[v] BY <1>1, <2>1, <3>2 DEF Inv, OneReply
    <3>3. CASE v # w /\ reply[v] # Nobody /\ q = reply[v].request
      BY <1>1, <2>1, <3>3 DEF Inv, OneReply
    <3> QED BY <1>6, <3>1, <3>2, <3>3
  <2> QED BY <2>3, <2>4
<1>9. Open' = Open \ {x.request} BY <1>4, <1>5, <1>8 DEF Open
<1>10. Answers' = Answers \cup {x}
  <2>1. /\ responses'[s] = Append(responses[s], x)
        /\ \A t \in Station : t # s => responses'[t] = responses[t]
    BY <1>1, <1>2 DEF Inv, TypeOK
  <2>2. ToSet(Append(responses[s], x)) = ToSet(responses[s]) \cup {x}
    <3> DEFINE q == responses[s]
               p == Append(q, x)
    <3>1. /\ q \in Seq(Response) /\ p \in Seq(Response) /\ Len(q) \in Nat /\ Len(p) = Len(q) + 1
          /\ \A i \in 1..Len(q) : p[i] = q[i]
          /\ p[Len(q) + 1] = x
      BY <1>2, <1>7, AppendProperties
    <3> HIDE DEF q, p
    <3>2. /\ \A y : y \in ToSet(q) <=> \E i \in 1..Len(q) : q[i] = y
          /\ \A y : y \in ToSet(p) <=> \E i \in 1..Len(p) : p[i] = y
      BY <3>1, ToSetFacts
    <3>3. \A i \in 1..Len(p) : p[i] = x \/ (i \in 1..Len(q) /\ p[i] = q[i]) BY <3>1
    <3>4. ToSet(p) = ToSet(q) \cup {x}
      <4>1. ASSUME NEW y \in ToSet(p) PROVE y \in ToSet(q) \cup {x} BY <3>2, <3>3
      <4>2. ASSUME NEW y \in ToSet(q) PROVE y \in ToSet(p) BY <3>1, <3>2
      <4>3. Len(q) + 1 \in 1..Len(p) BY <3>1
      <4> QED BY <3>1, <3>2, <4>1, <4>2, <4>3
    <3> QED BY <3>4 DEF p, q
  <2> QED BY <1>2, <2>1, <2>2 DEF Answers
<1> QED BY <1>1, <1>2, <1>4, <1>5, <1>7, <1>8, <1>9, <1>10 DEF s

LEMMA PlacesReceive ==
  ASSUME Inv, NEW s \in Station, Receive(s)
  PROVE  LET x == Head(responses[s]) IN
         /\ x \in Response /\ x \in Answers /\ x.request \in Request /\ x.request.station = s
         /\ Len(responses[s]) \in Nat \ {0} /\ x = responses[s][1]
         /\ responses' = [responses EXCEPT ![s] = Tail(@)]
         /\ Len(responses'[s]) = Len(responses[s]) - 1
         /\ \A i \in 1..Len(responses'[s]) : responses'[s][i] = responses[s][i + 1]
         /\ Answers' = Answers \ {x}
         /\ \A y \in Answers' : y.request # x.request
         /\ InLine' = InLine /\ InCall' = InCall /\ Open' = Open
         /\ UNCHANGED <<calls, reply, sent>>
<1> DEFINE q == responses[s]
           x == Head(q)
           R == responses'
<1>1. /\ q # <<>> /\ responses' = [responses EXCEPT ![s] = Tail(@)]
      /\ UNCHANGED <<calls, reply, sent>> /\ UNCHANGED <<work, batch, buffer, held, requests>>
  BY DEF Receive, workerVars, collectorVars, batcherVars
<1>2. InLine' = InLine /\ InCall' = InCall /\ Open' = Open
  BY <1>1 DEF InLine, Line, Backlog, HeldSeq, InCall, Open
<1>3. /\ q \in Seq(Response) /\ Len(q) \in Nat \ {0} /\ x = q[1] /\ x \in Response
      /\ Tail(q) \in Seq(Response) /\ Len(Tail(q)) = Len(q) - 1
      /\ \A i \in 1..Len(Tail(q)) : Tail(q)[i] = q[i + 1]
  BY <1>1, HeadTailProperties DEF Inv, TypeOK
<1>4. x.request \in Request /\ x.request.station = s
  <2>1. 1 \in 1..Len(q) BY <1>3
  <2> QED BY <1>3, <2>1, ResponseFacts DEF Inv, OwnQueue
<1>5. /\ R \in [Station -> Seq(Response)] /\ R[s] = Tail(q)
      /\ \A t \in Station : t # s => R[t] = responses[t]
  BY <1>1, <1>3 DEF Inv, TypeOK
<1>6. Answers' = AnswersOf(R) /\ Answers = AnswersOf(responses) BY DEF Answers, AnswersOf
<1>a. responses \in [Station -> Seq(Response)] BY DEF Inv, TypeOK
<1> HIDE DEF q, x, R
<1>7. /\ \A y : y \in AnswersOf(R) <=> \E t \in Station : \E i \in 1..Len(R[t]) : y = R[t][i]
      /\ \A y : y \in AnswersOf(responses) <=>
           \E t \in Station : \E i \in 1..Len(responses[t]) : y = responses[t][i]
  BY <1>5, <1>a, AnswerFacts
<1>8. x \in Answers BY <1>3, <1>6, <1>7 DEF q
<1>9. ASSUME NEW y \in Answers' PROVE y \in Answers /\ y.request # x.request
  <2>1. PICK t \in Station : \E i \in 1..Len(R[t]) : y = R[t][i] BY <1>6, <1>7
  <2>2. PICK i \in 1..Len(R[t]) : y = R[t][i] BY <2>1
  <2>3. CASE t = s
    <3>1. i + 1 \in 1..Len(q) /\ y = q[i + 1] /\ 1 \in 1..Len(q) /\ i + 1 # 1
      BY <1>3, <1>5, <2>2, <2>3
    <3>2. y \in Answers BY <1>6, <1>7, <3>1 DEF q
    <3>3. responses[s][i + 1].request # responses[s][1].request BY <3>1 DEF q, Inv, OneAnswer
    <3> QED BY <1>3, <3>1, <3>2, <3>3 DEF q
  <2>4. CASE t # s
    <3>1. i \in 1..Len(responses[t]) /\ y = responses[t][i] BY <1>5, <2>2, <2>4
    <3>2. y.request.station = t BY <3>1 DEF Inv, OwnQueue
    <3> QED BY <1>4, <1>6, <1>7, <2>4, <3>1, <3>2
  <2> QED BY <2>3, <2>4
<1>10. ASSUME NEW y \in Answers, y # x PROVE y \in Answers'
  <2>1. PICK t \in Station : \E i \in 1..Len(responses[t]) : y = responses[t][i] BY <1>6, <1>7
  <2>2. PICK i \in 1..Len(responses[t]) : y = responses[t][i] BY <2>1
  <2>3. CASE t = s
    <3>1. i # 1 BY <1>3, <1>10, <2>2, <2>3 DEF q
    <3>2. i - 1 \in 1..Len(R[s]) /\ R[s][i - 1] = q[i] BY <1>3, <1>5, <2>2, <2>3, <3>1 DEF q
    <3> QED BY <1>6, <1>7, <2>2, <2>3, <3>2 DEF q
  <2>4. CASE t # s BY <1>5, <1>6, <1>7, <2>2, <2>4
  <2> QED BY <2>3, <2>4
<1>11. Answers' = Answers \ {x} BY <1>9, <1>10
<1> QED BY <1>1, <1>2, <1>3, <1>4, <1>5, <1>8, <1>9, <1>11 DEF q, x, R

---------------------------------------------------------------------------
(* The invariant is kept.                                                  *)

(* All of it but the types and the order, which OrderStep keeps.           *)
Rest == Apart /\ NothingLost /\ Numbered /\ Known /\ OwnQueue /\ OneAnswer /\ OneReply

LEMMA PlacesInit ==
  ASSUME Init
  PROVE  Line = <<<<>>>> /\ InLine = {} /\ InCall = {} /\ Open = {} /\ Answers = {}
<1>1. /\ Backlog = <<>> /\ Line = <<<<>>>>
  BY ConcatEmptySeq DEF Init, Backlog, HeldSeq, Line
<1>2. InLine = {}
  <2>1. \A k \in 1..Len(Line) : Line[k] = <<>> BY <1>1
  <2> QED BY <2>1 DEF InLine, ToSet
<1>3. InCall = {} BY DEF Init, InCall
<1>4. Answers = {} BY DEF Init, Answers, ToSet
<1> QED BY <1>1, <1>2, <1>3, <1>4 DEF Open

LEMMA RestInit == Init => ArrivalOrder /\ Rest
<1> SUFFICES ASSUME Init PROVE ArrivalOrder /\ Rest OBVIOUS
<1>1. Line = <<<<>>>> /\ InLine = {} BY PlacesInit
<1>2. InCall = {} /\ Open = {} BY PlacesInit
<1>4. Answers = {} BY PlacesInit
<1>5. ArrivalOrder BY <1>1 DEF ArrivalOrder
<1>6. Numbered
  <2>1. \A r \in Request : r.number > 0 /\ r.station \in Station BY RequestFacts
  <2> QED BY <2>1 DEF Init, Numbered
<1>7. NothingLost BY DEF Init, NothingLost, Waiting
<1>8. OwnQueue /\ OneAnswer /\ OneReply BY DEF Init, OwnQueue, OneAnswer, OneReply
<1> QED BY <1>1, <1>2, <1>4, <1>5, <1>6, <1>7, <1>8 DEF Init, Rest, Apart, Known

LEMMA RestQuiet ==
  ASSUME Inv, Quiet
  PROVE  Rest'
<1>1. /\ InLine' = InLine /\ InCall' = InCall /\ Open' = Open /\ Answers' = Answers
      /\ UNCHANGED <<calls, reply, responses, sent, status, got>>
  BY PlacesQuiet
<1>2. Apart' BY <1>1 DEF Inv, Apart
<1>3. NothingLost' /\ Numbered' BY <1>1 DEF Inv, NothingLost, Waiting, Current, Numbered
<1>4. Known' /\ OwnQueue' /\ OneAnswer' /\ OneReply'
  BY <1>1 DEF Inv, Known, OwnQueue, OneAnswer, OneReply
<1> QED BY <1>2, <1>3, <1>4 DEF Rest

LEMMA RestSubmit ==
  ASSUME Inv, NEW s \in Station, Submit(s)
  PROVE  Rest'
<1> DEFINE r == [station |-> s, number |-> sent[s] + 1]
<1>1. /\ r \in Request /\ r.station = s /\ r.number = sent[s] + 1 /\ sent[s] \in Nat
      /\ status[r] = "unsent" /\ r \notin Open
      /\ \A x \in Answers : x.request # r
      /\ InLine' = InLine \cup {r} /\ InCall' = InCall /\ Open' = Open \cup {r}
      /\ Answers' = Answers
  BY PlacesSubmit
<1>2. /\ ~Waiting(s) /\ sent' = [sent EXCEPT ![s] = @ + 1]
      /\ status' = [status EXCEPT ![r] = "pending"]
      /\ UNCHANGED <<calls, reply, responses>>
  BY DEF Submit, workerVars
<1>3. /\ sent'[s] = sent[s] + 1 /\ \A t \in Station : t # s => sent'[t] = sent[t]
      /\ status'[r] = "pending" /\ \A q \in Request : q # r => status'[q] = status[q]
      /\ Current(s)' = r
  BY <1>1, <1>2 DEF Inv, TypeOK, Current
<1> HIDE DEF r
<1>4. Apart' BY <1>1, <1>2 DEF Inv, Apart, Open
<1>5. Numbered'
  <2>1. ASSUME NEW q \in Request PROVE status'[q] = "unsent" <=> q.number > sent'[q.station]
    <3>1. CASE q = r BY <1>1, <1>3, <3>1
    <3>2. CASE q # r /\ q.station = s
      <4>1. q.number \in Int /\ q = [station |-> s, number |-> q.number] BY <3>2, RequestFacts
      <4>2. q.number # sent[s] + 1 BY <3>2, <4>1 DEF r
      <4>3. status'[q] = "unsent" <=> q.number > sent[s] BY <1>3, <3>2 DEF Inv, Numbered
      <4> QED BY <1>1, <1>3, <3>2, <4>1, <4>2, <4>3
    <3>3. CASE q.station # s
      <4>1. q.station \in Station /\ q # r BY <1>1, <3>3, RequestFacts
      <4> QED BY <1>3, <3>3, <4>1 DEF Inv, Numbered
    <3> QED BY <3>1, <3>2, <3>3
  <2>2. ASSUME NEW q \in Request, status'[q] = "pending" PROVE q = Current(q.station)'
    <3>1. CASE q = r BY <1>1, <1>3, <3>1
    <3>2. CASE q # r
      <4>1. status[q] = "pending" /\ q = Current(q.station) BY <1>3, <2>2, <3>2 DEF Inv, Numbered
      <4>2. q.station \in Station /\ q.number > 0 BY RequestFacts
      <4>3. q.station # s BY <1>2, <4>1, <4>2 DEF Waiting, Current
      <4> QED BY <1>3, <4>1, <4>2, <4>3 DEF Current
    <3> QED BY <3>1, <3>2
  <2> QED BY <2>1, <2>2 DEF Numbered
<1>6. Known'
  <2>1. \A q \in Open : q \in Request /\ q # r BY <1>1, PlacesTyped
  <2>2. \A x \in Answers : x.request \in Request /\ x.request # r BY <1>1, PlacesTyped
  <2> QED BY <1>1, <1>3, <2>1, <2>2 DEF Inv, Known
<1>7. NothingLost'
  <2> SUFFICES ASSUME NEW t \in Station, Waiting(t)'
               PROVE  \/ Current(t)' \in Open'
                      \/ \E x \in ToSet(responses[t])' : x.request = Current(t)'
    BY DEF NothingLost
  <2>1. CASE t = s BY <1>1, <1>3, <2>1
  <2>2. CASE t # s
    <3>1. Current(t)' = Current(t) /\ sent'[t] = sent[t] BY <1>3, <2>2 DEF Current
    <3>2. Current(t) # r BY <1>1, <2>2 DEF Current
    <3>3. Waiting(t)
      <4>1. sent[t] > 0 /\ status'[Current(t)] = "pending" BY <3>1 DEF Waiting
      <4>2. sent[t] \in Nat /\ sent[t] <= MaxRequests[t] /\ MaxRequests[t] \in Nat
        BY RequestFacts DEF Inv, TypeOK
      <4>3. Current(t) \in Request BY <4>1, <4>2, RequestFacts DEF Current
      <4> QED BY <1>3, <3>2, <4>1, <4>3 DEF Waiting
    <3> QED BY <1>1, <1>2, <3>1, <3>3 DEF Inv, NothingLost
  <2> QED BY <2>1, <2>2
<1>8. OwnQueue' /\ OneAnswer' /\ OneReply' BY <1>2 DEF Inv, OwnQueue, OneAnswer, OneReply
<1> QED BY <1>4, <1>5, <1>6, <1>7, <1>8 DEF Rest

LEMMA RestTimeOut ==
  ASSUME Inv, NEW s \in Station, TimeOut(s)
  PROVE  Rest'
<1> DEFINE c == Current(s)
<1>1. /\ Waiting(s) /\ status' = [status EXCEPT ![c] = "lost"]
      /\ UNCHANGED <<calls, reply, responses, sent>> /\ UNCHANGED <<work, batch, buffer, held,
          requests>>
  BY DEF TimeOut, workerVars, collectorVars, batcherVars
<1>2. InLine' = InLine /\ InCall' = InCall /\ Open' = Open /\ Answers' = Answers
  BY <1>1 DEF InLine, Line, Backlog, HeldSeq, InCall, Open, Answers
<1>3. c \in Request /\ status[c] = "pending" BY <1>1, CurrentFacts DEF Inv, Waiting
<1>4. status'[c] = "lost" /\ \A q \in Request : q # c => status'[q] = status[q]
  BY <1>1, <1>3 DEF Inv, TypeOK
<1>5. \A t \in Station : Current(t)' = Current(t) BY <1>1 DEF Current
<1> HIDE DEF c
<1>6. Numbered'
  <2>1. ASSUME NEW q \in Request PROVE status'[q] = "unsent" <=> q.number > sent'[q.station]
    BY <1>1, <1>3, <1>4 DEF Inv, Numbered
  <2>2. ASSUME NEW q \in Request, status'[q] = "pending" PROVE q = Current(q.station)'
    <3>1. status[q] = "pending" /\ q.station \in Station BY <1>4, <2>2, RequestFacts
    <3> QED BY <1>5, <3>1 DEF Inv, Numbered
  <2> QED BY <2>1, <2>2 DEF Numbered
<1>7. Known'
  <2>1. \A q \in Request : status[q] \in {"pending", "lost"} => status'[q] \in {"pending", "lost"}
    BY <1>4
  <2> QED BY <1>2, <2>1, PlacesTyped DEF Inv, Known
<1>8. NothingLost'
  <2> SUFFICES ASSUME NEW t \in Station, Waiting(t)'
               PROVE  \/ Current(t)' \in Open'
                      \/ \E x \in ToSet(responses[t])' : x.request = Current(t)'
    BY DEF NothingLost
  <2>1. Waiting(t)
    <3>1. sent[t] > 0 /\ status'[Current(t)] = "pending" BY <1>1, <1>5 DEF Waiting
    <3>2. status[Current(t)] = "pending" BY <1>1, <1>3, <3>1 DEF Inv, TypeOK
    <3> QED BY <3>1, <3>2 DEF Waiting
  <2> QED BY <1>1, <1>2, <1>5, <2>1 DEF Inv, NothingLost
<1>9. Apart' /\ OwnQueue' /\ OneAnswer' /\ OneReply'
  BY <1>1, <1>2 DEF Inv, Apart, OwnQueue, OneAnswer, OneReply
<1> QED BY <1>6, <1>7, <1>8, <1>9 DEF Rest

LEMMA RestReceive ==
  ASSUME Inv, NEW s \in Station, Receive(s)
  PROVE  Rest'
<1> DEFINE x == Head(responses[s])
           c == Current(s)
<1>1. /\ x \in Response /\ x \in Answers /\ x.request \in Request /\ x.request.station = s
      /\ Len(responses[s]) \in Nat \ {0} /\ x = responses[s][1]
      /\ responses' = [responses EXCEPT ![s] = Tail(@)]
      /\ Len(responses'[s]) = Len(responses[s]) - 1
      /\ \A i \in 1..Len(responses'[s]) : responses'[s][i] = responses[s][i + 1]
      /\ Answers' = Answers \ {x}
      /\ \A y \in Answers' : y.request # x.request
      /\ InLine' = InLine /\ InCall' = InCall /\ Open' = Open
      /\ UNCHANGED <<calls, reply, sent>>
  BY PlacesReceive
<1>2. /\ Waiting(s)
      /\ IF x.request = c THEN status' = [status EXCEPT ![c] = "answered"] ELSE status' = status
  BY DEF Receive
<1>3. c \in Request /\ status[c] = "pending" BY <1>2, CurrentFacts DEF Inv, Waiting
<1>4. /\ \A q \in Request : q # c => status'[q] = status[q]
      /\ x.request # c => status' = status
      /\ x.request = c => status'[c] = "answered"
  BY <1>2, <1>3 DEF Inv, TypeOK
<1>5. \A t \in Station : Current(t)' = Current(t) BY <1>1 DEF Current
<1>6. \A t \in Station : t # s => responses'[t] = responses[t] BY <1>1 DEF Inv, TypeOK
<1> HIDE DEF c, x
<1>7. Apart' BY <1>1 DEF Inv, Apart
<1>8. Numbered'
  <2>1. ASSUME NEW q \in Request PROVE status'[q] = "unsent" <=> q.number > sent'[q.station]
    <3>1. status'[q] = "unsent" <=> status[q] = "unsent" BY <1>3, <1>4
    <3> QED BY <1>1, <3>1 DEF Inv, Numbered
  <2>2. ASSUME NEW q \in Request, status'[q] = "pending" PROVE q = Current(q.station)'
    <3>1. status[q] = "pending" /\ q.station \in Station BY <1>3, <1>4, <2>2, RequestFacts
    <3> QED BY <1>5, <3>1 DEF Inv, Numbered
  <2> QED BY <2>1, <2>2 DEF Numbered
<1>9. Known'
  <2>1. x.request \notin Open BY <1>1 DEF Inv, Apart
  <2>2. \A q \in Request : q # x.request => status'[q] = status[q] BY <1>4
  <2> QED BY <1>1, <2>1, <2>2, PlacesTyped DEF Inv, Known
<1>10. NothingLost'
  <2> SUFFICES ASSUME NEW t \in Station, Waiting(t)'
               PROVE  \/ Current(t)' \in Open'
                      \/ \E y \in ToSet(responses[t])' : y.request = Current(t)'
    BY DEF NothingLost
  <2>1. /\ Current(t) \in Request /\ Current(t).station = t
    <3>1. sent[t] > 0 /\ sent[t] \in Nat /\ sent[t] <= MaxRequests[t] /\ MaxRequests[t] \in Nat
      BY <1>1, RequestFacts DEF Waiting, Inv, TypeOK
    <3> QED BY <3>1, RequestFacts DEF Current
  <2>2. Waiting(t)
    <3>1. sent[t] > 0 /\ status'[Current(t)] = "pending" BY <1>1, <1>5 DEF Waiting
    <3>2. status[Current(t)] = "pending" BY <1>3, <1>4, <2>1, <3>1
    <3> QED BY <3>1, <3>2 DEF Waiting
  <2>3. Current(t) \in Open \/ \E y \in ToSet(responses[t]) : y.request = Current(t)
    BY <2>2 DEF Inv, NothingLost
  <2>4. CASE t # s BY <1>1, <1>5, <1>6, <2>3, <2>4
  <2>5. CASE t = s
    <3>1. x.request # Current(t)
      <4>1. status'[Current(t)] = "pending" BY <1>5 DEF Waiting
      <4> QED BY <1>4, <2>5, <4>1 DEF c
    <3>2. ASSUME NEW y \in ToSet(responses[t]), y.request = Current(t)
          PROVE  y \in ToSet(responses[t])'
      <4> DEFINE q == responses[t]
                 p == responses'[t]
      <4>1. q \in Seq(Response) BY DEF Inv, TypeOK
      <4>2. p \in Seq(Response)
        <5>1. q # <<>> BY <1>1, <2>5
        <5> QED BY <1>1, <2>5, <4>1, <5>1 DEF Inv, TypeOK
      <4>3. /\ Len(p) = Len(q) - 1 /\ Len(q) \in Nat \ {0} /\ x = q[1]
            /\ \A i \in 1..Len(p) : p[i] = q[i + 1]
            /\ y \in ToSet(q)
        BY <1>1, <2>5
      <4>a. ToSet(responses[t])' = ToSet(p) BY DEF ToSet
      <4> HIDE DEF q, p
      <4>4. PICK i \in 1..Len(q) : q[i] = y BY <4>1, <4>3, ToSetFacts
      <4>5. i # 1 BY <3>1, <3>2, <4>3, <4>4
      <4>6. i - 1 \in 1..Len(p) /\ p[i - 1] = y BY <4>3, <4>4, <4>5
      <4> QED BY <4>2, <4>6, <4>a, ToSetFacts
    <3> QED BY <1>1, <1>5, <2>3, <3>1, <3>2
  <2> QED BY <2>4, <2>5
<1>11. OwnQueue'
  <2> SUFFICES ASSUME NEW t \in Station, NEW i \in 1..Len(responses'[t])
               PROVE  responses'[t][i].request.station = t
    BY DEF OwnQueue
  <2>1. CASE t # s BY <1>6, <2>1 DEF Inv, OwnQueue
  <2>2. CASE t = s
    <3>1. i + 1 \in 1..Len(responses[t]) /\ responses'[t][i] = responses[t][i + 1] BY <1>1, <2>2
    <3> QED BY <3>1 DEF Inv, OwnQueue
  <2> QED BY <2>1, <2>2
<1>12. OneAnswer'
  <2> SUFFICES ASSUME NEW t \in Station, NEW i \in 1..Len(responses'[t]),
      NEW j \in 1..Len(responses'[t]),
                      responses'[t][i].request = responses'[t][j].request
               PROVE  i = j
    BY DEF OneAnswer
  <2>1. CASE t # s BY <1>6, <2>1 DEF Inv, OneAnswer
  <2>2. CASE t = s
    <3>1. /\ i + 1 \in 1..Len(responses[t]) /\ responses'[t][i] = responses[t][i + 1]
          /\ j + 1 \in 1..Len(responses[t]) /\ responses'[t][j] = responses[t][j + 1]
      BY <1>1, <2>2
    <3>2. i + 1 = j + 1 BY <3>1 DEF Inv, OneAnswer
    <3> QED BY <3>2
  <2> QED BY <2>1, <2>2
<1>13. OneReply' BY <1>1 DEF Inv, OneReply
<1> QED BY <1>7, <1>8, <1>9, <1>10, <1>11, <1>12, <1>13 DEF Rest

LEMMA RestTake ==
  ASSUME Inv, NEW w \in Worker, TakeBatch(w)
  PROVE  Rest'
<1>1. PICK B \in SUBSET Request :
        /\ B \subseteq InLine /\ InLine' = InLine \ B /\ InCall' = InCall \cup B
        /\ B \cap InCall = {} /\ Open' = Open /\ Answers' = Answers
        /\ calls' = [calls EXCEPT ![w] = B]
        /\ UNCHANGED <<reply, responses, sent, status, got>>
  BY PlacesTake
<1>2. /\ calls'[w] = B /\ \A v \in Worker : v # w => calls'[v] = calls[v]
      /\ \A v \in Worker : calls[v] \subseteq InCall
      /\ \A v \in Worker : reply[v] # Nobody => reply[v].request \in InCall
  BY <1>1 DEF Inv, TypeOK, InCall
<1>3. Apart'
  <2>1. InLine' \cap InCall' = {} BY <1>1 DEF Inv, Apart
  <2>2. \A u, v \in Worker : u # v => calls'[u] \cap calls'[v] = {} BY <1>1, <1>2 DEF Inv, Apart
  <2>3. \A y \in Answers' : y.request \notin Open' BY <1>1 DEF Inv, Apart
  <2> QED BY <2>1, <2>2, <2>3 DEF Apart
<1>4. NothingLost' /\ Numbered' BY <1>1 DEF Inv, NothingLost, Waiting, Current, Numbered
<1>5. Known' /\ OwnQueue' /\ OneAnswer' BY <1>1 DEF Inv, Known, OwnQueue, OneAnswer
<1>6. OneReply' BY <1>1, <1>2 DEF Inv, OneReply
<1> QED BY <1>3, <1>4, <1>5, <1>6 DEF Rest

LEMMA RestComplete ==
  ASSUME Inv, NEW w \in Worker, Complete(w)
  PROVE  Rest'
<1>1. PICK r \in calls[w], ok \in BOOLEAN :
        /\ reply[w] = Nobody
        /\ calls' = [calls EXCEPT ![w] = @ \ {r}]
        /\ reply' = [reply EXCEPT ![w] = [request |-> r, ok |-> ok]]
        /\ InLine' = InLine /\ InCall' = InCall /\ Open' = Open /\ Answers' = Answers
        /\ UNCHANGED <<responses, sent, status, got>>
  BY PlacesComplete
<1>2. /\ calls'[w] = calls[w] \ {r} /\ reply'[w].request = r
      /\ \A v \in Worker : v # w => calls'[v] = calls[v] /\ reply'[v] = reply[v]
  BY <1>1 DEF Inv, TypeOK
<1>3. Apart' BY <1>1, <1>2 DEF Inv, Apart
<1>4. NothingLost' /\ Numbered' BY <1>1 DEF Inv, NothingLost, Waiting, Current, Numbered
<1>5. Known' /\ OwnQueue' /\ OneAnswer' BY <1>1 DEF Inv, Known, OwnQueue, OneAnswer
<1>6. OneReply'
  <2> SUFFICES ASSUME NEW u \in Worker, reply'[u] # Nobody, NEW v \in Worker
               PROVE  /\ reply'[u].request \notin calls'[v]
                      /\ reply'[v] # Nobody /\ reply'[v].request = reply'[u].request => v = u
    BY DEF OneReply
  <2>1. r \in calls[w] /\ \A t \in Worker : t # w => r \notin calls[t] BY DEF Inv, Apart
  <2>2. \A t \in Worker : reply[t] # Nobody => reply[t].request # r BY <2>1 DEF Inv, OneReply
  <2>3. CASE u = w BY <1>2, <2>1, <2>2, <2>3
  <2>4. CASE u # w
    <3>1. reply[u] # Nobody /\ reply'[u] = reply[u] BY <1>2, <2>4
    <3> QED BY <1>2, <2>2, <2>4, <3>1 DEF Inv, OneReply
  <2> QED BY <2>3, <2>4
<1> QED BY <1>3, <1>4, <1>5, <1>6 DEF Rest

LEMMA RestRoute ==
  ASSUME Inv, NEW w \in Worker, Route(w)
  PROVE  Rest'
<1> DEFINE x == reply[w]
           s == x.request.station
<1>1. /\ x \in Response /\ x # Nobody /\ x.request \in Request /\ s \in Station
      /\ x.request \in Open /\ x.request \notin InLine
      /\ \A y \in Answers : y.request # x.request
      /\ Len(responses[s]) \in Nat
      /\ responses' = [responses EXCEPT ![s] = Append(@, x)]
      /\ reply' = [reply EXCEPT ![w] = Nobody]
      /\ InLine' = InLine /\ InCall' = InCall \ {x.request} /\ Open' = Open \ {x.request}
      /\ Answers' = Answers \cup {x}
      /\ UNCHANGED <<calls, sent, status, got>>
  BY PlacesRoute
<1>2. /\ reply'[w] = Nobody /\ \A v \in Worker : v # w => reply'[v] = reply[v]
      /\ \A t \in Station : t # s => responses'[t] = responses[t]
  BY <1>1 DEF Inv, TypeOK
<1>3. /\ Len(responses'[s]) = Len(responses[s]) + 1 /\ responses'[s][Len(responses[s]) + 1] = x
      /\ \A i \in 1..Len(responses[s]) : responses'[s][i] = responses[s][i]
      /\ responses'[s] \in Seq(Response) /\ responses[s] \in Seq(Response)
  <2>1. responses'[s] = Append(responses[s], x) /\ responses[s] \in Seq(Response)
    BY <1>1 DEF Inv, TypeOK
  <2> QED BY <1>1, <2>1, AppendProperties
<1>4. x.request.station = s OBVIOUS
<1> HIDE DEF x, s
<1>5. Apart' BY <1>1 DEF Inv, Apart
<1>6. Numbered' BY <1>1 DEF Inv, Numbered, Current
<1>7. Known' BY <1>1 DEF Inv, Known
<1>8. OwnQueue'
  <2> SUFFICES ASSUME NEW t \in Station, NEW i \in 1..Len(responses'[t])
               PROVE  responses'[t][i].request.station = t
    BY DEF OwnQueue
  <2>1. CASE t # s BY <1>2, <2>1 DEF Inv, OwnQueue
  <2>2. CASE t = s
    <3>1. i \in 1..Len(responses[s]) \/ i = Len(responses[s]) + 1 BY <1>1, <1>3, <2>2
    <3> QED BY <1>3, <1>4, <2>2, <3>1 DEF Inv, OwnQueue
  <2> QED BY <2>1, <2>2
<1>9. OneAnswer'
  <2> SUFFICES ASSUME NEW t \in Station, NEW i \in 1..Len(responses'[t]),
      NEW j \in 1..Len(responses'[t]),
                      responses'[t][i].request = responses'[t][j].request
               PROVE  i = j
    BY DEF OneAnswer
  <2>1. CASE t # s BY <1>2, <2>1 DEF Inv, OneAnswer
  <2>2. CASE t = s
    <3>1. \A k \in 1..Len(responses[s]) : responses[s][k].request # x.request
      <4>1. \A k \in 1..Len(responses[s]) : responses[s][k] \in ToSet(responses[s])
        BY <1>3, ToSetFacts
      <4> QED BY <1>1, <4>1 DEF Answers
    <3>2. /\ i \in 1..Len(responses[s]) \/ i = Len(responses[s]) + 1
          /\ j \in 1..Len(responses[s]) \/ j = Len(responses[s]) + 1
      BY <1>1, <1>3, <2>2
    <3> QED BY <1>1, <1>3, <2>2, <3>1, <3>2 DEF Inv, OneAnswer
  <2> QED BY <2>1, <2>2
<1>10. OneReply' BY <1>1, <1>2 DEF Inv, OneReply
<1>11. NothingLost'
  <2> SUFFICES ASSUME NEW t \in Station, Waiting(t)'
               PROVE  \/ Current(t)' \in Open'
                      \/ \E y \in ToSet(responses[t])' : y.request = Current(t)'
    BY DEF NothingLost
  <2>1. Waiting(t) /\ Current(t)' = Current(t) BY <1>1 DEF Waiting, Current
  <2>2. Current(t) \in Open \/ \E y \in ToSet(responses[t]) : y.request = Current(t)
    BY <2>1 DEF Inv, NothingLost
  <2>3. CASE Current(t) = x.request
    <3>1. t = s BY <1>4, <2>3 DEF Current
    <3>2. Len(responses[s]) + 1 \in 1..Len(responses'[s]) BY <1>1, <1>3
    <3>3. x \in ToSet(responses'[s]) BY <1>3, <3>2, ToSetFacts
    <3> QED BY <2>1, <2>3, <3>1, <3>3
  <2>4. CASE Current(t) # x.request /\ Current(t) \in Open BY <1>1, <2>1, <2>4
  <2>5. ASSUME NEW y \in ToSet(responses[t]), y.request = Current(t)
        PROVE  \E z \in ToSet(responses[t])' : z.request = Current(t)'
    <3>1. y \in ToSet(responses'[t])
      <4>1. CASE t # s BY <1>2, <4>1
      <4>2. CASE t = s
        <5>1. PICK i \in 1..Len(responses[s]) : responses[s][i] = y
          BY <1>3, <2>5, <4>2, ToSetFacts
        <5>2. i \in 1..Len(responses'[s]) /\ responses'[s][i] = y BY <1>1, <1>3, <5>1
        <5> QED BY <1>3, <4>2, <5>2, ToSetFacts
      <4> QED BY <4>1, <4>2
    <3> QED BY <2>1, <2>5, <3>1
  <2> QED BY <2>2, <2>3, <2>4, <2>5
<1> QED BY <1>5, <1>6, <1>7, <1>8, <1>9, <1>10, <1>11 DEF Rest

LEMMA InvInit == Init => Inv
BY TypeInit, RestInit DEF Inv, Rest

LEMMA InvStep == Inv /\ [Next]_vars => Inv'
<1> SUFFICES ASSUME Inv, [Next]_vars PROVE Inv' OBVIOUS
<1>1. TypeOK' /\ ArrivalOrder' BY TypeStep, OrderStep DEF Inv
<1>2. Rest'
  BY RestQuiet, RestSubmit, RestTimeOut, RestReceive, RestTake, RestComplete, RestRoute
  DEF Next, Quiet
<1> QED BY <1>1, <1>2 DEF Inv, Rest

LEMMA Invariance == Spec => []Inv
<1> QED BY InvInit, InvStep, PTL DEF Spec

(* A request is with one thread only: the collector, the batcher, a batch  *)
(* on its way, or one call of one worker, and never with its answer.       *)
THEOREM RequestsHandledOnce == Spec => []HandledOnce
<1>1. Inv => HandledOnce BY OrderedOnce DEF Inv, Apart, HandledOnce
<1> QED BY <1>1, Invariance, PTL

(* A request a station waits for stays with the scheduler until its answer *)
(* is in the station's own queue (_request_vlm_inference).                 *)
THEOREM RequestsNotLost == Spec => []NothingLost
<1>1. Inv => NothingLost BY DEF Inv
<1> QED BY <1>1, Invariance, PTL

(* Whatever the size of a batch and wherever the batcher waits, a          *)
(* station's requests go to the workers in the order they were put.        *)
THEOREM RequestsInOrder == Spec => []ArrivalOrder
<1>1. Inv => ArrivalOrder BY DEF Inv
<1> QED BY <1>1, Invariance, PTL

---------------------------------------------------------------------------
(* The scheduler implements RequestReply.                                  *)

LEMMA PromiseInit == Init => Promise!Init
BY PlacesInit DEF Init, Promise!Init

LEMMA PromiseSubmit ==
  ASSUME Inv, NEW s \in Station, Submit(s)
  PROVE  Promise!Next
<1> DEFINE r == [station |-> s, number |-> sent[s] + 1]
<1>1. /\ r \in Request /\ r.station = s /\ status[r] = "unsent"
      /\ Open' = Open \cup {r} /\ Answers' = Answers
  BY PlacesSubmit
<1>2. /\ ~Waiting(s) /\ status' = [status EXCEPT ![r] = "pending"] /\ got' = got
  BY DEF Submit
<1> HIDE DEF r
<1>3. ASSUME NEW q \in Request, StationOf(q) = StationOf(r) PROVE ~Promise!Waiting(q)
  <2>1. q.station = s /\ q.number > 0 BY <1>1, <1>3, RequestFacts DEF StationOf
  <2>2. q = Current(s) /\ status[q] = "pending" => Waiting(s) BY <2>1 DEF Current, Waiting
  <2> QED BY <1>2, <2>1, <2>2 DEF Inv, Numbered, Promise!Waiting
<1>4. Promise!Ask(r) BY <1>1, <1>2, <1>3 DEF Promise!Ask
<1> QED BY <1>1, <1>4 DEF Promise!Next

LEMMA PromiseTimeOut ==
  ASSUME Inv, NEW s \in Station, TimeOut(s)
  PROVE  Promise!Next
<1> DEFINE c == Current(s)
<1>1. /\ Waiting(s) /\ status' = [status EXCEPT ![c] = "lost"] /\ got' = got
      /\ UNCHANGED <<calls, reply, responses>> /\ UNCHANGED <<work, batch, buffer, held,
          requests>>
  BY DEF TimeOut, workerVars, collectorVars, batcherVars
<1>2. Open' = Open /\ Answers' = Answers
  BY <1>1 DEF InLine, Line, Backlog, HeldSeq, InCall, Open, Answers
<1>3. c \in Request /\ status[c] = "pending" BY <1>1, CurrentFacts DEF Inv, Waiting
<1>4. Promise!GiveUp(c) BY <1>1, <1>2, <1>3 DEF Promise!GiveUp, Promise!Waiting
<1> QED BY <1>3, <1>4 DEF Promise!Next

LEMMA PromiseReceive ==
  ASSUME Inv, NEW s \in Station, Receive(s)
  PROVE  Promise!Next
<1> DEFINE x == Head(responses[s])
           c == Current(s)
<1>1. /\ x \in Response /\ x \in Answers /\ x.request \in Request /\ x.request.station = s
      /\ Answers' = Answers \ {x} /\ Open' = Open
  BY PlacesReceive
<1>2. /\ Waiting(s)
      /\ IF x.request = c
         THEN status' = [status EXCEPT ![c] = "answered"] /\ got' = [got EXCEPT ![c] = x]
         ELSE status' = status /\ got' = got
  BY DEF Receive
<1>3. x \in Promise!Response BY <1>1 DEF Response, Promise!Response
<1> HIDE DEF x
<1>4. CASE x.request = c
  <2>1. status[x.request] = "pending" BY <1>2, <1>4 DEF Waiting
  <2>2. Promise!Accept(x) BY <1>1, <1>2, <1>4, <2>1 DEF Promise!Accept, Promise!Waiting
  <2> QED BY <1>3, <2>2 DEF Promise!Next
<1>5. CASE x.request # c
  <2>1. status[x.request] = "lost" BY <1>1, <1>5 DEF Inv, Known, Numbered
  <2>2. Promise!Discard(x) BY <1>1, <1>2, <1>5, <2>1 DEF Promise!Discard
  <2> QED BY <1>3, <2>2 DEF Promise!Next
<1> QED BY <1>4, <1>5

LEMMA PromiseRoute ==
  ASSUME Inv, NEW w \in Worker, Route(w)
  PROVE  Promise!Next
<1> DEFINE x == reply[w]
<1>1. /\ x \in Response /\ x.request \in Request /\ x.request \in Open
      /\ Open' = Open \ {x.request} /\ Answers' = Answers \cup {x}
      /\ UNCHANGED <<status, got>>
  BY PlacesRoute
<1> HIDE DEF x
<1>2. x = [request |-> x.request, ok |-> x.ok] /\ x.ok \in BOOLEAN BY <1>1 DEF Response
<1>3. Promise!Answer(x.request, x.ok) BY <1>1, <1>2 DEF Promise!Answer
<1> QED BY <1>1, <1>2, <1>3 DEF Promise!Next

LEMMA PromiseStep == Inv /\ [Next]_vars => [Promise!Next]_(Promise!vars)
<1> SUFFICES ASSUME Inv, [Next]_vars PROVE Promise!Next \/ UNCHANGED Promise!vars
  BY DEF Promise!vars
<1>1. CASE Quiet BY <1>1, PlacesQuiet DEF Promise!vars
<1>2. ASSUME NEW w \in Worker, TakeBatch(w) PROVE UNCHANGED Promise!vars
  BY <1>2, PlacesTake DEF Promise!vars
<1>3. ASSUME NEW w \in Worker, Complete(w) PROVE UNCHANGED Promise!vars
  BY <1>3, PlacesComplete DEF Promise!vars
<1> QED
  BY <1>1, <1>2, <1>3, PromiseSubmit, PromiseTimeOut, PromiseReceive, PromiseRoute
  DEF Next, Quiet

(* Every request is answered at most once, with an answer to that very     *)
(* request, handed to the station that asked, and accepted only while the  *)
(* station waits for it: every step of the scheduler's threads is a step   *)
(* of RequestReply or none.                                                *)
THEOREM SchedulerKeepsPromise == Spec => KeepsPromise
<1> QED BY PromiseInit, PromiseStep, Invariance, PTL DEF Spec, KeepsPromise, Promise!Spec

=============================================================================
