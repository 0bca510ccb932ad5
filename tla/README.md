# Order Accuracy: specification and proofs

TLA+ specifications of the Order Accuracy reference applications, translated from their Python
source, model-checked with TLC on small instances and, where it matters most, proved with TLAPS
for every value of the constants. Line numbers refer to the files of this repository; `tsw` stands
for `take-away/src/parallel/station_worker.py`.

1. [The system](#1-the-system)
2. [Plan](#2-plan)
3. [The modules](#3-the-modules)
4. [The runs](#4-the-runs)
5. [The proofs](#5-the-proofs)
6. [Where code and documentation part](#6-where-code-and-documentation-part)
7. [What is not modelled](#7-what-is-not-modelled)

## 1. The system

Two applications compare what lies on a table with the order it should be.

**Take-away** works on video. A camera (RTSP) films a table at a station; a slip with the order
number lies among the items.

    RTSP ──> frame pipeline ──frames, __EOS__──> MinIO ──┬──> station worker ──> VLM scheduler ──> OVMS
             (gst-launch child                            │     (frame monitor,     (batching)
              of a station worker)                        │      order work)
                                                          └──> frame selector ──HTTP | queue | RabbitMQ──> VLM service ──> OVMS

Two routes lead from the store to the model: with `EXTERNAL_FRAME_SELECTOR` (the default of
docker-compose) the frame selector service owns the orders, otherwise the station workers do.

**Dine-in** works on single photographs: an HTTP request with an image and an order is answered
with the comparison; a benchmark runs workers that make such requests.

### Components

| Component | State | Operations | Who it talks to | What is hard |
|---|---|---|---|---|
| Station worker: pipeline lifecycle (`tsw`) | pipeline state, child process, restart count, circuit breaker, times | start, stop, restart with backoff, health checks, circuit probe, shutdown | RTSP server, gst-launch child, manager | two threads restart the same child; the lock is released between check and act; crash, stall, end of video, lost stream, signals |
| Station worker: order work (`tsw`) | active and processed orders | scan MinIO, process, ask, validate, record | MinIO, VLM scheduler | two threads share two collections without a lock; failures are swallowed |
| Station manager (`station_manager.py`) | worker pool, next number, `_running` | resize, start, stop, monitor, signals | workers, through one control queue and signals | a queue read destructively by all; workers that ignore a message or a signal; who handles the signal |
| VLM scheduler (`vlm_scheduler.py`, `shared_queue.py`) | request queue, buffer, work queue, response queues | collect, batch, call, route | station workers, OVMS | three kinds of threads, a lock held over a blocking put, bounded queues, late answers |
| Frame pipeline (`frame_pipeline.py`) | pre-buffer, table timers, OCR votes, active order, upload queue | capture, OCR, confirm and flush, finalise, upload, signal | OCR, YOLO, MinIO | callback, upload thread and signal handler share it; drops when full; the process dies at any time |
| Frame selector (`frame_selector.py`) | bucket snapshot, current and candidate order, processed keys, warm-up | poll, collect, close, score, call, clean | MinIO, VLM service | works on stale snapshots, sorted by name, while others write; errors leave it half-way |
| RabbitMQ queue (`message_queue.py`) | messages, acknowledgements, retry counts | publish, consume, acknowledge, retry | broker, VLM service | lost links, a queue that disappears with its consumer, duplicates |
| VLM service (`vlm_service.py`) | station queues, workers, futures | run_vlm, worker loop | API, RabbitMQ consumer, OVMS | two event loops in two threads use the same asyncio queues |
| Order results, video history (`order_results.py`, `video_history.py`) | in-memory registries, a JSON file | add, complete, look up, clear | API, VLM service | locks, eviction, restarts |
| Order validation (`validation_agent.py`, `semantic_*.py`) | none | three passes of matching | semantic service | which item is matched with which |
| Dine-in validation (`validation_service.py`, `vlm_client.py`, `semantic_client.py`) | two circuit breakers | recognise, match, score | OVMS, semantic service | breakers shared by concurrent requests; greedy matching |
| Dine-in API (`api.py`) | result cache, the one benchmark | validate, batch, start and stop benchmark | all of dine-in | concurrent calls that await between test and use |
| Dine-in benchmark (`benchmark_service.py`) | workers, monitor, metrics | scale up and down, stop | dine-in API | scaling races with stopping; a start that runs after its stop |
| Dine-in stream workers (`worker.py`) | each its own clients, results and file | loop over images | OVMS, semantic service | nothing shared but the event loop |

Configuration, metrics, user interfaces, shell scripts and the OVMS client keep no state the
others depend on; section 7 lists them.

### What makes each component correct

* *Pipeline lifecycle*: one pipeline process at a time, always within reach of its worker; one
  restart at a time; nothing runs behind an open circuit; a video to be played once is played
  once; a worker told to stop does stop; a circuit is left when the stream is back.
* *Order work*: what is read for an order is complete; an order with a marker is processed; it is
  not processed over and over.
* *Manager*: a worker dropped from the pool is dead; numbers are not used twice; a resize ends.
* *Scheduler*: every request gets one answer, its own, at its own station; requests of a station
  are not reordered; nothing deadlocks.
* *Frame pipeline*: a marker in the store means that all frames are there; no frame of one order
  is stored under the next.
* *Frame selector*: an order is judged by its own frames; a call of the VLM finds the frames it was
  made for; a complete order is asked about.
* *Delivery*: an order sent is settled; no message or request leads to two results.
* *Order validation*: a validated order is right, line by line; an order served under its own names
  is validated; nothing seen is dropped from the report without a reason.
* *Results and history*: run numbers rise; the list of results and the history of videos tell the
  same story; a restart finds the videos it saved.
* *Dine-in*: a complete plate is called complete whatever the semantic service does; a breaker
  opens for a cause and closes again.
* *Benchmark*: the pool stays within its limits; a benchmark that runs can be stopped, and then stops.

## 2. Plan

In order of importance; all are done.

| # | Modules | What | Composition, abstraction |
|---|---|---|---|
| 1 | `StationPipeline` | lifecycle of the pipeline process | proofs in `StationPipelineProofs` |
| 2 | `VLMScheduler` | scheduler and the requesting side of the stations | implements `RequestReply`; proofs in `VLMSchedulerProofs` |
| 3 | `StationManager` | pool, control queue, worker processes | proofs in `TakeAwayProofs` |
| 4 | `FramePipeline` | the pipeline process | implements `OrderFeed`; proofs in `FramePipelineProofs` |
| 5 | `StationOrders` | frame monitor and order work of a station worker | |
| 6 | `OrderFlow` | store between pipeline and station worker | `OrderFeed` + `StationOrders`; proofs in `OrderFlowProofs` |
| 7 | `FrameSelector` | polling thread of the frame selector | proofs in `JudgementProofs` |
| 8 | `MessageQueue`, `VLMService`, `OrderDelivery` | from the selector's call to the stored result | `OrderDelivery` composes the other two; proofs in `TakeAwayProofs` |
| 9 | `CircuitBreaker`, `PlateValidation` | dine-in: breakers and matching of concurrent requests | operators shared by the two breakers; proofs in `DineInProofs` |
| 10 | `BenchmarkService` | dine-in: scaling workers, start and stop through the API | proofs in `DineInProofs` |
| 11 | `OrderValidation` | take-away: the three passes of `validate_order` | judged by a one-to-one matching; proofs in `JudgementProofs` |
| 12 | `OrderResults` | results and video history: two registries, eviction, clearing, restart | proofs in `OrderResultsProofs` |

Every invariant and every action property of the runs is proved, and so are the two refinements
(`OrderFeed`, `RequestReply`); what is left to the model checker is liveness (section 5). Some modules of
proofs are about two components, which keep their own names: `StationManager` is `PoolInit`,
`PoolNext`, `PoolSpec` beside `OrderDelivery`, `BenchmarkService` is `BenchmarkSpec` beside
`PlateValidation`, `OrderValidation` is `ValidationSpec` beside `FrameSelector`.
No module declares a RECURSIVE operator.

## 3. The modules

An action is what the code does between two points at which another thread, process or coroutine can
act: a lock released, a sleep, a subprocess, an object-store, queue or network call. Where a sequence
of such points makes no difference to anybody else they are one action, and the comment says why.
Variables are named after the code's; where the code has `a.b_c` the module often has `c`. Time is
not counted: that a period has elapsed is a free choice, made possible when its timer is started.
Definitions whose comment speaks of a bug (`MakeBatchFromEnd`, `KillTold`, ...) belong to no
specification: they are altered forms of the definition that follows them, used to make sure that
the properties can fail.

**StationPipeline** (tsw 144-180, 334-534, 732-1440, 1980-2088). Threads `main` (`run`) and `health`
(`_health_monitor_loop`); `pc` says where each is. `_safe_pipeline_restart`,
`_start_persistent_pipeline` and `_terminate_pipeline_subprocess` are called by both, so their
steps take the thread as a parameter. `RestartCheck` and `RestartEnter` are the two critical
sections of the restart. `RecordFailure` keeps any number of the earlier failures: which of them are
still in the window is time. `alive` is what the operating system runs, `child` what the worker
holds. A process that is terminated has ended when `_terminate_pipeline_subprocess` returns: that a
SIGKILL does not end it within two seconds, or that the signal fails otherwise, is logged, and the
handle dropped (tsw 1424-1437), with a process left that nobody tracks; `TerminateBegin` leaves it
out, because only a process stuck in the kernel survives a SIGKILL of its parent. The stream is the environment's (`rtsp`: no server, a server, a stream), because
`_wait_for_rtsp_stream` is content with a server and the circuit probe wants the stream. Left out:
metrics and logging.

**VLMScheduler** (vlm_scheduler.py 90-393, shared_queue.py, tsw 1822-1904). `Collect` and
`BufferRequest` are the collector, `MakeBatch` and `SubmitBatch` the batcher (`batch # <<>>` is
`_buffer_lock` held over the blocking `put`), `TakeBatch`, `Complete` and `Route` a worker thread.
`Submit`, `Receive` and `TimeOut` are `_request_vlm_inference`. The model's answer is `ok` or not.
**RequestReply** is the promise: a request is answered at most once, with an answer to that request;
a station accepts it or has given up. `Promise` in `VLMScheduler` maps `open` to the requests in any
queue or thread and `answers` to the contents of the response queues.

**StationManager** (station_manager.py 51-315, main.py 180-240, benchmark_runner.py 295-309). The
manager's thread resizes the pool (`StartWorker`, `StopOldest`, `Terminate`, `Kill`, `Joined`) for
the benchmark or for main.py (`service`); `proc` is each worker process, reduced to what decides
whether it hears a message or a signal: in `init` a SIGTERM is forgotten, because `run` sets
`_running` after it; in `busy` it looks at nothing.

**FramePipeline** (frame_pipeline.py 440-1219). `FrameBusy`, `FrameEmpty`, `FrameEnds` are the three
outcomes of `process_frame` up to the wait for OCR; `OcrReads` with `Confirmed` or `Voted` is
`_process_ocr_result`; `FlushFrame` is one turn of the loop of `_flush_pre_buffer`, during which the
upload thread (`UploadTake`, `UploadDone`) goes on. `Answers` is what the OCR may say of a frame. `SignalFlush` is the signal handler.
`Dies` loses the memory and keeps the store; `Starts` begins with fresh variables. Frames are
numbered by capture, and remember the slip they show. **OrderFeed** is what readers of the store
may rely on: no frame is written under an order that has its marker, except for the orders `doubt`
(opened twice, or a process that has been signalled).

**StationOrders** (tsw 1208-1250, 1442-1715, 1717-1904). The monitor's test "`not in
_processed_orders and not in _active_orders`" is two actions (`LookProcessed`, `LookActive`), and
"`_processed_orders.add`; `del _active_orders`" of the main loop is two (`Done`, `Drop`). **OrderFlow**
puts it on top of `OrderFeed`; the store is all they share, and `VideoEnds` is
`_write_missing_eos_markers`.

**FrameSelector** (frame_selector.py 811-926, 992-1456). `List` takes the snapshot; `SkipKeys`,
`SameOrder`, `Candidate`, `ConfirmOther` and `Switch` are the loop over its keys, sorted by name;
`Scanned`, `Inactive`, `PollEnds` what follows it. `CloseSkips`, `Wipe`, `TooFew`, `Ask`, `Raises`
are `process_completed_order`, the three `Cleanup` actions `_cleanup_order` with what each of its
callers resets. The pipeline goes on uploading and the calls made go on reading. How the best frames
are chosen is left out; how many can be read (`Loadable`) and how many show an item (`Shows`) is a
free choice.

**MessageQueue** (message_queue.py 60-330, frame_selector.py 277-357), **VLMService** (vlm_service.py
300-505), **OrderDelivery** (frame_selector.py 389-662, main.py 60-110). `VLMService` is `run_vlm` and
the worker tasks over the event loops of the API and of the RabbitMQ consumer's thread; a coroutine
runs up to its next `await` (`Turns`), the other thread goes on. `MessageQueue` is producer,
consumer and what they see of the broker. `OrderDelivery` composes them with the three routes of
`call_vlm`: shared steps (`ConsumerCalls`, `Returns`, `Arrives`) are conjunctions of actions of both.

**PlateValidation** (vlm_client.py 327-385, 759-791, 872-1069, semantic_client.py 99-203,
validation_service.py 104-375) over **CircuitBreaker** (vlm_client.py 57-121 and semantic_client.py
27-70, the same code twice). A task is one call of `validate_plate`; `at` says which of its awaits it
is in. `Send` to `Answer`, `HttpFails`, `OtherFails` or `CancelPost` is `analyze_plate`; `Ask` to `Told`,
`NotTold` or `Unreadable`, or `Refused`, is one comparison of `match_items`; `Settle` ends the loop over
the items for one line; `Ends` returns the verdict or gives up. Comparisons an open breaker refuses
await nothing, yet each is a step of its own: other tasks may act in between, which the code does
not allow but which only adds behaviours. Names are what `lower().strip()` leaves of them.

**OrderValidation** (validation_agent.py 34-171, semantic_client.py 75-107, vlm_service.py 440-453). An
action is one turn of a loop of one of the three passes, at most one request to the semantic service
each. The lists and sets of the code all follow from `mate`, the item taken for each line, and
`relabels`, the names ignored; `Missing`, `Mismatched` and `Extra` are the report. A comparison
that should match may fail (`No`), which `faulty` remembers.

**BenchmarkService** (benchmark_service.py 141-337, api.py 762-857). One event loop, so an action goes
from one await to the next. `Begins`, `Validated`, `Continues` and `Cancelled` are a worker,
`MonitorRests`, `ScaleUp`, `ScaleDown` and `Removed` the scaling monitor, `Starts` the background task
that runs `start()` after the request has been answered, `StartBenchmark`, `StopBenchmark` and
`StopReturns` the requests. A worker without a single image that has an order never awaits
(`spinning`): no action of anybody is possible then (`Blocked`). What the auto-scaler wants is a
free choice, within the tests it makes on the pool.

**OrderResults** (order_results.py, video_history.py, api/endpoints.py 92-202, 342-376). Two registries with
a lock each: `Records`, `Stamps` and `AddsToVideo` are one `add_result`, which takes the first lock,
writes files, reads the current video without a lock, and takes the second. `entries` are the
`VideoEntry` objects, `history` the list and `videos` the map that refer to them; the list is bounded,
the map is not. `BeginsSaving` and `EndsSaving` are `_save_history`, which empties the file before it
fills it; `Restarts` loads what is there. `ClearsHistory` and `ClearsResults` are the two halves of
`DELETE /videos/history`. Every failure of the file is logged and forgotten (`FileFails`): a save that fails
before the file is opened leaves the older list in it, one that fails later a torn file, a deletion
that fails the videos just cleared, while memory goes on as if nothing had happened; `behind`
remembers it until an attempt goes through.

## 4. The runs

| Run | Instance | States | What it shows |
|---|---|---|---|
| `pipeline` | 2 process ids, breaker at 2 failures, restarts counted to 2 | 260 424 | `OneRestarter`, `TrackedPipeline`, `QuietWhenOpen`, `StaysPlayedOut`, `ShutdownCompletes`, `CircuitRetried` |
| `scheduler` | 2 stations with 2 and 1 requests, 2 workers, batches of 2, work queue of 1 | 163 182 | `HandledOnce`, `NothingLost`, `ArrivalOrder`, implements `RequestReply`, `AllAnswered` |
| `manager` | 4 station numbers, pools of up to 3 | 34 423 | `NoStray`, `NumbersAreFresh`, `ResizeReturns` |
| `frames` | 1 order and 1 misreading, 8 frames, buffer of 3, 2 votes, queue of 2; the slip may change before frames 1, 4 and 7 | 5 399 088 | `HonestMarker`, `NoLeak`, implements `OrderFeed` |
| `order_flow` | 2 orders, one unknown, 2 values of a frame | 1 001 216 | `AtMostOneRepeat`, `StableInput`, `MarkedProcessed` |
| `selector` | 2 orders of 3 frames, a bucket of 2, confirmation and items at 2 | 1 428 116 | `OwnFrames`, `CallFindsFrames`, `CompleteIsAsked` |
| `delivery` | 2 orders of one station, 2 tries, 1 publish attempt | 812 213 | `OneResult`, `EachIsSettled` |
| `plates` | 2 tasks, 1 order and 5 plates of 2 kinds of items, breakers at 3 failures and 2 successes | 453 368 | `CompleteIsRight`, `ServedIsComplete`, `Recovers` |
| `benchmark` | 2 benchmarks of up to 3 workers, a pool of 1 to 2, 2 stop requests | 53 861 | `PoolBounded`, `NoOrphan`, `StopEnds` |
| `validation` | orders of 1 or 2 lines, up to 3 items under 3 names, quantities up to 2 | 4 115 584 | `IgnoredIsRelabel`, `ValidatedIsRight`, `ServedIsValidated` |
| `results` | 2 threads, 2 results, 3 videos under 2 ids of which 2 are listed, 1 clear, 2 restarts, 1 failure to write or delete the file | 3 315 349 | `RunsInOrder`, `StampsAgree`, `RestartKeepsVideos` |
| `pipeline_recovery` | as `pipeline` | | refutes a sentence of the documentation: section 6 |

`TypeOK` is checked by `pipeline`, `scheduler` and `plates`; it is proved for these and for `manager` (`PoolTypeOK`),
`validation` (`ValidationTypeOK`), `benchmark` (`BenchmarkTypeOK`), `selector` and `delivery`.

**Why the bounds are enough.** *pipeline*: two processes are one tracked and one that could escape;
one failure below the threshold and one at it are the cases of the breaker; restarts beyond the
bound change nothing but a delay that is at its maximum. *scheduler*: a station that times out and
asks again meets its own late answer; three requests, two workers and a work queue of one fill the
queue while the batcher holds the lock. *manager*: pools that shrink and grow again use numbers
beyond the first ones. *frames*: eight frames suffice for a first order, its end and a
second one in the same process: the table is busy in frame 1, frames 2 and 3 vote, the timer starts
in frame 4 and ends the order in frame 5, the table is busy again in frame 6, and the votes of frames
7 and 8 open the second order, whose flush is where a frame of the first could leak (`NoLeak`). They
are more frames than the buffer, the map of time stamps and the queue hold; what a slip says may be
misread in any frame; the slip changes before three of the frames only (`Changes`), which bounds the
states; the process may die and start again anywhere. *order_flow*: an order is touched by one
monitor and one main loop, and the orders do not depend on each other; the second is there for the
branch of unknown orders. *selector*: two orders are the current one and the candidate, in either
order of their names; three frames are more than a bucket holds and than a candidate needs.
*delivery*: two orders of one station compete for its queue, worker and event loops; a second
station would share nothing with the first but the consumer, which has one message at a time.
*plates*: a task meets another only in the breakers, which have seven states each; an order of two
similar lines is the smallest on which a match can be taken from another line, or an item used twice.
*benchmark*: a second benchmark started while the first is being stopped is what could be orphaned; two
stop requests may overlap; three numbers let a pool grow, shrink and grow again.
*validation*: a line can lose its item to another line, and a third item can be a second label of a
line that has its match, or of one that has none. *results*: one order suffices, because the counters
of two orders share nothing; two results are two runs of it; a third video is evicted from the history
while the map still has it, and one of three videos under two ids comes back under an id already used; a restart may
come in the middle of a save, after a failed one, after a failed deletion, or after a success that
followed a failure, and a second restart after the first has loaded what that left. A result evicted
from the list is left to the proofs. Threads and ids are symmetric.

**Fairness.** *StationPipeline*: weak fairness of each thread as a whole and of the clock
(`CooldownElapses`): threads are preemptive, every blocking call in them has a time-out. None of the
stream, of the pipeline process or of a signal. `ShutdownMessage` has none: another worker may take
the message. *VLMScheduler*: weak fairness of every thread's step; a station receives or times out.
`Stop`, `Leave` and `Submit` have none. *StationManager*: weak fairness of the manager's thread and
of each worker's, none of the callers, of crashes or of signals. *OrderFlow*: the two threads;
nothing of the pipeline, so that `MarkedProcessed` starts from a marker. *FrameSelector*: the
polling thread. *OrderDelivery*: the threads, requests that arrive or fail by their time-outs,
and a broker that accepts connections in the end; nothing of the service's loops once both loops use
the queue of one station (`Mixed`), because a future set from another thread does not wake a loop. *PlateValidation*: calls end, at the
latest with the time-outs of their clients; recovery time-outs elapse; requests keep coming, as they
do while a worker or a benchmark runs. `Recovers` starts where no request fails any more.
*BenchmarkService*: weak fairness of each worker, of each monitor and of the return of a stop request:
the loop runs what is ready, validations and sleeps end. Nobody need start or stop a benchmark.
*OrderValidation* and *OrderResults* have safety properties only.

**Premises.** Some properties except states in which the code does not keep its word, and name them:
`ShuttingDown` (tsw 474: cleanup races a restart), `doubt` / `InDoubt` (an order opened twice, a
signalled process), `settled` (what goes wrong in a poll), `redone` (an order processed again while
its call is under way), `Mixed`, `crossed` (stop requests that overlap), `Blocked` (the event loop is taken
over), `faulty` (a comparison failed), `NamesOnce` (an order that names a product once, as those of
orders.json do), `astray` (a result whose video was cleared while it was reported); and
`behind` (the last attempt to write or delete the history file failed), with which
`RestartKeepsVideos` promises nothing, as in the middle of a save. Each is a history variable or a state predicate of the module, and
section 6 describes what may happen there.

## 5. The proofs

`StationPipelineProofs` proves, from `PipelineAssumption` alone (the thresholds are positive natural
numbers and `NoPid` is no process), for any set of process ids:

* `TypeCorrect`: `Spec => []TypeOK`; that `record_failure` never counts past the threshold is the
  part that is not local.
* `RestartExclusion`: `Spec => []OneRestarter`.
* `PipelineTracked`: `Spec => []TrackedPipeline`.
* `OpenIsQuiet`: `Spec => []QuietWhenOpen`.

* `PlayedOnceOnly`: `Spec => StaysPlayedOut`.

None of them is inductive. The invariant `IInv` (theorem `Invariance`) adds:

* `OneActor`: while the main thread starts up or restarts, the health thread is at the top of its
  loop, not started or gone, and the state is one that it skips; with the circuit open it is quiet
  too. This is what replaces the lock: the main thread calls the restart only out of
  `CIRCUIT_OPEN`, through `STOPPED`, and the health thread sleeps through both; so the gap between
  `RestartCheck` and `RestartEnter` is harmless.
* `FullIsOpen`: as many failures as the threshold means that the circuit is open (or the worker is
  shutting down) and nobody restarts, so that the next failure is counted after a reset.
* `RetriesLeft`: the bound of `sync_retry`.
* `ClearedIsQuiet`: wherever a thread is about to start a process, no process runs. With
  `OneActor` it gives `TrackedPipeline`, and for `CIRCUIT_OPEN` it is `QuietWhenOpen`.

Each conjunct has its lemma (`TypeStep`, `OneActorStep`, `FullIsOpenStep`, `PipelineStep`), by cases
on the actions of `Next`. `StaysPlayedOut` speaks of all later states: `PlayedToTheEnd` is what keeps a
pipeline stopped, once `PlayedOut` has led to it, and `StoppedIsQuiet` is why it does: the health thread skips
`STOPPED`, and the main thread is at a step of its own loop.

`VLMSchedulerProofs` (from `SchedulerAssumption` and `NobodyAssumption`, any stations, requests, workers and bounds
of the queues): `TypeCorrect`, `RequestsHandledOnce` (`HandledOnce`), `RequestsNotLost` (`NothingLost`), `RequestsInOrder`
(`ArrivalOrder`) and `SchedulerKeepsPromise`, the refinement of `RequestReply`. The invariant `Inv` adds that a
request is pending only as the latest of its station (`Numbered`), that what the scheduler has is neither
unsent nor answered (`Known`), that an answer is in the queue of its own station (`OwnQueue`), and that no
two answers, waiting or on their way, are to one request (`OneAnswer`, `OneReply`). `ArrivalOrder` is about
all batches together, hence the lemmas about `Line`: the batcher moves a prefix of the backlog to a new
batch, a worker takes the first batch. The steps of the refinement follow from what each action does to
`Open` and `Answers` (the lemmas `Places...`).

`DineInProofs`, on the plates, from `BreakerAssumption`, `PlateAssumption` and `ServiceAssumption` (positive
thresholds; orders and plates are finite lists of items; similarities between 0 and `Top`; the service is
certain, at `Top`, of equal names and of no others), for any number of tasks and any order and plate. Only
`ServedPlates` uses the last assumption: were the service as certain of another name, the first of the two
items on the plate would be taken.

* `TypeCorrect`: `Spec => []TypeOK`, with the breakers' part: a closed breaker is below its threshold.
* `CompletePlates`: `Spec => []CompleteIsRight`.
* `ServedPlates`: `Spec => []ServedIsComplete`.

The invariant `IInv` says of each task alone (`Sound`) that no item is in two of its pairs, that every
pair is alike in name, and that the best item so far is unused and alike to the current line. Tasks
meet in the breakers only, and `JudgeSound` holds whatever answer the breakers let through; `OneTask`
carries a step of one task to the invariant of all. At the end the pairs themselves are the
one-to-one matching. For `ServedPlates`, `Fit` says of a plate that holds what was ordered that each line
dealt with has its own item, and that the best item so far is the right one as soon as it has been
seen, while none before it is liked at `Top`; a breaker that opens in between changes who compares, and both find an item
equal to its line the likest.

`TakeAwayProofs`, on the manager (from `ManagerAssumption`, any number of stations): `PoolTypeCorrect`,
`StoppedStationsAreDead` (`NoStray`) and `NumbersUsedOnce` (`NumbersAreFresh`). The invariant adds `Fresh`
(the numbers from `next` on have no process), `Enough` (the goal of a resize is within the numbers left)
and `Stopping` (while the manager waits for a worker, it is in the pool; once killed it is dead).

`TakeAwayProofs`, on the delivery (from `DeliveryAssumption` and `NoneAssumption`, any stations, orders, retries and
publish attempts): `DeliveryTypeCorrect`, of the composition with `VLMService` and `MessageQueue`, and `ResultsOnceOnly`
(`OneResult`). `Covered` is the account: what is owed for an order is at least its messages in the queue, the
one in the consumer's hands unless it has its good answer, and its request in the service if that has no answer.
That no step is counted twice needs `Apart` (a call is in one queue or with one worker, and has no answer
there), `InHand` (the consumer's call is for its message) and `Starting` (a loop starts a worker of a
station once).

`OrderFlowProofs` (any orders and frames, whatever the pipeline writes): `RepeatsOnce`
(`AtMostOneRepeat`) and `InputIsStable` (`StableInput`). `Places` says which order is where, `Marked` that
only orders with a marker are found, so that `OrderFeed` protects them; `Counted` bounds the
requests made for an order together with those still due: the second comes from a monitor that looked
before `_processed_orders.add`, and a third would need it to look again.

`FramePipelineProofs` (from the assumptions of `FramePipeline`, any orders, misreadings, sizes of buffer
and queue and number of frames): `MarkersAreHonest` (`HonestMarker`) and `ImplementsFeed`, the refinement of
`OrderFeed`. For an order not in doubt, `Orderly` says that once its marker is in the queue, in
the upload thread or in the store, the order is neither open nor being flushed and no frame of it
follows the marker. `NothingLeaks` (`NoLeak`) rests on `Later`: all that the pre-buffer holds, and the frame in
hand, was captured after the last order was finalised. `FeedStep` maps each step: an upload that gets through writes a frame or a
marker, the second opening of an order or a signal adds to `doubt`, all else is a stutter.

`JudgementProofs`, on the validation (any orders, reports, opinions of the semantic service and failed comparisons):
`ValidationTypeCorrect`, `IgnoredItemsAreRelabels`, `ValidatedOrdersAreRight`, `ServedOrdersAreValidated`.
`NoPairOverlooked` is the part that is easy to miss: unless a comparison failed, a line without an
item is unlike every item that is still left and that it has been compared with. Hence pass 3, which asks for all
lines, ignores no item of a missing line. `MatesAreRight`, `ExactKept` and `MatesDiffer` make
the mates the one-to-one matching of `ValidatedIsRight`.

`JudgementProofs`, on the frame selector (from `SelectorAssumption`, any orders, frames and limits):
`SelectorTypeCorrect`, `OrdersNotMixed` (`OwnFrames`) and `CallsFindFrames` (`CallFindsFrames`). `SwitchPending` carries the
candidate over the call of the VLM service and the cleaning: the order that was confirmed is still the
candidate, and the frame that confirmed it is still the next, when the loop switches to it. `Remembered` shows
that what is collected for an order is bounded by the larger of `MaxBucket` and `MinFrames`, not by `MaxBucket`
alone: the frames of a candidate become the collection without regard to the bucket.

`DineInProofs`, on the benchmark (from `BenchmarkAssumption`: `Least <= Initial <= Most`): `BenchmarkTypeCorrect` (with
`DoomedRun`: only running tasks are being cancelled), `NoBenchmarkOrphaned` (through `OneStop`: as long as
stop requests do not overlap, the one under way is for the benchmark held) and
`PoolStaysBounded`. For a benchmark not told to stop, `Sized` bounds the list, strictly while a worker
leaves, and `Listed` says that the tasks running are those on the list and the one that leaves.

`OrderResultsProofs` (from `ResultsAssumption` and `LostAssumption`, any threads, orders, videos and bounds): `RunNumbersRise` (`RunsInOrder`),
`RegistriesAgree` (`StampsAgree`) and `VideosSurviveRestarts` (`RestartKeepsVideos`).
`RunsGivenOut` says that no result kept has a run number still to be given out: a clear may forget
results but not the counters, a restart has to forget both. For the other two, the invariant `Agree` says that
a result has a number of its own, which no video has before its call is over (`NumbersFresh`, `CallsApart`);
that what is in a video, or in the file, is there under the stamp (`OwnResults`, of both); that a call
that is over has left its result in a video of that stamp (`ResultsFound`); that the map gives an entry
of the id asked for (`MapIsRight`, which also holds of what a restart loads); and that the file, unless
the last attempt to write or delete it failed, holds what is listed, but for the results added since
(`FileIsList`); `LostAssumption` says that a torn file is not a list.

**Only model-checked**: the liveness properties (`ShutdownCompletes`, `CircuitRetried`, `AllAnswered`,
`ResizeReturns`, `MarkedProcessed`, `CompleteIsAsked`, `EachIsSettled`, `Recovers`, `StopEnds`), because they rest on
fairness, whose meaning needs ENABLED, which the prover does not handle.

## 6. Where code and documentation part

### Shown by a run

| Run, property | What is said | What happens |
|---|---|---|
| `pipeline_recovery`, `Recovers` | "circuit-breaker fault tolerance and automatic recovery" (README.md:55) | a restart that finds the RTSP server down leaves `STOPPED` (tsw 1179), which the health loop skips and the main loop does not look at: the pipeline is not started again |

### Seen while modelling

These are behaviours of the models above, or were read in the code beside them; no run is
spent on them.

*Station worker.* `SHUTTING_DOWN` is not among the states that `_safe_pipeline_restart` refuses
(tsw 1124-1135), and cleanup (474, 2029) does not wait for the health thread: a pipeline may be
started after the termination and outlive the worker. The stability reset (533) clears the restart
count without the lock: a restart under way then computes its delay with 2 to the power of −1 (1159),
and an open breaker forgets its cooldown, because `should_retry` (172) says yes when `is_open` is
false. A station waits 120 s for an answer (1871) from a scheduler that gives the model 400 s
(vlm_scheduler.py:132): the late answer is thrown away, and the order counts as processed without a
result. Every failure of an order is swallowed (1638-1715) and the order counts as processed.

*Manager.* "Stop station manager and all workers" (station_manager.py:107): the signal handler clears
`_running` (298), so that the `stop()` that follows returns at line 109 and the workers run on; the same
happens on the path through main.py (196, 209). The control queue is read destructively (tsw 1983-1989): a worker throws away the message
for another one, which the manager then terminates after ten seconds. Numbers are not used again, and
response queues are shared only for the first `max_stations` (station_manager.py:78): a worker numbered
higher creates a private one (shared_queue.py:273-283) and never sees an answer.

*Scheduler.* Batches are the oldest requests of the buffer (vlm_scheduler.py:270), without regard to
stations.

*Frame pipeline.* "Stop uploading to X" on the change from COLLECTING(X) to COLLECTING(Y)
(frame_pipeline.py:26): OCR runs only while no order is open (1078), so that frames of Y go to X until the
table is empty for long enough. The header says that the first confirmation flushes "ALL pre-buffer frames" (24);
the code flushes those since the table became busy, the last order's end and the first vote. A full
queue drops the newest item (606-621), the header says the oldest (48). The per-upload time-out is
not hard: leaving the `with` block of the pool waits for the call (558, 580). The idle time-out never
fires: `_last_frame_collected_ts` is assigned as a local (1125). The signal handler "ensures the final
order's __EOS__ marker" (1197) unless the queue is full or the upload fails; and the callback may
open the order again behind it.

*Frame selector.* "finalize current order if no new frames after this many seconds"
(frame_selector.py:123): frames that a full bucket turned away, or that belong to no order, are not
remembered and count as new in every poll, and the time does not elapse. The test for a new order in warm-up mode (1339) compares the order with the one just
made current, so that "Exit warmup mode when we see a genuinely new order" (1337) does not happen
there. Keys are sorted by name: an order later in time but earlier by name may be closed while it is
uploaded. The frames of a candidate are forgotten when an order is closed by its marker or by
inactivity; a promotion (1382) needs a candidate that has been confirmed without being switched to,
which does not happen. A failed call is swallowed (1225) and the frames are deleted. The cooldown is
30 s, a call takes up to 300 s: an order processed again may find its selection wiped by the second run.

*Delivery.* "Start worker for this station if not already running" (vlm_service.py:496): the API's and the
consumer's thread may both find none and start one. "Manual ack: Only acknowledge after successful VLM processing" (message_queue.py:9): a
failed message is acknowledged before it is published again (300), and lost if the link breaks in
the delay. "guaranteed delivery" (frame_selector.py:635): the queue is transient and is deleted
with its consumer, and publishing to a queue that does not exist succeeds. A publish that raised may
have got through; the HTTP request that follows is a second one. `StationVLMQueue.stop` ("graceful
shutdown", 460) drops the orders still queued.

*Dine-in.* "Failures before opening circuit" is 5 (vlm_client.py:47), but an HTTPError is recorded twice
(1058, 1067): three failed requests open it. A photograph that cannot be encoded (791) and an answer
that is no JSON count against OVMS as well, and the former also extends the time-out of an open
breaker. Half-open, any number of requests is admitted ("allow limited requests", 89). The matching is greedy,
line by line: of two similar lines the first may take the item of the second, and two lines of the
same name may be paired with each other's quantities; `ServedIsComplete` is about distinct names. The
accuracy formula of the docstring (validation_service.py:207) is not the one computed (223).

*Benchmark.* The repository has the images of the benchmark but no `orders/` directory beside them
(api.py 787): the pairs of image and order are then none, a worker's loop over them is
empty, its outer loop never awaits, and the whole API stands still; no stop request gets through. When an
image lacks its order, the lists of images and orders shift against each other, and `zip`
(benchmark_service.py 219) pairs the wrong ones. A second stop request
while the first awaits the workers finds nothing to report on when it returns (a status of 500) or, when
another benchmark has been started in between, assigns None over it, and nobody can reach it any more. Workers are never taken out of the metrics, and the shutdown hook that would stop
a benchmark is not reached while one of its background tasks runs.

*Order validation.* The client of the semantic service answers "no match" to every error
(semantic_client.py 75-107), so that the fallback to the local matcher that its caller provides is not
reached. When the comparison of an item with its line fails in pass 2 and succeeds in pass 3, the item vanishes as
a duplicate label and its line is reported missing: `IgnoredIsRelabel` excepts it. Of two detected
items of one name only the first is looked at. A station worker counts an order as validated
when the validation raises or is not there (tsw 1655, 1964).

*Results and history.* A result is credited to the video that is current when it is reported, not to the
one it was read from (order_results.py, `add_result`). The recall of an order gives the oldest result of
its video's entry, `GET /results` the newest. An evicted entry stays in the map; when the saved
history has two entries of one id, the map gets the older one (video_history.py:90). Results since the last
save are lost in a restart, and no video is current after it. An RTSP source is never completed. The
file is emptied before it is written: a crash in between loses the history. `DELETE
/videos/history` reports success although the file could not be deleted (video_history.py:303-308):
the next restart shows the cleared videos again, unless a video is started or marked before it, which
saves the list anew. In the same way a save that fails before the file is opened (98-102) leaves an
older list for the next restart. `get_all_statistics`
(order_results.py:266) takes a lock that it holds already; it has no caller.

## 7. What is not modelled

*Dine-in stream workers* (`worker.py`): each has clients, breakers, results and a file of its own and
shares nothing with another but the event loop; what it asks is one task of `PlateValidation`, and a
model of the loop would have no property that is not its text.

*Left out of the APIs*: the cache of finished validations, the orders file and the health checks of dine-in;
reads, path checks and the cache of the replay images of take-away; the 24 hours after which a
recall is refused, and the summary and report files.

*Left out within modelled components*: `_stop_all_workers` of the manager (reached from nowhere, see section 6,
*Manager*); the Redis backend of the shared queues and the asynchronous OCR mode (no caller);
the choice among scored frames in the frame selector; malformed messages and `OrderConsumer.stop`
(no caller) of the RabbitMQ consumer; the text of the model's answers everywhere.

*Not to be modelled*: metrics collection, configuration, user interfaces, the OVMS client, the debug
logger, the OCR and YOLO libraries' workers, and the shell scripts that set up streams and models.
They hold no state on which the components above depend; what their answers are is a free choice of
the modules that use them.
