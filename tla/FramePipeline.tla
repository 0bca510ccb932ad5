---------------------------- MODULE FramePipeline ----------------------------
(***************************************************************************)
(* The pipeline process of a station: the callback GStreamer runs on every *)
(* frame, the upload thread and the signal handler                         *)
(* (take-away/src/frame_pipeline.py).  A process may die at any point; the *)
(* next one starts with fresh variables, numbers its frames from 1 again   *)
(* and finds the object store as the last one left it.                     *)
(*                                                                         *)
(* Frames are numbered by their capture, which stands for their time       *)
(* stamps.  A timer started in the callback of frame n starts after frame  *)
(* n was captured and before frame n + 1.  Whether a period measured in    *)
(* seconds has elapsed is a free choice, once its timer runs.              *)
(***************************************************************************)
EXTENDS Integers, SequencesExt

CONSTANTS
  Order,      (* order numbers printed on slips                             *)
  Misread,    (* what OCR may report whatever the slip says                 *)
  NoOrder,    (* None: no order, no slip, nothing recognised                *)
  PreBuffer,  (* PRE_BUFFER_FRAMES                                          *)
  TsMap,      (* FRAME_TS_MAP_MAXSIZE                                       *)
  Confirm,    (* OCR_CONFIRM_COUNT                                          *)
  QueueSize,  (* UPLOAD_QUEUE_MAXSIZE                                       *)
  MaxFrames,  (* bound: frames the camera delivers, to all processes        *)
  Changes     (* bound: how many frames are still to come when the slip may *)
              (* change                                                     *)

ASSUME FrameAssumption ==
  /\ NoOrder \notin Order \cup Misread
  /\ {PreBuffer, TsMap, Confirm, QueueSize, MaxFrames} \subseteq Nat \ {0}
  /\ Changes \subseteq Nat

VARIABLES
  table,      (* the order whose slip the camera sees                       *)
  left,       (* frames still to come                                       *)
  alive,      (* a process is running                                       *)
  pc,         (* where the callback is                                      *)
  meta,       (* the FrameMeta being processed                              *)
  buffer,     (* _pre_buffer                                                *)
  busySince,  (* the frame in which _table_busy_since was set, or 0         *)
  emptyTimer, (* _table_empty_since is set                                  *)
  locked,     (* _order_lock_until is in the future                         *)
  active,     (* _active_order_id                                           *)
  candidate, votes, firstVote, (* _ocr_candidate and its votes              *)
  lastEnd,    (* the frame in which _last_order_end_ts_ms was set, or 0     *)
  since,      (* flush_since of the flush under way                         *)
  target,     (* the order the pre-buffer is being flushed to               *)
  queue,      (* _upload_queue                                              *)
  upload,     (* what the upload thread is writing                          *)
  signalled,  (* _shutdown_handler_called                                   *)
  store,      (* the frames in MinIO, each with its order                   *)
  eos,        (* the orders with an __EOS__ marker in MinIO                 *)
  opened,     (* history: each order was opened never, once, more often     *)
  closed      (* history: the frame in which this process last finalised    *)

tableVars == <<busySince, emptyTimer, locked>>
voteVars  == <<candidate, votes, firstVote>>
flushVars == <<since, target>>
processVars == <<alive, signalled>>
storeVars == <<store, eos>>

vars == <<table, left, processVars, pc, meta, buffer, tableVars, active, voteVars, lastEnd,
          flushVars, queue, upload, storeVars, opened, closed>>

Anything == Order \cup Misread

FrameId == 0..MaxFrames

Frame == [id : FrameId, slip : Order \cup {NoOrder}]

(* ("frame", order_id, ...) and ("eos", order_id).                         *)
Item == [kind : {"frame"}, order : Anything, frame : Frame]
        \cup [kind : {"eos"}, order : Anything]

Nothing == [kind |-> "none"]

TypeOK ==
  /\ table \in Order \cup {NoOrder}
  /\ left \in 0..MaxFrames
  /\ alive \in BOOLEAN
  /\ pc \in {"idle", "ocr", "flush"}
  /\ meta \in Frame
  /\ buffer \in Seq(Frame) /\ Len(buffer) <= PreBuffer
  /\ busySince \in FrameId
  /\ emptyTimer \in BOOLEAN
  /\ locked \in BOOLEAN
  /\ active \in Anything \cup {NoOrder}
  /\ candidate \in Anything \cup {NoOrder}
  /\ votes \in 0..(Confirm - 1)
  /\ firstVote \in FrameId
  /\ lastEnd \in FrameId
  /\ since \in 0..(MaxFrames + 1)
  /\ target \in Anything \cup {NoOrder}
  /\ queue \in Seq(Item) /\ Len(queue) <= QueueSize
  /\ upload \in Item \cup {Nothing}
  /\ signalled \in BOOLEAN
  /\ store \subseteq Anything \X Frame
  /\ eos \subseteq Anything
  /\ opened \in [Anything -> 0..2]
  /\ closed \in FrameId

NoFrame == [id |-> 0, slip |-> NoOrder]

Init ==
  /\ table = NoOrder
  /\ left = MaxFrames
  /\ alive = FALSE
  /\ pc = "idle"
  /\ meta = NoFrame
  /\ buffer = <<>>
  /\ busySince = 0
  /\ emptyTimer = FALSE
  /\ locked = FALSE
  /\ active = NoOrder
  /\ candidate = NoOrder
  /\ votes = 0
  /\ firstVote = 0
  /\ lastEnd = 0
  /\ since = 0
  /\ target = NoOrder
  /\ queue = <<>>
  /\ upload = Nothing
  /\ signalled = FALSE
  /\ store = {}
  /\ eos = {}
  /\ opened = [o \in Anything |-> 0]
  /\ closed = 0

-----------------------------------------------------------------------------
(* The upload queue.                                                       *)

(* put_nowait: a full queue drops what was to be put.                      *)
Put(q, item) == IF Len(q) < QueueSize THEN Append(q, item) ELSE q

FrameItem(f, o) == [kind |-> "frame", order |-> o, frame |-> f]

EosItem(o) == [kind |-> "eos", order |-> o]

(* The upload thread: get (from a plain FIFO queue: markers are not put    *)
(* ahead of frames) ...                                                    *)
UploadTakeMarkersFirst ==
  /\ alive
  /\ upload = Nothing
  /\ \E i \in 1..Len(queue) :
       /\ i = 1 \/ queue[i].kind = "eos"
       /\ upload' = queue[i]
       /\ queue' = SubSeq(queue, 1, i - 1) \o SubSeq(queue, i + 1, Len(queue))
  /\ UNCHANGED <<table, left, processVars, pc, meta, buffer, tableVars, active, voteVars,
                 lastEnd, flushVars, storeVars, opened, closed>>

UploadTake ==
  /\ alive
  /\ upload = Nothing
  /\ queue # <<>>
  /\ upload' = Head(queue)
  /\ queue' = Tail(queue)
  /\ UNCHANGED <<table, left, processVars, pc, meta, buffer, tableVars, active, voteVars,
                 lastEnd, flushVars, storeVars, opened, closed>>

(* ... and put_object, which an object of the same name overwrites.  The   *)
(* with block around the one-thread pool waits for the call whatever the   *)
(* time-out, and an error is logged: the item is done either way.          *)
SameObject(f, item) == f[1] = item.order /\ f[2].id = item.frame.id

Written(item) ==
  IF item.kind = "eos"
  THEN eos' = eos \cup {item.order} /\ UNCHANGED store
  ELSE /\ store' = {f \in store : ~SameObject(f, item)}
                     \cup {<<item.order, item.frame>>}
       /\ UNCHANGED eos

UploadDone ==
  /\ alive
  /\ upload # Nothing
  /\ \/ Written(upload)
     \/ UNCHANGED storeVars
  /\ upload' = Nothing
  /\ UNCHANGED <<table, left, processVars, pc, meta, buffer, tableVars, active, voteVars,
                 lastEnd, flushVars, queue, opened, closed>>

-----------------------------------------------------------------------------
(* process_frame.                                                          *)

(* The frame is stamped and pushed into the pre-buffer, a bounded deque.   *)
Push(b, f) == IF Len(b) < PreBuffer THEN Append(b, f) ELSE Append(Tail(b), f)

Grabbed == [id |-> meta.id + 1, slip |-> table]

Captured ==
  /\ alive /\ pc = "idle" /\ left > 0
  /\ left' = left - 1
  /\ meta' = Grabbed

(* Every frame of an open order is uploaded, whatever the table shows.     *)
(* The idle time-out checked every ten frames never fires: the time stamp  *)
(* it reads is not declared global in process_frame, and stays 0.0.        *)
Collect(f) ==
  queue' = IF active = NoOrder THEN queue ELSE Put(queue, FrameItem(f, active))

(* _table_has_objects, the last answer of the YOLO process, may lag behind *)
(* the table or flicker: both branches are always possible.                *)
(* Objects seen for TABLE_BUSY_THRESHOLD_SEC and no order open: OCR, at    *)
(* most once per retry interval, and the callback waits for its answer.    *)
FrameBusy ==
  /\ Captured
  /\ buffer' = Push(buffer, Grabbed)
  /\ emptyTimer' = FALSE
  /\ busySince' = IF busySince = 0 THEN Grabbed.id ELSE busySince
  /\ \/ Collect(Grabbed) /\ UNCHANGED pc
     \/ active = NoOrder /\ busySince # 0 /\ pc' = "ocr" /\ UNCHANGED queue
  /\ UNCHANGED <<table, processVars, locked, active, voteVars, lastEnd, flushVars,
                 upload, storeVars, opened, closed>>

(* No objects: the lock that follows a confirmation suppresses the timer;  *)
(* without it the timer is started, runs, or has elapsed with no order to  *)
(* finalise.                                                               *)
FrameEmpty ==
  /\ Captured
  /\ buffer' = Push(buffer, Grabbed)
  /\ \/ locked /\ emptyTimer' = FALSE
     \/ ~locked /\ emptyTimer' = TRUE
     \/ ~locked /\ emptyTimer /\ active = NoOrder /\ emptyTimer' = FALSE
  /\ Collect(Grabbed)
  /\ UNCHANGED <<table, processVars, pc, busySince, locked, active, voteVars, lastEnd,
                 flushVars, upload, storeVars, opened, closed>>

(* _finalize_current_order; first what is left when it resets the order     *)
(* only.                                                                   *)
FinaliseActiveOnly ==
  /\ queue' = Put(queue, EosItem(active))
  /\ active' = NoOrder
  /\ UNCHANGED <<lastEnd, voteVars, locked, busySince>>
  /\ emptyTimer' = FALSE
  /\ buffer' = Push(buffer, Grabbed)

Finalise ==
  /\ queue' = Put(queue, EosItem(active))
  /\ lastEnd' = Grabbed.id
  /\ active' = NoOrder
  /\ candidate' = NoOrder /\ votes' = 0 /\ firstVote' = 0
  /\ locked' = FALSE
  /\ busySince' = 0
  /\ emptyTimer' = FALSE
  /\ buffer' = <<>>

(* The table has been empty for TABLE_EMPTY_THRESHOLD_SEC with an order    *)
(* open.                                                                   *)
FrameEnds ==
  /\ Captured
  /\ ~locked /\ emptyTimer
  /\ active # NoOrder
  /\ Finalise
  /\ closed' = Grabbed.id
  /\ UNCHANGED <<table, processVars, pc, flushVars, upload, storeVars, opened>>

(* _on_ocr_confirmed: the earliest time stamp the order's frames may have. *)
(* The stamp of the first vote may have left the map of time stamps.       *)
Boundary(first) ==
  Max({busySince + 1, lastEnd + 1}
      \cup {f \in {first} : meta.id - f < TsMap})

(* _process_ocr_result: a blank answer leaves the votes alone.  OCR runs   *)
(* only while no order is open, so that a confirmation always opens one:   *)
(* the branch for a change of order is never taken.                        *)
Enough(n) == n >= Confirm

Confirmed(o, first) ==
  /\ locked' = TRUE
  /\ since' = Boundary(first)
  /\ target' = o
  /\ active' = o
  /\ opened' = [opened EXCEPT ![o] = IF @ = 0 THEN 1 ELSE 2]
  /\ candidate' = NoOrder /\ votes' = 0 /\ firstVote' = 0
  /\ pc' = "flush"

Voted(o, n, first) ==
  /\ candidate' = o /\ votes' = n /\ firstVote' = first
  /\ pc' = "idle"
  /\ UNCHANGED <<locked, active, flushVars, opened>>

(* The exchange with the OCR process: the callback waits for the answer to *)
(* the frame it sent.  The answer to an earlier one, given up after        *)
(* OCR_SEQUENTIAL_TIMEOUT, has a smaller number and is thrown away; no     *)
(* answer in time is a blank one.                                          *)
Answers == ({meta.slip} \cup Misread) \ {NoOrder}

OcrBlank ==
  /\ pc = "ocr"
  /\ pc' = "idle"
  /\ UNCHANGED <<table, left, processVars, meta, buffer, tableVars, active, voteVars, lastEnd,
                 flushVars, queue, upload, storeVars, opened, closed>>

OcrReads(o) ==
  /\ pc = "ocr"
  /\ o \in Answers
  /\ LET n     == IF o = candidate THEN votes + 1 ELSE 1
         first == IF o = candidate THEN firstVote ELSE meta.id
     IN IF Enough(n) THEN Confirmed(o, first) ELSE Voted(o, n, first)
  /\ UNCHANGED <<table, left, processVars, meta, buffer, busySince, emptyTimer, lastEnd,
                 queue, upload, storeVars, closed>>

(* _flush_pre_buffer: one frame at a time, and the upload thread works on. *)
FlushFrame ==
  /\ pc = "flush"
  /\ buffer # <<>>
  /\ buffer' = Tail(buffer)
  /\ queue' = IF Head(buffer).id >= since THEN Put(queue, FrameItem(Head(buffer), target))
              ELSE queue
  /\ UNCHANGED <<table, left, processVars, pc, meta, tableVars, active, voteVars, lastEnd,
                 flushVars, upload, storeVars, opened, closed>>

FlushEnds ==
  /\ pc = "flush"
  /\ buffer = <<>>
  /\ Collect(meta)
  /\ pc' = "idle"
  /\ since' = 0 /\ target' = NoOrder       (* locals, no longer used          *)
  /\ UNCHANGED <<table, left, processVars, meta, buffer, tableVars, active, voteVars,
                 lastEnd, upload, storeVars, opened, closed>>

-----------------------------------------------------------------------------
(* The signal handler, while the callback and the upload thread go on: the *)
(* open order is ended and the queue is waited for; then the process dies. *)
SignalFlush ==
  /\ alive /\ ~signalled
  /\ signalled' = TRUE
  /\ queue' = IF active # NoOrder THEN Put(queue, EosItem(active)) ELSE queue
  /\ active' = NoOrder
  /\ UNCHANGED <<table, left, alive, pc, meta, buffer, tableVars, voteVars, lastEnd,
                 flushVars, upload, storeVars, opened, closed>>

(* What the memory of a process holds when it starts.                      *)
Fresh ==
  /\ pc' = "idle" /\ meta' = NoFrame /\ buffer' = <<>>
  /\ busySince' = 0 /\ emptyTimer' = FALSE /\ locked' = FALSE
  /\ active' = NoOrder
  /\ candidate' = NoOrder /\ votes' = 0 /\ firstVote' = 0
  /\ lastEnd' = 0 /\ since' = 0 /\ target' = NoOrder
  /\ queue' = <<>> /\ upload' = Nothing
  /\ signalled' = FALSE /\ closed' = 0

(* The memory is lost with the process.                                    *)
Gone == alive' = FALSE /\ Fresh /\ UNCHANGED <<table, left, storeVars, opened>>

SignalDone ==
  /\ alive /\ signalled
  /\ queue = <<>> /\ upload = Nothing
  /\ Gone

(* The process is killed, crashes, or exits by the C exit of gst-launch at *)
(* the end of the video, which runs no atexit handler.                     *)
Dies == alive /\ Gone

Starts ==
  /\ ~alive /\ left > 0
  /\ alive' = TRUE
  /\ UNCHANGED <<table, left, signalled, pc, meta, buffer, tableVars, active, voteVars, lastEnd,
                 flushVars, queue, upload, storeVars, opened, closed>>

-----------------------------------------------------------------------------
(* The callback looks at the lock and at the table when a frame comes in:  *)
(* that they change between two frames is no loss of generality.           *)
LockExpires ==
  /\ locked /\ pc = "idle"
  /\ locked' = FALSE
  /\ UNCHANGED <<table, left, processVars, pc, meta, buffer, busySince, emptyTimer, active,
                 voteVars, lastEnd, flushVars, queue, upload, storeVars, opened, closed>>

TableChanges ==
  /\ alive /\ pc = "idle" /\ left > 0 /\ left \in Changes
  /\ table' \in (Order \cup {NoOrder}) \ {table}
  /\ UNCHANGED <<left, processVars, pc, meta, buffer, tableVars, active, voteVars, lastEnd,
                 flushVars, queue, upload, storeVars, opened, closed>>

Callback ==
  \/ FrameBusy
  \/ FrameEmpty
  \/ FrameEnds
  \/ OcrBlank
  \/ \E o \in Anything : OcrReads(o)
  \/ FlushFrame
  \/ FlushEnds

Uploader == UploadTake \/ UploadDone

Process == SignalFlush \/ SignalDone \/ Dies \/ Starts

World == LockExpires \/ TableChanges

Next == Callback \/ Uploader \/ Process \/ World

Spec == Init /\ [][Next]_vars
-----------------------------------------------------------------------------
(* Properties.                                                             *)

(* Frames still to be written for order o.                                 *)
Pending(o) ==
  \E item \in Range(queue) \cup {upload} : item.kind = "frame" /\ item.order = o

(* A marker tells the truth: once it is in the store, every frame of its   *)
(* order has been written or given up.  It cannot hold of an order whose   *)
(* slip comes back (an old marker stays), nor after a signal, whose        *)
(* handler ends the order in the middle of a flush.                        *)
InDoubt == {o \in Anything : opened[o] > 1 \/ signalled}

HonestMarker == \A o \in eos \ InDoubt : ~Pending(o)

(* To a reader of the store the process is an OrderFeed: no frame of an    *)
(* order is ever written after its marker.                                 *)
Feed == INSTANCE OrderFeed WITH Order <- Anything, doubt <- InDoubt

KeepsFeed == Feed!Spec

(* "these were captured before the order change and must not leak into any *)
(* future order's bucket" (_flush_pre_buffer): what goes to the upload     *)
(* queue for an order was captured after the last order was finalised.     *)
Leaks == /\ Len(queue') > Len(queue)
         /\ Last(queue').kind = "frame"
         /\ Last(queue').frame.id <= closed

NoLeak == [][~Leaks]_vars
=============================================================================
