-------------------------- MODULE FramePipelineProofs --------------------------
(***************************************************************************)
(* Proofs about FramePipeline, for any orders, misreadings, sizes of the   *)
(* buffers and numbers of frames: a marker tells the truth, and to the     *)
(* readers of the store the process is the OrderFeed that OrderFlow builds *)
(* on.                                                                     *)
(***************************************************************************)
EXTENDS FramePipeline, TLAPS

IsFrame(x, o) == x.kind = "frame" /\ x.order = o

IsMark(x, o) == x.kind = "eos" /\ x.order = o

(* What a queue q holds for order o: a frame, a marker, a frame behind a   *)
(* marker.                                                                 *)
FrameIn(q, o) == \E i \in 1..Len(q) : IsFrame(q[i], o)

MarkIn(q, o) == \E i \in 1..Len(q) : IsMark(q[i], o)

LateIn(q, o) == \E i, j \in 1..Len(q) : i < j /\ IsMark(q[i], o) /\ IsFrame(q[j], o)

(* The marker of o is in the store or on its way there.                    *)
Shut(o) == o \in eos \/ IsMark(upload, o) \/ MarkIn(queue, o)

(* The types the argument rests on.                                        *)
Typed ==
  /\ left \in Nat /\ meta \in Frame /\ meta.id + left <= MaxFrames
  /\ table \in Order \cup {NoOrder}
  /\ buffer \in Seq(Frame) /\ queue \in Seq(Item) /\ upload \in Item \cup {Nothing}
  /\ active \in Anything \cup {NoOrder} /\ target \in Anything \cup {NoOrder}
  /\ pc = "flush" => target \in Anything
  /\ opened \in [Anything -> 0..2]
  /\ store \subseteq Anything \X Frame /\ eos \subseteq Anything

(* An order that was never opened has nothing anywhere.  An order that is  *)
(* not in doubt, and has its marker in the store or on the way, is neither *)
(* open nor being flushed, and no frame of it comes after the marker.      *)
Orderly(o) ==
  /\ opened[o] = 0 => ~Shut(o) /\ active # o /\ target # o
  /\ o \notin InDoubt =>
       /\ Shut(o) => active # o /\ (pc = "flush" => target # o)
       /\ ~LateIn(queue, o)
       /\ IsMark(upload, o) => ~FrameIn(queue, o)
       /\ o \in eos => ~FrameIn(queue, o) /\ ~IsFrame(upload, o)

(* One object for each order and frame number.                             *)
OneObject == \A f, g \in store : f[1] = g[1] /\ f[2].id = g[2].id => f = g

IInv == Typed /\ OneObject /\ \A o \in Anything : Orderly(o)

---------------------------------------------------------------------------
(* The queue: what putting and taking an item does.                        *)
LEMMA PutEffect ==
  ASSUME NEW q \in Seq(Item), NEW x \in Item
  PROVE  /\ Put(q, x) \in Seq(Item)
         /\ \A o : MarkIn(Put(q, x), o) => MarkIn(q, o) \/ IsMark(x, o)
         /\ \A o : FrameIn(Put(q, x), o) => FrameIn(q, o) \/ IsFrame(x, o)
         /\ \A o : LateIn(Put(q, x), o) => LateIn(q, o) \/ (MarkIn(q, o) /\ IsFrame(x, o))
<1> DEFINE p == Put(q, x)
<1>1. CASE Put(q, x) = q BY <1>1
<1>2. CASE Put(q, x) = Append(q, x)
  <2>1. /\ p \in Seq(Item) /\ Len(p) = Len(q) + 1 /\ Len(q) \in Nat
        /\ p[Len(q) + 1] = x /\ \A i \in 1..Len(q) : p[i] = q[i]
    BY <1>2
  <2>2. \A i \in 1..Len(p) : i \in 1..Len(q) \/ i = Len(q) + 1 BY <2>1
  <2> HIDE DEF p
  <2>3. \A o : MarkIn(p, o) => MarkIn(q, o) \/ IsMark(x, o) BY <2>1, <2>2 DEF MarkIn
  <2>4. \A o : FrameIn(p, o) => FrameIn(q, o) \/ IsFrame(x, o) BY <2>1, <2>2 DEF FrameIn
  <2>5. ASSUME NEW o, LateIn(p, o) PROVE LateIn(q, o) \/ (MarkIn(q, o) /\ IsFrame(x, o))
    <3>1. PICK i, j \in 1..Len(p) : i < j /\ IsMark(p[i], o) /\ IsFrame(p[j], o)
      BY <2>5 DEF LateIn
    <3>2. i \in 1..Len(q) BY <2>1, <2>2, <3>1
    <3>3. CASE j \in 1..Len(q) BY <2>1, <3>1, <3>2, <3>3 DEF LateIn
    <3>4. CASE j = Len(q) + 1 BY <2>1, <3>1, <3>2, <3>4 DEF MarkIn
    <3> QED BY <2>2, <3>3, <3>4
  <2> QED BY <2>1, <2>3, <2>4, <2>5 DEF p
<1> QED BY <1>1, <1>2 DEF Put

LEMMA TailEffect ==
  ASSUME NEW q \in Seq(Item), q # <<>>
  PROVE  /\ Head(q) \in Item /\ Tail(q) \in Seq(Item)
         /\ \A o : MarkIn(Tail(q), o) \/ IsMark(Head(q), o) => MarkIn(q, o)
         /\ \A o : FrameIn(Tail(q), o) \/ IsFrame(Head(q), o) => FrameIn(q, o)
         /\ \A o : LateIn(Tail(q), o) => LateIn(q, o)
         /\ \A o : IsMark(Head(q), o) /\ FrameIn(Tail(q), o) => LateIn(q, o)
<1> DEFINE p == Tail(q)
<1>1. /\ Len(q) \in Nat /\ Len(q) > 0 /\ Head(q) = q[1] /\ Head(q) \in Item
      /\ p \in Seq(Item) /\ Len(p) = Len(q) - 1 /\ \A i \in 1..Len(p) : p[i] = q[i + 1]
  OBVIOUS
<1> HIDE DEF p
<1>2. 1 \in 1..Len(q) /\ \A i \in 1..Len(p) : i + 1 \in 1..Len(q) /\ i + 1 > 1 BY <1>1
<1>3. \A o : MarkIn(p, o) \/ IsMark(Head(q), o) => MarkIn(q, o) BY <1>1, <1>2 DEF MarkIn
<1>4. \A o : FrameIn(p, o) \/ IsFrame(Head(q), o) => FrameIn(q, o) BY <1>1, <1>2 DEF FrameIn
<1>5. ASSUME NEW o, LateIn(p, o) PROVE LateIn(q, o)
  <2>1. PICK i, j \in 1..Len(p) : i < j /\ IsMark(p[i], o) /\ IsFrame(p[j], o)
    BY <1>5 DEF LateIn
  <2>2. i + 1 < j + 1 /\ IsMark(q[i + 1], o) /\ IsFrame(q[j + 1], o) BY <1>1, <2>1
  <2> QED BY <1>2, <2>2 DEF LateIn
<1>6. ASSUME NEW o, IsMark(Head(q), o), FrameIn(p, o) PROVE LateIn(q, o)
  <2>1. PICK j \in 1..Len(p) : IsFrame(p[j], o) BY <1>6 DEF FrameIn
  <2>2. IsFrame(q[j + 1], o) /\ IsMark(q[1], o) BY <1>1, <1>6, <2>1
  <2> QED BY <1>2, <2>2 DEF LateIn
<1> QED BY <1>1, <1>3, <1>4, <1>5, <1>6 DEF p

LEMMA EmptyQueue ==
  <<>> \in Seq(Item) /\ \A o : ~MarkIn(<<>>, o) /\ ~FrameIn(<<>>, o) /\ ~LateIn(<<>>, o)
BY DEF MarkIn, FrameIn, LateIn

LEMMA Items ==
  /\ \A f \in Frame, o \in Anything : FrameItem(f, o) \in Item
  /\ \A o \in Anything : EosItem(o) \in Item
  /\ \A f, o, p : ~IsMark(FrameItem(f, o), p) /\ (IsFrame(FrameItem(f, o), p) => p = o)
  /\ \A o, p : ~IsFrame(EosItem(o), p) /\ (IsMark(EosItem(o), p) => p = o)
  /\ \A o : ~IsMark(Nothing, o) /\ ~IsFrame(Nothing, o)
BY DEF FrameItem, EosItem, Item, IsMark, IsFrame, Nothing

LEMMA InvInit == Init => IInv
<1> SUFFICES ASSUME Init PROVE IInv OBVIOUS
<1>1. NoFrame \in Frame /\ NoFrame.id = 0 BY FrameAssumption DEF NoFrame, Frame, FrameId
<1>2. Typed
  BY <1>1, FrameAssumption DEF Init, Typed
<1>3. OneObject BY DEF Init, OneObject
<1>4. \A o \in Anything : Orderly(o)
  BY EmptyQueue, Items, FrameAssumption DEF Init, Orderly, Shut, Anything
<1> QED BY <1>2, <1>3, <1>4 DEF IInv

---------------------------------------------------------------------------
(* A frame is put for the open order, or for the one being flushed: that   *)
(* has no marker yet, unless it is in doubt.                               *)
LEMMA FramesPut ==
  ASSUME IInv,
         \/ queue' = queue
         \/ \E f \in Frame, o \in Anything :
              queue' = Put(queue, FrameItem(f,
                  o)) /\ (o = active \/ (pc = "flush" /\ o = target)),
         UNCHANGED <<upload, eos, opened, signalled, active>>,
         target' = target \/ target' = NoOrder,
         pc' = "flush" => pc = "flush" /\ target' = target
  PROVE  queue' \in Seq(Item) /\ \A p \in Anything : Orderly(p)'
<1>1. queue \in Seq(Item) /\ NoOrder \notin Anything
  BY FrameAssumption DEF IInv, Typed, Anything
<1>2. InDoubt' = InDoubt BY DEF InDoubt
<1>3. CASE queue' = queue
  <2>1. ASSUME NEW p \in Anything PROVE Orderly(p)'
    <3>1. Orderly(p) /\ (Shut(p)' <=> Shut(p)) BY <1>3 DEF IInv, Shut
    <3> QED BY <1>1, <1>2, <1>3, <3>1 DEF Orderly
  <2> QED BY <1>1, <1>3, <2>1
<1>4. CASE \E f \in Frame, o \in Anything :
             queue' = Put(queue, FrameItem(f, o)) /\ (o = active \/ (pc = "flush" /\ o = target))
  <2>1. PICK f \in Frame, o \in Anything :
          queue' = Put(queue, FrameItem(f, o)) /\ (o = active \/ (pc = "flush" /\ o = target))
    BY <1>4
  <2>2. FrameItem(f, o) \in Item BY Items
  <2>3. queue' \in Seq(Item) BY <1>1, <2>1, <2>2, PutEffect
  <2>4. \A p : MarkIn(queue', p) => MarkIn(queue, p) BY <1>1, <2>1, <2>2, PutEffect, Items
  <2>5. \A p : FrameIn(queue', p) => FrameIn(queue, p) \/ p = o
    BY <1>1, <2>1, <2>2, PutEffect, Items
  <2>6. \A p : LateIn(queue', p) => LateIn(queue, p) \/ (MarkIn(queue, o) /\ p = o)
    BY <1>1, <2>1, <2>2, PutEffect, Items
  <2>7. o \notin InDoubt => ~Shut(o) BY <2>1 DEF IInv, Orderly
  <2>8. ASSUME NEW p \in Anything PROVE Orderly(p)'
    <3>1. Orderly(p) /\ (Shut(p)' => Shut(p)) BY <2>4 DEF IInv, Shut
    <3>2. p \notin InDoubt => ~LateIn(queue', p) BY <2>6, <2>7, <3>1 DEF Orderly, Shut
    <3>3. p \notin InDoubt => (IsMark(upload, p) \/ p \in eos => ~FrameIn(queue', p))
      BY <2>5, <2>7, <3>1 DEF Orderly, Shut
    <3> QED BY <1>1, <1>2, <3>1, <3>2, <3>3 DEF Orderly
  <2> QED BY <2>3, <2>8
<1> QED BY <1>3, <1>4

(* The open order is ended: its marker goes behind all its frames.         *)
LEMMA MarkerPut ==
  ASSUME IInv, active \in Anything, queue' = Put(queue, EosItem(active)), active' = NoOrder,
         UNCHANGED <<upload, eos, opened, target>>,
         \/ pc' # "flush" /\ signalled' = signalled
         \/ signalled'
  PROVE  queue' \in Seq(Item) /\ \A p \in Anything : Orderly(p)'
<1>1. queue \in Seq(Item) /\ EosItem(active) \in Item /\ NoOrder \notin Anything
  BY FrameAssumption, Items DEF IInv, Typed, Anything
<1>2. queue' \in Seq(Item) BY <1>1, PutEffect
<1>3. \A p : MarkIn(queue', p) => MarkIn(queue, p) \/ p = active BY <1>1, PutEffect, Items
<1>4. \A p : FrameIn(queue', p) => FrameIn(queue, p) BY <1>1, PutEffect, Items
<1>5. \A p : LateIn(queue', p) => LateIn(queue, p) BY <1>1, PutEffect, Items
<1>6. ASSUME NEW p \in Anything PROVE Orderly(p)'
  <2>1. Orderly(p) /\ (Shut(p)' => Shut(p) \/ p = active) BY <1>3 DEF IInv, Shut
  <2>2. p \notin InDoubt' => p \notin InDoubt /\ pc' # "flush" BY DEF InDoubt
  <2>3. opened[active] # 0 BY DEF IInv, Orderly
  <2> QED BY <1>1, <1>4, <1>5, <2>1, <2>2, <2>3 DEF Orderly
<1> QED BY <1>2, <1>6

(* A frame is captured.                                                    *)
LEMMA Captures ==
  ASSUME Typed, Captured, table' = table
  PROVE  /\ Grabbed \in Frame /\ Push(buffer, Grabbed) \in Seq(Frame)
         /\ left' \in Nat /\ meta' \in Frame /\ meta'.id + left' <= MaxFrames
<1>1. meta.id \in Nat /\ left \in Nat /\ left > 0 /\ meta.id + left <= MaxFrames /\ MaxFrames \in Nat
  BY FrameAssumption DEF Typed, Captured, Frame, FrameId
<1>2. meta.id + 1 \in FrameId BY <1>1 DEF FrameId
<1>3. Grabbed \in Frame /\ Grabbed.id = meta.id + 1
  BY <1>2 DEF Grabbed, Frame, Typed
<1>4. buffer \in Seq(Frame) BY DEF Typed
<1>5. Push(buffer, Grabbed) \in Seq(Frame)
  <2>1. CASE Len(buffer) < PreBuffer BY <1>3, <1>4, <2>1 DEF Push
  <2>2. CASE ~(Len(buffer) < PreBuffer)
    <3>1. buffer # <<>> BY <2>2, FrameAssumption
    <3>2. Tail(buffer) \in Seq(Frame) BY <1>4, <3>1
    <3> QED BY <1>3, <2>2, <3>2 DEF Push
  <2> QED BY <2>1, <2>2
<1> QED BY <1>1, <1>3, <1>5 DEF Captured

---------------------------------------------------------------------------
(* process_frame with the table busy or empty.                             *)
LEMMA FrameStep ==
  ASSUME IInv, FrameBusy \/ FrameEmpty
  PROVE  IInv'
<1>1. /\ Captured /\ pc = "idle" /\ pc' \in {"idle", "ocr"} /\ buffer' = Push(buffer, Grabbed)
      /\ Collect(Grabbed) \/ queue' = queue
      /\ UNCHANGED <<table, signalled, active, target, upload, store, eos, opened>>
  BY DEF FrameBusy, FrameEmpty, Captured, processVars, flushVars, storeVars
<1>2. /\ Grabbed \in Frame /\ buffer' \in Seq(Frame)
      /\ left' \in Nat /\ meta' \in Frame /\ meta'.id + left' <= MaxFrames
  BY <1>1, Captures DEF IInv
<1>3. \/ queue' = queue
      \/ active \in Anything /\ queue' = Put(queue, FrameItem(Grabbed, active))
  BY <1>1 DEF Collect, IInv, Typed
<1>4. queue' \in Seq(Item) /\ \A p \in Anything : Orderly(p)'
  BY <1>1, <1>2, <1>3, FramesPut
<1>5. Typed' BY <1>1, <1>2, <1>4 DEF IInv, Typed
<1>6. OneObject' BY <1>1 DEF IInv, OneObject
<1> QED BY <1>4, <1>5, <1>6 DEF IInv

(* _finalize_current_order.                                                *)
LEMMA EndStep ==
  ASSUME IInv, FrameEnds
  PROVE  IInv'
<1>1. /\ Captured /\ pc = "idle" /\ pc' = pc /\ buffer' = <<>> /\ active # NoOrder
      /\ queue' = Put(queue, EosItem(active)) /\ active' = NoOrder
      /\ UNCHANGED <<table, signalled, target, upload, store, eos, opened>>
  BY DEF FrameEnds, Finalise, Captured, processVars, flushVars, storeVars
<1>2. left' \in Nat /\ meta' \in Frame /\ meta'.id + left' <= MaxFrames
  BY <1>1, Captures DEF IInv
<1>3. active \in Anything BY <1>1 DEF IInv, Typed
<1>4. queue' \in Seq(Item) /\ \A p \in Anything : Orderly(p)'
  BY <1>1, <1>3, MarkerPut
<1>5. Typed' BY <1>1, <1>2, <1>4 DEF IInv, Typed
<1>6. OneObject' BY <1>1 DEF IInv, OneObject
<1> QED BY <1>4, <1>5, <1>6 DEF IInv

(* _process_ocr_result: a confirmation opens the order.  An order that had *)
(* its marker was opened before, and is in doubt from now on.              *)
LEMMA OcrStep ==
  ASSUME IInv, NEW o \in Anything, OcrReads(o)
  PROVE  IInv'
<1>1. /\ UNCHANGED <<table, left, meta, buffer, queue, upload, store, eos, alive, signalled>>
      /\ \/ \E first : Confirmed(o, first)
         \/ pc' = "idle" /\ UNCHANGED <<active, target, opened>>
  BY DEF OcrReads, Voted, processVars, storeVars, flushVars
<1>2. OneObject' BY <1>1 DEF IInv, OneObject
<1>3. CASE pc' = "idle" /\ UNCHANGED <<active, target, opened>>
  <2>1. Typed' BY <1>1, <1>3 DEF IInv, Typed
  <2>2. \A p \in Anything : Orderly(p)' BY <1>1, <1>3, FramesPut
  <2> QED BY <1>2, <2>1, <2>2 DEF IInv
<1>4. CASE \E first : Confirmed(o, first)
  <2>1. /\ target' = o /\ active' = o /\ pc' = "flush"
        /\ opened' = [opened EXCEPT ![o] = IF @ = 0 THEN 1 ELSE 2]
    BY <1>4 DEF Confirmed
  <2>2. opened \in [Anything -> 0..2] BY DEF IInv, Typed
  <2>3. opened' \in [Anything -> 0..2] BY <2>1, <2>2
  <2>4. Typed' BY <1>1, <2>1, <2>3 DEF IInv, Typed
  <2>5. opened'[o] = (IF opened[o] = 0 THEN 1 ELSE 2) BY <2>1, <2>2
  <2>6. \A p \in Anything : p # o => opened'[p] = opened[p] BY <2>1, <2>2
  <2>7. ASSUME NEW p \in Anything PROVE Orderly(p)'
    <3>1. Orderly(p) /\ (Shut(p)' <=> Shut(p)) BY <1>1 DEF IInv, Shut
    <3>2. CASE p # o
      <4>1. p \notin InDoubt' => p \notin InDoubt BY <1>1, <2>6, <3>2 DEF InDoubt
      <4> QED BY <1>1, <2>1, <2>6, <3>1, <3>2, <4>1 DEF Orderly
    <3>3. CASE p = o /\ opened[o] = 0
      <4>1. ~Shut(p)' /\ opened'[p] # 0 BY <2>5, <3>1, <3>3 DEF Orderly
      <4>2. p \notin InDoubt' => p \notin InDoubt BY <1>1, <2>2, <3>3 DEF InDoubt
      <4> QED BY <1>1, <3>1, <4>1, <4>2 DEF Orderly
    <3>4. CASE p = o /\ opened[o] # 0
      <4>1. p \in InDoubt' /\ opened'[p] # 0 BY <2>5, <3>4 DEF InDoubt
      <4> QED BY <4>1 DEF Orderly
    <3> QED BY <3>2, <3>3, <3>4
  <2> QED BY <1>2, <2>4, <2>7 DEF IInv
<1> QED BY <1>1, <1>3, <1>4

(* _flush_pre_buffer, and what else leaves the order alone.                *)
LEMMA FlushStep ==
  ASSUME IInv, FlushFrame \/ FlushEnds
  PROVE  IInv'
<1>1. /\ pc = "flush" /\ target \in Anything /\ buffer \in Seq(Frame) /\ meta \in Frame
      /\ UNCHANGED <<table, left, signalled, meta, active, upload, store, eos, opened>>
  BY DEF FlushFrame, FlushEnds, processVars, storeVars, IInv, Typed
<1>2. OneObject' BY <1>1 DEF IInv, OneObject
<1>3. CASE FlushFrame
  <2>1. /\ buffer # <<>> /\ buffer' = Tail(buffer) /\ pc' = pc /\ target' = target
        /\ queue' = queue \/ queue' = Put(queue, FrameItem(Head(buffer), target))
    BY <1>3 DEF FlushFrame, flushVars
  <2>2. Head(buffer) \in Frame /\ buffer' \in Seq(Frame) BY <1>1, <2>1
  <2>3. queue' \in Seq(Item) /\ \A p \in Anything : Orderly(p)'
    BY <1>1, <2>1, <2>2, FramesPut
  <2>4. Typed' BY <1>1, <2>1, <2>2, <2>3 DEF IInv, Typed
  <2> QED BY <1>2, <2>3, <2>4 DEF IInv
<1>4. CASE FlushEnds
  <2>1. /\ pc' = "idle" /\ target' = NoOrder /\ buffer' = buffer /\ Collect(meta)
    BY <1>4 DEF FlushEnds
  <2>2. \/ queue' = queue
        \/ active \in Anything /\ queue' = Put(queue, FrameItem(meta, active))
    BY <2>1 DEF Collect, IInv, Typed
  <2>3. queue' \in Seq(Item) /\ \A p \in Anything : Orderly(p)'
    BY <1>1, <2>1, <2>2, FramesPut
  <2>4. Typed' BY <1>1, <2>1, <2>3 DEF IInv, Typed
  <2> QED BY <1>2, <2>3, <2>4 DEF IInv
<1> QED BY <1>3, <1>4

LEMMA RestStep ==
  ASSUME IInv, OcrBlank \/ Starts \/ World \/ UNCHANGED vars
  PROVE  IInv'
<1>1. /\ UNCHANGED <<left, meta, buffer, queue, upload, active, target, signalled>>
      /\ UNCHANGED <<store, eos, opened>>
      /\ table' \in Order \cup {NoOrder}
      /\ pc' = "flush" => pc = "flush"
  BY DEF OcrBlank, Starts, World, LockExpires, TableChanges, vars, processVars, storeVars,
         flushVars, IInv, Typed
<1>2. \A p \in Anything : Orderly(p)' BY <1>1, FramesPut
<1>3. Typed' BY <1>1 DEF IInv, Typed
<1>4. OneObject' BY <1>1 DEF IInv, OneObject
<1> QED BY <1>2, <1>3, <1>4 DEF IInv

(* The upload thread.                                                      *)
LEMMA UploadTakeStep ==
  ASSUME IInv, UploadTake
  PROVE  IInv'
<1>1. /\ queue \in Seq(Item) /\ queue # <<>> /\ upload = Nothing
      /\ upload' = Head(queue) /\ queue' = Tail(queue)
      /\ UNCHANGED <<table, left, signalled, pc, meta, buffer, active, target, store, eos,
          opened>>
  BY DEF UploadTake, processVars, storeVars, flushVars, IInv, Typed
<1>2. /\ upload' \in Item /\ queue' \in Seq(Item)
      /\ \A p : MarkIn(queue', p) \/ IsMark(upload', p) => MarkIn(queue, p)
      /\ \A p : FrameIn(queue', p) \/ IsFrame(upload', p) => FrameIn(queue, p)
      /\ \A p : LateIn(queue', p) => LateIn(queue, p)
      /\ \A p : IsMark(upload', p) /\ FrameIn(queue', p) => LateIn(queue, p)
  BY <1>1, TailEffect
<1>3. ASSUME NEW p \in Anything PROVE Orderly(p)'
  <2>1. Orderly(p) /\ (Shut(p)' => Shut(p)) BY <1>1, <1>2 DEF IInv, Shut
  <2>2. p \in InDoubt' <=> p \in InDoubt BY <1>1 DEF InDoubt
  <2> QED BY <1>1, <1>2, <2>1, <2>2 DEF Orderly
<1>4. Typed' BY <1>1, <1>2 DEF IInv, Typed
<1>5. OneObject' BY <1>1 DEF IInv, OneObject
<1> QED BY <1>3, <1>4, <1>5 DEF IInv

(* A frame taken from the queue is the last thing of its order that could  *)
(* make its marker lie: the order of a marker that is written has nothing  *)
(* left in the queue.                                                      *)
LEMMA UploadDoneStep ==
  ASSUME IInv, UploadDone
  PROVE  IInv'
<1>1. /\ upload \in Item /\ upload' = Nothing
      /\ UNCHANGED <<table, left, signalled, pc, meta, buffer, active, target, queue, opened>>
      /\ Written(upload) \/ UNCHANGED <<store, eos>>
  BY DEF UploadDone, processVars, storeVars, flushVars, IInv, Typed
<1>2. \A p : ~IsMark(Nothing, p) /\ ~IsFrame(Nothing, p) BY Items
<1>3. CASE UNCHANGED <<store, eos>>
  <2>1. ASSUME NEW p \in Anything PROVE Orderly(p)'
    <3>1. Orderly(p) /\ (Shut(p)' => Shut(p)) BY <1>1, <1>2, <1>3 DEF IInv, Shut
    <3>2. p \in InDoubt' <=> p \in InDoubt BY <1>1 DEF InDoubt
    <3> QED BY <1>1, <1>2, <1>3, <3>1, <3>2 DEF Orderly
  <2>2. Typed' BY <1>1, <1>3 DEF IInv, Typed
  <2>3. OneObject' BY <1>3 DEF IInv, OneObject
  <2> QED BY <2>1, <2>2, <2>3 DEF IInv
<1>4. CASE Written(upload) /\ upload.kind = "eos"
  <2>1. upload.order \in Anything /\ eos' = eos \cup {upload.order} /\ store' = store
        /\ IsMark(upload, upload.order)
    BY <1>1, <1>4 DEF Written, Item, IsMark
  <2>2. ASSUME NEW p \in Anything PROVE Orderly(p)'
    <3>1. p \in eos' => p \in eos \/ IsMark(upload, p) BY <2>1
    <3>2. Orderly(p) /\ (Shut(p)' => Shut(p)) BY <1>1, <1>2, <3>1 DEF IInv, Shut
    <3>3. p \in InDoubt' <=> p \in InDoubt BY <1>1 DEF InDoubt
    <3> QED BY <1>1, <1>2, <3>1, <3>2, <3>3 DEF Orderly
  <2>3. Typed' BY <1>1, <2>1 DEF IInv, Typed
  <2>4. OneObject' BY <2>1 DEF IInv, OneObject
  <2> QED BY <2>2, <2>3, <2>4 DEF IInv
<1>5. CASE Written(upload) /\ upload.kind # "eos"
  <2>1. /\ upload.kind = "frame" /\ upload.order \in Anything /\ upload.frame \in Frame
        /\ eos' = eos
        /\ store' = {f \in store : ~SameObject(f, upload)} \cup {<<upload.order, upload.frame>>}
    BY <1>1, <1>5 DEF Written, Item
  <2>2. ASSUME NEW p \in Anything PROVE Orderly(p)'
    <3>1. Orderly(p) /\ (Shut(p)' => Shut(p)) BY <1>1, <1>2, <2>1 DEF IInv, Shut
    <3>2. p \in InDoubt' <=> p \in InDoubt BY <1>1 DEF InDoubt
    <3> QED BY <1>1, <1>2, <2>1, <3>1, <3>2 DEF Orderly
  <2>3. store' \subseteq Anything \X Frame BY <2>1 DEF IInv, Typed
  <2>4. Typed' BY <1>1, <2>1, <2>3 DEF IInv, Typed
  <2>5. OneObject' BY <2>1 DEF IInv, OneObject, SameObject
  <2> QED BY <2>2, <2>4, <2>5 DEF IInv
<1> QED BY <1>1, <1>3, <1>4, <1>5

(* The signal handler ends the open order; the process's end leaves the    *)
(* store as it is, with an empty memory.                                   *)
LEMMA SignalStep ==
  ASSUME IInv, SignalFlush
  PROVE  IInv'
<1>1. /\ signalled' /\ active' = NoOrder
      /\ queue' = IF active # NoOrder THEN Put(queue, EosItem(active)) ELSE queue
      /\ UNCHANGED <<table, left, pc, meta, buffer, target, upload, store, eos, opened>>
  BY DEF SignalFlush, processVars, storeVars, flushVars
<1>2. queue' \in Seq(Item) /\ \A p \in Anything : Orderly(p)'
  <2>1. CASE active # NoOrder
    <3>1. active \in Anything BY <2>1 DEF IInv, Typed
    <3> QED BY <1>1, <2>1, <3>1, MarkerPut
  <2>2. CASE active = NoOrder
    <3>1. queue' = queue /\ active' = active BY <1>1, <2>2
    <3>2. ASSUME NEW p \in Anything PROVE Orderly(p)'
      <4>1. Orderly(p) /\ (Shut(p)' <=> Shut(p)) BY <1>1, <3>1 DEF IInv, Shut
      <4>2. p \in InDoubt' BY <1>1 DEF InDoubt
      <4> QED BY <1>1, <3>1, <4>1, <4>2 DEF Orderly
    <3> QED BY <3>1, <3>2 DEF IInv, Typed
  <2> QED BY <2>1, <2>2
<1>3. Typed' BY <1>1, <1>2 DEF IInv, Typed
<1>4. OneObject' BY <1>1 DEF IInv, OneObject
<1> QED BY <1>2, <1>3, <1>4 DEF IInv

LEMMA GoneStep ==
  ASSUME IInv, Gone
  PROVE  IInv'
<1>1. /\ pc' = "idle" /\ meta' = NoFrame /\ buffer' = <<>> /\ active' = NoOrder
      /\ target' = NoOrder /\ queue' = <<>> /\ upload' = Nothing /\ signalled' = FALSE
      /\ UNCHANGED <<table, left, store, eos, opened>>
  BY DEF Gone, Fresh, storeVars
<1>2. left \in Nat /\ left <= MaxFrames /\ MaxFrames \in Nat
  <2>1. meta.id \in Nat /\ left \in Nat /\ meta.id + left <= MaxFrames /\ MaxFrames \in Nat
    BY FrameAssumption DEF IInv, Typed, Frame, FrameId
  <2> QED BY <2>1
<1>3. NoFrame \in Frame /\ NoFrame.id = 0 BY <1>2 DEF NoFrame, Frame, FrameId
<1>4. Typed' BY <1>1, <1>2, <1>3, EmptyQueue DEF IInv, Typed
<1>5. ASSUME NEW p \in Anything PROVE Orderly(p)'
  <2>1. Orderly(p) /\ (Shut(p)' => p \in eos) BY <1>1, EmptyQueue, Items DEF IInv, Shut
  <2>2. p # NoOrder BY FrameAssumption DEF Anything
  <2> QED BY <1>1, <2>1, <2>2, EmptyQueue, Items DEF Orderly, Shut
<1>6. OneObject' BY <1>1 DEF IInv, OneObject
<1> QED BY <1>4, <1>5, <1>6 DEF IInv

LEMMA InvStep == IInv /\ [Next]_vars => IInv'
<1> SUFFICES ASSUME IInv, [Next]_vars PROVE IInv' OBVIOUS
<1>1. CASE UNCHANGED vars BY <1>1, RestStep
<1>2. CASE Callback
  BY <1>2, FrameStep, EndStep, OcrStep, FlushStep, RestStep DEF Callback
<1>3. CASE Uploader BY <1>3, UploadTakeStep, UploadDoneStep DEF Uploader
<1>4. CASE Process
  BY <1>4, SignalStep, GoneStep, RestStep DEF Process, SignalDone, Dies
<1>5. CASE World BY <1>5, RestStep
<1> QED BY <1>1, <1>2, <1>3, <1>4, <1>5 DEF Next

LEMMA Invariance == Spec => []IInv
BY InvInit, InvStep, PTL DEF Spec

---------------------------------------------------------------------------
(* Once the marker of an order is in the store, no frame of it is on its   *)
(* way, unless its slip came back or the process was told to stop.         *)
THEOREM MarkersAreHonest == Spec => []HonestMarker
<1>1. IInv => HonestMarker
  <2> SUFFICES ASSUME IInv, NEW o \in eos \ InDoubt, Pending(o) PROVE FALSE
    BY DEF HonestMarker
  <2>1. o \in Anything /\ queue \in Seq(Item) BY DEF IInv, Typed
  <2>2. ~FrameIn(queue, o) /\ ~IsFrame(upload, o) BY <2>1 DEF IInv, Orderly
  <2>3. PICK x \in Range(queue) \cup {upload} : IsFrame(x, o) BY DEF Pending, IsFrame
  <2>4. x \in Range(queue) BY <2>2, <2>3
  <2>5. PICK i \in DOMAIN queue : queue[i] = x BY <2>4 DEF Range
  <2>6. DOMAIN queue = 1..Len(queue) BY <2>1
  <2> QED BY <2>2, <2>3, <2>5, <2>6 DEF FrameIn
<1> QED BY <1>1, Invariance, PTL

(* What the upload thread does to the store, as the feed's step.           *)
LEMMA FeedStep == IInv /\ [Next]_vars => [Feed!Next]_(Feed!vars)
<1> SUFFICES ASSUME IInv, [Next]_vars PROVE [Feed!Next]_(Feed!vars) OBVIOUS
<1>1. InDoubt \in SUBSET Anything /\ InDoubt' \in SUBSET Anything BY DEF InDoubt
<1>2. CASE UNCHANGED <<store, eos>> BY <1>1, <1>2 DEF Feed!Next, Feed!Doubt
<1>3. CASE UploadDone /\ Written(upload)
  <2>1. upload \in Item /\ InDoubt' = InDoubt
    BY <1>3 DEF UploadDone, IInv, Typed, InDoubt, processVars
  <2>2. CASE upload.kind = "eos"
    <3>1. upload.order \in Anything /\ eos' = eos \cup {upload.order} /\ store' = store
      BY <1>3, <2>1, <2>2 DEF Written, Item
    <3> QED BY <2>1, <3>1 DEF Feed!Next, Feed!Mark
  <2>3. CASE upload.kind # "eos"
    <3> DEFINE o == upload.order
               f == upload.frame
    <3>1. /\ upload.kind = "frame" /\ o \in Anything /\ f \in Frame /\ eos' = eos
          /\ store' = {g \in store : ~SameObject(g, upload)} \cup {<<o, f>>}
      BY <1>3, <2>1, <2>3 DEF Written, Item
    <3>2. o \in eos => o \in InDoubt BY <3>1 DEF IInv, Orderly, IsFrame
    <3>3. store \subseteq Anything \X Frame /\ OneObject BY DEF IInv, Typed
    <3>4. \E old \in Frame : store' = (store \ {<<o, old>>}) \cup {<<o, f>>}
      <4>1. CASE \E g \in store : SameObject(g, upload)
        <5>1. PICK g \in store : SameObject(g, upload) BY <4>1
        <5>2. g = <<o, g[2]>> /\ g[2] \in Frame BY <3>3, <5>1 DEF SameObject
        <5>3. \A h \in store : SameObject(h, upload) <=> h = g
          BY <3>3, <5>1 DEF OneObject, SameObject
        <5>4. {h \in store : ~SameObject(h, upload)} = store \ {g} BY <5>3
        <5> QED BY <3>1, <5>2, <5>4
      <4>2. CASE ~\E g \in store : SameObject(g, upload)
        <5>1. store' = store \cup {<<o, f>>} BY <3>1, <4>2
        <5> QED BY <3>1, <5>1
      <4> QED BY <4>1, <4>2
    <3>5. Feed!Write(o) BY <2>1, <3>1, <3>2, <3>4 DEF Feed!Write
    <3> QED BY <3>1, <3>5 DEF Feed!Next
  <2> QED BY <2>2, <2>3
<1>4. UNCHANGED <<store, eos>> \/ (UploadDone /\ Written(upload))
  BY DEF Next, Callback, FrameBusy, FrameEmpty, FrameEnds, OcrBlank, OcrReads, FlushFrame,
         FlushEnds, Uploader, UploadTake, UploadDone, Process, SignalFlush, SignalDone, Dies,
         Gone, Starts, World, LockExpires, TableChanges, storeVars, vars
<1> QED BY <1>2, <1>3, <1>4

(* The pipeline process is an OrderFeed to whoever reads the store.        *)
THEOREM ImplementsFeed == Spec => KeepsFeed
<1>1. Init => Feed!Init
  <2> SUFFICES ASSUME Init PROVE Feed!Init OBVIOUS
  <2>1. \A o \in Anything : opened[o] = 0 BY DEF Init
  <2>2. InDoubt = {} BY <2>1 DEF InDoubt, Init
  <2> QED BY <2>2 DEF Init, Feed!Init
<1> QED BY <1>1, Invariance, FeedStep, PTL DEF Spec, KeepsFeed, Feed!Spec

---------------------------------------------------------------------------
(* NoLeak.  _finalize_current_order clears the pre-buffer, so that all it  *)
(* holds afterwards was captured later; and so was the frame in hand.      *)
Later ==
  /\ closed \in Nat /\ closed <= meta.id /\ (pc # "idle" => closed < meta.id)
  /\ \A i \in 1..Len(buffer) : buffer[i].id > closed

LEMMA PushEffect ==
  ASSUME NEW b \in Seq(Frame), NEW f \in Frame
  PROVE  /\ Push(b, f) \in Seq(Frame)
         /\ \A i \in 1..Len(Push(b, f)) :
              Push(b, f)[i] = f \/ \E j \in 1..Len(b) : Push(b, f)[i] = b[j]
<1> DEFINE s == IF Len(b) < PreBuffer THEN b ELSE Tail(b)
           p == Append(s, f)
<1>1. Push(b, f) = p BY DEF Push
<1>2. s \in Seq(Frame) /\ \A i \in 1..Len(s) : \E j \in 1..Len(b) : s[i] = b[j]
  <2>1. CASE Len(b) < PreBuffer BY <2>1
  <2>2. CASE ~(Len(b) < PreBuffer)
    <3>1. b # <<>> BY <2>2, FrameAssumption
    <3>2. /\ Tail(b) \in Seq(Frame) /\ Len(Tail(b)) = Len(b) - 1
          /\ \A i \in 1..Len(Tail(b)) : Tail(b)[i] = b[i + 1] /\ i + 1 \in 1..Len(b)
      BY <3>1
    <3> QED BY <2>2, <3>2
  <2> QED BY <2>1, <2>2
<1> HIDE DEF s
<1>3. /\ p \in Seq(Frame) /\ Len(p) = Len(s) + 1 /\ p[Len(s) + 1] = f
      /\ \A i \in 1..Len(s) : p[i] = s[i]
  BY <1>2
<1>4. \A i \in 1..Len(p) : i \in 1..Len(s) \/ i = Len(s) + 1 BY <1>2, <1>3
<1> HIDE DEF p
<1> QED BY <1>1, <1>2, <1>3, <1>4

LEMMA GrabbedIs ==
  ASSUME Typed, Captured, table' = table
  PROVE  Grabbed \in Frame /\ Grabbed.id = meta.id + 1 /\ meta' = Grabbed /\ meta.id \in Nat
<1>1. Grabbed \in Frame BY Captures
<1>2. Grabbed.id = meta.id + 1 BY DEF Grabbed
<1> QED BY <1>1, <1>2 DEF Captured, Typed, Frame, FrameId

LEMMA LaterInit == Init => Later
BY DEF Init, Later, NoFrame

LEMMA LaterStep == IInv /\ Later /\ [Next]_vars => Later'
<1> SUFFICES ASSUME IInv, Later, [Next]_vars PROVE Later' OBVIOUS
<1>1. /\ Typed /\ meta.id \in Nat /\ closed \in Nat /\ buffer \in Seq(Frame)
      /\ \A i \in 1..Len(buffer) : buffer[i].id \in Nat
  <2>1. \A i \in 1..Len(buffer) : buffer[i] \in Frame BY DEF IInv, Typed
  <2> QED BY <2>1 DEF IInv, Typed, Later, Frame, FrameId
<1>2. CASE FrameBusy \/ FrameEmpty
  <2>1. /\ Captured /\ buffer' = Push(buffer, Grabbed) /\ closed' = closed /\ table' = table
    BY <1>2 DEF FrameBusy, FrameEmpty
  <2>2. Grabbed \in Frame /\ Grabbed.id = meta.id + 1 /\ meta' = Grabbed BY <1>1, <2>1, GrabbedIs
  <2>3. \A i \in 1..Len(buffer') :
          buffer'[i] = Grabbed \/ \E j \in 1..Len(buffer) : buffer'[i] = buffer[j]
    BY <1>1, <2>1, <2>2, PushEffect
  <2>4. closed < meta'.id BY <1>1, <2>2 DEF Later
  <2>5. \A i \in 1..Len(buffer') : buffer'[i].id > closed
    BY <1>1, <2>2, <2>3, <2>4 DEF Later
  <2> QED BY <1>1, <2>1, <2>2, <2>4, <2>5 DEF Later
<1>3. CASE FrameEnds
  <2>1. /\ Captured /\ buffer' = <<>> /\ closed' = Grabbed.id /\ table' = table /\ pc' = "idle"
    BY <1>3 DEF FrameEnds, Finalise, Captured
  <2>2. Grabbed.id = meta.id + 1 /\ meta' = Grabbed BY <1>1, <2>1, GrabbedIs
  <2> QED BY <1>1, <2>1, <2>2 DEF Later
<1>4. CASE FlushFrame
  <2>1. /\ buffer # <<>> /\ buffer' = Tail(buffer) /\ UNCHANGED <<meta, closed, pc>>
    BY <1>4 DEF FlushFrame
  <2>2. /\ Len(buffer') = Len(buffer) - 1
        /\ \A i \in 1..Len(buffer') : buffer'[i] = buffer[i + 1] /\ i + 1 \in 1..Len(buffer)
    BY <1>1, <2>1
  <2> QED BY <2>1, <2>2 DEF Later
<1>5. CASE Gone BY <1>5 DEF Gone, Fresh, Later, NoFrame
<1>6. CASE \E o \in Anything : OcrReads(o)
  <2>1. pc # "idle" /\ UNCHANGED <<meta, buffer, closed>> BY <1>6 DEF OcrReads
  <2> QED BY <2>1 DEF Later
<1>7. CASE \/ OcrBlank \/ FlushEnds \/ Uploader \/ SignalFlush \/ Starts \/ World
           \/ UNCHANGED vars
  BY <1>7 DEF OcrBlank, FlushEnds, Uploader, UploadTake, UploadDone, SignalFlush, Starts, World,
              LockExpires, TableChanges, vars, Later
<1> QED BY <1>2, <1>3, <1>4, <1>5, <1>6, <1>7
        DEF Next, Callback, Process, SignalDone, Dies

(* Only the item put last is new in the queue.                             *)
LEMMA LastPut ==
  ASSUME NEW q \in Seq(Item), NEW x \in Item, Len(Put(q, x)) > Len(q)
  PROVE  Last(Put(q, x)) = x
<1>1. CASE Put(q, x) = q BY <1>1
<1>2. CASE Put(q, x) = Append(q, x)
  <2>1. Len(Append(q, x)) = Len(q) + 1 /\ Append(q, x)[Len(q) + 1] = x OBVIOUS
  <2> QED BY <1>2, <2>1 DEF Last
<1> QED BY <1>1, <1>2 DEF Put

(* A frame captured before the last order ended goes to no later order.    *)
THEOREM NothingLeaks == Spec => NoLeak
<1>1. IInv /\ Later /\ [Next]_vars => [~Leaks]_vars
  <2> SUFFICES ASSUME IInv, Later, Next, Leaks PROVE FALSE OBVIOUS
  <2>1. queue \in Seq(Item) /\ Typed /\ meta \in Frame BY DEF IInv, Typed
  <2>2. ASSUME NEW f \in Frame, NEW o \in Anything, queue' = Put(queue, FrameItem(f, o)),
               f.id > closed
        PROVE  FALSE
    <3>1. FrameItem(f, o) \in Item /\ FrameItem(f, o).frame = f BY Items DEF FrameItem
    <3>2. Last(queue') = FrameItem(f, o) BY <2>1, <2>2, <3>1, LastPut DEF Leaks
    <3>3. f.id \in Nat /\ closed \in Nat BY DEF Frame, FrameId, Later
    <3> QED BY <2>2, <3>1, <3>2, <3>3 DEF Leaks
  <2>3. ASSUME active \in Anything, queue' = Put(queue, EosItem(active)) PROVE FALSE
    <3>1. EosItem(active) \in Item /\ EosItem(active).kind = "eos" BY <2>3, Items DEF EosItem
    <3>2. Last(queue') = EosItem(active) BY <2>1, <2>3, <3>1, LastPut DEF Leaks
    <3> QED BY <3>1, <3>2 DEF Leaks
  <2>4. queue' # queue /\ queue' # <<>>
    <3>1. Len(queue) \in Nat BY <2>1
    <3>2. Len(queue') > Len(queue) BY DEF Leaks
    <3> QED BY <3>1, <3>2
  <2>5. CASE FrameBusy \/ FrameEmpty
    <3>1. Captured /\ table' = table /\ Collect(Grabbed)
      BY <2>4, <2>5 DEF FrameBusy, FrameEmpty
    <3>2. Grabbed \in Frame /\ Grabbed.id = meta.id + 1 /\ meta.id \in Nat
      BY <2>1, <3>1, GrabbedIs
    <3>3. Grabbed.id > closed BY <3>2 DEF Later
    <3>4. active \in Anything /\ queue' = Put(queue, FrameItem(Grabbed, active))
      BY <2>4, <3>1 DEF Collect, IInv, Typed
    <3> QED BY <2>2, <3>2, <3>3, <3>4
  <2>6. CASE FrameEnds
    <3>1. active \in Anything /\ queue' = Put(queue, EosItem(active))
      BY <2>6 DEF FrameEnds, Finalise, IInv, Typed
    <3> QED BY <2>3, <3>1
  <2>7. CASE FlushFrame
    <3>1. /\ pc = "flush" /\ buffer # <<>> /\ queue' = Put(queue, FrameItem(Head(buffer), target))
      BY <2>4, <2>7 DEF FlushFrame
    <3>2. target \in Anything /\ buffer \in Seq(Frame) BY <3>1 DEF IInv, Typed
    <3>3. Head(buffer) = buffer[1] /\ 1 \in 1..Len(buffer) /\ Head(buffer) \in Frame
      BY <3>1, <3>2
    <3>4. Head(buffer).id > closed BY <3>3 DEF Later
    <3> QED BY <2>2, <3>1, <3>2, <3>3, <3>4
  <2>8. CASE FlushEnds
    <3>1. /\ pc = "flush" /\ active \in Anything /\ queue' = Put(queue, FrameItem(meta, active))
      BY <2>4, <2>8 DEF FlushEnds, Collect, IInv, Typed
    <3>2. meta.id > closed
      <4>1. meta.id \in Nat /\ closed \in Nat BY <2>1 DEF Frame, FrameId, Later
      <4> QED BY <3>1, <4>1 DEF Later
    <3> QED BY <2>1, <2>2, <3>1, <3>2
  <2>9. CASE SignalFlush
    <3>1. active \in Anything /\ queue' = Put(queue, EosItem(active))
      BY <2>4, <2>9 DEF SignalFlush, IInv, Typed
    <3> QED BY <2>3, <3>1
  <2>10. CASE UploadTake
    <3>1. queue # <<>> /\ queue' = Tail(queue) BY <2>10 DEF UploadTake
    <3>2. Len(queue') = Len(queue) - 1 /\ Len(queue) \in Nat BY <2>1, <3>1
    <3>3. Len(queue') > Len(queue) BY DEF Leaks
    <3> QED BY <3>2, <3>3
  <2>11. CASE Gone BY <2>4, <2>11 DEF Gone, Fresh
  <2>12. CASE (\E o \in Anything : OcrReads(o)) \/ OcrBlank \/ UploadDone \/ Starts \/ World
    BY <2>4, <2>12 DEF OcrReads, OcrBlank, UploadDone, Starts, World, LockExpires, TableChanges
  <2> QED BY <2>5, <2>6, <2>7, <2>8, <2>9, <2>10, <2>11, <2>12
          DEF Next, Callback, Uploader, Process, SignalDone, Dies
<1> QED BY <1>1, LaterInit, LaterStep, Invariance, PTL DEF Spec, NoLeak
=============================================================================
