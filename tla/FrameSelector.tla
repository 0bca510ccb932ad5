---------------------------- MODULE FrameSelector ----------------------------
(***************************************************************************)
(* The frame selector service for one station                              *)
(* (take-away/frame-selector-service/app/frame_selector.py): it polls the  *)
(* bucket of frames, collects those of the current order, and when the     *)
(* order is over selects the best, asks the VLM service and cleans the     *)
(* bucket.  Meanwhile the pipeline goes on uploading and the calls already *)
(* made (VLM_FIRE_AND_FORGET) read what was selected for them.             *)
(*                                                                         *)
(* A poll works on a snapshot of the bucket sorted by NAME, so an order is *)
(* a number that compares as its name does.  Within an order the sequence  *)
(* of the frames makes no difference to the code.                          *)
(***************************************************************************)
EXTENDS Integers, FiniteSetsExt

CONSTANTS
  Order,      (* the order numbers                                          *)
  NoOrder,    (* None                                                       *)
  Frames,     (* frames the pipeline uploads for an order                   *)
  MinFrames,  (* MIN_FRAMES_PER_ORDER                                       *)
  MinItems,   (* MIN_ITEM_FRAMES                                            *)
  MaxBucket,  (* MAX_BUCKET_SIZE                                            *)
  MaxOrders   (* bound: orders the pipeline uploads                         *)

ASSUME SelectorAssumption ==
  /\ Order \subseteq Nat /\ Order # {} /\ NoOrder \notin Order
  /\ {Frames, MinFrames, MinItems, MaxBucket, MaxOrders} \subseteq Nat \ {0}

VARIABLES
  store,        (* the objects <order>/frame_<n>.jpg of FRAMES_BUCKET       *)
  eos,          (* the orders with an __EOS__ object                        *)
  ended,        (* the station's own __EOS__ object is there                *)
  selected,     (* the orders with frames in SELECTED_BUCKET                *)
  calls,        (* calls of the VLM service under way, for each order       *)
  pc,           (* where the polling thread is                              *)
  why,          (* why it closes the current order                          *)
  listing, listedEos, listedEnd,  (* its snapshot of the bucket             *)
  current, keys,                  (* current_order, current_keys            *)
  candidate, count, candidateKeys, (* pending_order, _count, _keys          *)
  processed,    (* processed_keys                                           *)
  recent,       (* the orders processed less than REPROCESS_COOLDOWN_SEC ago *)
  warmup,       (* in_warmup_mode                                           *)
  touched,      (* last_frame_time was set in this poll                     *)
  feeding,      (* the order the pipeline is uploading                      *)
  uploaded,     (* its frames uploaded so far                               *)
  fed,          (* orders uploaded, this one included                       *)
  due,          (* history: orders uploaded to the last frame and marker    *)
                (* and not settled                                          *)
  settled,      (* history: orders the VLM was asked about, or something    *)
                (* went wrong with                                          *)
  redone        (* history: orders processed again during a call            *)

bucketVars  == <<store, eos, ended>>
listVars    == <<listing, listedEos, listedEnd>>
currentVars == <<current, keys>>
pendingVars == <<candidate, count, candidateKeys>>
vlmVars     == <<selected, calls, recent>>
feedVars    == <<feeding, uploaded, fed>>
historyVars == <<due, settled, redone>>

vars == <<bucketVars, vlmVars, pc, why, listVars, currentVars, pendingVars, processed,
          warmup, touched, feedVars, historyVars>>

Key == Order \X (1..Frames)

MaybeOrder == Order \cup {NoOrder}

TypeOK ==
  /\ store \subseteq Key /\ eos \subseteq Order /\ ended \in BOOLEAN
  /\ selected \subseteq Order
  /\ calls \in [Order -> 0..2]
  /\ pc \in {"poll", "scan", "close", "score", "cleanup", "switch", "quiet", "end", "finish"}
  /\ why \in {"none", "change", "eos", "idle", "end"}
  /\ listing \subseteq Key /\ listedEos \subseteq Order /\ listedEnd \in BOOLEAN
  /\ current \in MaybeOrder
  /\ keys \subseteq Key /\ Cardinality(keys) <= Max({MaxBucket, MinFrames})
  /\ candidate \in MaybeOrder /\ count \in 0..MinFrames /\ candidateKeys \subseteq Key
  /\ processed \subseteq Key /\ recent \subseteq Order
  /\ warmup \in BOOLEAN /\ touched \in BOOLEAN
  /\ feeding \in MaybeOrder /\ uploaded \in 0..Frames /\ fed \in 0..MaxOrders
  /\ due \subseteq Order /\ settled \subseteq Order /\ redone \subseteq Order

(* StationState(), with both buckets cleaned at start-up.                  *)
StateIsNew ==
  /\ current = NoOrder /\ keys = {}
  /\ candidate = NoOrder /\ count = 0 /\ candidateKeys = {}
  /\ processed = {} /\ recent = {} /\ warmup = FALSE

Init ==
  /\ store = {} /\ eos = {} /\ ended = FALSE
  /\ selected = {} /\ calls = [o \in Order |-> 0]
  /\ pc = "poll" /\ why = "none"
  /\ listing = {} /\ listedEos = {} /\ listedEnd = FALSE
  /\ StateIsNew
  /\ touched = FALSE
  /\ feeding = NoOrder /\ uploaded = 0 /\ fed = 0
  /\ due = {} /\ settled = {} /\ redone = {}
-----------------------------------------------------------------------------
(* process_station: the snapshot.                                          *)
List ==
  /\ pc = "poll"
  /\ listing' = store /\ listedEos' = eos /\ listedEnd' = ended
  /\ pc' = "scan"
  /\ UNCHANGED <<bucketVars, vlmVars, why, currentVars, pendingVars, processed, warmup,
                 touched, feedVars, historyVars>>

(* The end of a poll, for which these were.                                *)
Forget == listing' = {} /\ listedEos' = {} /\ listedEnd' = FALSE /\ touched' = FALSE

(* The next key of the snapshot: the orders by name, of an order first the *)
(* frames seen before.                                                     *)
NextKey ==
  LET o      == Min({k[1] : k \in listing})
      ofIt   == {k \in listing : k[1] = o}
      seen   == ofIt \cap processed
  IN <<o, Min({k[2] : k \in IF seen # {} THEN seen ELSE ofIt})>>

Scanning == pc = "scan" /\ listing # {}

SkipKeys ==
  /\ Scanning /\ NextKey \in processed
  /\ listing' = listing \ {k \in processed : k[1] = NextKey[1]}
  /\ UNCHANGED <<bucketVars, vlmVars, pc, why, listedEos, listedEnd, currentVars, pendingVars,
                 processed, warmup, touched, feedVars, historyVars>>

(* That the VLM was asked about an order, or what went wrong, is noted.    *)
Settle(orders) ==
  /\ settled' = settled \cup orders
  /\ due' = due \ orders
  /\ UNCHANGED redone

(* The frame is added to the bucket bs of the current order, skipped in    *)
(* warm-up mode, or, with the bucket full, left for the next poll.         *)
Collect(k, bs, inWarmup) ==
  LET full == Cardinality(bs) >= MaxBucket
  IN /\ keys' = IF inWarmup \/ full THEN bs ELSE bs \cup {k}
     /\ processed' = IF ~inWarmup /\ full THEN processed ELSE processed \cup {k}
     /\ touched' = (touched \/ ~inWarmup)

(* A frame of the current order, or the first frame of all, which also     *)
(* ends the warm-up mode.  (pending_keys keeps its content.)  A frame that *)
(* a full bucket turned away comes back in every poll, and keeps resetting *)
(* the candidate and the time of inactivity until the marker is there.     *)
TurnedAway == Cardinality(keys) >= MaxBucket /\ current \notin listedEos

SameOrder ==
  /\ Scanning /\ NextKey \notin processed
  /\ current \in {NoOrder, NextKey[1]}
  /\ current' = NextKey[1]
  /\ warmup' = (warmup /\ current # NoOrder)
  /\ candidate' = NoOrder /\ count' = 0
  /\ Collect(NextKey, keys, warmup')
  /\ Settle(IF TurnedAway THEN Order ELSE {})
  /\ listing' = listing \ {NextKey}
  /\ UNCHANGED <<bucketVars, vlmVars, pc, why, listedEos, listedEnd, candidateKeys, feedVars>>

(* A frame of another order is held back until MIN_FRAMES_PER_ORDER of     *)
(* them have come in a row; then the current order is closed.              *)
Keep(o) == IF candidate = o THEN candidateKeys ELSE {}

Sightings(o) == IF candidate = o THEN count + 1 ELSE 1

OtherOrder ==
  /\ Scanning /\ NextKey \notin processed
  /\ current \notin {NoOrder, NextKey[1]}

Candidate ==
  /\ OtherOrder
  /\ Sightings(NextKey[1]) < MinFrames
  /\ candidate' = NextKey[1]
  /\ count' = Sightings(NextKey[1])
  /\ candidateKeys' = Keep(NextKey[1]) \cup {NextKey}
  /\ processed' = processed \cup {NextKey}
  /\ listing' = listing \ {NextKey}
  /\ UNCHANGED <<bucketVars, vlmVars, pc, why, listedEos, listedEnd, currentVars, warmup,
                 touched, feedVars, historyVars>>

(* Noted: it is closed while the pipeline still uploads it, because the    *)
(* other order, older by time, comes later by name.                        *)
ConfirmOther ==
  /\ OtherOrder
  /\ Sightings(NextKey[1]) >= MinFrames
  /\ candidate' = NextKey[1]
  /\ count' = MinFrames           (* a higher count makes no difference     *)
  /\ candidateKeys' = Keep(NextKey[1])
  /\ pc' = "close" /\ why' = "change"
  /\ Settle({current} \ listedEos)
  /\ UNCHANGED <<bucketVars, vlmVars, listVars, currentVars, processed, warmup, touched,
                 feedVars>>

(* ... and the other one becomes current.  (In warm-up mode the frame is   *)
(* skipped: the branch "New order during warmup" compares the order with   *)
(* the one just made current, and is never taken.)                         *)
Seed == candidateKeys

Switch ==
  /\ pc = "switch"
  /\ current' = candidate
  /\ Collect(NextKey, Seed, warmup)
  /\ candidate' = NoOrder /\ count' = 0 /\ candidateKeys' = {}
  /\ listing' = listing \ {NextKey}
  /\ pc' = "scan" /\ why' = "none"
  /\ UNCHANGED <<bucketVars, vlmVars, listedEos, listedEnd, warmup, feedVars, historyVars>>

(* After the scan: the order's marker, ...                                 *)
Scanned ==
  /\ pc = "scan" /\ listing = {}
  /\ IF current \in listedEos THEN pc' = "close" /\ why' = "eos"
     ELSE pc' = "quiet" /\ UNCHANGED why
  /\ UNCHANGED <<bucketVars, vlmVars, listVars, currentVars, pendingVars, processed, warmup,
                 touched, feedVars, historyVars>>

(* ... INACTIVITY_TIMEOUT without a frame of the order (one of a candidate *)
(* does not count, and is lost if the candidate comes next), ...           *)
Inactive ==
  /\ pc = "quiet"
  /\ current # NoOrder /\ keys # {} /\ ~touched
  /\ pc' = "close" /\ why' = "idle"
  /\ Settle({current, candidate} \ {NoOrder})
  /\ UNCHANGED <<bucketVars, vlmVars, listVars, currentVars, pendingVars, processed, warmup,
                 touched, feedVars>>

NotInactive ==
  /\ pc = "quiet"
  /\ pc' = "end"
  /\ UNCHANGED <<bucketVars, vlmVars, why, listVars, currentVars, pendingVars, processed,
                 warmup, touched, feedVars, historyVars>>

(* ... and the end of the video.                                           *)
PollEnds ==
  /\ pc = "end"
  /\ pc' = IF ~listedEnd THEN "poll"
           ELSE IF current # NoOrder /\ keys # {} THEN "close"
           ELSE "finish"
  /\ why' = IF listedEnd THEN "end" ELSE "none"
  /\ Forget
  /\ UNCHANGED <<bucketVars, vlmVars, currentVars, pendingVars, processed, warmup,
                 feedVars, historyVars>>
-----------------------------------------------------------------------------
(* process_completed_order.                                                *)
AfterClose == IF why = "end" THEN "finish" ELSE "cleanup"

CloseSkips ==
  /\ pc = "close"
  /\ \/ Cardinality(keys) < MinFrames
     \/ current \in recent
  /\ pc' = AfterClose
  /\ UNCHANGED <<bucketVars, vlmVars, why, listVars, currentVars, pendingVars, processed,
                 warmup, touched, feedVars, historyVars>>

(* What was selected for an earlier run is removed.                        *)
Wipe ==
  /\ pc = "close"
  /\ Cardinality(keys) >= MinFrames
  /\ current \notin recent
  /\ selected' = selected \ {current}
  /\ redone' = IF calls[current] > 0 THEN redone \cup {current} ELSE redone
  /\ pc' = "score"
  /\ UNCHANGED <<bucketVars, calls, recent, why, listVars, currentVars, pendingVars, processed,
                 warmup, touched, feedVars, due, settled>>

(* A frame that was deleted since the scan cannot be loaded any more; one  *)
(* that is damaged or shows a hand is dropped: n are valid.                *)
Loadable == keys \cap store

Valid == 0..Cardinality(Loadable)

(* count_items: how many of n valid frames show an item is YOLO's word.    *)
Shows(n) == 0..n

(* Too few: the VLM is not asked, and with (next to) nothing on the frames *)
(* warm-up mode is entered.                                                *)
Blank(n, items) == n = 0 \/ 5 * items < n

TooFew ==
  /\ pc = "score"
  /\ \E n \in Valid : \E items \in Shows(n) :
       /\ n = 0 \/ items < MinItems
       /\ warmup' = (warmup \/ Blank(n, items))
       /\ Settle(IF Blank(n, items) THEN Order
                 ELSE IF items < Cardinality(Loadable) THEN {current} ELSE {})
  /\ pc' = AfterClose
  /\ UNCHANGED <<bucketVars, vlmVars, why, listVars, currentVars, pendingVars, processed,
                 touched, feedVars>>

(* The best frames are stored and the VLM service is called; the call may  *)
(* fail (and is not made for the dummy order 000).                         *)
Called ==
  /\ calls' = [calls EXCEPT ![current] = IF @ < 2 THEN @ + 1 ELSE 2]
  /\ recent' = recent \cup {current}
  /\ Settle({current})

NotCalled == UNCHANGED <<calls, recent>> /\ Settle({current})

Enough(items) == items >= MinItems

Ask ==
  /\ pc = "score"
  /\ \E n \in Valid : \E items \in Shows(n) : Enough(items)
  /\ warmup' = FALSE
  /\ selected' = selected \cup {current}
  /\ Called \/ NotCalled
  /\ pc' = AfterClose
  /\ UNCHANGED <<bucketVars, why, listVars, currentVars, pendingVars, processed, touched,
                 feedVars>>

(* An exception of YOLO or of the object store leaves process_station; the *)
(* next poll starts over with the state as it is (as long as it happens,   *)
(* later orders have to wait).                                             *)
Raises ==
  /\ pc = "score"
  /\ selected' \in {selected, selected \cup {current}}
  /\ Settle(Order)
  /\ pc' = "poll" /\ why' = "none"
  /\ Forget
  /\ UNCHANGED <<bucketVars, calls, recent, currentVars, pendingVars, processed,
                 warmup, feedVars>>

-----------------------------------------------------------------------------
(* _cleanup_order: the order's frames, tracked or not, and its marker; all *)
(* errors are swallowed (here: all is deleted, or nothing).                *)
WithoutBoth(ks, o) == {k \in ks : k[1] \notin {o, candidate}}

Without(ks, o) == {k \in ks : k[1] # o}

Cleaned(o) ==
  \/ /\ store' = Without(store, o)
     /\ processed' = Without(processed, o)
     /\ eos' = eos \ {o}
     /\ UNCHANGED <<ended, historyVars>>
  \/ Settle(Order) /\ UNCHANGED <<bucketVars, processed>>

CleanupForChange ==
  /\ pc = "cleanup" /\ why = "change"
  /\ Cleaned(current)
  /\ pc' = "switch"
  /\ UNCHANGED <<vlmVars, why, listVars, currentVars, pendingVars, warmup, touched, feedVars>>

(* A confirmed candidate is promoted; a frame of an unconfirmed one is     *)
(* forgotten.                                                              *)
CleanupForEos ==
  /\ pc = "cleanup" /\ why = "eos"
  /\ Cleaned(current)
  /\ LET promoted == candidate # NoOrder /\ count >= MinFrames
     IN /\ current' = IF promoted THEN candidate ELSE NoOrder
        /\ keys' = IF promoted THEN candidateKeys ELSE {}
  /\ candidate' = NoOrder /\ count' = 0 /\ candidateKeys' = {}
  /\ touched' = TRUE
  /\ pc' = "quiet" /\ why' = "none"
  /\ UNCHANGED <<vlmVars, listVars, warmup, feedVars>>

CleanupKeepsKeys ==
  /\ pc = "cleanup" /\ why = "idle"
  /\ Cleaned(current)
  /\ current' = NoOrder /\ UNCHANGED keys
  /\ touched' = TRUE
  /\ pc' = "end" /\ why' = "none"
  /\ UNCHANGED <<vlmVars, listVars, pendingVars, warmup, feedVars>>

CleanupForIdle ==
  /\ pc = "cleanup" /\ why = "idle"
  /\ Cleaned(current)
  /\ current' = NoOrder /\ keys' = {}
  /\ touched' = TRUE
  /\ pc' = "end" /\ why' = "none"
  /\ UNCHANGED <<vlmVars, listVars, pendingVars, warmup, feedVars>>

(* The end of the video: the marker and the processed frames are deleted,  *)
(* and the state is reset; SELECTED_BUCKET is left to the calls under way. *)
ResetState ==
  /\ current' = NoOrder /\ keys' = {}
  /\ candidate' = NoOrder /\ count' = 0 /\ candidateKeys' = {}
  /\ processed' = {} /\ recent' = {} /\ warmup' = FALSE
  /\ pc' = "poll" /\ why' = "none"

BucketDeleted ==
  \/ ended' = FALSE /\ store' = store \ processed /\ UNCHANGED historyVars
  \/ UNCHANGED <<ended, store>> /\ Settle(Order)

FinishAndWipe ==
  /\ pc = "finish"
  /\ BucketDeleted
  /\ selected' = {}
  /\ ResetState
  /\ UNCHANGED <<eos, calls, listVars, touched, feedVars>>

Finish ==
  /\ pc = "finish"
  /\ BucketDeleted
  /\ ResetState
  /\ UNCHANGED <<eos, selected, calls, listVars, touched, feedVars>>

Selector ==
  \/ List \/ SkipKeys \/ SameOrder \/ Candidate \/ ConfirmOther \/ Switch
  \/ Scanned \/ Inactive \/ NotInactive \/ PollEnds
  \/ CloseSkips \/ Wipe \/ TooFew \/ Ask \/ Raises
  \/ CleanupForChange \/ CleanupForEos \/ CleanupForIdle \/ Finish
-----------------------------------------------------------------------------
(* The others move while the polling thread is about to use the buckets;   *)
(* between two uses it works in its memory, and that they move there too   *)
(* is no loss of generality.                                               *)
AtBuckets == pc \in {"poll", "score", "cleanup", "finish"}

(* A call reads the frames selected for its order.                         *)
CallReads(o) ==
  /\ AtBuckets \/ pc = "close"
  /\ calls[o] > 0
  /\ calls' = [calls EXCEPT ![o] = @ - 1]
  /\ redone' = IF calls[o] = 1 THEN redone \ {o} ELSE redone
  /\ UNCHANGED <<bucketVars, selected, recent, pc, why, listVars, currentVars, pendingVars,
                 processed, warmup, touched, feedVars, due, settled>>

(* REPROCESS_COOLDOWN_SEC elapses.                                         *)
CooldownEnds(o) ==
  /\ pc = "close"
  /\ o \in recent
  /\ recent' = recent \ {o}
  /\ UNCHANGED <<bucketVars, selected, calls, pc, why, listVars, currentVars, pendingVars,
                 processed, warmup, touched, feedVars, historyVars>>

(* The pipeline (FramePipeline): one order at a time, its frames and then  *)
(* its marker, which may be dropped; the next order, or the end of the     *)
(* video.                                                                  *)
Opens(o) ==
  /\ AtBuckets
  /\ feeding = NoOrder /\ fed < MaxOrders
  /\ feeding' = o /\ fed' = fed + 1
  /\ uploaded' = 1
  /\ store' = store \cup {<<o, 1>>}
  /\ UNCHANGED <<eos, ended, vlmVars, pc, why, listVars, currentVars, pendingVars, processed,
                 warmup, touched, historyVars>>

Uploads ==
  /\ AtBuckets
  /\ feeding # NoOrder /\ uploaded < Frames
  /\ uploaded' = uploaded + 1
  /\ store' = store \cup {<<feeding, uploaded'>>}
  /\ UNCHANGED <<eos, ended, vlmVars, pc, why, listVars, currentVars, pendingVars, processed,
                 warmup, touched, feeding, fed, historyVars>>

Marks ==
  /\ AtBuckets
  /\ feeding # NoOrder
  /\ \/ /\ uploaded = Frames
        /\ eos' = eos \cup {feeding}
        /\ due' = due \cup ({feeding} \ settled)
        /\ UNCHANGED <<settled, redone>>
     \/ UNCHANGED eos /\ Settle({feeding})
  /\ feeding' = NoOrder /\ uploaded' = 0
  /\ UNCHANGED <<store, ended, vlmVars, pc, why, listVars, currentVars, pendingVars, processed,
                 warmup, touched, fed>>

Ends ==
  /\ AtBuckets
  /\ feeding = NoOrder /\ fed > 0 /\ ~ended
  /\ ended' = TRUE
  /\ UNCHANGED <<store, eos, vlmVars, pc, why, listVars, currentVars, pendingVars, processed,
                 warmup, touched, feedVars, historyVars>>

Pipeline == (\E o \in Order : Opens(o)) \/ Uploads \/ Marks \/ Ends

Surroundings == \E o \in Order : CallReads(o) \/ CooldownEnds(o)

Next == Selector \/ Surroundings \/ Pipeline

(* The polling thread goes on.                                             *)
Spec == Init /\ [][Next]_vars /\ WF_vars(Selector)

-----------------------------------------------------------------------------
(* Properties.                                                             *)

(* "hold for new order, never mix into current" (line 1311): whatever      *)
(* sequence of candidates, closings and exceptions came before, an order   *)
(* is judged by its own frames.                                            *)
OwnFrames ==
  /\ \A k \in keys : k[1] = current
  /\ candidate # NoOrder => \A k \in candidateKeys : k[1] = candidate

(* "Wiping SELECTED_BUCKET here races against the VLM HTTP request"        *)
(* (1428-1446): a call under way finds frames, unless its order is being   *)
(* processed again in the meantime.                                        *)
CallFindsFrames == \A o \in Order : calls[o] > 0 /\ o \notin redone => o \in selected

(* An order uploaded to its last frame and marker is asked about, although *)
(* polls see it in pieces and frames at its edges go astray, unless one of *)
(* the things goes wrong that settle it.                                   *)
CompleteIsAsked == \A o \in Order : o \in due ~> o \in settled
=============================================================================
