----------------------------- MODULE OrderResults -----------------------------
(***************************************************************************)
(* What take-away keeps of the orders it has processed: the results of a   *)
(* station (core/order_results.py) and the history of the videos they came *)
(* from (core/video_history.py), each under a lock of its own, as the      *)
(* threads of the API (api/endpoints.py) and of the RabbitMQ consumer use  *)
(* them.  The history is saved in a file, from which a restarted process   *)
(* loads it; the results are in memory only.                               *)
(***************************************************************************)
EXTENDS Naturals, FiniteSets, Sequences, SequencesExt

CONSTANTS
  Writer,      (* threads that report results                               *)
  Order,       (* order ids                                                  *)
  VideoId,     (* video ids; the caller of upload-video may choose one      *)
  None,        (* no video                                                   *)
  Lost,        (* a history file that json.load refuses, or no file         *)
  MaxKept,     (* MAX_RESULTS                                                *)
  MaxHistory,  (* MAX_HISTORY                                                *)
  MaxResults,  (* bound: results reported                                    *)
  MaxVideos,   (* bound: videos of one process, or between two clears       *)
  MaxClears,   (* bound: requests to clear                                   *)
  MaxCrashes,  (* bound: restarts                                            *)
  MaxFailures  (* bound: attempts to write or delete the file that fail      *)

ASSUME ResultsAssumption ==
  /\ MaxKept \in Nat \ {0} /\ MaxHistory \in Nat \ {0}
  /\ {MaxResults, MaxVideos, MaxClears, MaxCrashes, MaxFailures} \subseteq Nat
  /\ None \notin VideoId

VARIABLES
  recorded,  (* results reported so far; numbers them                        *)
  results,   (* station.results, newest first                                *)
  runs,      (* order_run_counts                                             *)
  stamp,     (* video_id of each result                                      *)
  entries,   (* the VideoEntry objects of this process                       *)
  history,   (* _history: the entries it lists, newest first                 *)
  videos,    (* _video_map: the entry of each id, or 0                       *)
  current,   (* _current_video_id                                            *)
  saving,    (* is the thread that holds the history's lock in _save_history? *)
  file,      (* the history file                                             *)
  behind,    (* history: the last attempt to write or delete it failed       *)
  writer,    (* where each call of add_result is, with its result and video  *)
  clearing,  (* requests between clear_video_history and clear_all_results   *)
  clears,    (* requests to clear so far                                     *)
  crashes,   (* restarts so far                                              *)
  failures,  (* failures so far to write or delete the file                  *)
  astray     (* history: results that went to another video than their stamp *)

stationVars == <<recorded, results, runs>>

videoVars == <<entries, history, videos, current>>

fileVars == <<saving, file, behind>>

boundVars == <<clears, crashes, failures>>

vars == <<stationVars, stamp, videoVars, fileVars, writer, clearing, boundVars, astray>>

Result == [number : 1..MaxResults, order : Order, run : 1..MaxResults]

Entry == [id : VideoId, status : {"processing", "completed", "failed"}, results : Seq(Result)]

(* What json.load refuses is no list of entries.                           *)
ASSUME LostAssumption == Lost \notin Seq(Entry)

Idle == [at |-> "idle"]

TypeOK ==
  /\ recorded \in 0..MaxResults /\ results \in Seq(Result) /\ Len(results) <= MaxKept
  /\ runs \in [Order -> 0..MaxResults] /\ stamp \in [1..MaxResults -> VideoId \cup {None}]
  /\ entries \in Seq(Entry) /\ history \in Seq(1..Len(entries)) /\ Len(history) <= MaxHistory
  /\ videos \in [VideoId -> 0..Len(entries)] /\ current \in VideoId \cup {None}
  /\ saving \in BOOLEAN /\ behind \in BOOLEAN /\ (file = Lost \/ file \in Seq(Entry))
  /\ \A w \in Writer : writer[w] # Idle => writer[w].at \in {"recorded", "stamped"}
  /\ clearing \in 0..clears /\ clears \in 0..MaxClears /\ crashes \in 0..MaxCrashes
  /\ failures \in 0..MaxFailures
  /\ astray \subseteq 1..recorded

Init ==
  /\ recorded = 0 /\ results = <<>> /\ runs = [o \in Order |-> 0]
  /\ stamp = [r \in 1..MaxResults |-> None]
  /\ entries = <<>> /\ history = <<>> /\ videos = [v \in VideoId |-> 0] /\ current = None
  /\ saving = FALSE /\ file = Lost /\ behind = FALSE
  /\ writer = [w \in Writer |-> Idle]
  /\ clearing = 0 /\ clears = 0 /\ crashes = 0 /\ failures = 0 /\ astray = {}

(* appendleft to a deque of bounded length.                                *)
Pushed(x, s, n) == SubSeq(<<x>> \o s, 1, IF Len(s) < n THEN Len(s) + 1 ELSE n)

---------------------------------------------------------------------------
(* add_result.                                                             *)

(* Under the station's lock.                                               *)
Records(w, o) ==
  /\ writer[w] = Idle /\ recorded < MaxResults
  /\ recorded' = recorded + 1
  /\ LET r == [number |-> recorded', order |-> o, run |-> runs[o] + 1] IN
       /\ runs' = [runs EXCEPT ![o] = @ + 1]
       /\ results' = Pushed(r, results, MaxKept)
       /\ writer' = [writer EXCEPT ![w] = [at |-> "recorded", result |-> r]]
  /\ UNCHANGED <<stamp, videoVars, fileVars, clearing, boundVars, astray>>

(* After the summary and the report have been written: the video current   *)
(* by now, read without a lock.                                            *)
Stamps(w) ==
  /\ writer[w] # Idle /\ writer[w].at = "recorded"
  /\ IF current = None
     THEN writer' = [writer EXCEPT ![w] = Idle] /\ UNCHANGED stamp
     ELSE /\ stamp' = [stamp EXCEPT ![writer[w].result.number] = current]
          /\ writer' = [writer EXCEPT ![w] = [at |-> "stamped", result |-> @.result, video |-> current]]
  /\ UNCHANGED <<stationVars, videoVars, fileVars, clearing, boundVars, astray>>

(* The entry add_result_to_video and complete_video mean by v.             *)
CurrentTarget(v) == IF current # None THEN videos[current] ELSE 0

Target(v) == IF videos[v] # 0 THEN videos[v] ELSE CurrentTarget(v)

(* A result that goes to the video of now.                                 *)
AddsToCurrent(w) ==
  /\ writer[w] # Idle /\ writer[w].at = "stamped" /\ ~saving
  /\ writer' = [writer EXCEPT ![w] = Idle]
  /\ LET r == writer[w].result
         v == writer[w].video
         e == CurrentTarget(v) IN
       /\ entries' = IF e = 0 THEN entries ELSE [entries EXCEPT ![e].results = Append(@, r)]
       /\ astray' = IF videos[v] = 0 THEN astray \cup {r.number} ELSE astray
  /\ UNCHANGED <<stationVars, stamp, history, videos, current, fileVars, clearing, boundVars>>

AddsToVideo(w) ==
  /\ writer[w] # Idle /\ writer[w].at = "stamped" /\ ~saving
  /\ writer' = [writer EXCEPT ![w] = Idle]
  /\ LET r == writer[w].result
         v == writer[w].video
         e == Target(v) IN
       /\ entries' = IF e = 0 THEN entries ELSE [entries EXCEPT ![e].results = Append(@, r)]
       /\ astray' = IF videos[v] = 0 THEN astray \cup {r.number} ELSE astray
  /\ UNCHANGED <<stationVars, stamp, history, videos, current, fileVars, clearing, boundVars>>

---------------------------------------------------------------------------
(* The history, under its lock.                                            *)

(* A failure to write or to delete the file is logged, and forgotten.      *)
FileFails == failures < MaxFailures /\ failures' = failures + 1 /\ behind' = TRUE

(* _save_history opens the file for writing, which empties it, unless what *)
(* it does before or the opening fails: the file is then as it was, while  *)
(* the history has gone on; ...                                            *)
BeginsSaving ==
  \/ saving' = TRUE /\ file' = Lost /\ UNCHANGED <<behind, failures>>
  \/ FileFails /\ UNCHANGED <<saving, file>>

SavedList == [i \in 1..Len(history) |-> entries[history[i]]]

(* ... and writes the list, which may fail as well.                        *)
EndsSaving ==
  /\ saving /\ saving' = FALSE
  /\ \/ file' = SavedList /\ behind' = FALSE /\ UNCHANGED failures
     \/ file' = Lost /\ FileFails
  /\ UNCHANGED <<stationVars, stamp, videoVars, writer, clearing, clears, crashes, astray>>

StartsVideo(v) ==
  /\ ~saving /\ Len(entries) < MaxVideos
  /\ entries' = Append(entries, [id |-> v, status |-> "processing", results |-> <<>>])
  /\ history' = Pushed(Len(entries'), history, MaxHistory)
  /\ videos' = [videos EXCEPT ![v] = Len(entries')]
  /\ current' = v
  /\ BeginsSaving
  /\ UNCHANGED <<stationVars, stamp, writer, clearing, clears, crashes, astray>>

Marks(e, status) ==
  /\ e # 0 /\ entries' = [entries EXCEPT ![e].status = status]
  /\ BeginsSaving
  /\ UNCHANGED <<stationVars, stamp, history, videos, current, writer, clearing, clears, crashes,
                 astray>>

Completes(v) == ~saving /\ Marks(Target(v), "completed")

(* A failure that is not saved.                                            *)
FailsUnsaved(v) ==
  /\ ~saving /\ videos[v] # 0 /\ entries' = [entries EXCEPT ![videos[v]].status = "failed"]
  /\ UNCHANGED <<stationVars, stamp, history, videos, current, fileVars, writer, clearing, boundVars, astray>>

Fails(v) == ~saving /\ Marks(videos[v], "failed")

(* clear_history forgets the videos whether the file could be deleted or   *)
(* not: a failure is logged, and the request succeeds.                     *)
HistoryCleared ==
  /\ ~saving /\ clears < MaxClears
  /\ clears' = clears + 1 /\ clearing' = clearing + 1
  /\ entries' = <<>> /\ history' = <<>> /\ videos' = [v \in VideoId |-> 0] /\ current' = None
  /\ \/ file' = Lost /\ behind' = FALSE /\ UNCHANGED failures
     \/ FileFails /\ UNCHANGED file
  /\ UNCHANGED <<recorded, results, stamp, saving, writer, crashes, astray>>

(* A clear that starts the run numbers again while results are still kept. *)
ClearsHistoryAndRuns == HistoryCleared /\ runs' = [o \in Order |-> 0]

(* DELETE /videos/history: the history, then the results; the run numbers  *)
(* go on.                                                                  *)
ClearsHistory == HistoryCleared /\ UNCHANGED runs

ClearsResults ==
  /\ clearing > 0 /\ clearing' = clearing - 1 /\ results' = <<>>
  /\ UNCHANGED <<recorded, runs, stamp, videoVars, fileVars, writer, boundVars, astray>>

---------------------------------------------------------------------------
Loaded == IF file = Lost THEN <<>> ELSE file

LastWith(v, s) ==
  LET at == {i \in 1..Len(s) : s[i].id = v} IN
  IF at = {} THEN 0 ELSE CHOOSE i \in at : \A j \in at : j <= i

(* The process dies, a save half done or not, and another one loads the    *)
(* history: of two entries of one id the map gets the one further down.    *)
Restarts ==
  /\ crashes < MaxCrashes /\ crashes' = crashes + 1
  /\ results' = <<>> /\ runs' = [o \in Order |-> 0]
  /\ entries' = Loaded /\ history' = [i \in 1..Len(Loaded) |-> i]
  /\ videos' = [v \in VideoId |-> LastWith(v, Loaded)] /\ current' = None
  /\ saving' = FALSE /\ behind' = FALSE /\ clearing' = 0
  /\ writer' = [w \in Writer |-> Idle]
  /\ UNCHANGED <<recorded, stamp, file, clears, failures, astray>>

(* The requests: an upload under an id of the caller's choice, which may   *)
(* have been used before; a source that is played under a new id; ...      *)
Uploads(v) == StartsVideo(v)

RunsVideo(v) == (\A e \in 1..Len(entries) : entries[e].id # v) /\ StartsVideo(v)

MarksVideo(v) == Completes(v) \/ Fails(v)

(* ... and the two halves of DELETE.                                       *)
Deletes == ClearsHistory \/ ClearsResults

AddsResult(w) == (\E o \in Order : Records(w, o)) \/ Stamps(w) \/ AddsToVideo(w)

Next ==
  \/ \E w \in Writer : AddsResult(w)
  \/ \E v \in VideoId : Uploads(v) \/ RunsVideo(v) \/ MarksVideo(v)
  \/ EndsSaving \/ Deletes \/ Restarts

Spec == Init /\ [][Next]_vars

---------------------------------------------------------------------------
(* Of the results kept of one order, a newer one has the higher run        *)
(* number, with two threads reporting, the oldest results dropped and the  *)
(* results cleared in between.                                             *)
RunsInOrder ==
  \A i, j \in 1..Len(results) :
    i < j /\ results[i].order = results[j].order => results[i].run > results[j].run

Settled(r) == \A w \in Writer : writer[w] # Idle => writer[w].result # r

Lists(e, r) == \E i \in 1..Len(entries[e].results) : entries[e].results[i] = r

Detected(e, o) == \E i \in 1..Len(entries[e].results) : entries[e].results[i].order = o

(* get_video_by_order_id: the newest video listed that has the order.      *)
Recalled(o) ==
  LET at == {i \in 1..Len(history) : Detected(history[i], o)} IN
  IF at = {} THEN 0 ELSE CHOOSE i \in at : \A j \in at : i <= j

(* The two registries agree.  A video has only results stamped with its    *)
(* id; and a result that GET /results still finds under the stamp of a     *)
(* video belongs to that video, and the recall of its order finds it, or a *)
(* newer video, unless the video has dropped out of the history.  This is  *)
(* so once the call that reports the result is over and no request is      *)
(* clearing; the exception is a result whose video was cleared away while  *)
(* it was being reported.                                                  *)
StampsAgree ==
  /\ \A e \in 1..Len(entries), i \in 1..MaxResults : i <= Len(entries[e].results) =>
       LET r == entries[e].results[i] IN stamp[r.number] = entries[e].id \/ r.number \in astray
  /\ clearing = 0 => \A k \in 1..Len(results) :
       LET r == results[k] IN
       stamp[r.number] # None /\ Settled(r) /\ r.number \notin astray =>
         \E e \in 1..Len(entries) :
           /\ entries[e].id = stamp[r.number] /\ Lists(e, r)
           /\ \A i \in 1..Len(history) : history[i] = e => Recalled(r.order) \in 1..i

(* A restart finds what was listed: the same videos with the same status  *)
(* in the same order, each with its first results and no others.  This is  *)
(* so when no save was half done and the last attempt to write or delete   *)
(* the file went through (failures are swallowed, video_history.py 103 and *)
(* 307), whatever failed before it, and however many results, evictions    *)
(* and restarts came since.                                                *)
RestartKeepsVideos ==
  [][crashes' # crashes /\ ~saving /\ ~behind =>
       /\ Len(history') = Len(history)
       /\ \A i \in 1..Len(history) :
            LET old == entries[history[i]]
                new == entries'[history'[i]] IN
            /\ new.id = old.id /\ new.status = old.status
            /\ IsPrefix(new.results, old.results)]_vars
=============================================================================
