--------------------------- MODULE OrderResultsProofs ---------------------------
(***************************************************************************)
(* Proofs about OrderResults, for any number of threads, orders and        *)
(* videos, and any bound on the results and videos kept: of the results of *)
(* an order the newer one has the higher run number; the results and the   *)
(* history agree; and a restart shows the videos of before.                *)
(***************************************************************************)
EXTENDS OrderResults, WellFoundedInduction, TLAPS

Kept == [number : Nat, order : Order, run : Nat]

Typed ==
  /\ recorded \in Nat
  /\ results \in Seq(Kept)
  /\ runs \in [Order -> Nat]

(* No result kept has a run number that is still to be given out.  This is *)
(* what the next number has to be compared with, and what the two halves   *)
(* of a clear must not disturb.                                            *)
RunsGivenOut == \A i \in 1..Len(results) : results[i].run <= runs[results[i].order]

IInv == Typed /\ RunsGivenOut /\ RunsInOrder

LEMMA PushedEffect ==
  ASSUME NEW S, NEW s \in Seq(S), NEW x \in S, NEW n \in Nat \ {0}
  PROVE  /\ Pushed(x, s, n) \in Seq(S)
         /\ Len(Pushed(x, s, n)) \in 1..(Len(s) + 1)
         /\ Pushed(x, s, n)[1] = x
         /\ \A i \in 2..Len(Pushed(x, s, n)) : i - 1 \in 1..Len(s) /\ Pushed(x, s,
             n)[i] = s[i - 1]
<1> DEFINE whole == <<x>> \o s
           last  == IF Len(s) < n THEN Len(s) + 1 ELSE n
           p     == SubSeq(whole, 1, last)
<1>1. /\ whole \in Seq(S) /\ Len(whole) = Len(s) + 1 /\ whole[1] = x
      /\ \A i \in 2..Len(whole) : whole[i] = s[i - 1]
  OBVIOUS
<1>2. last \in 1..Len(whole) /\ Len(s) \in Nat BY <1>1
<1> HIDE DEF whole, last
<1>3. p \in Seq(S) /\ Len(p) = last /\ \A i \in 1..last : p[i] = whole[i]
  BY <1>1, <1>2
<1>4. Pushed(x, s, n) = p BY DEF Pushed, whole, last
<1> HIDE DEF p
<1>5. \A i \in 2..Len(p) : i - 1 \in 1..Len(s) /\ p[i] = s[i - 1]
  BY <1>1, <1>2, <1>3
<1> QED BY <1>1, <1>2, <1>3, <1>4, <1>5

LEMMA InvInit == Init => IInv
BY DEF Init, IInv, Typed, RunsGivenOut, RunsInOrder

(* A new result has the next run number of its order, and goes in front.   *)
LEMMA RecordStep ==
  ASSUME IInv, NEW w \in Writer, NEW o \in Order, Records(w, o)
  PROVE  IInv'
<1> DEFINE r == [number |-> recorded + 1, order |-> o, run |-> runs[o] + 1]
<1>1. /\ recorded' = recorded + 1
      /\ runs' = [runs EXCEPT ![o] = @ + 1]
      /\ results' = Pushed(r, results, MaxKept)
  BY DEF Records
<1>2. recorded \in Nat /\ results \in Seq(Kept) /\ runs \in [Order -> Nat] BY DEF IInv, Typed
<1>3. r \in Kept /\ r.order = o /\ r.run = runs[o] + 1 BY <1>2 DEF Kept
<1>4. runs' \in [Order -> Nat] BY <1>1, <1>2
<1>5. runs'[o] = runs[o] + 1 /\ \A p \in Order : p # o => runs'[p] = runs[p] BY <1>1, <1>2
<1>6. MaxKept \in Nat \ {0} BY ResultsAssumption
<1> HIDE DEF r
<1>7. /\ results' \in Seq(Kept) /\ Len(results') \in 1..(Len(results) + 1) /\ results'[1] = r
      /\ \A i \in 2..Len(results') : i - 1 \in 1..Len(results) /\ results'[i] = results[i - 1]
  <2> DEFINE p == Pushed(r, results, MaxKept)
  <2>1. /\ p \in Seq(Kept) /\ Len(p) \in 1..(Len(results) + 1) /\ p[1] = r
        /\ \A i \in 2..Len(p) : i - 1 \in 1..Len(results) /\ p[i] = results[i - 1]
    BY <1>2, <1>3, <1>6, PushedEffect
  <2> HIDE DEF p
  <2>2. results' = p BY <1>1 DEF p, r
  <2> QED BY <2>1, <2>2
<1>8. \A i \in 1..Len(results) :
        /\ results[i].order \in Order /\ results[i].run \in Nat
        /\ results[i].run <= runs[results[i].order]
  <2>1. \A i \in 1..Len(results) : results[i] \in Kept BY <1>2
  <2> QED BY <2>1 DEF IInv, RunsGivenOut, Kept
<1>9. Typed' BY <1>1, <1>2, <1>4, <1>7 DEF Typed
<1>10. ASSUME NEW i \in 1..Len(results') PROVE results'[i].run <= runs'[results'[i].order]
  <2>1. CASE i = 1 BY <1>3, <1>5, <1>7, <2>1, <1>2
  <2>2. CASE i \in 2..Len(results')
    <3>1. i - 1 \in 1..Len(results) /\ results'[i] = results[i - 1] BY <1>7, <2>2
    <3>2. /\ results'[i].order \in Order /\ results'[i].run \in Nat
          /\ results'[i].run <= runs[results'[i].order]
      BY <1>8, <3>1
    <3>3. runs[results'[i].order] \in Nat /\ runs[results'[i].order] <= runs'[results'[i].order]
      BY <1>2, <1>5, <3>2
    <3> QED BY <1>4, <3>2, <3>3
  <2> QED BY <2>1, <2>2, <1>7
<1>11. ASSUME NEW i \in 1..Len(results'), NEW j \in 1..Len(results'), i < j,
              results'[i].order = results'[j].order
       PROVE  results'[i].run > results'[j].run
  <2>1. j \in 2..Len(results') BY <1>11, <1>7
  <2>2. j - 1 \in 1..Len(results) /\ results'[j] = results[j - 1] BY <1>7, <2>1
  <2>3. CASE i = 1
    <3>1. results'[j].order = o /\ results'[i].run = runs[o] + 1 BY <1>3, <1>7, <1>11, <2>3
    <3>2. results'[j].run \in Nat /\ results'[j].run <= runs[o] BY <1>8, <2>2, <3>1
    <3> QED BY <1>2, <3>1, <3>2
  <2>4. CASE i \in 2..Len(results')
    <3>1. i - 1 \in 1..Len(results) /\ results'[i] = results[i - 1] BY <1>7, <2>4
    <3>2. i - 1 < j - 1 BY <1>11
    <3> QED BY <1>11, <2>2, <3>1, <3>2 DEF IInv, RunsInOrder
  <2> QED BY <2>3, <2>4, <1>7
<1> QED BY <1>9, <1>10, <1>11 DEF IInv, RunsGivenOut, RunsInOrder

(* A request that clears, or a new process, forgets all results.           *)
LEMMA ForgetStep ==
  ASSUME IInv, ClearsResults \/ Restarts
  PROVE  IInv'
<1>1. results' = <<>> /\ recorded' = recorded /\ (runs' = runs \/ runs' = [o \in Order |-> 0])
  BY DEF ClearsResults, Restarts, stationVars
<1> QED BY <1>1 DEF IInv, Typed, RunsGivenOut, RunsInOrder

LEMMA OtherStep ==
  ASSUME IInv, UNCHANGED stationVars
  PROVE  IInv'
BY DEF stationVars, IInv, Typed, RunsGivenOut, RunsInOrder

LEMMA InvStep == IInv /\ [Next]_vars => IInv'
<1> SUFFICES ASSUME IInv, [Next]_vars PROVE IInv' OBVIOUS
<1>1. ASSUME NEW w \in Writer, AddsResult(w) PROVE IInv'
  <2>1. CASE Stamps(w) \/ AddsToVideo(w) BY <2>1, OtherStep DEF Stamps, AddsToVideo
  <2> QED BY <1>1, <2>1, RecordStep DEF AddsResult
<1>2. ASSUME NEW v \in VideoId, Uploads(v) \/ RunsVideo(v) \/ MarksVideo(v) PROVE IInv'
  BY <1>2, OtherStep DEF Uploads, RunsVideo, MarksVideo, StartsVideo, Completes, Fails, Marks
<1>3. CASE EndsSaving \/ ClearsHistory \/ UNCHANGED vars
  BY <1>3, OtherStep DEF EndsSaving, ClearsHistory, HistoryCleared, stationVars, vars
<1>4. CASE Restarts \/ ClearsResults BY <1>4, ForgetStep
<1> QED BY <1>1, <1>2, <1>3, <1>4 DEF Next, Deletes

(* Run numbers fall along the list, whatever is reported, dropped or       *)
(* cleared in between.                                                     *)
THEOREM RunNumbersRise == Spec => []RunsInOrder
<1>1. IInv => RunsInOrder BY DEF IInv
<1> QED BY <1>1, InvInit, InvStep, PTL DEF Spec

---------------------------------------------------------------------------
(* The results and the history of videos: StampsAgree and                  *)
(* RestartKeepsVideos.  A result has a number of its own, which no video   *)
(* has before its call is over; what is in a video, or in the file, is     *)
(* there under the stamp; and the file, unless the last attempt to write or *)
(* delete it failed, holds what is listed, but for what has been added     *)
(* since.                                                                  *)
Call ==
  {Idle} \cup [at : {"recorded"}, result : Result]
         \cup [at : {"stamped"}, result : Result, video : VideoId]

Shaped ==
  /\ recorded \in 0..MaxResults /\ results \in Seq(Result)
  /\ runs \in [Order -> 0..recorded] /\ stamp \in [1..MaxResults -> VideoId \cup {None}]
  /\ entries \in Seq(Entry) /\ history \in Seq(1..Len(entries))
  /\ videos \in [VideoId -> 0..Len(entries)] /\ current \in VideoId \cup {None}
  /\ saving \in BOOLEAN /\ (file = Lost \/ file \in Seq(Entry))
  /\ writer \in [Writer -> Call]
  /\ clearing \in Nat /\ crashes \in Nat /\ astray \subseteq 1..MaxResults

Working(w) == writer[w] # Idle

(* The entries of a list are those of a process, or of a file.             *)
Without(s, n) ==
  \A e \in 1..Len(s) : \A i \in 1..Len(s[e].results) : s[e].results[i].number # n

OwnResults(s) ==
  \A e \in 1..Len(s) : \A i \in 1..Len(s[e].results) :
    \/ stamp[s[e].results[i].number] = s[e].id
    \/ s[e].results[i].number \in astray

NumbersFresh ==
  /\ \A n \in 1..MaxResults : n > recorded =>
       stamp[n] = None /\ Without(entries, n) /\ Without(Loaded, n)
  /\ \A k \in 1..Len(results) : results[k].number <= recorded
  /\ \A w \in Writer : Working(w) => writer[w].result.number <= recorded

CallsApart ==
  /\ \A w, x \in Writer : Working(w) /\ Working(x) /\ w # x =>
       writer[w].result.number # writer[x].result.number
  /\ \A w \in Writer : Working(w) =>
       /\ \A k \in 1..Len(results) :
            results[k].number = writer[w].result.number => results[k] = writer[w].result
       /\ Without(entries, writer[w].result.number) /\ Without(Loaded, writer[w].result.number)
       /\ stamp[writer[w].result.number] =
            IF writer[w].at = "recorded" THEN None ELSE writer[w].video

MapIsRight == \A v \in VideoId : videos[v] # 0 => entries[videos[v]].id = v

ResultsFound ==
  clearing = 0 => \A k \in 1..Len(results) :
    \/ stamp[results[k].number] = None \/ ~Settled(results[k]) \/ results[k].number \in astray
    \/ \E e \in 1..Len(entries) : entries[e].id = stamp[results[k].number] /\ Lists(e, results[k])

FileIsList ==
  ~saving /\ ~behind =>
    /\ Len(Loaded) = Len(history)
    /\ \A i \in 1..Len(history) :
         /\ Loaded[i].id = entries[history[i]].id
         /\ Loaded[i].status = entries[history[i]].status
         /\ IsPrefix(Loaded[i].results, entries[history[i]].results)

(* The registries agree, in memory and in the file.                        *)
Agree ==
  /\ Shaped /\ NumbersFresh /\ CallsApart /\ MapIsRight
  /\ OwnResults(entries) /\ OwnResults(Loaded) /\ ResultsFound /\ FileIsList

---------------------------------------------------------------------------
LEMMA EntryFacts ==
  ASSUME NEW s \in Seq(Entry), NEW e \in 1..Len(s)
  PROVE  /\ s[e] \in Entry /\ s[e].id \in VideoId /\ s[e].results \in Seq(Result)
         /\ \A i \in 1..Len(s[e].results) :
              s[e].results[i] \in Result /\ s[e].results[i].number \in 1..MaxResults
<1>1. s[e] \in Entry OBVIOUS
<1>2. s[e].id \in VideoId /\ s[e].results \in Seq(Result) BY <1>1 DEF Entry
<1>3. ASSUME NEW i \in 1..Len(s[e].results)
      PROVE  s[e].results[i] \in Result /\ s[e].results[i].number \in 1..MaxResults
  <2>1. s[e].results[i] \in Result BY <1>2
  <2> QED BY <2>1 DEF Result
<1> QED BY <1>1, <1>2, <1>3

LEMMA CallFacts ==
  ASSUME NEW c \in Call, c # Idle
  PROVE  /\ c.at \in {"recorded", "stamped"}
         /\ c.result \in Result /\ c.result.number \in 1..MaxResults
         /\ c.at = "stamped" => c.video \in VideoId
BY DEF Call, Result

LEMMA CallsMade ==
  ASSUME NEW r \in Result
  PROVE  /\ [at |-> "recorded", result |-> r] \in Call \ {Idle}
         /\ \A v \in VideoId : [at |-> "stamped", result |-> r, video |-> v] \in Call \ {Idle}
<1>1. \A c : c = Idle => c.at = "idle" BY DEF Idle
<1>2. [at |-> "recorded", result |-> r].at # "idle" OBVIOUS
<1>3. \A v : [at |-> "stamped", result |-> r, video |-> v].at # "idle" OBVIOUS
<1>4. /\ [at |-> "recorded", result |-> r] \in Call
      /\ \A v \in VideoId : [at |-> "stamped", result |-> r, video |-> v] \in Call
  BY DEF Call
<1> QED BY <1>1, <1>2, <1>3, <1>4

LEMMA LoadedIsList == Shaped => Loaded \in Seq(Entry)
BY DEF Shaped, Loaded

LEMMA PrefixMeans ==
  ASSUME NEW s \in Seq(Result), NEW t \in Seq(Result)
  PROVE  IsPrefix(s, t) <=> Len(s) <= Len(t) /\ \A i \in 1..Len(s) : s[i] = t[i]
<1>1. CASE Len(s) <= Len(t)
  <2>1. Len(s) \in Nat /\ Len(t) \in Nat OBVIOUS
  <2>2. /\ SubSeq(s, 1, Len(s)) \in Seq(Result) /\ Len(SubSeq(s, 1, Len(s))) = Len(s)
        /\ \A i \in 1..Len(s) : SubSeq(s, 1, Len(s))[i] = s[i]
    BY <2>1
  <2>3. /\ SubSeq(t, 1, Len(s)) \in Seq(Result) /\ Len(SubSeq(t, 1, Len(s))) = Len(s)
        /\ \A i \in 1..Len(s) : SubSeq(t, 1, Len(s))[i] = t[i]
    BY <1>1, <2>1
  <2> DEFINE a == SubSeq(s, 1, Len(s))
             b == SubSeq(t, 1, Len(s))
  <2> HIDE DEF a, b
  <2>4. a = b <=> \A i \in 1..Len(s) : a[i] = b[i] BY <2>2, <2>3 DEF a, b
  <2> QED BY <1>1, <2>2, <2>3, <2>4 DEF IsPrefix, a, b
<1>2. CASE ~(Len(s) <= Len(t)) BY <1>2 DEF IsPrefix
<1> QED BY <1>1, <1>2

LEMMA AgreeInit == Init => Agree
<1> SUFFICES ASSUME Init PROVE Agree OBVIOUS
<1>1. Shaped
  <2>1. Idle \in Call BY DEF Call
  <2>2. MaxResults \in Nat BY ResultsAssumption
  <2>3. /\ recorded = 0 /\ results = <<>> /\ runs = [o \in Order |-> 0]
        /\ stamp = [r \in 1..MaxResults |-> None]
        /\ entries = <<>> /\ history = <<>> /\ videos = [v \in VideoId |-> 0]
        /\ current = None /\ saving = FALSE /\ file = Lost
        /\ writer = [w \in Writer |-> Idle] /\ clearing = 0 /\ crashes = 0 /\ astray = {}
    BY DEF Init
  <2>4. \A S : <<>> \in Seq(S) OBVIOUS
  <2>5. Len(entries) = 0 BY <2>3
  <2>6. recorded \in 0..MaxResults /\ runs \in [Order -> 0..recorded] BY <2>2, <2>3
  <2>7. videos \in [VideoId -> 0..Len(entries)] /\ writer \in [Writer -> Call]
        /\ stamp \in [1..MaxResults -> VideoId \cup {None}]
    BY <2>1, <2>3, <2>5
  <2> QED BY <2>3, <2>4, <2>6, <2>7 DEF Shaped
<1>2. /\ \A w \in Writer : ~Working(w)
      /\ Loaded = <<>> /\ entries = <<>> /\ results = <<>>
  BY DEF Init, Working, Loaded
<1>3. \A n : Without(<<>>, n) BY DEF Without
<1>4. OwnResults(<<>>) BY DEF OwnResults
<1>5. NumbersFresh /\ CallsApart
  BY <1>2, <1>3 DEF Init, NumbersFresh, CallsApart
<1>6. MapIsRight /\ ResultsFound /\ FileIsList
  BY <1>2 DEF Init, MapIsRight, ResultsFound, FileIsList
<1> QED BY <1>1, <1>2, <1>4, <1>5, <1>6 DEF Agree

(* A result is recorded: its number is new to everything else.             *)
LEMMA RecordsAgree ==
  ASSUME Agree, NEW w \in Writer, NEW o \in Order, Records(w, o)
  PROVE  Agree'
<1> DEFINE r == [number |-> recorded + 1, order |-> o, run |-> runs[o] + 1]
           c == [at |-> "recorded", result |-> r]
<1>1. /\ recorded' = recorded + 1 /\ recorded < MaxResults /\ writer[w] = Idle
      /\ runs' = [runs EXCEPT ![o] = @ + 1]
      /\ results' = Pushed(r, results, MaxKept)
      /\ writer' = [writer EXCEPT ![w] = c]
      /\ UNCHANGED <<stamp, entries, history, videos, current, saving, file, behind, clearing,
                     crashes, astray>>
  BY DEF Records, videoVars, fileVars, boundVars
<1>2. /\ recorded \in 0..MaxResults /\ MaxResults \in Nat /\ MaxKept \in Nat \ {0}
      /\ results \in Seq(Result) /\ writer \in [Writer -> Call]
      /\ runs \in [Order -> 0..recorded]
  BY ResultsAssumption DEF Agree, Shaped
<1>3. r \in Result /\ r.number = recorded + 1
  <2>1. runs[o] \in 0..recorded BY <1>2
  <2>2. runs[o] + 1 \in 1..MaxResults /\ recorded + 1 \in 1..MaxResults BY <1>1, <1>2, <2>1
  <2> QED BY <2>2 DEF Result
<1> HIDE DEF r
<1>4. c \in Call /\ c # Idle /\ c.at = "recorded" /\ c.result = r
  <2>1. c \in Call \ {Idle} BY <1>3, CallsMade
  <2> QED BY <2>1
<1> HIDE DEF c
<1>5. /\ results' \in Seq(Result) /\ Len(results') \in 1..(Len(results) + 1) /\ results'[1] = r
      /\ \A i \in 2..Len(results') : i - 1 \in 1..Len(results) /\ results'[i] = results[i - 1]
  <2> DEFINE p == Pushed(r, results, MaxKept)
  <2>1. /\ p \in Seq(Result) /\ Len(p) \in 1..(Len(results) + 1) /\ p[1] = r
        /\ \A i \in 2..Len(p) : i - 1 \in 1..Len(results) /\ p[i] = results[i - 1]
    BY <1>2, <1>3, PushedEffect
  <2> HIDE DEF p
  <2>2. results' = p BY <1>1 DEF p
  <2> QED BY <2>1, <2>2
<1>6. \A k \in 1..Len(results') :
        \/ results'[k] = r
        \/ \E j \in 1..Len(results) : results'[k] = results[j]
  <2>1. \A k \in 1..Len(results') : k = 1 \/ k \in 2..Len(results') BY <1>5
  <2> QED BY <1>5, <2>1
<1>7. /\ writer'[w] = c /\ Working(w)' /\ ~Working(w)
      /\ \A x \in Writer : x # w => writer'[x] = writer[x] /\ (Working(x)' <=> Working(x))
  BY <1>1, <1>2, <1>4 DEF Working
<1>8. Loaded' = Loaded BY <1>1 DEF Loaded
<1>9. Shaped'
  <2>1. runs' \in [Order -> 0..recorded'] BY <1>1, <1>2
  <2>2. recorded' \in 0..MaxResults BY <1>1, <1>2
  <2>3. writer' \in [Writer -> Call] BY <1>1, <1>2, <1>4
  <2> QED BY <1>1, <1>5, <2>1, <2>2, <2>3 DEF Agree, Shaped
<1>10. \A k \in 1..Len(results) : results[k] \in Result /\ results[k].number \in 1..MaxResults
  <2>1. \A k \in 1..Len(results) : results[k] \in Result BY <1>2
  <2> QED BY <2>1 DEF Result
<1>11. \A x \in Writer : Working(x) =>
         writer[x].result.number \in 1..MaxResults /\ writer[x].result.number <= recorded
  BY <1>2, CallFacts DEF Agree, NumbersFresh, Working
<1>12. \A k \in 1..Len(results) : results[k].number <= recorded
  BY DEF Agree, NumbersFresh
<1>13. NumbersFresh'
  <2>1. \A n \in 1..MaxResults : n > recorded' =>
          stamp'[n] = None /\ Without(entries', n) /\ Without(Loaded', n)
    BY <1>1, <1>2, <1>8 DEF Agree, NumbersFresh
  <2>2. \A k \in 1..Len(results') : results'[k].number <= recorded'
    <3>1. ASSUME NEW k \in 1..Len(results'), results'[k] = r PROVE results'[k].number <= recorded'
      BY <1>1, <1>2, <1>3, <3>1
    <3>2. ASSUME NEW j \in 1..Len(results) PROVE results[j].number <= recorded'
      BY <1>1, <1>2, <1>10, <1>12
    <3> QED BY <1>6, <3>1, <3>2
  <2>3. \A x \in Writer : Working(x)' => writer'[x].result.number <= recorded'
    BY <1>1, <1>2, <1>3, <1>4, <1>7, <1>11
  <2> QED BY <2>1, <2>2, <2>3 DEF NumbersFresh, Without
<1>14. CallsApart'
  <2>1. \A x, y \in Writer : Working(x)' /\ Working(y)' /\ x # y =>
          writer'[x].result.number # writer'[y].result.number
    BY <1>2, <1>3, <1>4, <1>7, <1>11 DEF Agree, CallsApart
  <2>2. ASSUME NEW x \in Writer, Working(x)', NEW k \in 1..Len(results'),
               results'[k].number = writer'[x].result.number
        PROVE  results'[k] = writer'[x].result
    <3>1. CASE x = w BY <1>2, <1>3, <1>4, <1>6, <1>7, <1>10, <1>12, <2>2, <3>1
    <3>2. CASE x # w
      <4>1. writer'[x] = writer[x] /\ Working(x) BY <1>7, <2>2, <3>2
      <4>2. results'[k] # r BY <1>2, <1>3, <1>11, <2>2, <4>1
      <4>3. PICK j \in 1..Len(results) : results'[k] = results[j] BY <1>6, <4>2
      <4> QED BY <2>2, <4>1, <4>3 DEF Agree, CallsApart
    <3> QED BY <3>1, <3>2
  <2>3. ASSUME NEW x \in Writer, Working(x)'
        PROVE  /\ Without(entries', writer'[x].result.number)
               /\ Without(Loaded', writer'[x].result.number)
               /\ stamp'[writer'[x].result.number] =
                    IF writer'[x].at = "recorded" THEN None ELSE writer'[x].video
    <3>1. CASE x = w
      <4>1. recorded + 1 \in 1..MaxResults /\ recorded + 1 > recorded BY <1>1, <1>2
      <4>2. /\ stamp[recorded + 1] = None
            /\ Without(entries, recorded + 1) /\ Without(Loaded, recorded + 1)
        BY <4>1 DEF Agree, NumbersFresh
      <4> QED BY <1>1, <1>3, <1>4, <1>7, <1>8, <3>1, <4>2
    <3>2. CASE x # w
      <4>1. writer'[x] = writer[x] /\ Working(x) BY <1>7, <2>3, <3>2
      <4> QED BY <1>1, <1>8, <4>1 DEF Agree, CallsApart
    <3> QED BY <3>1, <3>2
  <2> QED BY <2>1, <2>2, <2>3 DEF CallsApart, Without
<1>15. ResultsFound'
  <2>1. ASSUME clearing = 0, NEW k \in 1..Len(results'),
               \A x \in Writer : writer'[x] # Idle => writer'[x].result # results'[k],
               stamp[results'[k].number] # None, results'[k].number \notin astray
        PROVE  \E e \in 1..Len(entries) :
                 entries[e].id = stamp[results'[k].number] /\ Lists(e, results'[k])
    <3>1. results'[k] # r BY <1>4, <1>7, <2>1
    <3>2. PICK j \in 1..Len(results) : results'[k] = results[j] BY <1>6, <3>1
    <3>3. Settled(results[j]) BY <1>7, <2>1, <3>2 DEF Settled, Working
    <3> QED BY <2>1, <3>2, <3>3 DEF Agree, ResultsFound
  <2> QED BY <1>1, <2>1 DEF ResultsFound, Settled, Lists
<1>16. MapIsRight' /\ FileIsList' /\ OwnResults(entries)' /\ OwnResults(Loaded)'
  BY <1>1, <1>8 DEF Agree, MapIsRight, FileIsList, OwnResults
<1> QED BY <1>9, <1>13, <1>14, <1>15, <1>16 DEF Agree

(* What is known of the results and calls of a state, in one place.        *)
LEMMA StateFacts ==
  ASSUME Agree
  PROVE  /\ \A k \in 1..Len(results) :
              /\ results[k] \in Result /\ results[k].number \in 1..MaxResults
              /\ results[k].number <= recorded
         /\ \A w \in Writer : Working(w) =>
              /\ writer[w].at \in {"recorded", "stamped"}
              /\ writer[w].result \in Result /\ writer[w].result.number \in 1..MaxResults
              /\ writer[w].result.number <= recorded
              /\ writer[w].at = "stamped" => writer[w].video \in VideoId
         /\ \A e \in 1..Len(entries) :
              /\ entries[e] \in Entry /\ entries[e].id \in VideoId
              /\ entries[e].results \in Seq(Result)
              /\ \A i \in 1..Len(entries[e].results) :
                   /\ entries[e].results[i] \in Result
                   /\ entries[e].results[i].number \in 1..MaxResults
         /\ Loaded \in Seq(Entry)
         /\ \A e \in 1..Len(Loaded) :
              /\ Loaded[e] \in Entry /\ Loaded[e].id \in VideoId
              /\ Loaded[e].results \in Seq(Result)
              /\ \A i \in 1..Len(Loaded[e].results) :
                   /\ Loaded[e].results[i] \in Result
                   /\ Loaded[e].results[i].number \in 1..MaxResults
<1>1. /\ results \in Seq(Result) /\ writer \in [Writer -> Call] /\ entries \in Seq(Entry)
      /\ Loaded \in Seq(Entry)
  BY LoadedIsList DEF Agree, Shaped
<1>2. \A k \in 1..Len(results) :
        /\ results[k] \in Result /\ results[k].number \in 1..MaxResults
        /\ results[k].number <= recorded
  <2>1. \A k \in 1..Len(results) : results[k] \in Result BY <1>1
  <2> QED BY <2>1 DEF Result, Agree, NumbersFresh
<1>3. \A w \in Writer : Working(w) =>
        /\ writer[w].at \in {"recorded", "stamped"}
        /\ writer[w].result \in Result /\ writer[w].result.number \in 1..MaxResults
        /\ writer[w].result.number <= recorded
        /\ writer[w].at = "stamped" => writer[w].video \in VideoId
  BY <1>1, CallFacts DEF Working, Agree, NumbersFresh
<1>4. \A e \in 1..Len(entries) :
        /\ entries[e] \in Entry /\ entries[e].id \in VideoId
        /\ entries[e].results \in Seq(Result)
        /\ \A i \in 1..Len(entries[e].results) :
             entries[e].results[i] \in Result /\ entries[e].results[i].number \in 1..MaxResults
  BY <1>1, EntryFacts
<1>5. \A e \in 1..Len(Loaded) :
        /\ Loaded[e] \in Entry /\ Loaded[e].id \in VideoId
        /\ Loaded[e].results \in Seq(Result)
        /\ \A i \in 1..Len(Loaded[e].results) :
             Loaded[e].results[i] \in Result /\ Loaded[e].results[i].number \in 1..MaxResults
  BY <1>1, EntryFacts
<1> QED BY <1>1, <1>2, <1>3, <1>4, <1>5

(* A result gets its stamp: no video has it yet.                           *)
LEMMA GetsStampAgrees ==
  ASSUME Agree, NEW w \in Writer, Stamps(w)
  PROVE  Agree'
<1> DEFINE r == writer[w].result
           n == writer[w].result.number
<1>1. /\ Working(w) /\ writer[w].at = "recorded"
      /\ UNCHANGED <<recorded, results, runs, entries, history, videos, current, saving, file,
                     behind, clearing, crashes, astray>>
  BY DEF Stamps, Working, stationVars, videoVars, fileVars, boundVars
<1>2. /\ r \in Result /\ n \in 1..MaxResults /\ n <= recorded BY <1>1, StateFacts
<1>3. Loaded' = Loaded BY <1>1 DEF Loaded
<1>4. /\ writer \in [Writer -> Call] /\ stamp \in [1..MaxResults -> VideoId \cup {None}]
      /\ recorded \in Nat /\ current \in VideoId \cup {None}
      /\ stamp[n] = None
  BY <1>1 DEF Agree, Shaped, CallsApart
<1>5. MapIsRight' /\ FileIsList' BY <1>1, <1>3 DEF Agree, MapIsRight, FileIsList
<1>6. CASE current = None
  <2>1. stamp' = stamp /\ writer' = [writer EXCEPT ![w] = Idle] BY <1>6 DEF Stamps
  <2>2. /\ ~Working(w)'
        /\ \A x \in Writer : x # w => writer'[x] = writer[x] /\ (Working(x)' <=> Working(x))
    BY <1>4, <2>1 DEF Working
  <2>3. Shaped'
    <3>1. writer' \in [Writer -> Call] BY <1>4, <2>1 DEF Call
    <3> QED BY <1>1, <2>1, <3>1 DEF Agree, Shaped
  <2>4. NumbersFresh' BY <1>1, <1>3, <2>1, <2>2 DEF Agree, NumbersFresh, Without
  <2>5. CallsApart' BY <1>1, <1>3, <2>1, <2>2 DEF Agree, CallsApart, Without
  <2>6. OwnResults(entries)' /\ OwnResults(Loaded)'
    BY <1>1, <1>3, <2>1 DEF Agree, OwnResults
  <2>7. ResultsFound'
    <3>1. ASSUME clearing = 0, NEW k \in 1..Len(results),
                 \A x \in Writer : writer'[x] # Idle => writer'[x].result # results[k],
                 stamp[results[k].number] # None, results[k].number \notin astray
          PROVE  \E e \in 1..Len(entries) :
                   entries[e].id = stamp[results[k].number] /\ Lists(e, results[k])
      <4>1. results[k] # r BY <1>4, <3>1
      <4>2. Settled(results[k]) BY <2>2, <3>1, <4>1 DEF Settled, Working
      <4> QED BY <3>1, <4>2 DEF Agree, ResultsFound
    <3> QED BY <1>1, <2>1, <3>1 DEF ResultsFound, Settled, Lists
  <2> QED BY <1>5, <2>3, <2>4, <2>5, <2>6, <2>7 DEF Agree
<1>7. CASE current # None
  <2> DEFINE c == [at |-> "stamped", result |-> r, video |-> current]
  <2>1. stamp' = [stamp EXCEPT ![n] = current] /\ writer' = [writer EXCEPT ![w] = c]
    BY <1>7 DEF Stamps
  <2>2. c \in Call /\ c # Idle /\ c.at = "stamped" /\ c.result = r /\ c.video = current
    <3>1. c \in Call \ {Idle} BY <1>2, <1>4, <1>7, CallsMade
    <3> QED BY <3>1
  <2> HIDE DEF c
  <2>3. /\ writer'[w] = c /\ Working(w)'
        /\ \A x \in Writer : x # w => writer'[x] = writer[x] /\ (Working(x)' <=> Working(x))
    BY <1>4, <2>1, <2>2 DEF Working
  <2>4. stamp'[n] = current /\ \A m \in 1..MaxResults : m # n => stamp'[m] = stamp[m]
    BY <1>2, <1>4, <2>1
  <2>5. Shaped'
    <3>1. writer' \in [Writer -> Call] BY <1>4, <2>1, <2>2
    <3>2. stamp' \in [1..MaxResults -> VideoId \cup {None}] BY <1>4, <2>1
    <3> QED BY <1>1, <3>1, <3>2 DEF Agree, Shaped
  <2>6. NumbersFresh'
    <3>1. \A m \in 1..MaxResults : m > recorded =>
            stamp'[m] = None /\ Without(entries, m) /\ Without(Loaded, m)
      BY <1>2, <1>4, <2>4 DEF Agree, NumbersFresh
    <3>2. \A x \in Writer : Working(x)' => writer'[x].result.number <= recorded
      BY <1>2, <2>2, <2>3 DEF Agree, NumbersFresh
    <3> QED BY <1>1, <1>3, <3>1, <3>2 DEF Agree, NumbersFresh, Without
  <2>7. CallsApart'
    <3>1. \A x \in Writer : Working(x)' => writer'[x].result = writer[x].result /\ Working(x)
      BY <1>1, <2>2, <2>3
    <3>2. \A x \in Writer : Working(x)' =>
            stamp'[writer'[x].result.number] =
              IF writer'[x].at = "recorded" THEN None ELSE writer'[x].video
      <4>1. ASSUME NEW x \in Writer, Working(x)', x # w
            PROVE  /\ writer[x].result.number \in 1..MaxResults
                   /\ writer[x].result.number # n /\ writer'[x] = writer[x]
        BY <1>1, <2>3, <3>1, <4>1, StateFacts DEF Agree, CallsApart
      <4>2. ASSUME NEW x \in Writer, Working(x)', x # w
            PROVE  stamp'[writer'[x].result.number] =
                     IF writer'[x].at = "recorded" THEN None ELSE writer'[x].video
        BY <2>4, <3>1, <4>1, <4>2 DEF Agree, CallsApart
      <4> QED BY <2>2, <2>3, <2>4, <4>2
    <3> QED BY <1>1, <1>3, <3>1, <3>2 DEF Agree, CallsApart, Without
  <2>8. OwnResults(entries)' /\ OwnResults(Loaded)'
    <3>1. Without(entries, n) /\ Without(Loaded, n) BY <1>1 DEF Agree, CallsApart
    <3>2. ASSUME NEW e \in 1..Len(entries), NEW i \in 1..Len(entries[e].results)
          PROVE  stamp'[entries[e].results[i].number] = stamp[entries[e].results[i].number]
      BY <2>4, <3>1, StateFacts DEF Without
    <3>3. ASSUME NEW e \in 1..Len(Loaded), NEW i \in 1..Len(Loaded[e].results)
          PROVE  stamp'[Loaded[e].results[i].number] = stamp[Loaded[e].results[i].number]
      BY <2>4, <3>1, StateFacts DEF Without
    <3> QED BY <1>1, <1>3, <3>2, <3>3 DEF Agree, OwnResults
  <2>9. ResultsFound'
    <3>1. ASSUME clearing = 0, NEW k \in 1..Len(results),
                 \A x \in Writer : writer'[x] # Idle => writer'[x].result # results[k],
                 stamp'[results[k].number] # None, results[k].number \notin astray
          PROVE  \E e \in 1..Len(entries) :
                   entries[e].id = stamp'[results[k].number] /\ Lists(e, results[k])
      <4>1. results[k] # r BY <2>2, <2>3, <3>1
      <4>2. results[k].number # n BY <1>1, <4>1 DEF Agree, CallsApart
      <4>3. stamp'[results[k].number] = stamp[results[k].number]
        BY <2>4, <4>2, StateFacts
      <4>4. Settled(results[k]) BY <2>3, <3>1, <4>1 DEF Settled, Working
      <4> QED BY <3>1, <4>3, <4>4 DEF Agree, ResultsFound
    <3> QED BY <1>1, <3>1 DEF ResultsFound, Settled, Lists
  <2> QED BY <1>5, <2>5, <2>6, <2>7, <2>8, <2>9 DEF Agree
<1> QED BY <1>6, <1>7

LEMMA TargetIs ==
  ASSUME Agree, NEW v \in VideoId
  PROVE  /\ Target(v) \in 0..Len(entries)
         /\ videos[v] # 0 => Target(v) = videos[v] /\ entries[videos[v]].id = v
<1>1. videos \in [VideoId -> 0..Len(entries)] /\ current \in VideoId \cup {None}
  BY DEF Agree, Shaped
<1>2. CurrentTarget(v) \in 0..Len(entries)
  <2>1. CASE current = None
    <3>1. 0 \in 0..Len(entries)
      <4>1. entries \in Seq(Entry) BY DEF Agree, Shaped
      <4> QED BY <4>1
    <3> QED BY <2>1, <3>1 DEF CurrentTarget
  <2>2. CASE current # None BY <1>1, <2>2 DEF CurrentTarget
  <2> QED BY <2>1, <2>2
<1> QED BY <1>1, <1>2 DEF Target, Agree, MapIsRight

(* A result goes to the video of its stamp, or to another one when that is *)
(* gone.                                                                   *)
LEMMA AddsAgree ==
  ASSUME Agree, NEW w \in Writer, AddsToVideo(w)
  PROVE  Agree'
<1> DEFINE r == writer[w].result
           n == writer[w].result.number
           v == writer[w].video
           t == Target(v)
<1>1. /\ Working(w) /\ writer[w].at = "stamped" /\ ~saving
      /\ writer' = [writer EXCEPT ![w] = Idle]
      /\ entries' = IF t = 0 THEN entries ELSE [entries EXCEPT ![t].results = Append(@, r)]
      /\ astray' = IF videos[v] = 0 THEN astray \cup {n} ELSE astray
      /\ UNCHANGED <<recorded, results, runs, stamp, history, videos, current, saving, file,
                     behind, clearing, crashes>>
  BY DEF AddsToVideo, Working, stationVars, fileVars, boundVars
<1>2. r \in Result /\ n \in 1..MaxResults /\ n <= recorded /\ v \in VideoId
  BY <1>1, StateFacts
<1>3. Loaded' = Loaded BY <1>1 DEF Loaded
<1>4. /\ writer \in [Writer -> Call] /\ entries \in Seq(Entry) /\ recorded \in Nat
      /\ astray \subseteq 1..MaxResults /\ stamp[n] = v
  BY <1>1 DEF Agree, Shaped, CallsApart
<1>5. /\ t \in 0..Len(entries)
      /\ videos[v] # 0 => t # 0 /\ entries[t].id = v
  BY <1>2, TargetIs
<1> HIDE DEF t
<1>6. /\ entries' \in Seq(Entry) /\ Len(entries') = Len(entries)
      /\ \A e \in 1..Len(entries) :
           /\ entries'[e].id = entries[e].id /\ entries'[e].status = entries[e].status
           /\ e # t => entries'[e].results = entries[e].results
           /\ e = t => entries'[e].results = Append(entries[e].results, r)
  <2>1. CASE t = 0 BY <1>1, <1>4, <2>1
  <2>2. CASE t # 0
    <3> DEFINE new == [entries[t] EXCEPT !.results = Append(@, r)]
    <3>1. entries' = [entries EXCEPT ![t] = new] /\ t \in 1..Len(entries)
      BY <1>1, <1>4, <1>5, <2>2
    <3>2. /\ new \in Entry /\ new.id = entries[t].id /\ new.status = entries[t].status
          /\ new.results = Append(entries[t].results, r)
      <4>1. entries[t] \in Entry /\ entries[t].results \in Seq(Result) BY <3>1, StateFacts
      <4>2. Append(entries[t].results, r) \in Seq(Result) BY <1>2, <4>1
      <4> QED BY <4>1, <4>2 DEF Entry
    <3> HIDE DEF new
    <3>3. entries' \in Seq(Entry) /\ Len(entries') = Len(entries) BY <1>4, <3>1, <3>2
    <3>4. \A e \in 1..Len(entries) : entries'[e] = IF e = t THEN new ELSE entries[e]
      BY <1>4, <3>1
    <3> QED BY <3>2, <3>3, <3>4
  <2> QED BY <2>1, <2>2
<1>7. /\ \A e \in 1..Len(entries) : \A i \in 1..Len(entries[e].results) :
           i \in 1..Len(entries'[e].results) /\ entries'[e].results[i] = entries[e].results[i]
      /\ \A e \in 1..Len(entries) : \A i \in 1..Len(entries'[e].results) :
           \/ i \in 1..Len(entries[e].results) /\ entries'[e].results[i] = entries[e].results[i]
           \/ e = t /\ entries'[e].results[i] = r
      /\ t # 0 => \E i \in 1..Len(entries'[t].results) : entries'[t].results[i] = r
  <2>1. ASSUME NEW s \in Seq(Result)
        PROVE  /\ \A i \in 1..Len(s) : i \in 1..Len(Append(s, r)) /\ Append(s, r)[i] = s[i]
               /\ \A i \in 1..Len(Append(s, r)) :
                    \/ i \in 1..Len(s) /\ Append(s, r)[i] = s[i]
                    \/ Append(s, r)[i] = r
               /\ \E i \in 1..Len(Append(s, r)) : Append(s, r)[i] = r
    BY <1>2, <2>1
  <2>2. \A e \in 1..Len(entries) : entries[e].results \in Seq(Result) BY StateFacts
  <2>3. ASSUME NEW e \in 1..Len(entries)
        PROVE  /\ \A i \in 1..Len(entries[e].results) :
                    i \in 1..Len(entries'[e].results) /\ entries'[e].results[i] = entries[e].results[i]
               /\ \A i \in 1..Len(entries'[e].results) :
                    \/ i \in 1..Len(entries[e].results) /\ entries'[e].results[i] = entries[e].results[i]
                    \/ e = t /\ entries'[e].results[i] = r
               /\ e = t => \E i \in 1..Len(entries'[e].results) : entries'[e].results[i] = r
    <3>1. CASE e = t
      <4>1. entries'[e].results = Append(entries[e].results, r) BY <1>6, <3>1
      <4>2. entries[e].results \in Seq(Result) BY <2>2
      <4> QED BY <2>1, <3>1, <4>1, <4>2
    <3>2. CASE e # t BY <1>6, <3>2
    <3> QED BY <3>1, <3>2
  <2>4. t # 0 => t \in 1..Len(entries) BY <1>4, <1>5
  <2> QED BY <2>3, <2>4
<1>8. /\ ~Working(w)'
      /\ \A x \in Writer : x # w => writer'[x] = writer[x] /\ (Working(x)' <=> Working(x))
  BY <1>1, <1>4 DEF Working
<1>9. astray \subseteq astray' /\ (videos[v] = 0
    => n \in astray') /\ astray' \subseteq 1..MaxResults
  BY <1>1, <1>2, <1>4
<1>10. Shaped'
  <2>1. writer' \in [Writer -> Call] BY <1>1, <1>4 DEF Call
  <2> QED BY <1>1, <1>6, <1>9, <2>1 DEF Agree, Shaped
<1>11. ASSUME NEW m \in 1..MaxResults, m # n, Without(entries, m)
       PROVE  Without(entries', m)
  <2>1. ASSUME NEW e \in 1..Len(entries'), NEW i \in 1..Len(entries'[e].results)
        PROVE  entries'[e].results[i].number # m
    <3>1. e \in 1..Len(entries) BY <1>6
    <3>2. CASE entries'[e].results[i] = r BY <1>11, <3>2
    <3>3. CASE i \in 1..Len(entries[e].results) /\ entries'[e].results[i] = entries[e].results[i]
      BY <1>11, <3>1, <3>3 DEF Without
    <3> QED BY <1>7, <3>1, <3>2, <3>3
  <2> QED BY <2>1 DEF Without
<1>12. NumbersFresh'
  <2>1. \A m \in 1..MaxResults : m > recorded =>
          stamp[m] = None /\ Without(entries', m) /\ Without(Loaded, m)
    BY <1>2, <1>4, <1>11 DEF Agree, NumbersFresh
  <2>2. \A x \in Writer : Working(x)' => writer'[x].result.number <= recorded
    BY <1>8 DEF Agree, NumbersFresh
  <2> QED BY <1>1, <1>3, <2>1, <2>2 DEF Agree, NumbersFresh, Without
<1>13. CallsApart'
  <2>1. \A x \in Writer : Working(x)' => writer'[x] = writer[x] /\ Working(x) /\ x # w
    BY <1>8
  <2>2. ASSUME NEW x \in Writer, Working(x)' PROVE Without(entries', writer'[x].result.number)
    <3>1. writer[x].result.number \in 1..MaxResults /\ writer[x].result.number # n
      BY <1>1, <2>1, <2>2, StateFacts DEF Agree, CallsApart
    <3>2. Without(entries, writer[x].result.number) BY <2>1, <2>2 DEF Agree, CallsApart
    <3> QED BY <1>11, <2>1, <2>2, <3>1, <3>2
  <2>3. /\ \A x, y \in Writer : Working(x)' /\ Working(y)' /\ x # y =>
             writer'[x].result.number # writer'[y].result.number
        /\ \A x \in Writer : Working(x)' =>
             /\ \A k \in 1..Len(results) :
                  results[k].number = writer'[x].result.number => results[k] = writer'[x].result
             /\ Without(Loaded, writer'[x].result.number)
             /\ stamp[writer'[x].result.number] =
                  IF writer'[x].at = "recorded" THEN None ELSE writer'[x].video
    BY <2>1 DEF Agree, CallsApart
  <2> QED BY <1>1, <1>3, <2>2, <2>3 DEF CallsApart, Without
<1>14. OwnResults(entries)' /\ OwnResults(Loaded)'
  <2>1. ASSUME NEW e \in 1..Len(entries), NEW i \in 1..Len(entries'[e].results)
        PROVE  \/ stamp[entries'[e].results[i].number] = entries'[e].id
               \/ entries'[e].results[i].number \in astray'
    <3>1. CASE i \in 1..Len(entries[e].results) /\ entries'[e].results[i] = entries[e].results[i]
      BY <1>6, <1>9, <3>1 DEF Agree, OwnResults
    <3>2. CASE e = t /\ entries'[e].results[i] = r
      <4>1. CASE videos[v] = 0 BY <1>9, <3>2, <4>1
      <4>2. CASE videos[v] # 0 BY <1>4, <1>5, <1>6, <3>2, <4>2
      <4> QED BY <4>1, <4>2
    <3> QED BY <1>7, <3>1, <3>2
  <2> QED BY <1>1, <1>3, <1>6, <1>9, <2>1 DEF Agree, OwnResults
<1>15. ResultsFound'
  <2>1. ASSUME clearing = 0, NEW k \in 1..Len(results),
               \A x \in Writer : writer'[x] # Idle => writer'[x].result # results[k],
               stamp[results[k].number] # None,
               results[k].number \notin astray'
        PROVE  \E e \in 1..Len(entries') :
                 /\ entries'[e].id = stamp[results[k].number]
                 /\ \E i \in 1..Len(entries'[e].results) : entries'[e].results[i] = results[k]
    <3>1. CASE results[k] = r
      <4>1. videos[v] # 0 BY <1>9, <2>1, <3>1
      <4>2. t \in 1..Len(entries) /\ entries'[t].id = v BY <1>4, <1>5, <1>6, <4>1
      <4> QED BY <1>4, <1>6, <1>7, <3>1, <4>1, <4>2, <1>5
    <3>2. CASE results[k] # r
      <4>1. Settled(results[k]) BY <1>8, <2>1, <3>2 DEF Settled, Working
      <4>2. PICK e \in 1..Len(entries) :
              entries[e].id = stamp[results[k].number] /\ Lists(e, results[k])
        BY <1>9, <2>1, <4>1 DEF Agree, ResultsFound
      <4>3. PICK i \in 1..Len(entries[e].results) : entries[e].results[i] = results[k]
        BY <4>2 DEF Lists
      <4> QED BY <1>6, <1>7, <4>2, <4>3
    <3> QED BY <3>1, <3>2
  <2>2. ASSUME clearing' = 0, NEW k \in 1..Len(results'),
               \A x \in Writer : writer'[x] # Idle => writer'[x].result # results'[k],
               stamp'[results'[k].number] # None, results'[k].number \notin astray'
        PROVE  \E e \in 1..Len(entries') :
                 /\ entries'[e].id = stamp'[results'[k].number]
                 /\ \E i \in 1..Len(entries'[e].results) : entries'[e].results[i] = results'[k]
    <3>1. clearing = 0 /\ results' = results /\ stamp' = stamp BY <1>1, <2>2
    <3> QED BY <2>1, <2>2, <3>1
  <2> QED BY <2>2 DEF ResultsFound, Settled, Lists
<1>16. MapIsRight'
  <2>1. \A x \in VideoId : videos[x] # 0 => videos[x] \in 1..Len(entries)
    BY <1>4 DEF Agree, Shaped
  <2> QED BY <1>1, <1>6, <2>1 DEF Agree, MapIsRight
<1>17. FileIsList'
  <2>1. ASSUME ~behind
        PROVE  /\ Len(Loaded) = Len(history)
               /\ \A i \in 1..Len(history) :
                    /\ Loaded[i].id = entries'[history[i]].id
                    /\ Loaded[i].status = entries'[history[i]].status
                    /\ IsPrefix(Loaded[i].results, entries'[history[i]].results)
    <3>1. Len(Loaded) = Len(history) /\ Loaded \in Seq(Entry) /\ history \in Seq(1..Len(entries))
      BY <1>1, <2>1, LoadedIsList DEF Agree, FileIsList, Shaped
    <3>2. ASSUME NEW i \in 1..Len(history)
          PROVE  /\ Loaded[i].id = entries'[history[i]].id
                 /\ Loaded[i].status = entries'[history[i]].status
                 /\ IsPrefix(Loaded[i].results, entries'[history[i]].results)
      <4> DEFINE e == history[i]
                 a == Loaded[i].results
                 b == entries[e].results
                 c == entries'[e].results
      <4>1. e \in 1..Len(entries) BY <3>1
      <4>2. a \in Seq(Result) BY <3>1, EntryFacts
      <4>3. b \in Seq(Result) /\ c \in Seq(Result)
        <5>1. e \in 1..Len(entries') BY <1>6, <4>1
        <5>2. b \in Seq(Result) BY <1>4, <4>1, EntryFacts
        <5> HIDE DEF e
        <5>3. entries'[e].results \in Seq(Result) BY <1>6, <5>1, EntryFacts
        <5> QED BY <5>2, <5>3
      <4>4. /\ Loaded[i].id = entries[e].id /\ Loaded[i].status = entries[e].status
            /\ IsPrefix(a, b)
        BY <1>1, <2>1 DEF Agree, FileIsList
      <4>5. \A j \in 1..Len(b) : j \in 1..Len(c) /\ c[j] = b[j] BY <1>7, <4>1
      <4> HIDE DEF e, a, b, c
      <4>6. Len(a) <= Len(b) /\ \A j \in 1..Len(a) : a[j] = b[j]
        BY <4>2, <4>3, <4>4, PrefixMeans
      <4>7. Len(b) <= Len(c)
        <5>1. Len(b) \in Nat /\ Len(c) \in Nat BY <4>3
        <5>2. CASE Len(b) = 0 BY <5>1, <5>2
        <5>3. CASE Len(b) # 0
          <6>1. Len(b) \in 1..Len(b) BY <5>1, <5>3
          <6> QED BY <4>5, <5>1, <6>1
        <5> QED BY <5>2, <5>3
      <4>8. Len(a) <= Len(c) /\ \A j \in 1..Len(a) : a[j] = c[j]
        BY <4>2, <4>3, <4>5, <4>6, <4>7
      <4>9. IsPrefix(a, c) BY <4>2, <4>3, <4>8, PrefixMeans
      <4> QED BY <1>6, <4>1, <4>4, <4>9 DEF e, a, c
    <3> QED BY <3>1, <3>2
  <2> QED BY <1>1, <1>3, <2>1 DEF FileIsList
<1> QED BY <1>10, <1>12, <1>13, <1>14, <1>15, <1>16, <1>17 DEF Agree

---------------------------------------------------------------------------
(* The steps of the history.                                               *)
LEMMA SavedFacts ==
  ASSUME Agree
  PROVE  /\ SavedList \in Seq(Entry) /\ Len(SavedList) = Len(history)
         /\ \A i \in 1..Len(history) :
              history[i] \in 1..Len(entries) /\ SavedList[i] = entries[history[i]]
<1>1. /\ entries \in Seq(Entry) /\ history \in Seq(1..Len(entries))
  BY DEF Agree, Shaped
<1>2. \A i \in 1..Len(history) : history[i] \in 1..Len(entries) BY <1>1
<1>3. \A i \in 1..Len(history) : entries[history[i]] \in Entry BY <1>1, <1>2
<1>4. Len(history) \in Nat BY <1>1
<1> DEFINE f == [i \in 1..Len(history) |-> entries[history[i]]]
<1>5. f \in Seq(Entry) /\ Len(f) = Len(history) BY <1>3, <1>4
<1> QED BY <1>2, <1>5 DEF SavedList

(* A save ends: the file holds the list, or nothing.                       *)
LEMMA EndsSavingAgrees ==
  ASSUME Agree, EndsSaving
  PROVE  Agree'
<1>1. /\ saving' = FALSE /\ (file' = SavedList \/ (file' = Lost /\ behind' = TRUE))
      /\ UNCHANGED <<recorded, results, runs, stamp, entries, history, videos, current, writer,
                     clearing, crashes, astray>>
  BY DEF EndsSaving, FileFails, stationVars, videoVars
<1>2. /\ SavedList \in Seq(Entry) /\ Len(SavedList) = Len(history)
      /\ \A i \in 1..Len(history) :
           history[i] \in 1..Len(entries) /\ SavedList[i] = entries[history[i]]
  BY SavedFacts
<1>3. Loaded' \in {SavedList, <<>>} /\ (~behind' => Loaded' = SavedList)
  <2>1. CASE file' = Lost BY <1>1, <1>2, <2>1, LostAssumption DEF Loaded
  <2>2. CASE file' # Lost BY <1>1, <2>2 DEF Loaded
  <2> QED BY <2>1, <2>2
<1>4. \A n : Without(entries, n) => Without(SavedList, n) /\ Without(<<>>, n)
  BY <1>2 DEF Without
<1>5. \A n : Without(entries, n) => Without(Loaded', n) BY <1>3, <1>4
<1>6. Shaped' BY <1>1, <1>2 DEF Agree, Shaped
<1>7. NumbersFresh'
  <2>1. \A n \in 1..MaxResults : n > recorded =>
          stamp[n] = None /\ Without(entries, n) /\ Without(Loaded', n)
    BY <1>5 DEF Agree, NumbersFresh
  <2> QED BY <1>1, <2>1 DEF Agree, NumbersFresh, Without, Working
<1>8. CallsApart'
  <2>1. \A w \in Writer : Working(w) => Without(Loaded', writer[w].result.number)
    BY <1>5 DEF Agree, CallsApart
  <2> QED BY <1>1, <2>1 DEF Agree, CallsApart, Without, Working
<1>9. OwnResults(entries)' BY <1>1 DEF Agree, OwnResults
<1>10. OwnResults(Loaded)'
  <2>1. OwnResults(SavedList) /\ OwnResults(<<>>) BY <1>2 DEF Agree, OwnResults
  <2>2. OwnResults(Loaded') BY <1>3, <2>1
  <2> QED BY <1>1, <2>2 DEF OwnResults
<1>11. MapIsRight' /\ ResultsFound'
  BY <1>1 DEF Agree, MapIsRight, ResultsFound, Settled, Lists
<1>12. FileIsList'
  <2>1. \A i \in 1..Len(history) :
          IsPrefix(entries[history[i]].results, entries[history[i]].results)
    BY <1>2, StateFacts, PrefixMeans
  <2> QED BY <1>1, <1>2, <1>3, <2>1 DEF FileIsList
<1> QED BY <1>6, <1>7, <1>8, <1>9, <1>10, <1>11, <1>12 DEF Agree

(* A save begins, and until it ends there is nothing in the file; or it    *)
(* fails at once, and leaves the file behind.  The results of the videos   *)
(* are where they were, a video may be new.                                *)
LEMMA BeginsSavingAgrees ==
  ASSUME Agree, BeginsSaving, Shaped', MapIsRight',
         UNCHANGED <<recorded, results, stamp, writer, clearing, astray>>,
         Len(entries) <= Len(entries'),
         \A e \in 1..Len(entries) :
           entries'[e].id = entries[e].id /\ entries'[e].results = entries[e].results,
         \A e \in 1..Len(entries') : e \in 1..Len(entries) \/ entries'[e].results = <<>>
  PROVE  Agree'
<1>1. /\ saving' = TRUE \/ behind' = TRUE
      /\ Loaded' = <<>> \/ Loaded' = Loaded
  BY DEF BeginsSaving, FileFails, Loaded
<1>2. \A n : Without(entries, n) => Without(entries', n) BY DEF Without
<1>3. \A n : Without(Loaded, n) => Without(Loaded', n) BY <1>1 DEF Without
<1>4. NumbersFresh'
  <2>1. \A n \in 1..MaxResults : n > recorded =>
          stamp[n] = None /\ Without(entries', n) /\ Without(Loaded', n)
    BY <1>2, <1>3 DEF Agree, NumbersFresh
  <2> QED BY <2>1 DEF Agree, NumbersFresh, Without, Working
<1>5. CallsApart'
  <2>1. \A w \in Writer : Working(w) =>
          Without(entries', writer[w].result.number) /\ Without(Loaded', writer[w].result.number)
    BY <1>2, <1>3 DEF Agree, CallsApart
  <2> QED BY <2>1 DEF Agree, CallsApart, Without, Working
<1>6. OwnResults(entries)' BY DEF Agree, OwnResults
<1>7. OwnResults(Loaded)'
  <2>1. CASE Loaded' = <<>> BY <2>1 DEF OwnResults
  <2>2. CASE Loaded' = Loaded BY <2>2 DEF Agree, OwnResults
  <2> QED BY <1>1, <2>1, <2>2
<1>8. ResultsFound'
  <2> SUFFICES ASSUME clearing' = 0, NEW k \in 1..Len(results'),
                      \A x \in Writer : writer'[x] # Idle => writer'[x].result # results'[k],
                      stamp'[results'[k].number] # None, results'[k].number \notin astray'
               PROVE  \E e \in 1..Len(entries') :
                        /\ entries'[e].id = stamp'[results'[k].number]
                        /\ \E i \in 1..Len(entries'[e].results) : entries'[e].results[i] = results'[k]
    BY DEF ResultsFound, Settled, Lists
  <2>1. Settled(results[k]) BY DEF Settled
  <2>2. PICK e \in 1..Len(entries) :
          entries[e].id = stamp[results[k].number] /\ Lists(e, results[k])
    BY <2>1 DEF Agree, ResultsFound
  <2>3. e \in 1..Len(entries')
    <3>1. entries \in Seq(Entry) /\ entries' \in Seq(Entry) BY DEF Agree, Shaped
    <3> QED BY <3>1
  <2> QED BY <2>2, <2>3 DEF Lists
<1>9. FileIsList' BY <1>1 DEF FileIsList
<1> QED BY <1>4, <1>5, <1>6, <1>7, <1>8, <1>9 DEF Agree

LEMMA SaveShaped ==
  ASSUME Shaped, BeginsSaving
  PROVE  saving' \in BOOLEAN /\ (file' = Lost \/ file' \in Seq(Entry))
BY DEF Shaped, BeginsSaving

LEMMA StartsAgrees ==
  ASSUME Agree, NEW v \in VideoId, StartsVideo(v)
  PROVE  Agree'
<1> DEFINE new == [id |-> v, status |-> "processing", results |-> <<>>]
<1>1. /\ entries' = Append(entries, new) /\ BeginsSaving /\ current' = v
      /\ history' = Pushed(Len(entries'), history, MaxHistory)
      /\ videos' = [videos EXCEPT ![v] = Len(entries')]
      /\ UNCHANGED <<recorded, results, runs, stamp, writer, clearing, crashes, astray>>
  BY DEF StartsVideo, stationVars
<1>2. /\ entries \in Seq(Entry) /\ history \in Seq(1..Len(entries))
      /\ videos \in [VideoId -> 0..Len(entries)]
  BY DEF Agree, Shaped
<1>3. new \in Entry /\ new.id = v /\ new.results = <<>>
  <2>1. <<>> \in Seq(Result) OBVIOUS
  <2> QED BY <2>1 DEF Entry
<1> HIDE DEF new
<1>4. /\ entries' \in Seq(Entry) /\ Len(entries') = Len(entries) + 1
      /\ \A e \in 1..Len(entries) : entries'[e] = entries[e]
      /\ entries'[Len(entries) + 1] = new
  BY <1>1, <1>2, <1>3
<1>5. Len(entries) \in Nat /\ Len(entries') \in 1..Len(entries') BY <1>2, <1>4
<1>6. history' \in Seq(1..Len(entries'))
  <2>1. history \in Seq(1..Len(entries'))
    <3>1. \A i \in 1..Len(history) : history[i] \in 1..Len(entries') BY <1>2, <1>4, <1>5
    <3> QED BY <1>2, <3>1
  <2>2. MaxHistory \in Nat \ {0} BY ResultsAssumption
  <2> DEFINE n == Len(entries')
  <2>3. n \in 1..n /\ history \in Seq(1..n) BY <1>5, <2>1
  <2> HIDE DEF n
  <2>4. Pushed(n, history, MaxHistory) \in Seq(1..n) BY <2>2, <2>3, PushedEffect
  <2> QED BY <1>1, <2>4 DEF n
<1>7. /\ videos' \in [VideoId -> 0..Len(entries')] /\ videos'[v] = Len(entries) + 1
      /\ \A x \in VideoId : x # v => videos'[x] = videos[x] /\ videos[x] \in 0..Len(entries)
  BY <1>1, <1>2, <1>4, <1>5
<1>8. Shaped'
  <2>1. saving' \in BOOLEAN /\ (file' = Lost \/ file' \in Seq(Entry))
    BY <1>1, SaveShaped DEF Agree
  <2> QED BY <1>1, <1>4, <1>6, <1>7, <2>1 DEF Agree, Shaped
<1>9. MapIsRight'
  <2>1. ASSUME NEW x \in VideoId, videos'[x] # 0 PROVE entries'[videos'[x]].id = x
    <3>1. CASE x = v BY <1>3, <1>4, <1>7, <3>1
    <3>2. CASE x # v
      <4>1. videos'[x] = videos[x] /\ videos[x] \in 1..Len(entries) BY <1>5, <1>7, <2>1, <3>2
      <4> QED BY <1>4, <2>1, <4>1 DEF Agree, MapIsRight
    <3> QED BY <3>1, <3>2
  <2> QED BY <2>1 DEF MapIsRight
<1>10. \A e \in 1..Len(entries') : e \in 1..Len(entries) \/ entries'[e].results = <<>>
  BY <1>3, <1>4, <1>5
<1>11. Len(entries) <= Len(entries') BY <1>4, <1>5
<1>12. \A e \in 1..Len(entries) :
         entries'[e].id = entries[e].id /\ entries'[e].results = entries[e].results
  BY <1>4
<1>13. BeginsSaving /\ UNCHANGED <<recorded, results, stamp, writer, clearing, astray>>
  BY <1>1
<1> QED BY <1>8, <1>9, <1>10, <1>11, <1>12, <1>13, BeginsSavingAgrees

LEMMA MarksAgrees ==
  ASSUME Agree, NEW e \in 0..Len(entries), NEW status \in {"completed", "failed"},
         Marks(e, status)
  PROVE  Agree'
<1> DEFINE new == [entries[e] EXCEPT !.status = status]
<1>1. /\ entries' = [entries EXCEPT ![e] = new] /\ BeginsSaving /\ e # 0
      /\ UNCHANGED <<recorded, results, runs, stamp, history, videos, current, writer, clearing,
                     crashes, astray>>
  BY DEF Marks, stationVars
<1>2. /\ entries \in Seq(Entry) /\ history \in Seq(1..Len(entries))
      /\ videos \in [VideoId -> 0..Len(entries)]
  BY DEF Agree, Shaped
<1>3. e \in 1..Len(entries) BY <1>1, <1>2
<1>4. new \in Entry /\ new.id = entries[e].id /\ new.results = entries[e].results
  <2>1. entries[e] \in Entry BY <1>2, <1>3
  <2> QED BY <2>1 DEF Entry
<1> HIDE DEF new
<1>5. /\ entries' \in Seq(Entry) /\ Len(entries') = Len(entries)
      /\ \A x \in 1..Len(entries) :
           entries'[x].id = entries[x].id /\ entries'[x].results = entries[x].results
  BY <1>1, <1>2, <1>3, <1>4
<1>6. Shaped'
  <2>1. saving' \in BOOLEAN /\ (file' = Lost \/ file' \in Seq(Entry))
    BY <1>1, SaveShaped DEF Agree
  <2> QED BY <1>1, <1>5, <2>1 DEF Agree, Shaped
<1>7. MapIsRight'
  <2>1. \A x \in VideoId : videos[x] # 0 => videos[x] \in 1..Len(entries) BY <1>2
  <2> QED BY <1>1, <1>5, <2>1 DEF Agree, MapIsRight
<1>8. BeginsSaving /\ UNCHANGED <<recorded, results, stamp, writer, clearing, astray>>
  BY <1>1
<1>9. Len(entries) <= Len(entries') BY <1>2, <1>5
<1>10. \A x \in 1..Len(entries') : x \in 1..Len(entries) \/ entries'[x].results = <<>> BY <1>5
<1> QED BY <1>5, <1>6, <1>7, <1>8, <1>9, <1>10, BeginsSavingAgrees

(* A video is marked: the one named, or the current one.                   *)
LEMMA MarksVideoAgrees ==
  ASSUME Agree, NEW v \in VideoId, MarksVideo(v)
  PROVE  Agree'
<1>1. Target(v) \in 0..Len(entries) BY TargetIs
<1>2. videos[v] \in 0..Len(entries) BY DEF Agree, Shaped
<1> QED BY <1>1, <1>2, MarksAgrees DEF MarksVideo, Completes, Fails

---------------------------------------------------------------------------
(* The two halves of a clear.                                              *)
LEMMA ClearsHistoryAgrees ==
  ASSUME Agree, ClearsHistory
  PROVE  Agree'
<1>1. /\ entries' = <<>> /\ history' = <<>> /\ videos' = [v \in VideoId |-> 0] /\ current' = None
      /\ file' = Lost \/ (file' = file /\ behind' = TRUE)
      /\ clearing' = clearing + 1
      /\ UNCHANGED <<recorded, results, runs, stamp, saving, writer, crashes, astray>>
  BY DEF ClearsHistory, HistoryCleared, FileFails
<1>2. Loaded' = <<>> \/ (Loaded' = Loaded /\ behind' = TRUE) BY <1>1 DEF Loaded
<1>3. /\ \A n : Without(<<>>, n)
      /\ \A n : Without(Loaded, n) => Without(Loaded', n)
  BY <1>2 DEF Without
<1>4. Shaped'
  <2>1. \A S : <<>> \in Seq(S) OBVIOUS
  <2>2. Len(entries') = 0 BY <1>1
  <2>3. videos' \in [VideoId -> 0..Len(entries')] /\ clearing' \in Nat
    BY <1>1, <2>2 DEF Agree, Shaped
  <2> QED BY <1>1, <2>1, <2>3 DEF Agree, Shaped
<1>5. NumbersFresh'
  <2>1. \A n \in 1..MaxResults : n > recorded =>
          stamp[n] = None /\ Without(entries', n) /\ Without(Loaded', n)
    BY <1>1, <1>3 DEF Agree, NumbersFresh
  <2> QED BY <1>1, <2>1 DEF Agree, NumbersFresh, Without, Working
<1>6. CallsApart'
  <2>1. \A w \in Writer : Working(w) =>
          Without(entries', writer[w].result.number) /\ Without(Loaded', writer[w].result.number)
    BY <1>1, <1>3 DEF Agree, CallsApart
  <2> QED BY <1>1, <2>1 DEF Agree, CallsApart, Without, Working
<1>7. OwnResults(entries)' /\ OwnResults(Loaded)' /\ MapIsRight' /\ FileIsList'
  <2>1. OwnResults(Loaded)'
    <3>1. CASE Loaded' = <<>> BY <3>1 DEF OwnResults
    <3>2. CASE Loaded' = Loaded BY <1>1, <3>2 DEF Agree, OwnResults
    <3> QED BY <1>2, <3>1, <3>2
  <2>2. FileIsList'
    <3>1. CASE Loaded' = <<>> BY <1>1, <3>1 DEF FileIsList
    <3>2. CASE behind' = TRUE BY <3>2 DEF FileIsList
    <3> QED BY <1>2, <3>1, <3>2
  <2> QED BY <1>1, <2>1, <2>2 DEF OwnResults, MapIsRight
<1>8. ResultsFound'
  <2>1. clearing' # 0 BY <1>1 DEF Agree, Shaped
  <2> QED BY <2>1 DEF ResultsFound
<1> QED BY <1>4, <1>5, <1>6, <1>7, <1>8 DEF Agree

LEMMA ClearsResultsAgrees ==
  ASSUME Agree, ClearsResults
  PROVE  Agree'
<1>1. /\ results' = <<>> /\ clearing > 0 /\ clearing' = clearing - 1
      /\ UNCHANGED <<recorded, runs, stamp, entries, history, videos, current, saving, file,
                     behind, writer, crashes, astray>>
  BY DEF ClearsResults, videoVars, fileVars, boundVars
<1>2. Loaded' = Loaded BY <1>1 DEF Loaded
<1>3. Shaped'
  <2>1. clearing' \in Nat BY <1>1 DEF Agree, Shaped
  <2> QED BY <1>1, <2>1 DEF Agree, Shaped
<1>4. NumbersFresh' /\ CallsApart'
  BY <1>1, <1>2 DEF Agree, NumbersFresh, CallsApart, Working, Without
<1>5. OwnResults(entries)' /\ OwnResults(Loaded)' /\ MapIsRight' /\ FileIsList' /\ ResultsFound'
  BY <1>1, <1>2 DEF Agree, OwnResults, MapIsRight, FileIsList, ResultsFound
<1> QED BY <1>3, <1>4, <1>5 DEF Agree

(* A set of positions that is not empty has a first and a last one.        *)
LEMMA FirstIs ==
  ASSUME NEW n \in Nat, NEW S \in SUBSET (1..n), S # {}
  PROVE  \E i \in S : \A j \in S : i <= j
<1>1. S \subseteq Nat OBVIOUS
<1>2. PICK i \in S : \A j \in S : <<j, i>> \notin OpToRel(<, Nat)
  BY <1>1, NatLessThanWellFounded, WFMin
<1>3. \A j \in S : ~(j < i) BY <1>1, <1>2 DEF OpToRel
<1> QED BY <1>1, <1>3

LEMMA LastIs ==
  ASSUME NEW n \in Nat, NEW S \in SUBSET (1..n), S # {}
  PROVE  \E i \in S : \A j \in S : j <= i
<1> DEFINE T == {n + 1 - i : i \in S}
<1>1. T \in SUBSET (1..n)
  <2>1. ASSUME NEW i \in S PROVE n + 1 - i \in 1..n OBVIOUS
  <2> QED BY <2>1
<1>2. T # {} OBVIOUS
<1> HIDE DEF T
<1>3. PICK k \in T : \A j \in T : k <= j BY <1>1, <1>2, FirstIs
<1>4. PICK i \in S : k = n + 1 - i BY <1>3 DEF T
<1>5. ASSUME NEW j \in S PROVE j <= i
  <2>1. n + 1 - j \in T BY DEF T
  <2>2. n + 1 - i <= n + 1 - j BY <1>3, <1>4, <2>1
  <2> QED BY <2>2
<1> QED BY <1>5

(* The map a restart makes names an entry of the id, if there is one.      *)
LEMMA LastWithIs ==
  ASSUME NEW s \in Seq(Entry), NEW v
  PROVE  /\ LastWith(v, s) \in 0..Len(s)
         /\ LastWith(v, s) # 0 => s[LastWith(v, s)].id = v
<1> DEFINE at == {i \in 1..Len(s) : s[i].id = v}
<1>1. Len(s) \in Nat OBVIOUS
<1>2. CASE at = {} BY <1>1, <1>2 DEF LastWith
<1>3. CASE at # {}
  <2>1. at \in SUBSET (1..Len(s)) OBVIOUS
  <2> DEFINE l == CHOOSE i \in at : \A j \in at : j <= i
  <2>2. LastWith(v, s) = l BY <1>3 DEF LastWith
  <2>3. l \in at
    <3> HIDE DEF at
    <3>1. \E i \in at : \A j \in at : j <= i BY <1>1, <1>3, <2>1, LastIs
    <3> QED BY <3>1
  <2>4. \A x \in at : x \in 0..Len(s) /\ s[x].id = v BY <1>1
  <2> HIDE DEF at, l
  <2> QED BY <2>2, <2>3, <2>4
<1> QED BY <1>2, <1>3

(* A restart makes the history from the file: no result is left in memory, *)
(* and no call.                                                            *)
LEMMA RestartsAgree ==
  ASSUME Agree, Restarts
  PROVE  Agree'
<1>1. /\ crashes' = crashes + 1 /\ results' = <<>> /\ runs' = [o \in Order |-> 0]
      /\ entries' = Loaded /\ history' = [i \in 1..Len(Loaded) |-> i]
      /\ videos' = [v \in VideoId |-> LastWith(v, Loaded)] /\ current' = None
      /\ saving' = FALSE /\ clearing' = 0 /\ writer' = [w \in Writer |-> Idle]
      /\ UNCHANGED <<recorded, stamp, file, astray>>
  BY DEF Restarts
<1>2. Loaded' = Loaded BY <1>1 DEF Loaded
<1>3. Loaded \in Seq(Entry) /\ Len(Loaded) \in Nat BY StateFacts
<1>4. \A v \in VideoId : /\ LastWith(v, Loaded) \in 0..Len(Loaded)
                         /\ LastWith(v, Loaded) # 0 => Loaded[LastWith(v, Loaded)].id = v
  BY <1>3, LastWithIs
<1>5. \A w \in Writer : ~Working(w)' BY <1>1 DEF Working
<1>6. Shaped'
  <2> DEFINE n == Len(Loaded)
  <2>1. [i \in 1..n |-> i] \in Seq(1..n) BY <1>3
  <2>2. videos' \in [VideoId -> 0..Len(entries')] BY <1>1, <1>4
  <2>3. writer' \in [Writer -> Call] BY <1>1 DEF Call
  <2>4. runs' \in [Order -> 0..recorded'] BY <1>1 DEF Agree, Shaped
  <2>5. results' \in Seq(Result) BY <1>1
  <2>6. crashes' \in Nat /\ clearing' \in Nat BY <1>1 DEF Agree, Shaped
  <2> QED BY <1>1, <1>3, <2>1, <2>2, <2>3, <2>4, <2>5, <2>6 DEF Agree, Shaped
<1>7. NumbersFresh'
  <2>1. \A n \in 1..MaxResults : n > recorded' =>
          stamp'[n] = None /\ Without(entries', n) /\ Without(Loaded', n)
    BY <1>1, <1>2 DEF Agree, NumbersFresh
  <2> QED BY <1>1, <1>5, <2>1 DEF NumbersFresh, Without
<1>8. CallsApart' BY <1>5 DEF CallsApart
<1>9. OwnResults(entries)' /\ OwnResults(Loaded)' BY <1>1, <1>2 DEF Agree, OwnResults
<1>10. MapIsRight' BY <1>1, <1>4 DEF MapIsRight
<1>11. ResultsFound' BY <1>1 DEF ResultsFound
<1>12. FileIsList'
  <2>1. Len(history') = Len(Loaded) /\ \A i \in 1..Len(Loaded) : history'[i] = i
    BY <1>1, <1>3
  <2>2. \A i \in 1..Len(Loaded) : IsPrefix(Loaded[i].results, Loaded[i].results)
    BY StateFacts, PrefixMeans
  <2> QED BY <1>1, <1>2, <2>1, <2>2 DEF FileIsList
<1> QED BY <1>6, <1>7, <1>8, <1>9, <1>10, <1>11, <1>12 DEF Agree

---------------------------------------------------------------------------
LEMMA AgreeStep == Agree /\ [Next]_vars => Agree'
<1> SUFFICES ASSUME Agree, [Next]_vars PROVE Agree' OBVIOUS
<1>1. CASE UNCHANGED vars
  <2>1. UNCHANGED <<recorded, results, runs, stamp, entries, history, videos, current, saving,
                    file, behind, writer, clearing, crashes, astray>>
    BY <1>1 DEF vars, stationVars, videoVars, fileVars, boundVars
  <2>2. Loaded' = Loaded BY <2>1 DEF Loaded
  <2>3. Shaped' BY <2>1 DEF Agree, Shaped
  <2>4. NumbersFresh' /\ CallsApart'
    BY <2>1, <2>2 DEF Agree, NumbersFresh, CallsApart, Working, Without
  <2>5. /\ OwnResults(entries)' /\ OwnResults(Loaded)' /\ MapIsRight' /\ FileIsList'
        /\ ResultsFound'
    BY <2>1, <2>2 DEF Agree, OwnResults, MapIsRight, FileIsList, ResultsFound, Settled, Lists
  <2> QED BY <2>3, <2>4, <2>5 DEF Agree
<1>2. ASSUME NEW w \in Writer, AddsResult(w) PROVE Agree'
  BY <1>2, RecordsAgree, GetsStampAgrees, AddsAgree DEF AddsResult
<1>3. ASSUME NEW v \in VideoId, Uploads(v) \/ RunsVideo(v) \/ MarksVideo(v) PROVE Agree'
  BY <1>3, StartsAgrees, MarksVideoAgrees DEF Uploads, RunsVideo
<1> QED BY <1>1, <1>2, <1>3, EndsSavingAgrees, ClearsHistoryAgrees, ClearsResultsAgrees,
           RestartsAgree
        DEF Next, Deletes

(* The recall of an order finds the video that has a result of it, or a    *)
(* newer one: what it returns is the first position of the list with one.  *)
LEMMA RecallFinds ==
  ASSUME Agree, NEW i \in 1..Len(history), NEW o, Detected(history[i], o)
  PROVE  Recalled(o) \in 1..i
<1> DEFINE at == {j \in 1..Len(history) : Detected(history[j], o)}
           f  == CHOOSE j \in at : \A k \in at : j <= k
<1>1. Len(history) \in Nat BY DEF Agree, Shaped
<1>2. i \in at OBVIOUS
<1>3. Recalled(o) = f BY <1>2 DEF Recalled
<1>4. at \in SUBSET (1..Len(history)) OBVIOUS
<1> HIDE DEF at
<1>5. \E j \in at : \A k \in at : j <= k BY <1>1, <1>2, <1>4, FirstIs
<1>6. f \in at /\ \A k \in at : f <= k BY <1>5
<1> HIDE DEF f
<1> QED BY <1>1, <1>2, <1>3, <1>4, <1>6

(* What a station keeps and what the history keeps agree, with any number  *)
(* of calls in progress, videos started and dropped, clears and restarts.  *)
THEOREM RegistriesAgree == Spec => []StampsAgree
<1>1. Agree => StampsAgree
  <2> SUFFICES ASSUME Agree PROVE StampsAgree OBVIOUS
  <2>1. ASSUME NEW e \in 1..Len(entries), NEW i \in 1..MaxResults, i <= Len(entries[e].results)
        PROVE  \/ stamp[entries[e].results[i].number] = entries[e].id
               \/ entries[e].results[i].number \in astray
    <3>1. i \in 1..Len(entries[e].results)
      <4>1. entries[e].results \in Seq(Result) BY StateFacts
      <4> QED BY <2>1, <4>1
    <3> QED BY <3>1 DEF Agree, OwnResults
  <2>2. ASSUME clearing = 0, NEW k \in 1..Len(results), stamp[results[k].number] # None,
               Settled(results[k]), results[k].number \notin astray
        PROVE  \E e \in 1..Len(entries) :
                 /\ entries[e].id = stamp[results[k].number] /\ Lists(e, results[k])
                 /\ \A i \in 1..Len(history) : history[i] = e
                     => Recalled(results[k].order) \in 1..i
    <3>1. PICK e \in 1..Len(entries) :
            entries[e].id = stamp[results[k].number] /\ Lists(e, results[k])
      BY <2>2 DEF Agree, ResultsFound
    <3>2. Detected(e, results[k].order) BY <3>1 DEF Lists, Detected
    <3>3. \A i \in 1..Len(history) : history[i] = e => Recalled(results[k].order) \in 1..i
      BY <3>2, RecallFinds
    <3> QED BY <3>1, <3>3
  <2> QED BY <2>1, <2>2 DEF StampsAgree
<1> QED BY <1>1, AgreeInit, AgreeStep, PTL DEF Spec

(* A restart with no save half done, and whose process wrote or deleted    *)
(* the file at its last attempt, shows the videos of before: whatever was  *)
(* added to a video since is what it may lack.                             *)
THEOREM VideosSurviveRestarts == Spec => RestartKeepsVideos
<1> DEFINE VideosKept == crashes' # crashes /\ ~saving /\ ~behind =>
              /\ Len(history') = Len(history)
              /\ \A i \in 1..Len(history) :
                   LET old == entries[history[i]]
                       new == entries'[history'[i]] IN
                   /\ new.id = old.id /\ new.status = old.status
                   /\ IsPrefix(new.results, old.results)
<1>1. Agree /\ [Next]_vars => [VideosKept]_vars
  <2> SUFFICES ASSUME Agree, Next, crashes' # crashes, ~saving, ~behind
               PROVE  /\ Len(history') = Len(history)
                      /\ \A i \in 1..Len(history) :
                           /\ entries'[history'[i]].id = entries[history[i]].id
                           /\ entries'[history'[i]].status = entries[history[i]].status
                           /\ IsPrefix(entries'[history'[i]].results, entries[history[i]].results)
    OBVIOUS
  <2>1. Restarts
    BY DEF Next, AddsResult, Records, Stamps, AddsToVideo, Uploads, RunsVideo, StartsVideo,
           MarksVideo, Completes, Fails, Marks, EndsSaving, Deletes, ClearsHistory,
           HistoryCleared, ClearsResults, boundVars
  <2>2. /\ entries' = Loaded /\ Loaded \in Seq(Entry)
        /\ history' = [i \in 1..Len(Loaded) |-> i]
    BY <2>1, StateFacts DEF Restarts
  <2>3. Len(history') = Len(Loaded) /\ \A i \in 1..Len(Loaded) : history'[i] = i
    BY <2>2
  <2> QED BY <2>2, <2>3 DEF Agree, FileIsList
<1> QED BY <1>1, AgreeInit, AgreeStep, PTL DEF Spec, RestartKeepsVideos
=============================================================================
