---------------------------- MODULE JudgementProofs ----------------------------
(***************************************************************************)
(* Proofs about what an order is judged by and how: FrameSelector, which   *)
(* collects the frames of an order, for any orders, limits and number of   *)
(* frames, and OrderValidation, which compares the order with what the     *)
(* model reports, for orders, reports and opinions of the semantic service *)
(* of any size.                                                            *)
(***************************************************************************)
EXTENDS FrameSelector, OrderValidation, FiniteSetTheorems, WellFoundedInduction, TLAPS

---------------------------------------------------------------------------
(* Collecting the frames of an order.                                      *)

(* The types without the bound on what is collected, which Remembered has. *)
Typed ==
  /\ store \subseteq Key /\ eos \subseteq Order /\ ended \in BOOLEAN
  /\ selected \subseteq Order
  /\ calls \in [Order -> 0..2]
  /\ pc \in {"poll", "scan", "close", "score", "cleanup", "switch", "quiet", "end", "finish"}
  /\ why \in {"none", "change", "eos", "idle", "end"}
  /\ listing \subseteq Key /\ listedEos \subseteq Order /\ listedEnd \in BOOLEAN
  /\ current \in MaybeOrder
  /\ keys \subseteq Key
  /\ candidate \in MaybeOrder /\ count \in 0..MinFrames /\ candidateKeys \subseteq Key
  /\ processed \subseteq Key /\ recent \subseteq Order
  /\ warmup \in BOOLEAN /\ touched \in BOOLEAN
  /\ feeding \in MaybeOrder /\ uploaded \in 0..Frames /\ fed \in 0..MaxOrders
  /\ due \subseteq Order /\ settled \subseteq Order /\ redone \subseteq Order

Bound == Max({MaxBucket, MinFrames})

(* What the selector collects is bounded, and of a candidate it holds back *)
(* no more frames than it has counted: these become the next collection,   *)
(* whatever the limit of the bucket.                                       *)
Remembered ==
  /\ IsFiniteSet(keys) /\ Cardinality(keys) <= Bound
  /\ IsFiniteSet(candidateKeys)
  /\ candidate # NoOrder => Cardinality(candidateKeys) <= count

(* Without a current order nothing is collected: the first frame of all    *)
(* starts an empty collection.                                             *)
NoneCollected == current = NoOrder => keys = {}

(* The order of the next frame.                                            *)
NextOrder == Min({k[1] : k \in listing})

(* From the confirmation of another order to the switch to it, that order  *)
(* stays the candidate and the frame that confirmed it the next one: both  *)
(* are used after the VLM service was called and the bucket cleaned.       *)
SwitchPending ==
  /\ pc = "switch" => why = "change"
  /\ why = "change" =>
       /\ pc \in {"close", "score", "cleanup", "switch"}
       /\ listing # {}
       /\ candidate \in Order /\ candidate = NextOrder

(* What is closed is an order.                                             *)
ClosesAnOrder == pc \in {"close", "score", "cleanup"} => current \in Order

Inv ==
  /\ Typed /\ Remembered /\ NoneCollected /\ SwitchPending /\ ClosesAnOrder
  /\ OwnFrames /\ CallFindsFrames

LEMMA SelectorConstants ==
  /\ Order \subseteq Nat /\ NoOrder \notin Order
  /\ Frames \in Nat /\ MinFrames \in Nat /\ MaxBucket \in Nat /\ MaxOrders \in Nat
  /\ Frames > 0 /\ MinFrames > 0 /\ MaxBucket > 0 /\ MaxOrders > 0
BY SelectorAssumption

LEMMA BoundIsLimit == Bound \in Nat /\ MaxBucket <= Bound /\ MinFrames <= Bound
<1>1. \E x \in {MaxBucket, MinFrames} : \A y \in {MaxBucket, MinFrames} : x >= y
  BY SelectorConstants
<1>2. Bound \in {MaxBucket, MinFrames} /\ \A y \in {MaxBucket, MinFrames} : Bound >= y
  BY <1>1 DEF Bound, Max
<1> QED BY <1>2, SelectorConstants

LEMMA MinIsIn ==
  ASSUME NEW S \in SUBSET Nat, S # {}
  PROVE  Min(S) \in S
<1>1. PICK x \in S : \A y \in S : <<y, x>> \notin OpToRel(<, Nat)
  BY NatLessThanWellFounded, WFMin
<1>2. \A y \in S : ~(y < x) BY <1>1 DEF OpToRel
<1>3. x \in S /\ \A y \in S : x =< y BY <1>2
<1> QED BY <1>3 DEF Min

(* The next key is one of the snapshot's kind, and of the first order.     *)
LEMMA NextIsKey ==
  ASSUME Typed, listing # {}
  PROVE  NextKey \in Key /\ NextKey[1] = NextOrder /\ NextOrder \in Order
<1> DEFINE O == {k[1] : k \in listing}
           ofIt == {k \in listing : k[1] = NextOrder}
           known == ofIt \cap processed
           N == {k[2] : k \in IF known # {} THEN known ELSE ofIt}
<1>1. O \subseteq Order /\ O # {} BY DEF Typed, Key
<1>2. NextOrder \in O
  <2>1. O \in SUBSET Nat BY <1>1, SelectorConstants
  <2> HIDE DEF O
  <2>2. Min(O) \in O BY <1>1, <2>1, MinIsIn
  <2> QED BY <2>2 DEF NextOrder, O
<1>3. ofIt # {} BY <1>2
<1>4. N \subseteq 1..Frames /\ N # {} BY <1>3 DEF Typed, Key
<1>5. Min(N) \in N
  <2>1. N \in SUBSET Nat BY <1>4, SelectorConstants
  <2> HIDE DEF N
  <2> QED BY <1>4, <2>1, MinIsIn
<1>6. NextKey = <<NextOrder, Min(N)>> BY DEF NextKey, NextOrder
<1> HIDE DEF N
<1>7. NextOrder \in Order /\ Min(N) \in 1..Frames BY <1>1, <1>2, <1>4, <1>5
<1> QED BY <1>6, <1>7 DEF Key

LEMMA SelectorStarts == Init => Inv
<1> SUFFICES ASSUME Init PROVE Inv OBVIOUS
<1>1. Typed
  <2>1. calls \in [Order -> 0..2] BY DEF Init
  <2>2. count \in 0..MinFrames /\ uploaded \in 0..Frames /\ fed \in 0..MaxOrders
    BY SelectorConstants DEF Init, StateIsNew
  <2>3. current \in MaybeOrder /\ candidate \in MaybeOrder /\ feeding \in MaybeOrder
    BY DEF Init, StateIsNew, MaybeOrder
  <2>4. ended \in BOOLEAN /\ listedEnd \in BOOLEAN /\ warmup \in BOOLEAN /\ touched \in BOOLEAN
    BY DEF Init, StateIsNew
  <2> QED BY <2>1, <2>2, <2>3, <2>4 DEF Init, StateIsNew, Typed
<1>2. Remembered BY FS_EmptySet, BoundIsLimit DEF Init, StateIsNew, Remembered
<1>3. NoneCollected /\ SwitchPending /\ ClosesAnOrder
  BY DEF Init, StateIsNew, NoneCollected, SwitchPending, ClosesAnOrder
<1>4. OwnFrames /\ CallFindsFrames BY DEF Init, StateIsNew, OwnFrames, CallFindsFrames
<1> QED BY <1>1, <1>2, <1>3, <1>4 DEF Inv

(* The types, one action after the other.                                  *)
LEMMA TypesStay ==
  ASSUME Inv, [Next]_vars
  PROVE  Typed'
<1> USE SelectorConstants DEF vars, bucketVars, listVars, currentVars, pendingVars, vlmVars,
      feedVars, historyVars
<1>1. Typed /\ ClosesAnOrder BY DEF Inv
<1>2. CASE List BY <1>1, <1>2 DEF List, Typed
<1>3. CASE SkipKeys BY <1>1, <1>3 DEF SkipKeys, Scanning, Typed
<1>4. CASE SameOrder
  <2>1. NextKey \in Key /\ NextKey[1] \in Order
    BY <1>1, <1>4, NextIsKey DEF SameOrder, Scanning
  <2>2. keys' \subseteq Key /\ processed' \subseteq Key /\ touched' \in BOOLEAN
    BY <1>1, <1>4, <2>1 DEF SameOrder, Collect, Typed
  <2>3. due' \subseteq Order /\ settled' \subseteq Order /\ redone' \subseteq Order
    BY <1>1, <1>4 DEF SameOrder, Settle, Typed
  <2>4. current' \in MaybeOrder /\ warmup' \in BOOLEAN
    BY <1>1, <1>4, <2>1 DEF SameOrder, Typed, MaybeOrder
  <2>5. candidate' \in MaybeOrder /\ count' \in 0..MinFrames /\ listing' \subseteq Key
    BY <1>1, <1>4 DEF SameOrder, Typed, MaybeOrder
  <2> QED BY <1>1, <1>4, <2>2, <2>3, <2>4, <2>5 DEF SameOrder, Typed
<1>5. CASE Candidate
  <2>1. NextKey \in Key /\ NextKey[1] \in Order
    BY <1>1, <1>5, NextIsKey DEF Candidate, OtherOrder, Scanning
  <2>2. count' \in 0..MinFrames
    BY <1>1, <1>5 DEF Candidate, Sightings, Typed
  <2>3. candidateKeys' \subseteq Key /\ processed' \subseteq Key /\ listing' \subseteq Key
    BY <1>1, <1>5, <2>1 DEF Candidate, Keep, Typed
  <2> QED BY <1>1, <1>5, <2>1, <2>2, <2>3 DEF Candidate, Typed, MaybeOrder
<1>6. CASE ConfirmOther
  <2>1. NextKey \in Key /\ NextKey[1] \in Order
    BY <1>1, <1>6, NextIsKey DEF ConfirmOther, OtherOrder, Scanning
  <2>2. candidateKeys' \subseteq Key BY <1>1, <1>6 DEF ConfirmOther, Keep, Typed
  <2>3. due' \subseteq Order /\ settled' \subseteq Order /\ redone' \subseteq Order
    BY <1>1, <1>6 DEF ConfirmOther, OtherOrder, Settle, Typed, MaybeOrder
  <2> QED BY <1>1, <1>6, <2>1, <2>2, <2>3 DEF ConfirmOther, Typed, MaybeOrder
<1>7. CASE Switch
  <2>1. NextKey \in Key
    BY <1>1, <1>7, NextIsKey DEF Switch, Inv, SwitchPending
  <2>2. keys' \subseteq Key /\ processed' \subseteq Key /\ touched' \in BOOLEAN
    BY <1>1, <1>7, <2>1 DEF Switch, Collect, Seed, Typed
  <2> QED BY <1>1, <1>7, <2>2 DEF Switch, Typed, MaybeOrder
<1>8. CASE Scanned BY <1>1, <1>8 DEF Scanned, Typed
<1>9. CASE Inactive BY <1>1, <1>9 DEF Inactive, Settle, Typed, MaybeOrder
<1>10. CASE NotInactive BY <1>1, <1>10 DEF NotInactive, Typed
<1>11. CASE PollEnds BY <1>1, <1>11 DEF PollEnds, Forget, Typed
<1>12. CASE CloseSkips BY <1>1, <1>12 DEF CloseSkips, AfterClose, Typed
<1>13. CASE Wipe
  <2>1. redone' \subseteq Order
    BY <1>1, <1>13 DEF Wipe, Typed, ClosesAnOrder
  <2> QED BY <1>1, <1>13, <2>1 DEF Wipe, Typed
<1>14. CASE TooFew BY <1>1, <1>14 DEF TooFew, AfterClose, Settle, Typed, ClosesAnOrder
<1>15. CASE Ask
  <2>1. current \in Order BY <1>1, <1>15 DEF Ask, ClosesAnOrder
  <2>2. calls' \in [Order -> 0..2] /\ recent' \subseteq Order
    <3>1. CASE Called
      <4>1. calls[current] \in 0..2 BY <1>1, <2>1 DEF Typed
      <4>2. (IF calls[current] < 2 THEN calls[current] + 1 ELSE 2) \in 0..2 BY <4>1
      <4> QED BY <1>1, <2>1, <3>1, <4>2 DEF Called, Typed
    <3>2. CASE NotCalled BY <1>1, <3>2 DEF NotCalled, Typed
    <3> QED BY <1>15, <3>1, <3>2 DEF Ask
  <2>3. due' \subseteq Order /\ settled' \subseteq Order /\ redone' \subseteq Order
    BY <1>1, <1>15, <2>1 DEF Ask, Called, NotCalled, Settle, Typed
  <2>4. selected' \subseteq Order BY <1>1, <1>15, <2>1 DEF Ask, Typed
  <2> QED BY <1>1, <1>15, <2>2, <2>3, <2>4 DEF Ask, AfterClose, Typed
<1>16. CASE Raises
  <2>1. selected' \subseteq Order BY <1>1, <1>16 DEF Raises, ClosesAnOrder, Typed
  <2> QED BY <1>1, <1>16, <2>1 DEF Raises, Settle, Forget, Typed
<1>17. CASE CleanupForChange
  BY <1>1, <1>17 DEF CleanupForChange, Cleaned, Without, Settle, Typed
<1>18. CASE CleanupForEos
  <2>1. /\ store' \subseteq Key /\ eos' \subseteq Order /\ ended' \in BOOLEAN
        /\ processed' \subseteq Key
    BY <1>1, <1>18 DEF CleanupForEos, Cleaned, Without, Typed
  <2>2. due' \subseteq Order /\ settled' \subseteq Order /\ redone' \subseteq Order
    BY <1>1, <1>18 DEF CleanupForEos, Cleaned, Settle, Typed
  <2>3. current' \in MaybeOrder /\ keys' \subseteq Key /\ candidateKeys' \subseteq Key
    BY <1>1, <1>18 DEF CleanupForEos, Typed, MaybeOrder
  <2> QED BY <1>1, <1>18, <2>1, <2>2, <2>3 DEF CleanupForEos, Typed, MaybeOrder
<1>19. CASE CleanupForIdle
  BY <1>1, <1>19 DEF CleanupForIdle, Cleaned, Without, Settle, Typed, MaybeOrder
<1>20. CASE Finish
  <2>1. store' \subseteq Key /\ ended' \in BOOLEAN
    BY <1>1, <1>20 DEF Finish, BucketDeleted, Typed
  <2>2. due' \subseteq Order /\ settled' \subseteq Order /\ redone' \subseteq Order
    BY <1>1, <1>20 DEF Finish, BucketDeleted, Settle, Typed
  <2>3. current' \in MaybeOrder /\ candidate' \in MaybeOrder /\ count' \in 0..MinFrames
    BY <1>20 DEF Finish, ResetState, MaybeOrder
  <2>4. warmup' \in BOOLEAN BY <1>20 DEF Finish, ResetState
  <2> QED BY <1>1, <1>20, <2>1, <2>2, <2>3, <2>4 DEF Finish, ResetState, Typed
<1>21. CASE Surroundings
  <2>1. ASSUME NEW o \in Order, CallReads(o) PROVE Typed'
    BY <1>1, <2>1 DEF CallReads, Typed
  <2>2. ASSUME NEW o \in Order, CooldownEnds(o) PROVE Typed'
    BY <1>1, <2>2 DEF CooldownEnds, Typed
  <2> QED BY <1>21, <2>1, <2>2 DEF Surroundings
<1>22. CASE Pipeline
  <2>1. ASSUME NEW o \in Order, Opens(o) PROVE Typed'
    <3>1. store' \subseteq Key BY <1>1, <2>1 DEF Opens, Typed, Key
    <3> QED BY <1>1, <2>1, <3>1 DEF Opens, Typed, MaybeOrder
  <2>2. CASE Uploads
    <3>1. store' \subseteq Key BY <1>1, <2>2 DEF Uploads, Typed, Key, MaybeOrder
    <3> QED BY <1>1, <2>2, <3>1 DEF Uploads, Typed
  <2>3. CASE Marks
    <3>1. feeding \in Order BY <1>1, <2>3 DEF Marks, Typed, MaybeOrder
    <3>2. eos' \subseteq Order BY <1>1, <2>3, <3>1 DEF Marks, Typed
    <3>3. due' \subseteq Order /\ settled' \subseteq Order /\ redone' \subseteq Order
      BY <1>1, <2>3, <3>1 DEF Marks, Settle, Typed
    <3> QED BY <1>1, <2>3, <3>2, <3>3 DEF Marks, Typed, MaybeOrder
  <2>4. CASE Ends BY <1>1, <2>4 DEF Ends, Typed
  <2> QED BY <1>22, <2>1, <2>2, <2>3, <2>4 DEF Pipeline
<1>23. CASE UNCHANGED vars BY <1>1, <1>23 DEF Typed
<1> QED
  BY <1>2, <1>3, <1>4, <1>5, <1>6, <1>7, <1>8, <1>9, <1>10, <1>11, <1>12, <1>13, <1>14, <1>15,
     <1>16, <1>17, <1>18, <1>19, <1>20, <1>21, <1>22, <1>23 DEF Next, Selector

LEMMA AddedOne ==
  ASSUME NEW S, IsFiniteSet(S), NEW x
  PROVE  IsFiniteSet(S \cup {x}) /\ Cardinality(S \cup {x}) <= Cardinality(S) + 1
<1>1. Cardinality(S) \in Nat BY FS_CardinalityType
<1>2. /\ IsFiniteSet(S \cup {x})
      /\ Cardinality(S \cup {x}) = IF x \in S THEN Cardinality(S) ELSE Cardinality(S) + 1
  BY FS_AddElement
<1> QED BY <1>1, <1>2

(* Frames one by one, below the limit; a whole candidate, which is smaller.*)
LEMMA CollectedIsBounded ==
  ASSUME NEW k, NEW bs, NEW inWarmup, Collect(k, bs, inWarmup),
         IsFiniteSet(bs), Cardinality(bs) <= Bound
  PROVE  IsFiniteSet(keys') /\ Cardinality(keys') <= Bound
<1>1. CASE keys' = bs BY <1>1
<1>2. CASE keys' = bs \cup {k} /\ Cardinality(bs) < MaxBucket
  <2>1. IsFiniteSet(keys') /\ Cardinality(keys') <= Cardinality(bs) + 1
    BY <1>2, AddedOne
  <2>2. Cardinality(bs) \in Nat /\ Cardinality(keys') \in Nat BY <2>1, FS_CardinalityType
  <2> QED BY <1>2, <2>1, <2>2, BoundIsLimit, SelectorConstants
<1>3. Cardinality(bs) \in Nat BY FS_CardinalityType
<1> QED BY <1>1, <1>2, <1>3, SelectorConstants DEF Collect

LEMMA MemoryStaysBounded ==
  ASSUME Inv, [Next]_vars
  PROVE  Remembered'
<1> USE DEF bucketVars, listVars, currentVars, pendingVars, vlmVars, feedVars, historyVars
<1>1. Typed /\ Remembered BY DEF Inv
<1>2. CASE UNCHANGED <<currentVars, pendingVars>> BY <1>1, <1>2 DEF Remembered, Bound
<1>3. CASE SameOrder
  <2>1. IsFiniteSet(keys') /\ Cardinality(keys') <= Bound
    BY <1>1, <1>3, CollectedIsBounded DEF SameOrder, Remembered
  <2> QED BY <1>1, <1>3, <2>1 DEF SameOrder, Remembered, Bound
<1>4. CASE Candidate
  <2>1. NextKey[1] \in Order BY <1>1, <1>4, NextIsKey DEF Candidate, OtherOrder, Scanning
  <2> DEFINE K == Keep(NextKey[1])
  <2>2. IsFiniteSet(K) /\ Cardinality(K) + 1 <= Sightings(NextKey[1])
    <3>1. CASE candidate = NextKey[1]
      <4>1. Cardinality(candidateKeys) <= count /\ IsFiniteSet(candidateKeys)
        BY <1>1, <2>1, <3>1, SelectorConstants DEF Remembered
      <4> QED BY <1>1, <3>1, <4>1, FS_CardinalityType, SelectorConstants
              DEF Keep, Sightings, Typed
    <3>2. CASE candidate # NextKey[1] BY <3>2, FS_EmptySet DEF Keep, Sightings
    <3> QED BY <3>1, <3>2
  <2>3. /\ IsFiniteSet(candidateKeys')
        /\ Cardinality(candidateKeys') <= count'
    <3> HIDE DEF K
    <3>1. candidateKeys' = K \cup {NextKey} /\ count' = Sightings(NextKey[1])
      BY <1>4 DEF Candidate, K
    <3>2. IsFiniteSet(candidateKeys') /\ Cardinality(candidateKeys') <= Cardinality(K) + 1
      BY <2>2, <3>1, AddedOne
    <3>3. Cardinality(K) \in Nat /\ Cardinality(candidateKeys') \in Nat
      BY <2>2, <3>2, FS_CardinalityType
    <3>4. Sightings(NextKey[1]) \in Nat BY <1>1, SelectorConstants DEF Sightings, Typed
    <3> QED BY <2>2, <3>1, <3>2, <3>3, <3>4 DEF K
  <2> QED BY <1>1, <1>4, <2>3 DEF Candidate, Remembered, Bound
<1>5. CASE ConfirmOther
  <2>1. NextKey[1] \in Order BY <1>1, <1>5, NextIsKey DEF ConfirmOther, OtherOrder, Scanning
  <2>2. IsFiniteSet(candidateKeys') /\ Cardinality(candidateKeys') <= MinFrames
    <3>1. CASE candidate = NextKey[1]
      <4>1. Cardinality(candidateKeys) <= count /\ IsFiniteSet(candidateKeys)
        BY <1>1, <2>1, <3>1, SelectorConstants DEF Remembered
      <4> QED BY <1>1, <1>5, <3>1, <4>1, FS_CardinalityType, SelectorConstants
              DEF ConfirmOther, Keep, Typed
    <3>2. CASE candidate # NextKey[1]
      BY <1>5, <3>2, FS_EmptySet, SelectorConstants DEF ConfirmOther, Keep
    <3> QED BY <3>1, <3>2
  <2> QED BY <1>1, <1>5, <2>2 DEF ConfirmOther, Remembered, Bound
<1>6. CASE Switch
  <2>1. candidate # NoOrder
    BY <1>6, SelectorConstants DEF Switch, Inv, SwitchPending
  <2>2. IsFiniteSet(Seed) /\ Cardinality(Seed) <= Bound
    <3>1. IsFiniteSet(Seed) /\ Cardinality(Seed) <= count
      BY <1>1, <2>1 DEF Remembered, Seed
    <3>2. Cardinality(Seed) \in Nat BY <3>1, FS_CardinalityType
    <3> QED BY <1>1, <3>1, <3>2, BoundIsLimit, SelectorConstants DEF Typed
  <2>3. IsFiniteSet(keys') /\ Cardinality(keys') <= Bound
    BY <1>6, <2>2, CollectedIsBounded DEF Switch
  <2> QED BY <1>6, <2>3, FS_EmptySet DEF Switch, Remembered, Bound
<1>7. CASE CleanupForEos
  <2>1. CASE candidate # NoOrder /\ count >= MinFrames
    <3>1. keys' = candidateKeys BY <1>7, <2>1 DEF CleanupForEos
    <3>2. IsFiniteSet(keys') /\ Cardinality(keys') <= count
      BY <1>1, <2>1, <3>1 DEF Remembered
    <3>3. Cardinality(keys') \in Nat BY <3>2, FS_CardinalityType
    <3>4. Cardinality(keys') <= Bound
      BY <1>1, <3>2, <3>3, BoundIsLimit, SelectorConstants DEF Typed
    <3> QED BY <1>7, <3>2, <3>4, FS_EmptySet DEF CleanupForEos, Remembered, Bound
  <2>2. CASE ~(candidate # NoOrder /\ count >= MinFrames)
    <3>1. keys' = {} BY <1>7, <2>2 DEF CleanupForEos
    <3> QED
      BY <1>7, <3>1, FS_EmptySet, BoundIsLimit DEF CleanupForEos, Remembered, Bound
  <2> QED BY <2>1, <2>2
<1>8. CASE CleanupForIdle
  BY <1>1, <1>8, FS_EmptySet, BoundIsLimit DEF CleanupForIdle, Remembered, Bound
<1>9. CASE Finish
  BY <1>9, FS_EmptySet, BoundIsLimit DEF Finish, ResetState, Remembered, Bound
<1>10. CASE Selector
  BY <1>2, <1>3, <1>4, <1>5, <1>6, <1>7, <1>8, <1>9, <1>10
  DEF Selector, List, SkipKeys, Scanned, Inactive, NotInactive, PollEnds, CloseSkips, Wipe,
      TooFew, Ask, Raises, CleanupForChange
<1>11. CASE Surroundings \/ Pipeline
  BY <1>2, <1>11 DEF Surroundings, CallReads, CooldownEnds, Pipeline, Opens, Uploads, Marks, Ends
<1> QED BY <1>2, <1>10, <1>11 DEF Next, vars

LEMMA NothingWithoutOrder ==
  ASSUME Inv, [Next]_vars
  PROVE  NoneCollected'
<1> USE DEF bucketVars, listVars, currentVars, pendingVars, vlmVars, feedVars, historyVars
<1>1. Typed /\ NoneCollected BY DEF Inv
<1>2. CASE UNCHANGED currentVars BY <1>1, <1>2 DEF NoneCollected
<1>3. CASE SameOrder
  <2>1. NextKey[1] \in Order BY <1>1, <1>3, NextIsKey DEF SameOrder, Scanning
  <2> QED BY <1>3, <2>1, SelectorConstants DEF SameOrder, NoneCollected
<1>4. CASE Switch
  BY <1>4, SelectorConstants DEF Switch, Inv, SwitchPending, NoneCollected
<1>5. CASE CleanupForEos BY <1>5 DEF CleanupForEos, NoneCollected
<1>6. CASE CleanupForIdle BY <1>6 DEF CleanupForIdle, NoneCollected
<1>7. CASE Finish BY <1>7 DEF Finish, ResetState, NoneCollected
<1>8. CASE Selector
  BY <1>2, <1>3, <1>4, <1>5, <1>6, <1>7, <1>8
  DEF Selector, List, SkipKeys, Candidate, ConfirmOther, Scanned, Inactive, NotInactive,
      PollEnds, CloseSkips, Wipe, TooFew, Ask, Raises, CleanupForChange
<1>9. CASE Surroundings \/ Pipeline
  BY <1>2, <1>9 DEF Surroundings, CallReads, CooldownEnds, Pipeline, Opens, Uploads, Marks, Ends
<1> QED BY <1>2, <1>8, <1>9 DEF Next, vars

LEMMA SwitchStaysPending ==
  ASSUME Inv, [Next]_vars
  PROVE  SwitchPending' /\ ClosesAnOrder'
<1> USE DEF bucketVars, listVars, currentVars, pendingVars, vlmVars, feedVars, historyVars
<1>1. Typed /\ SwitchPending /\ ClosesAnOrder BY DEF Inv
<1>2. CASE UNCHANGED <<pc, why, listVars, currentVars, pendingVars>>
  BY <1>1, <1>2 DEF SwitchPending, ClosesAnOrder, NextOrder
<1>3. CASE /\ why' = why
           /\ UNCHANGED <<listVars, currentVars, pendingVars>>
           /\ pc \in {"close", "score", "cleanup"}
           /\ pc' \in {"score", "cleanup"} \/ (pc' = "finish" /\ why = "end")
  BY <1>1, <1>3 DEF SwitchPending, ClosesAnOrder, NextOrder
<1>4. CASE why' # "change" /\ pc' \notin {"close", "score", "cleanup", "switch"}
  BY <1>4 DEF SwitchPending, ClosesAnOrder
<1>5. CASE List \/ SkipKeys \/ SameOrder \/ Candidate \/ NotInactive
  BY <1>1, <1>4, <1>5
  DEF List, SkipKeys, SameOrder, Candidate, OtherOrder, NotInactive, Scanning, SwitchPending
<1>6. CASE ConfirmOther
  <2>1. NextKey[1] = NextOrder /\ NextOrder \in Order
    BY <1>1, <1>6, NextIsKey DEF ConfirmOther, OtherOrder, Scanning
  <2>2. current \in Order BY <1>1, <1>6 DEF ConfirmOther, OtherOrder, Typed, MaybeOrder
  <2> QED BY <1>1, <1>6, <2>1, <2>2
          DEF ConfirmOther, OtherOrder, Scanning, SwitchPending, ClosesAnOrder, NextOrder
<1>7. CASE Scanned
  <2>1. why # "change" BY <1>1, <1>7 DEF Scanned, SwitchPending
  <2> QED BY <1>1, <1>7, <2>1 DEF Scanned, SwitchPending, ClosesAnOrder, Typed
<1>8. CASE Inactive
  BY <1>1, <1>8 DEF Inactive, SwitchPending, ClosesAnOrder, Typed, MaybeOrder
<1>9. CASE PollEnds
  BY <1>1, <1>9 DEF PollEnds, SwitchPending, ClosesAnOrder, Typed, MaybeOrder
<1>10. CASE CloseSkips \/ Wipe \/ TooFew \/ Ask
  BY <1>3, <1>10 DEF CloseSkips, Wipe, TooFew, Ask, AfterClose
<1>11. CASE CleanupForChange
  BY <1>1, <1>11 DEF CleanupForChange, SwitchPending, ClosesAnOrder, NextOrder
<1>12. CASE Switch \/ Raises \/ CleanupForEos \/ CleanupForIdle \/ Finish
  BY <1>4, <1>12 DEF Switch, Raises, CleanupForEos, CleanupForIdle, Finish, ResetState
<1>13. CASE Surroundings \/ Pipeline
  BY <1>2, <1>13 DEF Surroundings, CallReads, CooldownEnds, Pipeline, Opens, Uploads, Marks, Ends
<1> QED
  BY <1>2, <1>5, <1>6, <1>7, <1>8, <1>9, <1>10, <1>11, <1>12, <1>13 DEF Next, Selector, vars

(* A collection grows by frames of the current order; a candidate's frames *)
(* become one together with the candidate.                                 *)
LEMMA OnlyOwnFrames ==
  ASSUME Inv, [Next]_vars
  PROVE  OwnFrames'
<1> USE DEF bucketVars, listVars, currentVars, pendingVars, vlmVars, feedVars, historyVars
<1>1. Typed /\ OwnFrames /\ NoneCollected BY DEF Inv
<1>2. CASE UNCHANGED <<currentVars, pendingVars>> BY <1>1, <1>2 DEF OwnFrames
<1>3. CASE SameOrder
  <2>1. \A k \in keys : k[1] = NextKey[1] BY <1>1, <1>3 DEF SameOrder, OwnFrames, NoneCollected
  <2>2. \A k \in keys' : k[1] = current' BY <1>3, <2>1 DEF SameOrder, Collect
  <2> QED BY <1>3, <2>2 DEF SameOrder, OwnFrames
<1>4. CASE Candidate
  <2>1. NextKey[1] \in Order BY <1>1, <1>4, NextIsKey DEF Candidate, OtherOrder, Scanning
  <2>2. \A k \in candidateKeys' : k[1] = candidate'
    BY <1>1, <1>4, <2>1, SelectorConstants DEF Candidate, Keep, OwnFrames
  <2> QED BY <1>1, <1>4, <2>2 DEF Candidate, OwnFrames
<1>5. CASE ConfirmOther
  <2>1. NextKey[1] \in Order BY <1>1, <1>5, NextIsKey DEF ConfirmOther, OtherOrder, Scanning
  <2>2. \A k \in candidateKeys' : k[1] = candidate'
    BY <1>1, <1>5, <2>1, SelectorConstants DEF ConfirmOther, Keep, OwnFrames
  <2> QED BY <1>1, <1>5, <2>2 DEF ConfirmOther, OwnFrames
<1>6. CASE Switch
  <2>1. /\ listing # {} /\ candidate \in Order /\ candidate = NextOrder
    BY <1>6 DEF Switch, Inv, SwitchPending
  <2>2. NextKey[1] = candidate BY <1>1, <2>1, NextIsKey
  <2>3. \A k \in Seed : k[1] = candidate
    BY <1>1, <2>1, SelectorConstants DEF OwnFrames, Seed
  <2>4. \A k \in keys' : k[1] = current' BY <1>6, <2>2, <2>3 DEF Switch, Collect
  <2> QED BY <1>6, <2>4 DEF Switch, OwnFrames
<1>7. CASE CleanupForEos BY <1>1, <1>7 DEF CleanupForEos, OwnFrames
<1>8. CASE CleanupForIdle BY <1>1, <1>8 DEF CleanupForIdle, OwnFrames
<1>9. CASE Finish BY <1>9 DEF Finish, ResetState, OwnFrames
<1>10. CASE Selector
  <2>1. CASE \/ List \/ SkipKeys \/ Scanned \/ Inactive \/ NotInactive \/ PollEnds
             \/ CloseSkips \/ Wipe \/ TooFew \/ Ask \/ Raises \/ CleanupForChange
    <3>1. UNCHANGED <<currentVars, pendingVars>>
      BY <2>1 DEF List, SkipKeys, Scanned, Inactive, NotInactive, PollEnds, CloseSkips, Wipe,
                  TooFew, Ask, Raises, CleanupForChange
    <3> QED BY <1>2, <3>1
  <2> QED BY <1>3, <1>4, <1>5, <1>6, <1>7, <1>8, <1>9, <1>10, <2>1 DEF Selector
<1>11. CASE Surroundings \/ Pipeline
  BY <1>2, <1>11 DEF Surroundings, CallReads, CooldownEnds, Pipeline, Opens, Uploads, Marks, Ends
<1> QED BY <1>2, <1>10, <1>11 DEF Next, vars

(* Frames are selected before the call is made, and nothing but a new run  *)
(* of the same order removes them.                                         *)
LEMMA CallsKeepFrames ==
  ASSUME Inv, [Next]_vars
  PROVE  CallFindsFrames'
<1> USE DEF bucketVars, listVars, currentVars, pendingVars, vlmVars, feedVars, historyVars
<1>1. Typed /\ CallFindsFrames /\ ClosesAnOrder BY DEF Inv
<1>2. CASE UNCHANGED <<selected, calls, redone>> BY <1>1, <1>2 DEF CallFindsFrames
<1>3. CASE Wipe BY <1>1, <1>3 DEF Wipe, CallFindsFrames
<1>4. CASE TooFew BY <1>2, <1>4 DEF TooFew, Settle
<1>5. CASE Ask
  <2>1. selected' = selected \cup {current} BY <1>5 DEF Ask
  <2>2. /\ \A o \in Order : o # current => calls'[o] = calls[o]
        /\ redone' = redone
    BY <1>1, <1>5 DEF Ask, Called, NotCalled, Settle, Typed
  <2> QED BY <1>1, <2>1, <2>2 DEF CallFindsFrames
<1>6. CASE Raises BY <1>1, <1>6 DEF Raises, Settle, CallFindsFrames
<1>7. CASE CleanupForChange \/ CleanupForEos \/ CleanupForIdle
  BY <1>2, <1>7 DEF CleanupForChange, CleanupForEos, CleanupForIdle, Cleaned, Settle
<1>8. CASE Finish BY <1>2, <1>8 DEF Finish, BucketDeleted, Settle
<1>9. CASE SameOrder \/ ConfirmOther \/ Inactive
  BY <1>2, <1>9 DEF SameOrder, ConfirmOther, Inactive, Settle
<1>10. CASE Selector
  <2>1. CASE \/ List \/ SkipKeys \/ Candidate \/ Switch \/ Scanned \/ NotInactive
             \/ PollEnds \/ CloseSkips
    <3>1. UNCHANGED <<selected, calls, redone>>
      BY <2>1 DEF List, SkipKeys, Candidate, Switch, Scanned, NotInactive, PollEnds, CloseSkips
    <3> QED BY <1>2, <3>1
  <2> QED BY <1>3, <1>4, <1>5, <1>6, <1>7, <1>8, <1>9, <1>10, <2>1 DEF Selector
<1>11. CASE Surroundings
  <2>1. ASSUME NEW o \in Order, CallReads(o) PROVE CallFindsFrames'
    <3>1. calls[o] \in 1..2 BY <1>1, <2>1 DEF CallReads, Typed
    <3>2. selected' = selected /\ calls' = [calls EXCEPT ![o] = calls[o] - 1]
      BY <2>1 DEF CallReads
    <3>3. calls'[o] > 0 => redone' = redone BY <1>1, <2>1, <3>1, <3>2 DEF CallReads, Typed
    <3>4. redone \ {o} \subseteq redone' BY <2>1 DEF CallReads
    <3> QED BY <1>1, <3>1, <3>2, <3>3, <3>4 DEF CallFindsFrames, Typed
  <2>2. ASSUME NEW o \in Order, CooldownEnds(o) PROVE CallFindsFrames'
    BY <1>2, <2>2 DEF CooldownEnds
  <2> QED BY <1>11, <2>1, <2>2 DEF Surroundings
<1>12. CASE Pipeline
  BY <1>2, <1>12 DEF Pipeline, Opens, Uploads, Marks, Ends, Settle
<1> QED BY <1>2, <1>10, <1>11, <1>12 DEF Next, vars

LEMMA SelectorInvariant == Spec => []Inv
<1>1. Init => Inv BY SelectorStarts
<1>2. Inv /\ [Next]_vars => Inv'
  BY TypesStay, MemoryStaysBounded, NothingWithoutOrder, SwitchStaysPending, OnlyOwnFrames,
     CallsKeepFrames DEF Inv
<1> QED BY <1>1, <1>2, PTL DEF Spec

(* Types, and the bound on what process_station collects: never more       *)
(* frames than MAX_BUCKET_SIZE or, if that is more, than confirm a switch  *)
(* (lines 1311-1372).                                                      *)
THEOREM SelectorTypeCorrect == Spec => []TypeOK
<1>1. Inv => TypeOK BY DEF Inv, Typed, Remembered, Bound, TypeOK
<1> QED BY <1>1, SelectorInvariant, PTL

(* An order is judged by its own frames, for any orders, limits and number *)
(* of frames: neither a candidate that comes and goes nor an exception     *)
(* between the confirmation of a switch and the switch mixes two orders.   *)
THEOREM OrdersNotMixed == Spec => []OwnFrames
<1>1. Inv => OwnFrames BY DEF Inv
<1> QED BY <1>1, SelectorInvariant, PTL

(* A call of the VLM service under way finds the frames selected for its   *)
(* order, until the order is processed again.                              *)
THEOREM CallsFindFrames == Spec => []CallFindsFrames
<1>1. Inv => CallFindsFrames BY DEF Inv
<1> QED BY <1>1, SelectorInvariant, PTL

---------------------------------------------------------------------------
(* Comparing an order with the report.                                     *)

(* A pair that pass 2 has left behind: a line without a match and an item  *)
(* it was compared with.                                                   *)
Left(l, i) ==
  \/ pass \in {"relabel", "done"}
  \/ pass = "semantic" /\ (l < line \/ (l = line /\ i < item))

(* Without failures no pair that pass 2 has left behind is alike, unless   *)
(* the item has gone to another line.  This is what makes IgnoredIsRelabel *)
(* inductive: in pass 3 a line that turns out to be alike has its match.   *)
NoPairOverlooked ==
  ~faulty => \A l \in Lines, i \in Items :
    mate[l] = 0 /\ seen[i].name \notin Matched /\ Left(l, i) => ~Alike(l, i)

NothingIgnoredEarly ==
  /\ pass = "exact" => item = 1
  /\ pass \in {"exact", "semantic"} => relabels = {}

MatesAreRight == \A l \in Lines : mate[l] # 0 => SameName(l, mate[l]) \/ Alike(l, mate[l])

(* Pass 1 matches by name only, and keeps what it can match.               *)
ExactByName == pass = "exact" => \A l \in Lines : mate[l] # 0 => SameName(l, mate[l])

ExactKept ==
  \A l \in Lines, i \in Items :
    (pass = "exact" => l < line) /\ SameName(l, i) => mate[l] # 0 /\ SameName(l, mate[l])

MatesDiffer ==
  NamesOnce(order) => \A k, l \in Lines :
    mate[k] # 0 /\ mate[l] # 0 /\ seen[mate[k]].name = seen[mate[l]].name => k = l

IgnoredAreAlike == \A i \in Items : seen[i].name \in relabels => \E l \in Lines : Alike(l, i)

---------------------------------------------------------------------------
(* The inputs do not change.                                               *)
LEMMA SameInput ==
  ASSUME [ValidationNext]_validationVars
  PROVE  /\ order' = order /\ seen' = seen /\ alike' = alike
         /\ Lines' = Lines /\ Items' = Items
         /\ \A l, i : SameName(l, i)' = SameName(l, i)
         /\ \A l, i : Alike(l, i)' = Alike(l, i)
<1>1. order' = order /\ seen' = seen /\ alike' = alike
  BY DEF ValidationNext, validationVars, input, Exact, ExactEnds, Skips, Compares, NextLine,
         SemanticEnds,
         Relabels, NextItem, RelabelEnds
<1> QED BY <1>1 DEF Lines, Items, SameName, Alike

(* Who is in Matched.                                                      *)
LEMMA InMatched ==
  ASSUME NEW n
  PROVE  n \in Matched <=> \E l \in Lines : mate[l] # 0 /\ n = seen[mate[l]].name
BY DEF Matched

(* The lengths are numbers, the names are products.                        *)
LEMMA Sizes ==
  ASSUME ValidationTypeOK
  PROVE  /\ Len(order) \in Nat /\ Len(seen) \in Nat
         /\ \A l \in Lines : order[l].name \in Product /\ order[l].quantity \in 1..MaxQuantity
         /\ \A i \in Items : seen[i].name \in Product /\ seen[i].quantity \in 1..MaxQuantity
<1>1. order \in Seq(Entry) /\ seen \in Seq(Entry) BY DEF ValidationTypeOK
<1>2. \A l \in Lines : order[l] \in Entry BY <1>1 DEF Lines
<1>3. \A i \in Items : seen[i] \in Entry BY <1>1 DEF Items
<1> QED BY <1>1, <1>2, <1>3 DEF Entry

(* The types hold at the start, and every step preserves them.             *)
LEMMA TypeInit == ValidationInit => ValidationTypeOK
<1> SUFFICES ASSUME ValidationInit PROVE ValidationTypeOK OBVIOUS
<1>1. order \in Seq(Entry) /\ seen \in Seq(Entry)
  BY ValidationAssumption DEF ValidationInit
<1>2. Len(order) \in Nat /\ Len(seen) \in Nat BY <1>1
<1>3. alike \subseteq Product \X Product BY DEF ValidationInit, Answers
<1>4. mate \in [Lines -> 0..Len(seen)] BY <1>2 DEF ValidationInit
<1>5. 1 \in 1..(Len(order) + 1) /\ 1 \in 1..(Len(seen) + 1) BY <1>2
<1>6. /\ pass = "exact" /\ line = 1 /\ item = 1 /\ relabels = {} /\ faulty = FALSE
  BY DEF ValidationInit
<1>7. pass \in {"exact", "semantic", "relabel",
    "done"} /\ relabels \subseteq Product /\ faulty \in BOOLEAN
  BY <1>6
<1>8. line \in 1..(Len(order) + 1) /\ item \in 1..(Len(seen) + 1) BY <1>5, <1>6
<1> QED BY <1>1, <1>3, <1>4, <1>7, <1>8 DEF ValidationTypeOK

LEMMA TypeStep == ValidationTypeOK /\ [ValidationNext]_validationVars => ValidationTypeOK'
<1> SUFFICES ASSUME ValidationTypeOK,
    [ValidationNext]_validationVars PROVE ValidationTypeOK' OBVIOUS
<1>1. /\ order' = order /\ seen' = seen /\ alike' = alike /\ Lines' = Lines /\ Items' = Items
  BY SameInput
<1>2. Len(order) \in Nat /\ Len(seen) \in Nat BY Sizes
<1>3. /\ order \in Seq(Entry) /\ seen \in Seq(Entry) /\ alike \subseteq Product \X Product
      /\ pass \in {"exact", "semantic", "relabel", "done"}
      /\ line \in 1..(Len(order) + 1) /\ item \in 1..(Len(seen) + 1)
      /\ mate \in [Lines -> 0..Len(seen)]
      /\ relabels \subseteq Product /\ faulty \in BOOLEAN
  BY DEF ValidationTypeOK
<1>4. SUFFICES /\ pass' \in {"exact", "semantic", "relabel", "done"}
               /\ line' \in 1..(Len(order) + 1) /\ item' \in 1..(Len(seen) + 1)
               /\ mate' \in [Lines -> 0..Len(seen)]
               /\ relabels' \subseteq Product /\ faulty' \in BOOLEAN
  BY <1>1, <1>3 DEF ValidationTypeOK
<1>5. CASE Exact
  BY <1>2, <1>3, <1>5 DEF Exact, Lines, Items
<1>6. CASE ExactEnds BY <1>2, <1>3, <1>6 DEF ExactEnds
<1>7. CASE Skips BY <1>2, <1>3, <1>7 DEF Skips, Wanted, Items
<1>8. CASE Compares
  <2>1. line \in Lines /\ item \in Items /\ UNCHANGED <<pass, line, relabels>>
    BY <1>8 DEF Compares, Wanted
  <2>2. mate' \in [Lines -> 0..Len(seen)]
    BY <1>2, <1>3, <1>8, <2>1 DEF Compares, Items
  <2>3. item' \in 1..(Len(seen) + 1)
    BY <1>2, <1>3, <1>8, <2>1 DEF Compares, Items
  <2>4. faulty' \in BOOLEAN
    BY <1>3, <1>8 DEF Compares, Yes, No
  <2> QED BY <1>3, <2>1, <2>2, <2>3, <2>4
<1>9. CASE NextLine BY <1>2, <1>3, <1>9 DEF NextLine, Lines
<1>10. CASE SemanticEnds BY <1>2, <1>3, <1>10 DEF SemanticEnds
<1>11. CASE Relabels
  <2>1. line \in Lines /\ item \in Items /\ UNCHANGED <<pass, item, mate>>
    BY <1>11 DEF Relabels
  <2>2. line' \in 1..(Len(order) + 1)
    BY <1>2, <1>3, <1>11, <2>1 DEF Relabels, Lines
  <2>3. relabels' \subseteq Product
    BY <1>3, <1>11, <2>1, Sizes DEF Relabels
  <2>4. faulty' \in BOOLEAN
    BY <1>3, <1>11 DEF Relabels, Yes, No
  <2> QED BY <1>3, <2>1, <2>2, <2>3, <2>4
<1>12. CASE NextItem BY <1>2, <1>3, <1>12 DEF NextItem, Items
<1>13. CASE RelabelEnds BY <1>2, <1>3, <1>13 DEF RelabelEnds
<1>14. CASE UNCHANGED validationVars BY <1>3, <1>14 DEF validationVars
<1> QED
  BY <1>5, <1>6, <1>7, <1>8, <1>9, <1>10, <1>11, <1>12, <1>13, <1>14 DEF ValidationNext

(* The state stays of its type: the loops over lines and items never run   *)
(* past the end, and an item that was taken exists.                        *)
THEOREM ValidationTypeCorrect == ValidationSpec => []ValidationTypeOK
BY TypeInit, TypeStep, PTL DEF ValidationSpec

---------------------------------------------------------------------------
(* Without a new match, the names matched are the same; with one, those    *)
(* matched before still are.                                               *)
LEMMA MatchedKept ==
  ASSUME [ValidationNext]_validationVars, mate' = mate
  PROVE  Matched' = Matched
BY SameInput DEF Matched

LEMMA MatchedGrows ==
  ASSUME ValidationTypeOK, [ValidationNext]_validationVars, NEW i \in Items, line \in Lines,
      mate[line] = 0,
         mate' = [mate EXCEPT ![line] = i]
  PROVE  /\ mate'[line] = i /\ i # 0
         /\ \A l \in Lines : l # line => mate'[l] = mate[l]
         /\ Matched \subseteq Matched'
         /\ seen[i].name \in Matched'
<1>1. mate \in [Lines -> 0..Len(seen)] /\ Len(seen) \in Nat BY Sizes DEF ValidationTypeOK
<1>2. mate'[line] = i /\ i # 0 BY <1>1 DEF Items
<1>3. \A l \in Lines : l # line => mate'[l] = mate[l] BY <1>1
<1>4. seen' = seen /\ Lines' = Lines BY SameInput
<1>5. ASSUME NEW l \in Lines, mate[l] # 0 PROVE seen[mate[l]].name \in Matched'
  <2>1. l # line BY <1>5
  <2>2. mate'[l] = mate[l] BY <1>3, <2>1
  <2> QED BY <1>4, <1>5, <2>2 DEF Matched
<1>6. seen[i].name \in Matched' BY <1>2, <1>4 DEF Matched
<1> QED BY <1>2, <1>3, <1>5, <1>6 DEF Matched

(* The two ways the invariants about mates can be disturbed.               *)
LEMMA Matches ==
  ASSUME ValidationTypeOK, [ValidationNext]_validationVars
  PROVE  \/ mate' = mate
         \/ Exact /\ line \in Lines /\ \E i \in Items :
              SameName(line, i) /\ mate' = [mate EXCEPT ![line] = i]
         \/ Compares /\ Wanted /\ Alike(line, item) /\ seen[item].name \notin Matched
              /\ mate' = [mate EXCEPT ![line] = item]
BY DEF ValidationNext, validationVars, input, Exact, ExactEnds, Skips, Compares, NextLine,
       SemanticEnds,
       Relabels, NextItem, RelabelEnds, Yes

---------------------------------------------------------------------------
(* What pass 1 and pass 2 leave, and what pass 3 may ignore.               *)
ValidationInv ==
  /\ ValidationTypeOK /\ NothingIgnoredEarly
  /\ MatesAreRight /\ ExactByName /\ ExactKept /\ MatesDiffer
  /\ NoPairOverlooked /\ IgnoredAreAlike /\ IgnoredIsRelabel

LEMMA ValidationStarts == ValidationInit => ValidationInv
<1> SUFFICES ASSUME ValidationInit PROVE ValidationInv OBVIOUS
<1>1. ValidationTypeOK BY TypeInit
<1>2. /\ pass = "exact" /\ line = 1 /\ item = 1 /\ relabels = {}
      /\ \A l \in Lines : mate[l] = 0 /\ l >= 1
  BY DEF ValidationInit, Lines
<1>3. MatesAreRight /\ ExactByName /\ MatesDiffer
  BY <1>2 DEF MatesAreRight, ExactByName, MatesDiffer
<1>4. ExactKept BY <1>2 DEF ExactKept, Lines
<1>5. NothingIgnoredEarly /\ NoPairOverlooked /\ IgnoredAreAlike /\ IgnoredIsRelabel
  BY <1>2 DEF NothingIgnoredEarly, NoPairOverlooked, Left, IgnoredAreAlike, IgnoredIsRelabel
<1> QED BY <1>1, <1>3, <1>4, <1>5 DEF ValidationInv

LEMMA EarlyStep ==
  ValidationTypeOK /\ NothingIgnoredEarly /\ [ValidationNext]_validationVars
    => NothingIgnoredEarly'
BY DEF NothingIgnoredEarly, ValidationNext, validationVars, input, Exact, ExactEnds, Skips,
       Compares, Wanted,
       NextLine, SemanticEnds, Relabels, NextItem, RelabelEnds

(* The mates: only pass 1 and a yes of the service add one.                *)
LEMMA MatesRightStep ==
  ValidationTypeOK /\ MatesAreRight /\ [ValidationNext]_validationVars => MatesAreRight'
<1> SUFFICES ASSUME ValidationTypeOK, MatesAreRight, [ValidationNext]_validationVars,
    NEW l \in Lines, mate'[l] # 0
             PROVE  SameName(l, mate'[l]) \/ Alike(l, mate'[l])
  BY SameInput DEF MatesAreRight, SameName, Alike
<1>1. mate \in [Lines -> 0..Len(seen)] BY DEF ValidationTypeOK
<1>2. CASE mate' = mate BY <1>2 DEF MatesAreRight
<1>3. CASE \E i \in Items : SameName(line, i) /\ mate' = [mate EXCEPT ![line] = i]
  BY <1>1, <1>3 DEF MatesAreRight
<1>4. CASE Alike(line, item) /\ mate' = [mate EXCEPT ![line] = item]
  BY <1>1, <1>4 DEF MatesAreRight
<1> QED BY <1>2, <1>3, <1>4, Matches

LEMMA ExactByNameStep ==
  ValidationTypeOK /\ ExactByName /\ [ValidationNext]_validationVars => ExactByName'
<1> SUFFICES ASSUME ValidationTypeOK, ExactByName, [ValidationNext]_validationVars,
    pass' = "exact", NEW l \in Lines, mate'[l] # 0
             PROVE  SameName(l, mate'[l])
  BY SameInput DEF ExactByName, SameName
<1>1. mate \in [Lines -> 0..Len(seen)] BY DEF ValidationTypeOK
<1>2. pass = "exact"
  BY DEF ValidationNext, validationVars, Exact, ExactEnds, Skips, Compares, Wanted, NextLine,
         SemanticEnds,
         Relabels, NextItem, RelabelEnds
<1>3. CASE mate' = mate BY <1>2, <1>3 DEF ExactByName
<1>4. CASE \E i \in Items : SameName(line, i) /\ mate' = [mate EXCEPT ![line] = i]
  BY <1>1, <1>2, <1>4 DEF ExactByName
<1>5. CASE Wanted BY <1>2, <1>5 DEF Wanted
<1> QED BY <1>3, <1>4, <1>5, Matches

LEMMA MatesDifferStep ==
  ValidationTypeOK /\ ExactByName /\ MatesDiffer /\ [ValidationNext]_validationVars
    => MatesDiffer'
<1> SUFFICES ASSUME ValidationTypeOK, ExactByName, MatesDiffer, [ValidationNext]_validationVars,
    NamesOnce(order),
                    NEW k \in Lines, NEW l \in Lines, mate'[k] # 0, mate'[l] # 0,
                    seen[mate'[k]].name = seen[mate'[l]].name
             PROVE  k = l
  BY SameInput DEF MatesDiffer, NamesOnce
<1>1. mate \in [Lines -> 0..Len(seen)] BY DEF ValidationTypeOK
<1>2. CASE mate' = mate BY <1>2 DEF MatesDiffer
<1>3. CASE Exact /\ line \in Lines /\ \E i \in Items :
             SameName(line, i) /\ mate' = [mate EXCEPT ![line] = i]
  <2>1. pass = "exact" BY <1>3 DEF Exact
  <2>2. \A j \in Lines : mate'[j] # 0 => SameName(j, mate'[j])
    BY <1>1, <1>3, <2>1 DEF ExactByName
  <2> QED BY <2>2 DEF SameName, NamesOnce, Lines
<1>4. CASE /\ line \in Lines /\ seen[item].name \notin Matched
           /\ mate' = [mate EXCEPT ![line] = item]
  <2>1. \A j \in Lines \ {line} : mate'[j] = mate[j]
    BY <1>1, <1>4
  <2>2. mate'[line] = item BY <1>1, <1>4
  <2>3. \A j \in Lines \ {line} : mate'[j] # 0 => seen[mate'[j]].name # seen[item].name
    BY <1>4, <2>1, InMatched
  <2>4. CASE k # line /\ l # line BY <2>1, <2>4 DEF MatesDiffer
  <2>5. CASE k = line /\ l # line BY <2>2, <2>3, <2>5
  <2>6. CASE k # line /\ l = line BY <2>2, <2>3, <2>6
  <2> QED BY <2>4, <2>5, <2>6
<1> QED BY <1>2, <1>3, <1>4, Matches DEF Wanted

(* A line that is done in pass 1 has a mate if it can, and keeps it.       *)
LEMMA ExactKeptStep ==
  ValidationTypeOK /\ ExactKept /\ [ValidationNext]_validationVars => ExactKept'
<1> SUFFICES ASSUME ValidationTypeOK, ExactKept, [ValidationNext]_validationVars,
    NEW l \in Lines, NEW i \in Items,
                    pass' = "exact" => l < line', SameName(l, i)
             PROVE  mate'[l] # 0 /\ SameName(l, mate'[l])
  BY SameInput DEF ExactKept, SameName
<1>1. mate \in [Lines -> 0..Len(seen)] BY DEF ValidationTypeOK
<1>2. line \in Nat \ {0} /\ l \in Nat /\ Len(order) \in Nat
  <2>1. Len(order) \in Nat /\ line \in 1..(Len(order) + 1) BY Sizes DEF ValidationTypeOK
  <2> QED BY <2>1 DEF Lines
<1>3. CASE Exact
  <2>1. pass = "exact" /\ pass' = "exact" /\ line \in Lines /\ line' = line + 1
    BY <1>3 DEF Exact
  <2>2. CASE l = line
    <3>1. PICK j \in Items : SameName(line, j) /\ mate' = [mate EXCEPT ![line] = j]
      BY <1>3, <2>2 DEF Exact
    <3>2. j # 0 BY DEF Items
    <3> QED BY <1>1, <2>2, <3>1, <3>2
  <2>3. CASE l # line
    <3>1. l < line BY <1>2, <2>1, <2>3
    <3>2. mate[l] # 0 /\ SameName(l, mate[l]) BY <3>1 DEF ExactKept
    <3>3. mate'[l] = mate[l] BY <1>1, <1>3, <2>3 DEF Exact
    <3> QED BY <3>2, <3>3
  <2> QED BY <2>2, <2>3
<1>4. CASE ~Exact
  <2>1. pass = "exact" => l < line
    <3>1. CASE ExactEnds BY <1>2, <3>1 DEF ExactEnds, Lines
    <3>2. CASE pass' = pass /\ line' = line BY <3>2
    <3>3. CASE pass # "exact" BY <3>3
    <3> QED
      BY <1>4, <3>1, <3>2, <3>3
      DEF ValidationNext, validationVars, Skips, Compares, Wanted, NextLine, SemanticEnds,
          Relabels, NextItem,
          RelabelEnds
  <2>2. mate[l] # 0 /\ SameName(l, mate[l]) BY <2>1 DEF ExactKept
  <2>3. mate'[l] = mate[l] BY <1>1, <1>4, <2>2, Matches DEF Wanted
  <2> QED BY <2>2, <2>3
<1> QED BY <1>3, <1>4

---------------------------------------------------------------------------
(* The steps of the loops of pass 2 and pass 3 that add no mate.           *)
LEMMA SemanticSteps ==
  ASSUME ValidationTypeOK, [ValidationNext]_validationVars, mate' = mate, ~faulty',
         NEW l \in Lines, NEW i \in Items, Left(l, i)', mate[l] = 0, seen[i].name \notin Matched,
         NothingIgnoredEarly
  PROVE  ~faulty /\ (Left(l, i) \/ ~Alike(l, i))
<1>1. /\ line \in 1..(Len(order) + 1) /\ item \in 1..(Len(seen) + 1)
      /\ Len(order) \in Nat /\ Len(seen) \in Nat
  BY Sizes DEF ValidationTypeOK
<1>2. l \in 1..Len(order) /\ i \in 1..Len(seen) BY DEF Lines, Items
<1>3. ~faulty
  BY DEF ValidationNext, validationVars, input, Exact, ExactEnds, Skips, Compares, NextLine,
         SemanticEnds,
         Relabels, NextItem, RelabelEnds, Yes, No
<1> SUFFICES Left(l, i) \/ ~Alike(l, i) BY <1>3
<1>4. CASE Exact BY <1>4 DEF Exact, Left
<1>5. CASE ExactEnds
  BY <1>1, <1>2, <1>5 DEF ExactEnds, Left, NothingIgnoredEarly
<1>6. CASE Skips
  <2>1. i # item BY <1>6 DEF Skips
  <2> QED BY <1>1, <1>2, <1>6, <2>1 DEF Skips, Wanted, Left
<1>7. CASE Compares
  <2>1. CASE Yes(line, item) /\ mate' = [mate EXCEPT ![line] = item] /\ item' = item
    BY <1>7, <2>1 DEF Compares, Wanted, Left
  <2>2. CASE No(line, item) /\ item' = item + 1
    <3>1. ~Alike(line, item) BY <2>2 DEF No
    <3>2. pass' = pass /\ line' = line /\ pass = "semantic" BY <1>7 DEF Compares, Wanted
    <3>3. CASE l = line /\ i = item BY <3>1, <3>3
    <3>4. CASE l # line \/ i # item
      BY <1>1, <1>2, <2>2, <3>2, <3>4 DEF Left
    <3> QED BY <3>3, <3>4
  <2> QED BY <1>7, <2>1, <2>2 DEF Compares
<1>8. CASE NextLine
  BY <1>1, <1>2, <1>8 DEF NextLine, Left, Items
<1>9. CASE SemanticEnds
  BY <1>1, <1>2, <1>9 DEF SemanticEnds, Left, Lines
<1>10. CASE Relabels BY <1>10 DEF Relabels, Left
<1>11. CASE NextItem BY <1>11 DEF NextItem, Left
<1>12. CASE RelabelEnds BY <1>12 DEF RelabelEnds, Left
<1>13. CASE UNCHANGED validationVars BY <1>13 DEF validationVars, Left
<1> QED
  BY <1>4, <1>5, <1>6, <1>7, <1>8, <1>9, <1>10, <1>11, <1>12, <1>13 DEF ValidationNext

LEMMA NoPairStep ==
  ValidationTypeOK /\ NothingIgnoredEarly /\ NoPairOverlooked /\ [ValidationNext]_validationVars
    => NoPairOverlooked'
<1> SUFFICES ASSUME ValidationTypeOK, NothingIgnoredEarly, NoPairOverlooked,
    [ValidationNext]_validationVars, ~faulty',
                    NEW l \in Lines, NEW i \in Items,
                    mate'[l] = 0, seen[i].name \notin Matched', Left(l, i)'
             PROVE  ~Alike(l, i)
  BY SameInput DEF NoPairOverlooked, Alike
<1>1. CASE mate' = mate
  <2>1. seen[i].name \notin Matched BY <1>1, MatchedKept
  <2>2. ~faulty /\ (Left(l, i) \/ ~Alike(l, i)) BY <1>1, <2>1, SemanticSteps
  <2> QED BY <1>1, <2>1, <2>2 DEF NoPairOverlooked
<1>2. CASE Exact BY <1>2 DEF Exact, Left
<1>3. CASE Compares /\ Wanted /\ mate' = [mate EXCEPT ![line] = item] /\ mate' # mate
  <2>1. /\ line \in Lines /\ item \in Items /\ mate[line] = 0 BY <1>3 DEF Wanted
  <2>2. /\ mate'[line] # 0 /\ Matched \subseteq Matched'
        /\ \A k \in Lines : k # line => mate'[k] = mate[k]
    BY <1>3, <2>1, MatchedGrows
  <2>3. mate[l] = 0 /\ seen[i].name \notin Matched BY <2>2
  <2>4. Left(l, i) /\ ~faulty
    BY <1>3 DEF Compares, Left, Yes, No
  <2> QED BY <2>3, <2>4 DEF NoPairOverlooked
<1> QED BY <1>1, <1>2, <1>3, Matches

---------------------------------------------------------------------------
(* Pass 3: what is ignored.                                                *)
LEMMA Ignores ==
  ASSUME [ValidationNext]_validationVars
  PROVE  \/ relabels' = relabels
         \/ /\ Relabels /\ pass = "relabel" /\ line \in Lines /\ item \in Items
            /\ ~Settled /\ Alike(line, item) /\ mate' = mate /\ faulty' = faulty
            /\ relabels' = relabels \cup {seen[item].name}
BY DEF ValidationNext, validationVars, input, Exact, ExactEnds, Skips, Compares, NextLine,
       SemanticEnds,
       Relabels, NextItem, RelabelEnds, Yes

LEMMA IgnoredAlikeStep == IgnoredAreAlike /\ [ValidationNext]_validationVars => IgnoredAreAlike'
<1> SUFFICES ASSUME IgnoredAreAlike, [ValidationNext]_validationVars, NEW i \in Items,
    seen[i].name \in relabels'
             PROVE  \E l \in Lines : Alike(l, i)
  BY SameInput DEF IgnoredAreAlike, Alike
<1>1. CASE seen[i].name \in relabels BY <1>1 DEF IgnoredAreAlike
<1>2. CASE line \in Lines /\ Alike(line, item) /\ seen[i].name = seen[item].name
  BY <1>2 DEF Alike
<1> QED BY <1>1, <1>2, Ignores

LEMMA IgnoredRelabelStep ==
  ASSUME ValidationTypeOK, NothingIgnoredEarly, NoPairOverlooked, IgnoredIsRelabel,
      [ValidationNext]_validationVars
  PROVE  IgnoredIsRelabel'
<1> SUFFICES ASSUME ~faulty', NEW i \in Items, seen[i].name \in relabels'
             PROVE  \E l \in Lines : mate'[l] # 0 /\ Alike(l, i)
  BY SameInput DEF IgnoredIsRelabel, Alike
<1>1. ~faulty
  BY DEF ValidationNext, validationVars, input, Exact, ExactEnds, Skips, Compares, NextLine,
         SemanticEnds,
         Relabels, NextItem, RelabelEnds, Yes, No
<1>2. CASE seen[i].name \in relabels
  <2>1. PICK l \in Lines : mate[l] # 0 /\ Alike(l, i) BY <1>1, <1>2 DEF IgnoredIsRelabel
  <2>2. pass \notin {"exact", "semantic"} BY <1>2 DEF NothingIgnoredEarly
  <2>3. mate' = mate BY <2>2, Matches DEF Exact, Wanted
  <2> QED BY <2>1, <2>3
<1>3. CASE seen[i].name \notin relabels
  <2>1. /\ pass = "relabel" /\ line \in Lines /\ item \in Items /\ ~Settled
        /\ Alike(line, item) /\ mate' = mate /\ seen[i].name = seen[item].name
    BY <1>3, Ignores
  <2>2. seen[item].name \notin Matched BY <2>1 DEF Settled
  <2>3. mate[line] # 0 BY <1>1, <2>1, <2>2 DEF NoPairOverlooked, Left
  <2>4. Alike(line, i) BY <2>1 DEF Alike
  <2> QED BY <2>1, <2>3, <2>4
<1> QED BY <1>2, <1>3

---------------------------------------------------------------------------
LEMMA ValidationGoesOn == ValidationInv /\ [ValidationNext]_validationVars => ValidationInv'
<1> SUFFICES ASSUME ValidationInv, [ValidationNext]_validationVars PROVE ValidationInv' OBVIOUS
<1>1. ValidationTypeOK' /\ NothingIgnoredEarly' BY TypeStep, EarlyStep DEF ValidationInv
<1>2. MatesAreRight' /\ ExactByName' /\ MatesDiffer'
  BY MatesRightStep, ExactByNameStep, MatesDifferStep DEF ValidationInv
<1>3. ExactKept' BY ExactKeptStep DEF ValidationInv
<1>4. NoPairOverlooked' BY NoPairStep DEF ValidationInv
<1>5. IgnoredAreAlike' /\ IgnoredIsRelabel'
  BY IgnoredAlikeStep, IgnoredRelabelStep DEF ValidationInv
<1> QED BY <1>1, <1>2, <1>3, <1>4, <1>5 DEF ValidationInv

LEMMA InvAlways == ValidationSpec => []ValidationInv
BY ValidationStarts, ValidationGoesOn, PTL DEF ValidationSpec

(* An item that is ignored is a second label of a line that has its match, *)
(* for orders and reports of any length, unless a comparison failed: pass 3 *)
(* may ask for all lines because pass 2 leaves nothing alike behind.       *)
THEOREM IgnoredItemsAreRelabels == ValidationSpec => []IgnoredIsRelabel
<1>1. ValidationInv => IgnoredIsRelabel BY DEF ValidationInv
<1> QED BY <1>1, InvAlways, PTL

(* The three lists of the report are empty: every line has its mate.       *)
LEMMA ValidatedFact == ValidationInv => ValidatedIsRight
<1> SUFFICES ASSUME ValidationInv, Validated, NamesOnce(order)
             PROVE  /\ \E f \in [Lines -> Items] :
                          /\ \A l \in Lines : Right(l, f[l])
                          /\ \A k, l \in Lines : seen[f[k]].name = seen[f[l]].name => k = l
                    /\ \A i \in Items : \E l \in Lines : SameName(l, i) \/ Alike(l, i)
  BY DEF ValidatedIsRight
<1>1. mate \in [Lines -> 0..Len(seen)] /\ Len(seen) \in Nat
  BY Sizes DEF ValidationInv, ValidationTypeOK
<1>2. \A l \in Lines : mate[l] # 0 BY DEF Validated, Missing
<1>3. mate \in [Lines -> Items] BY <1>1, <1>2 DEF Items
<1>4. ASSUME NEW l \in Lines PROVE Right(l, mate[l])
  <2>1. SameName(l, mate[l]) \/ Alike(l, mate[l]) BY <1>2 DEF ValidationInv, MatesAreRight
  <2>2. seen[mate[l]].quantity = order[l].quantity BY <1>2 DEF Validated, Mismatched
  <2> QED BY <2>1, <2>2 DEF Right
<1>5. \A k, l \in Lines : seen[mate[k]].name = seen[mate[l]].name => k = l
  BY <1>2 DEF ValidationInv, MatesDiffer
<1>6. ASSUME NEW i \in Items PROVE \E l \in Lines : SameName(l, i) \/ Alike(l, i)
  <2>1. seen[i].name \in Matched \cup relabels BY DEF Validated, Extra
  <2>2. CASE seen[i].name \in Matched
    <3>1. PICK l \in Lines : seen[i].name = seen[mate[l]].name BY <2>2, InMatched
    <3>2. SameName(l, mate[l]) \/ Alike(l, mate[l]) BY <1>4 DEF Right
    <3> QED BY <3>1, <3>2 DEF SameName, Alike
  <2>3. CASE seen[i].name \in relabels BY <2>3 DEF ValidationInv, IgnoredAreAlike
  <2> QED BY <2>1, <2>2, <2>3
<1> QED BY <1>3, <1>4, <1>5, <1>6

(* Whatever comparisons fail: an order that is validated has for each line *)
(* an item of its own, right and in the right quantity, and nothing on the *)
(* table is foreign to it.                                                 *)
THEOREM ValidatedOrdersAreRight == ValidationSpec => []ValidatedIsRight
BY ValidatedFact, InvAlways, PTL

LEMMA ServedFact == ValidationInv => ServedIsValidated
<1> SUFFICES ASSUME ValidationInv, pass = "done", NamesOnce(order), NamesOnce(seen),
    Entries(order) = Entries(seen)
             PROVE  Validated
  BY DEF ServedIsValidated
<1>1. mate \in [Lines -> 0..Len(seen)] /\ Len(seen) \in Nat
  BY Sizes DEF ValidationInv, ValidationTypeOK
<1>2. \A l \in Lines, i \in Items : SameName(l, i) => mate[l] # 0 /\ SameName(l, mate[l])
  BY DEF ValidationInv, ExactKept
<1>3. ASSUME NEW l \in Lines
      PROVE  mate[l] # 0 /\ seen[mate[l]].quantity = order[l].quantity
  <2>1. order[l] \in Entries(order) BY DEF Entries, Lines
  <2>2. PICK i \in Items : seen[i] = order[l] BY <2>1 DEF Entries, Items
  <2>3. mate[l] # 0 /\ SameName(l, mate[l]) BY <1>2, <2>2 DEF SameName
  <2>4. mate[l] \in Items BY <1>1, <2>3 DEF Items
  <2>5. mate[l] = i BY <2>2, <2>3, <2>4 DEF SameName, NamesOnce, Items
  <2> QED BY <2>2, <2>3, <2>5
<1>4. ASSUME NEW i \in Items PROVE seen[i].name \in Matched
  <2>1. seen[i] \in Entries(seen) BY DEF Entries, Items
  <2>2. PICK l \in Lines : order[l] = seen[i] BY <2>1 DEF Entries, Lines
  <2>3. mate[l] # 0 /\ SameName(l, mate[l]) BY <1>2, <2>2 DEF SameName
  <2> QED BY <2>2, <2>3, InMatched DEF SameName
<1> QED BY <1>3, <1>4 DEF Validated, Missing, Mismatched, Extra

(* An order that is on the table as ordered is validated, whatever the     *)
(* service says: names that are equal never depend on it.                  *)
THEOREM ServedOrdersAreValidated == ValidationSpec => []ServedIsValidated
BY ServedFact, InvAlways, PTL
=============================================================================
