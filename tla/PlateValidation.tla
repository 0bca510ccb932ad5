---------------------------- MODULE PlateValidation ----------------------------
(***************************************************************************)
(* Dine-in validation (dine-in/src/services: vlm_client.py,                *)
(* semantic_client.py, validation_service.py): tasks of one event loop -   *)
(* API requests, benchmark workers - each ask OVMS what is on a photograph *)
(* and the semantic service which of the items are those of the order.     *)
(* They share two circuit breakers; between two awaits a task is alone.    *)
(***************************************************************************)
EXTENDS CircuitBreaker, Sequences

CONSTANTS
  Task,      (* validations in progress at the same time                     *)
  Name,      (* item names, as lower().strip() leaves them                   *)
  Orders,    (* orders: sequences of lines [name, qty]                       *)
  Plates,    (* what OVMS may see: sequences of items [name, qty]            *)
  Likeness,  (* the confidence of the semantic service, from 0 to Top        *)
  Top,       (* similarity of 1.0                                            *)
  Cut        (* similarity_threshold (0.7), of the service's "match" as well *)

Item == [name : Name, qty : Nat]

ASSUME PlateAssumption ==
  /\ Orders \subseteq Seq(Item) /\ Plates \subseteq Seq(Item)
  /\ Top \in Nat \ {0} /\ Cut \in 1..Top
  /\ Likeness \in [Name \X Name -> 0..Top]

(* The service finds a name like itself and no other one quite as like.    *)
ASSUME ServiceAssumption ==
  \A x, y \in Name : Likeness[<<x, y>>] = Top <=> x = y

VARIABLES
  vlm,       (* the breaker of VLMClient                                     *)
  semantic,  (* the breaker of SemanticClient                                *)
  at,        (* where a task is                                              *)
  order,     (* expected_items                                               *)
  plate,     (* detected_items                                               *)
  pairs,     (* for each line dealt with, the item matched; 0: missing       *)
  seen,      (* the last item compared with the current line                 *)
  best,      (* best_match: an item, or 0                                    *)
  likeness,  (* best_similarity                                              *)
  garbled    (* an answer of the semantic service could not be read          *)

work == <<order, plate, pairs, seen, best, likeness, garbled>>
vars == <<vlm, semantic, at, work>>

TypeOK ==
  /\ SoundBreaker(vlm) /\ SoundBreaker(semantic)
  /\ at \in [Task -> {"idle", "post", "match", "compare", "reply"}]
  /\ order \in [Task -> Orders \cup {<<>>}]
  /\ plate \in [Task -> Plates \cup {<<>>}]
  /\ pairs \in [Task -> Seq(Nat)]
  /\ seen \in [Task -> Nat]
  /\ best \in [Task -> Nat]
  /\ likeness \in [Task -> 0..Top]
  /\ garbled \in [Task -> BOOLEAN]
  /\ \A t \in Task :
       /\ Len(pairs[t]) <= Len(order[t])
       /\ \A i \in DOMAIN pairs[t] : pairs[t][i] <= Len(plate[t])
       /\ seen[t] <= Len(plate[t]) /\ best[t] <= seen[t]

Init ==
  /\ vlm = NewBreaker /\ semantic = NewBreaker
  /\ at = [t \in Task |-> "idle"]
  /\ order = [t \in Task |-> <<>>] /\ plate = [t \in Task |-> <<>>]
  /\ pairs = [t \in Task |-> <<>>]
  /\ seen = [t \in Task |-> 0] /\ best = [t \in Task |-> 0]
  /\ likeness = [t \in Task |-> 0] /\ garbled = [t \in Task |-> FALSE]

---------------------------------------------------------------------------
(* The locals of a task begin afresh in every call.                        *)
Forget(t) ==
  /\ at' = [at EXCEPT ![t] = "idle"]
  /\ order' = [order EXCEPT ![t] = <<>>] /\ plate' = [plate EXCEPT ![t] = <<>>]
  /\ pairs' = [pairs EXCEPT ![t] = <<>>]
  /\ seen' = [seen EXCEPT ![t] = 0] /\ best' = [best EXCEPT ![t] = 0]
  /\ likeness' = [likeness EXCEPT ![t] = 0] /\ garbled' = [garbled EXCEPT ![t] = FALSE]

(* analyze_plate encodes the image before it asks the breaker: an image    *)
(* that cannot be encoded counts as a failure of OVMS, in any state of it. *)
BadImage(t) ==
  /\ at[t] = "idle"
  /\ vlm' = Failed(vlm)
  /\ UNCHANGED <<semantic, at, work>>

(* An open breaker refuses the call, which leaves nothing behind.          *)
Send(t) ==
  /\ at[t] = "idle" /\ Admits(vlm)
  /\ vlm' = Admitted(vlm)
  /\ at' = [at EXCEPT ![t] = "post"]
  /\ \E o \in Orders : order' = [order EXCEPT ![t] = o]
  /\ UNCHANGED <<semantic, plate, pairs, seen, best, likeness, garbled>>

(* Whatever the text of the answer, _parse_response makes a list of it:    *)
(* what it cannot read it leaves out.                                      *)
Recognised == Plates \cup {<<>>}

(* A readable answer: its success counts before it is parsed.              *)
Answer(t) ==
  /\ at[t] = "post"
  /\ vlm' = Succeeded(vlm)
  /\ \E p \in Recognised : plate' = [plate EXCEPT ![t] = p]
  /\ at' = [at EXCEPT ![t] = IF order[t] = <<>> THEN "reply" ELSE "match"]
  /\ UNCHANGED <<semantic, order, pairs, seen, best, likeness, garbled>>

(* An HTTPError is recorded where it is caught and again by the handler    *)
(* around it; any other exception by the latter, and if the body is no     *)
(* JSON or has no text, after the success of the request.                  *)
HttpFails(t) ==
  /\ at[t] = "post"
  /\ vlm' = Failed(Failed(vlm))
  /\ Forget(t) /\ UNCHANGED semantic

OtherFails(t) ==
  /\ at[t] = "post"
  /\ vlm' \in {Failed(vlm), Failed(Succeeded(vlm))}
  /\ Forget(t) /\ UNCHANGED semantic

(* A worker is cancelled while it awaits: no handler of Exception sees it. *)
CancelPost(t) ==
  /\ at[t] = "post"
  /\ Forget(t) /\ UNCHANGED <<vlm, semantic>>

---------------------------------------------------------------------------
(* SemanticValidationStrategy.validate: for every line of the order the    *)
(* items not used are compared in turn, and the most similar one is taken. *)
Used(t) == {pairs[t][i] : i \in DOMAIN pairs[t]}

LeftAnyway(t) == {k \in DOMAIN plate[t] : k > seen[t]}

Left(t) == {k \in DOMAIN plate[t] : k > seen[t] /\ k \notin Used(t)}

IsTurn(t, k) == k \in Left(t) /\ \A m \in Left(t) : k <= m

Line(t) == order[t][Len(pairs[t]) + 1]

JudgeFirst(t, k, like, match) ==
  /\ seen' = [seen EXCEPT ![t] = k]
  /\ at' = [at EXCEPT ![t] = "match"]
  /\ IF match /\ best[t] = 0
       THEN best' = [best EXCEPT ![t] = k] /\ likeness' = [likeness EXCEPT ![t] = like]
       ELSE UNCHANGED <<best, likeness>>
  /\ UNCHANGED <<order, plate, pairs>>

Judge(t, k, like, match) ==
  /\ seen' = [seen EXCEPT ![t] = k]
  /\ at' = [at EXCEPT ![t] = "match"]
  /\ IF match /\ like > likeness[t]
       THEN best' = [best EXCEPT ![t] = k] /\ likeness' = [likeness EXCEPT ![t] = like]
       ELSE UNCHANGED <<best, likeness>>
  /\ UNCHANGED <<order, plate, pairs>>

(* _fallback_match: the names are the same or they are not.                *)
Fallback(t, k) ==
  LET same == Line(t).name = plate[t][k].name
  IN  Judge(t, k, IF same THEN Top ELSE 0, same) /\ UNCHANGED garbled

(* An open breaker answers at once.                                        *)
Refused(t) ==
  /\ at[t] = "match" /\ ~Admits(semantic)
  /\ \E k \in Left(t) : IsTurn(t, k) /\ Fallback(t, k)
  /\ UNCHANGED <<vlm, semantic>>

Ask(t) ==
  /\ at[t] = "match" /\ Left(t) # {} /\ Admits(semantic)
  /\ semantic' = Admitted(semantic)
  /\ at' = [at EXCEPT ![t] = "compare"]
  /\ UNCHANGED <<vlm, work>>

Told(t) ==
  /\ at[t] = "compare"
  /\ semantic' = Succeeded(semantic)
  /\ \E k \in Left(t) :
       LET like == Likeness[<<Line(t).name, plate[t][k].name>>]
       IN  IsTurn(t, k) /\ Judge(t, k, like, like >= Cut)
  /\ UNCHANGED <<vlm, garbled>>

NotTold(t) ==
  /\ at[t] = "compare"
  /\ semantic' = Failed(semantic)
  /\ \E k \in Left(t) : IsTurn(t, k) /\ Fallback(t, k)
  /\ UNCHANGED vlm

(* Any other exception, before or after the success: no match.             *)
Unreadable(t) ==
  /\ at[t] = "compare"
  /\ semantic' \in {Failed(semantic), Failed(Succeeded(semantic))}
  /\ \E k \in Left(t) : IsTurn(t, k) /\ Judge(t, k, 0, FALSE)
  /\ garbled' = [garbled EXCEPT ![t] = TRUE]
  /\ UNCHANGED vlm

(* All items compared: the line is matched or missing.                     *)
Settle(t) ==
  /\ at[t] = "match" /\ Left(t) = {}
  /\ pairs' = [pairs EXCEPT ![t] = Append(@, best[t])]
  /\ seen' = [seen EXCEPT ![t] = 0] /\ best' = [best EXCEPT ![t] = 0]
  /\ likeness' = [likeness EXCEPT ![t] = 0]
  /\ at' = [at EXCEPT ![t] = IF Len(pairs'[t]) = Len(order[t]) THEN "reply" ELSE @]
  /\ UNCHANGED <<vlm, semantic, order, plate, garbled>>

(* A quantity that is no number, a cancellation; or the result is stored   *)
(* and returned, once the metrics have been fetched.                       *)
Ends(t) ==
  /\ at[t] \in {"match", "compare", "reply"}
  /\ Forget(t) /\ UNCHANGED <<vlm, semantic>>

Rests ==
  \/ Tired(vlm) /\ vlm' = Rested(vlm) /\ UNCHANGED semantic
  \/ Tired(semantic) /\ semantic' = Rested(semantic) /\ UNCHANGED vlm

VlmFails(t) == BadImage(t) \/ HttpFails(t) \/ OtherFails(t) \/ CancelPost(t)

Replied(t) == Answer(t) \/ VlmFails(t)

Matching(t) ==
  Refused(t) \/ Ask(t) \/ Told(t) \/ NotTold(t) \/ Unreadable(t) \/ Settle(t) \/ Ends(t)

Next ==
  \/ \E t \in Task : Send(t) \/ Replied(t) \/ Matching(t)
  \/ Rests /\ UNCHANGED <<at, work>>

Spec == Init /\ [][Next]_vars

(* Calls of OVMS and of the semantic service end, at the latest with the   *)
(* time-out of their client; a recovery time-out elapses; requests keep    *)
(* coming, as they do while a worker or a benchmark runs.                  *)
BusySpec ==
  /\ Spec
  /\ \A t \in Task : WF_vars(Answer(t) \/ HttpFails(t) \/ OtherFails(t)) /\ WF_vars(Matching(t))
  /\ WF_vars(Rests /\ UNCHANGED <<at, work>>)
  /\ WF_vars(\E t \in Task : Send(t))

---------------------------------------------------------------------------
Missing(t) == {i \in DOMAIN pairs[t] : pairs[t][i] = 0}

Extra(t) == DOMAIN plate[t] \ Used(t)

Mismatch(t) ==
  {i \in DOMAIN pairs[t] \ Missing(t) : order[t][i].qty # plate[t][pairs[t][i]].qty}

(* order_complete of validate_plate.                                       *)
OrderComplete(t) == Missing(t) = {} /\ Mismatch(t) = {} /\ Extra(t) = {}

Alike(x, y) == x = y \/ Likeness[<<x, y>>] >= Cut

(* f takes the items of sequence p for the lines of sequence o.            *)
Matches(f, o, p) ==
  /\ \A i, j \in DOMAIN o : i # j => f[i] # f[j]
  /\ \A k \in DOMAIN p : \E i \in DOMAIN o : f[i] = k
  /\ \A i \in DOMAIN o : Alike(o[i].name, p[f[i]].name) /\ o[i].qty = p[f[i]].qty

(* A plate is called complete only if its items can be matched one to one  *)
(* with the lines of the order, similar in name and equal in quantity:     *)
(* whatever other requests did to the breakers while it was compared, no   *)
(* item stands for two lines (detected_used, validation_service.py 117).   *)
CompleteIsRight ==
  \A t \in Task : at[t] = "reply" /\ OrderComplete(t) =>
    \E f \in [DOMAIN order[t] -> DOMAIN plate[t]] : Matches(f, order[t], plate[t])

DistinctNames(o) == \A i, j \in DOMAIN o : o[i].name = o[j].name => i = j

(* A plate that holds exactly what was ordered is called complete, also    *)
(* when some comparisons were made by the service and others by the        *)
(* fallback, unless an answer of the service could not be read: a similar  *)
(* item earlier on the plate does not take the place of the right one      *)
(* (the best of all, validation_service.py 136).                           *)
ServedIsComplete ==
  \A t \in Task :
    /\ at[t] = "reply" /\ ~garbled[t]
    /\ DistinctNames(order[t]) /\ DistinctNames(plate[t])
    /\ {order[t][i] : i \in DOMAIN order[t]} = {plate[t][k] : k \in DOMAIN plate[t]}
    => OrderComplete(t)

(* When OVMS is well again, its breaker closes and stays closed: neither   *)
(* late answers to calls it admitted before, nor calls refused while it is *)
(* open, keep it from its two successes (vlm_client.py 72-117).            *)
Recovers ==
  <>[][\A t \in Task : ~VlmFails(t)]_vars => <>[](vlm.state = "closed")
=============================================================================
