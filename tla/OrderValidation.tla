--------------------------- MODULE OrderValidation ---------------------------
(***************************************************************************)
(* validate_order of take-away (core/validation_agent.py): the three passes *)
(* that compare the lines of an order with the items the model saw, with a *)
(* request to the semantic service for every pair of names that differ     *)
(* (core/semantic_client.py), and the verdict its callers take from the    *)
(* report (core/vlm_service.py, parallel/station_worker.py).               *)
(*                                                                         *)
(* The code compares names in lower case and keeps the names matched in a  *)
(* set, the lines without a match in one list and those of another         *)
(* quantity in a second.  All three follow from which item was taken for   *)
(* which line: mate.                                                       *)
(***************************************************************************)
EXTENDS Naturals, Sequences

CONSTANTS
  Product,      (* names, in lower case                                      *)
  MaxQuantity,  (* bound: pieces of one product                              *)
  Orders,       (* the orders of orders.json                                 *)
  Detections    (* what the model may report                                 *)

Entry == [name : Product, quantity : 1..MaxQuantity]

ASSUME ValidationAssumption ==
  MaxQuantity \in Nat /\ Orders \subseteq Seq(Entry) /\ Detections \subseteq Seq(Entry)

VARIABLES
  order,    (* expected_items                                                *)
  seen,     (* detected_items                                                *)
  alike,    (* pairs of names the service takes for one product              *)
  pass,     (* the pass under way                                            *)
  line,     (* the loop over expected_items                                  *)
  item,     (* the loop over detected_items                                  *)
  mate,     (* the item taken for each line, or 0                            *)
  relabels, (* duplicate_detected: names                                     *)
  faulty    (* history: a comparison failed that should have matched         *)

input == <<order, seen, alike>>

validationVars == <<input, pass, line, item, mate, relabels, faulty>>

Lines == 1..Len(order)

Items == 1..Len(seen)

(* Without the matches of pass 2, and without those of pass 1.             *)
MatchedExactly == {seen[mate[l]].name : l \in {k \in Lines : mate[k] # 0 /\ order[k].name = seen[mate[k]].name}}

MatchedLater == {seen[mate[l]].name : l \in {k \in Lines : mate[k] # 0 /\ order[k].name # seen[mate[k]].name}}

Matched == {seen[mate[l]].name : l \in {k \in Lines : mate[k] # 0}}

ValidationTypeOK ==
  /\ order \in Seq(Entry) /\ seen \in Seq(Entry) /\ alike \subseteq Product \X Product
  /\ pass \in {"exact", "semantic", "relabel", "done"}
  /\ line \in 1..(Len(order) + 1) /\ item \in 1..(Len(seen) + 1)
  /\ mate \in [Lines -> 0..Len(seen)]
  /\ relabels \subseteq Product /\ faulty \in BOOLEAN

(* Two equal names never reach the service.                                *)
Answers == SUBSET {p \in Product \X Product : p[1] # p[2]}

ValidationInit ==
  /\ order \in Orders /\ seen \in Detections /\ alike \in Answers
  /\ pass = "exact" /\ line = 1 /\ item = 1
  /\ mate = [l \in Lines |-> 0] /\ relabels = {} /\ faulty = FALSE

SameName(l, i) == order[l].name = seen[i].name

Alike(l, i) == <<order[l].name, seen[i].name>> \in alike

---------------------------------------------------------------------------
(* semantic_match_wrapper.  The client answers "no match" when the request *)
(* fails or times out, so the wrapper never falls back; the local matcher  *)
(* says no when openvino_genai is missing, which is not in the image.      *)

Yes(l, i) == Alike(l, i) /\ UNCHANGED faulty

No(l, i) == faulty' = (faulty \/ Alike(l, i))

---------------------------------------------------------------------------
(* Pass 1: the first item of the line's own name.                          *)

Exact ==
  /\ pass = "exact" /\ line \in Lines /\ line' = line + 1
  /\ \/ \E i \in Items :
          /\ SameName(line, i) /\ \A j \in 1..(i - 1) : ~SameName(line, j)
          /\ mate' = [mate EXCEPT ![line] = i]
     \/ (\A i \in Items : ~SameName(line, i)) /\ UNCHANGED mate
  /\ UNCHANGED <<input, pass, item, relabels, faulty>>

ExactEnds ==
  /\ pass = "exact" /\ line \notin Lines /\ pass' = "semantic" /\ line' = 1
  /\ UNCHANGED <<input, item, mate, relabels, faulty>>

---------------------------------------------------------------------------
(* Pass 2: for each line still missing, the first item whose name has no   *)
(* match yet and that the service takes for it.                            *)

Wanted == pass = "semantic" /\ line \in Lines /\ mate[line] = 0 /\ item \in Items

Skips ==
  /\ Wanted /\ seen[item].name \in Matched
  /\ item' = item + 1
  /\ UNCHANGED <<input, pass, line, mate, relabels, faulty>>

(* A line that is given up at the first no.                                *)
ComparesOnce ==
  /\ Wanted /\ seen[item].name \notin Matched
  /\ \/ Yes(line, item) /\ mate' = [mate EXCEPT ![line] = item] /\ UNCHANGED item
     \/ No(line, item) /\ item' = Len(seen) + 1 /\ UNCHANGED mate
  /\ UNCHANGED <<input, pass, line, relabels>>

Compares ==
  /\ Wanted /\ seen[item].name \notin Matched
  /\ \/ Yes(line, item) /\ mate' = [mate EXCEPT ![line] = item] /\ UNCHANGED item
     \/ No(line, item) /\ item' = item + 1 /\ UNCHANGED mate
  /\ UNCHANGED <<input, pass, line, relabels>>

NextLine ==
  /\ pass = "semantic" /\ line \in Lines /\ (mate[line] # 0 \/ item \notin Items)
  /\ line' = line + 1 /\ item' = 1
  /\ UNCHANGED <<input, pass, mate, relabels, faulty>>

SemanticEnds ==
  /\ pass = "semantic" /\ line \notin Lines
  /\ pass' = "relabel" /\ line' = 1 /\ item' = 1
  /\ UNCHANGED <<input, mate, relabels, faulty>>

---------------------------------------------------------------------------
(* Pass 3: each item without a match, compared with every line.            *)

Settled == seen[item].name \in Matched \cup relabels

Relabels ==
  /\ pass = "relabel" /\ item \in Items /\ ~Settled /\ line \in Lines
  /\ \/ Yes(line, item) /\ relabels' = relabels \cup {seen[item].name} /\ UNCHANGED line
     \/ No(line, item) /\ line' = line + 1 /\ UNCHANGED relabels
  /\ UNCHANGED <<input, pass, item, mate>>

NextItem ==
  /\ pass = "relabel" /\ item \in Items /\ (Settled \/ line \notin Lines)
  /\ item' = item + 1 /\ line' = 1
  /\ UNCHANGED <<input, pass, mate, relabels, faulty>>

RelabelEnds ==
  /\ pass = "relabel" /\ item \notin Items /\ pass' = "done"
  /\ UNCHANGED <<input, line, item, mate, relabels, faulty>>

ValidationNext ==
  \/ Exact \/ ExactEnds
  \/ Skips \/ Compares \/ NextLine \/ SemanticEnds
  \/ Relabels \/ NextItem \/ RelabelEnds

ValidationSpec == ValidationInit /\ [][ValidationNext]_validationVars

---------------------------------------------------------------------------
(* The report, and the verdict.                                            *)

Missing == {l \in Lines : mate[l] = 0}

Mismatched == {l \in Lines : mate[l] # 0 /\ seen[mate[l]].quantity # order[l].quantity}

Extra == {i \in Items : seen[i].name \notin Matched \cup relabels}

Validated == pass = "done" /\ Missing = {} /\ Mismatched = {} /\ Extra = {}

---------------------------------------------------------------------------
(* The order of orders.json names a product once.                          *)
NamesOnce(s) == \A j, k \in 1..Len(s) : s[j].name = s[k].name => j = k

(* An item that is ignored is a second label of a line that has its match, *)
(* as the comment of pass 3 has it, although the code asks for all lines:  *)
(* a line without a match has been compared with every item left over.     *)
(* When a comparison failed this does not hold: an item then vanishes from *)
(* the report while its line is reported missing.                          *)
IgnoredIsRelabel ==
  ~faulty => \A i \in Items : seen[i].name \in relabels =>
    \E l \in Lines : mate[l] # 0 /\ Alike(l, i)

Right(l, i) == (SameName(l, i) \/ Alike(l, i)) /\ order[l].quantity = seen[i].quantity

(* Whatever comparisons failed, an order is validated only if every line   *)
(* has an item of its own, right and in the right quantity, and everything *)
(* else that was seen is the same product as some line.                    *)
ValidatedIsRight ==
  Validated /\ NamesOnce(order) =>
    /\ \E f \in [Lines -> Items] :
         /\ \A l \in Lines : Right(l, f[l])
         /\ \A k, l \in Lines : seen[f[k]].name = seen[f[l]].name => k = l
    /\ \A i \in Items : \E l \in Lines : SameName(l, i) \/ Alike(l, i)

Entries(s) == {s[k] : k \in 1..Len(s)}

(* An order whose lines are all on the table, under their own names and    *)
(* nothing with them, is validated, whatever the service says or fails to  *)
(* say.                                                                    *)
ServedIsValidated ==
  pass = "done" /\ NamesOnce(order) /\ NamesOnce(seen) /\ Entries(order) = Entries(seen) => Validated
=============================================================================
