----------------------------- MODULE RequestReply -----------------------------
(***************************************************************************)
(* What the VLM scheduler promises the station workers: every request put  *)
(* is answered at most once, with an answer to that very request, handed   *)
(* to the station that asked; a station has one request at a time and      *)
(* either accepts its answer or gives it up.                               *)
(***************************************************************************)
CONSTANTS Request,       (* the requests stations may make                   *)
          StationOf(_),  (* the station a request comes from                 *)
          Nobody         (* no answer                                        *)

VARIABLES
  open,      (* requests put and not yet answered                            *)
  answers,   (* answers not yet looked at: [request, ok]                     *)
  status,    (* what became of each request at its station                   *)
  got        (* the answer its station returned for it                       *)

vars == <<open, answers, status, got>>

Response == [request : Request, ok : BOOLEAN]

Waiting(r) == status[r] = "pending"

Init ==
  /\ open = {}
  /\ answers = {}
  /\ status = [r \in Request |-> "unsent"]
  /\ got = [r \in Request |-> Nobody]

Ask(r) ==
  /\ status[r] = "unsent"
  /\ \A q \in Request : StationOf(q) = StationOf(r) => ~Waiting(q)
  /\ status' = [status EXCEPT ![r] = "pending"]
  /\ open' = open \cup {r}
  /\ UNCHANGED <<answers, got>>

(* The model's answer, or the error reported in its place.                 *)
Answer(r, ok) ==
  /\ r \in open
  /\ open' = open \ {r}
  /\ answers' = answers \cup {[request |-> r, ok |-> ok]}
  /\ UNCHANGED <<status, got>>

Accept(a) ==
  /\ a \in answers
  /\ Waiting(a.request)
  /\ answers' = answers \ {a}
  /\ status' = [status EXCEPT ![a.request] = "answered"]
  /\ got' = [got EXCEPT ![a.request] = a]
  /\ UNCHANGED open

(* The station has given the request up: its answer is thrown away.        *)
Discard(a) ==
  /\ a \in answers
  /\ status[a.request] = "lost"
  /\ answers' = answers \ {a}
  /\ UNCHANGED <<open, status, got>>

GiveUp(r) ==
  /\ Waiting(r)
  /\ status' = [status EXCEPT ![r] = "lost"]
  /\ UNCHANGED <<open, answers, got>>

Next ==
  \/ \E r \in Request : Ask(r) \/ GiveUp(r)
  \/ \E r \in Request, ok \in BOOLEAN : Answer(r, ok)
  \/ \E a \in Response : Accept(a) \/ Discard(a)

Spec == Init /\ [][Next]_vars
=============================================================================
