----------------------------- MODULE OrderDelivery -----------------------------
(***************************************************************************)
(* From call_vlm of the frame selector service to the stored result, by    *)
(* the route that is configured: an HTTP request of its own thread and     *)
(* forgotten (VLM_FIRE_AND_FORGET), a queue and a thread for each station  *)
(* (StationVLMQueue), or RabbitMQ (MessageQueue), with a blocking HTTP     *)
(* request when publishing fails.  All of them end in run_vlm of the VLM   *)
(* service (VLMService).                                                   *)
(***************************************************************************)
EXTENDS Integers, Sequences, SequencesExt, FiniteSets

CONSTANTS Order, Station, StationOf, NoCall, NoOrder, MaxRetries, Attempts, NoMessage

ASSUME DeliveryAssumption ==
  /\ StationOf \in [Order -> Station] /\ NoOrder \notin Order
  /\ MaxRetries \in Nat \ {0} /\ Attempts \in Nat \ {0}

VARIABLES
  line, started, task, serving, bound, step, future, users,   (* VLMService   *)
  declared, ready, unacked, linked, consumer, message, open, attempt, owed, pending,
  route,     (* how the selector delivers (never changes)                    *)
  selector,  (* where its main loop is                                       *)
  sending,   (* the order it is publishing or posting                        *)
  sent,      (* the orders call_vlm was called for                           *)
  backlog,   (* _queue of the StationVLMQueue of each station                *)
  posting,   (* its _current_order                                           *)
  http       (* orders with an HTTP request on its way to the service        *)

Service == INSTANCE VLMService

Queue == INSTANCE MessageQueue

ASSUME NoneAssumption == NoCall \notin Service!Call /\ NoMessage \notin Queue!Message

serviceVars == <<line, started, task, serving, bound, step, future, users>>
queueOnly   == <<declared, ready, unacked, linked, consumer, message, open, attempt>>
historyVars == <<owed, pending>>
queueVars   == <<queueOnly, historyVars>>
selectorVars == <<route, selector, sending, sent, backlog, posting>>

vars == <<serviceVars, queueVars, selectorVars, http>>

MaybeOrder == Order \cup {NoOrder}

TypeOK ==
  /\ Service!TypeOK /\ Queue!TypeOK
  /\ route \in {"fire", "queue", "rabbit"}
  /\ selector \in {"ready", "publish", "post", "stopped"}
  /\ sending \in MaybeOrder
  /\ sent \subseteq Order
  /\ backlog \in [Station -> Seq(Order)]
  /\ posting \in [Station -> MaybeOrder]
  /\ http \subseteq Order

Init ==
  /\ Service!Init /\ Queue!Init
  /\ route \in {"fire", "queue", "rabbit"}
  /\ selector = "ready" /\ sending = NoOrder /\ sent = {}
  /\ backlog = [s \in Station |-> <<>>] /\ posting = [s \in Station |-> NoOrder]
  /\ http = {}

-----------------------------------------------------------------------------
(* call_vlm, for an order that has not been sent.                          *)
Sends(o) ==
  /\ selector = "ready" /\ o \notin sent
  /\ sent' = sent \cup {o}
  /\ pending' = pending \cup {o}

Fires(o) ==
  /\ route = "fire" /\ Sends(o)
  /\ http' = http \cup {o}
  /\ UNCHANGED <<serviceVars, queueOnly, owed, route, selector, sending, backlog, posting>>

Submits(o) ==
  /\ route = "queue" /\ Sends(o)
  /\ backlog' = [backlog EXCEPT ![StationOf[o]] = Append(@, o)]
  /\ UNCHANGED <<serviceVars, queueOnly, owed, route, selector, sending, posting, http>>

BeginsPublishing(o) ==
  /\ route = "rabbit" /\ Sends(o)
  /\ selector' = "publish" /\ sending' = o
  /\ UNCHANGED <<serviceVars, queueOnly, owed, route, backlog, posting, http>>

Publishing ==
  /\ selector = "publish"
  /\ \/ Queue!Opens /\ UNCHANGED <<selector, sending, http>>
     \/ Queue!PublishFails(sending) /\ UNCHANGED <<selector, sending, http>>
     \/ /\ Queue!Publishes(sending)
        /\ selector' = "ready" /\ sending' = NoOrder
        /\ UNCHANGED http
     \/ /\ Queue!PublishGivesUp
        /\ selector' = "post" /\ UNCHANGED sending
        /\ http' = http \cup {sending}
  /\ UNCHANGED <<serviceVars, route, sent, backlog, posting>>

(* A blocking HTTP request comes back with an answer, or after its         *)
(* time-out; nothing is done with either.                                  *)
PostEnds ==
  /\ selector = "post" /\ sending \notin http
  /\ selector' = "ready" /\ sending' = NoOrder
  /\ UNCHANGED <<serviceVars, queueVars, route, sent, backlog, posting, http>>

(* The thread of a station's queue: _worker_loop and _call_vlm_http.       *)
StationPosts(s) ==
  /\ selector # "stopped"
  /\ posting[s] = NoOrder /\ backlog[s] # <<>>
  /\ posting' = [posting EXCEPT ![s] = Head(backlog[s])]
  /\ backlog' = [backlog EXCEPT ![s] = Tail(@)]
  /\ http' = http \cup {Head(backlog[s])}
  /\ UNCHANGED <<serviceVars, queueVars, route, selector, sending, sent>>

StationPosted(s) ==
  /\ posting[s] # NoOrder /\ posting[s] \notin http
  /\ posting' = [posting EXCEPT ![s] = NoOrder]
  /\ UNCHANGED <<serviceVars, queueVars, route, selector, sending, sent, backlog, http>>

(* The end of the selector process: shutdown_all_station_queues leaves     *)
(* what is in the queues.  (On the other routes nothing is left behind: to *)
(* stop is as good as to send no more.)                                    *)
SelectorStops ==
  /\ route = "queue" /\ selector = "ready"
  /\ selector' = "stopped"
  /\ pending' = pending \ UNION {ToSet(backlog[s]) : s \in Station}
  /\ backlog' = [s \in Station |-> <<>>]
  /\ posting' = [s \in Station |-> NoOrder]
  /\ UNCHANGED <<serviceVars, queueOnly, owed, route, sending, sent, http>>

-----------------------------------------------------------------------------
(* POST /run_vlm.                                                          *)

ApiCall(o) == [order |-> o, loop |-> "api"]

ConsumerCall(o) == [order |-> o, loop |-> "consumer"]

Arrives(o) ==
  /\ o \in http
  /\ Service!Put(ApiCall(o))
  /\ http' = http \ {o}
  /\ Queue!Counted(o)
  /\ UNCHANGED <<queueOnly, pending, selectorVars>>

HttpFails(o) ==
  /\ o \in http
  /\ http' = http \ {o}
  /\ pending' = pending \ {o}
  /\ UNCHANGED <<serviceVars, queueOnly, owed, selectorVars>>

(* The consumer's call of run_vlm.                                         *)
ConsumerCalls(o) ==
  /\ Queue!Calls(o)
  /\ Service!Put(ConsumerCall(o))
  /\ UNCHANGED <<selectorVars, http>>

Returns(c) ==
  /\ Service!Returns(c)
  /\ IF c.loop = "consumer"
     THEN Queue!IsAnswered(future[c] = "good")
     ELSE /\ pending' = IF future[c] = "bad" THEN pending \ {c.order} ELSE pending
          /\ UNCHANGED <<queueOnly, owed>>
  /\ UNCHANGED <<selectorVars, http>>

Entering(c) ==
  /\ Service!LooksForWorker(c) \/ Service!StartsWorker(c)
  /\ UNCHANGED <<queueVars, selectorVars, http>>

(* An order validated or found different has its result stored.            *)
Works(s, l) ==
  /\ \/ (Service!Waits(s, l) \/ Service!Takes(s, l)) /\ UNCHANGED <<owed, pending>>
     \/ Service!Finishes(s, l, FALSE) /\ UNCHANGED <<owed, pending>>
     \/ /\ Service!Finishes(s, l, TRUE)
        /\ LET o == serving[<<s, l>>].order
           IN /\ owed' = [owed EXCEPT ![o] = @ - 1]
              /\ pending' = pending \ {o}
  /\ UNCHANGED <<queueOnly, selectorVars, http>>

-----------------------------------------------------------------------------
Selector ==
  \/ \E o \in Order : Fires(o) \/ Submits(o) \/ BeginsPublishing(o)
  \/ Publishing \/ PostEnds \/ SelectorStops
  \/ \E s \in Station : StationPosts(s) \/ StationPosted(s)

Consuming ==
  \/ Queue!Consumer /\ UNCHANGED <<serviceVars, selectorVars, http>>
  \/ \E o \in Order : ConsumerCalls(o)

Connecting == Queue!Connects /\ UNCHANGED <<serviceVars, selectorVars, http>>

Broker ==
  /\ Queue!Expires \/ Queue!LinkBreaks
  /\ UNCHANGED <<serviceVars, selectorVars, http>>

Next ==
  \/ Selector
  \/ Connecting \/ Consuming \/ Broker
  \/ \E o \in Order : Arrives(o) \/ HttpFails(o)
  \/ \E c \in Service!Call : Entering(c) \/ Returns(c)
  \/ \E s \in Station, l \in Service!Loop : Works(s, l)

Spec == Init /\ [][Next]_vars

(* Both loops use the queue of a station.  Then a loop may sleep through   *)
(* what the other one's thread has put before it, or be frozen with a      *)
(* worker in it: nothing is assumed.                                       *)
Mixed == \E s \in Station : users[s] = Service!Loop

(* The threads run, the requests arrive or fail, the broker can be         *)
(* reached, and a VLM call ends.                                           *)
Fairness ==
  /\ WF_vars(Publishing) /\ WF_vars(Connecting) /\ WF_vars(Consuming)
  /\ \A s \in Station : WF_vars(StationPosts(s)) /\ WF_vars(StationPosted(s))
  /\ \A o \in Order : WF_vars(Arrives(o) \/ HttpFails(o))
  /\ \A c \in Service!Call : WF_vars(Entering(c)) /\ WF_vars(~Mixed /\ Returns(c))
  /\ \A s \in Station, l \in Service!Loop : WF_vars(~Mixed /\ Works(s, l))

FairSpec == Spec /\ Fairness
-----------------------------------------------------------------------------
(* Properties.                                                             *)

(* No message and no request leads to two results: what was answered is    *)
(* not delivered again (a publish that fails may leave several messages).  *)
OneResult == \A o \in Order : owed[o] >= 0

(* An order that is sent gets its result, unless it is dropped in one of   *)
(* the places that say so, MAX_RETRIES tries included, or two loops share  *)
(* the queue of a station.                                                 *)
EachIsSettled == \A o \in Order : o \in pending ~> o \notin pending \/ Mixed
=============================================================================
