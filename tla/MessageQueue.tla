----------------------------- MODULE MessageQueue -----------------------------
(***************************************************************************)
(* The RabbitMQ route: the producer of the frame selector service          *)
(* (frame_selector.py; message_queue.py has a like one), the consumer of   *)
(* message_queue.py, and what the two see of the broker: one transient     *)
(* queue that is deleted, with what is in it, when its consumer is gone,   *)
(* and drops a message after five minutes.  A message for a queue that     *)
(* does not exist is dropped without an error.                             *)
(***************************************************************************)
EXTENDS Integers, Sequences, SequencesExt

CONSTANTS
  Order,
  MaxRetries,   (* MAX_RETRIES                                              *)
  Attempts,     (* attempts of a publish                                    *)
  NoMessage     (* no message                                               *)

Message == [order : Order, tries : 0..(MaxRetries - 1)]

VARIABLES
  declared,   (* the queue exists                                           *)
  ready,      (* the messages in it                                         *)
  unacked,    (* the message delivered and not acknowledged                 *)
  linked,     (* the consumer is connected                                  *)
  consumer,   (* where the consumer is                                      *)
  message,    (* the message it works on                                    *)
  open,       (* the producer is connected                                  *)
  attempt,    (* the producer's attempts so far                             *)
  owed,       (* history: messages put into the queue for an order, less    *)
              (* the results stored for it                                  *)
  pending     (* history: orders neither stored nor known to be dropped     *)

brokerVars   == <<declared, ready, unacked>>
consumerVars == <<linked, consumer, message>>
producerVars == <<open, attempt>>

vars == <<brokerVars, consumerVars, producerVars, owed, pending>>

TypeOK ==
  /\ declared \in BOOLEAN
  /\ ready \in Seq(Message)
  /\ unacked \in Message \cup {NoMessage}
  /\ linked \in BOOLEAN
  /\ consumer \in {"connect", "wait", "call", "await", "ack", "failed", "backoff"}
  /\ message \in Message \cup {NoMessage}
  /\ open \in BOOLEAN
  /\ attempt \in 0..Attempts
  /\ owed \in [Order -> Int]
  /\ pending \subseteq Order

Init ==
  /\ declared = FALSE /\ ready = <<>> /\ unacked = NoMessage
  /\ linked = FALSE /\ consumer = "connect" /\ message = NoMessage
  /\ open = FALSE /\ attempt = 0
  /\ owed = [o \in Order |-> 0]
  /\ pending = {}
-----------------------------------------------------------------------------
(* The broker.                                                             *)

Enqueued(m) ==
  IF declared THEN ready' = Append(ready, m) /\ UNCHANGED pending
  ELSE pending' = pending \ {m.order} /\ UNCHANGED ready

Expires ==
  /\ ready # <<>>
  /\ ready' = Tail(ready)
  /\ pending' = pending \ {Head(ready).order}
  /\ UNCHANGED <<declared, unacked, consumerVars, producerVars, owed>>

(* A queue that outlives its consumer: the message not acknowledged comes  *)
(* back.                                                                   *)
LinkBreaksDurable ==
  /\ linked
  /\ linked' = FALSE
  /\ ready' = IF unacked = NoMessage THEN ready ELSE <<unacked>> \o ready
  /\ unacked' = NoMessage
  /\ UNCHANGED <<declared, consumer, message, producerVars, owed, pending>>

LinkBreaks ==
  /\ linked
  /\ linked' = FALSE /\ declared' = FALSE
  /\ ready' = <<>> /\ unacked' = NoMessage
  /\ pending' = pending \ {m.order : m \in ToSet(ready)}
  /\ UNCHANGED <<consumer, message, producerVars, owed>>
-----------------------------------------------------------------------------
(* OrderConsumer._consume_loop and _on_message.                            *)

Connects ==
  /\ consumer = "connect"
  /\ linked' = TRUE /\ declared' = TRUE
  /\ consumer' = "wait"
  /\ UNCHANGED <<ready, unacked, message, producerVars, owed, pending>>

Disconnected ==
  /\ consumer = "wait" /\ ~linked
  /\ consumer' = "connect"
  /\ UNCHANGED <<brokerVars, linked, message, producerVars, owed, pending>>

Delivers ==
  /\ consumer = "wait" /\ linked /\ ready # <<>>
  /\ message' = Head(ready) /\ unacked' = Head(ready)
  /\ ready' = Tail(ready)
  /\ consumer' = "call"
  /\ UNCHANGED <<declared, linked, producerVars, owed, pending>>

(* process_order_sync, around the call of run_vlm.                         *)
Calls(o) ==
  /\ consumer = "call" /\ message.order = o
  /\ consumer' = "await"
  /\ UNCHANGED <<brokerVars, linked, message, producerVars, owed, pending>>

IsAnswered(ok) ==
  /\ consumer = "await"
  /\ consumer' = IF ok THEN "ack" ELSE "failed"
  /\ UNCHANGED <<brokerVars, linked, message, producerVars, owed, pending>>

(* Without the link the acknowledgement raises, and so does the nack in    *)
(* the handler of that: the loop connects again.                           *)
Settled ==
  /\ unacked' = NoMessage
  /\ message' = NoMessage
  /\ consumer' = "wait"

Acks ==
  /\ consumer = "ack"
  /\ Settled
  /\ UNCHANGED <<declared, ready, linked, producerVars, owed, pending>>

(* _handle_failure: the last try; ...                                      *)
LastTry == message.tries + 1 >= MaxRetries

GivesUp ==
  /\ consumer = "failed"
  /\ ~linked \/ LastTry
  /\ pending' = pending \ {message.order}
  /\ Settled
  /\ UNCHANGED <<declared, ready, linked, producerVars, owed>>

(* ... or the message is acknowledged and, after the delay, published as a *)
(* new one; an error is logged.                                            *)
BacksOffUncounted ==
  /\ consumer = "failed"
  /\ linked /\ ~LastTry
  /\ UNCHANGED message
  /\ unacked' = NoMessage
  /\ consumer' = "backoff"
  /\ UNCHANGED <<declared, ready, linked, producerVars, owed, pending>>

BacksOff ==
  /\ consumer = "failed"
  /\ linked /\ ~LastTry
  /\ message' = [message EXCEPT !.tries = @ + 1]
  /\ unacked' = NoMessage
  /\ consumer' = "backoff"
  /\ UNCHANGED <<declared, ready, linked, producerVars, owed, pending>>

Republishes ==
  /\ consumer = "backoff"
  /\ IF linked THEN Enqueued(message)
     ELSE pending' = pending \ {message.order} /\ UNCHANGED ready
  /\ message' = NoMessage
  /\ consumer' = "wait"
  /\ UNCHANGED <<declared, unacked, linked, producerVars, owed>>

Consumer == Disconnected \/ Delivers \/ Acks \/ GivesUp \/ BacksOff \/ Republishes
-----------------------------------------------------------------------------
(* RabbitMQProducer.publish(o).                                            *)

(* connect(), which declares the queue.                                    *)
Opens ==
  /\ ~open /\ attempt < Attempts
  /\ \/ open' = TRUE /\ declared' = TRUE /\ UNCHANGED attempt
     \/ attempt' = attempt + 1 /\ UNCHANGED <<open, declared>>
  /\ UNCHANGED <<ready, unacked, consumerVars, owed, pending>>

New(o) == [order |-> o, tries |-> 0]

Counted(o) == owed' = [owed EXCEPT ![o] = @ + 1]

Publishes(o) ==
  /\ open /\ attempt < Attempts
  /\ Enqueued(New(o))
  /\ Counted(o)
  /\ attempt' = 0
  /\ UNCHANGED <<declared, unacked, consumerVars, open>>

(* The connection fails during the call, and the message may have got      *)
(* through all the same.                                                   *)
PublishFails(o) ==
  /\ open /\ attempt < Attempts
  /\ \/ Enqueued(New(o)) /\ Counted(o)
     \/ UNCHANGED <<ready, owed, pending>>
  /\ open' = FALSE
  /\ attempt' = attempt + 1
  /\ UNCHANGED <<declared, unacked, consumerVars>>

PublishGivesUp ==
  /\ attempt = Attempts
  /\ attempt' = 0
  /\ UNCHANGED <<brokerVars, consumerVars, open, owed, pending>>
=============================================================================
