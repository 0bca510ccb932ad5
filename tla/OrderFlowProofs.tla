---------------------------- MODULE OrderFlowProofs ----------------------------
(***************************************************************************)
(* Proofs about OrderFlow, for any orders and frames: no order is sent to  *)
(* the VLM a third time, and what the worker reads of an order that is     *)
(* ready does not change.                                                  *)
(***************************************************************************)
EXTENDS OrderFlow, TLAPS

(* Where the main loop has an order in hand, and whose it can be.          *)
InHand == main \in {"load", "ask", "answered", "done", "drop"}

Places ==
  /\ main \in {"loop", "next", "stopped"} \/ InHand
  /\ IF InHand THEN current \in ready ELSE current = NoOrder
  /\ todo \subseteq ready /\ current \notin todo
  /\ monitor = "unseen" => looking \in Order
  /\ found \subseteq Order /\ ready \subseteq Order /\ processed \subseteq Order
  /\ requests \in [Order -> 0..3]

(* Only marked orders are found.                                           *)
Marked ==
  /\ eos \subseteq Order /\ found \subseteq eos /\ ready \subseteq eos
  /\ monitor = "unseen" => looking \in eos

(* What may still lead to a request for o: the monitor that has missed it  *)
(* in _processed_orders, and its place among the orders ready.             *)
Missed(o) == monitor = "unseen" /\ looking = o

Asked(o) == current = o /\ main \in {"answered", "done", "drop"}

Due(o) == o \in ready /\ ~Asked(o)

One(P) == IF P THEN 1 ELSE 0

(* Before o is processed it has been asked for at most once, by a main     *)
(* loop that has not yet come to processing it; from then on a request     *)
(* takes up one of two chances, of which the first is gone.                *)
Counted(o) ==
  /\ o \notin processed => requests[o] = 0 \/ (requests[o] = 1 /\ current = o /\ main \in {"answered", "done"})
  /\ o \in processed => requests[o] + One(Missed(o)) + One(Due(o)) <= 2

IInv == Places /\ Marked /\ \A o \in Order : Counted(o)

---------------------------------------------------------------------------
LEMMA InvInit == Init => IInv
<1> SUFFICES ASSUME Init PROVE IInv OBVIOUS
<1>1. Orders!Init BY DEF Init
<1>2. Places BY <1>1 DEF Orders!Init, Places, InHand
<1>3. Marked BY <1>1 DEF Orders!Init, Marked
<1>4. \A o \in Order : o \notin processed /\ requests[o] = 0 BY <1>1 DEF Orders!Init
<1>5. \A o \in Order : Counted(o) BY <1>4 DEF Counted
<1> QED BY <1>2, <1>3, <1>5 DEF IInv

(* The monitor.                                                            *)
LEMMA MonitorKeeps ==
  ASSUME IInv, Orders!Monitor
  PROVE  IInv'
<1> USE OrdersAssumption
<1>1. /\ UNCHANGED <<store, eos, main, todo, current, requests>>
      /\ ready' \subseteq Order /\ ready \subseteq ready' /\ processed \subseteq processed'
  BY DEF Orders!Monitor, Orders!Scan, Orders!LookProcessed, Orders!LookActive, Orders!Looked,
         Orders!MonitorStops, Orders!storeVars, Orders!mainVars, IInv, Places, Marked
<1>2. CASE Orders!Scan \/ Orders!Looked \/ Orders!MonitorStops
  <2>1. /\ monitor' # "unseen" /\ monitor # "unseen" /\ found' \subseteq found \cup eos
        /\ UNCHANGED <<ready, processed>>
    BY <1>2 DEF Orders!Scan, Orders!Looked, Orders!MonitorStops
  <2>2. Places' /\ Marked' BY <1>1, <2>1 DEF IInv, Places, Marked, InHand
  <2>3. \A o \in Order : Counted(o)'
    BY <1>1, <2>1 DEF IInv, Counted, Missed, Due, Asked, One
  <2> QED BY <2>2, <2>3 DEF IInv
<1>3. ASSUME NEW o \in Order, Orders!LookProcessed(o) PROVE IInv'
  <2>1. /\ monitor = "look" /\ o \in found /\ found' = found \ {o}
        /\ IF o \in processed THEN UNCHANGED <<monitor, looking>>
           ELSE monitor' = "unseen" /\ looking' = o
        /\ UNCHANGED <<ready, processed>>
    BY <1>3 DEF Orders!LookProcessed
  <2>2. Places' /\ Marked' BY <1>1, <2>1 DEF IInv, Places, Marked, InHand
  <2>3. ASSUME NEW p \in Order PROVE Counted(p)'
    <3>1. Counted(p) /\ Due(p)' = Due(p) BY <1>1, <2>1 DEF IInv, Due, Asked
    <3>2. p \in processed => ~Missed(p)' BY <2>1 DEF Missed
    <3>3. requests[p] \in Nat BY DEF IInv, Places
    <3> QED BY <1>1, <2>1, <3>1, <3>2, <3>3 DEF Counted, One
  <2> QED BY <2>2, <2>3 DEF IInv
<1>4. CASE Orders!LookActive
  <2>1. /\ monitor = "unseen" /\ monitor' = "look" /\ found' = found
        /\ IF looking \in ready THEN UNCHANGED <<processed, ready>>
           ELSE IF looking \in Known THEN ready' = ready \cup {looking} /\ processed' = processed
           ELSE processed' = processed \cup {looking} /\ ready' = ready
    BY <1>4 DEF Orders!LookActive
  <2>2. looking \in Order /\ looking \in eos /\ looking # NoOrder
    BY <2>1 DEF IInv, Places, Marked
  <2>3. current \in ready \/ current = NoOrder BY DEF IInv, Places
  <2>4. Places'
    <3>1. current \notin todo /\ todo \subseteq ready' BY <1>1 DEF IInv, Places
    <3> QED BY <1>1, <2>1, <2>2, <3>1 DEF IInv, Places, InHand
  <2>5. Marked' BY <1>1, <2>1, <2>2 DEF IInv, Marked
  <2>6. ASSUME NEW p \in Order PROVE Counted(p)'
    <3>1. Counted(p) /\ requests[p] \in Nat /\ requests'[p] = requests[p]
      BY <1>1 DEF IInv, Places
    <3>2. ~Missed(p)' BY <2>1 DEF Missed
    <3>3. CASE p # looking
      <4>1. Due(p)' = Due(p) /\ (p \in processed' <=> p \in processed)
        BY <1>1, <2>1, <3>3 DEF Due, Asked
      <4> QED BY <1>1, <3>1, <3>2, <4>1 DEF Counted, One
    <3>4. CASE p = looking
      <4>1. Missed(p) BY <2>1, <3>4 DEF Missed
      <4>2. CASE p \in processed
        BY <1>1, <3>1, <3>2, <4>1, <4>2 DEF Counted, One
      <4>3. CASE p \notin processed /\ p \in processed'
        <5>1. p \notin ready /\ ready' = ready BY <2>1, <3>4, <4>3
        <5>2. ~Due(p)' BY <5>1 DEF Due
        <5>3. requests[p] = 0 BY <2>2, <2>3, <3>1, <3>4, <4>3, <5>1 DEF Counted
        <5> QED BY <3>1, <3>2, <4>3, <5>2, <5>3 DEF Counted, One
      <4>4. CASE p \notin processed'
        BY <1>1, <3>1, <4>4 DEF Counted
      <4> QED BY <4>2, <4>3, <4>4
    <3> QED BY <3>3, <3>4
  <2> QED BY <2>4, <2>5, <2>6 DEF IInv
<1> QED BY <1>2, <1>3, <1>4 DEF Orders!Monitor

(* The main loop.                                                          *)
LEMMA MainKeeps ==
  ASSUME IInv, Orders!Main
  PROVE  IInv'
<1> USE OrdersAssumption
<1>1. /\ UNCHANGED <<store, eos, monitor, found, looking>> /\ ready' \subseteq ready
  BY DEF Orders!Main, Orders!Turn, Orders!TurnEnds, Orders!Stops, Orders!Begin, Orders!Load,
         Orders!NoneSelected, Orders!Ask, Orders!Settled, Orders!Done, Orders!Drop,
         Orders!storeVars, Orders!monitorVars
<1>2. Marked' BY <1>1 DEF IInv, Marked
<1>3. \A o \in Order : Missed(o)' <=> Missed(o) BY <1>1 DEF Missed
<1>4. \A o \in Order : Counted(o) /\ requests[o] \in Nat BY DEF IInv, Places
<1>5. CASE Orders!Turn \/ Orders!TurnEnds \/ Orders!Stops
  <2>1. /\ main \in {"loop", "next"} /\ main' \in {"loop", "next", "stopped"}
        /\ todo' \subseteq ready /\ UNCHANGED <<current, ready, processed, requests>>
    BY <1>5 DEF Orders!Turn, Orders!TurnEnds, Orders!Stops, IInv, Places
  <2>2. current = NoOrder /\ NoOrder \notin ready BY <2>1 DEF IInv, Places, InHand
  <2>3. Places' BY <1>1, <2>1, <2>2 DEF IInv, Places, InHand
  <2>4. \A o \in Order : Due(o)' <=> Due(o) BY <2>1 DEF Due, Asked
  <2>5. \A o \in Order : Counted(o)' BY <1>3, <1>4, <2>1, <2>4 DEF Counted, One
  <2> QED BY <1>2, <2>3, <2>5 DEF IInv
<1>6. ASSUME NEW o \in Order, Orders!Begin(o) PROVE IInv'
  <2>1. /\ main = "next" /\ o \in todo /\ todo' = todo \ {o} /\ current' = o
        /\ main' \in {"done", "load"} /\ UNCHANGED <<ready, processed, requests>>
    BY <1>6 DEF Orders!Begin
  <2>2. current = NoOrder /\ NoOrder \notin ready BY <2>1 DEF IInv, Places, InHand
  <2>3. Places' BY <1>1, <2>1, <2>2 DEF IInv, Places, InHand
  <2>4. \A p \in Order : Due(p)' => Due(p) BY <2>1 DEF Due, Asked
  <2>5. \A p \in Order : p \notin processed => requests[p] = 0 BY <1>4, <2>1 DEF Counted
  <2>6. \A p \in Order : Counted(p)' BY <1>3, <1>4, <2>1, <2>4, <2>5 DEF Counted, One
  <2> QED BY <1>2, <2>3, <2>6 DEF IInv
<1>7. CASE Orders!Load \/ Orders!NoneSelected \/ Orders!Settled
  <2>1. /\ main \in {"load", "ask", "answered"} /\ main' \in {"ask", "done"}
        /\ main = "answered" => main' = "done"
        /\ UNCHANGED <<todo, current, ready, processed, requests>>
    BY <1>7 DEF Orders!Load, Orders!NoneSelected, Orders!Settled
  <2>2. Places' BY <1>1, <2>1 DEF IInv, Places, InHand
  <2>3. \A p \in Order : Due(p)' => Due(p) BY <2>1 DEF Due, Asked
  <2>4. \A p \in Order : Counted(p)' BY <1>3, <1>4, <2>1, <2>3 DEF Counted, One
  <2> QED BY <1>2, <2>2, <2>4 DEF IInv
<1>8. CASE Orders!Ask
  <2>1. /\ main = "ask" /\ main' = "answered"
        /\ requests' = [requests EXCEPT ![current] = IF @ < 3 THEN @ + 1 ELSE 3]
        /\ UNCHANGED <<todo, current, ready, processed>>
    BY <1>8 DEF Orders!Ask
  <2>2. current \in ready /\ current \in Order BY <2>1 DEF IInv, Places, InHand
  <2>3. requests \in [Order -> 0..3] BY DEF IInv, Places
  <2>4. requests' \in [Order -> 0..3] BY <2>1, <2>2, <2>3
  <2>5. Places' BY <1>1, <2>1, <2>4 DEF IInv, Places, InHand
  <2>6. ASSUME NEW p \in Order, p # current PROVE Counted(p)'
    <3>1. requests'[p] = requests[p] BY <2>1, <2>3, <2>6
    <3>2. Due(p)' <=> Due(p) BY <2>1, <2>6 DEF Due, Asked
    <3> QED BY <1>3, <1>4, <2>1, <2>6, <3>1, <3>2 DEF Counted, One
  <2>7. ASSUME NEW p \in Order, p = current PROVE Counted(p)'
    <3>1. Due(p) /\ ~Due(p)' BY <2>1, <2>2, <2>7 DEF Due, Asked
    <3>2. requests[p] <= 2 /\ requests[p] \in Nat
      BY <1>4, <2>1, <2>7 DEF Counted, One
    <3>3. requests'[p] = requests[p] + 1 BY <2>1, <2>3, <2>7, <3>2
    <3>4. CASE p \notin processed
      BY <1>4, <2>1, <2>7, <3>3, <3>4 DEF Counted
    <3>5. CASE p \in processed
      BY <1>3, <1>4, <2>1, <3>1, <3>3, <3>5 DEF Counted, One
    <3> QED BY <3>4, <3>5
  <2> QED BY <1>2, <2>5, <2>6, <2>7 DEF IInv
<1>9. CASE Orders!Done
  <2>1. /\ main = "done" /\ main' = "drop" /\ processed' = processed \cup {current}
        /\ UNCHANGED <<ready, todo, current, requests>>
    BY <1>9 DEF Orders!Done
  <2>2. current \in ready /\ current \in Order BY <2>1 DEF IInv, Places, InHand
  <2>3. Places' BY <1>1, <2>1, <2>2 DEF IInv, Places, InHand
  <2>4. \A p \in Order : Due(p)' <=> Due(p) BY <2>1 DEF Due, Asked
  <2>5. ~Due(current) BY <2>1 DEF Due, Asked
  <2>6. ASSUME NEW p \in Order PROVE Counted(p)'
    <3>1. CASE p # current \/ p \in processed
      BY <1>3, <1>4, <2>1, <2>4, <3>1 DEF Counted, One
    <3>2. CASE p = current /\ p \notin processed
      <4>1. requests[p] <= 1 BY <1>4, <3>2 DEF Counted
      <4> QED BY <1>4, <2>1, <2>4, <2>5, <3>2, <4>1 DEF Counted, One
    <3> QED BY <3>1, <3>2
  <2> QED BY <1>2, <2>3, <2>6 DEF IInv
<1>10. CASE Orders!Drop
  <2>1. /\ main = "drop" /\ main' = "next" /\ ready' = ready \ {current} /\ current' = NoOrder
        /\ UNCHANGED <<todo, processed, requests>>
    BY <1>10 DEF Orders!Drop
  <2>2. current \in ready BY <2>1 DEF IInv, Places, InHand
  <2>3. Places' BY <1>1, <2>1, <2>2 DEF IInv, Places, InHand
  <2>4. \A p \in Order : Due(p)' => Due(p) BY <2>1 DEF Due, Asked
  <2>5. \A p \in Order : p \notin processed => requests[p] = 0 BY <1>4, <2>1 DEF Counted
  <2>6. \A p \in Order : Counted(p)' BY <1>3, <1>4, <2>1, <2>4, <2>5 DEF Counted, One
  <2> QED BY <1>2, <2>3, <2>6 DEF IInv
<1> QED BY <1>5, <1>6, <1>7, <1>8, <1>9, <1>10 DEF Orders!Main

(* Everything else.                                                        *)
LEMMA OthersKeep ==
  ASSUME IInv, eos \subseteq eos', eos' \subseteq Order,
         UNCHANGED <<processed, ready, monitor, found, looking, main, todo, current, requests>>
  PROVE  IInv'
<1>1. Places' BY DEF IInv, Places, InHand
<1>2. Marked' BY DEF IInv, Marked
<1>3. \A o \in Order : Counted(o)' BY DEF IInv, Counted, Missed, Due, Asked, One
<1> QED BY <1>1, <1>2, <1>3 DEF IInv

LEMMA InvStep == IInv /\ [Next]_vars => IInv'
<1> SUFFICES ASSUME IInv, [Next]_vars PROVE IInv' OBVIOUS
<1>1. eos \subseteq Order BY DEF IInv, Marked
<1>2. CASE FeedStep
  <2>1. eos \subseteq eos' /\ eos' \subseteq Order
    BY <1>1, <1>2 DEF FeedStep, Feed!Next, Feed!Write, Feed!Mark, Feed!Doubt
  <2>2. UNCHANGED ordersOnly BY <1>2 DEF FeedStep
  <2> QED BY <2>1, <2>2, OthersKeep DEF ordersOnly
<1>3. CASE OrdersStep
  <2>1. CASE Orders!Monitor BY <2>1, MonitorKeeps
  <2>2. CASE Orders!Main BY <2>2, MainKeeps
  <2>3. CASE Orders!Surroundings
    <3>1. UNCHANGED <<eos, processed, ready, monitor, found, looking, main, todo, current, requests>>
      BY <2>3 DEF Orders!Surroundings, Orders!StoreReachable, Orders!Circuit, Orders!Signal,
                  Orders!storeVars, Orders!monitorVars, Orders!mainVars
    <3> QED BY <1>1, <3>1, OthersKeep
  <2> QED BY <1>3, <2>1, <2>2, <2>3 DEF OrdersStep, Orders!Station
<1>4. CASE VideoEnds
  <2>1. /\ eos \subseteq eos' /\ eos' \subseteq Order
        /\ UNCHANGED <<processed, ready, monitor, found, looking, main, todo, current, requests>>
    BY <1>1, <1>4 DEF VideoEnds, Orders!WriteMissingMarkers, Orders!OrdersWithFrames,
                      Orders!monitorVars, Orders!mainVars
  <2> QED BY <2>1, OthersKeep
<1>5. CASE UNCHANGED vars
  <2>1. UNCHANGED <<eos, processed, ready, monitor, found, looking, main, todo, current, requests>>
    BY <1>5 DEF vars, ordersOnly
  <2> QED BY <1>1, <2>1, OthersKeep
<1> QED BY <1>2, <1>3, <1>4, <1>5 DEF Next

LEMMA Invariance == Spec => []IInv
BY InvInit, InvStep, PTL DEF Spec

(* No order is sent to the VLM a third time, for any number of orders and  *)
(* however the two threads interleave.                                     *)
THEOREM RepeatsOnce == Spec => []AtMostOneRepeat
<1>1. IInv => AtMostOneRepeat
  <2> SUFFICES ASSUME IInv, NEW o \in Order PROVE requests[o] <= 2
    BY DEF AtMostOneRepeat, Orders!AtMostOneRepeat
  <2>1. Counted(o) /\ requests[o] \in Nat BY DEF IInv, Places
  <2> QED BY <2>1 DEF Counted, One
<1> QED BY <1>1, Invariance, PTL

(* What the worker reads is complete: an order that is ready has its       *)
(* marker, and the pipeline process stores no frame under an order that    *)
(* has one, unless it is in doubt.                                         *)
THEOREM InputIsStable == Spec => StableInput
<1> DEFINE Step == \A o \in ready \ doubt : StoredFor(o)' = StoredFor(o)
<1>1. ASSUME IInv, [Next]_vars PROVE Step
  <2>1. ready \subseteq eos BY <1>1 DEF IInv, Marked
  <2>2. CASE store' = store BY <2>2 DEF StoredFor
  <2>3. ASSUME NEW p \in Order, Feed!Write(p) PROVE Step
    <3>1. p \notin ready \ doubt BY <2>1, <2>3 DEF Feed!Write
    <3>2. PICK f, old \in Frame : store' = (store \ {<<p, old>>}) \cup {<<p, f>>}
      BY <2>3 DEF Feed!Write
    <3>3. ASSUME NEW o, o # p PROVE StoredFor(o)' = StoredFor(o)
      BY <3>2, <3>3 DEF StoredFor
    <3> QED BY <3>1, <3>3
  <2>4. store' = store \/ \E p \in Order : Feed!Write(p)
    <3>1. CASE FeedStep BY <3>1 DEF FeedStep, Feed!Next, Feed!Mark, Feed!Doubt
    <3>2. CASE OrdersStep BY <3>2 DEF OrdersStep
    <3>3. CASE VideoEnds BY <3>3 DEF VideoEnds, Orders!WriteMissingMarkers
    <3>4. CASE UNCHANGED vars BY <3>4 DEF vars
    <3> QED BY <1>1, <3>1, <3>2, <3>3, <3>4 DEF Next
  <2> QED BY <2>2, <2>3, <2>4
<1>2. IInv /\ [Next]_vars => [Step]_vars BY <1>1
<1> QED BY <1>2, Invariance, PTL DEF Spec, StableInput
=============================================================================
