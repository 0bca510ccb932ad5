------------------------------ MODULE DineInProofs ------------------------------
(***************************************************************************)
(* Proofs about the two services of dine-in: PlateValidation, for any      *)
(* order, plate, limits and number of concurrent requests, and             *)
(* BenchmarkService, for pools of any size, any number of benchmarks and   *)
(* of requests.                                                            *)
(***************************************************************************)
EXTENDS PlateValidation, BenchmarkService, FiniteSetTheorems, WellFoundedInduction, TLAPS

---------------------------------------------------------------------------
(* Validating a plate: CompleteIsRight.  The invariant speaks of each task *)
(* alone: what other tasks do reaches it only through the breakers, and    *)
(* its pairs are sound with whatever answers these let through.            *)

Place == {"idle", "post", "match", "compare", "reply"}

(* The locals of a task: place, order, plate, pairs, seen and best.        *)
Sound(a, o, p, q, s, b) ==
  /\ o \in Seq(Item) /\ p \in Seq(Item) /\ q \in Seq(Nat)
  /\ Len(q) <= Len(o) /\ s <= Len(p) /\ b <= s
  /\ \A i \in 1..Len(q) : q[i] <= Len(p)
  /\ \A i, j \in 1..Len(q) : i # j /\ q[i] # 0 => q[i] # q[j]
  /\ \A i \in 1..Len(q) : q[i] # 0 => Alike(o[i].name, p[q[i]].name)
  /\ b # 0 => /\ \A i \in 1..Len(q) : q[i] # b
              /\ Alike(o[Len(q) + 1].name, p[b].name)
  /\ a = "reply" => Len(q) = Len(o)
  /\ a \in {"match", "compare"} => Len(q) < Len(o)
  /\ a \in {"idle", "post"} => q = <<>> /\ s = 0 /\ b = 0

Typed ==
  /\ SoundBreaker(vlm) /\ SoundBreaker(semantic)
  /\ at \in [Task -> Place]
  /\ order \in [Task -> Orders \cup {<<>>}]
  /\ plate \in [Task -> Plates \cup {<<>>}]
  /\ pairs \in [Task -> Seq(Nat)]
  /\ seen \in [Task -> Nat]
  /\ best \in [Task -> Nat]
  /\ likeness \in [Task -> 0..Top]
  /\ garbled \in [Task -> BOOLEAN]

SoundTask(t) == Sound(at[t], order[t], plate[t], pairs[t], seen[t], best[t])

IInv == Typed /\ \A t \in Task : SoundTask(t)

---------------------------------------------------------------------------
(* The methods of a breaker keep a closed one below its threshold and any  *)
(* other one at it.                                                        *)
LEMMA NewIsSound == SoundBreaker(NewBreaker)
  BY BreakerAssumption DEF SoundBreaker, Breaker, NewBreaker

LEMMA AdmittedIsSound == ASSUME NEW b, SoundBreaker(b) PROVE SoundBreaker(Admitted(b))
<1> DEFINE c == [b EXCEPT !.state = "half_open"]
<1>1. CASE b.state = "open"
  <2>1. c \in Breaker /\ c.state = "half_open" /\ c.failures = b.failures
        /\ c.successes = b.successes
    BY DEF SoundBreaker, Breaker
  <2>2. Admitted(b) = [c EXCEPT !.rested = FALSE]
    BY <1>1 DEF Admitted
  <2> HIDE DEF c
  <2>3. /\ Admitted(b) \in Breaker /\ Admitted(b).state = "half_open"
        /\ Admitted(b).failures = b.failures /\ Admitted(b).successes = b.successes
    BY <2>1, <2>2 DEF Breaker
  <2>4. b.successes < Needed
    BY <1>1 DEF SoundBreaker
  <2> QED BY <1>1, <2>3, <2>4 DEF SoundBreaker
<1>2. CASE b.state # "open"
  BY <1>2 DEF Admitted
<1> QED BY <1>1, <1>2

LEMMA SucceededIsSound == ASSUME NEW b, SoundBreaker(b) PROVE SoundBreaker(Succeeded(b))
  BY BreakerAssumption, NewIsSound DEF SoundBreaker, Breaker, Succeeded, Enough

LEMMA FailedIsSound == ASSUME NEW b, SoundBreaker(b) PROVE SoundBreaker(Failed(b))
  BY BreakerAssumption DEF SoundBreaker, Breaker, Failed

LEMMA RestedIsSound == ASSUME NEW b, SoundBreaker(b) PROVE SoundBreaker(Rested(b))
  BY BreakerAssumption DEF SoundBreaker, Breaker, Rested

LEMMA ListsAreSequences ==
  /\ Orders \cup {<<>>} \subseteq Seq(Item)
  /\ Plates \cup {<<>>} \subseteq Seq(Item)
<1>1. <<>> \in Seq(Item)
  OBVIOUS
<1> QED BY <1>1, PlateAssumption

---------------------------------------------------------------------------
(* A task begins and ends with nothing in its hands.                       *)
LEMMA ForgetSound ==
  ASSUME IInv, NEW t \in Task, Forget(t), SoundBreaker(vlm'), SoundBreaker(semantic')
  PROVE  IInv'
<1>1. Typed'
  BY PlateAssumption DEF IInv, Typed, Forget, Place
<1>2. ASSUME NEW u \in Task PROVE SoundTask(u)'
  <2>1. CASE u = t
    <3>1. /\ at'[t] = "idle" /\ order'[t] = <<>> /\ plate'[t] = <<>> /\ pairs'[t] = <<>>
          /\ seen'[t] = 0 /\ best'[t] = 0
      BY DEF IInv, Typed, Forget
    <3>2. Sound("idle", <<>>, <<>>, <<>>, 0, 0)
      BY DEF Sound
    <3> QED BY <2>1, <3>1, <3>2 DEF SoundTask
  <2>2. CASE u # t
    BY <2>2 DEF IInv, Typed, Forget, SoundTask
  <2> QED BY <2>1, <2>2
<1> QED BY <1>1, <1>2 DEF IInv

(* A step that leaves the locals of all tasks but one alone has to be      *)
(* sound for that one.                                                     *)
LEMMA OneTask ==
  ASSUME IInv, Typed', NEW t \in Task, SoundTask(t)',
         \A u \in Task \ {t} :
           /\ at'[u] = at[u] /\ order'[u] = order[u] /\ plate'[u] = plate[u]
           /\ pairs'[u] = pairs[u] /\ seen'[u] = seen[u] /\ best'[u] = best[u]
  PROVE  IInv'
  BY DEF IInv, SoundTask

(* Comparing one item leaves the pairs alone and may make it the best: it  *)
(* is not used, and it is alike when the answer says that it matches.      *)
LEMMA JudgeSound ==
  ASSUME IInv, NEW t \in Task, at[t] \in {"match", "compare"},
         NEW k \in Left(t), NEW like \in 0..Top, NEW match \in BOOLEAN,
         Judge(t, k, like, match),
         match => Alike(Line(t).name, plate[t][k].name),
         SoundBreaker(vlm'), SoundBreaker(semantic'), garbled' \in [Task -> BOOLEAN]
  PROVE  IInv'
<1>1. k \in 1..Len(plate[t]) /\ k > seen[t] /\ \A i \in 1..Len(pairs[t]) : pairs[t][i] # k
  <2>1. plate[t] \in Seq(Item) /\ pairs[t] \in Seq(Nat)
    BY ListsAreSequences DEF IInv, Typed
  <2> QED BY <2>1 DEF Left, Used
<1>2. Typed'
  <2>1. k \in Nat /\ seen' \in [Task -> Nat]
    <3>1. plate[t] \in Seq(Item)
      BY ListsAreSequences DEF IInv, Typed
    <3>2. k \in Nat
      BY <1>1, <3>1
    <3> QED BY <3>2 DEF IInv, Typed, Judge
  <2>2. best' \in [Task -> Nat] /\ likeness' \in [Task -> 0..Top]
    BY <2>1 DEF IInv, Typed, Judge
  <2> QED BY <2>1, <2>2 DEF IInv, Typed, Judge, Place
<1>3. /\ at'[t] = "match" /\ order'[t] = order[t] /\ plate'[t] = plate[t]
      /\ pairs'[t] = pairs[t] /\ seen'[t] = k
      /\ best'[t] = best[t] \/ (match /\ best'[t] = k)
  BY DEF IInv, Typed, Judge
<1>4. SoundTask(t)'
  <2> DEFINE b == best'[t]
  <2>1. SoundTask(t) /\ seen[t] \in Nat /\ best[t] \in Nat
    BY DEF IInv, Typed
  <2>2. k \in 1..Len(plate[t]) /\ Len(pairs[t]) < Len(order[t])
    BY <1>1, <2>1 DEF SoundTask, Sound
  <2>3. /\ order[t] \in Seq(Item) /\ plate[t] \in Seq(Item) /\ pairs[t] \in Seq(Nat)
        /\ k \in Nat /\ k <= Len(plate[t])
        /\ Len(pairs[t]) <= Len(order[t]) /\ Len(pairs[t]) < Len(order[t])
    BY <2>1, <2>2 DEF SoundTask, Sound
  <2>4. /\ \A i \in 1..Len(pairs[t]) : pairs[t][i] <= Len(plate[t])
        /\ \A i, j \in 1..Len(pairs[t]) : i # j /\ pairs[t][i] # 0 => pairs[t][i] # pairs[t][j]
        /\ \A i \in 1..Len(pairs[t]) :
             pairs[t][i] # 0 => Alike(order[t][i].name, plate[t][pairs[t][i]].name)
    BY <2>1 DEF SoundTask, Sound
  <2>5. Sound("match", order[t], plate[t], pairs[t], k, b)
    <3>1. CASE b = best[t]
      <4>1. best[t] <= seen[t]
        BY <2>1 DEF SoundTask, Sound
      <4>2. b <= k
        BY <1>1, <2>1, <2>2, <3>1, <4>1, <2>3
      <4>3. b # 0 => /\ \A i \in 1..Len(pairs[t]) : pairs[t][i] # b
                     /\ Alike(order[t][Len(pairs[t]) + 1].name, plate[t][b].name)
        BY <2>1, <3>1 DEF SoundTask, Sound
      <4> QED BY <2>3, <2>4, <4>2, <4>3 DEF Sound
    <3>2. CASE match /\ b = k
      <4>1. Alike(order[t][Len(pairs[t]) + 1].name, plate[t][k].name)
        BY <3>2 DEF Line
      <4>2. b <= k
        BY <2>2, <2>3, <3>2
      <4>3. b # 0 => /\ \A i \in 1..Len(pairs[t]) : pairs[t][i] # b
                     /\ Alike(order[t][Len(pairs[t]) + 1].name, plate[t][b].name)
        BY <1>1, <3>2, <4>1
      <4> QED BY <2>3, <2>4, <4>2, <4>3 DEF Sound
    <3> QED BY <1>3, <3>1, <3>2
  <2> QED BY <1>3, <2>5 DEF SoundTask
<1>5. \A u \in Task \ {t} :
        /\ at'[u] = at[u] /\ order'[u] = order[u] /\ plate'[u] = plate[u]
        /\ pairs'[u] = pairs[u] /\ seen'[u] = seen[u] /\ best'[u] = best[u]
  BY DEF IInv, Typed, Judge
<1> QED BY <1>2, <1>4, <1>5, OneTask

LEMMA FallbackSound ==
  ASSUME IInv, NEW t \in Task, at[t] \in {"match", "compare"},
         NEW k \in Left(t), Fallback(t, k), SoundBreaker(vlm'), SoundBreaker(semantic')
  PROVE  IInv'
<1> DEFINE same == Line(t).name = plate[t][k].name
           like == IF same THEN Top ELSE 0
<1>1. Judge(t, k, like, same) /\ garbled' = garbled
  BY DEF Fallback
<1>2. like \in 0..Top /\ same \in BOOLEAN
  BY PlateAssumption
<1>3. same => Alike(Line(t).name, plate[t][k].name)
  BY DEF Alike
<1>4. garbled' \in [Task -> BOOLEAN]
  BY <1>1 DEF IInv, Typed
<1> HIDE DEF same, like
<1> QED BY <1>1, <1>2, <1>3, <1>4, JudgeSound

(* The best item of a line is not used by another one.                     *)
LEMMA SettleSound ==
  ASSUME IInv, NEW t \in Task, Settle(t)
  PROVE  IInv'
<1> DEFINE q == Append(pairs[t], best[t])
<1>1. SoundTask(t) /\ at[t] = "match" /\ pairs[t] \in Seq(Nat) /\ best[t] \in Nat
  BY DEF IInv, Typed, Settle
<1>2. /\ q \in Seq(Nat) /\ Len(q) = Len(pairs[t]) + 1
      /\ q[Len(q)] = best[t] /\ \A i \in 1..Len(pairs[t]) : q[i] = pairs[t][i]
  BY <1>1
<1>3. /\ order'[t] = order[t] /\ plate'[t] = plate[t] /\ pairs'[t] = q
      /\ seen'[t] = 0 /\ best'[t] = 0
      /\ at'[t] = IF Len(q) = Len(order[t]) THEN "reply" ELSE "match"
  BY <1>1 DEF IInv, Typed, Settle
<1>4. Typed'
  BY <1>1, <1>2, PlateAssumption DEF IInv, Typed, Settle, Place
<1> HIDE DEF q
<1>5. SoundTask(t)'
  <2>1. order[t] \in Seq(Item) /\ plate[t] \in Seq(Item) /\ Len(pairs[t]) \in Nat
    BY <1>1 DEF SoundTask, Sound
  <2>2. Len(pairs[t]) < Len(order[t]) /\ best[t] <= Len(plate[t])
    BY <1>1, <2>1 DEF SoundTask, Sound, IInv, Typed
  <2>3. \A i \in 1..Len(q) : i = Len(q) \/ i \in 1..Len(pairs[t])
    BY <1>2, <2>1
  <2>4. \A i \in 1..Len(q) : q[i] <= Len(plate[t])
    BY <1>1, <1>2, <2>2, <2>3 DEF SoundTask, Sound
  <2>5. \A i, j \in 1..Len(q) : i # j /\ q[i] # 0 => q[i] # q[j]
    BY <1>1, <1>2, <2>3 DEF SoundTask, Sound
  <2>6. \A i \in 1..Len(q) : q[i] # 0 => Alike(order[t][i].name, plate[t][q[i]].name)
    BY <1>1, <1>2, <2>3 DEF SoundTask, Sound
  <2> QED BY <1>2, <1>3, <2>1, <2>2, <2>4, <2>5, <2>6 DEF SoundTask, Sound
<1>6. \A u \in Task \ {t} :
        /\ at'[u] = at[u] /\ order'[u] = order[u] /\ plate'[u] = plate[u]
        /\ pairs'[u] = pairs[u] /\ seen'[u] = seen[u] /\ best'[u] = best[u]
  BY DEF IInv, Typed, Settle
<1> QED BY <1>4, <1>5, <1>6, OneTask

---------------------------------------------------------------------------
LEMMA InitSound == Init => IInv
<1> SUFFICES ASSUME Init PROVE IInv
  OBVIOUS
<1>1. Typed
  BY NewIsSound, PlateAssumption DEF Init, Typed, Place
<1>2. ASSUME NEW t \in Task PROVE SoundTask(t)
  <2>1. Sound("idle", <<>>, <<>>, <<>>, 0, 0)
    BY DEF Sound
  <2> QED BY <2>1 DEF Init, SoundTask
<1> QED BY <1>1, <1>2 DEF IInv

(* The steps around the call of OVMS.                                      *)
LEMMA PostSound ==
  ASSUME IInv, NEW t \in Task, Send(t) \/ Replied(t)
  PROVE  IInv'
<1>1. SoundBreaker(vlm) /\ SoundBreaker(semantic)
  BY DEF IInv, Typed
<1>2. CASE Send(t)
  <2>1. PICK o \in Orders : order' = [order EXCEPT ![t] = o]
    BY <1>2 DEF Send
  <2>2. SoundBreaker(vlm') /\ SoundBreaker(semantic')
    BY <1>1, <1>2, AdmittedIsSound DEF Send
  <2>3. Typed'
    BY <1>2, <2>1, <2>2 DEF IInv, Typed, Send, Place
  <2>4. /\ at'[t] = "post" /\ order'[t] = o /\ plate'[t] = plate[t] /\ pairs'[t] = <<>>
        /\ seen'[t] = 0 /\ best'[t] = 0
    BY <1>2, <2>1 DEF IInv, Typed, Send, SoundTask, Sound
  <2>5. o \in Seq(Item) /\ plate[t] \in Seq(Item)
    BY ListsAreSequences DEF IInv, Typed
  <2>6. Sound("post", o, plate[t], <<>>, 0, 0)
    BY <2>5 DEF Sound
  <2>7. SoundTask(t)'
    BY <2>4, <2>6 DEF SoundTask
  <2>8. \A u \in Task \ {t} :
          /\ at'[u] = at[u] /\ order'[u] = order[u] /\ plate'[u] = plate[u]
          /\ pairs'[u] = pairs[u] /\ seen'[u] = seen[u] /\ best'[u] = best[u]
    BY <1>2, <2>1 DEF IInv, Typed, Send
  <2> QED BY <2>3, <2>7, <2>8, OneTask
<1>3. CASE BadImage(t)
  <2>1. SoundBreaker(vlm') /\ SoundBreaker(semantic')
    BY <1>1, <1>3, FailedIsSound DEF BadImage
  <2> QED BY <1>3, <2>1 DEF BadImage, work, IInv, Typed, SoundTask
<1>4. CASE Answer(t)
  <2>1. PICK p \in Recognised : plate' = [plate EXCEPT ![t] = p]
    BY <1>4 DEF Answer
  <2>2. SoundBreaker(vlm') /\ SoundBreaker(semantic')
    BY <1>1, <1>4, SucceededIsSound DEF Answer
  <2>3. Typed'
    BY <1>4, <2>1, <2>2 DEF IInv, Typed, Answer, Place, Recognised
  <2>4. /\ at'[t] = IF order[t] = <<>> THEN "reply" ELSE "match"
        /\ order'[t] = order[t] /\ plate'[t] = p /\ pairs'[t] = <<>>
        /\ seen'[t] = 0 /\ best'[t] = 0
    BY <1>4, <2>1 DEF IInv, Typed, Answer, SoundTask, Sound
  <2>5. order[t] \in Seq(Item) /\ p \in Seq(Item)
    BY ListsAreSequences DEF IInv, Typed, Recognised
  <2>6. order[t] # <<>> => Len(order[t]) > 0
    BY <2>5
  <2>7. Sound(at'[t], order[t], p, <<>>, 0, 0)
    BY <2>4, <2>5, <2>6 DEF Sound
  <2>8. SoundTask(t)'
    BY <2>4, <2>7 DEF SoundTask
  <2>9. \A u \in Task \ {t} :
          /\ at'[u] = at[u] /\ order'[u] = order[u] /\ plate'[u] = plate[u]
          /\ pairs'[u] = pairs[u] /\ seen'[u] = seen[u] /\ best'[u] = best[u]
    BY <1>4, <2>1 DEF IInv, Typed, Answer
  <2> QED BY <2>3, <2>8, <2>9, OneTask
<1>5. CASE HttpFails(t) \/ OtherFails(t) \/ CancelPost(t)
  <2>1. SoundBreaker(vlm')
    BY <1>1, <1>5, FailedIsSound, SucceededIsSound DEF HttpFails, OtherFails, CancelPost
  <2>2. SoundBreaker(semantic') /\ Forget(t)
    BY <1>1, <1>5 DEF HttpFails, OtherFails, CancelPost
  <2> QED BY <2>1, <2>2, ForgetSound
<1> QED BY <1>2, <1>3, <1>4, <1>5 DEF Replied, VlmFails

(* The steps of the matching.                                              *)
LEMMA MatchingSound ==
  ASSUME IInv, NEW t \in Task, Matching(t)
  PROVE  IInv'
<1>1. SoundBreaker(vlm) /\ SoundBreaker(semantic)
  BY DEF IInv, Typed
<1>2. CASE Refused(t)
  BY <1>1, <1>2, FallbackSound DEF Refused
<1>3. CASE Ask(t)
  <2>1. SoundBreaker(vlm') /\ SoundBreaker(semantic')
    BY <1>1, <1>3, AdmittedIsSound DEF Ask
  <2>2. Typed'
    BY <1>3, <2>1 DEF IInv, Typed, Ask, work, Place
  <2>3. SoundTask(t)'
    BY <1>3 DEF IInv, Typed, Ask, work, SoundTask, Sound
  <2>4. \A u \in Task \ {t} :
          /\ at'[u] = at[u] /\ order'[u] = order[u] /\ plate'[u] = plate[u]
          /\ pairs'[u] = pairs[u] /\ seen'[u] = seen[u] /\ best'[u] = best[u]
    BY <1>3 DEF IInv, Typed, Ask, work
  <2> QED BY <2>2, <2>3, <2>4, OneTask
<1>4. CASE Told(t)
  <2>1. SoundBreaker(vlm') /\ SoundBreaker(semantic')
    BY <1>1, <1>4, SucceededIsSound DEF Told
  <2>2. PICK k \in Left(t) :
          Judge(t, k, Likeness[<<Line(t).name, plate[t][k].name>>],
                Likeness[<<Line(t).name, plate[t][k].name>>] >= Cut)
    BY <1>4 DEF Told
  <2> DEFINE like == Likeness[<<Line(t).name, plate[t][k].name>>]
  <2>3. like \in 0..Top
    <3>1. order[t] \in Seq(Item) /\ plate[t] \in Seq(Item) /\ pairs[t] \in Seq(Nat)
      BY ListsAreSequences DEF IInv, Typed
    <3>2. Len(pairs[t]) < Len(order[t]) /\ k \in 1..Len(plate[t])
      BY <1>4, <3>1 DEF Told, IInv, SoundTask, Sound, Left
    <3>3. Line(t) \in Item /\ plate[t][k] \in Item
      BY <3>1, <3>2 DEF Line
    <3>4. Line(t).name \in Name /\ plate[t][k].name \in Name
      BY <3>3 DEF Item
    <3> QED BY <3>4, PlateAssumption
  <2>4. (like >= Cut) \in BOOLEAN
    OBVIOUS
  <2>5. like >= Cut => Alike(Line(t).name, plate[t][k].name)
    BY DEF Alike
  <2>6. at[t] \in {"match", "compare"} /\ garbled' \in [Task -> BOOLEAN]
    BY <1>4 DEF Told, IInv, Typed
  <2>7. Judge(t, k, like, like >= Cut)
    BY <2>2
  <2> HIDE DEF like
  <2> QED BY <2>1, <2>3, <2>4, <2>5, <2>6, <2>7, JudgeSound
<1>5. CASE NotTold(t)
  <2>1. SoundBreaker(vlm') /\ SoundBreaker(semantic')
    BY <1>1, <1>5, FailedIsSound DEF NotTold
  <2> QED BY <1>5, <2>1, FallbackSound DEF NotTold
<1>6. CASE Unreadable(t)
  <2>1. SoundBreaker(vlm') /\ SoundBreaker(semantic')
    BY <1>1, <1>6, FailedIsSound, SucceededIsSound DEF Unreadable
  <2>2. PICK k \in Left(t) : Judge(t, k, 0, FALSE)
    BY <1>6 DEF Unreadable
  <2>3. at[t] \in {"match", "compare"} /\ garbled' \in [Task -> BOOLEAN]
    BY <1>6 DEF Unreadable, IInv, Typed
  <2>4. 0 \in 0..Top
    BY PlateAssumption
  <2> QED BY <2>1, <2>2, <2>3, <2>4, JudgeSound
<1>7. CASE Settle(t)
  BY <1>7, SettleSound
<1>8. CASE Ends(t)
  BY <1>1, <1>8, ForgetSound DEF Ends
<1> QED BY <1>2, <1>3, <1>4, <1>5, <1>6, <1>7, <1>8 DEF Matching

LEMMA RestsSound ==
  ASSUME IInv, Rests, UNCHANGED <<at, work>>
  PROVE  IInv'
<1>1. SoundBreaker(vlm') /\ SoundBreaker(semantic')
  BY RestedIsSound DEF IInv, Typed, Rests
<1> QED BY <1>1 DEF work, IInv, Typed, SoundTask

LEMMA StepSound == IInv /\ [Next]_vars => IInv'
<1> SUFFICES ASSUME IInv, [Next]_vars PROVE IInv'
  OBVIOUS
<1>1. CASE UNCHANGED vars
  BY <1>1 DEF vars, work, IInv, Typed, SoundTask
<1>2. CASE Next
  BY <1>2, PostSound, MatchingSound, RestsSound DEF Next
<1> QED BY <1>1, <1>2

(* The locals of every task are sound, in every reachable state.           *)
THEOREM Invariance == Spec => []IInv
  BY InitSound, StepSound, PTL DEF Spec

---------------------------------------------------------------------------
(* The types, with the bounds of the lists.                                *)
THEOREM TypeCorrect == Spec => []TypeOK
<1>1. IInv => TypeOK
  <2> SUFFICES ASSUME IInv PROVE TypeOK
    OBVIOUS
  <2>1. ASSUME NEW t \in Task
        PROVE  /\ Len(pairs[t]) <= Len(order[t])
               /\ \A i \in DOMAIN pairs[t] : pairs[t][i] <= Len(plate[t])
               /\ seen[t] <= Len(plate[t]) /\ best[t] <= seen[t]
    BY DEF IInv, Typed, SoundTask, Sound
  <2> QED BY <2>1 DEF IInv, Typed, TypeOK, Place
<1> QED BY <1>1, Invariance, PTL

(* When nothing is missing, extra or in another number, the pairs are the  *)
(* one-to-one matching.                                                    *)
THEOREM CompletePlates == Spec => []CompleteIsRight
<1>1. IInv => CompleteIsRight
  <2> SUFFICES ASSUME IInv, NEW t \in Task, at[t] = "reply", OrderComplete(t)
               PROVE  \E f \in [DOMAIN order[t] -> DOMAIN plate[t]] :
                        Matches(f, order[t], plate[t])
    BY DEF CompleteIsRight
  <2> DEFINE o == order[t]
             p == plate[t]
             q == pairs[t]
  <2>1. /\ o \in Seq(Item) /\ p \in Seq(Item) /\ q \in Seq(Nat) /\ Len(q) = Len(o)
        /\ \A i \in 1..Len(q) : q[i] <= Len(p)
        /\ \A i, j \in 1..Len(q) : i # j /\ q[i] # 0 => q[i] # q[j]
        /\ \A i \in 1..Len(q) : q[i] # 0 => Alike(o[i].name, p[q[i]].name)
    BY DEF IInv, SoundTask, Sound
  <2>2. /\ \A i \in 1..Len(q) : q[i] # 0 /\ o[i].qty = p[q[i]].qty
        /\ \A k \in 1..Len(p) : \E i \in 1..Len(q) : q[i] = k
    <3>1. DOMAIN q = 1..Len(q) /\ DOMAIN p = 1..Len(p)
      BY <2>1
    <3>2. \A i \in 1..Len(q) : q[i] # 0
      BY <3>1 DEF OrderComplete, Missing
    <3>3. \A i \in 1..Len(q) : o[i].qty = p[q[i]].qty
      BY <3>1, <3>2 DEF OrderComplete, Missing, Mismatch
    <3>4. \A k \in 1..Len(p) : \E i \in 1..Len(q) : q[i] = k
      BY <3>1 DEF OrderComplete, Extra, Used
    <3> QED BY <3>2, <3>3, <3>4
  <2>3. DOMAIN o = 1..Len(q) /\ DOMAIN p = 1..Len(p)
    BY <2>1
  <2> HIDE DEF o, p, q
  <2>4. q \in [1..Len(q) -> 1..Len(p)]
    BY <2>1, <2>2
  <2>5. Matches(q, o, p)
    BY <2>1, <2>2, <2>3 DEF Matches
  <2> QED BY <2>3, <2>4, <2>5 DEF o, p
<1> QED BY <1>1, Invariance, PTL

---------------------------------------------------------------------------
(* ServedIsComplete.  While a plate that holds what was ordered is         *)
(* compared, and every answer can be read, each line dealt with has its    *)
(* own item, and the item of the current line is the best as soon as it    *)
(* has been seen: none seen before it was as like, and none seen after it  *)
(* is more so.                                                             *)
Served(o, p) ==
  /\ DistinctNames(o) /\ DistinctNames(p)
  /\ {o[i] : i \in DOMAIN o} = {p[k] : k \in DOMAIN p}

Fit(a, o, p, q, s, b, l) ==
  /\ \A i \in 1..Len(q) : q[i] \in 1..Len(p) /\ p[q[i]] = o[i]
  /\ a # "reply" => \A h \in 1..Len(p) : p[h] = o[Len(q) + 1] =>
       IF h <= s THEN b = h /\ l = Top ELSE l < Top

FitTask(t) ==
  /\ at[t] \in {"idle", "post"} => likeness[t] = 0
  /\ at[t] \notin {"idle", "post"} /\ ~garbled[t] /\ Served(order[t], plate[t]) =>
       Fit(at[t], order[t], plate[t], pairs[t], seen[t], best[t], likeness[t])

AllFit == \A t \in Task : FitTask(t)

LEMMA ServedFacts ==
  ASSUME NEW o \in Seq(Item), NEW p \in Seq(Item), Served(o, p)
  PROVE  /\ \A i, j \in 1..Len(o) : o[i].name = o[j].name => i = j
         /\ \A i, j \in 1..Len(p) : p[i].name = p[j].name => i = j
         /\ \A i \in 1..Len(o) : \E k \in 1..Len(p) : p[k] = o[i]
         /\ \A k \in 1..Len(p) : \E i \in 1..Len(o) : p[k] = o[i]
<1>1. DOMAIN o = 1..Len(o) /\ DOMAIN p = 1..Len(p) OBVIOUS
<1>2. ASSUME NEW i \in 1..Len(o) PROVE \E k \in 1..Len(p) : p[k] = o[i]
  <2>1. o[i] \in {p[k] : k \in DOMAIN p} BY <1>1 DEF Served
  <2> QED BY <1>1, <2>1
<1>3. ASSUME NEW k \in 1..Len(p) PROVE \E i \in 1..Len(o) : p[k] = o[i]
  <2>1. p[k] \in {o[i] : i \in DOMAIN o} BY <1>1 DEF Served
  <2> QED BY <1>1, <2>1
<1> QED BY <1>1, <1>2, <1>3 DEF Served, DistinctNames

(* A step that leaves the locals of all tasks but one alone.               *)
LEMMA OneFits ==
  ASSUME AllFit, NEW t \in Task, FitTask(t)',
         \A u \in Task \ {t} :
           /\ at'[u] = at[u] /\ order'[u] = order[u] /\ plate'[u] = plate[u]
           /\ pairs'[u] = pairs[u] /\ seen'[u] = seen[u] /\ best'[u] = best[u]
           /\ likeness'[u] = likeness[u] /\ garbled'[u] = garbled[u]
  PROVE  AllFit'
  BY DEF AllFit, FitTask

LEMMA ForgetFits ==
  ASSUME IInv, AllFit, NEW t \in Task, Forget(t)
  PROVE  AllFit'
<1>1. at'[t] = "idle" /\ likeness'[t] = 0 BY DEF IInv, Typed, Forget
<1>2. FitTask(t)' BY <1>1 DEF FitTask
<1>3. \A u \in Task \ {t} :
        /\ at'[u] = at[u] /\ order'[u] = order[u] /\ plate'[u] = plate[u]
        /\ pairs'[u] = pairs[u] /\ seen'[u] = seen[u] /\ best'[u] = best[u]
        /\ likeness'[u] = likeness[u] /\ garbled'[u] = garbled[u]
  BY DEF IInv, Typed, Forget
<1> QED BY <1>2, <1>3, OneFits

(* The item whose turn it is is the first one not seen and not used.       *)
LEMMA TurnIsFirst ==
  ASSUME IInv, NEW t \in Task, NEW k \in Left(t), IsTurn(t, k)
  PROVE  /\ k \in 1..Len(plate[t]) /\ k > seen[t]
         /\ \A m \in 1..Len(plate[t]) :
              m > seen[t] /\ (\A i \in 1..Len(pairs[t]) : pairs[t][i] # m) => k <= m
<1>1. plate[t] \in Seq(Item) /\ pairs[t] \in Seq(Nat)
  BY ListsAreSequences DEF IInv, Typed
<1>2. DOMAIN plate[t] = 1..Len(plate[t]) /\ DOMAIN pairs[t] = 1..Len(pairs[t]) BY <1>1
<1>3. k \in 1..Len(plate[t]) /\ k > seen[t] BY <1>2 DEF Left
<1>4. ASSUME NEW m \in 1..Len(plate[t]), m > seen[t],
             \A i \in 1..Len(pairs[t]) : pairs[t][i] # m
      PROVE  k <= m
  <2>1. m \in Left(t) BY <1>2, <1>4 DEF Left, Used
  <2> QED BY <2>1 DEF IsTurn
<1> QED BY <1>3, <1>4

(* The item of a line is the only one that is quite like it; so an answer  *)
(* that is quite like comes with a match, and only for that item.          *)
LEMMA JudgeFits ==
  ASSUME IInv, AllFit, NEW t \in Task, at[t] \in {"match", "compare"},
         NEW k \in Left(t), IsTurn(t, k), NEW like \in 0..Top, NEW match \in BOOLEAN,
         Judge(t, k, like, match), garbled' = garbled,
         like = Top <=> Line(t).name = plate[t][k].name,
         like = Top => match
  PROVE  AllFit'
<1> DEFINE o == order[t]
           p == plate[t]
           q == pairs[t]
           s == seen[t]
           b == best[t]
           l == likeness[t]
           b1 == IF match /\ like > l THEN k ELSE b
           l1 == IF match /\ like > l THEN like ELSE l
<1>1. /\ o \in Seq(Item) /\ p \in Seq(Item) /\ q \in Seq(Nat)
      /\ s \in Nat /\ l \in 0..Top /\ Top \in Nat
      /\ Len(q) < Len(o)
  BY ListsAreSequences, PlateAssumption DEF IInv, Typed, SoundTask, Sound
<1>2. /\ at'[t] = "match" /\ order'[t] = o /\ plate'[t] = p /\ pairs'[t] = q /\ seen'[t] = k
      /\ best'[t] = b1 /\ likeness'[t] = l1 /\ garbled'[t] = garbled[t]
  BY DEF IInv, Typed, Judge
<1>3. \A u \in Task \ {t} :
        /\ at'[u] = at[u] /\ order'[u] = order[u] /\ plate'[u] = plate[u]
        /\ pairs'[u] = pairs[u] /\ seen'[u] = seen[u] /\ best'[u] = best[u]
        /\ likeness'[u] = likeness[u] /\ garbled'[u] = garbled[u]
  BY DEF IInv, Typed, Judge
<1>4. /\ k \in 1..Len(p) /\ k > s
      /\ \A m \in 1..Len(p) : m > s /\ (\A i \in 1..Len(q) : q[i] # m) => k <= m
  BY TurnIsFirst
<1>5. Line(t) = o[Len(q) + 1] BY DEF Line
<1>6. CASE garbled[t] \/ ~Served(o, p)
  <2>1. FitTask(t)' BY <1>2, <1>6 DEF FitTask
  <2> QED BY <1>3, <2>1, OneFits
<1>7. CASE ~garbled[t] /\ Served(o, p)
  <2>1. Fit(at[t], o, p, q, s, b, l) BY <1>7 DEF AllFit, FitTask
  <2> HIDE DEF o, p, q, s, b, l
  <2>2. /\ \A i, j \in 1..Len(o) : o[i].name = o[j].name => i = j
        /\ \A i, j \in 1..Len(p) : p[i].name = p[j].name => i = j
    BY <1>1, <1>7, ServedFacts
  <2>3. ASSUME NEW h \in 1..Len(p), p[h] = o[Len(q) + 1]
        PROVE  IF h <= k THEN b1 = h /\ l1 = Top ELSE l1 < Top
    <3>1. IF h <= s THEN b = h /\ l = Top ELSE l < Top BY <2>1, <2>3 DEF Fit
    <3>2. \A i \in 1..Len(q) : q[i] # h
      <4>1. ASSUME NEW i \in 1..Len(q), q[i] = h PROVE FALSE
        <5>1. o[i] = o[Len(q) + 1] BY <2>1, <2>3, <4>1 DEF Fit
        <5>2. i \in 1..Len(o) /\ Len(q) + 1 \in 1..Len(o) /\ i # Len(q) + 1 BY <1>1
        <5> QED BY <2>2, <5>1, <5>2
      <4> QED BY <4>1
    <3>3. like = Top <=> h = k
      <4>1. like = Top <=> p[h].name = p[k].name BY <1>5, <2>3 DEF p
      <4> QED BY <1>4, <2>2, <4>1
    <3>4. CASE h <= s
      <4>1. b = h /\ l = Top /\ ~(like > l) /\ h <= k BY <1>1, <1>4, <3>1, <3>4
      <4> QED BY <4>1
    <3>5. CASE ~(h <= s)
      <4>1. l < Top BY <3>1, <3>5
      <4>2. h > s BY <1>1, <3>5
      <4>3. k <= h BY <1>4, <3>2, <4>2
      <4>4. h \in Nat /\ k \in Nat /\ l \in Nat /\ like \in Nat /\ like <= Top BY <1>1, <1>4
      <4>5. CASE h = k
        <5>1. match /\ like > l /\ like = Top BY <1>1, <3>3, <4>1, <4>4, <4>5
        <5> QED BY <4>5, <5>1, <4>4
      <4>6. CASE h # k
        <5>1. ~(h <= k) /\ like < Top BY <1>1, <3>3, <4>3, <4>4, <4>6
        <5> QED BY <4>1, <5>1
      <4> QED BY <4>5, <4>6
    <3> QED BY <3>4, <3>5
  <2>4. Fit("match", o, p, q, k, b1, l1) BY <2>1, <2>3 DEF Fit
  <2>5. FitTask(t)' BY <1>2, <2>4 DEF FitTask
  <2> QED BY <1>3, <2>5, OneFits
<1> QED BY <1>6, <1>7

(* The fallback tells the item of a line from all others as well.          *)
LEMMA FallbackFits ==
  ASSUME IInv, AllFit, NEW t \in Task, at[t] \in {"match", "compare"},
         NEW k \in Left(t), IsTurn(t, k), Fallback(t, k)
  PROVE  AllFit'
<1> DEFINE same == Line(t).name = plate[t][k].name
           like == IF same THEN Top ELSE 0
<1>1. Judge(t, k, like, same) /\ garbled' = garbled BY DEF Fallback
<1>2. like \in 0..Top /\ same \in BOOLEAN BY PlateAssumption
<1>3. like = Top <=> same BY PlateAssumption
<1>4. like = Top <=> Line(t).name = plate[t][k].name BY <1>3
<1>5. like = Top => same BY <1>3
<1> HIDE DEF same, like
<1> QED BY <1>1, <1>2, <1>4, <1>5, JudgeFits

LEMMA ToldFits ==
  ASSUME IInv, AllFit, NEW t \in Task, Told(t)
  PROVE  AllFit'
<1>1. PICK k \in Left(t) :
        /\ IsTurn(t, k)
        /\ Judge(t, k, Likeness[<<Line(t).name, plate[t][k].name>>],
                 Likeness[<<Line(t).name, plate[t][k].name>>] >= Cut)
  BY DEF Told
<1> DEFINE like == Likeness[<<Line(t).name, plate[t][k].name>>]
<1>2. Line(t).name \in Name /\ plate[t][k].name \in Name
  <2>1. order[t] \in Seq(Item) /\ plate[t] \in Seq(Item) /\ pairs[t] \in Seq(Nat)
    BY ListsAreSequences DEF IInv, Typed
  <2>2. Len(pairs[t]) < Len(order[t]) /\ k \in 1..Len(plate[t])
    BY <2>1 DEF Told, IInv, SoundTask, Sound, Left
  <2>3. Line(t) \in Item /\ plate[t][k] \in Item BY <2>1, <2>2 DEF Line
  <2> QED BY <2>3 DEF Item
<1>3. like \in 0..Top BY <1>2, PlateAssumption
<1>4. like = Top <=> Line(t).name = plate[t][k].name BY <1>2, ServiceAssumption
<1>5. like = Top => like >= Cut BY PlateAssumption
<1>6. (like >= Cut) \in BOOLEAN OBVIOUS
<1>7. at[t] \in {"match", "compare"} /\ garbled' = garbled BY DEF Told
<1>8. IsTurn(t, k) /\ Judge(t, k, like, like >= Cut) BY <1>1
<1> HIDE DEF like
<1> QED BY <1>3, <1>4, <1>5, <1>6, <1>7, <1>8, JudgeFits

(* An answer that cannot be read takes the task out of the claim.          *)
LEMMA UnreadableFits ==
  ASSUME IInv, AllFit, NEW t \in Task, Unreadable(t)
  PROVE  AllFit'
<1>1. PICK k \in Left(t) : Judge(t, k, 0, FALSE) BY DEF Unreadable
<1>2. at'[t] = "match" /\ garbled'[t] BY <1>1 DEF IInv, Typed, Judge, Unreadable
<1>3. FitTask(t)' BY <1>2 DEF FitTask
<1>4. \A u \in Task \ {t} :
        /\ at'[u] = at[u] /\ order'[u] = order[u] /\ plate'[u] = plate[u]
        /\ pairs'[u] = pairs[u] /\ seen'[u] = seen[u] /\ best'[u] = best[u]
        /\ likeness'[u] = likeness[u] /\ garbled'[u] = garbled[u]
  BY <1>1 DEF IInv, Typed, Judge, Unreadable
<1> QED BY <1>3, <1>4, OneFits

(* When no item is left, the item of the line has been seen: no other line *)
(* has used it.                                                            *)
LEMMA SettleFits ==
  ASSUME IInv, AllFit, NEW t \in Task, Settle(t)
  PROVE  AllFit'
<1> DEFINE o == order[t]
           p == plate[t]
           q == pairs[t]
           s == seen[t]
           b == best[t]
           l == likeness[t]
           q1 == Append(q, b)
<1>1. /\ o \in Seq(Item) /\ p \in Seq(Item) /\ q \in Seq(Nat)
      /\ s \in Nat /\ b \in Nat /\ Len(q) < Len(o)
  BY ListsAreSequences DEF IInv, Typed, SoundTask, Sound, Settle
<1>2. /\ order'[t] = o /\ plate'[t] = p /\ pairs'[t] = q1 /\ seen'[t] = 0
      /\ best'[t] = 0 /\ likeness'[t] = 0 /\ garbled'[t] = garbled[t]
      /\ at'[t] \in {"match", "reply"}
  BY DEF IInv, Typed, Settle
<1>3. \A u \in Task \ {t} :
        /\ at'[u] = at[u] /\ order'[u] = order[u] /\ plate'[u] = plate[u]
        /\ pairs'[u] = pairs[u] /\ seen'[u] = seen[u] /\ best'[u] = best[u]
        /\ likeness'[u] = likeness[u] /\ garbled'[u] = garbled[u]
  BY DEF IInv, Typed, Settle
<1>4. \A m \in 1..Len(p) : (\A i \in 1..Len(q) : q[i] # m) => m <= s
  <2>1. DOMAIN p = 1..Len(p) /\ DOMAIN q = 1..Len(q) BY <1>1
  <2>2. \A m \in 1..Len(p) : (\A i \in 1..Len(q) : q[i] # m) => ~(m > s)
    BY <2>1 DEF Settle, Left, Used
  <2> HIDE DEF p, q, s
  <2>3. \A m \in 1..Len(p) : m \in Nat BY <1>1
  <2>4. \A m \in Nat : ~(m > s) => m <= s BY <1>1
  <2> QED BY <2>2, <2>3, <2>4
<1>5. CASE garbled[t] \/ ~Served(o, p)
  <2>1. FitTask(t)' BY <1>2, <1>5 DEF FitTask
  <2> QED BY <1>3, <2>1, OneFits
<1>6. CASE ~garbled[t] /\ Served(o, p)
  <2>1. at[t] = "match" /\ Fit("match", o, p, q, s, b, l)
    BY <1>6 DEF AllFit, FitTask, Settle
  <2>2. /\ q1 \in Seq(Nat) /\ Len(q1) = Len(q) + 1 /\ q1[Len(q) + 1] = b
        /\ \A i \in 1..Len(q) : q1[i] = q[i]
    BY <1>1
  <2> HIDE DEF o, p, q, s, b, l, q1
  <2>3. /\ \A i, j \in 1..Len(o) : o[i].name = o[j].name => i = j
        /\ \A i \in 1..Len(o) : \E h \in 1..Len(p) : p[h] = o[i]
    BY <1>1, <1>6, ServedFacts
  <2>4. Len(q) + 1 \in 1..Len(o) BY <1>1
  <2>5. PICK h \in 1..Len(p) : p[h] = o[Len(q) + 1] BY <2>3, <2>4
  <2>6. \A i \in 1..Len(q) : q[i] # h
    <3>1. ASSUME NEW i \in 1..Len(q), q[i] = h PROVE FALSE
      <4>1. o[i] = o[Len(q) + 1] BY <2>1, <2>5, <3>1 DEF Fit
      <4>2. i \in 1..Len(o) /\ i # Len(q) + 1 BY <1>1
      <4> QED BY <2>3, <2>4, <4>1, <4>2
    <3> QED BY <3>1
  <2>7. b = h
    <3>1. h <= s BY <1>4, <2>6
    <3> QED BY <2>1, <2>5, <3>1 DEF Fit
  <2>8. \A i \in 1..Len(q1) : q1[i] \in 1..Len(p) /\ p[q1[i]] = o[i]
    <3>1. ASSUME NEW i \in 1..Len(q1) PROVE q1[i] \in 1..Len(p) /\ p[q1[i]] = o[i]
      <4>1. CASE i = Len(q) + 1 BY <2>2, <2>5, <2>7, <4>1
      <4>2. CASE i # Len(q) + 1
        <5>1. i \in 1..Len(q) BY <1>1, <2>2, <4>2
        <5> QED BY <2>1, <2>2, <5>1 DEF Fit
      <4> QED BY <4>1, <4>2
    <3> QED BY <3>1
  <2>9. \A h1 \in 1..Len(p) : ~(h1 <= 0) OBVIOUS
  <2>10. Fit(at'[t], o, p, q1, 0, 0, 0) BY <2>8, <2>9, PlateAssumption DEF Fit
  <2>11. FitTask(t)' BY <1>2, <2>10 DEF FitTask
  <2> QED BY <1>3, <2>11, OneFits
<1> QED BY <1>5, <1>6

(* The call of OVMS: every line is still to come.                          *)
LEMMA PostFits ==
  ASSUME IInv, AllFit, NEW t \in Task, Send(t) \/ Replied(t)
  PROVE  AllFit'
<1>1. CASE Send(t)
  <2>1. PICK o \in Orders : order' = [order EXCEPT ![t] = o] BY <1>1 DEF Send
  <2>2. at'[t] = "post" /\ likeness'[t] = 0
    BY <1>1 DEF IInv, Typed, AllFit, FitTask, Send
  <2>3. FitTask(t)' BY <2>2 DEF FitTask
  <2>4. \A u \in Task \ {t} :
          /\ at'[u] = at[u] /\ order'[u] = order[u] /\ plate'[u] = plate[u]
          /\ pairs'[u] = pairs[u] /\ seen'[u] = seen[u] /\ best'[u] = best[u]
          /\ likeness'[u] = likeness[u] /\ garbled'[u] = garbled[u]
    BY <1>1, <2>1 DEF IInv, Typed, Send
  <2> QED BY <2>3, <2>4, OneFits
<1>2. CASE Answer(t)
  <2>1. PICK p \in Recognised : plate' = [plate EXCEPT ![t] = p] BY <1>2 DEF Answer
  <2>2. /\ at'[t] \in {"match", "reply"} /\ pairs'[t] = <<>> /\ seen'[t] = 0
        /\ likeness'[t] = 0
    BY <1>2 DEF IInv, Typed, SoundTask, Sound, AllFit, FitTask, Answer
  <2>3. \A h \in 1..Len(plate'[t]) : ~(h <= 0) OBVIOUS
  <2>4. Fit(at'[t], order'[t], plate'[t], <<>>, 0, best'[t], 0)
    BY <2>3, PlateAssumption DEF Fit
  <2>5. FitTask(t)' BY <2>2, <2>4 DEF FitTask
  <2>6. \A u \in Task \ {t} :
          /\ at'[u] = at[u] /\ order'[u] = order[u] /\ plate'[u] = plate[u]
          /\ pairs'[u] = pairs[u] /\ seen'[u] = seen[u] /\ best'[u] = best[u]
          /\ likeness'[u] = likeness[u] /\ garbled'[u] = garbled[u]
    BY <1>2, <2>1 DEF IInv, Typed, Answer
  <2> QED BY <2>5, <2>6, OneFits
<1>3. CASE BadImage(t) BY <1>3 DEF BadImage, work, AllFit, FitTask
<1>4. CASE HttpFails(t) \/ OtherFails(t) \/ CancelPost(t)
  BY <1>4, ForgetFits DEF HttpFails, OtherFails, CancelPost
<1> QED BY <1>1, <1>2, <1>3, <1>4 DEF Replied, VlmFails

LEMMA AskFits ==
  ASSUME IInv, AllFit, NEW t \in Task, Ask(t)
  PROVE  AllFit'
<1>1. at[t] = "match" /\ at'[t] = "compare" BY DEF Ask, IInv, Typed
<1>2. FitTask(t)' BY <1>1 DEF Ask, work, AllFit, FitTask, Fit
<1>3. \A u \in Task \ {t} :
        /\ at'[u] = at[u] /\ order'[u] = order[u] /\ plate'[u] = plate[u]
        /\ pairs'[u] = pairs[u] /\ seen'[u] = seen[u] /\ best'[u] = best[u]
        /\ likeness'[u] = likeness[u] /\ garbled'[u] = garbled[u]
  BY DEF Ask, work, IInv, Typed
<1> QED BY <1>2, <1>3, OneFits

LEMMA StepFits == IInv /\ AllFit /\ [Next]_vars => AllFit'
<1> SUFFICES ASSUME IInv, AllFit, [Next]_vars PROVE AllFit'
  OBVIOUS
<1>1. ASSUME NEW t \in Task, Matching(t) PROVE AllFit'
  <2>1. CASE Refused(t) BY <2>1, FallbackFits DEF Refused
  <2>2. CASE NotTold(t) BY <2>2, FallbackFits DEF NotTold
  <2>3. CASE Ends(t) BY <2>3, ForgetFits DEF Ends
  <2> QED BY <1>1, <2>1, <2>2, <2>3, AskFits, ToldFits, UnreadableFits, SettleFits
          DEF Matching
<1>2. CASE UNCHANGED <<at, work>> BY <1>2 DEF work, AllFit, FitTask
<1> QED BY <1>1, <1>2, PostFits DEF Next, vars

(* A plate that holds exactly what was ordered, each name once, is called  *)
(* complete, whatever the breaker does between two comparisons, unless an  *)
(* answer of the service could not be read, and as long as the service     *)
(* finds no other name quite as like as the name itself.                   *)
THEOREM ServedPlates == Spec => []ServedIsComplete
<1>1. Init => AllFit BY DEF Init, AllFit, FitTask
<1>2. IInv /\ AllFit => ServedIsComplete
  <2> SUFFICES ASSUME IInv, AllFit, NEW t \in Task, at[t] = "reply", ~garbled[t],
                      Served(order[t], plate[t])
               PROVE  OrderComplete(t)
    BY DEF ServedIsComplete, Served
  <2> DEFINE o == order[t]
             p == plate[t]
             q == pairs[t]
  <2>1. o \in Seq(Item) /\ p \in Seq(Item) /\ q \in Seq(Nat) /\ Len(q) = Len(o)
    BY DEF IInv, SoundTask, Sound
  <2>2. \A i \in 1..Len(q) : q[i] \in 1..Len(p) /\ p[q[i]] = o[i]
    BY DEF AllFit, FitTask, Fit
  <2>3. DOMAIN q = 1..Len(q) /\ DOMAIN p = 1..Len(p) BY <2>1
  <2>4. Missing(t) = {} /\ Mismatch(t) = {}
    BY <2>2, <2>3 DEF Missing, Mismatch
  <2>5. ASSUME NEW k \in 1..Len(p) PROVE \E i \in 1..Len(q) : q[i] = k
    <3> HIDE DEF o, p, q
    <3>1. Served(o, p) BY DEF o, p
    <3>2. PICK i \in 1..Len(o) : p[k] = o[i] BY <2>1, <3>1, ServedFacts
    <3>3. q[i] \in 1..Len(p) /\ p[q[i]] = p[k] BY <2>1, <2>2, <3>2
    <3>4. \A x, y \in 1..Len(p) : p[x].name = p[y].name => x = y
      BY <2>1, <3>1, ServedFacts
    <3> QED BY <2>1, <3>2, <3>3, <3>4
  <2>6. Extra(t) = {} BY <2>3, <2>5 DEF Extra, Used
  <2> QED BY <2>4, <2>6 DEF OrderComplete
<1> QED BY <1>1, <1>2, StepFits, Invariance, PTL DEF Spec

---------------------------------------------------------------------------
(* The benchmark: the size of a pool, and which benchmark a stop request   *)
(* reaches.                                                                *)

(* A set of worker numbers is finite, and has a greatest one if any.       *)
LEMMA WorkersFinite ==
  ASSUME NEW S \in SUBSET Worker
  PROVE  IsFiniteSet(S) /\ Cardinality(S) \in Nat
<1>1. IsFiniteSet(Worker) BY FS_Interval, BenchmarkAssumption DEF Worker
<1>2. IsFiniteSet(S) BY <1>1, FS_Subset
<1> QED BY <1>2, FS_CardinalityType

LEMMA MaxIsIn ==
  ASSUME NEW S \in SUBSET Worker, S # {}
  PROVE  Max(S) \in S
<1> DEFINE T == {MaxTasks - x : x \in S}
<1>1. MaxTasks \in Nat /\ S \subseteq 1..MaxTasks BY BenchmarkAssumption DEF Worker
<1>2. T \subseteq Nat /\ T # {}
  <2>1. ASSUME NEW x \in S PROVE MaxTasks - x \in Nat BY <1>1
  <2>2. PICK x \in S : TRUE OBVIOUS
  <2> QED BY <2>1, <2>2
<1>3. PICK d \in T : \A y \in T : <<y, d>> \notin OpToRel(<, Nat)
  <2> HIDE DEF T
  <2> QED BY <1>2, NatLessThanWellFounded, WFMin
<1>4. \A y \in T : ~(y < d) BY <1>2, <1>3 DEF OpToRel
<1>5. PICK x \in S : d = MaxTasks - x BY <1>3
<1>6. \A y \in S : x >= y
  <2>1. ASSUME NEW y \in S PROVE x >= y
    <3>1. ~(MaxTasks - y < MaxTasks - x) BY <1>4, <1>5
    <3> QED BY <1>1, <3>1
  <2> QED BY <2>1
<1> QED BY <1>6 DEF Max

---------------------------------------------------------------------------
(* What a step of each kind changes.                                       *)
Turns(s, w) ==
  /\ task' = [task EXCEPT ![<<s, w>>] = task'[<<s, w>>]]
  /\ task'[<<s, w>>] \in TaskState \ {"none", "new"}
  /\ task'[<<s, w>>] = "done" => told[s] \/ <<s, w>> \in doomed
  /\ task[<<s, w>>] \in {"new", "calling", "pausing", "spinning"}
  /\ \/ doomed' = doomed /\ <<s, w>> \notin doomed
     \/ doomed' = doomed \ {<<s, w>>} /\ task'[<<s, w>>] = "done"
  /\ measured' = measured \/ measured' = [measured EXCEPT ![s] = TRUE]
  /\ UNCHANGED <<scalingVars, requestVars>>

DoomedRun == \A s \in Service, w \in Worker : <<s, w>> \in doomed => ~Ended(s, w)

LEMMA WorkerTurns ==
  ASSUME BenchmarkTypeOK, DoomedRun, NEW s \in Service, NEW w \in Worker, Works(s, w)
  PROVE  Turns(s, w)
<1>1. task \in [Service \X Worker -> TaskState] /\ <<s, w>> \in Service \X Worker
  BY DEF BenchmarkTypeOK
<1>2. CASE Begins(s, w) BY <1>1, <1>2 DEF Begins, Goes, May, Turns, TaskState
<1>3. CASE Validated(s, w) BY <1>1, <1>3 DEF Validated, Goes, May, Records, Turns, TaskState
<1>4. CASE Continues(s, w) BY <1>1, <1>4 DEF Continues, Goes, May, Turns, TaskState
<1>5. CASE Cancelled(s, w)
  <2>1. task[<<s, w>>] \in {"new", "calling", "pausing", "spinning"}
    BY <1>1, <1>5 DEF Cancelled, DoomedRun, Ended, TaskState
  <2> QED BY <1>1, <1>5, <2>1 DEF Cancelled, Goes, Turns, TaskState
<1> QED BY <1>2, <1>3, <1>4, <1>5 DEF Works

LEMMA TypeInit == BenchmarkInit => BenchmarkTypeOK /\ DoomedRun
<1> SUFFICES ASSUME BenchmarkInit PROVE BenchmarkTypeOK /\ DoomedRun OBVIOUS
<1>1. DoomedRun BY DEF BenchmarkInit, DoomedRun
<1>2. 0 \in 0..MaxServices /\ 0 \in 0..MaxTasks BY BenchmarkAssumption
<1>3. /\ made \in 0..MaxServices /\ held \in (1..made) \cup {NoService}
      /\ paired \in [Service -> BOOLEAN] /\ told \in [Service -> BOOLEAN]
      /\ active \in [Service -> SUBSET Worker] /\ count \in [Service -> 0..MaxTasks]
  BY <1>2 DEF BenchmarkInit
<1>4. /\ task \in [Service \X Worker -> TaskState] /\ doomed \in SUBSET (Service \X Worker)
      /\ monitor \in [Service -> MonitorState] /\ leaving \in [Service -> 0..MaxTasks]
  BY <1>2 DEF BenchmarkInit, TaskState, MonitorState
<1>5. /\ measured \in [Service -> BOOLEAN]
      /\ waiting \in [Caller -> Service \cup {NoService}]
      /\ gathered \in [Caller -> SUBSET Worker]
      /\ crossed \in BOOLEAN
  BY DEF BenchmarkInit
<1> QED BY <1>1, <1>3, <1>4, <1>5 DEF BenchmarkTypeOK

(* No step of a monitor but start() makes an ended task run, and none ends *)
(* one.                                                                    *)
LEMMA MonitorSteps ==
  ASSUME BenchmarkTypeOK, NEW s \in Service, Monitors(s)
  PROVE  /\ active' \in [Service -> SUBSET Worker] /\ count' \in [Service -> 0..MaxTasks]
         /\ task' \in [Service \X Worker -> TaskState] /\ doomed' \in SUBSET (Service \X Worker)
         /\ monitor' \in [Service -> MonitorState] /\ leaving' \in [Service -> 0..MaxTasks]
         /\ \A p \in Service \X Worker : task'[p] \in {"none", "done"} => task'[p] = task[p]
<1>1. /\ active \in [Service -> SUBSET Worker] /\ count \in [Service -> 0..MaxTasks]
      /\ task \in [Service \X Worker -> TaskState] /\ doomed \in SUBSET (Service \X Worker)
      /\ monitor \in [Service -> MonitorState] /\ leaving \in [Service -> 0..MaxTasks]
      /\ MaxTasks \in Nat
  BY BenchmarkAssumption DEF BenchmarkTypeOK
<1>2. NextRound(s) => monitor' \in [Service -> MonitorState]
  BY <1>1 DEF NextRound, MonitorState
<1>3. CASE MonitorRests(s) BY <1>1, <1>2, <1>3 DEF MonitorRests, workerVars
<1>4. CASE ScaleUp(s)
  <2>1. count[s] + 1 \in Worker /\ count[s] + 1 \in 0..MaxTasks BY <1>1, <1>4 DEF ScaleUp, Worker
  <2>2. count' \in [Service -> 0..MaxTasks] /\ count'[s] = count[s] + 1
    BY <1>1, <1>4, <2>1 DEF ScaleUp
  <2>3. active' \in [Service -> SUBSET Worker]
    BY <1>1, <1>4, <2>1, <2>2 DEF ScaleUp
  <2>4. /\ task' \in [Service \X Worker -> TaskState]
        /\ \A p \in Service \X Worker : task'[p] \in {"none", "done"} => task'[p] = task[p]
    BY <1>1, <1>4, <2>1, <2>2 DEF ScaleUp, Goes, TaskState
  <2> QED BY <1>1, <1>2, <1>4, <2>2, <2>3, <2>4 DEF ScaleUp
<1>5. CASE ScaleDown(s)
  <2> DEFINE w == Max(active[s])
  <2>1. active[s] \in SUBSET Worker BY <1>1
  <2>2. active[s] # {}
    BY <1>5, FS_EmptySet, BenchmarkAssumption DEF ScaleDown
  <2>3. w \in Worker /\ w \in 0..MaxTasks BY <1>1, <2>1, <2>2, MaxIsIn DEF Worker
  <2>4. /\ active' = [active EXCEPT ![s] = @ \ {w}] /\ leaving' = [leaving EXCEPT ![s] = w]
        /\ doomed' = IF Ended(s, w) THEN doomed ELSE doomed \cup {<<s, w>>}
        /\ monitor' = [monitor EXCEPT ![s] = "removing"] /\ count' = count /\ task' = task
    BY <1>5 DEF ScaleDown
  <2> HIDE DEF w
  <2>5. active' \in [Service -> SUBSET Worker] /\ leaving' \in [Service -> 0..MaxTasks]
    BY <1>1, <2>1, <2>3, <2>4
  <2>6. doomed' \in SUBSET (Service \X Worker)
    BY <1>1, <2>3, <2>4
  <2>7. monitor' \in [Service -> MonitorState] BY <1>1, <2>4 DEF MonitorState
  <2> QED BY <1>1, <2>4, <2>5, <2>6, <2>7
<1>6. CASE Removed(s)
  <2>1. /\ leaving' = [leaving EXCEPT ![s] = 0] /\ NextRound(s)
        /\ UNCHANGED <<active, count, workerVars>>
    BY <1>6 DEF Removed
  <2>2. leaving' \in [Service -> 0..MaxTasks] BY <1>1, <2>1
  <2> QED BY <1>1, <1>2, <2>1, <2>2 DEF workerVars
<1>7. CASE Starts(s)
  <2>1. Initial \in 0..MaxTasks /\ 1..Initial \subseteq Worker BY BenchmarkAssumption DEF Worker
  <2>2. count' \in [Service -> 0..MaxTasks] /\ active' \in [Service -> SUBSET Worker]
    BY <1>1, <1>7, <2>1 DEF Starts
  <2>3. /\ task' \in [Service \X Worker -> TaskState]
        /\ \A p \in Service \X Worker : task'[p] \in {"none", "done"} => task'[p] = task[p]
    BY <1>1, <1>7 DEF Starts, TaskState
  <2> QED BY <1>1, <1>2, <1>7, <2>2, <2>3 DEF Starts
<1> QED BY <1>3, <1>4, <1>5, <1>6, <1>7 DEF Monitors

LEMMA TypeStep ==
  BenchmarkTypeOK /\ DoomedRun /\ [BenchmarkNext]_benchmarkVars => BenchmarkTypeOK'
<1> SUFFICES ASSUME BenchmarkTypeOK, DoomedRun, [BenchmarkNext]_benchmarkVars
    PROVE BenchmarkTypeOK' OBVIOUS
<1> USE BenchmarkAssumption
<1>1. /\ made \in 0..MaxServices /\ held \in (1..made) \cup {NoService}
      /\ paired \in [Service -> BOOLEAN] /\ told \in [Service -> BOOLEAN]
      /\ active \in [Service -> SUBSET Worker] /\ count \in [Service -> 0..MaxTasks]
      /\ task \in [Service \X Worker -> TaskState] /\ doomed \in SUBSET (Service \X Worker)
      /\ monitor \in [Service -> MonitorState] /\ leaving \in [Service -> 0..MaxTasks]
      /\ measured \in [Service -> BOOLEAN]
      /\ waiting \in [Caller -> Service \cup {NoService}]
      /\ gathered \in [Caller -> SUBSET Worker]
      /\ crossed \in BOOLEAN
  BY DEF BenchmarkTypeOK
<1>2. ASSUME NEW s \in Service, NEW w \in Worker, Works(s, w) PROVE BenchmarkTypeOK'
  <2>1. Turns(s, w) BY <1>2, WorkerTurns
  <2>2. task' \in [Service \X Worker -> TaskState] BY <1>1, <2>1 DEF Turns
  <2>3. measured' \in [Service -> BOOLEAN] BY <1>1, <2>1 DEF Turns
  <2>4. doomed' \in SUBSET (Service \X Worker) BY <1>1, <2>1 DEF Turns
  <2>5. UNCHANGED <<scalingVars, requestVars>> BY <2>1 DEF Turns
  <2> QED BY <1>1, <2>2, <2>3, <2>4, <2>5 DEF BenchmarkTypeOK, scalingVars, requestVars
<1>3. ASSUME NEW s \in Service, Monitors(s) PROVE BenchmarkTypeOK'
  <2>1. UNCHANGED <<requestVars, measured>> BY <1>3 DEF Monitors
  <2> QED BY <1>1, <1>3, <2>1, MonitorSteps DEF BenchmarkTypeOK, requestVars
<1>4. CASE StartBenchmark /\ UNCHANGED measured
  <2>1. made' \in 0..MaxServices /\ made' \in Service /\ held' = made' /\ made' \in 1..made'
    BY <1>1, <1>4 DEF StartBenchmark, Service
  <2>2. monitor' \in [Service -> MonitorState] /\ paired' \in [Service -> BOOLEAN]
    BY <1>1, <1>4, <2>1 DEF StartBenchmark, MonitorState
  <2> QED BY <1>1, <1>4, <2>1, <2>2 DEF StartBenchmark, BenchmarkTypeOK, workerVars
<1>5. ASSUME NEW c \in Caller, StopBenchmark(c), UNCHANGED measured PROVE BenchmarkTypeOK'
  <2>1. held \in Service /\ active[held] \in SUBSET Worker
    BY <1>1, <1>5 DEF StopBenchmark, Service
  <2>2. told' \in [Service -> BOOLEAN] BY <1>1, <1>5 DEF StopBenchmark
  <2>3. doomed' \in SUBSET (Service \X Worker) BY <1>1, <1>5, <2>1 DEF StopBenchmark
  <2>4. /\ held' \in (1..made) \cup {NoService}
        /\ waiting' \in [Caller -> Service \cup {NoService}]
        /\ gathered' \in [Caller -> SUBSET Worker]
    BY <1>1, <1>5, <2>1 DEF StopBenchmark
  <2>5. crossed' \in BOOLEAN BY <1>1, <1>5 DEF StopBenchmark
  <2> QED BY <1>1, <1>5, <2>2, <2>3, <2>4, <2>5 DEF StopBenchmark, BenchmarkTypeOK, scalingVars
<1>6. ASSUME NEW c \in Caller, StopReturns(c), UNCHANGED measured PROVE BenchmarkTypeOK'
  <2>1. active' \in [Service -> SUBSET Worker] BY <1>1, <1>6 DEF StopReturns
  <2>2. waiting' \in [Caller -> Service \cup {NoService}] /\ gathered' \in [Caller -> SUBSET Worker]
    BY <1>1, <1>6 DEF StopReturns
  <2> QED BY <1>1, <1>6, <2>1, <2>2 DEF StopReturns, BenchmarkTypeOK, workerVars
<1>7. CASE UNCHANGED benchmarkVars
  BY <1>1, <1>7 DEF benchmarkVars, workerVars, scalingVars, requestVars, BenchmarkTypeOK
<1> QED BY <1>2, <1>3, <1>4, <1>5, <1>6, <1>7 DEF BenchmarkNext

(* Only a task that runs is cancelled.                                     *)
LEMMA DoomedStep == BenchmarkTypeOK /\ DoomedRun /\ [BenchmarkNext]_benchmarkVars => DoomedRun'
<1> SUFFICES ASSUME BenchmarkTypeOK, DoomedRun, [BenchmarkNext]_benchmarkVars,
                    NEW t \in Service, NEW v \in Worker, <<t, v>> \in doomed'
             PROVE  ~Ended(t, v)'
  BY DEF DoomedRun
<1>1. task \in [Service \X Worker -> TaskState] /\ <<t, v>> \in Service \X Worker
  BY DEF BenchmarkTypeOK
<1>2. ASSUME NEW s \in Service, NEW w \in Worker, Works(s, w) PROVE ~Ended(t, v)'
  <2>1. Turns(s, w) BY <1>2, WorkerTurns
  <2>2. <<t, v>> \in doomed /\ <<t, v>> # <<s, w>> BY <2>1 DEF Turns
  <2>3. task'[<<t, v>>] = task[<<t, v>>] BY <1>1, <2>1, <2>2 DEF Turns
  <2> QED BY <2>2, <2>3 DEF DoomedRun, Ended
<1>3. ASSUME NEW s \in Service, Monitors(s) PROVE ~Ended(t, v)'
  <2>1. Ended(t, v)' => Ended(t, v) BY <1>1, <1>3, MonitorSteps DEF Ended
  <2>2. <<t, v>> \in doomed \/ ~Ended(t, v)
    BY <1>3 DEF Monitors, MonitorRests, ScaleUp, ScaleDown, Removed, Starts, workerVars
  <2> QED BY <2>1, <2>2 DEF DoomedRun
<1>4. CASE StartBenchmark BY <1>4 DEF StartBenchmark, DoomedRun, Ended, workerVars
<1>5. ASSUME NEW c \in Caller, StopBenchmark(c) PROVE ~Ended(t, v)'
  BY <1>5 DEF StopBenchmark, DoomedRun, Ended
<1>6. ASSUME NEW c \in Caller, StopReturns(c) PROVE ~Ended(t, v)'
  BY <1>6 DEF StopReturns, DoomedRun, Ended, workerVars
<1>7. CASE UNCHANGED benchmarkVars BY <1>7 DEF benchmarkVars, workerVars, DoomedRun, Ended
<1> QED BY <1>2, <1>3, <1>4, <1>5, <1>6, <1>7 DEF BenchmarkNext

(* The state stays of its type: worker numbers, instances and requests     *)
(* stay within their ranges, and only tasks that run are cancelled.        *)
THEOREM BenchmarkTypeCorrect == BenchmarkSpec => [](BenchmarkTypeOK /\ DoomedRun)
<1>1. BenchmarkTypeOK /\ DoomedRun /\ [BenchmarkNext]_benchmarkVars
    => (BenchmarkTypeOK /\ DoomedRun)' BY TypeStep, DoomedStep
<1> QED BY <1>1, TypeInit, PTL DEF BenchmarkSpec

---------------------------------------------------------------------------
(* Without overlapping stop requests, at most one is under way, and it is  *)
(* for the benchmark that is held.                                         *)
OneStop ==
  ~crossed =>
    /\ \A c \in Caller : waiting[c] # NoService => waiting[c] = held /\ told[held]
    /\ \A c, d \in Caller : waiting[c] # NoService /\ waiting[d] # NoService => c = d

LEMMA OrphanStep ==
  BenchmarkTypeOK /\ DoomedRun /\ OneStop /\ NoOrphan /\ [BenchmarkNext]_benchmarkVars
      => OneStop' /\ NoOrphan'
<1> SUFFICES ASSUME BenchmarkTypeOK, DoomedRun, OneStop, NoOrphan,
    [BenchmarkNext]_benchmarkVars PROVE OneStop' /\ NoOrphan'
  OBVIOUS
<1>1. /\ made \in Nat /\ 1..made \subseteq Service /\ held \in (1..made) \cup {NoService}
      /\ told \in [Service -> BOOLEAN] /\ waiting \in [Caller -> Service \cup {NoService}]
      /\ crossed \in BOOLEAN /\ NoService \notin Service
  BY BenchmarkAssumption DEF BenchmarkTypeOK, Service
<1>2. ASSUME UNCHANGED requestVars PROVE OneStop' /\ NoOrphan'
  BY <1>2 DEF requestVars, OneStop, NoOrphan
<1>3. ASSUME NEW s \in Service, NEW w \in Worker, Works(s, w) PROVE UNCHANGED requestVars
  BY <1>3, WorkerTurns DEF Turns
<1>4. ASSUME NEW s \in Service, Monitors(s) PROVE UNCHANGED requestVars
  BY <1>4 DEF Monitors
<1>5. CASE StartBenchmark
  <2>1. ~crossed => \A c \in Caller : waiting[c] = NoService
    BY <1>1, <1>5 DEF StartBenchmark, OneStop
  <2>2. OneStop' BY <1>5, <2>1 DEF StartBenchmark, OneStop
  <2>3. ~crossed => \A s \in 1..made : told[s]
    BY <1>1, <1>5 DEF StartBenchmark, NoOrphan
  <2>4. NoOrphan' BY <1>1, <1>5, <2>3 DEF StartBenchmark, NoOrphan
  <2> QED BY <2>2, <2>4
<1>6. ASSUME NEW c \in Caller, StopBenchmark(c) PROVE OneStop' /\ NoOrphan'
  <2>1. /\ held \in 1..made /\ held \in Service
        /\ waiting[c] = NoService /\ told' = [told EXCEPT ![held] = TRUE] /\ made' = made
        /\ crossed' = (crossed \/ \E d \in Caller : waiting[d] # NoService)
        /\ \/ held' = NoService /\ waiting' = waiting
           \/ held' = held /\ waiting' = [waiting EXCEPT ![c] = held]
    BY <1>1, <1>6 DEF StopBenchmark
  <2>2. OneStop'
    <3>1. SUFFICES ASSUME ~crossed', \A d \in Caller : waiting[d] = NoService PROVE OneStop'
      BY <2>1 DEF OneStop
    <3>2. CASE held' = NoService /\ waiting' = waiting BY <3>1, <3>2 DEF OneStop
    <3>3. CASE held' = held /\ waiting' = [waiting EXCEPT ![c] = held]
      <4>1. \A d \in Caller : waiting'[d] # NoService => d = c BY <1>1, <3>1, <3>3
      <4>2. waiting'[c] = held' /\ told'[held'] BY <1>1, <2>1, <3>3
      <4> QED BY <4>1, <4>2 DEF OneStop
    <3> QED BY <2>1, <3>2, <3>3
  <2>3. NoOrphan'
    <3>1. ASSUME ~crossed', NEW s \in 1..made PROVE told'[s] \/ held' = s
      <4>1. told[s] \/ held = s BY <2>1, <3>1 DEF NoOrphan
      <4> QED BY <1>1, <2>1, <4>1
    <3> QED BY <2>1, <3>1 DEF NoOrphan
  <2> QED BY <2>2, <2>3
<1>7. ASSUME NEW c \in Caller, StopReturns(c) PROVE OneStop' /\ NoOrphan'
  <2>1. /\ waiting[c] # NoService /\ held' = NoService /\ made' = made /\ told' = told
        /\ crossed' = crossed /\ waiting' = [waiting EXCEPT ![c] = NoService]
    BY <1>7 DEF StopReturns
  <2>2. ~crossed => \A d \in Caller : waiting'[d] = NoService
    BY <1>1, <2>1 DEF OneStop
  <2>3. ~crossed => told[held] /\ \A s \in 1..made : told[s]
    BY <2>1 DEF OneStop, NoOrphan
  <2> QED BY <2>1, <2>2, <2>3 DEF OneStop, NoOrphan
<1> QED BY <1>2, <1>3, <1>4, <1>5, <1>6, <1>7 DEF BenchmarkNext, benchmarkVars

(* As long as stop requests do not overlap, every benchmark but the one    *)
(* held has been told to stop: no number of starts, stops, rounds of the   *)
(* monitor or workers leaves one behind that no request can reach.         *)
THEOREM NoBenchmarkOrphaned == BenchmarkSpec => []NoOrphan
<1>1. BenchmarkInit => OneStop /\ NoOrphan BY DEF BenchmarkInit, OneStop, NoOrphan
<1> QED BY <1>1, OrphanStep, BenchmarkTypeCorrect, PTL DEF BenchmarkSpec

---------------------------------------------------------------------------
(* The pool.  An instance that has not started has no tasks; one that has, *)
(* and is not told to stop, runs the workers on its list and, while the    *)
(* monitor waits for it, the one that was taken off.                       *)
Idle(s) == monitor[s] \in {"none", "queued"}

Unstarted ==
  \A s \in Service :
    /\ Idle(s) => \A w \in Worker : task[<<s, w>>] = "none"
    /\ s > made => monitor[s] = "none"

AwaitedAreTold == \A c \in Caller : waiting[c] # NoService => told[waiting[c]]

Leaver(s, w) == monitor[s] = "removing" /\ w = leaving[s]

Listed(s, w) ==
  /\ w \in active[s] => ~Ended(s, w)
  /\ w \notin active[s] /\ ~Ended(s, w) => Leaver(s, w)
  /\ <<s, w>> \in doomed => Leaver(s, w)

Sized(s) ==
  /\ active[s] \subseteq 1..count[s]
  /\ Cardinality(active[s]) \in Least..Most
  /\ monitor[s] = "removing" => leaving[s] \notin active[s] /\ Cardinality(active[s]) < Most

Pool(s) == ~told[s] /\ ~Idle(s) => Sized(s) /\ \A w \in Worker : Listed(s, w)

Inv ==
  /\ BenchmarkTypeOK /\ DoomedRun
  /\ Unstarted /\ AwaitedAreTold
  /\ \A s \in Service : Pool(s)

LEMMA PoolInit == BenchmarkInit => Inv
<1> SUFFICES ASSUME BenchmarkInit PROVE Unstarted /\ AwaitedAreTold /\ \A s \in Service : Idle(s)
  BY TypeInit DEF Inv, Pool
<1> QED BY DEF BenchmarkInit, Unstarted, AwaitedAreTold, Idle

(* A worker's step: it ends only if it is the one that leaves.             *)
LEMMA PoolWorker ==
  ASSUME Inv, NEW s \in Service, NEW w \in Worker, Works(s, w)
  PROVE  Unstarted' /\ AwaitedAreTold' /\ \A t \in Service : Pool(t)'
<1>1. Turns(s, w) /\ task \in [Service \X Worker -> TaskState]
  BY WorkerTurns DEF Inv, BenchmarkTypeOK
<1>2. UNCHANGED <<made, told, active, count, monitor, leaving, waiting>>
  BY <1>1 DEF Turns, scalingVars, requestVars
<1>3. \A t \in Service, v \in Worker : <<t, v>> # <<s, w>> => task'[<<t, v>>] = task[<<t, v>>]
  BY <1>1 DEF Turns
<1>4. ~Idle(s) BY <1>1 DEF Turns, Inv, Unstarted
<1>5. Unstarted'
  BY <1>2, <1>3, <1>4 DEF Inv, Unstarted, Idle
<1>6. AwaitedAreTold' BY <1>2 DEF Inv, AwaitedAreTold
<1>7. ASSUME NEW t \in Service, ~told'[t], ~Idle(t)', NEW v \in Worker PROVE Listed(t, v)'
  <2>1. Listed(t, v) BY <1>2, <1>7 DEF Inv, Pool, Idle
  <2>2. <<t, v>> \in doomed' => <<t, v>> \in doomed BY <1>1 DEF Turns
  <2>3. CASE <<t, v>> # <<s, w>>
    BY <1>2, <1>3, <2>1, <2>2, <2>3 DEF Listed, Leaver, Ended
  <2>4. CASE t = s /\ v = w
    <3>1. ~Ended(t, v) BY <1>1, <2>4 DEF Turns, Ended
    <3>2. Ended(t, v)' => <<t, v>> \in doomed
      BY <1>1, <1>2, <1>7, <2>4 DEF Turns, Ended
    <3>3. Ended(t, v)' => Leaver(t, v) BY <2>1, <3>2 DEF Listed
    <3>4. v \in active[t] => ~Leaver(t, v)
      BY <1>2, <1>7 DEF Inv, Pool, Idle, Sized, Leaver
    <3> QED BY <1>2, <2>1, <2>2, <3>1, <3>3, <3>4 DEF Listed, Leaver
  <2> QED BY <2>3, <2>4
<1>8. ASSUME NEW t \in Service, ~told'[t], ~Idle(t)' PROVE Sized(t)'
  BY <1>2, <1>8 DEF Inv, Pool, Idle, Sized
<1> QED BY <1>5, <1>6, <1>7, <1>8 DEF Pool

(* A step of a monitor leaves the other instances alone.                   *)
LEMMA OthersKept ==
  ASSUME Inv, NEW s \in Service, Monitors(s)
  PROVE  /\ \A t \in Service \ {s} : Pool(t)'
         /\ ~Idle(s)' /\ monitor[s] # "none"
         /\ Unstarted' /\ AwaitedAreTold'
<1>1. UNCHANGED requestVars BY DEF Monitors
<1>2. /\ monitor' = [monitor EXCEPT ![s] = monitor'[s]]
      /\ monitor'[s] \in {"done", "asleep", "removing"}
      /\ monitor[s] # "none"
  BY DEF Monitors, MonitorRests, ScaleUp, ScaleDown, Removed, Starts, NextRound, Wakes, MayScale,
         Inv, BenchmarkTypeOK
<1>3. ASSUME NEW t \in Service \ {s}
      PROVE  /\ active'[t] = active[t] /\ count'[t] = count[t] /\ leaving'[t] = leaving[t]
             /\ \A w \in Worker : /\ task'[<<t, w>>] = task[<<t, w>>]
                                  /\ <<t, w>> \in doomed' <=> <<t, w>> \in doomed
  <2>1. /\ active \in [Service -> SUBSET Worker] /\ count \in [Service -> 0..MaxTasks]
        /\ task \in [Service \X Worker -> TaskState] /\ leaving \in [Service -> 0..MaxTasks]
    BY DEF Inv, BenchmarkTypeOK
  <2>2. CASE MonitorRests(s) BY <2>2 DEF MonitorRests, workerVars
  <2>3. CASE ScaleUp(s) BY <1>3, <2>1, <2>3 DEF ScaleUp, Goes
  <2>4. CASE ScaleDown(s) BY <1>3, <2>1, <2>4 DEF ScaleDown
  <2>5. CASE Removed(s) BY <1>3, <2>1, <2>5 DEF Removed, workerVars
  <2>6. CASE Starts(s) BY <1>3, <2>1, <2>6 DEF Starts
  <2> QED BY <2>2, <2>3, <2>4, <2>5, <2>6 DEF Monitors
<1>4. \A t \in Service \ {s} : monitor'[t] = monitor[t] BY <1>2 DEF Inv, BenchmarkTypeOK
<1>5. \A t \in Service \ {s} : Pool(t)'
  BY <1>1, <1>3, <1>4 DEF Inv, Pool, Idle, Sized, Listed, Leaver, Ended, requestVars
<1>6. Unstarted'
  BY <1>1, <1>2, <1>3, <1>4 DEF Inv, Unstarted, Idle, requestVars
<1>7. AwaitedAreTold' BY <1>1 DEF Inv, AwaitedAreTold, requestVars
<1> QED BY <1>2, <1>5, <1>6, <1>7 DEF Idle

(* The monitor's own instance.                                             *)
LEMMA PoolMonitor ==
  ASSUME Inv, NEW s \in Service, Monitors(s), ~told[s]
  PROVE  Sized(s)' /\ \A w \in Worker : Listed(s, w)'
<1> USE BenchmarkAssumption
<1>1. /\ active \in [Service -> SUBSET Worker] /\ count \in [Service -> 0..MaxTasks]
      /\ task \in [Service \X Worker -> TaskState] /\ leaving \in [Service -> 0..MaxTasks]
      /\ monitor \in [Service -> MonitorState]
      /\ active[s] \in SUBSET Worker /\ count[s] \in Nat
  BY DEF Inv, BenchmarkTypeOK
<1>2. IsFiniteSet(active[s]) /\ Cardinality(active[s]) \in Nat BY <1>1, WorkersFinite
<1>3. NextRound(s) => monitor'[s] = "asleep" BY <1>1 DEF NextRound
<1>4. monitor[s] = "asleep" =>
        /\ Sized(s)
        /\ \A w \in Worker : (w \in active[s] <=> ~Ended(s, w)) /\ <<s, w>> \notin doomed
  BY DEF Inv, Pool, Idle, Listed, Leaver
<1>5. CASE MonitorRests(s)
  <2>1. /\ monitor[s] = "asleep" /\ monitor'[s] = "asleep"
        /\ UNCHANGED <<active, count, leaving, task, doomed>>
    BY <1>3, <1>5 DEF MonitorRests, Wakes, workerVars
  <2> QED BY <1>4, <2>1 DEF Sized, Listed, Ended
<1>6. CASE ScaleUp(s)
  <2> DEFINE n == count[s] + 1
  <2>1. /\ monitor[s] = "asleep" /\ monitor'[s] = "asleep" /\ n \in Worker
        /\ Cardinality(active[s]) < Most
        /\ count'[s] = n /\ active'[s] = active[s] \cup {n}
        /\ task' = [task EXCEPT ![<<s, n>>] = "new"] /\ doomed' = doomed
    BY <1>1, <1>3, <1>6 DEF ScaleUp, MayScale, Wakes, Goes, Worker
  <2>2. n \notin active[s] /\ active'[s] \subseteq 1..n
    BY <1>1, <1>4, <2>1 DEF Sized
  <2>3. Cardinality(active'[s]) = Cardinality(active[s]) + 1
    BY <1>2, <2>1, <2>2, FS_AddElement
  <2>4. Sized(s)' BY <1>2, <1>4, <2>1, <2>2, <2>3 DEF Sized
  <2>5. task'[<<s, n>>] = "new" /\ \A w \in Worker \ {n} : task'[<<s, w>>] = task[<<s, w>>]
    BY <1>1, <2>1
  <2>6. \A w \in Worker : Listed(s, w)' BY <1>4, <2>1, <2>5 DEF Listed, Ended
  <2> QED BY <2>4, <2>6
<1>7. CASE ScaleDown(s)
  <2> DEFINE n == Max(active[s])
  <2>1. active[s] # {} BY <1>2, <1>7, FS_EmptySet DEF ScaleDown
  <2>2. n \in active[s] /\ n \in Worker BY <1>1, <2>1, MaxIsIn
  <2>3. /\ active' = [active EXCEPT ![s] = @ \ {n}] /\ leaving' = [leaving EXCEPT ![s] = n]
        /\ doomed' = IF Ended(s, n) THEN doomed ELSE doomed \cup {<<s, n>>}
        /\ monitor' = [monitor EXCEPT ![s] = "removing"] /\ count' = count /\ task' = task
        /\ monitor[s] = "asleep" /\ Cardinality(active[s]) > Least
    BY <1>7 DEF ScaleDown, MayScale, Wakes
  <2> HIDE DEF n
  <2>4. /\ active'[s] = active[s] \ {n} /\ leaving'[s] = n /\ monitor'[s] = "removing"
    BY <1>1, <2>3
  <2>5. Cardinality(active'[s]) = Cardinality(active[s]) - 1
    <3>1. Cardinality(active[s] \ {n}) = Cardinality(active[s]) - 1
      BY <1>2, <2>2, FS_RemoveElement
    <3> QED BY <2>4, <3>1
  <2>6. Sized(s)' BY <1>2, <1>4, <2>3, <2>4, <2>5 DEF Sized
  <2>7. ASSUME NEW w \in Worker PROVE Listed(s, w)'
    <3>1. <<s, w>> \in doomed' => w = n BY <1>4, <2>3
    <3>2. Ended(s, w)' <=> Ended(s, w) BY <2>3 DEF Ended
    <3> QED BY <1>4, <2>2, <2>3, <2>4, <3>1, <3>2 DEF Listed, Leaver
  <2> QED BY <2>6, <2>7
<1>8. CASE Removed(s)
  <2>1. /\ monitor[s] = "removing" /\ monitor'[s] = "asleep" /\ Ended(s, leaving[s])
        /\ UNCHANGED <<active, count, task, doomed>>
    BY <1>3, <1>8 DEF Removed, workerVars
  <2>2. Sized(s) /\ \A w \in Worker : Listed(s, w) BY <2>1 DEF Inv, Pool, Idle
  <2>3. Sized(s)' BY <2>1, <2>2 DEF Sized
  <2>4. ASSUME NEW w \in Worker PROVE Listed(s, w)'
    <3>1. <<s, w>> \in doomed => ~Ended(s, w) BY DEF Inv, DoomedRun
    <3> QED BY <2>1, <2>2, <3>1 DEF Listed, Leaver, Ended
  <2> QED BY <2>3, <2>4
<1>9. CASE Starts(s)
  <2>1. /\ Idle(s) /\ monitor'[s] = "asleep"
        /\ active'[s] = 1..Initial /\ count'[s] = Initial /\ doomed' = doomed
        /\ \A w \in Worker : task'[<<s, w>>] = IF w <= Initial THEN "new" ELSE task[<<s, w>>]
    BY <1>1, <1>3, <1>9 DEF Starts, Idle
  <2>2. \A w \in Worker : task[<<s, w>>] = "none" /\ <<s, w>> \notin doomed
    BY <2>1 DEF Inv, Unstarted, DoomedRun, Ended
  <2>3. Cardinality(active'[s]) = Initial
    <3>1. Cardinality(1..Initial) = IF 1 > Initial THEN 0 ELSE Initial - 1 + 1 BY FS_Interval
    <3>2. Cardinality(1..Initial) = Initial BY <3>1
    <3> QED BY <2>1, <3>2
  <2>4. Sized(s)' BY <2>1, <2>3 DEF Sized
  <2>5. \A w \in Worker : w \in 1..Initial <=> w <= Initial BY DEF Worker
  <2>6. \A w \in Worker : Listed(s, w)' BY <2>1, <2>2, <2>5 DEF Listed, Ended
  <2> QED BY <2>4, <2>6
<1> QED BY <1>5, <1>6, <1>7, <1>8, <1>9 DEF Monitors

LEMMA PoolStep == Inv /\ [BenchmarkNext]_benchmarkVars => Inv'
<1> SUFFICES ASSUME Inv, [BenchmarkNext]_benchmarkVars
             PROVE  Unstarted' /\ AwaitedAreTold' /\ \A t \in Service : Pool(t)'
  BY TypeStep, DoomedStep DEF Inv
<1>1. /\ made \in 0..MaxServices /\ held \in (1..made) \cup {NoService}
      /\ told \in [Service -> BOOLEAN] /\ active \in [Service -> SUBSET Worker]
      /\ monitor \in [Service -> MonitorState]
      /\ waiting \in [Caller -> Service \cup {NoService}] /\ NoService \notin Service
      /\ MaxServices \in Nat
  BY BenchmarkAssumption DEF Inv, BenchmarkTypeOK, Service
<1>2. ASSUME NEW s \in Service, NEW w \in Worker, Works(s, w)
      PROVE  Unstarted' /\ AwaitedAreTold' /\ \A t \in Service : Pool(t)'
  BY <1>2, PoolWorker
<1>3. ASSUME NEW s \in Service, Monitors(s)
      PROVE  Unstarted' /\ AwaitedAreTold' /\ \A t \in Service : Pool(t)'
  <2>1. told' = told BY <1>3 DEF Monitors, requestVars
  <2>2. Pool(s)' BY <1>3, <2>1, PoolMonitor DEF Pool
  <2> QED BY <1>3, <2>2, OthersKept
<1>4. CASE StartBenchmark
  <2>1. /\ made' = made + 1 /\ made' \in Service /\ monitor' = [monitor EXCEPT ![made'] = "queued"]
        /\ UNCHANGED <<active, count, leaving, task, doomed, told, waiting>>
    BY <1>1, <1>4 DEF StartBenchmark, workerVars, Service
  <2>2. /\ monitor[made'] = "none" /\ monitor'[made'] = "queued"
        /\ \A t \in Service \ {made'} : monitor'[t] = monitor[t]
    BY <1>1, <2>1 DEF Inv, Unstarted
  <2>3. Unstarted'
    BY <1>1, <2>1, <2>2 DEF Inv, Unstarted, Idle, Service
  <2>4. \A t \in Service : Pool(t)'
    BY <2>1, <2>2 DEF Inv, Pool, Idle, Sized, Listed, Leaver, Ended
  <2>5. AwaitedAreTold' BY <2>1 DEF Inv, AwaitedAreTold
  <2> QED BY <2>3, <2>4, <2>5
<1>5. ASSUME NEW c \in Caller, StopBenchmark(c)
      PROVE  Unstarted' /\ AwaitedAreTold' /\ \A t \in Service : Pool(t)'
  <2>1. /\ held \in Service /\ told' = [told EXCEPT ![held] = TRUE]
        /\ doomed' = doomed \cup {<<held, w>> : w \in {v \in active[held] : ~Ended(held, v)}}
        /\ waiting' = waiting \/ waiting' = [waiting EXCEPT ![c] = held]
        /\ UNCHANGED <<made, task, active, count, monitor, leaving>>
    BY <1>1, <1>5 DEF StopBenchmark, scalingVars, Service
  <2>2. Unstarted' BY <2>1 DEF Inv, Unstarted, Idle
  <2>3. AwaitedAreTold' BY <1>1, <2>1 DEF Inv, AwaitedAreTold
  <2>4. ASSUME NEW t \in Service, ~told'[t] PROVE Pool(t)'
    <3>1. t # held /\ ~told[t] BY <1>1, <2>1, <2>4
    <3>2. \A w \in Worker : <<t, w>> \in doomed' => <<t, w>> \in doomed BY <2>1, <3>1
    <3> QED BY <2>1, <3>1, <3>2 DEF Inv, Pool, Idle, Sized, Listed, Leaver, Ended
  <2> QED BY <2>2, <2>3, <2>4 DEF Pool
<1>6. ASSUME NEW c \in Caller, StopReturns(c)
      PROVE  Unstarted' /\ AwaitedAreTold' /\ \A t \in Service : Pool(t)'
  <2>1. /\ waiting[c] \in Service /\ told[waiting[c]]
        /\ active' = [active EXCEPT ![waiting[c]] = {}]
        /\ waiting' = [waiting EXCEPT ![c] = NoService]
        /\ UNCHANGED <<made, told, task, doomed, count, monitor, leaving>>
    BY <1>1, <1>6 DEF StopReturns, workerVars, Inv, AwaitedAreTold
  <2>2. Unstarted' BY <2>1 DEF Inv, Unstarted, Idle
  <2>3. AwaitedAreTold' BY <1>1, <2>1 DEF Inv, AwaitedAreTold
  <2>4. ASSUME NEW t \in Service, ~told'[t] PROVE Pool(t)'
    <3>1. active'[t] = active[t] BY <1>1, <2>1, <2>4
    <3> QED BY <2>1, <3>1 DEF Inv, Pool, Idle, Sized, Listed, Leaver, Ended
  <2> QED BY <2>2, <2>3, <2>4 DEF Pool
<1>7. CASE UNCHANGED benchmarkVars
  BY <1>7 DEF benchmarkVars, workerVars, scalingVars, requestVars, Inv, Unstarted,
         AwaitedAreTold, Pool, Idle,
              Sized, Listed, Leaver, Ended
<1> QED BY <1>2, <1>3, <1>4, <1>5, <1>6, <1>7 DEF BenchmarkNext

LEMMA PoolFact == Inv => PoolBounded
<1> SUFFICES ASSUME Inv, NEW s \in Service, ~Idle(s), ~told[s]
             PROVE  Cardinality(Running(s)) \in Least..Most
  BY DEF PoolBounded, Idle
<1>1. Sized(s) /\ \A w \in Worker : Listed(s, w) BY DEF Inv, Pool
<1>2. active[s] \in SUBSET Worker /\ IsFiniteSet(active[s]) /\ Cardinality(active[s]) \in Nat
  BY WorkersFinite DEF Inv, BenchmarkTypeOK
<1>3. active[s] \subseteq Running(s) BY <1>1, <1>2 DEF Running, Listed
<1>4. CASE Running(s) = active[s] BY <1>1, <1>4 DEF Sized
<1>5. CASE Running(s) # active[s]
  <2>1. monitor[s] = "removing" /\ Running(s) = active[s] \cup {leaving[s]}
    BY <1>1, <1>3, <1>5 DEF Running, Listed, Leaver
  <2>2. Cardinality(Running(s)) = Cardinality(active[s]) + 1
    BY <1>1, <1>2, <2>1, FS_AddElement DEF Sized
  <2> QED BY <1>1, <1>2, <2>1, <2>2, BenchmarkAssumption DEF Sized
<1> QED BY <1>4, <1>5

(* Whatever the monitor decides, and whenever, a benchmark that has started *)
(* and is not told to stop runs at least min_workers and at most           *)
(* max_workers workers, for all values of the three numbers that are in    *)
(* order.                                                                  *)
THEOREM PoolStaysBounded == BenchmarkSpec => []PoolBounded
BY PoolInit, PoolStep, PoolFact, PTL DEF BenchmarkSpec
=============================================================================
