---------------------------- MODULE CircuitBreaker ----------------------------
(***************************************************************************)
(* The circuit breakers of dine-in, as values: CircuitBreaker              *)
(* (dine-in/src/services/vlm_client.py 57-121) and SemanticCircuitBreaker  *)
(* (semantic_client.py 27-70) are the same code with other time-outs.  A   *)
(* method awaits nothing under its lock, and all callers share one event   *)
(* loop: each is a single step, given here as the state it leaves.         *)
(***************************************************************************)
EXTENDS Integers

CONSTANTS
  Threshold,  (* failure_threshold (5)                                       *)
  Needed      (* success_threshold (2)                                       *)

ASSUME BreakerAssumption == Threshold \in Nat \ {0} /\ Needed \in Nat \ {0}

(* A failure count beyond the threshold is never told from the threshold:  *)
(* only "at least the threshold" is asked of it until it is set to 0.  The *)
(* successes are read in the half-open state only, which begins with none; *)
(* the time since the last failure in the open state only, which begins    *)
(* with a failure: elsewhere they are 0 and FALSE here.                    *)
Breaker == [state : {"closed", "open", "half_open"}, failures : 0..Threshold,
            successes : Nat, rested : BOOLEAN]

(* A closed breaker is below its threshold and any other one is at it; the *)
(* last success needed closes it.                                          *)
SoundBreaker(b) ==
  /\ b \in Breaker
  /\ b.state = "closed" <=> b.failures < Threshold
  /\ b.successes < Needed

NewBreaker == [state |-> "closed", failures |-> 0, successes |-> 0, rested |-> FALSE]

(* can_execute: its answer, and the state it leaves when the answer is yes. *)
Admits(b) == b.state # "open" \/ b.rested

AdmittedStaysOpen(b) == b

Admitted(b) ==
  IF b.state = "open" THEN [b EXCEPT !.state = "half_open", !.rested = FALSE] ELSE b

(* record_success.                                                         *)
Enough(b) == b.successes + 1 >= Needed

SucceededKeepsCount(b) ==
  CASE b.state = "half_open" /\ Enough(b) -> [b EXCEPT !.state = "closed", !.successes = 0]
    [] b.state = "half_open" /\ ~Enough(b) -> [b EXCEPT !.successes = @ + 1]
    [] b.state = "closed" /\ b.failures > 0 -> [b EXCEPT !.failures = @ - 1]
    [] OTHER -> b

Succeeded(b) ==
  CASE b.state = "half_open" /\ Enough(b) -> NewBreaker
    [] b.state = "half_open" /\ ~Enough(b) -> [b EXCEPT !.successes = @ + 1]
    [] b.state = "closed" /\ b.failures > 0 -> [b EXCEPT !.failures = @ - 1]
    [] OTHER -> b

(* record_failure: half-open, the count is at the threshold already.       *)
Failed(b) ==
  IF b.failures + 1 >= Threshold
    THEN [state |-> "open", failures |-> Threshold, successes |-> 0, rested |-> FALSE]
    ELSE [b EXCEPT !.failures = @ + 1]

(* recovery_timeout has passed since _last_failure_time.                   *)
Tired(b) == b.state = "open" /\ ~b.rested

Rested(b) == [b EXCEPT !.rested = TRUE]
=============================================================================
