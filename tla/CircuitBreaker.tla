---------------------------- MODULE CircuitBreaker ----------------------------
(***************************************************************************)
(* The per-backend circuit breaker of app/services/llm/circuit_breaker.py. *)
(*                                                                         *)
(* A breaker is a record.  The code stamps failures and openings with      *)
(* time.monotonic(); every test it makes compares an age with a constant,  *)
(* so the record holds ages, cut off at the constant they are compared     *)
(* with.  The methods are the operators below; asyncio runs each of them   *)
(* without interruption, so an operator is always part of one step.        *)
(***************************************************************************)
EXTENDS Integers, Sequences, FiniteSets

CONSTANTS Threshold,   \* failure_threshold: failures in the window that trip
          Cooldown,    \* cooldown_s, in clock ticks
          Window       \* window_s, in clock ticks

ASSUME ThresholdAssumption == Threshold \in Nat \ {0}
ASSUME CooldownAssumption == Cooldown \in Nat \ {0}
ASSUME WindowAssumption == Window \in Nat \ {0}

BreakerStates == {"closed", "open", "half_open"}

(* openedAge is meaningful while open; _opened_at = 0.0 reads "long ago". *)
Breakers == [state     : BreakerStates,
             failures  : Seq(0..Window),
             openedAge : 0..Cooldown,
             probe     : BOOLEAN]

FreshBreaker == [state     |-> "closed",
                 failures  |-> <<>>,
                 openedAge |-> Cooldown,
                 probe     |-> FALSE]

(* The state property: reading it moves an open breaker past its cooldown  *)
(* to half-open and forgets any earlier probe.                             *)
Observed(br) ==
    IF br.state = "open" /\ br.openedAge >= Cooldown
    THEN [br EXCEPT !.state = "half_open", !.probe = FALSE]
    ELSE br

(* _prune.  Failures are appended in clock order, so what the filter drops *)
(* is a prefix.                                                            *)
Expired(failures) == {i \in DOMAIN failures : failures[i] >= Window}

(* Mutant of Prune: old failures never leave the window. *)
PruneNothing(failures) == failures

Prune(failures) ==
    SubSeq(failures, Cardinality(Expired(failures)) + 1, Len(failures))

(* Mutant of Admits: half-open forgets to look for a probe in flight. *)
AdmitsEveryProbe(br) == Observed(br).state # "open"

(* before_call returns exactly when this holds; else CircuitOpenError. *)
Admits(br) ==
    \/ Observed(br).state = "closed"
    \/ Observed(br).state = "half_open" /\ ~Observed(br).probe

(* The breaker before_call leaves behind, whether it returns or raises: a  *)
(* half-open breaker has its probe out either way.                         *)
BeforeCall(br) ==
    [Observed(br) EXCEPT !.probe = @ \/ Observed(br).state = "half_open"]

(* Mutant of OnSuccess: the probe's success does not reclose the breaker. *)
OnSuccessOnlyPrunes(br) == [br EXCEPT !.failures = Prune(@)]

OnSuccess(br) ==
    IF br.state = "half_open"
    THEN [br EXCEPT !.state = "closed", !.failures = <<>>, !.probe = FALSE]
    ELSE [br EXCEPT !.failures = Prune(@)]

OnFailure(br) ==
    LET recent == Append(Prune(br.failures), 0)
    IN  IF br.state = "half_open"
        THEN [br EXCEPT !.state = "open", !.openedAge = 0, !.probe = FALSE]
        ELSE IF Len(recent) >= Threshold
        THEN [br EXCEPT !.state = "open", !.openedAge = 0, !.failures = <<>>]
        ELSE [br EXCEPT !.failures = recent]

(* One tick of time.monotonic(), as the breaker's comparisons see it. *)
Older(age, limit) == IF age < limit THEN age + 1 ELSE age

Aged(br) ==
    [br EXCEPT !.failures  = [i \in DOMAIN @ |-> Older(@[i], Window)],
               !.openedAge = Older(@, Cooldown)]
===============================================================================
