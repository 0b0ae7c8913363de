------------------------------ MODULE Dunning ------------------------------
(***************************************************************************)
(* Engine.Decide of internal/dunning/engine.go: what follows a declined    *)
(* charge.  A decline is retriable or not: the classifier maps Nomba's     *)
(* codes to these two, and an unknown code is retriable.                   *)
(***************************************************************************)
EXTENDS Integers

CONSTANTS
  MaxAttempts,  \* DunningConfig.MaxAttempts
  Intervals     \* the length of DunningConfig.RetryIntervalsDays

ASSUME DunningAssumption == MaxAttempts \in Nat /\ Intervals \in Nat

(* The attempt after which no retry is offered. *)
LastAttempt == IF MaxAttempts <= Intervals THEN MaxAttempts ELSE Intervals

GiveUp(attempt) == [retry |-> FALSE, status |-> "SUSPENDED", attempt |-> attempt, day |-> 0]

Grace == [retry |-> TRUE, status |-> "GRACE_PERIOD", attempt |-> 0, day |-> 2]

(* day: an index into RetryIntervalsDays, counted from 1, or the two days  *)
(* of grace.                                                               *)
Retry(status, attempt) ==
  [retry |-> TRUE, status |-> status, attempt |-> attempt, day |-> attempt]

(* Mutant: the last attempt is not made.                                   *)
DecideEarly(status, attempt, retriable) ==
  IF retriable /\ attempt + 1 < LastAttempt THEN Retry("DUNNING", attempt + 1)
  ELSE GiveUp(attempt)

Decide(status, attempt, retriable) ==
  LET renewing == status \in {"ACTIVE", "TRIALING"}
  IN  IF ~retriable THEN GiveUp(attempt)
      ELSE IF attempt = 0 /\ renewing THEN Grace
      ELSE IF attempt + 1 > LastAttempt THEN GiveUp(attempt)
      ELSE Retry(IF renewing THEN "PAST_DUE" ELSE "DUNNING", attempt + 1)

=============================================================================
