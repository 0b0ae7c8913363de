--------------------------- MODULE Subscriptions ---------------------------
(***************************************************************************)
(* The subscription lifecycle: the transition table and the function       *)
(* Transition of internal/subscription/state_machine.go, and the           *)
(* statements of db/queries/subscriptions.sql as operators from a row to   *)
(* a row.  The table says what may happen; the statements write any        *)
(* status over any other.                                                  *)
(*                                                                         *)
(* A row keeps the columns the billing handlers decide on: status,         *)
(* dunning_attempt, cancel_at_period_end and whether token_key is set.     *)
(***************************************************************************)
EXTENDS Naturals

Statuses == {"PENDING_PAYMENT", "TRIALING", "ACTIVE", "GRACE_PERIOD", "PAST_DUE",
             "DUNNING", "PAUSED", "SUSPENDED", "CANCELLED"}

Cancellations(to) ==
  {<<"customer_cancelled", to>>, <<"tenant_cancelled", to>>}

(* The map transitions: the <<event, next status>> pairs of each status.   *)
Transitions ==
  [PENDING_PAYMENT |->
     {<<"checkout_payment_succeeded", "ACTIVE">>, <<"checkout_payment_failed", "PAST_DUE">>,
      <<"checkout_abandoned", "PAST_DUE">>} \cup Cancellations("CANCELLED"),
   TRIALING |->
     {<<"trial_payment_succeeded", "ACTIVE">>, <<"trial_payment_failed", "PAST_DUE">>,
      <<"trial_cancelled", "CANCELLED">>} \cup Cancellations("CANCELLED"),
   ACTIVE |->
     {<<"renewal_failed", "GRACE_PERIOD">>, <<"customer_paused", "PAUSED">>}
     \cup Cancellations("CANCELLED"),
   GRACE_PERIOD |->
     {<<"grace_retry_succeeded", "ACTIVE">>, <<"grace_retry_failed", "PAST_DUE">>,
      <<"grace_expired", "PAST_DUE">>} \cup Cancellations("CANCELLED"),
   PAST_DUE |->
     {<<"retry_succeeded", "ACTIVE">>, <<"retry_failed_retriable", "DUNNING">>,
      <<"retry_failed_non_retriable", "SUSPENDED">>},
   DUNNING |->
     {<<"retry_succeeded", "ACTIVE">>, <<"retry_failed_retriable", "DUNNING">>,
      <<"retries_exhausted", "SUSPENDED">>},
   PAUSED |-> {<<"customer_resumed", "ACTIVE">>, <<"customer_cancelled", "CANCELLED">>},
   SUSPENDED |-> {<<"manual_recovery", "ACTIVE">>} \cup Cancellations("CANCELLED"),
   CANCELLED |-> {}]

(* Transition returns no error.  Its callers drop the status it returns.   *)
Permits(status, event) == \E next \in Statuses : <<event, next>> \in Transitions[status]

-----------------------------------------------------------------------------

Row == [status : Statuses, attempt : Nat, cancelling : BOOLEAN, card : BOOLEAN]

(* UpdateSubscriptionStatus *)
WithStatus(row, status) == [row EXCEPT !.status = status]

(* UpdateSubscriptionAfterRenewal, under UpdateAfterRenewal and            *)
(* ResumeForward: a new period with nothing owed.                          *)
Renewed(row) == [row EXCEPT !.status = "ACTIVE", !.attempt = 0]

(* UpdateSubscriptionDunning *)
WithDunning(row, status, attempt) == [row EXCEPT !.status = status, !.attempt = attempt]

(* Mutant: a status the schema does not know.                              *)
CancelledMisspelt(row) == WithStatus(row, "CANCELED")

(* CancelSubscription, PauseSubscription, ResumeSubscription *)
Cancelled(row) == WithStatus(row, "CANCELLED")
Paused(row) == WithStatus(row, "PAUSED")
Resumed(row) == WithStatus(row, "ACTIVE")

(* CancelSubscriptionAtPeriodEnd: no statement clears the flag.            *)
Cancelling(row) == [row EXCEPT !.cancelling = TRUE]

(* ClaimDunningAttempt: its WHERE clause, then its SET clause.             *)
AttemptIsFree(row, expected) == row.attempt = expected
AttemptTaken(row) == [row EXCEPT !.attempt = @ + 1]

(* UpdateSubscriptionTokenKey *)
WithCard(row) == [row EXCEPT !.card = TRUE]

=============================================================================
