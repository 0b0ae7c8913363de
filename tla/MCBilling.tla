----------------------------- MODULE MCBilling -----------------------------
(***************************************************************************)
(* Billing on small pools.  The starts are rows that checkout.go and the   *)
(* handlers leave behind.                                                  *)
(***************************************************************************)
EXTENDS Billing, TLC

(* Sound for the invariants: goroutines are alike, and so are requests.    *)
Symmetry == Permutations(Workers) \cup Permutations(Requests)

Left(status, card, queued, kinds) ==
  [status |-> status, card |-> card, jobs |-> queued, links |-> kinds]

(* CreateCheckout of a plan without and with a trial, before anyone pays;  *)
(* the abandoned-checkout job of the next start of the worker is there.    *)
Checkout == Left("PENDING_PAYMENT", FALSE, <<"checkout_abandoned">>, {"price"})
Trial == Left("TRIALING", FALSE, <<"expire_trial", "checkout_abandoned">>, {"verification"})

(* An abandoned checkout with the one retry job its handler queued; its    *)
(* customer then gave a card in the portal, and the merchant asked for     *)
(* another retry.                                                          *)
Abandoned == Left("PAST_DUE", FALSE, <<"retry_failed_payment">>, {"price"})
PastDueTwice ==
  Left("PAST_DUE", TRUE, <<"retry_failed_payment", "retry_failed_payment">>, {"verification"})

Activations == {Checkout, Trial}
Trials == {Trial}
Recoveries == {PastDueTwice}
AloneInDunning == {Abandoned}

=============================================================================
