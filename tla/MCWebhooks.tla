----------------------------- MODULE MCWebhooks -----------------------------
(* Two workers on the events of a tenant with two endpoints. *)
EXTENDS WebhookDelivery, TLC

Symmetry == Permutations(Endpoints) \cup Permutations(Workers) \cup Permutations(Modes)

=============================================================================
