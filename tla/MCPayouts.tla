----------------------------- MODULE MCPayouts -----------------------------
(***************************************************************************)
(* Payouts for one tenant with two kobo settled in each mode: enough for   *)
(* one request of two or two requests of one.                              *)
(***************************************************************************)
EXTENDS Payouts

MCSettled == [m \in Modes |-> 2]

=============================================================================
