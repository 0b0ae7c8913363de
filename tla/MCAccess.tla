------------------------------ MODULE MCAccess ------------------------------
(* Two requests at a time; an owner and somebody to invite. *)
EXTENDS Access, TLC

Symmetry == Permutations(Requests) \cup Permutations(Sessions) \cup Permutations(Invitations)

=============================================================================
