------------------------------ MODULE MCSales ------------------------------
(* Two requests at a time. *)
EXTENDS Sales, TLC

Symmetry == Permutations(Requests) \cup Permutations(Keys) \cup Permutations(BodyKeys)
              \cup Permutations(Orders) \cup Permutations(Ids)

=============================================================================
