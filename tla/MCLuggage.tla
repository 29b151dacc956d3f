----------------------------- MODULE MCLuggage -----------------------------
(* Small instances of Luggage for TLC. *)
EXTENDS Luggage, TLC

Symmetry == Permutations(Tickets) \cup Permutations(Numbers)
              \cup Permutations(Callers)
=============================================================================
