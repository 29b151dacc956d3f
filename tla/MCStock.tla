------------------------------ MODULE MCStock -------------------------------
(* Small instances of Stock for TLC. *)
EXTENDS Stock, TLC

CONSTANTS aguila, poker, cubetazo

Bar == {aguila, poker, cubetazo}
Full == [p \in Bar |-> 2]
Mix == [options |-> {aguila, poker}, quantity |-> 2]
MixedMenu == {Mix}
UpAndDown == {-1, 2}

Item(p, n) == [product |-> p, quantity |-> n]

\* One line for each product.
PlainCarts == {<<Item(aguila, 1), NoLine>>,
               <<Item(cubetazo, 1), Item(aguila, 1)>>}

\* Two differently mixed buckets, sent as two lines.
DoubleCarts == PlainCarts \cup {<<Item(cubetazo, 1), Item(cubetazo, 1)>>}

Symmetry == Permutations(Orders) \cup Permutations(Callers)
=============================================================================
