------------------------------ MODULE MCPlayer ------------------------------
(* Small instances of Player for TLC. *)
EXTENDS Player, TLC

CONSTANTS s1, s2, v1, v2

\* Two songs of two videos, or the same video twice.
OneOrTwo == {s1 :> v1 @@ s2 :> v2, s1 :> v1 @@ s2 :> v1}
=============================================================================
