------------------------------ MODULE MCPhone -------------------------------
(* Small instances of Phone for TLC. *)
EXTENDS Phone
=============================================================================
