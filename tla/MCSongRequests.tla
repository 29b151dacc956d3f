--------------------------- MODULE MCSongRequests ---------------------------
(* Small instances of SongRequests for TLC. *)
EXTENDS SongRequests, TLC

Symmetry == Permutations(Tables) \cup Permutations(Phones)
=============================================================================
