-------------------------- MODULE MCPlaybackQueue --------------------------
(* Small instances of PlaybackQueue for TLC. *)
EXTENDS PlaybackQueue, TLC

Symmetry == Permutations(Items) \cup Permutations(Drivers)
              \cup Permutations(Guests)
=============================================================================
