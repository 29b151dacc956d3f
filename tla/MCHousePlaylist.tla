-------------------------- MODULE MCHousePlaylist --------------------------
EXTENDS HousePlaylist, TLC

Symmetry == Permutations(Items) \cup Permutations(Categories)
              \cup Permutations(Admins)

\* Two overlapping calls of the admins are explored between the picks, one call
\* also during them: a pick reads the category in force once, at its start.
CallsOrPick == pick = NoPick \/ \E a \in Admins : call[a] = NoCall

============================================================================
