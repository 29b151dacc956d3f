SPECIFICATION Spec
CONSTANTS
  Tables = {t1, t2}
  Staff = Staff
  Phones = {p1, p2}
  Scores = {0, 1}
  MaxSongs = 1
  MaxEarned = 1
  MaxVisits = 3
  MaxWaiting = 2
  NoSong = NoSong
SYMMETRY Symmetry
CHECK_DEADLOCK FALSE
INVARIANTS ButtonIsHonest PlacementIsFair
PROPERTIES LimitKept CreditsKept
