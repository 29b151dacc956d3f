SPECIFICATION FairSpec
CONSTANTS
  s1 = s1
  s2 = s2
  v1 = v1
  v2 = v2
  Songs = {s1, s2}
  Videos = {v1, v2}
  Catalogs <- OneOrTwo
  MaxTroubles = 1
  None = None
CHECK_DEADLOCK FALSE
PROPERTIES NeverCutOff EveryTurnComes
