\* Four token pairs; a family lasts three ticks, the grace window two.
SPECIFICATION Spec
CONSTANTS
  Token = {t1, t2, t3, t4}
  NoToken = NoToken
  FamilyLifetime = 3
  RefreshLifetime = 3
  Grace = 2
  MaxFails = 1
  MaxTime = 3
  ClockStepsBack = TRUE
SYMMETRY Symmetry
INVARIANTS EndedFamilyIsGone SentIsRemembered OneReplayPerToken GraceIsNotExtended FamilyEndsInTime
