SPECIFICATION FairSpec
CONSTANTS
  Sessions = {s, t}
  OfflineMode = FALSE
  Reuse = FALSE
  Ahead = {t}
  NoSession = none
  MaxCommands = 3
  MaxOutside = 1
INVARIANTS
  SuccessIsTrue
  AliveIsKnown
PROPERTIES
  QueueDrains
  VanishedIsForgotten
CHECK_DEADLOCK FALSE
