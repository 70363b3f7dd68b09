\* The daemon ends after SIGTERM, so the system may stop.
SPECIFICATION FairSpec
CONSTANTS
  Pids = {p1, p2}
  None = None
  MaxEvents = 2
  MaxWaiting = 2
  SpawnFails = TRUE
INVARIANTS
  TypeOK
  OnlyTheOwnedKeyboardLives
PROPERTIES
  SignalLostOnlyInARace
  FlagFollowsKeyboards
CHECK_DEADLOCK FALSE
