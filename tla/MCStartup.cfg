SPECIFICATION StartupFairSpec
CONSTANTS
  A = A
  B = B
  None = None
  Bundles = {"good", "bad"}
  MountsEsp = {TRUE, FALSE}
  TornWrites = TRUE
  home = home
  var = var
  Dirs = {home, var}
  UdevLate = TRUE
INVARIANTS
  TypeOK
  FirstBootTypeOK
  ConfirmedSlotBootsNext
  HalfWrittenOnlyAsLastResort
PROPERTIES
  RechosenOnlyAsLastResort
  SavedFilesSurvive
  EligibleSoundSlotComesUp
