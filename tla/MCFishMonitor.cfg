SPECIFICATION FairSpec
CONSTANTS
  p1 = p1
  p2 = p2
  p3 = p3
  Pids = {p1, p2, p3}
  None = None
  OsErrors = TRUE
  MaxSignals = 2
INVARIANT TypeOK
PROPERTIES EndsWithItsFish CleanupSparesSupervised RestartsAfterCrash ShutdownEnds
