SPECIFICATION FirstBootFairSpec
CONSTANTS
  Dirs = {home, var}
  UdevLate = FALSE
PROPERTY
  FirstBootCompletes
