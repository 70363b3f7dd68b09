SPECIFICATION FairSpec
CONSTANTS
  Outputs = {o1, o2}
  Panels = {p1, p2}
  Pins = {default, other}
  DefaultPin = default
  NoPanel = NoPanel
  NoOutput = NoOutput
  NoCopy = NoCopy
  Model = Model
  MaxDisturbances = 3
INVARIANTS
  TypeOK
PROPERTIES
  UpdatesLostOnlyByOverlap
  FastPathRoutesEachPanel
  WizardConverges
