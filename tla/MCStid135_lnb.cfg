CONSTANTS
  c1 = c1
  c2 = c2
  d1 = d1
  d2 = d2
  d3 = d3
  None = None
  Chips = {c1}
  Demods = {d1, d2}
  ChipOf <- OneChip
  RfIns = {0}
  DefaultRfIn <- AllOnInput0
  MultiswitchMode = "diseqc"
  Owners = {7}
  ConfigIds = {1, 2}
  UnicableModes = {FALSE, TRUE}
  VoltageRequests = {"off", "v13", "v18"}
  ToneRequests = {"off", "on"}
  HwErrs = {FALSE}
SPECIFICATION Spec
INVARIANTS
  RecordedVoltageIsReal
PROPERTIES
  SharedVoltageIsStable
