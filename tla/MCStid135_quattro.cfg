CONSTANTS
  c1 = c1
  c2 = c2
  d1 = d1
  d2 = d2
  d3 = d3
  None = None
  Chips = {c1}
  Demods = {d1, d2}
  ChipOf <- OneChip
  RfIns = {0, 1, 2, 3}
  DefaultRfIn <- AllOnInput0
  MultiswitchMode = "quattro"
  Owners = {}
  ConfigIds = {}
  UnicableModes = {FALSE}
  VoltageRequests = {"off", "v18"}
  ToneRequests = {"off", "on"}
  HwErrs = {FALSE, TRUE}
SPECIFICATION Spec
SYMMETRY DemodSymmetry
INVARIANTS
  UseCountsExact
  PowerFollowsUse
  QuattroInputFollowsFirstRequests
