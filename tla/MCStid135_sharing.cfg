CONSTANTS
  c1 = c1
  c2 = c2
  d1 = d1
  d2 = d2
  d3 = d3
  None = None
  Chips = {c1}
  Demods = {d1, d2, d3}
  ChipOf <- OneChip
  RfIns = {0, 1}
  DefaultRfIn <- AllOnInput0
  MultiswitchMode = "diseqc"
  Owners = {7, 8}
  ConfigIds = {1, 2}
  UnicableModes = {FALSE}
  VoltageRequests = {}
  ToneRequests = {}
  HwErrs = {FALSE}
SPECIFICATION Spec
SYMMETRY DemodSymmetry
INVARIANTS
  TypeOK
  UseCountsExact
  PowerFollowsUse
  OneMasterPerRfIn
  NoBugMessages
  SlavesFindEquipmentReady
PROPERTIES
  ImplementsSharing
