CONSTANTS
  None = None
  Sizes = {3, 2}
  DefaultSize = 3
  Numbers = 4
  Lengths = {1, 2}
  Counts = {2}
  Params <- AllFilters
  MaxPids = 2
  MayFail = {"sec"}
SPECIFICATION Spec
INVARIANTS
  TypeOK
  DeliveredInOrder
  StoppedFilterIsQuiet
PROPERTIES
  MemoryOutlivesItsUsers
  DataWakesReader
CHECK_DEADLOCK FALSE
