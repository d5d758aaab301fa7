CONSTANTS
  None = None
  Sizes = {3}
  DefaultSize = 3
  Numbers = 5
  Lengths = {2}
  Counts = {1}
  Params <- TimedSectionFilter
  MaxPids = 1
  MayFail = {}
SPECIFICATION Spec
PROPERTY
  TimeoutEndsRead
CHECK_DEADLOCK FALSE
