CONSTANTS
  None = None
  Sizes = {3}
  DefaultSize = 3
  Numbers = 5
  Lengths = {1}
  Counts = {1}
  Params <- PesFilter
  MaxPids = 2
  MayFail = {"pes"}
SPECIFICATION Spec
INVARIANT
  StoppedFilterIsQuiet
