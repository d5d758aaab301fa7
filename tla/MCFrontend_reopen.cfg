CONSTANTS
  p1 = p1
  p2 = p2
  Kthread = Kthread
  Procs = {p1, p2}
  MaxEvent = 2
  Uses <- UsesAll
  BusCtrl = FALSE
  Suspends = FALSE
  Jobs = {"SCANNING"}
SPECIFICATION Spec
INVARIANT OpenHasThread
CHECK_DEADLOCK FALSE
