CONSTANTS
  p1 = p1
  p2 = p2
  Kthread = Kthread
  Procs = {p1, p2}
  MaxEvent = 2
  Uses <- UsesTuner
  BusCtrl = FALSE
  Suspends = FALSE
  Jobs = {}
SPECIFICATION Spec
PROPERTIES
  
  RequestsAreServed
  CloseEndsThread
CHECK_DEADLOCK FALSE
