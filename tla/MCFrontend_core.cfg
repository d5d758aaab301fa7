CONSTANTS
  p1 = p1
  p2 = p2
  Kthread = Kthread
  Procs = {p1, p2}
  MaxEvent = 2
  Uses <- UsesAll
  BusCtrl = TRUE
  Suspends = TRUE
  Jobs = {"SCANNING"}
SPECIFICATION Spec
INVARIANTS
  TypeOK
  SemaphoreConserved
  StoppedMeansIdle
  RequestsWakeThread
  TakesQueuedEvents
  LossIsReported
CHECK_DEADLOCK FALSE
SYMMETRY ProcSymmetry
