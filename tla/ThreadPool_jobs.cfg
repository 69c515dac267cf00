CONSTANTS
  Workers = {w1, w2, w3}
  Jobs = {accept, j1, j2}
  Endless = {accept}
  Owner = main
  Nobody = Nobody
  NoJob = NoJob
SPECIFICATION Spec
INVARIANTS
  TypeOK
  FirstInFirstOut
  NoStrandedJob
  PopsFromNonEmpty
  OneLateJob
PROPERTIES
  ImplementsJobQueue
  EveryJobStarts
  TeardownOutsideWindow
CHECK_DEADLOCK FALSE
