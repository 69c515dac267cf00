CONSTANTS
  Workers = {w1, w2}
  Jobs = {accept, j1}
  Endless = {accept}
  Owner = main
  Nobody = Nobody
  NoJob = NoJob
SPECIFICATION Spec
PROPERTIES
  TeardownCompletes
CHECK_DEADLOCK FALSE
