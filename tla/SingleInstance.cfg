SPECIFICATION Spec
CONSTANTS
  Process = {p1, p2, p3, p4}
  File = {f1, f2, f3, f4}
  Systems = {"linux", "windows"}
  None = none
INVARIANTS
  OneInstance
PROPERTIES
  RefusedMeansRunning
CHECK_DEADLOCK FALSE
