SPECIFICATION FairSpec
CONSTANTS
  Worker = {w1, w2}
  Main = main
  NoThread = none
  Stopper = {main}
  SignalTargets = {main}
  MaxSignals = 2
  MainMayThrow = TRUE
  MaxIo = 2
  MaxThrow = 1
CHECK_DEADLOCK FALSE
INVARIANTS
  DestroyedAfterWorkers
PROPERTIES
  ClearedWhenInactive
  StopCompletes
