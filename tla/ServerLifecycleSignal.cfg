SPECIFICATION FairSpec
CONSTANTS
  Worker = {w1, w2}
  Main = main
  NoThread = none
  Stopper = {main, w1}
  SignalTargets = {w1}
  MaxSignals = 1
  MainMayThrow = FALSE
  MaxIo = 1
  MaxThrow = 0
CHECK_DEADLOCK FALSE
PROPERTIES
  ClearedWhenInactive
