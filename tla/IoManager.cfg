SPECIFICATION IoFairSpec
CONSTANTS
  Worker = {w1, w2, w3}
  Stopper = {main, handler}
  MaxIo = 3
  MaxThrow = 1
CHECK_DEADLOCK FALSE
INVARIANTS
  IoTypeOK
  TokenAlive
  TokensConserved
  CountIsExact
  OneStopNoFailure
PROPERTIES
  StopEndsAll
