SPECIFICATION FairSpec
CONSTANTS
  Thread = {1, 2}
  Peer = {1, 2, 3}
  Conn = {c1, c2}
  Prealloc = {c1}
  Acts = 2
  InOrder = TRUE
  Nuls = {1}
  Acceptor = acceptor
  None = none
INVARIANTS
  OneOperation
  AssertNeedsOverlap
  DisconnectNeedsClose
  EchoIntact
PROPERTIES
  ClosedIsReleased
  StopReturns
CHECK_DEADLOCK FALSE
