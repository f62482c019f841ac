SPECIFICATION FairSpec
CONSTANTS
  BufSize = 2
  Clients = 2
  Lines = 2
  Lengths = {0, 1, 2, 3}
  Workers = 2
  Nuls = {1, 2}
INVARIANTS
  EchoIsOwn
  ShownIsTyped
  KilledNeedsTorn
PROPERTIES
  ClientIsAnswered
CHECK_DEADLOCK FALSE
