SPECIFICATION FairSpec
CONSTANTS
  Thread = {t1, t2, t3}
  Conn = {c1, c2, c3, c4}
  Prealloc = {c1}
  NoThread = NoThread
  NoConn = NoConn
CHECK_DEADLOCK FALSE
INVARIANTS
  TypeOK
  InOneList
  ExclusiveHandout
  PopHasEntry
  LossNeedsException
  ReuseBound
PROPERTIES
  LockIsFreed
  ImplementsPool
