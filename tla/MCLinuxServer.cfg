\* Safety, also past the first race.
SPECIFICATION Spec
SYMMETRY Symmetry
CONSTANTS
  w1 = w1
  w2 = w2
  p1 = p1
  p2 = p2
  p3 = p3
  c1 = c1
  c2 = c2
  Main = main
  Worker <- MCWorker
  Peer <- MCPeer
  Conn <- MCConn
  Prealloc <- MCPrealloc
  Senders <- MCSenders
  Resets <- MCResets
  MaxFd = 2
  MaxMsg = 1
  AfterRace = TRUE
  Acceptor = acceptor
  None = none
  NoPeer = nopeer
  Stdin = stdin
INVARIANTS
  OneOwner
  AvailClean
  AbortNeedsRace
  StdinNeedsAccept
CHECK_DEADLOCK FALSE
