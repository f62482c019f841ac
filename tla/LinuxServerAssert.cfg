\* Two workers and one client are enough for assert(m_dataExchange) to fail.
SPECIFICATION Spec
CONSTANTS
  Main = main
  Worker = {w1, w2}
  Peer = {p1}
  Conn = {c1, c2}
  Prealloc = {c1}
  MaxFd = 2
  MaxMsg = 1
  AfterRace = TRUE
  Senders = {p1}
  Resets = {}
  Acceptor = acceptor
  None = none
  NoPeer = nopeer
  Stdin = stdin
INVARIANT NoAssertFails
CHECK_DEADLOCK FALSE
