\* Two workers and main, two clients
SPECIFICATION FairSpec
CONSTANTS
  Main = main
  Worker = {w1, w2}
  Peer = {p1, p2}
  Conn = {c1, c2}
  Prealloc = {c1}
  MaxFd = 2
  MaxMsg = 1
  AfterRace = FALSE
  Senders = {p1, p2}
  Resets = {p2}
  Acceptor = acceptor
  None = none
  NoPeer = nopeer
  Stdin = stdin
PROPERTIES
  DataIsRead
  FinIsServed
  LoneClientAccepted
CHECK_DEADLOCK FALSE
