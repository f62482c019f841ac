SPECIFICATION FairSpec
CONSTANTS
  Thread = {t1, t2}
  Peer = {p1, p2}
  BufSize = 2
  Talkers = {p1}
  Lengths = {0, 1, 3}
  Nobody = nobody
INVARIANTS
  OneChain
  AnswerIsTyped
PROPERTIES
  AsioClientIsAnswered
CHECK_DEADLOCK FALSE
