\* Expected violation: SurvivesPeers.
SPECIFICATION Safety
CONSTANTS
  a = a
  Conns = {c1}
  Parts = {a}
  Messages <- MCMessages
  Window = 1
  MaxSend = 1
  MaxThreads = 2
  MaxFds = 1
  Addrs = {default, other}
  DefaultAddr = default
  NoAddr = NoAddr
  NoConn = NoConn
INVARIANTS
  SurvivesPeers
CHECK_DEADLOCK FALSE
