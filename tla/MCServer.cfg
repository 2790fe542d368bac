\* Safety of the pool: three connections, two threads, two sockets.
SPECIFICATION Safety
CONSTANTS
  a = a
  Conns = {c1, c2, c3}
  Parts = {a}
  Messages <- MCMessages
  Window = 1
  MaxSend = 1
  MaxThreads = 2
  MaxFds = 2
  Addrs = {default}
  DefaultAddr = default
  NoAddr = NoAddr
  NoConn = NoConn
SYMMETRY ConnSymmetry
INVARIANTS
  TypeOK
  OneAccept
  NeverOutOfWork
  Custody
PROPERTIES
  ImplementsSessions
\* A process that has ended takes no step.
CHECK_DEADLOCK FALSE
