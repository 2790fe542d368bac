\* Liveness: every connection is served, every departed one released.
SPECIFICATION Spec
CONSTANTS
  a = a
  Conns = {c1, c2}
  Parts = {a}
  Messages <- MCMessages
  Window = 1
  MaxSend = 1
  MaxThreads = 2
  MaxFds = 1
  Addrs = {default}
  DefaultAddr = default
  NoAddr = NoAddr
  NoConn = NoConn
PROPERTIES
  EverServed
  PoolReleases
\* A process that has ended takes no step.
CHECK_DEADLOCK FALSE
