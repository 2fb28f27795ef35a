CONSTANTS
  u1 = u1
  u2 = u2
  User = {u1}
  Sock = {s1, s2}
  NoUser = NoUser
  NoSock = NoSock
  Conn = {c1, c2, c3}
  NoConn = NoConn
  Worker = {w1, w2}
  Listen = Listen
  Requests <- AllRequests
  NoRequest = NoRequest
  MaxRequests = 1
  MaxOffline = 2
SPECIFICATION Spec
SYMMETRY ThreadSymmetry
INVARIANTS TypeOK OneOwner NeverOrphaned CleanSlate RegistryInverse HandlerOK OwnMutexAlive
  OneRequestPerUser
PROPERTIES SessionsKept
CHECK_DEADLOCK FALSE
