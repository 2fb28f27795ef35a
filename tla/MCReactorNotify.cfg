CONSTANTS
  u1 = u1
  u2 = u2
  User = {u1, u2}
  Sock = {s1, s2}
  NoUser = NoUser
  NoSock = NoSock
  Conn = {c1, c2, c3}
  NoConn = NoConn
  Worker = {w1, w2}
  Listen = Listen
  Requests <- NotifyRequests
  NoRequest = NoRequest
  MaxRequests = 1
  MaxOffline = 1
SPECIFICATION Spec
SYMMETRY ThreadSymmetry
INVARIANTS NotifiesReceiver
CHECK_DEADLOCK FALSE
