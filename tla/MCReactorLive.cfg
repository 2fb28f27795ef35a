CONSTANTS
  u1 = u1
  u2 = u2
  User = {u1}
  Sock = {s1, s2}
  NoUser = NoUser
  NoSock = NoSock
  Conn = {c1, c2}
  NoConn = NoConn
  Worker = {w1, w2}
  Listen = Listen
  Requests <- LiveRequests
  NoRequest = NoRequest
  MaxRequests = 1
  MaxOffline = 1
SPECIFICATION FairSpec
PROPERTIES RequestsTaken HangupsReaped BacklogAccepted ImplementsSessions
CHECK_DEADLOCK FALSE
