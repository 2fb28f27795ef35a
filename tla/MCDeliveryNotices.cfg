CONSTANTS
  alice = alice
  bob = bob
  carol = carol
  m1 = m1
  m2 = m2
  User = {alice, bob, carol}
  Chat = {}
  From <- NoFrom
  To <- NoTo
  Asks <- BothAsk
  Notice = Notice
  Worker = {w1, w2, w3}
  None = None
  MaxFaults = 1
  MaxCrashes = 1
SPECIFICATION LiveNewsSpec
INVARIANTS NoticesBounded
PROPERTIES NewsArrives StoredIsFetched
