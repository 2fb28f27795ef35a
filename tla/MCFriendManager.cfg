CONSTANTS
  User = {u1, u2}
  Registered = {u1, u2}
  Worker = {w1, w2}
  Calls <- OneSelf
  NoPair = NoPair
  MaxFailures = 1
SPECIFICATION TrackedSpec
SYMMETRY WorkerSymmetry
INVARIANTS RequestsBounded FriendsMutual AcceptedIsCarriedOut
PROPERTIES HistoryUnlessDisturbed ImplementsBook
