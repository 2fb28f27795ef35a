CONSTANTS
  User = {u1, u2}
  Registered = {u1, u2}
  Worker = {w1, w2, w3}
  Calls <- TwoUsers
  NoPair = NoPair
  MaxFailures = 1
SPECIFICATION TrackedSpec
SYMMETRY FriendSymmetry
INVARIANTS RequestsBounded FriendsMutual AcceptedIsCarriedOut
PROPERTIES HistoryUnlessDisturbed
