CONSTANTS
  User = {u1, u2}
  Registered = {u1, u2}
  Worker = {w1, w2}
  Calls <- AnyUsers
  NoPair = NoPair
  MaxFailures = 0
SPECIFICATION TrackedSpec
SYMMETRY FriendSymmetry
PROPERTIES DeletesHistoryOnly
