CONSTANTS
  User = {u1, u2}
  Sock = {s1, s2, s3}
  NoUser = NoUser
  NoSock = NoSock
  Password = {p1, p2}
  NoPassword = NoPassword
  NoRequest = NoRequest
  MaxFaults = 1
  MaxCrashes = 1
SPECIFICATION Spec
SYMMETRY UserManagerSymmetry
INVARIANTS RegistryInverse PromisesKept AnswersFit
PROPERTIES ImplementsAccounts
