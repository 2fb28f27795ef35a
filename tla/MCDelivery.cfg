CONSTANTS
  alice = alice
  bob = bob
  carol = carol
  m1 = m1
  m2 = m2
  User = {alice, bob}
  Chat = {m1, m2}
  From <- OneWayFrom
  To <- OneWayTo
  Asks <- AliceAsks
  Notice = Notice
  Worker = {w1, w2}
  None = None
  MaxFaults = 1
  MaxCrashes = 1
SPECIFICATION NewsSpec
SYMMETRY DeliverySymmetry
INVARIANTS TypeOK NoSilentLoss CopiesBounded OvertakesStoredOnly Announced
PROPERTIES ImplementsMailbox
