CONSTANTS
  o1 = o1
  o2 = o2
  a = a
  b = b
  Orders <- TwoOrders
  Ids <- TwoIds
  MaxDay = 1
SPECIFICATION Spec
SYMMETRY Symmetry
INVARIANTS
  SentIsLogged
  LiveIsInFlight
PROPERTIES
  SyncedStaysReadable
