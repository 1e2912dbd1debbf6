CONSTANTS
  c1 = c1
  c2 = c2
  c3 = c3
  r1 = r1
  q1 = q1
  NoLogin = NoLogin
  Sessions <- ThreeSessions
  TachibanaRequests <- TachibanaRequest
  KabuRequests <- KabuRequest
  MaxConnections = 2
SPECIFICATION FairSpec
CONSTRAINTS
  StartInOrder
  RequestsApart
INVARIANTS
  RegistryExact
  LifecyclesApart
PROPERTIES
  CleanupEnds
\* every session may have ended
CHECK_DEADLOCK FALSE
