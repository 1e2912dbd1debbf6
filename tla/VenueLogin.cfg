CONSTANTS
  MaxLogins = 3
  MaxTries = 2
  NoLogin = NoLogin
  NoVenue = NoVenue
  Tachibana = Tachibana
  Kabu = Kabu
SPECIFICATION FairSpec
INVARIANTS
  ConnectedIsUsable
  OneEventLoop
PROPERTIES
  ConnectingEnds
\* no client may come, and every login be made
CHECK_DEADLOCK FALSE
