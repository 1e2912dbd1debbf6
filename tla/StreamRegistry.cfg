CONSTANTS
  c1 = c1
  c2 = c2
  k1 = k1
  k2 = k2
  Clients <- TwoClients
  Keys <- TwoKeys
  MaxTasks = 4
SPECIFICATION FairSpec
CONSTRAINT FirstIsK1
INVARIANTS
  StreamsAsOwed
  EntryNamesItsStream
PROPERTIES
  HandlersEnd
