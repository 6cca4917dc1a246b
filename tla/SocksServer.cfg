SPECIFICATION FairSpec
CONSTANTS
  c1 = c1
  c2 = c2
  Clients <- TheClients
  Naming <- Named
  Confs <- ConfsOfOne
  MaxProcs = 1
  MaxUnits = 2
  Cap = 1
INVARIANTS RelayInOrder DownloadComplete ToldTruly
PROPERTIES Contract Answered ChildEnds
CHECK_DEADLOCK FALSE
