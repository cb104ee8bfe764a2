SPECIFICATION FairSpec
CONSTANTS
  b1 = b1
  b2 = b2
  s1 = s1
  Clients <- MCClients
  PortOf <- MCPortOf
  Room = 1
  IdentEvery = 2
  Failing = {"beast"}
  MaxConnects = 1
INVARIANTS
  TypeOK
  NobodyIsSkipped
  DeadAreListed
PROPERTIES
  ListFollowsClients
  FeedGoesOn
