SPECIFICATION FairSpec
CONSTANTS
  Requests = {r1, r2}
  CacheFor = 2
  MaxFetch = 2
  None = None
  MaxOutages = 2
INVARIANTS
  TypeOK
  FreshMeansRecent
  BlankOnlyAtFirst
PROPERTIES
  RecoversFromOutage
