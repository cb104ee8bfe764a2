SPECIFICATION FairSpec
CONSTANTS
  a = a
  b = b
  c = c
  d = d
  NoLoad = NoLoad
  Sorties <- MCMoreSorties
  Trucks <- MCTrucks
  TruckOf <- MCTruckOf
  TankOf <- MCTankOf
  RackOf <- MCRackOf
  InitLevel <- MCInitLevel
  LoLevel = 2
  Flow = 1
  MeterMod = 3
  FlushMayFail = TRUE
  MaxPasses = 1
  MaxWrites = 0
INVARIANTS
  TankReconciles
  WrapsCleanly
PROPERTIES
  FuelGoesToALoad
  KeepsTheBooks
  PumpsEventuallyOff
