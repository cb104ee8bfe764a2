SPECIFICATION Spec
CONSTANTS
  a = a
  b = b
  c = c
  d = d
  NoLoad = NoLoad
  Sorties <- MCSorties
  Trucks <- MCTrucks
  TruckOf <- MCTruckOf
  TankOf <- MCTankOf
  RackOf <- MCRackOf
  InitLevel <- MCInitLevel
  LoLevel = 2
  Flow = 1
  MeterMod = 3
  FlushMayFail = FALSE
  MaxPasses = 0
  MaxWrites = 0
INVARIANT DrawdownMatchesLoads
