SPECIFICATION Spec
CONSTANTS
  a = a
  b = b
  c = c
  None = None
  Sorties <- MCSorties
  Trucks <- MCTrucks
  TruckOf <- MCTruckOf
  RackOf <- MCRackOf
  Overlapping = TRUE
  MaxIterations = 0
  MaxRestarts = 1
  MaxLosses = 1
INVARIANTS
  TypeOK
  FleetReturns
  DeliveredOncePerPass
  FilledIsDelivered
