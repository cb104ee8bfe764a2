SPECIFICATION FairSpec
CONSTANTS
  a = a
  b = b
  c = c
  None = None
  Sorties <- MCSorties
  Trucks <- MCTrucks
  TruckOf <- MCTruckOf
  RackOf <- MCRackOf
  Overlapping = FALSE
  MaxIterations = 1
  MaxRestarts = 1
  MaxLosses = 0
INVARIANTS
  QueueRowsFinish
  NoDeliveryWithoutLoad
PROPERTIES
  OrdersGetFilled
