SPECIFICATION Spec
CONSTANTS
  RowsPerEvent = 2
  MaxEvents = 4
  MaxFaults = 3
INVARIANT ConnectFailureLosesNothing
