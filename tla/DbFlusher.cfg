SPECIFICATION FairSpec
CONSTANTS
  RowsPerEvent = 2
  MaxEvents = 4
  MaxFaults = 3
INVARIANTS
  TypeOK
  EventAtomic
PROPERTIES
  ImplementsAuditLog
  EventuallyIdle
