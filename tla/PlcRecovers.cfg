SPECIFICATION FairSpec
CONSTANTS
  FailAt = {"upload", "compile", "start", "query", "delete", "restarting"}
  Unnoticed = {"query", "delete", "stop", "restart"}
  MaxEdits = 2
  MaxFailures = 3
  MaxRestarts = 2
INVARIANTS
  TypeOK
  RunsWhatItNames
  ProgramIsCurrent
  SlaveIsPolled
PROPERTIES
  NoNeedlessStop
  Converges
