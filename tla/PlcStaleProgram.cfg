SPECIFICATION Spec
CONSTANTS
  FailAt = {"login"}
  Unnoticed = {}
  MaxEdits = 2
  MaxFailures = 2
  MaxRestarts = 1
INVARIANT ProgramIsCurrent
