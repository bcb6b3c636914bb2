SPECIFICATION Spec
CONSTANTS
  Xlens = {32, 64}
  Entries <- MCEntries
  UserValues <- MCUserValues
  Limits = {0, 40}
CHECK_DEADLOCK FALSE
INVARIANT EntersProgram
INVARIANT VerdictIsTrue
PROPERTY ProgramIsReached
PROPERTY TrapsAreServed
