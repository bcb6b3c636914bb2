SPECIFICATION Spec
CONSTANTS
  Configurations <- Sound
  Translation = FALSE
  MaxTurns = 4
CHECK_DEADLOCK FALSE
INVARIANT NoBlockTwice
INVARIANT ReadIsCached
PROPERTY RefillEnds
PROPERTY ReportsAreTrue
 
