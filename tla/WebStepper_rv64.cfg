SPECIFICATION Spec
CONSTANTS
  XLEN = 64
  v1 = v1
  v2 = v2
  Values <- MCValues
  NoValue = NoValue
  Kinds <- AllKinds
CHECK_DEADLOCK FALSE
INVARIANT NoStaleAnswer
INVARIANT ReaderCanWake
PROPERTY NeverSkipsPause
PROPERTY StopInStepMode
PROPERTY ImplementsChannel
