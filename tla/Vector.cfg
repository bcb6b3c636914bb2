CONSTANTS
  VlenPow = 6
  ElenPow = 5
  Flen = 32
  NumRegs = 8
  PageBytes = 16
  Pages = 4
  DoublePow = 5
  Slots = 2
  Frames = 2
  MaxReclaims = 1
  Alu <- MCAlu
  Saturates <- MCSaturates
  Raises <- MCRaises
  Code <- MCCode
  InitialRegisters <- MCRegisters
  InitialMemory <- MCMemory
SPECIFICATION PagingSpec
INVARIANT VlFits
PROPERTIES OnlyBodyChanges ImplementsAtomic AccessEnds
CHECK_DEADLOCK FALSE
