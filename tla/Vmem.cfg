SPECIFICATION Spec
CONSTANTS
  None = None
  Radix = 2
  Levels = 2
  Nodes = {10, 11, 12}
  Pages = {4, 5, 6, 7}
  Choices <- MCChoices
  Contexts <- MCContexts
  RootOf <- MCRootOf
  NumTlb = 2
  MaxOwed = 2
  GuardChoices <- MCGuards
  Careful = TRUE
INVARIANT TlbAgrees
PROPERTY FenceReaches
PROPERTY AccessOnlySetsBits
PROPERTY ImplementsMmu
