SPECIFICATION Spec
CONSTANTS
  NumEntries = 3
  Count = 2
  PerCsr = 2
  CsrStep = 1
  XLen = 5
  AddrBits = 3
  Grains = {0, 1, 2}
  Bytes <- MCBytes
  Addrs <- MCAddrs
INVARIANT CheckFollowsRule
PROPERTY LockedStays
PROPERTY LockedRegion
