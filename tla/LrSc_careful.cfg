SPECIFICATION LrScSpec
CONSTANTS
  t1 = t1
  t2 = t2
  x = x
  y = y
  Threads <- MCThreads
  Addrs <- MCAddrs
  NoAddr = NoAddr
  KernelClears = TRUE
PROPERTY ScIsAtomic
PROPERTY NoSpuriousFailure
