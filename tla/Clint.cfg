SPECIFICATION ClintSpec
CONSTANTS
  TimeBits = 4
  HalfBits = 2
  rv_insns_per_tick = 3
  CmpWritten <- Timers
  CycleWritten <- OneWrite
INVARIANT NoEarlyTimer
PROPERTY TimerNotMissed
PROPERTY CyclesNeverBack
PROPERTY TimerArrives
