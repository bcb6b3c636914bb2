SPECIFICATION Spec
CONSTANTS
  Interrupts <- MCInterrupts
  Exceptions <- MCExceptions
  MstatusWritten <- MCMstatusWritten
  MedelegWritten <- MCMedelegWritten
INVARIANT NoInternalError
INVARIANT DataNeverAboveCode
INVARIANT DispatchFollowsRule
PROPERTY ModeChangesAreSaved
PROPERTY MachineInterruptPreempts
PROPERTY LowerModesKeepMachineState
