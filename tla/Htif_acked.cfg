SPECIFICATION HtifSpec
CONSTANTS
  Payloads <- ExitAndPrint
  Controls <- AckedControls
  Modes <- AllModes
  CounterBits = 4
  MaxCommands = 4
CHECK_DEADLOCK FALSE
INVARIANT CommandsAreServed
