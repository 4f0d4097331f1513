SPECIFICATION Spec
CONSTANTS
  MaxCmds = 3
  MaxResets = 0
  IrqModes = {TRUE, FALSE}
  IrqStatus = {1}
INVARIANTS NoStaleResult
