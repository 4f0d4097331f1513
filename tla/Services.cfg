SPECIFICATION FairSpec
CONSTANTS
  MaxCmds = 3
  MaxResets = 1
  IrqModes = {TRUE, FALSE}
  IrqStatus = {1}
INVARIANTS TypeOK QuietResult CommandTracked LineFollowsServices
PROPERTIES EveryCommandAnswered
