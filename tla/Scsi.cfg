SPECIFICATION Spec
CONSTANTS
    BlockLen = 2
    MaxBlocks = 3
    SectorBuffer = 2
    Commands <- MCCommands
    MaxCmds = 2
    MaxEvents = 2
INVARIANTS CommandAsSent StatusTruthful BusFreeIsFree
PROPERTIES TargetRecovers CommandEnds
