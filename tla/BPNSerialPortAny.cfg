SPECIFICATION FairSpec
CONSTANTS
  SeqMax = 2
  MaxCommands = 3
  MaxFailures = 1
  Faults <- AllFaults
INVARIANT TypeOK
INVARIANT WriteHandshake
PROPERTY WriteEnds
