SPECIFICATION FairSpec
CONSTANTS
  SeqMax = 3
  MaxCommands = 3
  MaxFailures = 1
  Faults <- LinkLost
PROPERTY Reconnects
