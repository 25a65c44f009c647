SPECIFICATION FairSpec
CONSTANTS
  c1 = c1
  c2 = c2
  NoCard = NoCard
  Cards <- TwoCards
  MaxFaults = 1
  MaxMoves = 3
  Faults <- AllFaults
INVARIANT TypeOK
INVARIANT SerialIsFresh
PROPERTY CardLogsOut
PROPERTY CardLogsIn
