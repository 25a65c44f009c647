SPECIFICATION FairSpec
CONSTANTS
  c1 = c1
  c2 = c2
  NoCard = NoCard
  Cards <- TwoCards
  MaxFaults = 1
  MaxMoves = 1
  Faults <- AnswersLate
PROPERTY CardIsFound
