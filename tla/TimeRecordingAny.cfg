SPECIFICATION Spec
CONSTANTS
  r1 = r1
  r2 = r2
  c1 = c1
  c2 = c2
  NoCard = NoCard
  DayLength = 6
  EarlyFrom = 1
  Opening = 2
  Closing = 4
  Debounce = 2
  MaxNow = 2
  MaxAccepted = 2
  MaxBooked = 3
  Cards <- TwoCards
  Requests <- TwoRequests
  Timely = FALSE
  Faults <- AllFaults
INVARIANT QueueInOrder
INVARIANT NothingInvented
INVARIANT NothingLost
PROPERTY ImplementsOutbox
SYMMETRY NameSymmetry
