SPECIFICATION Spec
CONSTANTS
  r1 = r1
  r2 = r2
  c1 = c1
  c2 = c2
  NoCard = NoCard
  DayLength = 6
  EarlyFrom = 1
  Opening = 2
  Closing = 4
  Debounce = 2
  MaxNow = 3
  MaxAccepted = 2
  MaxBooked = 2
  Cards <- TwoCards
  Requests <- TwoRequests
  Timely = FALSE
  Faults <- ServerUnreachable
INVARIANT SavedStaysSaved
