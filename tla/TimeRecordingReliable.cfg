SPECIFICATION FairSpec
CONSTANTS
  r1 = r1
  r2 = r2
  c1 = c1
  c2 = c2
  NoCard = NoCard
  DayLength = 6
  EarlyFrom = 1
  Opening = 2
  Closing = 4
  Debounce = 2
  MaxNow = 8
  MaxAccepted = 4
  MaxBooked = 4
  Cards <- TwoCards
  Requests <- OneRequest
  Timely = TRUE
  Faults <- BookingRefused
INVARIANT BookedOnceInOrder
INVARIANT ActionsAlternate
INVARIANT ShownIsBooked
PROPERTY EventuallyBooked
