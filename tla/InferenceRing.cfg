SPECIFICATION FairSpec
CONSTANTS
  Capacity = 2
  MaxTicks = 5
INVARIANTS
  ActionAnswersObservation
  NeverRaises
  TicksOrdered
PROPERTY RequestAnswered
