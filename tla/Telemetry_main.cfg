SPECIFICATION Spec
CONSTANTS
  Calibrations <- Lines
  QueueLength = 2
  Torn = Torn
  Nothing = Nothing
  Budgets <- SomeBudgets
INVARIANTS
  LedInv
  PeriodIsMeant
  SilenceIsKept
  RelayIsAsAsked
PROPERTIES
  BrokerKnowsInTheEnd
CHECK_DEADLOCK FALSE
