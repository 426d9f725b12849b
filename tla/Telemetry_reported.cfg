SPECIFICATION Spec
CONSTANTS
  Calibrations <- Lines
  QueueLength = 2
  Torn = Torn
  Nothing = Nothing
  Budgets <- TwoLogins
INVARIANTS
  ReportedIsTransmitted
CHECK_DEADLOCK FALSE
