\* Three forms of any page, of which the second or the third names no broker
\* that answers, one loss, and a driver that retries by itself.
CONSTANTS
  Forms = 3
  Edited = {"wifi", "service", "cal"}
  Networks = {1, 2, 3}
  Brokers = {{1, 2}, {1, 3}}
  MaxTries = 2
  Drops = 1
  AutoReconnect = TRUE
SPECIFICATION FairSpec
CHECK_DEADLOCK TRUE
INVARIANTS TypeOK FormsAreTakenUp
PROPERTIES OnlineAgain NetworkFormIsUsedUnlessSwallowed LossIsNoticed
