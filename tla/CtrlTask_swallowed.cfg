\* Three network forms, the last one while testWifi waits for the second.
CONSTANTS
  Forms = 3
  Edited = {"wifi"}
  Networks = {1, 2, 3}
  Brokers = {{1, 2, 3}}
  MaxTries = 2
  Drops = 0
  AutoReconnect = FALSE
SPECIFICATION FairSpec
CHECK_DEADLOCK TRUE
PROPERTIES NetworkFormIsUsed
