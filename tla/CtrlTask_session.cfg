\* A second broker is configured while the session with the first is open.
CONSTANTS
  Forms = 3
  Edited = {"wifi", "service"}
  Networks = {1, 2, 3}
  Brokers = {{1, 2, 3}}
  MaxTries = 2
  Drops = 0
  AutoReconnect = FALSE
SPECIFICATION Spec
CHECK_DEADLOCK TRUE
INVARIANTS SessionUsesSettings
