\* A form against two factory resets, from the web page and from the switch.
CONSTANTS
  Forms = 1
  Edited = {"ap"}
  Resetters = {"http", "switch"}
SPECIFICATION Spec
CHECK_DEADLOCK TRUE
PROPERTIES UndisturbedResetRestoresFactory
