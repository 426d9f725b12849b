\* Two forms of one page, the second confirmed while the first is being saved.
CONSTANTS
  Forms = 2
  Edited = {"ap"}
  Resetters = {}
SPECIFICATION FairSpec
CHECK_DEADLOCK TRUE
PROPERTIES ConfirmedReachesFlash
