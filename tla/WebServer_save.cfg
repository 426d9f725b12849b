\* Two forms, one of them able to overwrite the factory calibration.
CONSTANTS
  Forms = 2
  Edited = {"ap", "cal"}
  Resetters = {}
SPECIFICATION FairSpec
CHECK_DEADLOCK TRUE
INVARIANTS TypeOK ConfirmedIsSaved
PROPERTIES OverwritesAsAsked PromiseIsKept ConfirmedReachesFlashUnlessOvertaken
