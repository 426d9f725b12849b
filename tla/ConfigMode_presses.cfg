\* Three presses, at any time from the boot on, with the whole timer command
\* queue of the build and with so little of it that it overflows.
CONSTANTS
  Presses = 3
  QueueLengths = {2, 10}
SPECIFICATION FairSpec
CHECK_DEADLOCK TRUE
INVARIANTS TypeOK ModeIsServed ResetNeedsLongPress PressIsTimed
PROPERTIES PressEnds
