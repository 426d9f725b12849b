SPECIFICATION Spec
CONSTANTS
  Boundary <- Separator
  BufferSize = 3
  FileNames <- Files
  Visits <- SomeVisits
  Number <- Numbers
  Widest = 70000
  Wide <- TwoBytes
  Coded <- Codes
  Size <- Sizes
  JsonRoom = 8
INVARIANTS
  
  RefusedIsMalformed
  ConfirmedAgainIsKept
  BodyIsRead
  FilesAreGivenOn
  BodyInv
CHECK_DEADLOCK FALSE
