SPECIFICATION Spec
CONSTANTS
  Addresses = {a1, a2}
  Connections = 2
  Slots = 1
  QueueLength = 3
  Traffic = 2
INVARIANTS
  FreedBlocksAreLeftAlone
  DeletedClientsAreLeftAlone
  DataInOrderUnlessOvertaken
  SlotsInv
CHECK_DEADLOCK FALSE
PROPERTIES
  EndedClientsAreDeleted
