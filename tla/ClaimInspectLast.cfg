CONSTANTS
  LIMIT = 2
  MaxCreated = 3
SPECIFICATION InspectSpec
INVARIANT ListsLastProposals
CHECK_DEADLOCK FALSE
