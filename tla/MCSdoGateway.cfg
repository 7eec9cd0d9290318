CONSTANTS
  Entries <- MCEntries
  Entry <- MCEntry
  Values = {0, 1}
  Room = 8
  Masters <- MCMasters
SPECIFICATION Spec
INVARIANTS ReadsInside
PROPERTIES RepliesAreTrue
CHECK_DEADLOCK FALSE
