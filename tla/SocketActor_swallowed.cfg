SPECIFICATION FairSocketSpec
CONSTANTS
  DoneCapacity = 1
  MaxChanges = 1
PROPERTY LinkChangeIsHandled
CHECK_DEADLOCK FALSE
