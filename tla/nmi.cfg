SPECIFICATION FairSpec
CONSTANTS
  MaxNmis = 4
  MaxAccesses = 3
INVARIANTS TypeOK NmisAccounted ExceptionPassedOn
PROPERTIES QueueDrains
CHECK_DEADLOCK FALSE
