CONSTANTS
  Device = {1, 2}
  MaxCounter = 3
  MaxMillis = 0
  MaxDrift = 0
  Row = {"row"}
  DataColumn = {"c"}
  Writes <- SetOrDelete
  Times = {0}
  MaxBatch = 2
  Compactions = {FALSE, TRUE}
  MaxOps = 3
  Call = {1}
SPECIFICATION SmallSpec
INVARIANTS WinnersLogged EqualFrontiersEqualData HorizonReached
PROPERTIES CompactionKeepsView
CHECK_DEADLOCK FALSE
