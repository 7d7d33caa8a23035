CONSTANTS
  Device = {1, 2}
  MaxCounter = 2
  MaxMillis = 1
  MaxDrift = 0
  Row = {"row"}
  DataColumn = {"c"}
  Writes <- AllWrites
  Times = {0, 1}
  MaxBatch = 2
  Compactions = {FALSE}
  MaxOps = 2
SPECIFICATION WithoutCompaction
INVARIANTS TypeOK ClockCovers UniqueIds FrontierExact
PROPERTIES WritesFollowReads ImplementsLwwSpace
CHECK_DEADLOCK FALSE
