CONSTANTS
  Device = {1, 2}
  MaxCounter = 1
  MaxMillis = 1
  MaxDrift = 1
  Row = {"row"}
  DataColumn = {"c"}
  Writes <- SetOrDelete
  Times = {0}
  MaxBatch = 2
  Compactions = {FALSE, TRUE}
  MaxOps = 3
SPECIFICATION CompactionAmongKnownPeers
INVARIANT NoResurrection
CHECK_DEADLOCK FALSE
