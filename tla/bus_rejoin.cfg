CONSTANTS
  Device = {1, 2}
  MaxCounter = 30
  MaxMillis = 0
  MaxDrift = 0
  Row = {"row"}
  DataColumn = {"c"}
  Writes <- OneCell
  Times = {0}
  MaxBatch = 2
  Compactions = {FALSE}
  MaxOps = 1
  Bus = TRUE
  OpsPerMessage = 1
  MaxSessions = 3
  MaxFaults = 0
  Editors = {1, 2}
  Crashers = {}
SPECIFICATION Rejoining
INVARIANT Converged
CHECK_DEADLOCK FALSE
