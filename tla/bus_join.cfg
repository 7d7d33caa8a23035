CONSTANTS
  Device = {1, 2}
  MaxCounter = 30
  MaxMillis = 0
  MaxDrift = 0
  Row = {"row"}
  DataColumn = {"c"}
  Writes <- OneCell
  Times = {0}
  MaxBatch = 2
  Compactions = {FALSE}
  MaxOps = 2
  Bus = TRUE
  OpsPerMessage = 1
  MaxSessions = 2
  MaxFaults = 0
  Editors = {1, 2}
  Crashers = {2}
SPECIFICATION Joining
INVARIANTS ReplicatorTypeOK Converged
PROPERTIES Quiesces ImplementsEngine
CHECK_DEADLOCK FALSE
