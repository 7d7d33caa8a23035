CONSTANTS
  Device = {1, 2}
  MaxCounter = 30
  MaxMillis = 1
  MaxDrift = 0
  Row = {"row"}
  DataColumn = {"c"}
  Writes <- OneCell
  Times = {0, 1}
  MaxBatch = 2
  Compactions = {FALSE}
  MaxOps = 2
  Bus = FALSE
  OpsPerMessage = 1
  MaxSessions = 2
  MaxFaults = 1
  Editors = {1, 2}
  Crashers = {1, 2}
SPECIFICATION ReconnectingSpec
INVARIANTS NoGaps Converged PeerFrontierSound
CHECK_DEADLOCK FALSE
