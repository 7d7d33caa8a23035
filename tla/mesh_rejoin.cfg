CONSTANTS
  a = a
  b = b
  b1 = b1
  b2 = b2
  Device = {1, 2}
  Client = {a, b}
  DeviceOf <- Pair
  Blob <- Signals
  MaxSockets = 2
  MaxBreaks = 1
  MaxConns = 2
  MaxFailures = 0
SPECIFICATION Rejoin
INVARIANTS MeshComplete
CHECK_DEADLOCK FALSE
