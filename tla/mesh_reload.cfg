CONSTANTS
  a = a
  b = b
  b1 = b1
  b2 = b2
  Device = {1, 2}
  Client = {a, b1, b2}
  DeviceOf <- AnswererReloads
  Blob <- Signals
  MaxSockets = 1
  MaxBreaks = 0
  MaxConns = 4
  MaxFailures = 1
SPECIFICATION CarefulReload
INVARIANTS PeerTypeOK NoStrayConnections OneSideOffers AnswersMatch CandidatesKept
PROPERTIES EventuallyMeshed
CHECK_DEADLOCK FALSE
