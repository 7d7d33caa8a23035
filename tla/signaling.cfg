CONSTANTS
  a = a
  b1 = b1
  b2 = b2
  Device = {1, 2}
  Client = {a, b1, b2}
  DeviceOf <- OneDuplicated
  Blob = {}
  MaxSockets = 2
  MaxBreaks = 1
SPECIFICATION SignalingSpec
INVARIANTS RoomExact PresenceExact NoDuel
PROPERTIES EventuallySettled
CHECK_DEADLOCK FALSE
