CONSTANTS
  Device = {1, 2, 3, 4}
  MaxCounter = 9
  MaxMillis = 0
  MaxDrift = 0
  Row = {1, 2}
  DataColumn = {"c"}
  Local = {1, 2}
  Writes <- SomeWrites
  RemoteOps <- PeerBatches
  Recordings <- SomeRecordings
  TheRow = 1
  Slots = 2
  Transports = 2
  MaxEvents = 3
  MaxFaults = 1
SPECIFICATION SpacesSpec
INVARIANTS SpacesTypeOK OneWriterAgrees OpsSinceExact OneIdentity StampsUnique OneLiveSpace ViewSettles RecordsKept
PROPERTIES EventuallyReady
CHECK_DEADLOCK FALSE
