\* Requests and noise under overruns, with the smallest rings that hold a packet.
CONSTANTS
  FIFO_SIZE = 5
  HostStreams <- MCHostStreams
  Overruns = TRUE
  Settings <- MCSettings
  Readings <- MCReadings
SPECIFICATION FairSpec
INVARIANTS TypeOK FifosOK UnarmedIsOwn NoStrandedBytes PacketContiguous
  NoMissedPacket
PROPERTIES RxIsQueue TxIsQueue DecodesStream Drains
