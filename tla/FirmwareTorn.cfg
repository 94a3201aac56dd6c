\* The two bytes of the current that the PC is answered.
CONSTANTS
  FIFO_SIZE = 20
  Scripts <- MCScripts
  HostStreams <- MCHostStreams
  Overruns = FALSE
  Settings <- MCSettings
  Readings <- MCReadings
  None = None
SPECIFICATION FirmwareSpec
INVARIANT ReportedIsMeasured
