\* Conversations of up to four requests without overruns.
CONSTANTS
  FIFO_SIZE = 20
  Scripts <- MCScripts
  HostStreams <- MCHostStreams
  Overruns = FALSE
  Settings <- MCSettings
  Readings <- MCReadings
  None = None
SPECIFICATION FirmwareSpec
INVARIANTS AnswersInOrder
PROPERTIES EveryRequestAnswered
