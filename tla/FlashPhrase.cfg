\* The promise that the phrase was written, without any refused command.
CONSTANTS
  Slopes <- MCSlopes
  InitialSectors <- MCSectors
  Refusals = FALSE
  None = None
SPECIFICATION Spec
PROPERTIES PhraseWritten
