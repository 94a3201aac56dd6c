\* The current read from signals up to the full scale of the converter.
CONSTANTS
  Levels <- MCLevels
  Waveform <- Sine
  PERIOD_WORD = 336
  OVERLOAD = 2109
SPECIFICATION Spec
PROPERTIES TrueRms
