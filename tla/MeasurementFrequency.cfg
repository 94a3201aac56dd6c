\* The frequency reported of a signal that stays as it is.
CONSTANTS
  Levels <- MCLevels
  Waveform <- Sine
  PERIOD_WORD = 336
  OVERLOAD = 2109
SPECIFICATION Spec
PROPERTIES FrequencyInHz
