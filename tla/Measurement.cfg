\* Windows at every phase of the signal, between silence and full scale.
CONSTANTS
  Levels <- MCLevels
  Waveform <- Sine
  PERIOD_WORD = 336
  OVERLOAD = 2109
SPECIFICATION Spec
INVARIANT TypeOK
PROPERTIES TrueRmsInRange TripTimeFalls
