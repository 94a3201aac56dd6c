\* The comments that a countdown, new or recomputed, is the trip time in ms.
CONSTANTS
  Currents <- MsCurrents
  OVERLOAD = 2109
  BITS = 4
  ONE = 16
  MS = 4
  Slopes = {0, 1, 2}
  Curve <- MsCurve
  NB_Sample = 1
  PutResults = {TRUE}
  None = None
SPECIFICATION MsSpec
PROPERTIES TripsWhenDue
