\* The README's promise for any overload that stays.
CONSTANTS
  Currents <- MCCurrents
  OVERLOAD = 2109
  BITS = 4
  ONE = 16
  MS = 4
  Slopes = {0}
  Curve <- MCCurve
  NB_Sample = 1
  PutResults = {TRUE}
  None = None
SPECIFICATION FairSpec
PROPERTIES SustainedOverloadTrips
