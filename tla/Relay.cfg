\* The relay under any current, any driver answer and any rewrite of the curve.
CONSTANTS
  Currents <- MCCurrents
  OVERLOAD = 2109
  BITS = 4
  ONE = 16
  MS = 4
  Slopes = {0, 1, 2}
  Curve <- MCCurve
  NB_Sample = 1
  PutResults = {TRUE, FALSE}
  None = None
SPECIFICATION FairSpec
INVARIANTS TypeOK CountdownOnlyInOverload CountdownFollowsCurrent
  FlagOnlyAfterOverload GuardNeverSuppresses
PROPERTIES TripNeedsCountdown TripHeldUntilClear PromiseKept
  TimedOverloadTrips ClearedOutputsFall SettingTakesEffect SteadyOverloadTrips
