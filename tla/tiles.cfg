SPECIFICATION Spec
CONSTANTS
  usdcad = usdcad
  halifax = halifax
  Questions = {usdcad, halifax}
  Spots = {usdcad, halifax}
  SpotOf <- MCSpotOf
  None = None
  Window = 2
  MaxCall = 1
  Shared = {usdcad}
  MaxEdits = 2
  MaxTroubles = 1
  Retentions = {1, 2}
  BatchSize = 1
  MaxBatches = 3
  PurgeEvery = 2
  LockTicks = 2
  MaxPoints = 3
  MaxBuckets = 2
  MaxRows = 4
  Clicks = {c1, c2}
INVARIANTS CardSound 
PROPERTIES  PurgeKeepsUp Recovers
