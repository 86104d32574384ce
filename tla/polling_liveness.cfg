SPECIFICATION FairSpec
CONSTANTS
  Widgets = {w1}
  Jobs = {j1, j2}
  Slots = {s1}
  Sweepers = {p1}
  Configs = {c1, c2}
  NoConfig = NoConfig
  Intervals = {}
  DefaultInterval = 0
  NoInterval = NoInterval
  Horizon = 1
  MaxSkew = 0
  MaxAttempts = 2
  FirstAttempt = 1
  MaxStalls = 1
  BatchSize = 2
  Outcomes = {"value", "retryable"}
  MaxFaults = 1
 
PROPERTIES PolledAgainAndAgain JobsEnd 
