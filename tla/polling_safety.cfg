SPECIFICATION Spec
CONSTANTS
  Widgets = {w1}
  Jobs = {j1, j2}
  Slots = {s1, s2}
  Sweepers = {p1, p2}
  Configs = {c1}
  NoConfig = NoConfig
  Intervals = {2}
  DefaultInterval = 1
  NoInterval = NoInterval
  Horizon = 3
  MaxSkew = 1
  MaxAttempts = 3
  FirstAttempt = 0
  MaxStalls = 1
  BatchSize = 2
  Outcomes = {"value", "unstorable", "retryable"}
  MaxFaults = 1
SYMMETRY Symmetry
INVARIANTS TypeOK  ConfiguredIsSchedulable
PROPERTY ClaimSpacing
