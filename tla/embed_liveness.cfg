SPECIFICATION FairSpec
CONSTANTS
  w1 = w1
  w2 = w2
  a1 = a1
  a2 = a2
  i1 = i1
  i2 = i2
  Artifacts = {a1, a2}
  Investigations = {i1, i2}
  InvOf <- OwnInvestigation
  Workers = {w1, w2}
  BatchSize = 2
  Concurrent = FALSE
  MaxParses = 1
  MaxJobs = 2
  MaxFaults = 0
  MaxDeaths = 1
  MaxLosses = 0
  MaxOverruns = 1
PROPERTY EveryEventEmbedded
PROPERTY JobTableSpec
