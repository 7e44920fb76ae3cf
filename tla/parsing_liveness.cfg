SPECIFICATION FairSpec
CONSTANTS
  w1 = w1
  w2 = w2
  u1 = u1
  u2 = u2
  i1 = i1
  i2 = i2
  Workers = {w1, w2}
  Investigations = {i1}
  Uploads = {u1}
  Target <- SameInvestigation
  MaxJobs = 2
  MaxCrashes = 1
  MaxFaults = 1
  AllowOverrun = TRUE
PROPERTY VerdictIsFinal
PROPERTY JobTableSpec
