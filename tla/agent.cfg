SPECIFICATION FairSpec
CONSTANTS
  w1 = w1
  w2 = w2
  s1 = s1
  Workers = {w1, w2}
  Stops = {s1}
  MaxTurns = 2
  MaxJobs = 1
  MaxCrashes = 2
  MaxFaults = 1
  MaxOverruns = 1
INVARIANT TypeOK
INVARIANT OneRunner
INVARIANT ChoicesOnce
PROPERTY JobTableSpec
