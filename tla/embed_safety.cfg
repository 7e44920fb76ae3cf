SPECIFICATION Spec
CONSTANTS
  w1 = w1
  w2 = w2
  a1 = a1
  a2 = a2
  i1 = i1
  i2 = i2
  Artifacts = {a1}
  Investigations = {i1, i2}
  InvOf <- SameInvestigation
  Workers = {w1, w2}
  BatchSize = 2
  Concurrent = TRUE
  MaxParses = 2
  MaxJobs = 2
  MaxFaults = 1
  MaxDeaths = 1
  MaxLosses = 1
  MaxOverruns = 1
SYMMETRY Symmetry
INVARIANT TypeOK
INVARIANT EmbeddedOnce
INVARIANT ProgressWithinJob
INVARIANT NoEventForgotten
