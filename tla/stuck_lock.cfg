SPECIFICATION Spec
CONSTANTS
  w1 = w1
  w2 = w2
  u1 = u1
  u2 = u2
  i1 = i1
  i2 = i2
  Workers = {w1, w2}
  Investigations = {i1}
  Uploads = {u1}
  Target <- SameInvestigation
  MaxJobs = 1
  MaxCrashes = 0
  MaxFaults = 0
  AllowOverrun = FALSE
INVARIANT LockReleased
