SPECIFICATION Spec
CONSTANTS
  q1 = q1
  q2 = q2
  c1 = c1
  Questions = {q1, q2}
  Continues = {c1}
  Embedding = {FALSE, TRUE}
  Overlap = FALSE
  MaxJobs = 2
  MaxSteps = 1
  MaxRuns = 2
  MaxFaults = 1
SYMMETRY Symmetry
CHECK_DEADLOCK FALSE
INVARIANT TypeOK
INVARIANT OwnEvents
INVARIANT OneMessagePerJob
INVARIANT RunRecorded
INVARIANT EndedJobsSettle
PROPERTY NothingForgotten
