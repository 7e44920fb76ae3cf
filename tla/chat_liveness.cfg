SPECIFICATION FairSpec
CONSTANTS
  q1 = q1
  q2 = q2
  c1 = c1
  Questions = {q1}
  Continues = {c1}
  Embedding = {FALSE, TRUE}
  Overlap = FALSE
  MaxJobs = 2
  MaxSteps = 1
  MaxRuns = 2
  MaxFaults = 1
CHECK_DEADLOCK FALSE
PROPERTY QuestionsSettle
