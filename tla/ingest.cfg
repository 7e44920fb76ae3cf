SPECIFICATION FairSpec
CONSTANTS
  c1 = c1
  c2 = c2
  NRecords = 2
  BatchSize = 1
  Cats = {c1, c2}
  CatOf <- MCCatOf
  Parsers <- MCParsers
  Analyses <- MCAnalyses
  Requests = {a1}
  MaxRequests = 2
  MaxCrashes = 1
  MaxFaults = 1
INVARIANT TypeOK
INVARIANT OncePerRun
INVARIANT NothingDropped
INVARIANT RightDecoder
PROPERTY ServedIsCurrent
PROPERTY IngestEnds
CHECK_DEADLOCK FALSE
