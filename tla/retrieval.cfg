SPECIFICATION Spec
CONSTANTS
  Clients = {r1}
  Mixes <- SearchMixes
  Configs <- MCConfigs
  FirstConfigs <- MCFirstConfigs
  Tries = 1
  WindowOf <- MCWindowOf
  QuestionSizes <- SearchSizes
  Histories <- SearchHistories
  ToolResults <- SearchResults
  Corpora <- SearchCorpora
  Scale = 50
  MaxTurns = 1
  FirstFailing = {3}
  Offered = {o1}
INVARIANT NearestRetrieved
CHECK_DEADLOCK FALSE
