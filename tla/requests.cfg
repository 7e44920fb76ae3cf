SPECIFICATION FairSpec
CONSTANTS
  Clients = {r1, r2}
  Mixes <- MCMixes
  Configs <- MCConfigs
  FirstConfigs <- MCFirstConfigs
  Tries = 2
  WindowOf <- MCWindowOf
  QuestionSizes <- MCQuestionSizes
  Histories <- MCHistories
  ToolResults <- MCToolResults
  Corpora <- MCCorpora
  Scale = 1
  MaxTurns = 2
  FirstFailing = {3}
  Offered = {o1}
INVARIANT TypeOK
INVARIANT PromptFits
INVARIANT ChosenOnce
PROPERTY OneActive
PROPERTY ReportsReplaced
PROPERTY RequestsEnd
CHECK_DEADLOCK FALSE
