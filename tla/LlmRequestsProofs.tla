--------------------------- MODULE LlmRequestsProofs ---------------------------
(***************************************************************************)
(* Theorems about LlmRequests, for every number of clients, choices,       *)
(* configurations and requests in progress at the same time.               *)
(***************************************************************************)
EXTENDS LlmRequests, PromptProofs, TLAPS, FiniteSetTheorems

-----------------------------------------------------------------------------
(* A request of one kind leaves the requests of the others alone.          *)

\* What a request is can be told.
Tagged ==
  /\ DOMAIN req = Clients /\ clock \in Nat
  /\ \A c \in Clients : "kind" \in DOMAIN req[c] /\ req[c].kind \in Kinds \cup {"none"}

\* Requests of one kind begin, go on or end, and no others.
Only(kind) ==
  /\ DOMAIN req' = Clients /\ clock' \in {clock, clock + 1}
  /\ \A c \in Clients : \/ req'[c] = req[c]
                        \/ /\ req[c].kind \in {kind, "none"}
                           /\ "kind" \in DOMAIN req'[c] /\ req'[c].kind \in {kind, "none"}

\* One of them does.
Becomes(c, kind, r) ==
  /\ req[c].kind \in {kind, "none"}
  /\ "kind" \in DOMAIN r /\ r.kind \in {kind, "none"}

LEMMA OnlyKeepsTagged ==
  ASSUME Tagged, NEW kind \in Kinds, Only(kind)
  PROVE  Tagged'
  BY DEF Tagged, Only

LEMMA FreeAsks ==
  ASSUME NEW c \in Clients, Asks(c)
  PROVE  req[c] = NoRequest
  BY DEF Asks, Free

LEMMA NoRequestIsOne == "kind" \in DOMAIN NoRequest /\ NoRequest.kind = "none"
  BY DEF NoRequest

LEMMA BeginIsOnly ==
  ASSUME Tagged, NEW c \in Clients, NEW kind, NEW r, Begin(c, r), "kind" \in DOMAIN r, r.kind = kind
  PROVE  Only(kind)
  BY FreeAsks, NoRequestIsOne DEF Begin, Tagged, Only

LEMMA GoOnIsOnly ==
  ASSUME Tagged, NEW c \in Clients, NEW kind, NEW r, GoOn(c, r), Becomes(c, kind, r)
  PROVE  Only(kind)
  BY DEF GoOn, Tagged, Only, Becomes

LEMMA GoToIsOnly ==
  ASSUME Tagged, NEW c \in Clients, NEW kind, NEW at, GoTo(c, at), req[c].kind = kind
  PROVE  Only(kind)
<1>1. Becomes(c, kind, [req[c] EXCEPT !.at = at])
  BY DEF Becomes, Tagged
<1> QED
  BY <1>1, GoOnIsOnly DEF GoTo

LEMMA EndIsOnly ==
  ASSUME Tagged, NEW c \in Clients, NEW kind, End(c), req[c].kind = kind
  PROVE  Only(kind)
<1>1. Becomes(c, kind, NoRequest)
  BY NoRequestIsOne DEF Becomes
<1> QED
  BY <1>1, GoOnIsOnly DEF End

LEMMA QuestionIsOnly ==
  ASSUME Tagged, NEW c \in Clients, QuestionStep(c)
  PROVE  Only("question")
<1> USE DEF Becomes, Tagged, Calls, CallLlm, CallAsIs, CallEmbedder, Proceeds, Finishes, At, Told, Doing, Fails, Goes
<1>1. ASSUME NEW mode, NEW size, NEW history, AskQuestion(c, mode, size, history) PROVE Only("question")
  <2>1. PICK at : Begin(c, [kind |-> "question", mode |-> mode, size |-> size, history |-> history, window |-> 0, at |-> at,
                            queries |-> 0, texts |-> {}, chunks |-> <<>>, log |-> <<>>, turn |-> 0])
    BY <1>1 DEF AskQuestion
  <2> QED
    BY <2>1, BeginIsOnly
<1>2. ASSUME NEW usable, CheckStatus(c, usable) PROVE Only("question")
  BY <1>2, GoToIsOnly, EndIsOnly DEF CheckStatus
<1>3. ASSUME ExpandIntoQueries(c) PROVE Only("question")
  BY <1>3, GoOnIsOnly, EndIsOnly DEF ExpandIntoQueries
<1>4. ASSUME NEW n, EmbedQueries(c, n) PROVE Only("question")
  BY <1>4, GoOnIsOnly DEF EmbedQueries
<1>5. ASSUME RankTexts(c) PROVE Only("question")
  BY <1>5, GoOnIsOnly DEF RankTexts
<1>6. ASSUME AskForAnswer(c) PROVE Only("question")
  BY <1>6, GoOnIsOnly DEF AskForAnswer
<1>7. ASSUME TakeAnswer(c) PROVE Only("question")
  BY <1>7, GoOnIsOnly, NoRequestIsOne DEF TakeAnswer
<1>8. ASSUME NEW texts, NEW gone, RetrieveTexts(c, texts, gone) PROVE Only("question")
  BY <1>8, GoOnIsOnly DEF RetrieveTexts
<1>9. ASSUME RetrievalFails(c) PROVE Only("question")
  BY <1>9, GoOnIsOnly, NoRequestIsOne DEF RetrievalFails
<1>10. ASSUME NEW b, FetchHistory(c, b) PROVE Only("question")
  BY <1>10, GoToIsOnly DEF FetchHistory
<1>11. ASSUME NEW b, ExpandQuery(c, b) PROVE Only("question")
  BY <1>11, GoOnIsOnly, GoToIsOnly DEF ExpandQuery
<1>12. ASSUME NEW b, ExtractEvents(c, b) PROVE Only("question")
  BY <1>12, GoOnIsOnly, GoToIsOnly, EndIsOnly DEF ExtractEvents
<1>13. ASSUME NEW b, TakeEvents(c, b) PROVE Only("question")
  BY <1>13, GoOnIsOnly, NoRequestIsOne DEF TakeEvents
<1>14. ASSUME NEW size, TakeExpansion(c, size) PROVE Only("question")
  BY <1>14, GoOnIsOnly DEF TakeExpansion
<1>15. ASSUME ClassifyIntent(c) PROVE Only("question")
  BY <1>15, GoOnIsOnly, GoToIsOnly, EndIsOnly DEF ClassifyIntent
<1>16. ASSUME NEW intent, RouteIntent(c, intent) PROVE Only("question")
  BY <1>16, GoOnIsOnly, NoRequestIsOne DEF RouteIntent
<1>17. ASSUME AnswerGeneral(c) \/ InsertEvents(c) PROVE Only("question")
  BY <1>17, EndIsOnly DEF AnswerGeneral, InsertEvents
<1>18. ASSUME StartTimeline(c) PROVE Only("question")
  BY <1>18, GoOnIsOnly, EndIsOnly DEF StartTimeline
<1>19. ASSUME AskForTools(c) PROVE Only("question")
  BY <1>19, GoOnIsOnly, EndIsOnly DEF AskForTools
<1>20. ASSUME NEW sizes, UseTools(c, sizes) PROVE Only("question")
  BY <1>20, GoOnIsOnly DEF UseTools
<1>21. ASSUME EndLoop(c) PROVE Only("question")
  BY <1>21, GoOnIsOnly, NoRequestIsOne DEF EndLoop
<1> QED
  BY <1>1, <1>2, <1>3, <1>4, <1>5, <1>6, <1>7, <1>8, <1>9, <1>10, <1>11, <1>12, <1>13, <1>14, <1>15, <1>16,
     <1>17, <1>18, <1>19, <1>20, <1>21 DEF QuestionStep, QuestionProgress

LEMMA AgentIsOnly ==
  ASSUME Tagged, NEW c \in Clients, AgentStep(c)
  PROVE  Only("agent")
<1> USE DEF Becomes, Tagged, Calls, CallLlm, Proceeds, Finishes, At, Told, Doing, CompactLog
<1>1. ASSUME NEW size, NEW failing, StartAgent(c, size, failing) PROVE Only("agent")
  <2>1. PICK log : Begin(c, [kind |-> "agent", at |-> "playbook", window |-> Window, turn |-> 0, guided |-> FALSE, log |-> log])
    BY <1>1 DEF StartAgent
  <2> QED
    BY <2>1, BeginIsOnly
<1>2. ASSUME ChoosePlaybook(c) PROVE Only("agent")
  BY <1>2, GoOnIsOnly DEF ChoosePlaybook
<1>3. ASSUME NextTurn(c) PROVE Only("agent")
  BY <1>3, GoOnIsOnly DEF NextTurn
<1>4. ASSUME NEW guided, PlanTools(c, guided) PROVE Only("agent")
  BY <1>4, GoOnIsOnly DEF PlanTools
<1>5. ASSUME PlanIsRefused(c) PROVE Only("agent")
  BY <1>5, GoOnIsOnly, NoRequestIsOne DEF PlanIsRefused
<1>6. ASSUME NEW sizes, AnalyseResults(c, sizes) PROVE Only("agent")
  BY <1>6, GoOnIsOnly DEF AnalyseResults
<1>7. ASSUME NEW sizes, NEW b, CompleteInvestigation(c, sizes, b) PROVE Only("agent")
  BY <1>7, GoOnIsOnly, NoRequestIsOne DEF CompleteInvestigation
<1>8. ASSUME TakeAnalysis(c) PROVE Only("agent")
  BY <1>8, GoOnIsOnly DEF TakeAnalysis
<1>9. ASSUME LoadSummary(c) PROVE Only("agent")
  BY <1>9, GoOnIsOnly DEF LoadSummary
<1>10. ASSUME CompactOrSummarise(c) PROVE Only("agent")
  BY <1>10, GoOnIsOnly DEF CompactOrSummarise
<1>11. ASSUME TakeSummary(c) PROVE Only("agent")
  BY <1>11, GoOnIsOnly DEF TakeSummary
<1>12. ASSUME EndRun(c) PROVE Only("agent")
  BY <1>12, GoOnIsOnly, NoRequestIsOne DEF EndRun
<1>13. ASSUME AnalysisCompletes(c) PROVE Only("agent")
  BY <1>13, GoOnIsOnly, NoRequestIsOne DEF AnalysisCompletes
<1> QED
  BY <1>1, <1>2, <1>3, <1>4, <1>5, <1>6, <1>7, <1>8, <1>9, <1>10, <1>11, <1>12, <1>13 DEF AgentStep, AgentProgress

LEMMA ReportIsOnly ==
  ASSUME Tagged, NEW c \in Clients, ReportStep(c)
  PROVE  Only("report")
<1> USE DEF Becomes, Tagged, Calls, CallLlm, Proceeds, At, Told, Doing
<1>1. ASSUME NEW download, RequestReport(c, download) PROVE Only("report")
  BY <1>1, BeginIsOnly DEF RequestReport
<1>2. ASSUME ReadActiveConfig(c) PROVE Only("report")
  BY <1>2, GoOnIsOnly, EndIsOnly DEF ReadActiveConfig
<1>3. ASSUME NEW facts, NEW wish, GatherFacts(c, facts, wish) PROVE Only("report")
  BY <1>3, GoOnIsOnly, GoToIsOnly DEF GatherFacts
<1>4. ASSUME WriteNarrative(c) PROVE Only("report")
  BY <1>4, GoOnIsOnly DEF WriteNarrative
<1>5. ASSUME LookForReports(c) PROVE Only("report")
  BY <1>5 DEF LookForReports, Only, Deleters, Of
<1>6. ASSUME DeleteReports(c) PROVE Only("report")
  BY <1>6, GoOnIsOnly DEF DeleteReports
<1>7. ASSUME StoreReport(c) \/ ConvertReport(c) \/ ReportFails(c) PROVE Only("report")
  BY <1>7, GoToIsOnly, EndIsOnly DEF StoreReport, ConvertReport, ReportFails
<1> QED
  BY <1>1, <1>2, <1>3, <1>4, <1>5, <1>6, <1>7 DEF ReportStep, ReportProgress

LEMMA ChoiceIsOnly ==
  ASSUME Tagged, NEW c \in Clients, ChoiceStep(c)
  PROVE  Only("choice")
<1> USE DEF Becomes, Doing
<1>1. ASSUME NEW id, SelectChoice(c, id) PROVE Only("choice")
  BY <1>1, BeginIsOnly DEF SelectChoice
<1>2. ASSUME ChoiceProgress(c) \/ SelectFails(c) PROVE Only("choice")
  BY <1>2, GoToIsOnly, EndIsOnly DEF ChoiceProgress, CheckChoice, EnqueueChoice, MarkChoice, SelectFails
<1> QED
  BY <1>1, <1>2 DEF ChoiceStep

LEMMA ConfigIsOnly ==
  ASSUME Tagged, NEW c \in Clients, ConfigStep(c)
  PROVE  Only("config")
<1> USE DEF Becomes, Doing, Tagged
<1>1. ASSUME NEW id, NEW row, Writing(c, id, row), req[c].kind \in {"config", "none"}, clock' \in {clock, clock + 1} PROVE Only("config")
  BY <1>1 DEF Writing, Overlapping, WriteOf, Writers, Of, Only
<1>2. ASSUME NEW row, CreateConfig(c, row) PROVE Only("config")
  BY <1>2, <1>1, FreeAsks, NoRequestIsOne DEF CreateConfig
<1>3. ASSUME NEW i, NEW row, ReadConfig(c, i, row) PROVE Only("config")
  BY <1>3, BeginIsOnly DEF ReadConfig
<1>4. ASSUME WriteConfig(c) PROVE Only("config")
  BY <1>4, <1>1, EndIsOnly DEF WriteConfig
<1>5. ASSUME NEW i, DeactivateConfig(c, i) PROVE Only("config")
  BY <1>5, GoOnIsOnly DEF DeactivateConfig
<1>6. ASSUME CommitConfig(c) \/ ConfigFails(c) \/ DeadlockDetected(c) PROVE Only("config")
  BY <1>6, EndIsOnly DEF CommitConfig, ConfigFails, DeadlockDetected, Writers, Of
<1> QED
  BY <1>2, <1>3, <1>4, <1>5, <1>6 DEF ConfigStep, PatchConfig, DeleteConfig, ConfigProgress

\* What a call does is not a request's step.
LEMMA CallIsNone ==
  ASSUME NEW c \in Clients, CallStep(c)
  PROVE  UNCHANGED requestVars
  BY DEF CallStep, Answer, AttemptFails

LEMMA InitTagged == Init => Tagged
  BY NoRequestIsOne DEF Init, InitRequests, Tagged

LEMMA NextKeepsTagged == Tagged /\ [Next]_vars => Tagged'
<1> SUFFICES ASSUME Tagged, [Next]_vars PROVE Tagged'
  OBVIOUS
<1>1. CASE UNCHANGED vars
  BY <1>1 DEF Tagged, vars
<1>2. ASSUME NEW c \in Clients, ChangeConfig(c) PROVE Tagged'
  BY <1>2, ConfigIsOnly, OnlyKeepsTagged DEF ChangeConfig, Kinds
<1>3. ASSUME NEW c \in Clients, MakeReport(c) PROVE Tagged'
  BY <1>3, ReportIsOnly, OnlyKeepsTagged DEF MakeReport, Kinds
<1>4. ASSUME NEW c \in Clients, Choose(c) PROVE Tagged'
  BY <1>4, ChoiceIsOnly, OnlyKeepsTagged DEF Choose, Kinds
<1>5. ASSUME NEW c \in Clients, Question(c) PROVE Tagged'
  BY <1>5, QuestionIsOnly, OnlyKeepsTagged DEF Question, Kinds
<1>6. ASSUME NEW c \in Clients, RunAgent(c) PROVE Tagged'
  BY <1>6, AgentIsOnly, OnlyKeepsTagged DEF RunAgent, Kinds
<1>7. ASSUME NEW c \in Clients, Call(c) PROVE Tagged'
  BY <1>7, CallIsNone DEF Call, Tagged, requestVars
<1> QED
  BY <1>1, <1>2, <1>3, <1>4, <1>5, <1>6, <1>7 DEF Next

\* What the other kinds see of a step: nothing.
Leaves(kind) ==
  /\ DOMAIN req' = DOMAIN req /\ clock' \in {clock, clock + 1}
  /\ \A c \in Clients : req'[c] = req[c] \/ (req[c].kind # kind /\ req'[c].kind # kind)

LEMMA OthersLeave ==
  ASSUME Tagged, NEW kind \in Kinds, NEW other \in Kinds \ {kind}, Only(other)
  PROVE  Leaves(kind)
  BY DEF Only, Leaves, Tagged, Kinds

LEMMA CallsLeave ==
  ASSUME Tagged, NEW kind, UNCHANGED requestVars
  PROVE  Leaves(kind)
  BY DEF Leaves, Tagged, requestVars

-----------------------------------------------------------------------------
(* Choices.                                                                *)

ChoiceTypes ==
  /\ choices \in [Offered -> [jobs: SUBSET Nat, marked: Nat, names: Nat]]
  /\ \A c \in Clients : req[c].kind = "choice" =>
       /\ DOMAIN req[c] = {"kind", "at", "id", "began"}
       /\ req[c].id \in Offered /\ req[c].began \in Nat

\* A request that got past the check was made before the choice was marked; marks and
\* jobs are not later than now.
ChoiceInv ==
  /\ Tagged /\ ChoiceTypes /\ ChosenOnce
  /\ \A id \in Offered : choices[id].marked <= clock /\ \A began \in choices[id].jobs : began <= clock
  /\ \A c \in Clients : req[c].kind = "choice" =>
       /\ req[c].began <= clock
       /\ req[c].at \in {"enqueue", "mark"} =>
            choices[req[c].id].marked = 0 \/ req[c].began <= choices[req[c].id].marked
       /\ req[c].at = "mark" => req[c].began \in choices[req[c].id].jobs

LEMMA InitChoiceInv == Init => ChoiceInv
<1> SUFFICES ASSUME Init PROVE ChoiceInv
  OBVIOUS
<1>1. choices \in [Offered -> [jobs: SUBSET Nat, marked: Nat, names: Nat]]
      /\ \A id \in Offered : choices[id].marked = 0 /\ choices[id].jobs = {}
  BY DEF Init, InitChoices
<1>2. Tagged /\ clock = 0 /\ \A c \in Clients : req[c].kind = "none"
  BY InitTagged, NoRequestIsOne DEF Init, InitRequests
<1> QED
  BY <1>1, <1>2 DEF ChoiceInv, ChoiceTypes, ChosenOnce

LEMMA OthersKeepChoiceInv ==
  ASSUME ChoiceInv, Tagged', Leaves("choice"), UNCHANGED choices
  PROVE  ChoiceInv'
  BY DEF ChoiceInv, ChoiceTypes, ChosenOnce, Leaves, Tagged

LEMMA ChoicesKeepChoiceInv ==
  ASSUME ChoiceInv, Tagged', NEW c \in Clients, ChoiceStep(c)
  PROVE  ChoiceInv'
<1> USE DEF ChoiceInv, ChoiceTypes, Tagged
<1>1. ASSUME NEW id \in Offered, SelectChoice(c, id) PROVE ChoiceInv'
  BY <1>1 DEF SelectChoice, Begin, ChosenOnce
<1>2. ASSUME CheckChoice(c) PROVE ChoiceInv'
  BY <1>2, NoRequestIsOne DEF CheckChoice, Doing, End, GoTo, GoOn, ChosenOnce
<1>3. ASSUME EnqueueChoice(c) PROVE ChoiceInv'
  BY <1>3 DEF EnqueueChoice, Doing, GoTo, GoOn, ChosenOnce
<1>4. ASSUME MarkChoice(c) PROVE ChoiceInv'
  <2> DEFINE r == req[c]
  <2>1. r.kind = "choice" /\ r.at = "mark" /\ r.id \in Offered /\ clock' = clock
        /\ req' = [req EXCEPT ![c] = NoRequest]
    BY <1>4 DEF MarkChoice, Doing, End, GoOn
  <2>2. choices' = [choices EXCEPT ![r.id].marked = IF @ = 0 THEN clock ELSE @, ![r.id].names = r.began]
    BY <1>4 DEF MarkChoice
  <2>3. /\ choices' \in [Offered -> [jobs: SUBSET Nat, marked: Nat, names: Nat]]
        /\ \A id \in Offered \ {r.id} : choices'[id] = choices[id]
        /\ choices'[r.id].jobs = choices[r.id].jobs /\ choices'[r.id].names = r.began
        /\ choices'[r.id].marked = IF choices[r.id].marked = 0 THEN clock ELSE choices[r.id].marked
    BY <2>1, <2>2
  <2>4. ChoiceTypes' /\ \A d \in Clients : req'[d].kind = "choice" => d # c /\ req'[d] = req[d]
    BY <2>1, <2>3, NoRequestIsOne
  <2>5. ChosenOnce'
    BY <2>1, <2>3 DEF ChosenOnce
  <2>6. \A id \in Offered : choices'[id].marked <= clock' /\ \A began \in choices'[id].jobs : began <= clock'
    BY <2>1, <2>3
  <2>7. ASSUME NEW d \in Clients, req'[d].kind = "choice"
        PROVE  /\ req'[d].began <= clock'
               /\ req'[d].at \in {"enqueue", "mark"} =>
                    choices'[req'[d].id].marked = 0 \/ req'[d].began <= choices'[req'[d].id].marked
               /\ req'[d].at = "mark" => req'[d].began \in choices'[req'[d].id].jobs
    BY <2>1, <2>3, <2>4, <2>7
  <2> QED
    BY <2>4, <2>5, <2>6, <2>7
<1>5. ASSUME SelectFails(c) PROVE ChoiceInv'
  BY <1>5, NoRequestIsOne DEF SelectFails, End, GoOn, ChosenOnce
<1> QED
  BY <1>1, <1>2, <1>3, <1>4, <1>5 DEF ChoiceStep, ChoiceProgress

\* A step of a request of one kind, and what it leaves alone.
LEMMA EachLeavesTheOthers ==
  ASSUME Tagged, NEW c \in Clients
  PROVE  /\ ChangeConfig(c) => Leaves("choice") /\ Leaves("report") /\ UNCHANGED <<choices, reports>>
         /\ MakeReport(c) => Leaves("choice") /\ Leaves("config") /\ UNCHANGED <<choices, configs>>
         /\ Choose(c) => Leaves("report") /\ Leaves("config") /\ UNCHANGED <<reports, configs>>
         /\ Question(c) \/ RunAgent(c) \/ Call(c) =>
              /\ Leaves("choice") /\ Leaves("report") /\ Leaves("config")
              /\ UNCHANGED <<choices, reports, configs>>
<1> USE DEF Kinds
<1>1. ChangeConfig(c) => Leaves("choice") /\ Leaves("report") /\ UNCHANGED <<choices, reports>>
  BY ConfigIsOnly, OthersLeave DEF ChangeConfig
<1>2. MakeReport(c) => Leaves("choice") /\ Leaves("config") /\ UNCHANGED <<choices, configs>>
  BY ReportIsOnly, OthersLeave DEF MakeReport
<1>3. Choose(c) => Leaves("report") /\ Leaves("config") /\ UNCHANGED <<reports, configs>>
  BY ChoiceIsOnly, OthersLeave DEF Choose
<1>4. Question(c) => /\ Leaves("choice") /\ Leaves("report") /\ Leaves("config")
                    /\ UNCHANGED <<choices, reports, configs>>
  <2>1. QuestionStep(c) => UNCHANGED configs
    BY DEF QuestionStep, QuestionProgress, AskQuestion, CheckStatus, ExpandIntoQueries, EmbedQueries, RetrieveTexts,
           RankTexts, AskForAnswer, TakeAnswer, RetrievalFails, FetchHistory, ExpandQuery, TakeExpansion, ClassifyIntent,
           RouteIntent, AnswerGeneral, ExtractEvents, TakeEvents, InsertEvents, StartTimeline, AskForTools, UseTools,
           EndLoop, Goes, Fails
  <2> QED
    BY <2>1, QuestionIsOnly, OthersLeave DEF Question
<1>5. RunAgent(c) => /\ Leaves("choice") /\ Leaves("report") /\ Leaves("config")
                    /\ UNCHANGED <<choices, reports, configs>>
  <2>1. AgentStep(c) => UNCHANGED configs
    BY DEF AgentStep, AgentProgress, StartAgent, ChoosePlaybook, NextTurn, PlanTools, PlanIsRefused, AnalyseResults,
           CompleteInvestigation, TakeAnalysis, AnalysisCompletes, LoadSummary, CompactOrSummarise, TakeSummary, EndRun
  <2> QED
    BY <2>1, AgentIsOnly, OthersLeave DEF RunAgent
<1>6. Call(c) => /\ Leaves("choice") /\ Leaves("report") /\ Leaves("config")
                /\ UNCHANGED <<choices, reports, configs>>
  BY CallIsNone, CallsLeave DEF Call
<1> QED
  BY <1>1, <1>2, <1>3, <1>4, <1>5, <1>6

LEMMA StutterLeaves ==
  ASSUME Tagged, UNCHANGED vars, NEW kind
  PROVE  Leaves(kind) /\ UNCHANGED <<choices, reports, configs>>
  BY CallsLeave DEF vars, requestVars

LEMMA NextKeepsChoiceInv == ChoiceInv /\ [Next]_vars => ChoiceInv'
<1> SUFFICES ASSUME ChoiceInv, [Next]_vars PROVE ChoiceInv'
  OBVIOUS
<1>1. Tagged /\ Tagged'
  BY NextKeepsTagged DEF ChoiceInv
<1>2. ASSUME NEW c \in Clients, Choose(c) PROVE ChoiceInv'
  BY <1>1, <1>2, ChoicesKeepChoiceInv DEF Choose
<1>3. ASSUME NEW c \in Clients, ChangeConfig(c) \/ MakeReport(c) \/ Question(c) \/ RunAgent(c) \/ Call(c) PROVE ChoiceInv'
  BY <1>1, <1>3, EachLeavesTheOthers, OthersKeepChoiceInv
<1>4. CASE UNCHANGED vars
  BY <1>1, <1>4, StutterLeaves, OthersKeepChoiceInv
<1> QED
  BY <1>2, <1>3, <1>4 DEF Next

\* However many requests select a choice at the same time, whatever else goes on and
\* wherever one of them fails: once it is marked, no request made later enqueues
\* another job for it, and the job it names is one of those it started.
THEOREM ChoicesStartOnce == Spec => []ChosenOnce
<1>1. Spec => []ChoiceInv
  BY InitChoiceInv, NextKeepsChoiceInv, PTL DEF Spec
<1>2. ChoiceInv => ChosenOnce
  BY DEF ChoiceInv
<1> QED
  BY <1>1, <1>2, PTL

-----------------------------------------------------------------------------
(* Configurations.                                                         *)

\* As long as no other transaction writes, a transaction has deactivated the other
\* active configurations, or has still to.
ConfigInv ==
  /\ Tagged /\ DOMAIN configs = Configs
  /\ \A c \in Clients : req[c].kind = "config" =>
       /\ DOMAIN req[c] = {"kind", "at", "id", "row", "todo", "mine", "lone"}
       /\ req[c].id \in Configs
  /\ \A c \in Writers : req[c].lone =>
       /\ Writers = {c}
       /\ req[c].row = "on" => Active \ {req[c].id} \subseteq req[c].todo \cup req[c].mine

LEMMA InitConfigInv == Init => ConfigInv
  BY FirstConfigsAssumption, InitTagged, NoRequestIsOne DEF Init, InitRequests, InitConfigs, ConfigInv, Writers, Of

LEMMA OthersKeepConfigInv ==
  ASSUME ConfigInv, Tagged', Leaves("config"), UNCHANGED configs
  PROVE  ConfigInv'
<1>1. Writers' = Writers /\ Active' = Active
  BY DEF Leaves, Writers, Of, Active
<1> QED
  BY <1>1 DEF ConfigInv, Leaves, Writers, Of

LEMMA WritingKeepsConfigInv ==
  ASSUME ConfigInv, Tagged', NEW c \in Clients, c \notin Writers, NEW id \in Configs, NEW row, Writing(c, id, row),
         UNCHANGED configs
  PROVE  ConfigInv'
<1> DEFINE r == WriteOf(id, row, IF row = "on" THEN Active \ {id} ELSE {})
<1>1. req' = [d \in Clients |-> IF d = c THEN r ELSE IF d \in Writers THEN [req[d] EXCEPT !.lone = FALSE] ELSE req[d]]
  BY DEF Writing, Overlapping
<1>2. DOMAIN r = {"kind", "at", "id", "row", "todo", "mine", "lone"} /\ r.kind = "config" /\ r.at = "write" /\ r.id = id
      /\ r.lone = (Writers = {}) /\ (r.row = "on" => r.todo = Active \ {id})
  BY DEF WriteOf
<1>3. ASSUME NEW d \in Writers
      PROVE  /\ DOMAIN req'[d] = DOMAIN req[d] /\ ~req'[d].lone /\ req'[d].id = req[d].id
             /\ req'[d].kind = "config" /\ req'[d].at = "write"
  BY <1>1, <1>3 DEF ConfigInv, Writers, Of
<1>4. Active' = Active /\ Writers' = Writers \cup {c}
  <2>1. ASSUME NEW d \in Clients \ {c}, d \notin Writers PROVE req'[d] = req[d]
    BY <1>1, <2>1
  <2>2. req'[c] = r
    BY <1>1
  <2> QED
    BY <1>2, <1>3, <2>1, <2>2 DEF Active, Writers, Of
<1>5. \A d \in Clients : req'[d].kind = "config" =>
        DOMAIN req'[d] = {"kind", "at", "id", "row", "todo", "mine", "lone"} /\ req'[d].id \in Configs
  BY <1>1, <1>2, <1>3 DEF ConfigInv, Writers, Of
<1>6. \A d \in Writers' : req'[d].lone =>
        /\ Writers' = {d}
        /\ req'[d].row = "on" => Active' \ {req'[d].id} \subseteq req'[d].todo \cup req'[d].mine
  <2>1. \A d \in Writers : ~req'[d].lone
    BY <1>3
  <2>2. req'[c] = r
    BY <1>1
  <2>3. r.lone => Writers' = {c}
    BY <1>2, <1>4
  <2>4. r.row = "on" => Active' \ {r.id} \subseteq r.todo
    BY <1>2, <1>4
  <2> HIDE DEF r
  <2> QED
    BY <1>4, <2>1, <2>2, <2>3, <2>4, Zenon
<1> QED
  BY <1>5, <1>6 DEF ConfigInv

\* A request that goes away takes none of the others along.
LEMMA EndKeepsConfigInv ==
  ASSUME ConfigInv, Tagged', NEW c \in Clients, End(c), UNCHANGED configs \/ (c \in Writers /\ DOMAIN configs' = Configs)
  PROVE  ConfigInv'
<1>1. req'[c] = NoRequest /\ DOMAIN configs' = Configs
      /\ \A d \in Clients \ {c} : req'[d] = req[d]
  BY DEF End, GoOn, ConfigInv, Tagged
<1>2. Writers' = Writers \ {c}
  BY <1>1, NoRequestIsOne DEF Writers, Of
<1>3. ASSUME NEW d \in Writers', req'[d].lone
      PROVE  /\ Writers' = {d} /\ UNCHANGED configs
             /\ req'[d].row = "on" => Active' \ {req'[d].id} \subseteq req'[d].todo \cup req'[d].mine
  <2>1. d \in Writers /\ d # c /\ d \in Clients
    BY <1>2 DEF Writers, Of
  <2>2. req'[d] = req[d]
    BY <1>1, <2>1
  <2>3. Writers = {d} /\ (req[d].row = "on" => Active \ {req[d].id} \subseteq req[d].todo \cup req[d].mine)
    BY <1>3, <2>1, <2>2, Zenon DEF ConfigInv
  <2> QED
    BY <1>2, <2>1, <2>2, <2>3 DEF Active
<1>4. \A d \in Clients : req'[d].kind = "config" => d # c /\ req'[d] = req[d]
  BY <1>1, NoRequestIsOne
<1> QED
  BY <1>1, <1>3, <1>4, Zenon DEF ConfigInv

LEMMA ConfigsKeepConfigInv ==
  ASSUME ConfigInv, Tagged', NEW c \in Clients, ConfigStep(c)
  PROVE  ConfigInv'
<1>1. ASSUME NEW row, CreateConfig(c, row) PROVE ConfigInv'
  <2>1. c \notin Writers
    BY <1>1, FreeAsks, NoRequestIsOne DEF CreateConfig, Writers, Of
  <2>2. \E id \in Configs : Writing(c, id, row)
    BY <1>1 DEF CreateConfig
  <2> QED
    BY <1>1, <2>1, <2>2, WritingKeepsConfigInv DEF CreateConfig
<1>2. ASSUME NEW i \in Configs, NEW row, ReadConfig(c, i, row) PROVE ConfigInv'
  <2> DEFINE r == [kind |-> "config", at |-> "wait", id |-> i, row |-> row, todo |-> {}, mine |-> {}, lone |-> FALSE]
  <2>1. req[c] = NoRequest /\ req' = [req EXCEPT ![c] = r] /\ UNCHANGED configs
    BY <1>2, FreeAsks DEF ReadConfig, Begin
  <2>2. req'[c] = r /\ \A d \in Clients \ {c} : req'[d] = req[d]
    BY <2>1 DEF ConfigInv, Tagged
  <2>3. Writers' = Writers /\ c \notin Writers /\ Active' = Active
    BY <2>1, <2>2, NoRequestIsOne DEF Writers, Of, Active
  <2> QED
    BY <2>1, <2>2, <2>3 DEF ConfigInv
<1>3. ASSUME WriteConfig(c) PROVE ConfigInv'
  <2>1. c \notin Writers /\ req[c].id \in Configs
    BY <1>3 DEF WriteConfig, Doing, Writers, ConfigInv
  <2> QED
    BY <1>3, <2>1, EndKeepsConfigInv, WritingKeepsConfigInv DEF WriteConfig
<1>4. ASSUME NEW i \in Configs, DeactivateConfig(c, i) PROVE ConfigInv'
  <2> DEFINE r == [req[c] EXCEPT !.todo = @ \ {i}, !.mine = IF configs[i] = "on" THEN @ \cup {i} ELSE @]
  <2>1. c \in Writers /\ req' = [req EXCEPT ![c] = r] /\ UNCHANGED configs
    BY <1>4 DEF DeactivateConfig, Doing, GoOn, Writers, Of
  <2>2. DOMAIN req[c] = {"kind", "at", "id", "row", "todo", "mine", "lone"} /\ req[c].id \in Configs
    BY <2>1 DEF ConfigInv, Writers, Of
  <2>3. /\ DOMAIN r = DOMAIN req[c] /\ r.kind = req[c].kind /\ r.at = req[c].at /\ r.id = req[c].id
        /\ r.row = req[c].row /\ r.lone = req[c].lone
        /\ r.todo = req[c].todo \ {i} /\ r.mine = IF configs[i] = "on" THEN req[c].mine \cup {i} ELSE req[c].mine
    BY <2>2
  <2>4. req'[c] = r /\ \A d \in Clients \ {c} : req'[d] = req[d]
    BY <2>1 DEF ConfigInv, Tagged
  <2>5. Writers' = Writers /\ Active' = Active
    BY <2>1, <2>3, <2>4 DEF Writers, Of, Active
  <2>6. (i \in Active) => configs[i] = "on"
    BY DEF Active
  <2> HIDE DEF r
  <2> QED
    BY <2>1, <2>2, <2>3, <2>4, <2>5, <2>6 DEF ConfigInv
<1>5. ASSUME CommitConfig(c) PROVE ConfigInv'
  <2>1. c \in Writers /\ End(c) /\ DOMAIN configs' = Configs
    BY <1>5 DEF CommitConfig, Doing, Writers, Of
  <2> QED
    BY <2>1, EndKeepsConfigInv
<1>6. ASSUME ConfigFails(c) \/ DeadlockDetected(c) PROVE ConfigInv'
  BY <1>6, EndKeepsConfigInv DEF ConfigFails, DeadlockDetected
<1> QED
  BY <1>1, <1>2, <1>3, <1>4, <1>5, <1>6 DEF ConfigStep, PatchConfig, DeleteConfig, ConfigProgress

LEMMA NextKeepsConfigInv == ConfigInv /\ [Next]_vars => ConfigInv'
<1> SUFFICES ASSUME ConfigInv, [Next]_vars PROVE ConfigInv'
  OBVIOUS
<1>1. Tagged /\ Tagged'
  BY NextKeepsTagged DEF ConfigInv
<1>2. ASSUME NEW c \in Clients, ChangeConfig(c) PROVE ConfigInv'
  BY <1>1, <1>2, ConfigsKeepConfigInv DEF ChangeConfig
<1>3. ASSUME NEW c \in Clients, Choose(c) \/ MakeReport(c) \/ Question(c) \/ RunAgent(c) \/ Call(c) PROVE ConfigInv'
  BY <1>1, <1>3, EachLeavesTheOthers, OthersKeepConfigInv
<1>4. CASE UNCHANGED vars
  BY <1>1, <1>4, StutterLeaves, OthersKeepConfigInv
<1> QED
  BY <1>2, <1>3, <1>4 DEF Next

\* Whatever configurations there are, and however many were active before: the
\* transaction that activates one while no other transaction writes leaves it as the
\* only active one.
THEOREM ActivationIsExclusive == Spec => OneActive
<1>1. Spec => []ConfigInv
  BY InitConfigInv, NextKeepsConfigInv, PTL DEF Spec
<1>2. ASSUME ConfigInv, NEW c \in Clients, CommitConfig(c), req[c].row = "on", req[c].lone PROVE Active' = {req[c].id}
  <2>1. c \in Writers /\ req[c].todo = {} /\ req[c].id \in Configs
    BY <1>2 DEF CommitConfig, Doing, Writers, Of, ConfigInv
  <2>2. Active \ {req[c].id} \subseteq req[c].mine
    BY <1>2, <2>1 DEF ConfigInv
  <2> QED
    BY <1>2, <2>1, <2>2 DEF CommitConfig, Active
<1>3. ConfigInv => [\A c \in Clients : CommitConfig(c) /\ req[c].row = "on" /\ req[c].lone => Active' = {req[c].id}]_<<req, configs>>
  BY <1>2
<1> QED
  BY <1>1, <1>3, PTL DEF OneActive

-----------------------------------------------------------------------------
(* Reports.                                                                *)

\* Each report there is has a client, no client has two, and if that client's request
\* is about to delete, the report is among those it deletes. (Whose the first one is
\* does not matter.)
Attributed(f) ==
  /\ f \in [reports -> Clients]
  /\ \A r, s \in reports : f[r] = f[s] => r = s
  /\ \A r \in reports : f[r] \in Deleters => r \in req[f[r]].seen

ReportFields == {"kind", "at", "began", "download", "llm", "seen", "lone"}

ReportInv ==
  /\ Tagged /\ IsFiniteSet(reports)
  /\ \A c \in Clients : req[c].kind = "report" => DOMAIN req[c] = ReportFields
  /\ \E f \in [reports -> Clients] : Attributed(f)
  /\ \A c \in Deleters : req[c].lone => Deleters = {c} /\ reports \subseteq req[c].seen

LEMMA InitReportInv == Init => ReportInv
<1> SUFFICES ASSUME Init PROVE ReportInv
  OBVIOUS
<1>1. Tagged /\ \A c \in Clients : req[c].kind = "none"
  BY InitTagged, NoRequestIsOne DEF Init, InitRequests
<1>2. Deleters = {}
  BY <1>1 DEF Deleters, Of
<1>3. IsFiniteSet(reports) /\ \A r, s \in reports : r = s
  <2>1. reports = {} \/ reports = {0}
    BY DEF Init, InitReports
  <2> QED
    BY <2>1, FS_EmptySet, FS_Singleton
<1>4. PICK c \in Clients : TRUE
  BY ClientsAssumption
<1>5. Attributed([r \in reports |-> c])
  BY <1>2, <1>3 DEF Attributed
<1>6. [r \in reports |-> c] \in [reports -> Clients]
  OBVIOUS
<1> QED
  BY <1>1, <1>2, <1>3, <1>5, <1>6 DEF ReportInv

\* A step that neither begins to delete nor stores.
LEMMA QuietKeepsReportInv ==
  ASSUME ReportInv, Tagged', UNCHANGED reports,
         \A d \in Clients : \/ req'[d] = req[d]
                           \/ /\ req'[d].kind = "report" => DOMAIN req'[d] = ReportFields /\ req'[d].at \notin {"rows", "store"}
  PROVE  ReportInv'
<1>1. Deleters' \subseteq Deleters /\ \A d \in Deleters' : req'[d] = req[d]
  BY DEF Deleters, Of
<1>2. PICK f \in [reports -> Clients] : Attributed(f)
  BY DEF ReportInv
<1>3. Attributed(f)'
  BY <1>1, <1>2 DEF Attributed
<1>4. \A d \in Deleters' : req'[d].lone => Deleters' = {d} /\ reports' \subseteq req'[d].seen
  BY <1>1, Zenon DEF ReportInv
<1>5. \A d \in Clients : req'[d].kind = "report" => DOMAIN req'[d] = ReportFields
  BY DEF ReportInv
<1> QED
  BY <1>2, <1>3, <1>4, <1>5 DEF ReportInv

LEMMA OthersKeepReportInv ==
  ASSUME ReportInv, Tagged', Leaves("report"), UNCHANGED reports
  PROVE  ReportInv'
  BY QuietKeepsReportInv DEF Leaves

LEMMA LookKeepsReportInv ==
  ASSUME ReportInv, Tagged', NEW c \in Clients, LookForReports(c)
  PROVE  ReportInv'
<1> DEFINE r == [req[c] EXCEPT !.at = "rows", !.seen = reports, !.lone = Deleters = {}]
<1>1. /\ req' = [d \in Clients |-> IF d = c THEN r ELSE IF d \in Deleters THEN [req[d] EXCEPT !.lone = FALSE] ELSE req[d]]
      /\ req[c].kind = "report" /\ c \notin Deleters /\ UNCHANGED reports
  BY DEF LookForReports, At, Doing, Deleters
<1>2. DOMAIN r = ReportFields /\ r.kind = "report" /\ r.at = "rows" /\ r.seen = reports /\ r.lone = (Deleters = {})
  BY <1>1 DEF ReportInv, ReportFields
<1>3. req'[c] = r /\ \A d \in Clients \ (Deleters \cup {c}) : req'[d] = req[d]
  BY <1>1
<1>4. ASSUME NEW d \in Deleters
      PROVE  /\ DOMAIN req'[d] = ReportFields /\ ~req'[d].lone /\ req'[d].seen = req[d].seen
             /\ req'[d].kind = "report" /\ req'[d].at = req[d].at
  BY <1>1, <1>4 DEF ReportInv, ReportFields, Deleters, Of
<1> HIDE DEF r
<1>5. Deleters' = Deleters \cup {c}
  BY <1>2, <1>3, <1>4 DEF Deleters, Of
<1>6. PICK f \in [reports -> Clients] : Attributed(f)
  BY DEF ReportInv
<1>7. Attributed(f)'
  BY <1>1, <1>2, <1>3, <1>4, <1>5, <1>6 DEF Attributed
<1>8. \A d \in Deleters : ~req'[d].lone
  BY <1>4
<1>9. r.lone => Deleters' = {c}
  BY <1>2, <1>5
<1>10. \A d \in Deleters' : req'[d].lone => Deleters' = {d} /\ reports' \subseteq req'[d].seen
  BY <1>1, <1>2, <1>3, <1>5, <1>8, <1>9, Zenon
<1>11. \A d \in Clients : req'[d].kind = "report" => DOMAIN req'[d] = ReportFields
  BY <1>2, <1>3, <1>4 DEF ReportInv
<1> QED
  BY <1>1, <1>6, <1>7, <1>10, <1>11 DEF ReportInv

LEMMA DeleteKeepsReportInv ==
  ASSUME ReportInv, Tagged', NEW c \in Clients, DeleteReports(c)
  PROVE  ReportInv'
<1> DEFINE r == [req[c] EXCEPT !.at = "store", !.seen = @ \cap reports]
<1>1. req' = [req EXCEPT ![c] = r] /\ c \in Deleters /\ UNCHANGED reports
  BY DEF DeleteReports, At, Doing, GoOn, Deleters, Of
<1>2. DOMAIN r = ReportFields /\ r.kind = "report" /\ r.at = "store" /\ r.seen = req[c].seen \cap reports /\ r.lone = req[c].lone
  BY <1>1 DEF ReportInv, ReportFields, Deleters, Of
<1>3. req'[c] = r /\ \A d \in Clients \ {c} : req'[d] = req[d]
  BY <1>1 DEF Tagged, ReportInv
<1> HIDE DEF r
<1>4. Deleters' = Deleters
  BY <1>1, <1>2, <1>3 DEF Deleters, Of
<1>5. PICK f \in [reports -> Clients] : Attributed(f)
  BY DEF ReportInv
<1>6. Attributed(f)'
  BY <1>1, <1>2, <1>3, <1>4, <1>5 DEF Attributed
<1>7. ASSUME NEW d \in Deleters, req'[d].lone PROVE Deleters' = {d} /\ reports' \subseteq req'[d].seen
  <2>1. d \in Clients
    BY DEF Deleters, Of
  <2>2. req[d].lone
    BY <1>2, <1>3, <1>7, <2>1, Zenon
  <2>3. Deleters = {d} /\ reports \subseteq req[d].seen
    BY <2>2, Zenon DEF ReportInv
  <2> QED
    BY <1>1, <1>2, <1>3, <1>4, <2>1, <2>3
<1>8. \A d \in Clients : req'[d].kind = "report" => DOMAIN req'[d] = ReportFields
  BY <1>2, <1>3 DEF ReportInv
<1> QED
  BY <1>1, <1>4, <1>5, <1>6, <1>7, <1>8 DEF ReportInv

\* The client's earlier report is among those that are replaced.
LEMMA StoreKeepsReportInv ==
  ASSUME ReportInv, Tagged', NEW c \in Clients, StoreReport(c)
  PROVE  ReportInv'
<1> DEFINE new == req[c].began
<1>1. /\ c \in Deleters /\ req[c].kind = "report"
      /\ reports' = (reports \ req[c].seen) \cup {new}
      /\ \A d \in Clients \ {c} : req'[d] = req[d]
      /\ req'[c] = NoRequest \/ (req'[c].kind = "report" /\ req'[c].at = "file" /\ DOMAIN req'[c] = ReportFields)
  BY DEF StoreReport, At, Doing, Deleters, Of, GoTo, End, GoOn, Tagged, ReportInv, ReportFields
<1>2. Deleters' = Deleters \ {c}
  BY <1>1, NoRequestIsOne DEF Deleters, Of
<1>3. PICK f \in [reports -> Clients] : Attributed(f)
  BY DEF ReportInv
<1> PICK g : g = [s \in reports' |-> IF s = new THEN c ELSE f[s]]
  OBVIOUS
<1>4. \A s \in reports' : s # new => s \in reports /\ f[s] # c
  BY <1>1, <1>3 DEF Attributed
<1>5. g \in [reports' -> Clients]
  BY <1>3, <1>4
<1>6. \A r, s \in reports' : g[r] = g[s] => r = s
  BY <1>3, <1>4 DEF Attributed
<1>7. \A s \in reports' : g[s] \in Deleters' => s \in req'[g[s]].seen
  <2> SUFFICES ASSUME NEW s \in reports', g[s] \in Deleters' PROVE s \in req'[g[s]].seen
    OBVIOUS
  <2>1. s # new /\ g[s] = f[s] /\ s \in reports /\ f[s] \in Deleters \ {c}
    BY <1>2, <1>4
  <2>2. f[s] \in Clients \ {c}
    BY <2>1 DEF Deleters, Of
  <2> QED
    BY <1>1, <1>3, <2>1, <2>2 DEF Attributed
<1>8. Attributed(g)'
  BY <1>5, <1>6, <1>7 DEF Attributed
<1>9. ASSUME NEW d \in Deleters', req'[d].lone PROVE FALSE
  <2>1. d \in Deleters /\ d # c /\ d \in Clients
    BY <1>2 DEF Deleters, Of
  <2>2. req[d].lone
    BY <1>1, <1>9, <2>1, Zenon
  <2>3. Deleters = {d}
    BY <2>1, <2>2, Zenon DEF ReportInv
  <2> QED
    BY <1>1, <2>1, <2>3
<1>10. IsFiniteSet(reports')
  BY <1>1, FS_Difference, FS_AddElement DEF ReportInv
<1>11. \A d \in Clients : req'[d].kind = "report" => DOMAIN req'[d] = ReportFields
  BY <1>1, NoRequestIsOne DEF ReportInv
<1> QED
  BY <1>5, <1>8, <1>9, <1>10, <1>11 DEF ReportInv

LEMMA ReportsKeepReportInv ==
  ASSUME ReportInv, Tagged', NEW c \in Clients, ReportStep(c)
  PROVE  ReportInv'
<1> DEFINE Quiet == /\ UNCHANGED reports /\ \A d \in Clients \ {c} : req'[d] = req[d]
                    /\ req'[c].kind = "report" => DOMAIN req'[c] = ReportFields /\ req'[c].at \notin {"rows", "store"}
<1> USE DEF ReportFields, Tagged, ReportInv
<1>1. ASSUME NEW download, RequestReport(c, download) PROVE Quiet
  BY <1>1 DEF RequestReport, Begin
<1>2. ASSUME ReadActiveConfig(c) PROVE Quiet
  <2> DEFINE r == [req[c] EXCEPT !.llm = ~NoneActive, !.at = "facts"]
  <2>1. DOMAIN r = ReportFields /\ r.at = "facts"
    BY <1>2 DEF ReadActiveConfig, At, Doing
  <2>2. UNCHANGED reports /\ (End(c) \/ GoOn(c, r))
    BY <1>2 DEF ReadActiveConfig
  <2> HIDE DEF r
  <2> QED
    BY <2>1, <2>2, NoRequestIsOne DEF End, GoOn
<1>3. ASSUME NEW facts, NEW wish, GatherFacts(c, facts, wish) PROVE Quiet
  BY <1>3 DEF GatherFacts, At, Doing, CallLlm, Calls, GoTo, GoOn
<1>4. ASSUME WriteNarrative(c) PROVE Quiet
  BY <1>4 DEF WriteNarrative, Told, Doing, Proceeds, GoOn
<1>5. ASSUME ConvertReport(c) \/ ReportFails(c) PROVE Quiet
  BY <1>5, NoRequestIsOne DEF ConvertReport, ReportFails, End, GoOn
<1>6. Quiet => ReportInv'
  BY QuietKeepsReportInv
<1> QED
  BY <1>1, <1>2, <1>3, <1>4, <1>5, <1>6, LookKeepsReportInv, DeleteKeepsReportInv, StoreKeepsReportInv
  DEF ReportStep, ReportProgress

LEMMA NextKeepsReportInv == ReportInv /\ [Next]_vars => ReportInv'
<1> SUFFICES ASSUME ReportInv, [Next]_vars PROVE ReportInv'
  OBVIOUS
<1>1. Tagged /\ Tagged'
  BY NextKeepsTagged DEF ReportInv
<1>2. ASSUME NEW c \in Clients, MakeReport(c) PROVE ReportInv'
  BY <1>1, <1>2, ReportsKeepReportInv DEF MakeReport
<1>3. ASSUME NEW c \in Clients, ChangeConfig(c) \/ Choose(c) \/ Question(c) \/ RunAgent(c) \/ Call(c) PROVE ReportInv'
  BY <1>1, <1>3, EachLeavesTheOthers, OthersKeepReportInv
<1>4. CASE UNCHANGED vars
  BY <1>1, <1>4, StutterLeaves, OthersKeepReportInv
<1> QED
  BY <1>2, <1>3, <1>4 DEF Next

\* A client has at most one report in the table, however the requests overlap; so there
\* are never more than clients, there is always one once there was one, and a request
\* during which no other one deleted leaves its own as the only one.
THEOREM ReportsAreReplaced == Spec => ReportsReplaced
<1>1. Spec => []ReportInv
  BY InitReportInv, NextKeepsReportInv, PTL DEF Spec
<1>2. ReportInv => Cardinality(reports) <= Cardinality(Clients)
  <2> SUFFICES ASSUME ReportInv, Cardinality(reports) > Cardinality(Clients) PROVE FALSE
    BY ClientsAssumption, FS_CardinalityType DEF ReportInv
  <2>1. PICK f \in [reports -> Clients] : Attributed(f)
    BY DEF ReportInv
  <2>2. \E r, s \in reports : r # s /\ f[r] = f[s]
    BY ClientsAssumption, FS_PigeonHole DEF ReportInv
  <2> QED
    BY <2>1, <2>2 DEF Attributed
<1>3. ASSUME ReportInv, Next
      PROVE  /\ HasReport => LatestReport' # {}
             /\ \A c \in Clients : StoreReport(c) /\ req[c].lone => reports' = {req[c].began}
  <2>1. ASSUME NEW c \in Clients, StoreReport(c) PROVE req[c].began \in reports'
    BY <2>1 DEF StoreReport
  <2>2. reports' = reports \/ \E c \in Clients : StoreReport(c)
    <3>1. ASSUME NEW c \in Clients, MakeReport(c) PROVE reports' = reports \/ StoreReport(c)
      BY <3>1 DEF MakeReport, ReportStep, ReportProgress, RequestReport, ReadActiveConfig, GatherFacts, WriteNarrative,
                  LookForReports, DeleteReports, ConvertReport, ReportFails
    <3>2. ASSUME NEW c \in Clients, ChangeConfig(c) \/ Choose(c) \/ Question(c) \/ RunAgent(c) \/ Call(c)
          PROVE  reports' = reports
      BY <1>3, <3>2, EachLeavesTheOthers DEF ReportInv
    <3> QED
      BY <1>3, <3>1, <3>2 DEF Next
  <2>3. HasReport => reports' # {}
    BY <2>1, <2>2 DEF HasReport
  <2>4. ASSUME NEW c \in Clients, StoreReport(c), req[c].lone PROVE reports' = {req[c].began}
    <3>1. c \in Deleters
      BY <2>4 DEF StoreReport, At, Doing, Deleters, Of
    <3>2. reports \subseteq req[c].seen
      BY <1>3, <2>4, <3>1, Zenon DEF ReportInv
    <3> QED
      BY <2>4, <3>2 DEF StoreReport
  <2> QED
    BY <2>3, <2>4 DEF LatestReport, HasReport
<1>4. ReportInv /\ [Next]_vars =>
        [/\ HasReport => LatestReport' # {}
         /\ \A c \in Clients : StoreReport(c) /\ req[c].lone => reports' = {req[c].began}]_<<req, reports>>
  BY <1>3 DEF vars
<1> QED
  BY <1>1, <1>2, <1>4, PTL DEF ReportsReplaced, Spec

-----------------------------------------------------------------------------
(* Conversations that grow.                                                *)

Parts == Seq(Roles \X Nat)

LEMMA AddsKeepsLog ==
  ASSUME NEW log, IsLog(log), NEW ms \in Parts
  PROVE  IsLog(Adds(log, ms)) /\ Len(Adds(log, ms)) = Len(log) + Len(ms)
<1>1. PICK m \in Nat : m = Len(log) /\ m >= 2
  BY LenProperties DEF IsLog
<1>2. PICK n \in Nat : n = Len(ms) /\ DOMAIN ms = 1..n
  BY LenProperties DEF Parts
<1>3. log \in Seq(Messages) /\ InOrder(log) /\ log[1].role = "system"
  BY DEF IsLog
<1>4. PICK p : p = log[m].place
  OBVIOUS
<1>5. p \in Nat
  <2>1. log[m] \in Messages
    BY <1>1, <1>3, ElementOfSeq
  <2> QED
    BY <1>4, <2>1 DEF Messages
<1>6. PICK t : t = [i \in 1..n |-> Message(ms[i][1], ms[i][2], p + i)]
  OBVIOUS
<1>7. ASSUME NEW i \in 1..n PROVE t[i] \in Messages /\ t[i].place = p + i
  <2>1. PICK role \in Roles, size \in Nat : ms[i] = <<role, size>>
    <3>1. ms[i] \in Roles \X Nat
      BY <1>2, ElementOfSeq DEF Parts
    <3> QED
      BY <3>1
  <2>2. t[i] = Message(role, size, p + i)
    BY <1>6, <2>1
  <2>3. p + i \in Nat
    BY <1>5
  <2> QED
    BY <2>2, <2>3, MessageType
<1>8. t \in Seq(Messages) /\ Len(t) = n
  <2>1. t \in [1..n -> Messages]
    BY <1>6, <1>7
  <2> QED
    BY <2>1
<1>9. InOrder(t)
  <2> SUFFICES ASSUME NEW i \in 1..n, NEW j \in 1..n, i < j PROVE t[i].place < t[j].place
    BY <1>8 DEF InOrder
  <2>1. p + i < p + j
    BY <1>5
  <2> QED
    BY <1>7, <2>1
<1>10. ASSUME NEW i \in 1..m, NEW j \in 1..n PROVE log[i].place < t[j].place
  <2>1. log[i] \in Messages
    BY <1>1, <1>3, ElementOfSeq
  <2>2. log[i].place \in Nat
    BY <2>1 DEF Messages
  <2>3. log[i].place <= p
    <3>1. CASE i = m
      BY <1>4, <1>5, <3>1
    <3>2. CASE i # m
      <4>1. i < m /\ m \in 1..m
        BY <1>1, <3>2
      <4>2. log[i].place < log[m].place
        BY <1>1, <1>3, <4>1, PlacesRise
      <4> QED
        BY <1>4, <1>5, <2>2, <4>2
    <3> QED
      BY <3>1, <3>2
  <2>4. p < p + j
    BY <1>5
  <2>5. t[j].place = p + j
    BY <1>7
  <2> QED
    BY <1>5, <2>2, <2>3, <2>4, <2>5
<1>11. ComeOneByOne(log, m, t, n)
  BY <1>1, <1>3, <1>8, <1>9, <1>10 DEF ComeOneByOne
<1>12. AreBoth(log \o t, log, m, t, n)
  BY <1>11, JoinedInOrder
<1>13. Adds(log, ms) = log \o t
  BY <1>1, <1>2, <1>4, <1>6 DEF Adds, Last
<1>14. (log \o t)[1] = log[1] /\ log \o t \in Seq(Messages) /\ Len(log \o t) = m + n /\ InOrder(log \o t)
  BY <1>1, <1>12 DEF AreBoth
<1>15. IsLog(log \o t)
  BY <1>1, <1>3, <1>14 DEF IsLog
<1> QED
  BY <1>1, <1>2, <1>13, <1>14, <1>15

LEMMA FrontKeepsLog ==
  ASSUME NEW log, IsLog(log), Len(log) >= 3
  PROVE  IsLog(Front(log))
<1>1. PICK m \in Nat : m = Len(log) - 1 /\ m >= 2
  BY LenProperties DEF IsLog
<1>2. log \in Seq(Messages) /\ InOrder(log) /\ log[1].role = "system" /\ m <= Len(log)
  BY <1>1, LenProperties DEF IsLog
<1>3. /\ SubSeq(log, 1, m) \in Seq(Messages)
      /\ Len(SubSeq(log, 1, m)) = IF 1 <= m THEN m - 1 + 1 ELSE 0
      /\ \A i \in 1..(m - 1 + 1) : SubSeq(log, 1, m)[i] = log[1 + i - 1]
  BY <1>2, PartOf
<1>4. Len(SubSeq(log, 1, m)) = m /\ SubSeq(log, 1, m)[1] = log[1]
  BY <1>1, <1>3
<1>5. InOrder(SubSeq(log, 1, m))
  BY <1>2, PartInOrder
<1>6. Front(log) = SubSeq(log, 1, m)
  BY <1>1 DEF Front
<1> QED
  BY <1>1, <1>2, <1>3, <1>4, <1>5, <1>6 DEF IsLog

LEMMA ToolMessagesType ==
  ASSUME NEW sizes \in Seq(Nat)
  PROVE  ToolMessages(sizes) \in Parts
<1>1. PICK n \in Nat : n = Len(sizes) /\ DOMAIN sizes = 1..n /\ \A i \in 1..n : sizes[i] \in Nat
  BY LenProperties, ElementOfSeq
<1>2. PICK t : t = [i \in 1..n |-> <<"tool", sizes[i]>>]
  OBVIOUS
<1>3. PICK P : P = Roles \X Nat
  OBVIOUS
<1>4. \A i \in 1..n : <<"tool", sizes[i]>> \in P
  BY <1>1, <1>3 DEF Roles
<1>5. t \in [1..n -> P]
  BY <1>2, <1>4
<1>6. t \in Seq(P)
  BY <1>5
<1>7. <<"assistant", 1>> \in P
  BY <1>3 DEF Roles
<1>8. <<<<"assistant", 1>>>> \o t \in Seq(P)
  BY <1>6, <1>7
<1>9. ToolMessages(sizes) = <<<<"assistant", 1>>>> \o t
  BY <1>1, <1>2 DEF ToolMessages
<1> QED
  BY <1>3, <1>8, <1>9 DEF Parts

LEMMA OnePart ==
  ASSUME NEW role \in Roles, NEW size \in Nat
  PROVE  <<<<role, size>>>> \in Parts /\ Len(<<<<role, size>>>>) = 1
  BY DEF Parts

LEMMA BothParts ==
  ASSUME NEW a \in Parts, NEW b \in Parts
  PROVE  a \o b \in Parts
  BY DEF Parts

-----------------------------------------------------------------------------
(* What requests are, and their calls.                                     *)

SentCalls == [state: {"sent"}, full: Seq(Messages), window: Nat, enforced: BOOLEAN, tools: BOOLEAN, tries: 1..Tries]
CallOk(x) ==
  \/ x = NoCall
  \/ \E a \in Answers : x = Answered(a)
  \/ x \in SentCalls /\ (x.enforced => IsPrompt(x.full))

\* At most two queries are searched for; a conversation is one from its first prompt on,
\* and an agent's has a strategy to take out again.
QuestionOk(r) ==
  /\ r \in QuestionRequest /\ r.queries <= 2
  /\ r.at \in {"loop", "tooled"} => IsLog(r.log)
AgentOk(r) ==
  /\ r \in AgentRequest /\ IsLog(r.log)
  /\ r.at = "planned" /\ ~r.guided => Len(r.log) >= 3
ReportOk(r, now) == r \in ReportRequest /\ r.began \in 1..now
ChoiceOk(r, now) == r \in ChoiceRequest /\ r.began \in 1..now

Fitting(r, x, now) ==
  \/ r = NoRequest /\ x = NoCall
  \/ r \in ConfigRequest /\ x = NoCall
  \/ ChoiceOk(r, now) /\ x = NoCall
  \/ ReportOk(r, now) /\ CallOk(x)
  \/ QuestionOk(r) /\ CallOk(x)
  \/ AgentOk(r) /\ CallOk(x)

AllFit ==
  /\ DOMAIN req = Clients /\ call = [c \in Clients |-> call[c]] /\ clock \in Nat
  /\ \A c \in Clients : Fitting(req[c], call[c], clock)

\* One request goes on, and its call with it.
OneStep(c, r, x) ==
  /\ req' = [req EXCEPT ![c] = r] /\ call' = [call EXCEPT ![c] = x]
  /\ UNCHANGED <<left, clock>>

\* ... as another one of its kind, or it ends.
QuestionGoes(c) == \E r, x : OneStep(c, r, x) /\ ((QuestionOk(r) /\ CallOk(x)) \/ (r = NoRequest /\ x = NoCall))
AgentGoes(c) == \E r, x : OneStep(c, r, x) /\ ((AgentOk(r) /\ CallOk(x)) \/ (r = NoRequest /\ x = NoCall))

LEMMA KindsOfRequests ==
  ASSUME NEW r, NEW x, NEW now, Fitting(r, x, now)
  PROVE  /\ r.kind \in Kinds \cup {"none"}
         /\ r.kind = "none" => r = NoRequest /\ x = NoCall
         /\ r.kind = "config" => r \in ConfigRequest /\ x = NoCall
         /\ r.kind = "choice" => ChoiceOk(r, now) /\ x = NoCall
         /\ r.kind = "report" => ReportOk(r, now) /\ CallOk(x)
         /\ r.kind = "question" => QuestionOk(r) /\ CallOk(x)
         /\ r.kind = "agent" => AgentOk(r) /\ CallOk(x)
<1>1. NoRequest.kind = "none"
  BY DEF NoRequest
<1>2. r \in ConfigRequest => r.kind = "config"
  BY DEF ConfigRequest
<1>3. ChoiceOk(r, now) => r.kind = "choice"
  BY DEF ChoiceOk, ChoiceRequest
<1>4. ReportOk(r, now) => r.kind = "report"
  BY DEF ReportOk, ReportRequest
<1>5. QuestionOk(r) => r.kind = "question"
  BY DEF QuestionOk, QuestionRequest
<1>6. AgentOk(r) => r.kind = "agent"
  BY DEF AgentOk, AgentRequest
<1> QED
  BY <1>1, <1>2, <1>3, <1>4, <1>5, <1>6 DEF Fitting, Kinds

LEMMA NoCallIsOk == CallOk(NoCall)
  BY DEF CallOk

LEMMA FitsLater ==
  ASSUME NEW r, NEW x, NEW now \in Nat, NEW later \in Nat, now <= later, Fitting(r, x, now)
  PROVE  Fitting(r, x, later)
<1>1. \A n : n \in 1..now => n \in 1..later
  OBVIOUS
<1>2. ReportOk(r, now) => ReportOk(r, later)
  BY <1>1, Zenon DEF ReportOk
<1>3. ChoiceOk(r, now) => ChoiceOk(r, later)
  BY <1>1, Zenon DEF ChoiceOk
<1> QED
  BY <1>2, <1>3 DEF Fitting

LEMMA StepsFit ==
  ASSUME AllFit, NEW c \in Clients, NEW r, NEW x, OneStep(c, r, x), Fitting(r, x, clock)
  PROVE  AllFit'
  BY DEF AllFit, OneStep

LEMMA TriesType == Tries \in 1..Tries
  BY TriesAssumption

\* The ways in which a request goes on.
LEMMA CallsOne ==
  ASSUME NEW c \in Clients, NEW r, NEW ms \in Seq(Messages), NEW window \in Nat,
         NEW enforced \in BOOLEAN, NEW tools \in BOOLEAN, enforced => IsPrompt(ms),
         Calls(c, r, ms, window, enforced, tools)
  PROVE  \E x : OneStep(c, r, x) /\ CallOk(x)
<1>1. PICK x : x = [state |-> "sent", full |-> ms, window |-> window, enforced |-> enforced, tools |-> tools, tries |-> Tries]
  OBVIOUS
<1>2. x \in SentCalls /\ x.enforced = enforced /\ x.full = ms
  BY <1>1, TriesType DEF SentCalls
<1>3. OneStep(c, r, x)
  BY <1>1 DEF Calls, GoOn, OneStep
<1> QED
  BY <1>2, <1>3 DEF CallOk

LEMMA ProceedsOne ==
  ASSUME NEW c \in Clients, NEW r, Proceeds(c, r)
  PROVE  OneStep(c, r, NoCall)
  BY DEF Proceeds, GoOn, OneStep

LEMMA GoesOnOne ==
  ASSUME AllFit, NEW c \in Clients, NEW r, GoOn(c, r), UNCHANGED call, call[c] = NoCall
  PROVE  OneStep(c, r, NoCall)
  BY DEF GoOn, OneStep, AllFit

QuestionPlaces ==
  {"status", "config", "queries", "vectors", "ranked", "answer",
   "history", "expand", "expanded", "classify", "classified", "general", "extract", "extracted", "insert",
   "timeline", "loop", "tooled"}

\* A question's request with other values in some of its fields.
LEMMA OtherQuestion ==
  ASSUME NEW r \in QuestionRequest, NEW at \in QuestionPlaces, NEW n \in Nat, NEW texts \in Corpora \cup {{}},
         NEW chunks \in Seq(UNION Corpora), NEW log \in Seq(Messages)
  PROVE  /\ [r EXCEPT !.at = at] \in QuestionRequest
         /\ [r EXCEPT !.at = at, !.window = n] \in QuestionRequest
         /\ [r EXCEPT !.at = at, !.queries = n] \in QuestionRequest
         /\ [r EXCEPT !.at = at, !.size = n] \in QuestionRequest
         /\ [r EXCEPT !.at = at, !.turn = n] \in QuestionRequest
         /\ [r EXCEPT !.at = at, !.texts = texts, !.chunks = chunks] \in QuestionRequest
         /\ [r EXCEPT !.at = at, !.chunks = chunks] \in QuestionRequest
         /\ [r EXCEPT !.at = at, !.window = n, !.log = log] \in QuestionRequest
         /\ [r EXCEPT !.at = at, !.log = log] \in QuestionRequest
<1>1. PICK M, C, L : M = Seq(Messages) /\ C = Seq(UNION Corpora) /\ L = Corpora \cup {{}}
  OBVIOUS
<1>2. PICK P : P = QuestionPlaces
  OBVIOUS
<1>3. QuestionRequest = [kind: {"question"}, mode: Modes, size: Nat, window: Nat, history: Histories, at: P,
                         queries: Nat, texts: L, chunks: C, log: M, turn: Nat]
  BY <1>1, <1>2, Zenon DEF QuestionRequest, QuestionPlaces
<1>4. r \in QuestionRequest /\ at \in P /\ texts \in L /\ chunks \in C /\ log \in M
  BY <1>1, <1>2
<1> HIDE DEF QuestionRequest
<1>5. [r EXCEPT !.at = at] \in QuestionRequest
  BY <1>3, <1>4
<1>6. [r EXCEPT !.at = at, !.window = n] \in QuestionRequest
  BY <1>3, <1>4
<1>7. [r EXCEPT !.at = at, !.queries = n] \in QuestionRequest
  BY <1>3, <1>4
<1>8. [r EXCEPT !.at = at, !.size = n] \in QuestionRequest
  BY <1>3, <1>4
<1>9. [r EXCEPT !.at = at, !.turn = n] \in QuestionRequest
  BY <1>3, <1>4
<1>10. [r EXCEPT !.at = at, !.texts = texts, !.chunks = chunks] \in QuestionRequest
  BY <1>3, <1>4
<1>11. [r EXCEPT !.at = at, !.chunks = chunks] \in QuestionRequest
  BY <1>3, <1>4
<1>12. [r EXCEPT !.at = at, !.window = n, !.log = log] \in QuestionRequest
  BY <1>3, <1>4
<1>13. [r EXCEPT !.at = at, !.log = log] \in QuestionRequest
  BY <1>3, <1>4
<1> QED
  BY <1>5, <1>6, <1>7, <1>8, <1>9, <1>10, <1>11, <1>12, <1>13

\* What is in a question's request.
LEMMA QuestionFields ==
  ASSUME NEW r, QuestionOk(r)
  PROVE  /\ r \in QuestionRequest /\ r.size \in Nat /\ r.window \in Nat /\ r.history \in Seq(Messages) /\ r.queries \in 0..2
         /\ r.chunks \in Seq(UNION Corpora) /\ r.log \in Seq(Messages) /\ r.turn \in Nat
<1>1. r.history \in Histories /\ r.queries \in Nat /\ r.queries <= 2
  BY DEF QuestionOk, QuestionRequest
<1> QED
  BY <1>1, QuestionsAssumption DEF QuestionOk, QuestionRequest

\* At a step that needs no log.
LEMMA QuestionElsewhere ==
  ASSUME NEW r, QuestionOk(r), NEW at \in QuestionPlaces \ {"loop", "tooled"}, NEW n \in Nat,
         NEW texts \in Corpora \cup {{}}, NEW chunks \in Seq(UNION Corpora)
  PROVE  /\ QuestionOk([r EXCEPT !.at = at])
         /\ QuestionOk([r EXCEPT !.at = at, !.window = n])
         /\ n <= 2 => QuestionOk([r EXCEPT !.at = at, !.queries = n])
         /\ QuestionOk([r EXCEPT !.at = at, !.size = n])
         /\ QuestionOk([r EXCEPT !.at = at, !.texts = texts, !.chunks = chunks])
         /\ QuestionOk([r EXCEPT !.at = at, !.chunks = chunks])
<1>1. /\ [r EXCEPT !.at = at] \in QuestionRequest
      /\ [r EXCEPT !.at = at, !.window = n] \in QuestionRequest
      /\ [r EXCEPT !.at = at, !.queries = n] \in QuestionRequest
      /\ [r EXCEPT !.at = at, !.size = n] \in QuestionRequest
      /\ [r EXCEPT !.at = at, !.texts = texts, !.chunks = chunks] \in QuestionRequest
      /\ [r EXCEPT !.at = at, !.chunks = chunks] \in QuestionRequest
  <2>1. r \in QuestionRequest /\ at \in QuestionPlaces /\ <<>> \in Seq(Messages)
    BY DEF QuestionOk
  <2> QED
    BY <2>1, OtherQuestion
<1>2. DOMAIN r = {"kind", "mode", "size", "window", "history", "at", "queries", "texts", "chunks", "log", "turn"} /\ r.queries <= 2
  BY DEF QuestionOk, QuestionRequest
<1>3. \A s \in QuestionRequest : s.queries <= 2 /\ s.at = at => QuestionOk(s)
  BY DEF QuestionOk
<1> HIDE DEF QuestionRequest
<1>4. [r EXCEPT !.at = at].at = at /\ [r EXCEPT !.at = at].queries <= 2
  BY <1>2
<1>5. [r EXCEPT !.at = at, !.window = n].at = at /\ [r EXCEPT !.at = at, !.window = n].queries <= 2
  BY <1>2
<1>6. [r EXCEPT !.at = at, !.queries = n].at = at /\ [r EXCEPT !.at = at, !.queries = n].queries = n
  BY <1>2
<1>7. [r EXCEPT !.at = at, !.size = n].at = at /\ [r EXCEPT !.at = at, !.size = n].queries <= 2
  BY <1>2
<1>8. [r EXCEPT !.at = at, !.texts = texts, !.chunks = chunks].at = at
      /\ [r EXCEPT !.at = at, !.texts = texts, !.chunks = chunks].queries <= 2
  BY <1>2
<1>9. [r EXCEPT !.at = at, !.chunks = chunks].at = at /\ [r EXCEPT !.at = at, !.chunks = chunks].queries <= 2
  BY <1>2
<1> QED
  BY <1>1, <1>3, <1>4, <1>5, <1>6, <1>7, <1>8, <1>9

LEMMA WindowType ==
  ASSUME ~NoneActive, ~TwoActive
  PROVE  Window \in Nat
<1>1. Active \in SUBSET Configs /\ Active # {}
  BY DEF Active, NoneActive
<1>2. IsFiniteSet(Active) /\ Cardinality(Active) \in Nat /\ Cardinality(Active) # 0
  BY <1>1, ConfigsAssumption, FS_Subset, FS_CardinalityType, FS_EmptySet
<1>3. Cardinality(Active) = 1
  BY <1>2 DEF TwoActive
<1>4. \E i \in Configs : Active = {i}
  BY <1>1, <1>2, <1>3, FS_Singleton
<1>5. TheActive \in Configs
  BY <1>4 DEF TheActive
<1> QED
  BY <1>5, QuestionsAssumption DEF Window

LEMMA QuestionEnds ==
  ASSUME AllFit, NEW c \in Clients, End(c), UNCHANGED call, call[c] = NoCall
  PROVE  QuestionGoes(c)
  BY GoesOnOne DEF End, QuestionGoes

LEMMA QuestionFinishes ==
  ASSUME NEW c \in Clients, Finishes(c)
  PROVE  QuestionGoes(c)
  BY ProceedsOne DEF Finishes, QuestionGoes

LEMMA QuestionProceeds ==
  ASSUME NEW c \in Clients, NEW r, QuestionOk(r), Proceeds(c, r)
  PROVE  QuestionGoes(c)
  BY ProceedsOne, NoCallIsOk DEF QuestionGoes

LEMMA QuestionGoesOn ==
  ASSUME AllFit, NEW c \in Clients, NEW r, QuestionOk(r), GoOn(c, r), UNCHANGED call, call[c] = NoCall
  PROVE  QuestionGoes(c)
  BY GoesOnOne, NoCallIsOk DEF QuestionGoes

LEMMA QuestionCalls ==
  ASSUME NEW c \in Clients, NEW r, QuestionOk(r), NEW ms \in Seq(Messages), NEW window \in Nat,
         NEW enforced \in BOOLEAN, NEW tools \in BOOLEAN, enforced => IsPrompt(ms),
         Calls(c, r, ms, window, enforced, tools)
  PROVE  QuestionGoes(c)
  BY CallsOne DEF QuestionGoes

LEMMA QuestionCallsAsIs ==
  ASSUME NEW c \in Clients, NEW r, QuestionOk(r), NEW ms \in Seq(Messages), NEW window \in Nat, CallAsIs(c, r, ms, window)
  PROVE  QuestionGoes(c)
  BY QuestionCalls DEF CallAsIs

LEMMA QuestionCallsLlm ==
  ASSUME NEW c \in Clients, NEW r, QuestionOk(r), NEW ms, IsLog(ms), NEW window \in Nat, NEW tools \in BOOLEAN,
         CallLlm(c, r, ms, window, tools)
  PROVE  QuestionGoes(c)
<1>1. ms \in Seq(Messages) /\ IsPrompt(ms)
  BY LogsArePrompts DEF IsLog
<1> QED
  BY <1>1, QuestionCalls DEF CallLlm

LEMMA QuestionCallsEmbedder ==
  ASSUME NEW c \in Clients, NEW r, QuestionOk(r), CallEmbedder(c, r)
  PROVE  QuestionGoes(c)
<1>1. <<>> \in Seq(Messages)
  OBVIOUS
<1> QED
  BY <1>1, QuestionCalls DEF CallEmbedder

LEMMA AQuestion ==
  ASSUME AllFit, NEW c \in Clients, req[c].kind = "question"
  PROVE  QuestionOk(req[c]) /\ CallOk(call[c])
  BY KindsOfRequests DEF AllFit

LEMMA QuestionGoesTo ==
  ASSUME AllFit, NEW c \in Clients, req[c].kind = "question", call[c] = NoCall,
         NEW at \in QuestionPlaces \ {"loop", "tooled"}, GoTo(c, at), UNCHANGED call
  PROVE  QuestionGoes(c)
<1>1. QuestionOk(req[c]) /\ 0 \in Nat /\ {} \in Corpora \cup {{}} /\ <<>> \in Seq(UNION Corpora)
  BY AQuestion
<1>2. QuestionOk([req[c] EXCEPT !.at = at])
  BY <1>1, QuestionElsewhere
<1> QED
  BY <1>2, QuestionGoesOn DEF GoTo

\* Texts that can be read, for the queries that there are.
LEMMA FoundForType ==
  ASSUME NEW texts, IsCorpus(texts), NEW n \in 0..2, NEW gone
  PROVE  FoundFor(texts, n, gone) \subseteq Found(texts) /\ IsFiniteSet(FoundFor(texts, n, gone))
<1>1. PICK k : k = Max({1, QueryK(n) \div Scale})
  OBVIOUS
<1>2. k \in Nat
  <2>1. QueryK(n) \in Nat
    BY QueryKType
  <2>2. QueryK(n) \div Scale \in Nat
    BY <2>1, QuestionsAssumption
  <2>3. {1, QueryK(n) \div Scale} \subseteq Int /\ IsFiniteSet({1, QueryK(n) \div Scale})
    <3>1. IsFiniteSet({1}) /\ {1} \cup {QueryK(n) \div Scale} = {1, QueryK(n) \div Scale}
      BY FS_Singleton
    <3> QED
      BY <2>2, <3>1, FS_AddElement
  <2>4. Max({1, QueryK(n) \div Scale}) \in {1, QueryK(n) \div Scale}
    BY <2>3, MaxOfFinite
  <2> QED
    BY <1>1, <2>2, <2>4
<1>3. PICK f : f = [q \in 1..n |-> Retrieve(texts, q, k, gone)]
  OBVIOUS
<1>4. \A q \in 1..n : f[q] \subseteq Found(texts) /\ IsFiniteSet(f[q])
  <2> SUFFICES ASSUME NEW q \in 1..n PROVE Retrieve(texts, q, k, gone) \subseteq Found(texts) /\ IsFiniteSet(Retrieve(texts, q, k, gone))
    BY <1>3
  <2>1. q \in 1..2
    OBVIOUS
  <2> QED
    BY <1>2, <2>1, RetrieveType
<1>5. PICK S : S = {f[q] : q \in 1..n}
  OBVIOUS
<1>6. IsFiniteSet(S)
  <2>1. IsFiniteSet(1..n) /\ DOMAIN f = 1..n
    BY <1>3, FS_Interval
  <2> QED
    BY <1>5, <2>1, ImageIsFinite
<1>7. IsFiniteSet(UNION S) /\ UNION S \subseteq Found(texts)
  BY <1>4, <1>5, <1>6, FS_UNION
<1>8. FoundFor(texts, n, gone) = UNION S
  BY <1>1, <1>3, <1>5 DEF FoundFor
<1> QED
  BY <1>7, <1>8

LEMMA ChunksFound ==
  ASSUME NEW texts \in Corpora, NEW n \in 0..2, NEW gone
  PROVE  Deduplicate(FoundFor(texts, n, gone), 200) \in Seq(UNION Corpora)
<1>1. IsCorpus(texts)
  BY QuestionsAssumption
<1>2. Deduplicate(FoundFor(texts, n, gone), 200) \in Seq(texts)
  BY <1>1, FoundForType, DeduplicateType
<1>3. PICK s : s = Deduplicate(FoundFor(texts, n, gone), 200)
  OBVIOUS
<1>4. s \in Seq(UNION Corpora)
  <2>1. Len(s) \in Nat /\ \A i \in 1..Len(s) : s[i] \in UNION Corpora
    BY <1>2, <1>3, LenProperties, ElementOfSeq
  <2>2. s = [i \in 1..Len(s) |-> s[i]]
    BY <1>2, <1>3, LenProperties
  <2> QED
    BY <2>1, <2>2
<1> QED
  BY <1>3, <1>4

LEMMA ChunksChosen ==
  ASSUME NEW chunks \in Seq(UNION Corpora)
  PROVE  /\ Reranked(chunks, 100, 50) \in Seq(UNION Corpora)
         /\ First(chunks, 50) \in Seq(UNION Corpora)
         /\ [i \in DOMAIN chunks |-> chunks[i].size] \in Seq(Nat)
<1>1. \A t \in UNION Corpora : IsText(t)
  BY QuestionsAssumption DEF IsCorpus
<1>2. Reranked(chunks, 100, 50) \in Seq(UNION Corpora)
  BY <1>1, RerankedType
<1>3. First(chunks, 50) \in Seq(UNION Corpora)
  BY FirstOf
<1>4. PICK n \in Nat : n = Len(chunks) /\ DOMAIN chunks = 1..n /\ \A i \in 1..n : chunks[i] \in UNION Corpora
  BY LenProperties, ElementOfSeq
<1>5. PICK s : s = [i \in 1..n |-> chunks[i].size]
  OBVIOUS
<1>6. \A i \in 1..n : chunks[i].size \in Nat
  BY <1>1, <1>4 DEF IsText
<1>7. s \in [1..n -> Nat]
  BY <1>5, <1>6
<1>8. s \in Seq(Nat)
  BY <1>7
<1> QED
  BY <1>2, <1>3, <1>4, <1>5, <1>8

-----------------------------------------------------------------------------
(* The steps of a question.                                                *)

\* A prompt that the question's handlers send as it is.
LEMMA SentAsTheyAre ==
  ASSUME NEW r, QuestionOk(r), NEW readable \in BOOLEAN
  PROVE  /\ SearchPrompt(r.size) \in Seq(Messages)
         /\ ExtractPrompt(r.size) \in Seq(Messages)
         /\ ExpansionPrompt(r.history, r.size, readable) \in Seq(Messages)
         /\ ClassificationPrompt(r.history, r.size) \in Seq(Messages)
  BY QuestionFields, SmallPrompts, ClassificationPromptIsLog DEF IsLog

LEMMA CheckStatusGoes ==
  ASSUME AllFit, NEW c \in Clients, NEW usable \in BOOLEAN, CheckStatus(c, usable)
  PROVE  QuestionGoes(c)
<1>1. req[c].kind = "question" /\ call[c] = NoCall
  BY DEF CheckStatus, At, Doing
<1>2. "config" \in QuestionPlaces \ {"loop", "tooled"}
  BY DEF QuestionPlaces
<1>3. CASE Fails(c)
  BY <1>1, <1>3, QuestionEnds DEF Fails
<1>4. CASE Goes(c, "config")
  BY <1>1, <1>2, <1>4, QuestionGoesTo DEF Goes
<1> QED
  BY <1>3, <1>4 DEF CheckStatus

LEMMA ExpandIntoQueriesGoes ==
  ASSUME AllFit, NEW c \in Clients, ExpandIntoQueries(c)
  PROVE  QuestionGoes(c)
<1>1. req[c].kind = "question" /\ call[c] = NoCall
  BY DEF ExpandIntoQueries, At, Doing
<1>2. QuestionOk(req[c])
  BY <1>1, AQuestion
<1>3. CASE Fails(c)
  BY <1>1, <1>3, QuestionEnds DEF Fails
<1>4. CASE ~NoneActive /\ ~TwoActive /\ CallAsIs(c, [req[c] EXCEPT !.at = "queries", !.window = Window], SearchPrompt(req[c].size), Window)
  <2>1. Window \in Nat
    BY <1>4, WindowType
  <2>2. "queries" \in QuestionPlaces \ {"loop", "tooled"} /\ {} \in Corpora \cup {{}} /\ <<>> \in Seq(UNION Corpora)
    BY DEF QuestionPlaces
  <2>3. QuestionOk([req[c] EXCEPT !.at = "queries", !.window = Window])
    BY <1>2, <2>1, <2>2, QuestionElsewhere
  <2>4. SearchPrompt(req[c].size) \in Seq(Messages)
    BY <1>2, SentAsTheyAre
  <2> QED
    BY <1>4, <2>1, <2>3, <2>4, QuestionCallsAsIs
<1> QED
  BY <1>3, <1>4 DEF ExpandIntoQueries

LEMMA EmbedQueriesGoes ==
  ASSUME AllFit, NEW c \in Clients, NEW added \in 0..1, EmbedQueries(c, added)
  PROVE  QuestionGoes(c)
<1>1. req[c].kind = "question"
  BY DEF EmbedQueries, Told, Doing
<1>2. QuestionOk(req[c])
  BY <1>1, AQuestion
<1>3. /\ "vectors" \in QuestionPlaces \ {"loop", "tooled"} /\ {} \in Corpora \cup {{}} /\ <<>> \in Seq(UNION Corpora)
      /\ 1 + added \in Nat /\ 1 + added <= 2
  BY DEF QuestionPlaces
<1>4. QuestionOk([req[c] EXCEPT !.at = "vectors", !.queries = 1 + added])
  BY <1>2, <1>3, QuestionElsewhere
<1> QED
  BY <1>4, QuestionCallsEmbedder DEF EmbedQueries

LEMMA RetrieveTextsGoes ==
  ASSUME AllFit, NEW c \in Clients, NEW texts \in Corpora, NEW gone, RetrieveTexts(c, texts, gone)
  PROVE  QuestionGoes(c)
<1>1. req[c].kind = "question"
  BY DEF RetrieveTexts, Told, Doing
<1>2. QuestionOk(req[c])
  BY <1>1, AQuestion
<1>3. PICK found : found = Deduplicate(FoundFor(texts, req[c].queries, gone), 200)
  OBVIOUS
<1>4. found \in Seq(UNION Corpora)
  <2>1. req[c].queries \in 0..2
    BY <1>2, QuestionFields
  <2> QED
    BY <1>3, <2>1, ChunksFound
<1>5. "ranked" \in QuestionPlaces \ {"loop", "tooled"} /\ texts \in Corpora \cup {{}} /\ 0 \in Nat
  BY DEF QuestionPlaces
<1>6. QuestionOk([req[c] EXCEPT !.at = "ranked", !.texts = texts, !.chunks = found])
  BY <1>2, <1>4, <1>5, QuestionElsewhere
<1>7. Proceeds(c, [req[c] EXCEPT !.at = "ranked", !.texts = texts, !.chunks = found])
  BY <1>3 DEF RetrieveTexts
<1> QED
  BY <1>6, <1>7, QuestionProceeds

LEMMA RankTextsGoes ==
  ASSUME AllFit, NEW c \in Clients, RankTexts(c)
  PROVE  QuestionGoes(c)
  BY AQuestion, QuestionCallsEmbedder DEF RankTexts, At, Doing

LEMMA AskForAnswerGoes ==
  ASSUME AllFit, NEW c \in Clients, AskForAnswer(c)
  PROVE  QuestionGoes(c)
<1>1. req[c].kind = "question"
  BY DEF AskForAnswer, At, Told, Doing
<1>2. QuestionOk(req[c]) /\ req[c].chunks \in Seq(UNION Corpora) /\ req[c].window \in Nat /\ req[c].size \in Nat
  BY <1>1, AQuestion, QuestionFields
<1>3. PICK chunks : chunks = IF call[c] = Answered("text") THEN Reranked(req[c].chunks, 100, 50) ELSE First(req[c].chunks, 50)
  OBVIOUS
<1>4. chunks \in Seq(UNION Corpora)
  <2>1. Reranked(req[c].chunks, 100, 50) \in Seq(UNION Corpora) /\ First(req[c].chunks, 50) \in Seq(UNION Corpora)
    BY <1>2, ChunksChosen
  <2> QED
    BY <1>3, <2>1
<1>5. IsLog(RagMessages(c, chunks))
  <2>1. PICK sizes : sizes = [i \in DOMAIN chunks |-> chunks[i].size]
    OBVIOUS
  <2>2. sizes \in Seq(Nat)
    BY <1>4, <2>1, ChunksChosen
  <2>3. IsLog(RagPrompt(sizes, req[c].size))
    BY <1>2, <2>2, RagPromptIsLog
  <2> QED
    BY <2>1, <2>3 DEF RagMessages
<1>6. "answer" \in QuestionPlaces \ {"loop", "tooled"} /\ {} \in Corpora \cup {{}} /\ 0 \in Nat
  BY DEF QuestionPlaces
<1>7. QuestionOk([req[c] EXCEPT !.at = "answer", !.chunks = chunks])
  BY <1>2, <1>4, <1>6, QuestionElsewhere
<1>8. CallLlm(c, [req[c] EXCEPT !.at = "answer", !.chunks = chunks], RagMessages(c, chunks), req[c].window, FALSE)
  BY <1>3 DEF AskForAnswer
<1> QED
  BY <1>2, <1>5, <1>7, <1>8, QuestionCallsLlm

LEMMA FetchHistoryGoes ==
  ASSUME AllFit, NEW c \in Clients, NEW detailed \in BOOLEAN, FetchHistory(c, detailed)
  PROVE  QuestionGoes(c)
<1>1. PICK at : at = IF detailed THEN "classify" ELSE "expand"
  OBVIOUS
<1>2. at \in QuestionPlaces \ {"loop", "tooled"}
  BY <1>1 DEF QuestionPlaces
<1>3. req[c].kind = "question" /\ call[c] = NoCall /\ GoTo(c, at) /\ UNCHANGED call
  BY <1>1 DEF FetchHistory, At, Doing, Goes
<1> QED
  BY <1>2, <1>3, QuestionGoesTo

LEMMA ExpandQueryGoes ==
  ASSUME AllFit, NEW c \in Clients, NEW readable \in BOOLEAN, ExpandQuery(c, readable)
  PROVE  QuestionGoes(c)
<1>1. req[c].kind = "question" /\ call[c] = NoCall
  BY DEF ExpandQuery, At, Doing
<1>2. QuestionOk(req[c])
  BY <1>1, AQuestion
<1>3. {"classify", "expanded"} \subseteq QuestionPlaces \ {"loop", "tooled"}
  BY DEF QuestionPlaces
<1>4. CASE GoTo(c, "classify") /\ UNCHANGED call
  BY <1>1, <1>3, <1>4, QuestionGoesTo
<1>5. CASE /\ ~NoneActive /\ ~TwoActive
           /\ CallAsIs(c, [req[c] EXCEPT !.at = "expanded"], ExpansionPrompt(req[c].history, req[c].size, readable), Window)
  <2>1. Window \in Nat
    BY <1>5, WindowType
  <2>2. {} \in Corpora \cup {{}} /\ <<>> \in Seq(UNION Corpora)
    OBVIOUS
  <2>3. QuestionOk([req[c] EXCEPT !.at = "expanded"])
    BY <1>2, <1>3, <2>1, <2>2, QuestionElsewhere
  <2>4. ExpansionPrompt(req[c].history, req[c].size, readable) \in Seq(Messages)
    BY <1>2, SentAsTheyAre
  <2> QED
    BY <1>5, <2>1, <2>3, <2>4, QuestionCallsAsIs
<1> QED
  BY <1>4, <1>5 DEF ExpandQuery

LEMMA TakeExpansionGoes ==
  ASSUME AllFit, NEW c \in Clients, NEW size \in QuestionSizes, TakeExpansion(c, size)
  PROVE  QuestionGoes(c)
<1>1. req[c].kind = "question" /\ size \in Nat
  BY QuestionsAssumption DEF TakeExpansion, Told, Doing
<1>2. QuestionOk(req[c])
  BY <1>1, AQuestion
<1>3. "classify" \in QuestionPlaces \ {"loop", "tooled"} /\ {} \in Corpora \cup {{}} /\ <<>> \in Seq(UNION Corpora)
  BY DEF QuestionPlaces
<1>4. QuestionOk([req[c] EXCEPT !.at = "classify", !.size = size])
  BY <1>1, <1>2, <1>3, QuestionElsewhere
<1> QED
  BY <1>4, QuestionProceeds DEF TakeExpansion

LEMMA ClassifyIntentGoes ==
  ASSUME AllFit, NEW c \in Clients, ClassifyIntent(c)
  PROVE  QuestionGoes(c)
<1>1. req[c].kind = "question" /\ call[c] = NoCall
  BY DEF ClassifyIntent, At, Doing
<1>2. QuestionOk(req[c])
  BY <1>1, AQuestion
<1>3. "classified" \in QuestionPlaces \ {"loop", "tooled"}
  BY DEF QuestionPlaces
<1>4. CASE End(c) /\ UNCHANGED call
  BY <1>1, <1>4, QuestionEnds
<1>5. CASE GoTo(c, "classified") /\ UNCHANGED call
  BY <1>1, <1>3, <1>5, QuestionGoesTo
<1>6. CASE /\ ~NoneActive /\ ~TwoActive
           /\ CallAsIs(c, [req[c] EXCEPT !.at = "classified"], ClassificationPrompt(req[c].history, req[c].size), Window)
  <2>1. Window \in Nat
    BY <1>6, WindowType
  <2>2. {} \in Corpora \cup {{}} /\ <<>> \in Seq(UNION Corpora)
    OBVIOUS
  <2>3. QuestionOk([req[c] EXCEPT !.at = "classified"])
    BY <1>2, <1>3, <2>1, <2>2, QuestionElsewhere
  <2>4. ClassificationPrompt(req[c].history, req[c].size) \in Seq(Messages)
    BY <1>2, SentAsTheyAre
  <2> QED
    BY <1>6, <2>1, <2>3, <2>4, QuestionCallsAsIs
<1> QED
  BY <1>4, <1>5, <1>6 DEF ClassifyIntent

LEMMA RouteIntentGoes ==
  ASSUME AllFit, NEW c \in Clients, NEW intent \in Intents, RouteIntent(c, intent)
  PROVE  QuestionGoes(c)
<1>1. req[c].kind = "question"
  BY DEF RouteIntent, At, Told, Doing
<1>2. QuestionOk(req[c])
  BY <1>1, AQuestion
<1>3. CASE intent = "policy"
  BY <1>3, QuestionFinishes DEF RouteIntent
<1>4. CASE intent # "policy"
  <2>1. PICK at : at = IF intent = "insert" THEN "extract" ELSE intent
    OBVIOUS
  <2>2. at \in QuestionPlaces \ {"loop", "tooled"} /\ {} \in Corpora \cup {{}} /\ <<>> \in Seq(UNION Corpora) /\ 0 \in Nat
    BY <1>4, <2>1 DEF QuestionPlaces, Intents
  <2>3. QuestionOk([req[c] EXCEPT !.at = at])
    BY <1>2, <2>2, QuestionElsewhere
  <2>4. Proceeds(c, [req[c] EXCEPT !.at = at])
    BY <1>4, <2>1 DEF RouteIntent
  <2> QED
    BY <2>3, <2>4, QuestionProceeds
<1> QED
  BY <1>3, <1>4

LEMMA ExtractEventsGoes ==
  ASSUME AllFit, NEW c \in Clients, NEW structured \in BOOLEAN, ExtractEvents(c, structured)
  PROVE  QuestionGoes(c)
<1>1. req[c].kind = "question" /\ call[c] = NoCall
  BY DEF ExtractEvents, At, Doing
<1>2. QuestionOk(req[c])
  BY <1>1, AQuestion
<1>3. {"insert", "extracted"} \subseteq QuestionPlaces \ {"loop", "tooled"}
  BY DEF QuestionPlaces
<1>4. CASE GoTo(c, "insert") /\ UNCHANGED call
  BY <1>1, <1>3, <1>4, QuestionGoesTo
<1>5. CASE End(c) /\ UNCHANGED call
  BY <1>1, <1>5, QuestionEnds
<1>6. CASE ~NoneActive /\ ~TwoActive /\ CallAsIs(c, [req[c] EXCEPT !.at = "extracted"], ExtractPrompt(req[c].size), Window)
  <2>1. Window \in Nat
    BY <1>6, WindowType
  <2>2. {} \in Corpora \cup {{}} /\ <<>> \in Seq(UNION Corpora)
    OBVIOUS
  <2>3. QuestionOk([req[c] EXCEPT !.at = "extracted"])
    BY <1>2, <1>3, <2>1, <2>2, QuestionElsewhere
  <2>4. ExtractPrompt(req[c].size) \in Seq(Messages)
    BY <1>2, SentAsTheyAre
  <2> QED
    BY <1>6, <2>1, <2>3, <2>4, QuestionCallsAsIs
<1> QED
  BY <1>4, <1>5, <1>6 DEF ExtractEvents

LEMMA TakeEventsGoes ==
  ASSUME AllFit, NEW c \in Clients, NEW some \in BOOLEAN, TakeEvents(c, some)
  PROVE  QuestionGoes(c)
<1>1. req[c].kind = "question"
  BY DEF TakeEvents, Told, Doing
<1>2. QuestionOk(req[c])
  BY <1>1, AQuestion
<1>3. "insert" \in QuestionPlaces \ {"loop", "tooled"} /\ {} \in Corpora \cup {{}} /\ <<>> \in Seq(UNION Corpora) /\ 0 \in Nat
  BY DEF QuestionPlaces
<1>4. QuestionOk([req[c] EXCEPT !.at = "insert"])
  BY <1>2, <1>3, QuestionElsewhere
<1> QED
  BY <1>4, QuestionProceeds, QuestionFinishes DEF TakeEvents

\* In the loop the request has a conversation.
LEMMA QuestionInLoop ==
  ASSUME NEW r, QuestionOk(r), NEW at \in {"loop", "tooled"}, NEW n \in Nat, NEW log, IsLog(log)
  PROVE  /\ QuestionOk([r EXCEPT !.at = at, !.window = n, !.log = log])
         /\ QuestionOk([r EXCEPT !.at = at, !.log = log])
         /\ IsLog(r.log) => QuestionOk([r EXCEPT !.at = at, !.turn = n])
<1>1. /\ [r EXCEPT !.at = at, !.window = n, !.log = log] \in QuestionRequest
      /\ [r EXCEPT !.at = at, !.log = log] \in QuestionRequest
      /\ [r EXCEPT !.at = at, !.turn = n] \in QuestionRequest
  <2>1. /\ r \in QuestionRequest /\ at \in QuestionPlaces /\ {} \in Corpora \cup {{}} /\ <<>> \in Seq(UNION Corpora)
        /\ log \in Seq(Messages)
    BY DEF QuestionOk, QuestionPlaces, IsLog
  <2> QED
    BY <2>1, OtherQuestion
<1>2. DOMAIN r = {"kind", "mode", "size", "window", "history", "at", "queries", "texts", "chunks", "log", "turn"} /\ r.queries <= 2
  BY DEF QuestionOk, QuestionRequest
<1>3. \A s \in QuestionRequest : s.queries <= 2 /\ IsLog(s.log) => QuestionOk(s)
  BY DEF QuestionOk
<1> HIDE DEF QuestionRequest
<1>4. PICK a : a = [r EXCEPT !.at = at, !.window = n, !.log = log]
  OBVIOUS
<1>5. PICK b : b = [r EXCEPT !.at = at, !.log = log]
  OBVIOUS
<1>6. PICK d : d = [r EXCEPT !.at = at, !.turn = n]
  OBVIOUS
<1>7. a.queries <= 2 /\ a.log = log
  BY <1>2, <1>4
<1>8. b.queries <= 2 /\ b.log = log
  BY <1>2, <1>5
<1>9. d.queries <= 2 /\ d.log = r.log
  BY <1>2, <1>6
<1> QED
  BY <1>1, <1>3, <1>4, <1>5, <1>6, <1>7, <1>8, <1>9

LEMMA StartTimelineGoes ==
  ASSUME AllFit, NEW c \in Clients, StartTimeline(c)
  PROVE  QuestionGoes(c)
<1>1. req[c].kind = "question" /\ call[c] = NoCall
  BY DEF StartTimeline, At, Doing
<1>2. QuestionOk(req[c]) /\ req[c].size \in Nat
  BY <1>1, AQuestion, QuestionFields
<1>3. CASE Fails(c)
  BY <1>1, <1>3, QuestionEnds DEF Fails
<1>4. CASE /\ ~NoneActive /\ ~TwoActive
           /\ GoOn(c, [req[c] EXCEPT !.at = "loop", !.window = Window, !.log = TimelinePrompt(req[c].size)])
           /\ UNCHANGED call
  <2>1. Window \in Nat
    BY <1>4, WindowType
  <2>2. IsLog(TimelinePrompt(req[c].size))
    BY <1>2, TimelinePromptIsLog
  <2>3. QuestionOk([req[c] EXCEPT !.at = "loop", !.window = Window, !.log = TimelinePrompt(req[c].size)])
    BY <1>2, <2>1, <2>2, QuestionInLoop
  <2> QED
    BY <1>1, <1>4, <2>3, QuestionGoesOn
<1> QED
  BY <1>3, <1>4 DEF StartTimeline

LEMMA AskForToolsGoes ==
  ASSUME AllFit, NEW c \in Clients, AskForTools(c)
  PROVE  QuestionGoes(c)
<1>1. req[c].kind = "question" /\ req[c].at = "loop" /\ call[c] = NoCall
  BY DEF AskForTools, At, Doing
<1>2. QuestionOk(req[c]) /\ req[c].window \in Nat /\ req[c].turn \in Nat
  BY <1>1, AQuestion, QuestionFields
<1>3. IsLog(req[c].log)
  BY <1>1, <1>2 DEF QuestionOk
<1>4. CASE End(c) /\ UNCHANGED call
  BY <1>1, <1>4, QuestionEnds
<1>5. CASE CallLlm(c, [req[c] EXCEPT !.at = "tooled", !.turn = @ + 1], req[c].log, req[c].window, TRUE)
  <2>1. req[c].turn + 1 \in Nat
    BY <1>2
  <2>2. QuestionOk([req[c] EXCEPT !.at = "tooled", !.turn = req[c].turn + 1])
    BY <1>2, <1>3, <2>1, QuestionInLoop
  <2>3. CallLlm(c, [req[c] EXCEPT !.at = "tooled", !.turn = req[c].turn + 1], req[c].log, req[c].window, TRUE)
    BY <1>5
  <2> QED
    BY <1>2, <1>3, <2>2, <2>3, QuestionCallsLlm
<1> QED
  BY <1>4, <1>5 DEF AskForTools

LEMMA UseToolsGoes ==
  ASSUME AllFit, NEW c \in Clients, NEW sizes \in ToolResults, UseTools(c, sizes)
  PROVE  QuestionGoes(c)
<1>1. req[c].kind = "question" /\ req[c].at = "tooled"
  BY DEF UseTools, Told, Doing
<1>2. QuestionOk(req[c])
  BY <1>1, AQuestion
<1>3. IsLog(req[c].log)
  BY <1>1, <1>2 DEF QuestionOk
<1>4. PICK log : log = Adds(req[c].log, ToolMessages(sizes))
  OBVIOUS
<1>5. IsLog(log)
  <2>1. sizes \in Seq(Nat)
    BY QuestionsAssumption
  <2>2. ToolMessages(sizes) \in Parts
    BY <2>1, ToolMessagesType
  <2> QED
    BY <1>3, <1>4, <2>2, AddsKeepsLog
<1>6. QuestionOk([req[c] EXCEPT !.at = "loop", !.log = log])
  <2>1. 0 \in Nat
    OBVIOUS
  <2> QED
    BY <1>2, <1>5, <2>1, QuestionInLoop
<1>7. Proceeds(c, [req[c] EXCEPT !.at = "loop", !.log = log])
  BY <1>4 DEF UseTools
<1> QED
  BY <1>6, <1>7, QuestionProceeds

\* The steps that only end a question.
LEMMA QuestionEndsHere ==
  ASSUME AllFit, NEW c \in Clients,
         TakeAnswer(c) \/ RetrievalFails(c) \/ AnswerGeneral(c) \/ InsertEvents(c) \/ EndLoop(c)
  PROVE  QuestionGoes(c)
<1>1. CASE TakeAnswer(c) \/ RetrievalFails(c) \/ EndLoop(c)
  BY <1>1, QuestionFinishes DEF TakeAnswer, RetrievalFails, EndLoop
<1>2. CASE AnswerGeneral(c) \/ InsertEvents(c)
  BY <1>2, QuestionEnds DEF AnswerGeneral, InsertEvents, At, Fails
<1> QED
  BY <1>1, <1>2

LEMMA QuestionProgressGoes ==
  ASSUME AllFit, NEW c \in Clients, QuestionProgress(c)
  PROVE  QuestionGoes(c)
<1>1. CASE \E usable \in BOOLEAN : CheckStatus(c, usable)
  BY <1>1, CheckStatusGoes
<1>2. CASE ExpandIntoQueries(c) \/ (\E n \in 0..1 : EmbedQueries(c, n)) \/ RankTexts(c) \/ AskForAnswer(c)
  BY <1>2, ExpandIntoQueriesGoes, EmbedQueriesGoes, RankTextsGoes, AskForAnswerGoes
<1>3. CASE TakeAnswer(c) \/ RetrievalFails(c) \/ AnswerGeneral(c) \/ InsertEvents(c) \/ EndLoop(c)
  BY <1>3, QuestionEndsHere
<1>4. CASE \E texts \in Corpora : \E gone \in {{}, {t.id : t \in texts}} : RetrieveTexts(c, texts, gone)
  BY <1>4, RetrieveTextsGoes
<1>5. CASE \E b \in BOOLEAN : FetchHistory(c, b) \/ ExpandQuery(c, b) \/ ExtractEvents(c, b) \/ TakeEvents(c, b)
  BY <1>5, FetchHistoryGoes, ExpandQueryGoes, ExtractEventsGoes, TakeEventsGoes
<1>6. CASE (\E size \in QuestionSizes : TakeExpansion(c, size)) \/ ClassifyIntent(c) \/ (\E intent \in Intents : RouteIntent(c, intent))
  BY <1>6, TakeExpansionGoes, ClassifyIntentGoes, RouteIntentGoes
<1>7. CASE StartTimeline(c) \/ AskForTools(c) \/ (\E sizes \in ToolResults : UseTools(c, sizes))
  BY <1>7, StartTimelineGoes, AskForToolsGoes, UseToolsGoes
<1> QED
  BY <1>1, <1>2, <1>3, <1>4, <1>5, <1>6, <1>7, Zenon DEF QuestionProgress

-----------------------------------------------------------------------------
(* The steps of an agent.                                                  *)

AgentPlaces == {"playbook", "strategy", "plan", "planned", "analysed", "compact", "summarised", "final"}

LEMMA AgentFields ==
  ASSUME NEW r, AgentOk(r)
  PROVE  /\ r \in AgentRequest /\ r.window \in Nat /\ r.turn \in Nat /\ r.guided \in BOOLEAN
         /\ IsLog(r.log) /\ r.log \in Seq(Messages) /\ r.log[2].size \in Nat
         /\ DOMAIN r = {"kind", "at", "window", "turn", "guided", "log"}
<1>1. /\ r \in AgentRequest /\ r.window \in Nat /\ r.turn \in Nat /\ r.guided \in BOOLEAN
      /\ IsLog(r.log) /\ DOMAIN r = {"kind", "at", "window", "turn", "guided", "log"}
  BY DEF AgentOk, AgentRequest
<1>2. PICK log : log = r.log
  OBVIOUS
<1>3. log \in Seq(Messages) /\ 2 \in 1..Len(log)
  BY <1>1, <1>2, LenProperties DEF IsLog
<1>4. log[2] \in Messages
  BY <1>3, ElementOfSeq
<1>5. log[2].size \in Nat
  BY <1>4 DEF Messages
<1> QED
  BY <1>1, <1>2, <1>3, <1>5

\* An agent's request with other values in some of its fields.
LEMMA OtherAgent ==
  ASSUME NEW r, AgentOk(r), NEW at \in AgentPlaces \ {"planned"}, NEW n \in Nat, NEW guided \in BOOLEAN, NEW log, IsLog(log)
  PROVE  /\ AgentOk([r EXCEPT !.at = at])
         /\ AgentOk([r EXCEPT !.at = at, !.turn = n])
         /\ AgentOk([r EXCEPT !.at = at, !.log = log])
         /\ Len(log) >= 3 => AgentOk([r EXCEPT !.at = "planned", !.guided = guided, !.log = log])
<1>1. PICK M, P : M = Seq(Messages) /\ P = AgentPlaces
  OBVIOUS
<1>2. AgentRequest = [kind: {"agent"}, at: P, window: Nat, turn: Nat, guided: BOOLEAN, log: M]
  BY <1>1, Zenon DEF AgentRequest, AgentPlaces
<1>3. /\ r \in AgentRequest /\ at \in P /\ at # "planned" /\ "planned" \in P /\ log \in M /\ IsLog(r.log)
      /\ DOMAIN r = {"kind", "at", "window", "turn", "guided", "log"}
  BY <1>1, AgentFields DEF AgentPlaces, IsLog
<1>4. \A s \in AgentRequest : IsLog(s.log) /\ (s.at # "planned" \/ Len(s.log) >= 3) => AgentOk(s)
  BY DEF AgentOk
<1> HIDE DEF AgentRequest
<1>5. PICK a : a = [r EXCEPT !.at = at]
  OBVIOUS
<1>6. PICK b : b = [r EXCEPT !.at = at, !.turn = n]
  OBVIOUS
<1>7. PICK d : d = [r EXCEPT !.at = at, !.log = log]
  OBVIOUS
<1>8. PICK e : e = [r EXCEPT !.at = "planned", !.guided = guided, !.log = log]
  OBVIOUS
<1>9. a \in AgentRequest /\ a.at = at /\ a.log = r.log
  BY <1>2, <1>3, <1>5
<1>10. b \in AgentRequest /\ b.at = at /\ b.log = r.log
  BY <1>2, <1>3, <1>6
<1>11. d \in AgentRequest /\ d.at = at /\ d.log = log
  BY <1>2, <1>3, <1>7
<1>12. e \in AgentRequest /\ e.log = log
  BY <1>2, <1>3, <1>8
<1>13. AgentOk(a)
  BY <1>3, <1>4, <1>9
<1>14. AgentOk(b)
  BY <1>3, <1>4, <1>10
<1>15. AgentOk(d)
  BY <1>3, <1>4, <1>11
<1>16. Len(log) >= 3 => AgentOk(e)
  BY <1>4, <1>12
<1> QED
  BY <1>5, <1>6, <1>7, <1>8, <1>13, <1>14, <1>15, <1>16

LEMMA AnAgent ==
  ASSUME AllFit, NEW c \in Clients, req[c].kind = "agent"
  PROVE  AgentOk(req[c]) /\ CallOk(call[c])
  BY KindsOfRequests DEF AllFit

LEMMA AgentFinishes ==
  ASSUME NEW c \in Clients, Finishes(c)
  PROVE  AgentGoes(c)
  BY ProceedsOne DEF Finishes, AgentGoes

LEMMA AgentProceeds ==
  ASSUME NEW c \in Clients, NEW r, AgentOk(r), Proceeds(c, r)
  PROVE  AgentGoes(c)
  BY ProceedsOne, NoCallIsOk DEF AgentGoes

LEMMA AgentGoesOn ==
  ASSUME AllFit, NEW c \in Clients, NEW r, AgentOk(r), GoOn(c, r), UNCHANGED call, call[c] = NoCall
  PROVE  AgentGoes(c)
  BY GoesOnOne, NoCallIsOk DEF AgentGoes

LEMMA AgentCallsLlm ==
  ASSUME NEW c \in Clients, NEW r, AgentOk(r), NEW ms \in Seq(Messages), IsPrompt(ms), NEW window \in Nat,
         NEW tools \in BOOLEAN, CallLlm(c, r, ms, window, tools)
  PROVE  AgentGoes(c)
  BY CallsOne DEF AgentGoes, CallLlm

LEMMA AgentSendsLog ==
  ASSUME NEW c \in Clients, NEW r, AgentOk(r), NEW ms, IsLog(ms), NEW window \in Nat, NEW tools \in BOOLEAN,
         CallLlm(c, r, ms, window, tools)
  PROVE  AgentGoes(c)
<1>1. ms \in Seq(Messages) /\ IsPrompt(ms)
  BY LogsArePrompts DEF IsLog
<1> QED
  BY <1>1, AgentCallsLlm

LEMMA PlaybookPrompt ==
  ASSUME NEW c, AgentOk(req[c])
  PROVE  PlaybookMessages(c) \in Seq(Messages) /\ IsPrompt(PlaybookMessages(c))
<1>1. PlaybookSize + req[c].log[2].size \in Nat
  BY AgentFields DEF PlaybookSize
<1> QED
  BY <1>1, UserPrompt DEF PlaybookMessages

LEMMA AskedForMore ==
  ASSUME NEW log, IsLog(log), NEW role \in Roles, NEW size \in Nat
  PROVE  IsLog(Adds(log, <<<<role, size>>>>)) /\ Len(Adds(log, <<<<role, size>>>>)) >= 3
<1>1. <<<<role, size>>>> \in Parts /\ Len(<<<<role, size>>>>) = 1
  BY OnePart
<1>2. Len(log) \in Nat /\ Len(log) >= 2
  BY LenProperties DEF IsLog
<1>3. IsLog(Adds(log, <<<<role, size>>>>)) /\ Len(Adds(log, <<<<role, size>>>>)) = Len(log) + Len(<<<<role, size>>>>)
  BY <1>1, AddsKeepsLog
<1> QED
  BY <1>1, <1>2, <1>3

LEMMA ChoosePlaybookGoes ==
  ASSUME AllFit, NEW c \in Clients, ChoosePlaybook(c)
  PROVE  AgentGoes(c)
<1>1. AgentOk(req[c]) /\ req[c].window \in Nat
  BY AnAgent, AgentFields DEF ChoosePlaybook, At, Doing
<1>2. "strategy" \in AgentPlaces \ {"planned"} /\ 0 \in Nat /\ TRUE \in BOOLEAN /\ IsLog(req[c].log)
  BY <1>1, AgentFields DEF AgentPlaces
<1>3. AgentOk([req[c] EXCEPT !.at = "strategy"])
  BY <1>1, <1>2, OtherAgent
<1> QED
  BY <1>1, <1>3, PlaybookPrompt, AgentCallsLlm DEF ChoosePlaybook

LEMMA NextTurnGoes ==
  ASSUME AllFit, NEW c \in Clients, NextTurn(c)
  PROVE  AgentGoes(c)
<1>1. req[c].kind = "agent"
  BY DEF NextTurn, At, Told, Doing
<1>2. AgentOk(req[c]) /\ req[c].window \in Nat /\ req[c].turn + 1 \in Nat /\ IsLog(req[c].log)
  BY <1>1, AnAgent, AgentFields
<1>3. {"plan", "final"} \subseteq AgentPlaces \ {"planned"} /\ TRUE \in BOOLEAN /\ 0 \in Nat
  BY DEF AgentPlaces
<1>4. CASE CallLlm(c, [req[c] EXCEPT !.at = "plan", !.turn = @ + 1], PlaybookMessages(c), req[c].window, FALSE)
  <2>1. AgentOk([req[c] EXCEPT !.at = "plan", !.turn = req[c].turn + 1])
    BY <1>2, <1>3, OtherAgent
  <2>2. CallLlm(c, [req[c] EXCEPT !.at = "plan", !.turn = req[c].turn + 1], PlaybookMessages(c), req[c].window, FALSE)
    BY <1>4
  <2> QED
    BY <1>2, <2>1, <2>2, PlaybookPrompt, AgentCallsLlm
<1>5. CASE \E log : /\ log = Adds(req[c].log, <<<<"user", 1>>>>)
                    /\ CallLlm(c, [req[c] EXCEPT !.at = "final", !.log = log], log, req[c].window, FALSE)
  <2>1. PICK log : /\ log = Adds(req[c].log, <<<<"user", 1>>>>)
                   /\ CallLlm(c, [req[c] EXCEPT !.at = "final", !.log = log], log, req[c].window, FALSE)
    BY <1>5
  <2>2. IsLog(log)
    BY <1>2, <2>1, AskedForMore DEF Roles
  <2>3. AgentOk([req[c] EXCEPT !.at = "final", !.log = log])
    BY <1>2, <1>3, <2>2, OtherAgent
  <2> QED
    BY <1>2, <2>1, <2>2, <2>3, AgentSendsLog
<1> QED
  BY <1>4, <1>5 DEF NextTurn

LEMMA PlanToolsGoes ==
  ASSUME AllFit, NEW c \in Clients, NEW guided \in BOOLEAN, PlanTools(c, guided)
  PROVE  AgentGoes(c)
<1>1. req[c].kind = "agent"
  BY DEF PlanTools, Told, Doing
<1>2. AgentOk(req[c]) /\ req[c].window \in Nat /\ IsLog(req[c].log)
  BY <1>1, AnAgent, AgentFields
<1>3. PICK size \in Nat : size = IF guided THEN PlaybookSize ELSE StrategySize
  BY DEF PlaybookSize, StrategySize
<1>4. PICK log : log = Adds(req[c].log, <<<<"system", size>>>>)
  OBVIOUS
<1>5. IsLog(log) /\ Len(log) >= 3
  BY <1>2, <1>4, AskedForMore DEF Roles
<1>6. "plan" \in AgentPlaces \ {"planned"} /\ 0 \in Nat
  BY DEF AgentPlaces
<1>7. AgentOk([req[c] EXCEPT !.at = "planned", !.guided = guided, !.log = log])
  BY <1>2, <1>5, <1>6, OtherAgent
<1>8. CallLlm(c, [req[c] EXCEPT !.at = "planned", !.guided = guided, !.log = log], log, req[c].window, TRUE)
  BY <1>3, <1>4 DEF PlanTools
<1> QED
  BY <1>2, <1>5, <1>7, <1>8, AgentSendsLog

\* What remains of the log when the tools have been chosen.
LEMMA BeforeTheTools ==
  ASSUME NEW r, AgentOk(r), r.at = "planned"
  PROVE  IsLog(IF r.guided THEN r.log ELSE Front(r.log))
<1>1. IsLog(r.log) /\ (~r.guided => Len(r.log) >= 3) /\ r.guided \in BOOLEAN
  BY AgentFields DEF AgentOk
<1> QED
  BY <1>1, FrontKeepsLog

LEMMA AnalyseResultsGoes ==
  ASSUME AllFit, NEW c \in Clients, NEW sizes \in ToolResults, AnalyseResults(c, sizes)
  PROVE  AgentGoes(c)
<1>1. req[c].kind = "agent" /\ req[c].at = "planned"
  BY DEF AnalyseResults, Told, Doing
<1>2. AgentOk(req[c]) /\ req[c].window \in Nat
  BY <1>1, AnAgent, AgentFields
<1>3. PICK before : before = IF req[c].guided THEN req[c].log ELSE Front(req[c].log)
  OBVIOUS
<1>4. IsLog(before)
  BY <1>1, <1>2, <1>3, BeforeTheTools
<1>5. PICK a, log : /\ log = Adds(before, (IF a = "tools" THEN ToolMessages(sizes) ELSE <<>>) \o <<<<"system", 1>>>>)
                    /\ CallLlm(c, [req[c] EXCEPT !.at = "analysed", !.log = log], log, req[c].window, TRUE)
  BY <1>3 DEF AnalyseResults
<1>6. IsLog(log)
  <2>1. PICK used : used = IF a = "tools" THEN ToolMessages(sizes) ELSE <<>>
    OBVIOUS
  <2>2. ToolMessages(sizes) \in Parts /\ <<>> \in Parts /\ <<<<"system", 1>>>> \in Parts
    BY QuestionsAssumption, ToolMessagesType, OnePart DEF Parts, Roles
  <2>3. used \in Parts
    BY <2>1, <2>2
  <2>4. used \o <<<<"system", 1>>>> \in Parts
    BY <2>2, <2>3, BothParts
  <2> QED
    BY <1>4, <1>5, <2>1, <2>4, AddsKeepsLog
<1>7. "analysed" \in AgentPlaces \ {"planned"} /\ 0 \in Nat /\ TRUE \in BOOLEAN
  BY DEF AgentPlaces
<1>8. AgentOk([req[c] EXCEPT !.at = "analysed", !.log = log])
  BY <1>2, <1>6, <1>7, OtherAgent
<1> QED
  BY <1>2, <1>5, <1>6, <1>8, AgentSendsLog

LEMMA CompleteInvestigationGoes ==
  ASSUME AllFit, NEW c \in Clients, NEW sizes \in ToolResults, NEW summarised \in BOOLEAN,
         CompleteInvestigation(c, sizes, summarised)
  PROVE  AgentGoes(c)
<1>1. req[c].kind = "agent" /\ req[c].at = "planned"
  BY DEF CompleteInvestigation, Told, Doing
<1>2. AgentOk(req[c]) /\ req[c].window \in Nat
  BY <1>1, AnAgent, AgentFields
<1>3. PICK before : before = IF req[c].guided THEN req[c].log ELSE Front(req[c].log)
  OBVIOUS
<1>4. IsLog(before)
  BY <1>1, <1>2, <1>3, BeforeTheTools
<1>5. PICK log : log = Adds(before, ToolMessages(sizes) \o <<<<"user", 1>>>>)
  OBVIOUS
<1>6. IsLog(log)
  <2>1. ToolMessages(sizes) \in Parts /\ <<<<"user", 1>>>> \in Parts
    BY QuestionsAssumption, ToolMessagesType, OnePart DEF Roles
  <2>2. ToolMessages(sizes) \o <<<<"user", 1>>>> \in Parts
    BY <2>1, BothParts
  <2> QED
    BY <1>4, <1>5, <2>2, AddsKeepsLog
<1>7. "final" \in AgentPlaces \ {"planned"} /\ 0 \in Nat /\ TRUE \in BOOLEAN
  BY DEF AgentPlaces
<1>8. AgentOk([req[c] EXCEPT !.at = "final", !.log = log])
  BY <1>2, <1>6, <1>7, OtherAgent
<1>9. CASE Finishes(c)
  BY <1>9, AgentFinishes
<1>10. CASE CallLlm(c, [req[c] EXCEPT !.at = "final", !.log = log], log, req[c].window, FALSE)
  BY <1>2, <1>6, <1>8, <1>10, AgentSendsLog
<1> QED
  BY <1>3, <1>5, <1>9, <1>10 DEF CompleteInvestigation

LEMMA TakeAnalysisGoes ==
  ASSUME AllFit, NEW c \in Clients, TakeAnalysis(c)
  PROVE  AgentGoes(c)
<1>1. req[c].kind = "agent"
  BY DEF TakeAnalysis, Told, Doing
<1>2. AgentOk(req[c]) /\ IsLog(req[c].log)
  BY <1>1, AnAgent, AgentFields
<1>3. PICK a, log : /\ log = IF a = "text" THEN Adds(req[c].log, <<<<"assistant", 1>>>>) ELSE req[c].log
                    /\ Proceeds(c, [req[c] EXCEPT !.at = "compact", !.log = log])
  BY DEF TakeAnalysis
<1>4. IsLog(log)
  <2>1. IsLog(Adds(req[c].log, <<<<"assistant", 1>>>>))
    BY <1>2, AskedForMore DEF Roles
  <2> QED
    BY <1>2, <1>3, <2>1
<1>5. "compact" \in AgentPlaces \ {"planned"} /\ 0 \in Nat /\ TRUE \in BOOLEAN
  BY DEF AgentPlaces
<1>6. AgentOk([req[c] EXCEPT !.at = "compact", !.log = log])
  BY <1>2, <1>4, <1>5, OtherAgent
<1> QED
  BY <1>3, <1>6, AgentProceeds

\* The log after a compaction, and the request with it.
LEMMA CompactedRequest ==
  ASSUME AllFit, NEW c \in Clients, req[c].kind = "agent", NEW summary \in Nat, CompactLog(c, summary)
  PROVE  \E r : AgentOk(r) /\ GoOn(c, r)
<1>1. AgentOk(req[c]) /\ IsLog(req[c].log)
  BY AnAgent, AgentFields
<1>2. PICK log : log = MaybeCompact(req[c].log, req[c].window, summary)
  OBVIOUS
<1>3. IsLog(log)
  BY <1>1, <1>2, CompactionKeepsLog
<1>4. "strategy" \in AgentPlaces \ {"planned"} /\ 0 \in Nat /\ TRUE \in BOOLEAN
  BY DEF AgentPlaces
<1>5. AgentOk([req[c] EXCEPT !.at = "strategy", !.log = log])
  BY <1>1, <1>3, <1>4, OtherAgent
<1>6. GoOn(c, [req[c] EXCEPT !.at = "strategy", !.log = log])
  BY <1>2 DEF CompactLog
<1> QED
  BY <1>5, <1>6

LEMMA SizesOfSummaries == SummarySize \in Nat /\ FallbackSize \in Nat
  BY UnitsType DEF SummarySize, FallbackSize

LEMMA LoadSummaryGoes ==
  ASSUME AllFit, NEW c \in Clients, LoadSummary(c)
  PROVE  AgentGoes(c)
<1>1. req[c].kind = "agent" /\ call[c] = NoCall /\ CompactLog(c, SummarySize) /\ UNCHANGED call
  BY DEF LoadSummary, At, Doing
<1>2. PICK r : AgentOk(r) /\ GoOn(c, r)
  BY <1>1, SizesOfSummaries, CompactedRequest
<1> QED
  BY <1>1, <1>2, AgentGoesOn

LEMMA CompactOrSummariseGoes ==
  ASSUME AllFit, NEW c \in Clients, CompactOrSummarise(c)
  PROVE  AgentGoes(c)
<1>1. req[c].kind = "agent" /\ call[c] = NoCall
  BY DEF CompactOrSummarise, At, Doing
<1>2. AgentOk(req[c]) /\ IsLog(req[c].log) /\ req[c].window \in Nat
  BY <1>1, AnAgent, AgentFields
<1>3. CASE CompactLog(c, SummarySize) /\ UNCHANGED call
  <2>1. PICK r : AgentOk(r) /\ GoOn(c, r)
    BY <1>1, <1>3, SizesOfSummaries, CompactedRequest
  <2> QED
    BY <1>1, <1>3, <2>1, AgentGoesOn
<1>4. CASE /\ Len(req[c].log) > 7
           /\ CallLlm(c, [req[c] EXCEPT !.at = "summarised"], SummaryPrompt(SubSeq(req[c].log, 3, Len(req[c].log) - 5)), req[c].window, FALSE)
  <2>1. PICK older : older = SubSeq(req[c].log, 3, Len(req[c].log) - 5)
    OBVIOUS
  <2>2. older \in Seq(Messages)
    <3>1. req[c].log \in Seq(Messages) /\ 3 \in Nat \ {0}
      BY <1>2 DEF IsLog
    <3>2. PICK k \in Nat : k = Len(req[c].log) /\ k > 7
      BY <1>4, <3>1, LenProperties
    <3>3. k - 5 \in Nat /\ k - 5 <= k
      BY <3>2
    <3>4. SubSeq(req[c].log, 3, k - 5) \in Seq(Messages)
      BY <3>1, <3>2, <3>3, PartOf
    <3> QED
      BY <2>1, <3>2, <3>3, <3>4
  <2>3. IsLog(SummaryPrompt(older))
    BY <2>2, SummaryPromptIsLog
  <2>4. "summarised" \in AgentPlaces \ {"planned"} /\ 0 \in Nat /\ TRUE \in BOOLEAN
    BY DEF AgentPlaces
  <2>5. AgentOk([req[c] EXCEPT !.at = "summarised"])
    BY <1>2, <2>4, OtherAgent
  <2> QED
    BY <1>2, <1>4, <2>1, <2>3, <2>5, AgentSendsLog
<1> QED
  BY <1>3, <1>4 DEF CompactOrSummarise

LEMMA TakeSummaryGoes ==
  ASSUME AllFit, NEW c \in Clients, TakeSummary(c)
  PROVE  AgentGoes(c)
<1>1. req[c].kind = "agent" /\ call' = [call EXCEPT ![c] = NoCall]
  BY DEF TakeSummary, Told, Doing
<1>2. PICK a \in Answers : CompactLog(c, IF a = "text" THEN SummarySize ELSE FallbackSize)
  BY DEF TakeSummary
<1>3. PICK r : AgentOk(r) /\ GoOn(c, r)
  <2>1. (IF a = "text" THEN SummarySize ELSE FallbackSize) \in Nat
    BY SizesOfSummaries
  <2> QED
    BY <1>1, <1>2, <2>1, CompactedRequest
<1>4. Proceeds(c, r)
  BY <1>1, <1>3 DEF Proceeds
<1> QED
  BY <1>3, <1>4, AgentProceeds

LEMMA AgentProgressGoes ==
  ASSUME AllFit, NEW c \in Clients, AgentProgress(c)
  PROVE  AgentGoes(c)
<1>1. CASE ChoosePlaybook(c) \/ NextTurn(c) \/ (\E guided \in BOOLEAN : PlanTools(c, guided))
  BY <1>1, ChoosePlaybookGoes, NextTurnGoes, PlanToolsGoes
<1>2. CASE \E sizes \in ToolResults : AnalyseResults(c, sizes) \/ \E b \in BOOLEAN : CompleteInvestigation(c, sizes, b)
  BY <1>2, AnalyseResultsGoes, CompleteInvestigationGoes
<1>3. CASE PlanIsRefused(c) \/ AnalysisCompletes(c) \/ EndRun(c)
  BY <1>3, AgentFinishes DEF PlanIsRefused, AnalysisCompletes, EndRun
<1>4. CASE TakeAnalysis(c) \/ LoadSummary(c) \/ CompactOrSummarise(c) \/ TakeSummary(c)
  BY <1>4, TakeAnalysisGoes, LoadSummaryGoes, CompactOrSummariseGoes, TakeSummaryGoes
<1> QED
  BY <1>1, <1>2, <1>3, <1>4, Zenon DEF AgentProgress

-----------------------------------------------------------------------------
(* The steps of reports, choices, configurations and calls.                *)

LEMMA BeginFits ==
  ASSUME AllFit, NEW c \in Clients, NEW r, Begin(c, r), UNCHANGED call, Fitting(r, NoCall, clock + 1)
  PROVE  AllFit'
<1>1. req[c] = NoRequest /\ clock + 1 \in Nat /\ clock <= clock + 1 /\ clock' = clock + 1
  BY FreeAsks DEF Begin, AllFit
<1>2. call[c] = NoCall
  BY <1>1, KindsOfRequests, NoRequestIsOne DEF AllFit
<1>3. req' = [req EXCEPT ![c] = r]
  BY DEF Begin
<1>4. ASSUME NEW d \in Clients \ {c} PROVE Fitting(req'[d], call'[d], clock')
  <2>1. req'[d] = req[d] /\ call'[d] = call[d] /\ clock \in Nat /\ Fitting(req[d], call[d], clock)
    BY <1>3 DEF AllFit
  <2> QED
    BY <1>1, <2>1, FitsLater
<1>5. Fitting(req'[c], call'[c], clock')
  BY <1>1, <1>2, <1>3 DEF AllFit
<1> QED
  BY <1>1, <1>3, <1>4, <1>5 DEF AllFit

LEMMA QuestionFits ==
  ASSUME AllFit, NEW c \in Clients, QuestionGoes(c)
  PROVE  AllFit'
  BY StepsFit DEF QuestionGoes, Fitting

LEMMA AgentFits ==
  ASSUME AllFit, NEW c \in Clients, AgentGoes(c)
  PROVE  AllFit'
  BY StepsFit DEF AgentGoes, Fitting

LEMMA AskQuestionFits ==
  ASSUME AllFit, NEW c \in Clients, NEW mode \in Modes, NEW size \in QuestionSizes, NEW history \in Histories,
         AskQuestion(c, mode, size, history)
  PROVE  AllFit'
<1>1. PICK at : at = CASE mode = "augmented" -> "status" [] mode = "auto" -> "history" [] OTHER -> "timeline"
  OBVIOUS
<1>2. PICK r : r = [kind |-> "question", mode |-> mode, size |-> size, history |-> history, window |-> 0,
                    at |-> at, queries |-> 0, texts |-> {}, chunks |-> <<>>, log |-> <<>>, turn |-> 0]
  OBVIOUS
<1>3. at \in {"status", "history", "timeline"}
  BY <1>1
<1>4. size \in Nat /\ <<>> \in Seq(Messages) /\ <<>> \in Seq(UNION Corpora)
  BY QuestionsAssumption
<1>5. r \in QuestionRequest /\ r.queries <= 2 /\ r.at \notin {"loop", "tooled"}
  BY <1>2, <1>3, <1>4 DEF QuestionRequest
<1>6. Fitting(r, NoCall, clock + 1)
  BY <1>5, NoCallIsOk DEF Fitting, QuestionOk
<1>7. Begin(c, r) /\ UNCHANGED call
  BY <1>1, <1>2 DEF AskQuestion
<1> QED
  BY <1>6, <1>7, BeginFits

LEMMA StartAgentFits ==
  ASSUME AllFit, NEW c \in Clients, NEW size \in QuestionSizes, NEW failing \in FirstFailing, StartAgent(c, size, failing)
  PROVE  AllFit'
<1>1. PICK log : log = <<Message("system", Instructions + InvestigationContext(ContextParts, failing), 0), Message("user", size, 1)>>
  OBVIOUS
<1>2. IsLog(log)
  <2>1. ContextParts \in Seq(Nat) /\ failing \in Nat \ {0} /\ size \in Nat
    BY FirstFailingAssumption, QuestionsAssumption DEF ContextParts
  <2>2. Instructions + InvestigationContext(ContextParts, failing) \in Nat
    BY <2>1, InvestigationContextType DEF Instructions
  <2> QED
    BY <1>1, <2>1, <2>2, TwoMessages
<1>3. ~NoneActive /\ ~TwoActive /\ UNCHANGED call
  BY DEF StartAgent
<1>4. Window \in Nat
  BY <1>3, WindowType
<1>5. PICK r : r = [kind |-> "agent", at |-> "playbook", window |-> Window, turn |-> 0, guided |-> FALSE, log |-> log]
  OBVIOUS
<1>6. log \in Seq(Messages)
  BY <1>2 DEF IsLog
<1>7. r \in AgentRequest /\ r.log = log /\ r.at = "playbook"
  BY <1>4, <1>5, <1>6 DEF AgentRequest
<1>8. Fitting(r, NoCall, clock + 1)
  BY <1>2, <1>7, NoCallIsOk DEF Fitting, AgentOk
<1>9. Begin(c, r)
  BY <1>1, <1>5 DEF StartAgent
<1> QED
  BY <1>3, <1>8, <1>9, BeginFits

\* A call is answered, or an attempt fails.
LEMMA CallStepFits ==
  ASSUME AllFit, NEW c \in Clients, CallStep(c)
  PROVE  AllFit'
<1>1. PICK x : x = call[c]
  OBVIOUS
<1>2. CallOk(x) /\ x.state = "sent"
  BY <1>1, KindsOfRequests, NoCallIsOk DEF AllFit, CallStep, Answer, AttemptFails, Sent, Fitting
<1>3. x \in SentCalls /\ (x.enforced => IsPrompt(x.full)) /\ x # NoCall
  BY <1>2 DEF CallOk, NoCall, Answered, Answers
<1>4. ReportOk(req[c], clock) \/ QuestionOk(req[c]) \/ AgentOk(req[c])
  BY <1>1, <1>3 DEF AllFit, Fitting
<1>5. UNCHANGED <<req, left, clock>>
  BY CallIsNone DEF requestVars
<1>6. ASSUME NEW y, CallOk(y), call' = [call EXCEPT ![c] = y] PROVE AllFit'
  <2>1. Fitting(req[c], y, clock)
    BY <1>4, <1>6 DEF Fitting
  <2> QED
    BY <1>5, <1>6, <2>1 DEF AllFit
<1>7. ASSUME NEW a \in Answers PROVE CallOk(Answered(a))
  BY DEF CallOk
<1>8. CASE \E a \in {"text", "empty", "tools"} : Answer(c, a)
  BY <1>6, <1>7, <1>8 DEF Answer, Answers
<1>9. ASSUME NEW refused \in BOOLEAN, AttemptFails(c, refused) PROVE AllFit'
  <2>1. CASE x.tries > 1
    <3>1. x.tries - 1 \in 1..Tries /\ x.tools \in BOOLEAN
      BY <1>3, <2>1, TriesAssumption DEF SentCalls
    <3>2. Retried(x, refused) \in SentCalls /\ Retried(x, refused).enforced = x.enforced /\ Retried(x, refused).full = x.full
      BY <1>3, <3>1 DEF SentCalls, Retried
    <3>3. CallOk(Retried(x, refused))
      BY <1>3, <3>2 DEF CallOk
    <3>4. call' = [call EXCEPT ![c] = Retried(x, refused)]
      BY <1>1, <1>9, <2>1 DEF AttemptFails
    <3> QED
      BY <1>6, <3>3, <3>4
  <2>2. CASE ~(x.tries > 1)
    <3>1. call' = [call EXCEPT ![c] = Answered(IF refused THEN "refused" ELSE "failed")]
      BY <1>1, <1>9, <2>2 DEF AttemptFails
    <3> QED
      BY <1>6, <1>7, <3>1 DEF Answers
  <2> QED
    BY <2>1, <2>2
<1> QED
  BY <1>8, <1>9 DEF CallStep

\* A choice's request, which calls nobody.
LEMMA ChoiceStepFits ==
  ASSUME AllFit, NEW c \in Clients, ChoiceStep(c), UNCHANGED call
  PROVE  AllFit'
<1>1. ASSUME NEW id \in Offered, SelectChoice(c, id) PROVE AllFit'
  <2>1. PICK r : r = [kind |-> "choice", at |-> "check", id |-> id, began |-> clock + 1]
    OBVIOUS
  <2>2. r \in ChoiceRequest /\ r.began \in 1..(clock + 1)
    BY <2>1 DEF AllFit, ChoiceRequest
  <2>3. Fitting(r, NoCall, clock + 1)
    BY <2>2 DEF Fitting, ChoiceOk
  <2>4. Begin(c, r)
    BY <1>1, <2>1 DEF SelectChoice
  <2> QED
    BY <2>3, <2>4, BeginFits
<1>2. ASSUME req[c].kind = "choice" PROVE ChoiceOk(req[c], clock) /\ call[c] = NoCall
  BY <1>2, KindsOfRequests DEF AllFit
<1>3. ASSUME req[c].kind = "choice", End(c) PROVE AllFit'
  <2>1. OneStep(c, NoRequest, NoCall)
    BY <1>2, <1>3, GoesOnOne DEF End
  <2> QED
    BY <2>1, StepsFit DEF Fitting
<1>4. ASSUME req[c].kind = "choice", NEW at \in {"enqueue", "mark"}, GoTo(c, at) PROVE AllFit'
  <2>1. PICK r : r = [req[c] EXCEPT !.at = at]
    OBVIOUS
  <2>2. req[c] \in ChoiceRequest /\ req[c].began \in 1..clock
    BY <1>2, <1>4 DEF ChoiceOk
  <2>3. r \in ChoiceRequest /\ r.began = req[c].began
    BY <2>1, <2>2 DEF ChoiceRequest
  <2>4. OneStep(c, r, NoCall)
    BY <1>2, <1>4, <2>1, GoesOnOne DEF GoTo
  <2> QED
    BY <2>2, <2>3, <2>4, StepsFit DEF Fitting, ChoiceOk
<1>5. ASSUME CheckChoice(c) PROVE AllFit'
  BY <1>3, <1>4, <1>5 DEF CheckChoice, Doing
<1>6. ASSUME EnqueueChoice(c) PROVE AllFit'
  BY <1>4, <1>6 DEF EnqueueChoice, Doing
<1>7. ASSUME MarkChoice(c) PROVE AllFit'
  BY <1>3, <1>7 DEF MarkChoice, Doing
<1>8. ASSUME SelectFails(c) PROVE AllFit'
  BY <1>3, <1>8 DEF SelectFails
<1> QED
  BY <1>1, <1>5, <1>6, <1>7, <1>8 DEF ChoiceStep, ChoiceProgress

\* The rows are what the requests take them for: one that is waited for has been there,
\* and by the time a row is written it is decided what it becomes.
RowsFit ==
  /\ configs \in [Configs -> {"none", "off", "on", "gone"}]
  /\ \A c \in Clients : req[c].kind = "config" =>
       /\ req[c].at = "wait" => configs[req[c].id] # "none"
       /\ req[c].at = "write" => req[c].row # "same"

ConfigFields == {"kind", "at", "id", "row", "todo", "mine", "lone"}

\* A configuration's request with other values in some of its fields.
LEMMA OtherConfig ==
  ASSUME NEW r \in ConfigRequest, NEW todo \in SUBSET Configs, NEW mine \in SUBSET Configs
  PROVE  /\ DOMAIN r = ConfigFields
         /\ [r EXCEPT !.lone = FALSE] \in ConfigRequest
         /\ [r EXCEPT !.todo = todo, !.mine = mine] \in ConfigRequest
<1>1. PICK S : S = SUBSET Configs
  OBVIOUS
<1>2. ConfigRequest = [kind: {"config"}, at: {"wait", "write"}, id: Configs, row: {"off", "on", "gone", "same"},
                       todo: S, mine: S, lone: BOOLEAN]
  BY <1>1 DEF ConfigRequest
<1>3. todo \in S /\ mine \in S
  BY <1>1
<1>4. DOMAIN r = ConfigFields
  BY <1>2 DEF ConfigFields
<1> HIDE DEF ConfigRequest
<1>5. [r EXCEPT !.lone = FALSE] \in ConfigRequest
  BY <1>2
<1>6. [r EXCEPT !.todo = todo, !.mine = mine] \in ConfigRequest
  BY <1>2, <1>3
<1> QED
  BY <1>4, <1>5, <1>6

LEMMA AConfig ==
  ASSUME AllFit, NEW c \in Clients, req[c].kind = "config"
  PROVE  req[c] \in ConfigRequest /\ call[c] = NoCall
  BY KindsOfRequests DEF AllFit

LEMMA WriteOfType ==
  ASSUME NEW id \in Configs, NEW row \in {"off", "on", "gone"}, NEW todo \in SUBSET Configs
  PROVE  WriteOf(id, row, todo) \in ConfigRequest
<1>1. {id} \in SUBSET Configs /\ (Writers = {}) \in BOOLEAN
  OBVIOUS
<1> QED
  BY <1>1 DEF WriteOf, ConfigRequest

LEMMA OverlappingFits ==
  ASSUME AllFit, RowsFit, NEW c \in Clients, NEW id \in Configs, NEW row \in {"off", "on", "gone"}, Writing(c, id, row),
         call[c] = NoCall, clock' \in {clock, clock + 1}, UNCHANGED <<call, configs>>
  PROVE  AllFit' /\ RowsFit'
<1>1. PICK r : r = WriteOf(id, row, IF row = "on" THEN Active \ {id} ELSE {})
  OBVIOUS
<1>2. r \in ConfigRequest /\ r.at = "write" /\ r.row = row
  <2>1. (IF row = "on" THEN Active \ {id} ELSE {}) \in SUBSET Configs
    BY DEF Active
  <2> QED
    BY <1>1, <2>1, WriteOfType DEF WriteOf
<1>3. req' = [d \in Clients |-> IF d = c THEN r ELSE IF d \in Writers THEN [req[d] EXCEPT !.lone = FALSE] ELSE req[d]]
  BY <1>1 DEF Writing, Overlapping
<1>4. clock' \in Nat /\ clock \in Nat /\ clock <= clock'
  BY DEF AllFit
<1>5. ASSUME NEW d \in Clients
      PROVE  /\ Fitting(req'[d], call'[d], clock')
             /\ req'[d].kind = "config" => /\ req'[d].at = "wait" => configs[req'[d].id] # "none"
                                           /\ req'[d].at = "write" => req'[d].row # "same"
  <2>1. CASE d = c
    <3>1. req'[d] = r /\ call'[d] = NoCall
      BY <1>3, <2>1
    <3> QED
      BY <1>2, <3>1 DEF Fitting
  <2>2. CASE d # c /\ d \in Writers
    <3>1. req'[d] = [req[d] EXCEPT !.lone = FALSE] /\ call'[d] = call[d]
      BY <1>3, <2>2
    <3>2. req[d].kind = "config"
      BY <2>2 DEF Writers, Of
    <3>3. req[d] \in ConfigRequest /\ call[d] = NoCall
      BY <3>2, AConfig
    <3>4. [req[d] EXCEPT !.lone = FALSE] \in ConfigRequest /\ DOMAIN req[d] = ConfigFields
      BY <3>3, OtherConfig
    <3>5. req'[d].at = req[d].at /\ req'[d].id = req[d].id /\ req'[d].row = req[d].row
      BY <3>1, <3>4 DEF ConfigFields
    <3> QED
      BY <3>1, <3>2, <3>3, <3>4, <3>5 DEF Fitting, RowsFit
  <2>3. CASE d # c /\ d \notin Writers
    <3>1. req'[d] = req[d] /\ call'[d] = call[d] /\ Fitting(req[d], call[d], clock)
      BY <1>3, <2>3 DEF AllFit
    <3> QED
      BY <1>4, <3>1, FitsLater DEF RowsFit
  <2> QED
    BY <2>1, <2>2, <2>3
<1>6. DOMAIN req' = Clients /\ call' = [d \in Clients |-> call'[d]]
  BY <1>3 DEF AllFit
<1> QED
  BY <1>4, <1>5, <1>6 DEF AllFit, RowsFit

\* One request goes on and the rows stay what they are, or are written as decided.
LEMMA OneKeepsRows ==
  ASSUME AllFit, RowsFit, NEW c \in Clients, NEW r, NEW x, OneStep(c, r, x),
         r # NoRequest => (r.at = "wait" => configs'[r.id] # "none") /\ (r.at = "write" => r.row # "same"),
         configs' \in [Configs -> {"none", "off", "on", "gone"}],
         \A i \in Configs : configs[i] # "none" => configs'[i] # "none"
  PROVE  RowsFit'
<1>1. req'[c] = r /\ \A d \in Clients \ {c} : req'[d] = req[d]
  BY DEF OneStep, AllFit
<1>2. ASSUME NEW d \in Clients \ {c}, req'[d].kind = "config"
      PROVE  /\ req'[d].at = "wait" => configs'[req'[d].id] # "none"
             /\ req'[d].at = "write" => req'[d].row # "same"
  <2>1. req[d] \in ConfigRequest /\ req'[d] = req[d]
    BY <1>1, <1>2, AConfig
  <2>2. req[d].id \in Configs
    BY <2>1 DEF ConfigRequest
  <2> QED
    BY <1>2, <2>1, <2>2 DEF RowsFit
<1>3. ASSUME req'[c].kind = "config"
      PROVE  /\ req'[c].at = "wait" => configs'[req'[c].id] # "none"
             /\ req'[c].at = "write" => req'[c].row # "same"
  BY <1>1, <1>3, NoRequestIsOne
<1> QED
  BY <1>2, <1>3 DEF RowsFit

LEMMA ConfigEndFits ==
  ASSUME AllFit, RowsFit, NEW c \in Clients, req[c].kind = "config", End(c), UNCHANGED call,
         configs' \in [Configs -> {"none", "off", "on", "gone"}],
         \A i \in Configs : configs[i] # "none" => configs'[i] # "none"
  PROVE  AllFit' /\ RowsFit'
<1>1. call[c] = NoCall
  BY AConfig
<1>2. OneStep(c, NoRequest, NoCall)
  BY <1>1, GoesOnOne DEF End
<1>3. AllFit'
  BY <1>2, StepsFit DEF Fitting
<1>4. PICK r : r = NoRequest
  OBVIOUS
<1>5. OneStep(c, r, NoCall) /\ (r # NoRequest => FALSE)
  BY <1>2, <1>4
<1>6. RowsFit'
  BY <1>5, OneKeepsRows
<1> QED
  BY <1>3, <1>6

LEMMA ConfigStepFits ==
  ASSUME AllFit, RowsFit, NEW c \in Clients, ConfigStep(c), UNCHANGED call
  PROVE  AllFit' /\ RowsFit'
<1>1. ASSUME NEW row \in {"off", "on"}, CreateConfig(c, row) PROVE AllFit' /\ RowsFit'
  <2>1. req[c] = NoRequest
    BY <1>1, FreeAsks DEF CreateConfig
  <2>2. call[c] = NoCall
    BY <2>1, KindsOfRequests, NoRequestIsOne DEF AllFit
  <2>3. PICK free : /\ free = {i \in Configs : configs[i] = "none" /\ ~Held(i)} /\ free # {}
                    /\ Writing(c, CHOOSE i \in free : TRUE, row)
    BY <1>1 DEF CreateConfig
  <2>4. (CHOOSE i \in free : TRUE) \in Configs
    BY <2>3
  <2>5. clock' \in {clock, clock + 1} /\ UNCHANGED configs
    BY <1>1 DEF CreateConfig
  <2> QED
    BY <2>2, <2>3, <2>4, <2>5, OverlappingFits
<1>2. ASSUME NEW i \in Configs, NEW row \in {"off", "on", "same", "gone"}, ReadConfig(c, i, row) PROVE AllFit' /\ RowsFit'
  <2>1. PICK r : r = [kind |-> "config", at |-> "wait", id |-> i, row |-> row, todo |-> {}, mine |-> {}, lone |-> FALSE]
    OBVIOUS
  <2>2. r \in ConfigRequest /\ r.at = "wait" /\ r.id = i
    BY <2>1 DEF ConfigRequest
  <2>3. Begin(c, r) /\ UNCHANGED configs /\ configs[i] # "none"
    BY <1>2, <2>1 DEF ReadConfig
  <2>4. AllFit'
    BY <2>2, <2>3, BeginFits DEF Fitting
  <2>5. req'[c] = r /\ \A d \in Clients \ {c} : req'[d] = req[d]
    BY <2>3 DEF Begin, AllFit
  <2> QED
    BY <2>2, <2>3, <2>4, <2>5 DEF RowsFit
<1>3. ASSUME WriteConfig(c) PROVE AllFit' /\ RowsFit'
  <2>1. req[c].kind = "config" /\ req[c].at = "wait" /\ UNCHANGED configs
    BY <1>3 DEF WriteConfig, Doing
  <2>2. req[c].id \in Configs /\ req[c].row \in {"off", "on", "gone", "same"} /\ call[c] = NoCall
    BY <2>1, AConfig DEF ConfigRequest
  <2>3. configs[req[c].id] \in {"off", "on", "gone"}
    BY <2>1, <2>2 DEF RowsFit
  <2>4. CASE configs[req[c].id] = "gone"
    BY <1>3, <2>1, <2>4, ConfigEndFits DEF WriteConfig, RowsFit
  <2>5. CASE configs[req[c].id] # "gone"
    <3>1. PICK row : row = IF req[c].row = "same" THEN configs[req[c].id] ELSE req[c].row
      OBVIOUS
    <3>2. row \in {"off", "on", "gone"}
      BY <2>2, <2>3, <3>1
    <3>3. Writing(c, req[c].id, row) /\ clock' = clock
      BY <1>3, <2>5, <3>1 DEF WriteConfig
    <3> QED
      BY <2>1, <2>2, <3>2, <3>3, OverlappingFits
  <2> QED
    BY <2>4, <2>5
<1>4. ASSUME NEW i \in Configs, DeactivateConfig(c, i) PROVE AllFit' /\ RowsFit'
  <2>1. req[c].kind = "config" /\ req[c].at = "write" /\ UNCHANGED configs
    BY <1>4 DEF DeactivateConfig, Doing
  <2>2. req[c] \in ConfigRequest /\ call[c] = NoCall
    BY <2>1, AConfig
  <2>3. PICK todo, mine : todo = req[c].todo \ {i} /\ mine = IF configs[i] = "on" THEN req[c].mine \cup {i} ELSE req[c].mine
    OBVIOUS
  <2>4. todo \in SUBSET Configs /\ mine \in SUBSET Configs
    BY <2>2, <2>3 DEF ConfigRequest
  <2>5. PICK r : r = [req[c] EXCEPT !.todo = todo, !.mine = mine]
    OBVIOUS
  <2>6. r \in ConfigRequest /\ DOMAIN req[c] = ConfigFields
    BY <2>2, <2>4, <2>5, OtherConfig
  <2>7. r.at = req[c].at /\ r.row = req[c].row
    BY <2>5, <2>6 DEF ConfigFields
  <2>8. OneStep(c, r, NoCall)
    <3>1. GoOn(c, r)
      BY <1>4, <2>3, <2>5 DEF DeactivateConfig
    <3> QED
      BY <2>2, <3>1, GoesOnOne
  <2>9. AllFit'
    BY <2>6, <2>8, StepsFit DEF Fitting
  <2>10. r.at = "write" /\ r.row # "same"
    BY <2>1, <2>7 DEF RowsFit
  <2> QED
    BY <2>1, <2>8, <2>9, <2>10, OneKeepsRows DEF RowsFit
<1>5. ASSUME CommitConfig(c) PROVE AllFit' /\ RowsFit'
  <2>1. /\ req[c].kind = "config" /\ req[c].at = "write" /\ End(c)
        /\ configs' = [i \in Configs |-> IF i = req[c].id THEN req[c].row
                                         ELSE IF i \in req[c].mine THEN "off" ELSE configs[i]]
    BY <1>5 DEF CommitConfig, Doing
  <2>2. req[c].row \in {"off", "on", "gone"}
    BY <2>1, AConfig DEF ConfigRequest, RowsFit
  <2>3. \A i \in Configs : configs[i] \in {"none", "off", "on", "gone"}
    BY DEF RowsFit
  <2>4. configs' \in [Configs -> {"none", "off", "on", "gone"}]
    BY <2>1, <2>2, <2>3
  <2>5. \A i \in Configs : configs[i] # "none" => configs'[i] # "none"
    BY <2>1, <2>2
  <2> QED
    BY <2>1, <2>4, <2>5, ConfigEndFits
<1>6. ASSUME ConfigFails(c) \/ DeadlockDetected(c) PROVE AllFit' /\ RowsFit'
  <2>1. req[c].kind = "config" /\ End(c) /\ UNCHANGED configs
    BY <1>6 DEF ConfigFails, DeadlockDetected, Writers, Of
  <2> QED
    BY <2>1, ConfigEndFits DEF RowsFit
<1> QED
  BY <1>1, <1>2, <1>3, <1>4, <1>5, <1>6 DEF ConfigStep, ConfigProgress, PatchConfig, DeleteConfig

ReportPlaces == {"config", "facts", "narrative", "delete", "rows", "store", "file"}

\* A report's request with other values in some of its fields.
LEMMA OtherReport ==
  ASSUME NEW r, NEW now, ReportOk(r, now), NEW at \in ReportPlaces, NEW llm \in BOOLEAN, NEW seen \in SUBSET Nat, NEW lone \in BOOLEAN
  PROVE  /\ ReportOk([r EXCEPT !.at = at], now)
         /\ ReportOk([r EXCEPT !.llm = llm, !.at = at], now)
         /\ ReportOk([r EXCEPT !.at = at, !.seen = seen, !.lone = lone], now)
         /\ ReportOk([r EXCEPT !.at = at, !.seen = seen], now)
         /\ ReportOk([r EXCEPT !.lone = lone], now)
<1>1. PICK S, P : S = SUBSET Nat /\ P = ReportPlaces
  OBVIOUS
<1>2. ReportRequest = [kind: {"report"}, at: P, began: Nat, download: BOOLEAN, llm: BOOLEAN, seen: S, lone: BOOLEAN]
  BY <1>1 DEF ReportRequest, ReportPlaces
<1>3. r \in ReportRequest /\ at \in P /\ seen \in S /\ r.began \in 1..now
  BY <1>1 DEF ReportOk
<1>4. DOMAIN r = {"kind", "at", "began", "download", "llm", "seen", "lone"}
  BY <1>2, <1>3
<1>5. \A s \in ReportRequest : s.began = r.began => ReportOk(s, now)
  BY <1>3 DEF ReportOk
<1> HIDE DEF ReportRequest
<1>6. [r EXCEPT !.at = at] \in ReportRequest /\ [r EXCEPT !.at = at].began = r.began
  BY <1>2, <1>3, <1>4
<1>7. [r EXCEPT !.llm = llm, !.at = at] \in ReportRequest /\ [r EXCEPT !.llm = llm, !.at = at].began = r.began
  BY <1>2, <1>3, <1>4
<1>8. /\ [r EXCEPT !.at = at, !.seen = seen, !.lone = lone] \in ReportRequest
      /\ [r EXCEPT !.at = at, !.seen = seen, !.lone = lone].began = r.began
  BY <1>2, <1>3, <1>4
<1>9. [r EXCEPT !.at = at, !.seen = seen] \in ReportRequest /\ [r EXCEPT !.at = at, !.seen = seen].began = r.began
  BY <1>2, <1>3, <1>4
<1>10. [r EXCEPT !.lone = lone] \in ReportRequest /\ [r EXCEPT !.lone = lone].began = r.began
  BY <1>2, <1>3, <1>4
<1> QED
  BY <1>5, <1>6, <1>7, <1>8, <1>9, <1>10

LEMMA AReport ==
  ASSUME AllFit, NEW c \in Clients, req[c].kind = "report"
  PROVE  ReportOk(req[c], clock) /\ CallOk(call[c])
  BY KindsOfRequests DEF AllFit

\* A report's request goes on as one, or ends.
LEMMA ReportGoes ==
  ASSUME AllFit, NEW c \in Clients, NEW r, NEW x, OneStep(c, r, x), ReportOk(r, clock), CallOk(x)
  PROVE  AllFit'
  BY StepsFit DEF Fitting

LEMMA ReportEnds ==
  ASSUME AllFit, NEW c \in Clients, End(c), call[c] = NoCall, UNCHANGED call
  PROVE  AllFit'
<1>1. OneStep(c, NoRequest, NoCall)
  BY GoesOnOne DEF End
<1> QED
  BY <1>1, StepsFit DEF Fitting

LEMMA ReportGoesOn ==
  ASSUME AllFit, NEW c \in Clients, NEW r, ReportOk(r, clock), GoOn(c, r), call[c] = NoCall, UNCHANGED call
  PROVE  AllFit'
  BY GoesOnOne, ReportGoes, NoCallIsOk

\* Each report has the number of a request that has been made.
ReportsFit == reports \subseteq 0..clock

LEMMA ReportStepFits ==
  ASSUME AllFit, ReportsFit, NEW c \in Clients, ReportStep(c)
  PROVE  AllFit' /\ ReportsFit'
<1>1. clock \in Nat /\ reports \in SUBSET Nat /\ {} \in SUBSET Nat
  BY DEF AllFit, ReportsFit
<1>2. ASSUME NEW download \in BOOLEAN, RequestReport(c, download) PROVE AllFit' /\ ReportsFit'
  <2>1. PICK r : r = [kind |-> "report", at |-> "config", began |-> clock + 1, download |-> download, llm |-> FALSE,
                      seen |-> {}, lone |-> FALSE]
    OBVIOUS
  <2>2. r \in ReportRequest /\ r.began \in 1..(clock + 1)
    BY <1>1, <2>1 DEF ReportRequest
  <2>3. Fitting(r, NoCall, clock + 1)
    BY <2>2, NoCallIsOk DEF Fitting, ReportOk
  <2>4. Begin(c, r) /\ UNCHANGED <<call, reports>>
    BY <1>2, <2>1 DEF RequestReport
  <2>5. ReportsFit'
    BY <1>1, <2>4 DEF Begin, ReportsFit
  <2> QED
    BY <2>3, <2>4, <2>5, BeginFits
<1>3. ASSUME UNCHANGED <<clock, reports>> PROVE ReportsFit'
  BY <1>3 DEF ReportsFit
<1>4. ASSUME ReadActiveConfig(c) PROVE AllFit' /\ ReportsFit'
  <2>1. req[c].kind = "report" /\ call[c] = NoCall /\ UNCHANGED <<call, reports>>
    BY <1>4 DEF ReadActiveConfig, At, Doing
  <2>2. ReportOk([req[c] EXCEPT !.llm = ~NoneActive, !.at = "facts"], clock)
    <3>1. ReportOk(req[c], clock) /\ "facts" \in ReportPlaces /\ (~NoneActive) \in BOOLEAN /\ TRUE \in BOOLEAN
      BY <2>1, AReport DEF ReportPlaces
    <3> QED
      BY <1>1, <3>1, OtherReport
  <2>3. End(c) \/ GoOn(c, [req[c] EXCEPT !.llm = ~NoneActive, !.at = "facts"])
    BY <1>4 DEF ReadActiveConfig
  <2>4. ReportsFit'
    BY <1>3, <2>1, <2>3 DEF End, GoOn
  <2> QED
    BY <2>1, <2>2, <2>3, <2>4, ReportEnds, ReportGoesOn
<1>5. ASSUME GatherFacts(c, 1, 1) PROVE AllFit' /\ ReportsFit'
  <2>1. req[c].kind = "report" /\ call[c] = NoCall
    BY <1>5 DEF GatherFacts, At, Doing
  <2>2. ReportOk([req[c] EXCEPT !.at = "narrative"], clock) /\ ReportOk([req[c] EXCEPT !.at = "delete"], clock)
    <3>1. ReportOk(req[c], clock) /\ {"narrative", "delete"} \subseteq ReportPlaces /\ TRUE \in BOOLEAN
      BY <2>1, AReport DEF ReportPlaces
    <3> QED
      BY <1>1, <3>1, OtherReport
  <2>3. CASE CallLlm(c, [req[c] EXCEPT !.at = "narrative"], ReportPrompt(1, 1), DefaultWindow, FALSE) /\ UNCHANGED reports
    <3>1. IsLog(ReportPrompt(1, 1)) /\ DefaultWindow \in Nat
      BY ReportPromptIsLog, UnitsType DEF DefaultWindow
    <3>2. ReportPrompt(1, 1) \in Seq(Messages) /\ IsPrompt(ReportPrompt(1, 1))
      BY <3>1, LogsArePrompts DEF IsLog
    <3>3. PICK x : OneStep(c, [req[c] EXCEPT !.at = "narrative"], x) /\ CallOk(x)
      BY <2>3, <3>1, <3>2, CallsOne DEF CallLlm
    <3>4. ReportsFit'
      BY <1>3, <2>3, <3>3 DEF OneStep
    <3> QED
      BY <2>2, <3>3, <3>4, ReportGoes
  <2>4. CASE GoTo(c, "delete") /\ UNCHANGED <<call, reports>>
    <3>1. ReportsFit'
      BY <1>3, <2>4 DEF GoTo, GoOn
    <3> QED
      BY <2>1, <2>2, <2>4, <3>1, ReportGoesOn DEF GoTo
  <2> QED
    BY <1>5, <2>3, <2>4 DEF GatherFacts
<1>6. ASSUME WriteNarrative(c) PROVE AllFit' /\ ReportsFit'
  <2>1. req[c].kind = "report" /\ Proceeds(c, [req[c] EXCEPT !.at = "delete"]) /\ UNCHANGED reports
    BY <1>6 DEF WriteNarrative, Told, Doing
  <2>2. ReportOk([req[c] EXCEPT !.at = "delete"], clock)
    <3>1. ReportOk(req[c], clock) /\ "delete" \in ReportPlaces /\ TRUE \in BOOLEAN
      BY <2>1, AReport DEF ReportPlaces
    <3> QED
      BY <1>1, <3>1, OtherReport
  <2>3. OneStep(c, [req[c] EXCEPT !.at = "delete"], NoCall)
    BY <2>1, ProceedsOne
  <2>4. ReportsFit'
    BY <1>3, <2>1, <2>3 DEF OneStep
  <2> QED
    BY <2>2, <2>3, <2>4, ReportGoes, NoCallIsOk
<1>7. ASSUME LookForReports(c) PROVE AllFit' /\ ReportsFit'
  <2>1. PICK r : /\ r = [req[c] EXCEPT !.at = "rows", !.seen = reports, !.lone = Deleters = {}]
                 /\ req' = [d \in Clients |-> IF d = c THEN r ELSE IF d \in Deleters THEN [req[d] EXCEPT !.lone = FALSE] ELSE req[d]]
    BY <1>7 DEF LookForReports
  <2>2. req[c].kind = "report" /\ call[c] = NoCall /\ UNCHANGED <<clock, call, reports>>
    BY <1>7 DEF LookForReports, At, Doing
  <2>3. ReportOk(r, clock)
    <3>1. PICK lone : lone = (Deleters = {})
      OBVIOUS
    <3>2. ReportOk(req[c], clock) /\ "rows" \in ReportPlaces /\ lone \in BOOLEAN /\ TRUE \in BOOLEAN
      BY <2>2, <3>1, AReport DEF ReportPlaces
    <3>3. ReportOk([req[c] EXCEPT !.at = "rows", !.seen = reports, !.lone = lone], clock)
      BY <1>1, <3>2, OtherReport
    <3> QED
      BY <2>1, <3>1, <3>3
  <2>4. ASSUME NEW d \in Clients PROVE Fitting(req'[d], call'[d], clock')
    <3>1. CASE d = c
      BY <2>1, <2>2, <2>3, <3>1, NoCallIsOk DEF Fitting
    <3>2. CASE d # c /\ d \in Deleters
      <4>1. req[d].kind = "report" /\ req'[d] = [req[d] EXCEPT !.lone = FALSE]
        BY <2>1, <3>2 DEF Deleters, Of
      <4>2. ReportOk(req[d], clock) /\ CallOk(call[d]) /\ "rows" \in ReportPlaces /\ FALSE \in BOOLEAN
        BY <4>1, AReport DEF ReportPlaces
      <4>3. ReportOk([req[d] EXCEPT !.lone = FALSE], clock)
        BY <1>1, <4>2, OtherReport
      <4> QED
        BY <2>2, <4>1, <4>2, <4>3 DEF Fitting
    <3>3. CASE d # c /\ d \notin Deleters
      <4>1. req'[d] = req[d]
        BY <2>1, <3>3
      <4> QED
        BY <2>2, <4>1 DEF AllFit
    <3> QED
      BY <3>1, <3>2, <3>3
  <2>5. DOMAIN req' = Clients
    BY <2>1
  <2>6. AllFit'
    BY <2>2, <2>4, <2>5 DEF AllFit
  <2> QED
    BY <1>3, <2>2, <2>6
<1>8. ASSUME DeleteReports(c) PROVE AllFit' /\ ReportsFit'
  <2>1. req[c].kind = "report" /\ call[c] = NoCall /\ UNCHANGED <<call, reports>>
    BY <1>8 DEF DeleteReports, At, Doing
  <2>2. PICK seen : seen = req[c].seen \cap reports
    OBVIOUS
  <2>3. ReportOk([req[c] EXCEPT !.at = "store", !.seen = seen], clock)
    <3>1. ReportOk(req[c], clock) /\ "store" \in ReportPlaces /\ TRUE \in BOOLEAN /\ seen \in SUBSET Nat
      BY <1>1, <2>1, <2>2, AReport DEF ReportPlaces
    <3> QED
      BY <3>1, OtherReport
  <2>4. GoOn(c, [req[c] EXCEPT !.at = "store", !.seen = seen])
    BY <1>8, <2>2 DEF DeleteReports
  <2>5. ReportsFit'
    BY <1>3, <2>1, <2>4 DEF GoOn
  <2> QED
    BY <2>1, <2>3, <2>4, <2>5, ReportGoesOn
<1>9. ASSUME StoreReport(c) PROVE AllFit' /\ ReportsFit'
  <2>1. req[c].kind = "report" /\ call[c] = NoCall /\ UNCHANGED call
    BY <1>9 DEF StoreReport, At, Doing
  <2>2. ReportOk(req[c], clock) /\ req[c].began \in 1..clock
    BY <2>1, AReport DEF ReportOk
  <2>3. ReportOk([req[c] EXCEPT !.at = "file"], clock)
    <3>1. "file" \in ReportPlaces /\ TRUE \in BOOLEAN
      BY DEF ReportPlaces
    <3> QED
      BY <1>1, <2>2, <3>1, OtherReport
  <2>4. GoTo(c, "file") \/ End(c)
    BY <1>9 DEF StoreReport
  <2>5. ReportsFit'
    <3>1. UNCHANGED clock
      BY <2>4 DEF GoTo, End, GoOn
    <3>2. reports' = (reports \ req[c].seen) \cup {req[c].began}
      BY <1>9 DEF StoreReport
    <3>3. req[c].began \in 0..clock
      BY <1>1, <2>2
    <3>4. reports' \subseteq 0..clock
      BY <3>2, <3>3 DEF ReportsFit
    <3> QED
      BY <3>1, <3>4 DEF ReportsFit
  <2> QED
    BY <2>1, <2>3, <2>4, <2>5, ReportEnds, ReportGoesOn DEF GoTo
<1>10. ASSUME ConvertReport(c) \/ ReportFails(c) PROVE AllFit' /\ ReportsFit'
  <2>1. call[c] = NoCall /\ End(c) /\ UNCHANGED <<call, reports>>
    BY <1>10 DEF ConvertReport, ReportFails, At
  <2>2. ReportsFit'
    BY <1>3, <2>1 DEF End, GoOn
  <2> QED
    BY <2>1, <2>2, ReportEnds
<1> QED
  BY <1>2, <1>4, <1>5, <1>6, <1>7, <1>8, <1>9, <1>10 DEF ReportStep, ReportProgress

-----------------------------------------------------------------------------
(* Every step, and what it keeps.                                          *)

\* The jobs of the choices, their marks and what they name are requests that have been
\* made; 0 is none.
ChoicesFit ==
  /\ DOMAIN choices = Offered
  /\ \A id \in Offered : /\ DOMAIN choices[id] = {"jobs", "marked", "names"}
                         /\ choices[id].jobs \subseteq 1..clock
                         /\ choices[id].marked \in 0..clock /\ choices[id].names \in 0..clock

LeftFits == left \in [Kinds -> Nat]

RequestsInv == Tagged /\ AllFit /\ RowsFit /\ ReportsFit /\ ChoicesFit /\ LeftFits

LEMMA InitRequestsInv == Init => RequestsInv
<1> SUFFICES ASSUME Init PROVE RequestsInv
  OBVIOUS
<1>1. \A c \in Clients : req[c] = NoRequest /\ call[c] = NoCall
  BY DEF Init, InitRequests, InitCalls
<1>2. AllFit
  BY <1>1 DEF AllFit, Fitting, Init, InitRequests, InitCalls
<1>3. RowsFit
  <2>1. configs \in [Configs -> {"none", "off", "on"}]
    BY FirstConfigsAssumption DEF Init, InitConfigs
  <2>2. configs \in [Configs -> {"none", "off", "on", "gone"}]
    BY <2>1
  <2> QED
    BY <1>1, <2>2, NoRequestIsOne DEF RowsFit
<1>4. ReportsFit
  BY DEF Init, InitReports, InitRequests, ReportsFit
<1>5. ChoicesFit
  <2>1. clock = 0 /\ choices = [id \in Offered |-> [jobs |-> {}, marked |-> 0, names |-> 0]]
    BY DEF Init, InitChoices, InitRequests
  <2>2. ASSUME NEW id \in Offered
        PROVE  /\ DOMAIN choices[id] = {"jobs", "marked", "names"}
               /\ choices[id].jobs \subseteq 1..clock
               /\ choices[id].marked \in 0..clock /\ choices[id].names \in 0..clock
    BY <2>1
  <2> QED
    BY <2>1, <2>2 DEF ChoicesFit
<1>6. LeftFits
  BY MixesAssumption DEF Init, InitRequests, LeftFits
<1> QED
  BY <1>2, <1>3, <1>4, <1>5, <1>6, InitTagged DEF RequestsInv

\* The requests still to be made.
LEMMA BeginLeaves ==
  ASSUME LeftFits, NEW c, NEW r, Begin(c, r), r.kind \in Kinds
  PROVE  LeftFits'
<1>1. left[r.kind] \in Nat /\ left[r.kind] > 0
  BY DEF LeftFits, Begin
<1>2. left[r.kind] - 1 \in Nat
  BY <1>1
<1>3. left' = [left EXCEPT ![r.kind] = left[r.kind] - 1]
  BY DEF Begin
<1> QED
  BY <1>2, <1>3 DEF LeftFits

LEMMA StepKeepsLeft ==
  ASSUME AllFit, LeftFits, NEW c \in Clients, ChangeConfig(c) \/ MakeReport(c) \/ Choose(c) \/ Question(c) \/ RunAgent(c) \/ Call(c)
  PROVE  LeftFits'
<1>1. ASSUME UNCHANGED left PROVE LeftFits'
  BY <1>1 DEF LeftFits
<1>2. CASE ChangeConfig(c)
  <2>1. ASSUME NEW row, CreateConfig(c, row) PROVE LeftFits'
    <3>1. left["config"] \in Nat /\ left["config"] > 0
      BY <2>1 DEF LeftFits, CreateConfig, Kinds
    <3>2. left["config"] - 1 \in Nat
      BY <3>1
    <3>3. left' = [left EXCEPT !["config"] = left["config"] - 1]
      BY <2>1 DEF CreateConfig
    <3> QED
      BY <3>2, <3>3 DEF LeftFits
  <2>2. ASSUME NEW i, NEW row, ReadConfig(c, i, row) PROVE LeftFits'
    BY <2>2, BeginLeaves DEF ReadConfig, Kinds
  <2>3. ASSUME ConfigProgress(c) \/ ConfigFails(c) PROVE UNCHANGED left
    BY <2>3 DEF ConfigProgress, ConfigFails, WriteConfig, CommitConfig, DeadlockDetected, DeactivateConfig, End, GoOn
  <2> QED
    BY <1>1, <1>2, <2>1, <2>2, <2>3 DEF ChangeConfig, ConfigStep, PatchConfig, DeleteConfig
<1>3. CASE MakeReport(c)
  <2>1. ASSUME NEW download, RequestReport(c, download) PROVE LeftFits'
    BY <2>1, BeginLeaves DEF RequestReport, Kinds
  <2>2. ASSUME ReportProgress(c) \/ ReportFails(c) PROVE UNCHANGED left
    BY <2>2 DEF ReportProgress, ReportFails, ReadActiveConfig, GatherFacts, WriteNarrative, LookForReports, DeleteReports,
                StoreReport, ConvertReport, End, GoTo, GoOn, CallLlm, Calls, Proceeds
  <2> QED
    BY <1>1, <1>3, <2>1, <2>2 DEF MakeReport, ReportStep
<1>4. CASE Choose(c)
  <2>1. ASSUME NEW id, SelectChoice(c, id) PROVE LeftFits'
    BY <2>1, BeginLeaves DEF SelectChoice, Kinds
  <2>2. ASSUME ChoiceProgress(c) \/ SelectFails(c) PROVE UNCHANGED left
    BY <2>2 DEF ChoiceProgress, SelectFails, CheckChoice, EnqueueChoice, MarkChoice, End, GoTo, GoOn
  <2> QED
    BY <1>1, <1>4, <2>1, <2>2 DEF Choose, ChoiceStep
<1>5. CASE Question(c)
  <2>1. ASSUME NEW mode, NEW size, NEW history, AskQuestion(c, mode, size, history) PROVE LeftFits'
    BY <2>1, BeginLeaves DEF AskQuestion, Kinds
  <2>2. ASSUME QuestionProgress(c) PROVE UNCHANGED left
    BY <2>2, QuestionProgressGoes DEF QuestionGoes, OneStep
  <2> QED
    BY <1>1, <1>5, <2>1, <2>2 DEF Question, QuestionStep
<1>6. CASE RunAgent(c)
  <2>1. ASSUME NEW size, NEW failing, StartAgent(c, size, failing) PROVE LeftFits'
    BY <2>1, BeginLeaves DEF StartAgent, Kinds
  <2>2. ASSUME AgentProgress(c) PROVE UNCHANGED left
    BY <2>2, AgentProgressGoes DEF AgentGoes, OneStep
  <2> QED
    BY <1>1, <1>6, <2>1, <2>2 DEF RunAgent, AgentStep
<1>7. CASE Call(c)
  BY <1>1, <1>7, CallIsNone DEF Call, requestVars
<1> QED
  BY <1>2, <1>3, <1>4, <1>5, <1>6, <1>7

LEMMA StepKeepsFit ==
  ASSUME AllFit, RowsFit, ReportsFit, NEW c \in Clients,
         ChangeConfig(c) \/ MakeReport(c) \/ Choose(c) \/ Question(c) \/ RunAgent(c) \/ Call(c)
  PROVE  AllFit'
<1>1. CASE ChangeConfig(c)
  BY <1>1, ConfigStepFits DEF ChangeConfig
<1>2. CASE MakeReport(c)
  BY <1>2, ReportStepFits DEF MakeReport
<1>3. CASE Choose(c)
  BY <1>3, ChoiceStepFits DEF Choose
<1>4. CASE Question(c)
  BY <1>4, AskQuestionFits, QuestionProgressGoes, QuestionFits DEF Question, QuestionStep
<1>5. CASE RunAgent(c)
  BY <1>5, StartAgentFits, AgentProgressGoes, AgentFits DEF RunAgent, AgentStep
<1>6. CASE Call(c)
  BY <1>6, CallStepFits DEF Call
<1> QED
  BY <1>1, <1>2, <1>3, <1>4, <1>5, <1>6

\* Where no choice is concerned, time goes on.
LEMMA OthersKeepChoices ==
  ASSUME AllFit, ChoicesFit, clock' \in {clock, clock + 1}, UNCHANGED choices
  PROVE  ChoicesFit'
<1>1. clock \in Nat /\ 1..clock \subseteq 1..clock' /\ 0..clock \subseteq 0..clock'
  BY DEF AllFit
<1> QED
  BY <1>1 DEF ChoicesFit

LEMMA ChoicesKeepChoices ==
  ASSUME AllFit, ChoicesFit, NEW c \in Clients, ChoiceStep(c)
  PROVE  ChoicesFit'
<1>1. clock \in Nat
  BY DEF AllFit
<1>2. ASSUME NEW id \in Offered, SelectChoice(c, id) PROVE ChoicesFit'
  BY <1>2, OthersKeepChoices DEF SelectChoice, Begin
<1>3. ASSUME CheckChoice(c) \/ SelectFails(c) PROVE ChoicesFit'
  BY <1>3, OthersKeepChoices DEF CheckChoice, SelectFails, End, GoTo, GoOn
<1>4. ASSUME req[c].kind = "choice" PROVE req[c].id \in Offered /\ req[c].began \in 1..clock
  BY <1>4, KindsOfRequests DEF AllFit, ChoiceOk, ChoiceRequest
<1>5. ASSUME EnqueueChoice(c) PROVE ChoicesFit'
  <2>1. PICK i, n : i = req[c].id /\ n = req[c].began
    OBVIOUS
  <2>2. i \in Offered /\ n \in 1..clock
    BY <1>4, <1>5, <2>1 DEF EnqueueChoice, Doing
  <2>3. choices' = [choices EXCEPT ![i].jobs = @ \cup {n}] /\ clock' = clock
    BY <1>5, <2>1 DEF EnqueueChoice, GoTo, GoOn
  <2> QED
    BY <2>2, <2>3 DEF ChoicesFit
<1>6. ASSUME MarkChoice(c) PROVE ChoicesFit'
  <2>1. PICK i, n : i = req[c].id /\ n = req[c].began
    OBVIOUS
  <2>2. i \in Offered /\ n \in 1..clock
    BY <1>4, <1>6, <2>1 DEF MarkChoice, Doing
  <2>3. /\ choices' = [choices EXCEPT ![i].marked = IF @ = 0 THEN clock ELSE @, ![i].names = n]
        /\ clock' = clock
    BY <1>6, <2>1 DEF MarkChoice, End, GoOn
  <2>4. n \in 0..clock /\ clock \in 0..clock
    BY <1>1, <2>2
  <2> QED
    BY <2>2, <2>3, <2>4 DEF ChoicesFit
<1> QED
  BY <1>2, <1>3, <1>5, <1>6 DEF ChoiceStep, ChoiceProgress

LEMMA OthersKeepRows ==
  ASSUME RowsFit, Leaves("config"), UNCHANGED configs
  PROVE  RowsFit'
  BY DEF RowsFit, Leaves

LEMMA OthersKeepReports ==
  ASSUME AllFit, ReportsFit, clock' \in {clock, clock + 1}, UNCHANGED reports
  PROVE  ReportsFit'
<1>1. clock \in Nat /\ 0..clock \subseteq 0..clock'
  BY DEF AllFit
<1> QED
  BY <1>1 DEF ReportsFit

LEMMA NextKeepsRequestsInv == RequestsInv /\ [Next]_vars => RequestsInv'
<1> SUFFICES ASSUME RequestsInv, [Next]_vars PROVE RequestsInv'
  OBVIOUS
<1>1. Tagged /\ Tagged' /\ AllFit /\ RowsFit /\ ReportsFit /\ ChoicesFit /\ LeftFits
  BY NextKeepsTagged DEF RequestsInv
<1>2. CASE UNCHANGED vars
  <2>1. AllFit' /\ RowsFit' /\ ReportsFit' /\ ChoicesFit' /\ LeftFits'
    BY <1>1, <1>2 DEF vars, AllFit, RowsFit, ReportsFit, ChoicesFit, LeftFits
  <2> QED
    BY <1>1, <2>1 DEF RequestsInv
<1>3. ASSUME NEW c \in Clients, ChangeConfig(c) \/ MakeReport(c) \/ Choose(c) \/ Question(c) \/ RunAgent(c) \/ Call(c)
      PROVE  RequestsInv'
  <2>1. AllFit' /\ LeftFits'
    BY <1>1, <1>3, StepKeepsFit, StepKeepsLeft
  <2>2. RowsFit'
    <3>1. CASE ChangeConfig(c)
      BY <1>1, <3>1, ConfigStepFits DEF ChangeConfig
    <3>2. CASE MakeReport(c) \/ Choose(c) \/ Question(c) \/ RunAgent(c) \/ Call(c)
      BY <1>1, <3>2, EachLeavesTheOthers, OthersKeepRows
    <3> QED
      BY <1>3, <3>1, <3>2
  <2>3. ReportsFit'
    <3>1. CASE MakeReport(c)
      BY <1>1, <3>1, ReportStepFits DEF MakeReport
    <3>2. CASE ChangeConfig(c) \/ Choose(c) \/ Question(c) \/ RunAgent(c) \/ Call(c)
      <4>1. Leaves("report") /\ UNCHANGED reports
        BY <1>1, <3>2, EachLeavesTheOthers
      <4> QED
        BY <1>1, <4>1, OthersKeepReports DEF Leaves
    <3> QED
      BY <1>3, <3>1, <3>2
  <2>4. ChoicesFit'
    <3>1. CASE Choose(c)
      BY <1>1, <3>1, ChoicesKeepChoices DEF Choose
    <3>2. CASE ChangeConfig(c) \/ MakeReport(c) \/ Question(c) \/ RunAgent(c) \/ Call(c)
      <4>1. Leaves("choice") /\ UNCHANGED choices
        BY <1>1, <3>2, EachLeavesTheOthers
      <4> QED
        BY <1>1, <4>1, OthersKeepChoices DEF Leaves
    <3> QED
      BY <1>3, <3>1, <3>2
  <2> QED
    BY <1>1, <2>1, <2>2, <2>3, <2>4 DEF RequestsInv
<1> QED
  BY <1>2, <1>3 DEF Next

LEMMA RequestsInvHolds == Spec => []RequestsInv
  BY InitRequestsInv, NextKeepsRequestsInv, PTL DEF Spec

LEMMA CallsAreCalls ==
  ASSUME NEW x, CallOk(x)
  PROVE  IsCall(x)
  BY DEF CallOk, IsCall, SentCalls, NoCall, Answered

\* Every request is one of its kind and every call is one, however many requests go on
\* next to each other; the tables refer to requests that have been made.
THEOREM TypeCorrect == Spec => []TypeOK
<1>1. RequestsInv => TypeOK
  <2> SUFFICES ASSUME RequestsInv PROVE TypeOK
    OBVIOUS
  <2>1. AllFit /\ RowsFit /\ ReportsFit /\ ChoicesFit /\ LeftFits
    BY DEF RequestsInv
  <2>2. ASSUME NEW c \in Clients
        PROVE  /\ \/ req[c] = NoRequest
                  \/ req[c] \in ConfigRequest \cup ReportRequest \cup ChoiceRequest
                  \/ req[c].kind = "question" /\ req[c] \in QuestionRequest
                  \/ req[c].kind = "agent" /\ req[c] \in AgentRequest
               /\ IsCall(call[c]) /\ (req[c] = NoRequest => call[c] = NoCall)
    <3>1. Fitting(req[c], call[c], clock)
      BY <2>1 DEF AllFit
    <3>2. CallOk(call[c])
      BY <3>1, NoCallIsOk DEF Fitting
    <3>3. QuestionOk(req[c]) => req[c].kind = "question" /\ req[c] \in QuestionRequest
      BY DEF QuestionOk, QuestionRequest
    <3>4. AgentOk(req[c]) => req[c].kind = "agent" /\ req[c] \in AgentRequest
      BY DEF AgentOk, AgentRequest
    <3>5. req[c] = NoRequest => call[c] = NoCall
      BY <3>1, KindsOfRequests, NoRequestIsOne
    <3> QED
      BY <3>1, <3>2, <3>3, <3>4, <3>5, CallsAreCalls, Zenon DEF Fitting, ReportOk, ChoiceOk
  <2> QED
    BY <2>1, <2>2 DEF TypeOK, AllFit, RowsFit, ReportsFit, ChoicesFit, LeftFits
<1> QED
  BY <1>1, RequestsInvHolds, PTL

\* However long a conversation of tool calls, compactions and questions gets, and
\* whatever goes on next to it: what is sent of it fits into the model's window unless
\* what is never cut is too long by itself, and it begins with the system prompt, ends
\* with the newest message, and has its messages in their order.
THEOREM PromptsFit == Spec => []PromptFits
<1>1. RequestsInv => PromptFits
  <2> SUFFICES ASSUME RequestsInv, NEW c \in Clients, Sent(c), call[c].enforced,
                      Tokens(Essential(call[c].full)) < Limit(call[c].window)
               PROVE  Fits(PromptOf(call[c]), call[c].full, call[c].window)
    BY DEF PromptFits, Fits
  <2>1. PICK x : x = call[c]
    OBVIOUS
  <2>2. CallOk(x) /\ x.state = "sent" /\ x.enforced
    BY <2>1, NoCallIsOk DEF RequestsInv, AllFit, Fitting, Sent
  <2>3. x \in SentCalls /\ IsPrompt(x.full)
    BY <2>2 DEF CallOk, NoCall, Answered, Answers
  <2>4. x.window \in Nat
    BY <2>3 DEF SentCalls
  <2>5. PromptOf(x) = EnforceContextLimit(x.full, x.window)
    BY <2>2 DEF PromptOf
  <2> QED
    BY <2>1, <2>3, <2>4, <2>5, CutPromptFits
<1> QED
  BY <1>1, RequestsInvHolds, PTL

-----------------------------------------------------------------------------
(* How far a request is from its end. Not the fairness that lets it get    *)
(* there, but that each of its steps brings it nearer.                     *)

\* The steps a request may still make. A turn of a question's loop is two, one of an
\* agent's at most six.
QuestionRank(r) ==
  LET turns == 2 * (MaxTurns - r.turn)
      before == 2 * MaxTurns + 4
  IN CASE r.at = "loop" -> turns + 1     [] r.at = "tooled" -> turns + 2
       [] r.at = "answer" -> 1           [] r.at = "ranked" -> 2
       [] r.at = "vectors" -> 3          [] r.at = "queries" -> 4
       [] r.at = "config" -> 5           [] r.at = "status" -> 6
       [] r.at = "general" -> 1          [] r.at = "insert" -> 1
       [] r.at = "extracted" -> 2        [] r.at = "extract" -> 3
       [] r.at = "timeline" -> before    [] r.at = "classified" -> before + 1
       [] r.at = "classify" -> before + 2 [] r.at = "expanded" -> before + 3
       [] r.at = "expand" -> before + 4  [] OTHER -> before + 5

AgentRank(r) ==
  LET turns == 8 * (MaxTurns - r.turn)
  IN CASE r.at = "final" -> 1            [] r.at = "strategy" -> turns + 2
       [] r.at = "summarised" -> turns + 5 [] r.at = "compact" -> turns + 6
       [] r.at = "analysed" -> turns + 7 [] r.at = "planned" -> turns + 8
       [] r.at = "plan" -> turns + 9     [] OTHER -> 8 * MaxTurns + 3

ReportRank(r) ==
  CASE r.at = "file" -> 1     [] r.at = "store" -> 2     [] r.at = "rows" -> 3
    [] r.at = "delete" -> 4   [] r.at = "narrative" -> 5 [] r.at = "facts" -> 6
    [] OTHER -> 7

ChoiceRank(r) == CASE r.at = "mark" -> 1 [] r.at = "enqueue" -> 2 [] OTHER -> 3

ConfigRank(r) == IF r.at = "write" THEN Cardinality(r.todo) + 1 ELSE Cardinality(Configs) + 2

Remaining(r) ==
  CASE r.kind = "config" -> ConfigRank(r)     [] r.kind = "report" -> ReportRank(r)
    [] r.kind = "choice" -> ChoiceRank(r)     [] r.kind = "question" -> QuestionRank(r)
    [] r.kind = "agent" -> AgentRank(r)       [] OTHER -> 0

\* The attempts a call may still make, and one for the call itself.
Attempts(x) == IF x = NoCall THEN Tries + 1 ELSE IF x.state = "sent" THEN x.tries ELSE 0

Closer(c) ==
  \/ Remaining(req'[c]) < Remaining(req[c])
  \/ Remaining(req'[c]) = Remaining(req[c]) /\ Attempts(call'[c]) < Attempts(call[c])

\* The loops have not made more turns than they may.
TurnsFit == \A c \in Clients : req[c].kind \in {"question", "agent"} => req[c].turn \in 0..MaxTurns

LEMMA QuestionRanks ==
  ASSUME NEW r, r.at \in QuestionPlaces, r.turn \in 0..MaxTurns
  PROVE  QuestionRank(r) \in Nat \ {0} /\ QuestionRank(r) <= 2 * MaxTurns + 9
<1>1. MaxTurns \in Nat
  BY QuestionsAssumption
<1>2. PICK turns \in Nat : turns = 2 * (MaxTurns - r.turn) /\ turns <= 2 * MaxTurns
  BY <1>1
<1> QED
  BY <1>1, <1>2 DEF QuestionRank, QuestionPlaces

LEMMA AgentRanks ==
  ASSUME NEW r, r.at \in AgentPlaces, r.turn \in 0..MaxTurns
  PROVE  AgentRank(r) \in Nat \ {0}
<1>1. MaxTurns \in Nat
  BY QuestionsAssumption
<1>2. PICK turns \in Nat : turns = 8 * (MaxTurns - r.turn)
  BY <1>1
<1> QED
  BY <1>1, <1>2 DEF AgentRank, AgentPlaces

LEMMA OtherRanks ==
  /\ \A r : ReportRank(r) \in Nat \ {0} /\ ChoiceRank(r) \in Nat \ {0}
  /\ \A r \in ConfigRequest : ConfigRank(r) \in Nat \ {0} /\ ConfigRank(r) <= Cardinality(Configs) + 2
<1>1. \A r : ReportRank(r) \in Nat \ {0} /\ ChoiceRank(r) \in Nat \ {0}
  BY DEF ReportRank, ChoiceRank
<1>2. \A r \in ConfigRequest : Cardinality(r.todo) \in Nat /\ Cardinality(r.todo) <= Cardinality(Configs)
  <2>1. \A r \in ConfigRequest : r.todo \in SUBSET Configs
    BY DEF ConfigRequest
  <2> QED
    BY <2>1, ConfigsAssumption, FS_Subset, FS_CardinalityType
<1>3. Cardinality(Configs) \in Nat
  BY ConfigsAssumption, FS_CardinalityType
<1>4. \A r \in ConfigRequest : ConfigRank(r) \in Nat \ {0} /\ ConfigRank(r) <= Cardinality(Configs) + 2
  BY <1>2, <1>3 DEF ConfigRank
<1> QED
  BY <1>1, <1>4

-----------------------------------------------------------------------------
(* The steps of a question.                                                *)

QuestionMoves ==
  {<<"status", "config">>, <<"config", "queries">>, <<"queries", "vectors">>, <<"vectors", "ranked">>, <<"ranked", "answer">>,
   <<"history", "expand">>, <<"history", "classify">>, <<"expand", "expanded">>, <<"expand", "classify">>,
   <<"expanded", "classify">>, <<"classify", "classified">>, <<"classified", "extract">>, <<"classified", "timeline">>,
   <<"classified", "general">>, <<"extract", "extracted">>, <<"extract", "insert">>, <<"extracted", "insert">>,
   <<"timeline", "loop">>, <<"tooled", "loop">>}

\* From request s to request r.
QuestionMove(s, r) ==
  /\ r.kind = "question"
  /\ \/ <<s.at, r.at>> \in QuestionMoves /\ r.turn = s.turn
     \/ s.at = "loop" /\ r.at = "tooled" /\ s.turn # MaxTurns /\ r.turn = s.turn + 1

\* A question moves, ends, or has its texts ranked.
QuestionMoving(c) ==
  \/ \E r : req' = [req EXCEPT ![c] = r] /\ (r = NoRequest \/ QuestionMove(req[c], r))
  \/ req' = [req EXCEPT ![c] = req[c]] /\ call[c] = NoCall /\ call'[c].state = "sent" /\ call'[c].tries = Tries

LEMMA QuestionTakes ==
  ASSUME NEW c, NEW r, GoOn(c, r), r = NoRequest \/ QuestionMove(req[c], r)
  PROVE  QuestionMoving(c)
  BY DEF GoOn, QuestionMoving

LEMMA QuestionMovesOn ==
  ASSUME AllFit, NEW c \in Clients, QuestionProgress(c)
  PROVE  QuestionMoving(c) /\ req[c].kind = "question"
<1> DEFINE s == req[c]
<1>1. ASSUME s.kind = "question"
      PROVE  DOMAIN s = {"kind", "mode", "size", "window", "history", "at", "queries", "texts", "chunks", "log", "turn"}
  <2>1. QuestionOk(s)
    BY <1>1, AQuestion
  <2> QED
    BY <2>1 DEF QuestionOk, QuestionRequest
<1> USE QuestionTakes DEF QuestionMove, QuestionMoves, At, Told, Doing, End, GoTo, Calls, CallLlm, CallAsIs,
            CallEmbedder, Proceeds, Finishes, Goes, Fails
<1>2. ASSUME NEW usable, CheckStatus(c, usable) PROVE QuestionMoving(c) /\ s.kind = "question"
  BY <1>1, <1>2 DEF CheckStatus
<1>3. ASSUME ExpandIntoQueries(c) PROVE QuestionMoving(c) /\ s.kind = "question"
  BY <1>1, <1>3 DEF ExpandIntoQueries
<1>4. ASSUME NEW n, EmbedQueries(c, n) PROVE QuestionMoving(c) /\ s.kind = "question"
  BY <1>1, <1>4 DEF EmbedQueries
<1>5. ASSUME RankTexts(c) PROVE QuestionMoving(c) /\ s.kind = "question"
  <2>1. DOMAIN req = Clients /\ call = [d \in Clients |-> call[d]] /\ s.kind = "question" /\ call[c] = NoCall /\ GoOn(c, s)
    BY <1>5 DEF RankTexts, AllFit
  <2>2. call'[c].state = "sent" /\ call'[c].tries = Tries
    BY <1>5, <2>1 DEF RankTexts
  <2>3. req' = [req EXCEPT ![c] = s]
    BY <2>1 DEF GoOn
  <2> QED
    BY <2>1, <2>2, <2>3 DEF QuestionMoving
<1>6. ASSUME AskForAnswer(c) PROVE QuestionMoving(c) /\ s.kind = "question"
  BY <1>1, <1>6 DEF AskForAnswer
<1>7. ASSUME TakeAnswer(c) \/ RetrievalFails(c) \/ EndLoop(c) PROVE QuestionMoving(c) /\ s.kind = "question"
  BY <1>7 DEF TakeAnswer, RetrievalFails, EndLoop
<1>8. ASSUME NEW texts, NEW gone, RetrieveTexts(c, texts, gone) PROVE QuestionMoving(c) /\ s.kind = "question"
  BY <1>1, <1>8 DEF RetrieveTexts
<1>9. ASSUME NEW b, FetchHistory(c, b) PROVE QuestionMoving(c) /\ s.kind = "question"
  BY <1>1, <1>9 DEF FetchHistory
<1>10. ASSUME NEW b, ExpandQuery(c, b) PROVE QuestionMoving(c) /\ s.kind = "question"
  BY <1>1, <1>10 DEF ExpandQuery
<1>11. ASSUME NEW b, ExtractEvents(c, b) PROVE QuestionMoving(c) /\ s.kind = "question"
  BY <1>1, <1>11 DEF ExtractEvents
<1>12. ASSUME NEW b, TakeEvents(c, b) PROVE QuestionMoving(c) /\ s.kind = "question"
  BY <1>1, <1>12 DEF TakeEvents
<1>13. ASSUME NEW size, TakeExpansion(c, size) PROVE QuestionMoving(c) /\ s.kind = "question"
  BY <1>1, <1>13 DEF TakeExpansion
<1>14. ASSUME ClassifyIntent(c) PROVE QuestionMoving(c) /\ s.kind = "question"
  BY <1>1, <1>14 DEF ClassifyIntent
<1>15. ASSUME NEW intent \in Intents, RouteIntent(c, intent) PROVE QuestionMoving(c) /\ s.kind = "question"
  BY <1>1, <1>15 DEF RouteIntent, Intents
<1>16. ASSUME AnswerGeneral(c) \/ InsertEvents(c) PROVE QuestionMoving(c) /\ s.kind = "question"
  BY <1>16 DEF AnswerGeneral, InsertEvents
<1>17. ASSUME StartTimeline(c) PROVE QuestionMoving(c) /\ s.kind = "question"
  BY <1>1, <1>17 DEF StartTimeline
<1>18. ASSUME AskForTools(c) PROVE QuestionMoving(c) /\ s.kind = "question"
  BY <1>1, <1>18 DEF AskForTools
<1>19. ASSUME NEW sizes, UseTools(c, sizes) PROVE QuestionMoving(c) /\ s.kind = "question"
  BY <1>1, <1>19 DEF UseTools
<1> QED
  BY <1>2, <1>3, <1>4, <1>5, <1>6, <1>7, <1>8, <1>9, <1>10, <1>11, <1>12, <1>13, <1>14, <1>15, <1>16, <1>17, <1>18, <1>19
     DEF QuestionProgress

\* A turn is spent when the tools are asked for, and every move is one less to make.
LEMMA QuestionMoveNears ==
  ASSUME NEW s, NEW r, s.at \in QuestionPlaces, s.turn \in 0..MaxTurns, QuestionMove(s, r)
  PROVE  r.turn \in 0..MaxTurns /\ QuestionRank(r) < QuestionRank(s)
<1>1. MaxTurns \in Nat
  BY QuestionsAssumption
<1>2. PICK most \in Nat, spent \in Nat : most = 2 * MaxTurns /\ spent = 2 * (MaxTurns - s.turn) /\ spent <= most
  BY <1>1
<1>3. CASE s.at = "loop" /\ r.at = "tooled" /\ s.turn # MaxTurns /\ r.turn = s.turn + 1
  <2>1. 2 * (MaxTurns - r.turn) = spent - 2
    BY <1>1, <1>2, <1>3
  <2> QED
    BY <1>1, <1>2, <1>3, <2>1 DEF QuestionRank
<1>4. CASE <<s.at, r.at>> \in QuestionMoves /\ r.turn = s.turn
  <2>1. 2 * (MaxTurns - r.turn) = spent
    BY <1>2, <1>4
  <2>2. QuestionRank(r) < QuestionRank(s)
    BY <1>2, <1>4, <2>1 DEF QuestionRank, QuestionMoves
  <2> QED
    BY <1>4, <2>2
<1> QED
  BY <1>3, <1>4 DEF QuestionMove

-----------------------------------------------------------------------------
(* The steps of an agent.                                                  *)

AgentMoves ==
  {<<"playbook", "strategy">>, <<"strategy", "final">>, <<"plan", "planned">>, <<"planned", "analysed">>,
   <<"planned", "final">>, <<"analysed", "compact">>, <<"compact", "summarised">>, <<"compact", "strategy">>,
   <<"summarised", "strategy">>}

AgentMove(s, r) ==
  /\ r.kind = "agent"
  /\ \/ <<s.at, r.at>> \in AgentMoves /\ r.turn = s.turn
     \/ s.at = "strategy" /\ r.at = "plan" /\ s.turn < MaxTurns /\ r.turn = s.turn + 1

AgentMoving(c) == \E r : req' = [req EXCEPT ![c] = r] /\ (r = NoRequest \/ AgentMove(req[c], r))

LEMMA AgentTakes ==
  ASSUME NEW c, NEW r, GoOn(c, r), r = NoRequest \/ AgentMove(req[c], r)
  PROVE  AgentMoving(c)
  BY DEF GoOn, AgentMoving

LEMMA AgentMovesOn ==
  ASSUME AllFit, NEW c \in Clients, AgentProgress(c)
  PROVE  AgentMoving(c) /\ req[c].kind = "agent"
<1> DEFINE s == req[c]
<1>1. ASSUME s.kind = "agent" PROVE DOMAIN s = {"kind", "at", "window", "turn", "guided", "log"}
  BY <1>1, AnAgent, AgentFields
<1> USE AgentTakes DEF AgentMove, AgentMoves, At, Told, Doing, Calls, CallLlm, Proceeds, Finishes, CompactLog
<1>2. ASSUME ChoosePlaybook(c) PROVE AgentMoving(c) /\ s.kind = "agent"
  BY <1>1, <1>2 DEF ChoosePlaybook
<1>3. ASSUME NextTurn(c) PROVE AgentMoving(c) /\ s.kind = "agent"
  BY <1>1, <1>3 DEF NextTurn
<1>4. ASSUME NEW guided, PlanTools(c, guided) PROVE AgentMoving(c) /\ s.kind = "agent"
  BY <1>1, <1>4 DEF PlanTools
<1>5. ASSUME PlanIsRefused(c) \/ AnalysisCompletes(c) \/ EndRun(c) PROVE AgentMoving(c) /\ s.kind = "agent"
  BY <1>5 DEF PlanIsRefused, AnalysisCompletes, EndRun
<1>6. ASSUME NEW sizes, AnalyseResults(c, sizes) PROVE AgentMoving(c) /\ s.kind = "agent"
  BY <1>1, <1>6 DEF AnalyseResults
<1>7. ASSUME NEW sizes, NEW b, CompleteInvestigation(c, sizes, b) PROVE AgentMoving(c) /\ s.kind = "agent"
  BY <1>1, <1>7 DEF CompleteInvestigation
<1>8. ASSUME TakeAnalysis(c) PROVE AgentMoving(c) /\ s.kind = "agent"
  BY <1>1, <1>8 DEF TakeAnalysis
<1>9. ASSUME LoadSummary(c) PROVE AgentMoving(c) /\ s.kind = "agent"
  BY <1>1, <1>9 DEF LoadSummary
<1>10. ASSUME CompactOrSummarise(c) PROVE AgentMoving(c) /\ s.kind = "agent"
  BY <1>1, <1>10 DEF CompactOrSummarise
<1>11. ASSUME TakeSummary(c) PROVE AgentMoving(c) /\ s.kind = "agent"
  BY <1>1, <1>11 DEF TakeSummary
<1> QED
  BY <1>2, <1>3, <1>4, <1>5, <1>6, <1>7, <1>8, <1>9, <1>10, <1>11 DEF AgentProgress

LEMMA AgentMoveNears ==
  ASSUME NEW s, NEW r, s.at \in AgentPlaces, s.turn \in 0..MaxTurns, AgentMove(s, r)
  PROVE  r.turn \in 0..MaxTurns /\ AgentRank(r) < AgentRank(s)
<1>1. MaxTurns \in Nat
  BY QuestionsAssumption
<1>2. PICK most \in Nat, spent \in Nat : most = 8 * MaxTurns /\ spent = 8 * (MaxTurns - s.turn) /\ spent <= most
  BY <1>1
<1>3. CASE s.at = "strategy" /\ r.at = "plan" /\ s.turn < MaxTurns /\ r.turn = s.turn + 1
  <2>1. 8 * (MaxTurns - r.turn) = spent - 8
    BY <1>1, <1>2, <1>3
  <2> QED
    BY <1>1, <1>2, <1>3, <2>1 DEF AgentRank
<1>4. CASE <<s.at, r.at>> \in AgentMoves /\ r.turn = s.turn
  <2>1. 8 * (MaxTurns - r.turn) = spent
    BY <1>2, <1>4
  <2>2. AgentRank(r) < AgentRank(s)
    BY <1>2, <1>4, <2>1 DEF AgentRank, AgentMoves
  <2> QED
    BY <1>4, <2>2
<1> QED
  BY <1>3, <1>4 DEF AgentMove

-----------------------------------------------------------------------------
(* The steps of reports, choices and configurations.                       *)

LEMMA Remainings ==
  /\ Remaining(NoRequest) = 0
  /\ \A r : /\ r.kind = "config" => Remaining(r) = ConfigRank(r)
            /\ r.kind = "report" => Remaining(r) = ReportRank(r)
            /\ r.kind = "choice" => Remaining(r) = ChoiceRank(r)
            /\ r.kind = "question" => Remaining(r) = QuestionRank(r)
            /\ r.kind = "agent" => Remaining(r) = AgentRank(r)
  BY NoRequestIsOne DEF Remaining

LEMMA OneGoes ==
  ASSUME AllFit, NEW c \in Clients, NEW r, GoOn(c, r)
  PROVE  req'[c] = r /\ \A d \in Clients \ {c} : req'[d] = req[d]
  BY DEF AllFit, GoOn

\* The request of c has less left, and the others as much as before.
Nears(c) ==
  /\ Remaining(req'[c]) < Remaining(req[c])
  /\ \A d \in Clients \ {c} : Remaining(req'[d]) = Remaining(req[d])

LEMMA OneNears ==
  ASSUME AllFit, NEW c \in Clients, NEW r, GoOn(c, r), Remaining(r) < Remaining(req[c])
  PROVE  Nears(c)
  BY OneGoes DEF Nears

LEMMA ReportNears ==
  ASSUME AllFit, NEW c \in Clients, ReportProgress(c) \/ ReportFails(c)
  PROVE  Nears(c) /\ req[c].kind = "report"
<1> DEFINE s == req[c]
<1>1. ASSUME NEW d \in Clients, req[d].kind = "report"
      PROVE  DOMAIN req[d] = {"kind", "at", "began", "download", "llm", "seen", "lone"}
  <2>1. ReportOk(req[d], clock)
    BY <1>1, AReport
  <2> QED
    BY <2>1 DEF ReportOk, ReportRequest
<1>2. s.kind = "report"
  BY DEF ReportProgress, ReportFails, ReadActiveConfig, GatherFacts, WriteNarrative, LookForReports, DeleteReports, StoreReport,
         ConvertReport, At, Told, Doing
<1>3. ASSUME NEW r, GoOn(c, r), r = NoRequest \/ (r.kind = "report" /\ ReportRank(r) < ReportRank(s)) PROVE Nears(c)
  BY <1>2, <1>3, OneNears, Remainings, OtherRanks
<1> USE DEF ReportRank, At, Told, Doing, End, GoTo, Calls, CallLlm, Proceeds
<1>4. ASSUME ReadActiveConfig(c) PROVE Nears(c)
  <2>1. CASE End(c)
    BY <1>3, <2>1
  <2>2. CASE ~End(c)
    <3>1. PICK r : r = [s EXCEPT !.llm = ~NoneActive, !.at = "facts"]
      OBVIOUS
    <3>2. s.at = "config" /\ GoOn(c, r)
      BY <1>4, <2>2, <3>1 DEF ReadActiveConfig
    <3>3. r.kind = "report" /\ r.at = "facts"
      BY <1>1, <1>2, <3>1
    <3> QED
      BY <1>3, <3>2, <3>3
  <2> QED
    BY <2>1, <2>2
<1>5. ASSUME NEW facts, NEW wish, GatherFacts(c, facts, wish) PROVE Nears(c)
  BY <1>1, <1>2, <1>3, <1>5 DEF GatherFacts
<1>6. ASSUME WriteNarrative(c) PROVE Nears(c)
  BY <1>1, <1>2, <1>3, <1>6 DEF WriteNarrative
<1>7. ASSUME LookForReports(c) PROVE Nears(c)
  <2>1. PICK r : r = [s EXCEPT !.at = "rows", !.seen = reports, !.lone = Deleters = {}]
    OBVIOUS
  <2>2. s.at = "delete" /\ req' = [d \in Clients |-> IF d = c THEN r ELSE IF d \in Deleters THEN [req[d] EXCEPT !.lone = FALSE] ELSE req[d]]
    BY <1>7, <2>1 DEF LookForReports
  <2>3. r.kind = "report" /\ r.at = "rows"
    BY <1>1, <1>2, <2>1
  <2>4. Remaining(req'[c]) < Remaining(s)
    BY <1>2, <2>2, <2>3, Remainings
  <2>5. ASSUME NEW d \in Clients \ {c} PROVE Remaining(req'[d]) = Remaining(req[d])
    <3>1. CASE d \in Deleters
      <4>1. req[d].kind = "report" /\ req'[d] = [req[d] EXCEPT !.lone = FALSE]
        BY <2>2, <3>1 DEF Deleters, Of
      <4>2. req'[d].kind = "report" /\ req'[d].at = req[d].at
        BY <1>1, <4>1
      <4> QED
        BY <4>1, <4>2, Remainings
    <3>2. CASE d \notin Deleters
      BY <2>2, <3>2
    <3> QED
      BY <3>1, <3>2
  <2> QED
    BY <2>4, <2>5 DEF Nears
<1>8. ASSUME DeleteReports(c) PROVE Nears(c)
  <2>1. PICK seen : seen = s.seen \cap reports
    OBVIOUS
  <2>2. PICK r : r = [s EXCEPT !.at = "store", !.seen = seen]
    OBVIOUS
  <2>3. s.at = "rows" /\ GoOn(c, r)
    BY <1>8, <2>1, <2>2 DEF DeleteReports
  <2>4. r.kind = "report" /\ r.at = "store"
    BY <1>1, <1>2, <2>2
  <2> QED
    BY <1>3, <2>3, <2>4
<1>9. ASSUME StoreReport(c) PROVE Nears(c)
  BY <1>1, <1>2, <1>3, <1>9 DEF StoreReport
<1>10. ASSUME ConvertReport(c) \/ ReportFails(c) PROVE Nears(c)
  BY <1>3, <1>10 DEF ConvertReport, ReportFails
<1> QED
  BY <1>2, <1>4, <1>5, <1>6, <1>7, <1>8, <1>9, <1>10 DEF ReportProgress

LEMMA ChoiceNears ==
  ASSUME AllFit, NEW c \in Clients, ChoiceProgress(c) \/ SelectFails(c)
  PROVE  Nears(c) /\ req[c].kind = "choice"
<1> DEFINE s == req[c]
<1>1. s.kind = "choice"
  BY DEF ChoiceProgress, SelectFails, CheckChoice, EnqueueChoice, MarkChoice, Doing
<1>2. DOMAIN s = {"kind", "at", "id", "began"}
  <2>1. ChoiceOk(s, clock)
    BY <1>1, KindsOfRequests DEF AllFit
  <2> QED
    BY <2>1 DEF ChoiceOk, ChoiceRequest
<1>3. ASSUME NEW r, GoOn(c, r), r = NoRequest \/ (r.kind = "choice" /\ ChoiceRank(r) < ChoiceRank(s)) PROVE Nears(c)
  BY <1>1, <1>3, OneNears, Remainings, OtherRanks
<1>4. ASSUME CheckChoice(c) \/ EnqueueChoice(c) \/ MarkChoice(c) \/ SelectFails(c) PROVE Nears(c)
  BY <1>1, <1>2, <1>3, <1>4 DEF CheckChoice, EnqueueChoice, MarkChoice, SelectFails, ChoiceRank, Doing, End, GoTo
<1> QED
  BY <1>1, <1>4 DEF ChoiceProgress

LEMMA WritingLeaves ==
  ASSUME AllFit, NEW c \in Clients, NEW id, NEW row, Writing(c, id, row)
  PROVE  \A d \in Clients \ {c} : Remaining(req'[d]) = Remaining(req[d])
<1> SUFFICES ASSUME NEW d \in Clients \ {c} PROVE Remaining(req'[d]) = Remaining(req[d])
  OBVIOUS
<1>1. req'[d] = IF d \in Writers THEN [req[d] EXCEPT !.lone = FALSE] ELSE req[d]
  BY DEF Writing, Overlapping
<1>2. CASE d \in Writers
  <2>1. req[d].kind = "config" /\ req'[d] = [req[d] EXCEPT !.lone = FALSE]
    BY <1>1, <1>2 DEF Writers, Of
  <2>2. DOMAIN req[d] = ConfigFields
    BY <2>1, AConfig, OtherConfig
  <2>3. req'[d].kind = "config" /\ req'[d].at = req[d].at /\ req'[d].todo = req[d].todo
    BY <2>1, <2>2 DEF ConfigFields
  <2> QED
    BY <2>1, <2>3, Remainings DEF ConfigRank
<1> QED
  BY <1>1, <1>2

LEMMA ConfigNears ==
  ASSUME AllFit, NEW c \in Clients, ConfigProgress(c) \/ ConfigFails(c)
  PROVE  Nears(c) /\ req[c].kind = "config"
<1> DEFINE s == req[c]
<1>1. s.kind = "config"
  BY DEF ConfigProgress, ConfigFails, WriteConfig, CommitConfig, DeadlockDetected, DeactivateConfig, Doing, Writers, Of
<1>2. s \in ConfigRequest /\ Remaining(s) = ConfigRank(s)
  BY <1>1, AConfig, Remainings
<1>3. ASSUME End(c) PROVE Nears(c)
  BY <1>2, <1>3, OneNears, Remainings, OtherRanks DEF End
<1>4. ASSUME NEW id, NEW row, s.at = "wait", Writing(c, id, row) PROVE Nears(c)
  <2>1. PICK todo : todo = IF row = "on" THEN Active \ {id} ELSE {}
    OBVIOUS
  <2>2. PICK r : r = WriteOf(id, row, todo)
    OBVIOUS
  <2>3. todo \in SUBSET Configs /\ r.kind = "config" /\ r.at = "write" /\ r.todo = todo
    BY <2>1, <2>2 DEF Active, WriteOf
  <2>4. Cardinality(todo) \in Nat /\ Cardinality(todo) <= Cardinality(Configs) /\ Cardinality(Configs) \in Nat
    BY <2>3, ConfigsAssumption, FS_Subset, FS_CardinalityType
  <2>5. Remaining(r) < Remaining(s)
    BY <1>2, <1>4, <2>3, <2>4, Remainings DEF ConfigRank
  <2>6. req'[c] = r
    BY <1>4, <2>1, <2>2 DEF Writing, Overlapping
  <2> QED
    BY <1>4, <2>5, <2>6, WritingLeaves DEF Nears
<1>5. ASSUME NEW i, DeactivateConfig(c, i) PROVE Nears(c)
  <2>1. PICK todo, mine : todo = s.todo \ {i} /\ GoOn(c, [s EXCEPT !.todo = todo, !.mine = mine])
    BY <1>5 DEF DeactivateConfig
  <2>2. s.at = "write" /\ i \in s.todo
    BY <1>5 DEF DeactivateConfig, Doing
  <2>3. s.todo \in SUBSET Configs /\ DOMAIN s = ConfigFields
    BY <1>2 DEF ConfigRequest, ConfigFields
  <2>4. Cardinality(todo) \in Nat /\ Cardinality(s.todo) \in Nat /\ Cardinality(todo) < Cardinality(s.todo)
    <3>1. IsFiniteSet(s.todo)
      BY <2>3, ConfigsAssumption, FS_Subset
    <3>2. Cardinality(todo) = Cardinality(s.todo) - 1 /\ IsFiniteSet(todo)
      BY <2>1, <2>2, <3>1, FS_RemoveElement
    <3> QED
      BY <3>1, <3>2, FS_CardinalityType
  <2>5. PICK r : r = [s EXCEPT !.todo = todo, !.mine = mine]
    OBVIOUS
  <2>6. r.kind = "config" /\ r.at = "write" /\ r.todo = todo
    BY <1>1, <2>2, <2>3, <2>5 DEF ConfigFields
  <2>7. Remaining(r) < Remaining(s)
    BY <1>2, <2>2, <2>4, <2>6, Remainings DEF ConfigRank
  <2> QED
    BY <2>1, <2>5, <2>7, OneNears
<1>6. ASSUME WriteConfig(c) PROVE Nears(c)
  BY <1>3, <1>4, <1>6 DEF WriteConfig, Doing
<1>7. ASSUME CommitConfig(c) \/ ConfigFails(c) \/ DeadlockDetected(c) PROVE Nears(c)
  BY <1>3, <1>7 DEF CommitConfig, ConfigFails, DeadlockDetected
<1> QED
  BY <1>1, <1>5, <1>6, <1>7 DEF ConfigProgress

-----------------------------------------------------------------------------
(* Every step.                                                             *)

LEMMA QuestionNears ==
  ASSUME AllFit, TurnsFit, NEW c \in Clients, QuestionProgress(c)
  PROVE  /\ req[c].kind = "question"
         /\ req'[c].kind = "question" => req'[c].turn \in 0..MaxTurns
         /\ req'[c].kind \in {"question", "none"}
         /\ \A d \in Clients \ {c} : req'[d] = req[d]
         /\ \/ Remaining(req'[c]) < Remaining(req[c])
            \/ req'[c] = req[c] /\ call[c] = NoCall /\ call'[c].state = "sent" /\ call'[c].tries = Tries
<1>1. QuestionMoving(c) /\ req[c].kind = "question" /\ DOMAIN req = Clients
  BY QuestionMovesOn DEF AllFit
<1>2. req[c].at \in QuestionPlaces /\ req[c].turn \in 0..MaxTurns
  BY <1>1, AQuestion DEF TurnsFit, QuestionOk, QuestionRequest, QuestionPlaces
<1>3. CASE req' = [req EXCEPT ![c] = req[c]] /\ call[c] = NoCall /\ call'[c].state = "sent" /\ call'[c].tries = Tries
  BY <1>1, <1>2, <1>3
<1>4. ASSUME NEW r, req' = [req EXCEPT ![c] = r], r = NoRequest \/ QuestionMove(req[c], r)
      PROVE  /\ req'[c] = r /\ \A d \in Clients \ {c} : req'[d] = req[d]
             /\ r.kind \in {"question", "none"} /\ (r.kind = "question" => r.turn \in 0..MaxTurns)
             /\ Remaining(r) < Remaining(req[c])
  <2>1. req'[c] = r /\ \A d \in Clients \ {c} : req'[d] = req[d]
    BY <1>1, <1>4
  <2>2. CASE r = NoRequest
    BY <1>1, <1>2, <2>1, <2>2, QuestionRanks, Remainings, NoRequestIsOne
  <2>3. CASE QuestionMove(req[c], r)
    <3>1. r.kind = "question"
      BY <2>3 DEF QuestionMove
    <3> QED
      BY <1>1, <1>2, <2>1, <2>3, <3>1, QuestionMoveNears, Remainings
  <2> QED
    BY <1>4, <2>2, <2>3
<1> QED
  BY <1>1, <1>3, <1>4 DEF QuestionMoving

LEMMA AgentNears ==
  ASSUME AllFit, TurnsFit, NEW c \in Clients, AgentProgress(c)
  PROVE  /\ req[c].kind = "agent"
         /\ req'[c].kind = "agent" => req'[c].turn \in 0..MaxTurns
         /\ req'[c].kind \in {"agent", "none"}
         /\ \A d \in Clients \ {c} : req'[d] = req[d]
         /\ Remaining(req'[c]) < Remaining(req[c])
<1>1. AgentMoving(c) /\ req[c].kind = "agent" /\ DOMAIN req = Clients
  BY AgentMovesOn DEF AllFit
<1>2. req[c].at \in AgentPlaces /\ req[c].turn \in 0..MaxTurns
  BY <1>1, AnAgent DEF TurnsFit, AgentOk, AgentRequest, AgentPlaces
<1>3. PICK r : req' = [req EXCEPT ![c] = r] /\ (r = NoRequest \/ AgentMove(req[c], r))
  BY <1>1 DEF AgentMoving
<1>4. req'[c] = r /\ \A d \in Clients \ {c} : req'[d] = req[d]
  BY <1>1, <1>3
<1>5. CASE r = NoRequest
  BY <1>1, <1>2, <1>4, <1>5, AgentRanks, Remainings, NoRequestIsOne
<1>6. CASE AgentMove(req[c], r)
  <2>1. r.kind = "agent"
    BY <1>6 DEF AgentMove
  <2> QED
    BY <1>1, <1>2, <1>4, <1>6, <2>1, AgentMoveNears, Remainings
<1> QED
  BY <1>3, <1>5, <1>6

\* An answer and a failed attempt leave fewer attempts.
LEMMA CallNears ==
  ASSUME AllFit, NEW c \in Clients, CallStep(c)
  PROVE  /\ UNCHANGED req /\ Sent(c) /\ Attempts(call'[c]) < Attempts(call[c])
         /\ \A d \in Clients \ {c} : call'[d] = call[d]
<1>1. PICK x : x = call[c]
  OBVIOUS
<1>2. Sent(c) /\ x.state = "sent"
  BY <1>1 DEF CallStep, Answer, AttemptFails, Sent
<1>3. x \in SentCalls /\ x # NoCall
  <2>1. CallOk(x)
    BY <1>1, NoCallIsOk DEF AllFit, Fitting
  <2> QED
    BY <1>2, <2>1 DEF CallOk, NoCall, Answered, Answers
<1>4. x.tries \in Nat \ {0} /\ DOMAIN x = {"state", "full", "window", "enforced", "tools", "tries"}
  BY <1>3, TriesAssumption DEF SentCalls
<1>5. Attempts(x) = x.tries
  BY <1>2, <1>3 DEF Attempts
<1>6. \A a \in Answers : Attempts(Answered(a)) = 0
  BY DEF Attempts, Answers, Answered, NoCall
<1>7. DOMAIN call = Clients
  BY DEF AllFit
<1>8. ASSUME NEW y, call' = [call EXCEPT ![c] = y], Attempts(y) < Attempts(x)
      PROVE  Attempts(call'[c]) < Attempts(call[c]) /\ \A d \in Clients \ {c} : call'[d] = call[d]
  BY <1>1, <1>7, <1>8
<1>9. ASSUME NEW a \in Answers, call' = [call EXCEPT ![c] = Answered(a)]
      PROVE  Attempts(call'[c]) < Attempts(call[c]) /\ \A d \in Clients \ {c} : call'[d] = call[d]
  <2>1. Attempts(Answered(a)) < Attempts(x)
    BY <1>4, <1>5, <1>6
  <2> QED
    BY <1>8, <1>9, <2>1
<1>10. ASSUME NEW refused, x.tries > 1, call' = [call EXCEPT ![c] = Retried(x, refused)]
       PROVE  Attempts(call'[c]) < Attempts(call[c]) /\ \A d \in Clients \ {c} : call'[d] = call[d]
  <2>1. PICK y : y = Retried(x, refused)
    OBVIOUS
  <2>2. y.state = "sent" /\ y.tries = x.tries - 1
    BY <1>2, <1>4, <2>1 DEF Retried
  <2>3. y # NoCall
    BY <2>2 DEF NoCall
  <2>4. Attempts(y) = y.tries
    BY <2>2, <2>3 DEF Attempts
  <2>5. Attempts(y) < Attempts(x)
    BY <1>4, <1>5, <2>2, <2>4
  <2> QED
    BY <1>8, <1>10, <2>1, <2>5
<1>11. ASSUME NEW a \in {"text", "empty", "tools"}, Answer(c, a)
       PROVE  Attempts(call'[c]) < Attempts(call[c]) /\ \A d \in Clients \ {c} : call'[d] = call[d]
  BY <1>9, <1>11 DEF Answer, Answers
<1>12. ASSUME NEW refused \in BOOLEAN, AttemptFails(c, refused)
       PROVE  Attempts(call'[c]) < Attempts(call[c]) /\ \A d \in Clients \ {c} : call'[d] = call[d]
  <2>1. call' = [call EXCEPT ![c] = IF x.tries > 1 THEN Retried(x, refused)
                                    ELSE Answered(IF refused THEN "refused" ELSE "failed")]
    BY <1>1, <1>12 DEF AttemptFails
  <2>2. CASE x.tries > 1
    BY <1>10, <2>1, <2>2
  <2>3. CASE ~(x.tries > 1)
    <3>1. PICK a \in Answers : a = IF refused THEN "refused" ELSE "failed"
      BY DEF Answers
    <3> QED
      BY <1>9, <2>1, <2>3, <3>1
  <2> QED
    BY <2>2, <2>3
<1> QED
  BY <1>2, <1>11, <1>12, CallIsNone DEF CallStep, requestVars

\* What a step of c leaves to the others' calls.
LEMMA CallsElsewhere ==
  ASSUME AllFit, NEW c \in Clients, ReportStep(c) \/ QuestionStep(c) \/ AgentStep(c)
  PROVE  \A d \in Clients \ {c} : call'[d] = call[d]
<1>1. DOMAIN call = Clients
  BY DEF AllFit
<1>2. ASSUME NEW r, NEW x, OneStep(c, r, x) PROVE \A d \in Clients \ {c} : call'[d] = call[d]
  BY <1>1, <1>2 DEF OneStep
<1>3. CASE ReportStep(c)
  BY <1>1, <1>3 DEF ReportStep, RequestReport, ReportProgress, ReportFails, ReadActiveConfig, GatherFacts, WriteNarrative,
                    LookForReports, DeleteReports, StoreReport, ConvertReport, CallLlm, Calls, Proceeds
<1>4. CASE QuestionStep(c)
  BY <1>2, <1>4, QuestionProgressGoes DEF QuestionStep, AskQuestion, QuestionGoes
<1>5. CASE AgentStep(c)
  BY <1>2, <1>5, AgentProgressGoes DEF AgentStep, StartAgent, AgentGoes
<1> QED
  BY <1>3, <1>4, <1>5

Steady(c) == Remaining(req'[c]) = Remaining(req[c]) /\ call'[c] = call[c]

\* What a request does that is in progress.
Continues(c) ==
  \/ (ConfigProgress(c) \/ ConfigFails(c)) /\ UNCHANGED call
  \/ ReportProgress(c) \/ ReportFails(c)
  \/ (ChoiceProgress(c) \/ SelectFails(c)) /\ UNCHANGED call
  \/ QuestionProgress(c) \/ AgentProgress(c)
  \/ Call(c)

LEMMA ContinuingIsCloser ==
  ASSUME AllFit, TurnsFit, NEW c \in Clients, Continues(c)
  PROVE  Closer(c) /\ \A d \in Clients \ {c} : Steady(d)
<1>1. ASSUME Nears(c), \A d \in Clients \ {c} : call'[d] = call[d] PROVE Closer(c) /\ \A d \in Clients \ {c} : Steady(d)
  BY <1>1 DEF Nears, Closer, Steady
<1>2. CASE (ConfigProgress(c) \/ ConfigFails(c)) /\ UNCHANGED call
  BY <1>1, <1>2, ConfigNears
<1>3. CASE ReportProgress(c) \/ ReportFails(c)
  BY <1>1, <1>3, ReportNears, CallsElsewhere DEF ReportStep
<1>4. CASE (ChoiceProgress(c) \/ SelectFails(c)) /\ UNCHANGED call
  BY <1>1, <1>4, ChoiceNears
<1>5. CASE QuestionProgress(c)
  <2>1. \A d \in Clients \ {c} : Steady(d)
    BY <1>5, QuestionNears, CallsElsewhere DEF QuestionStep, Steady
  <2>2. CASE Remaining(req'[c]) < Remaining(req[c])
    BY <2>1, <2>2 DEF Closer
  <2>3. CASE req'[c] = req[c] /\ call[c] = NoCall /\ call'[c].state = "sent" /\ call'[c].tries = Tries
    <3>1. Attempts(call[c]) = Tries + 1
      BY <2>3 DEF Attempts
    <3>2. Attempts(call'[c]) = Tries
      <4>1. call'[c] # NoCall
        BY <2>3 DEF NoCall
      <4> QED
        BY <2>3, <4>1 DEF Attempts
    <3>3. Attempts(call'[c]) < Attempts(call[c])
      BY <3>1, <3>2, TriesAssumption
    <3> QED
      BY <2>1, <2>3, <3>3 DEF Closer
  <2> QED
    BY <1>5, <2>2, <2>3, QuestionNears
<1>6. CASE AgentProgress(c)
  <2>1. \A d \in Clients \ {c} : Steady(d)
    BY <1>6, AgentNears, CallsElsewhere DEF AgentStep, Steady
  <2> QED
    BY <1>6, <2>1, AgentNears DEF Closer
<1>7. CASE Call(c)
  BY <1>7, CallNears DEF Call, Closer, Steady
<1> QED
  BY <1>2, <1>3, <1>4, <1>5, <1>6, <1>7 DEF Continues

\* A request that begins was none, and no other one has more left than before.
LEMMA BeginningIsSteady ==
  ASSUME AllFit, NEW c \in Clients, ChangeConfig(c) \/ MakeReport(c) \/ Choose(c) \/ Question(c) \/ RunAgent(c) \/ Call(c)
  PROVE  Continues(c) \/ (req[c] = NoRequest /\ \A d \in Clients \ {c} : Steady(d))
<1>1. DOMAIN req = Clients
  BY DEF AllFit
<1>2. ASSUME NEW r, Begin(c, r), UNCHANGED call PROVE req[c] = NoRequest /\ \A d \in Clients \ {c} : Steady(d)
  BY <1>1, <1>2, FreeAsks DEF Begin, Steady
<1>3. ASSUME NEW row, CreateConfig(c, row), UNCHANGED call PROVE req[c] = NoRequest /\ \A d \in Clients \ {c} : Steady(d)
  BY <1>3, FreeAsks, WritingLeaves DEF CreateConfig, Steady
<1>4. CASE ChangeConfig(c)
  BY <1>2, <1>3, <1>4 DEF ChangeConfig, ConfigStep, PatchConfig, DeleteConfig, ReadConfig, Continues
<1>5. CASE MakeReport(c)
  BY <1>2, <1>5 DEF MakeReport, ReportStep, RequestReport, Continues
<1>6. CASE Choose(c)
  BY <1>2, <1>6 DEF Choose, ChoiceStep, SelectChoice, Continues
<1>7. CASE Question(c)
  BY <1>2, <1>7 DEF Question, QuestionStep, AskQuestion, Continues
<1>8. CASE RunAgent(c)
  BY <1>2, <1>8 DEF RunAgent, AgentStep, StartAgent, Continues
<1> QED
  BY <1>4, <1>5, <1>6, <1>7, <1>8 DEF Continues

LEMMA InitTurnsFit == Init => TurnsFit
  BY NoRequestIsOne DEF Init, InitRequests, TurnsFit

LEMMA NextKeepsTurnsFit == RequestsInv /\ TurnsFit /\ [Next]_vars => TurnsFit'
<1> SUFFICES ASSUME RequestsInv, TurnsFit, [Next]_vars PROVE TurnsFit'
  OBVIOUS
<1>1. Tagged /\ AllFit /\ DOMAIN req = Clients /\ MaxTurns \in Nat
  BY QuestionsAssumption DEF RequestsInv, AllFit
<1>2. ASSUME NEW kind \in Kinds \ {"question", "agent"}, Only(kind) PROVE TurnsFit'
  BY <1>2 DEF Only, TurnsFit, Kinds
<1>3. ASSUME NEW c \in Clients, NEW r, Begin(c, r), r.turn = 0 PROVE TurnsFit'
  BY <1>1, <1>3 DEF Begin, TurnsFit
<1>4. CASE UNCHANGED vars
  BY <1>4 DEF TurnsFit, vars
<1>5. ASSUME NEW c \in Clients, ChangeConfig(c) \/ MakeReport(c) \/ Choose(c) PROVE TurnsFit'
  BY <1>1, <1>2, <1>5, ConfigIsOnly, ReportIsOnly, ChoiceIsOnly DEF ChangeConfig, MakeReport, Choose, Kinds
<1>6. ASSUME NEW c \in Clients, Question(c) PROVE TurnsFit'
  <2>1. CASE QuestionProgress(c)
    BY <1>1, <2>1, QuestionNears DEF TurnsFit
  <2>2. ASSUME NEW mode, NEW size, NEW history, AskQuestion(c, mode, size, history) PROVE TurnsFit'
    <3>1. PICK at : Begin(c, [kind |-> "question", mode |-> mode, size |-> size, history |-> history, window |-> 0, at |-> at,
                              queries |-> 0, texts |-> {}, chunks |-> <<>>, log |-> <<>>, turn |-> 0])
      BY <2>2 DEF AskQuestion
    <3> QED
      BY <1>3, <3>1
  <2> QED
    BY <1>6, <2>1, <2>2 DEF Question, QuestionStep
<1>7. ASSUME NEW c \in Clients, RunAgent(c) PROVE TurnsFit'
  <2>1. CASE AgentProgress(c)
    BY <1>1, <2>1, AgentNears DEF TurnsFit
  <2>2. ASSUME NEW size, NEW failing, StartAgent(c, size, failing) PROVE TurnsFit'
    <3>1. PICK log : Begin(c, [kind |-> "agent", at |-> "playbook", window |-> Window, turn |-> 0, guided |-> FALSE, log |-> log])
      BY <2>2 DEF StartAgent
    <3> QED
      BY <1>3, <3>1
  <2> QED
    BY <1>7, <2>1, <2>2 DEF RunAgent, AgentStep
<1>8. ASSUME NEW c \in Clients, Call(c) PROVE TurnsFit'
  BY <1>8, CallIsNone DEF Call, TurnsFit, requestVars
<1> QED
  BY <1>4, <1>5, <1>6, <1>7, <1>8 DEF Next

\* What is left is a number, and nothing is left of a request that has ended only.
Counted ==
  \A c \in Clients : /\ Remaining(req[c]) \in Nat /\ Attempts(call[c]) \in Nat
                     /\ Remaining(req[c]) = 0 <=> req[c] = NoRequest

LEMMA RequestsAreCounted ==
  ASSUME AllFit, TurnsFit
  PROVE  Counted
<1> SUFFICES ASSUME NEW c \in Clients
             PROVE  /\ Remaining(req[c]) \in Nat /\ Attempts(call[c]) \in Nat
                    /\ Remaining(req[c]) = 0 <=> req[c] = NoRequest
  BY DEF Counted
<1>1. Fitting(req[c], call[c], clock)
  BY DEF AllFit
<1>2. Attempts(call[c]) \in Nat
  <2>1. CallOk(call[c])
    BY <1>1, NoCallIsOk DEF Fitting
  <2>2. call[c] \in SentCalls => call[c].tries \in Nat
    BY TriesAssumption DEF SentCalls
  <2>3. \A a \in Answers : Answered(a).state # "sent"
    BY DEF Answers, Answered
  <2> QED
    BY <2>1, <2>2, <2>3, TriesAssumption DEF CallOk, Attempts
<1>3. Remaining(req[c]) \in Nat \ {0} \/ req[c] = NoRequest
  <2>1. CASE req[c].kind = "question"
    <3>1. req[c].at \in QuestionPlaces /\ req[c].turn \in 0..MaxTurns
      BY <2>1, AQuestion DEF TurnsFit, QuestionOk, QuestionRequest, QuestionPlaces
    <3> QED
      BY <2>1, <3>1, QuestionRanks, Remainings
  <2>2. CASE req[c].kind = "agent"
    <3>1. req[c].at \in AgentPlaces /\ req[c].turn \in 0..MaxTurns
      BY <2>2, AnAgent DEF TurnsFit, AgentOk, AgentRequest, AgentPlaces
    <3> QED
      BY <2>2, <3>1, AgentRanks, Remainings
  <2>3. CASE req[c].kind = "config"
    BY <2>3, AConfig, OtherRanks, Remainings
  <2>4. CASE req[c].kind \in {"report", "choice"}
    BY <2>4, OtherRanks, Remainings
  <2>5. CASE req[c].kind = "none"
    BY <1>1, <2>5, KindsOfRequests
  <2> QED
    BY <1>1, <2>1, <2>2, <2>3, <2>4, <2>5, KindsOfRequests DEF Kinds
<1> QED
  BY <1>2, <1>3, Remainings

\* Whatever request goes on or calls comes closer to its end, and no step, of it or of
\* another request, takes one that is in progress farther from it.
EachComesCloser ==
  \A c \in Clients : /\ Progress(c) \/ Call(c) => Closer(c)
                     /\ req[c] # NoRequest => Closer(c) \/ Steady(c)

LEMMA StepsComeCloser == RequestsInv /\ TurnsFit /\ [Next]_vars => EachComesCloser
<1> SUFFICES ASSUME RequestsInv, TurnsFit, [Next]_vars, NEW c \in Clients
             PROVE  /\ Progress(c) \/ Call(c) => Closer(c)
                    /\ req[c] # NoRequest => Closer(c) \/ Steady(c)
  BY DEF EachComesCloser
<1>1. AllFit
  BY DEF RequestsInv
<1>2. Progress(c) \/ Call(c) => Continues(c)
  BY DEF Progress, Continues
<1>3. ASSUME NEW d \in Clients, ChangeConfig(d) \/ MakeReport(d) \/ Choose(d) \/ Question(d) \/ RunAgent(d) \/ Call(d),
             req[c] # NoRequest
      PROVE  Closer(c) \/ Steady(c)
  <2>1. Continues(d) \/ (req[d] = NoRequest /\ \A e \in Clients \ {d} : Steady(e))
    BY <1>1, <1>3, BeginningIsSteady
  <2> QED
    BY <1>1, <1>3, <2>1, ContinuingIsCloser
<1>4. UNCHANGED vars => Steady(c)
  BY DEF vars, Steady
<1> QED
  BY <1>1, <1>2, <1>3, <1>4, ContinuingIsCloser DEF Next

\* However long the loops of questions and agents, and however often calls are repeated
\* and configurations, reports and choices get in each other's way: every step that a
\* request is fair to take lowers the number of its steps to come or, while that stays
\* the same, of its attempts, and only a new request raises either.
THEOREM RequestsAdvance == Spec => []Counted /\ [][EachComesCloser]_vars
<1>1. Spec => [](RequestsInv /\ TurnsFit)
  BY InitRequestsInv, NextKeepsRequestsInv, InitTurnsFit, NextKeepsTurnsFit, PTL DEF Spec
<1>2. RequestsInv /\ TurnsFit => Counted
  BY RequestsAreCounted DEF RequestsInv
<1>3. RequestsInv /\ TurnsFit /\ [Next]_vars => [EachComesCloser]_vars
  BY StepsComeCloser
<1> QED
  BY <1>1, <1>2, <1>3, PTL DEF Spec
=============================================================================
