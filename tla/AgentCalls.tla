------------------------------ MODULE AgentCalls ------------------------------
(***************************************************************************)
(* The conversation of an agent with the model: two calls a turn, the log  *)
(* that grows by them, and its compaction. (When an agent's job is claimed,*)
(* cancelled or ended is in AgentJobs; here is what it sends.)             *)
(***************************************************************************)
EXTENDS Questions

CONSTANT FirstFailing  \* bound: which of the reads of the context may be the first to fail

ASSUME FirstFailingAssumption == FirstFailing \subseteq Nat \ {0}

AgentRequest ==
  [kind: {"agent"}, at: {"playbook", "strategy", "plan", "planned", "analysed", "compact", "summarised", "final"},
   window: Nat, turn: Nat, guided: BOOLEAN,
   log: Seq(Messages)]

\* Sizes of the agent's own texts, in units: its instructions, the parts of what it
\* is told of the investigation, a playbook, the generic strategy.
Instructions == 8
ContextParts == <<1, 4, 2>>
PlaybookSize == 8
StrategySize == 2

\* The configuration of the moment serves the whole run. Of the context there is
\* what was read before a statement failed.
StartAgent(c, size, failing) ==
  LET log == <<Message("system", Instructions + InvestigationContext(ContextParts, failing), 0), Message("user", size, 1)>>
  IN
  /\ Of("agent") = {} /\ ~NoneActive /\ ~TwoActive
  /\ Begin(c, [kind |-> "agent", at |-> "playbook", window |-> Window, turn |-> 0,
               guided |-> FALSE, log |-> log])
  /\ UNCHANGED <<call, configs>>

\* Which playbook: asked once for the announcement, and again in every turn.
PlaybookMessages(c) == <<Message("user", PlaybookSize + req[c].log[2].size, 0)>>
ChoosePlaybook(c) ==
  /\ At(c, "agent", "playbook")
  /\ CallLlm(c, [req[c] EXCEPT !.at = "strategy"], PlaybookMessages(c), req[c].window, FALSE)
  /\ UNCHANGED configs

\* The next turn, or a summary of what there is.
NextTurn(c) ==
  /\ At(c, "agent", "strategy") \/ \E a \in Answers : Told(c, "agent", "strategy", a)
  /\ IF req[c].turn < MaxTurns
     THEN CallLlm(c, [req[c] EXCEPT !.at = "plan", !.turn = @ + 1], PlaybookMessages(c), req[c].window, FALSE)
     ELSE LET log == Adds(req[c].log, <<<<"user", 1>>>>) IN
          CallLlm(c, [req[c] EXCEPT !.at = "final", !.log = log], log, req[c].window, FALSE)
  /\ UNCHANGED configs

\* The strategy is the last message of the prompt.
PlanTools(c, guided) ==
  LET log == Adds(req[c].log, <<<<"system", IF guided THEN PlaybookSize ELSE StrategySize>>>>) IN
  /\ \E a \in Answers : Told(c, "agent", "plan", a) /\ (guided => a = "text")
  /\ CallLlm(c, [req[c] EXCEPT !.at = "planned", !.guided = guided, !.log = log], log, req[c].window, TRUE)
  /\ UNCHANGED configs

\* Tools that a model refuses after its first turn end the run.
PlanIsRefused(c) ==
  /\ Told(c, "agent", "planned", "refused") /\ req[c].turn > 1
  /\ Finishes(c)
  /\ UNCHANGED configs

\* The generic strategy is taken out again, a playbook stays. The calls and their
\* results are added, and what the tools found in short; the model is asked about it.
AnalyseResults(c, sizes) ==
  LET before == IF req[c].guided THEN req[c].log ELSE Front(req[c].log)
      used(a) == IF a = "tools" THEN ToolMessages(sizes) ELSE <<>>
  IN
  /\ \E a \in Answers :
       /\ Told(c, "agent", "planned", a)
       /\ LET log == Adds(before, used(a) \o <<<<"system", 1>>>>) IN
          CallLlm(c, [req[c] EXCEPT !.at = "analysed", !.log = log], log, req[c].window, TRUE)
  /\ UNCHANGED configs

\* A tool says that the investigation is complete, with a summary or without: the
\* model is then asked for one.
CompleteInvestigation(c, sizes, summarised) ==
  LET before == IF req[c].guided THEN req[c].log ELSE Front(req[c].log)
      log == Adds(before, ToolMessages(sizes) \o <<<<"user", 1>>>>)
  IN
  /\ Told(c, "agent", "planned", "tools")
  /\ IF summarised THEN Finishes(c)
     ELSE CallLlm(c, [req[c] EXCEPT !.at = "final", !.log = log], log, req[c].window, FALSE)
  /\ UNCHANGED configs

\* The analysis is added if there is one.
TakeAnalysis(c) ==
  /\ \E a \in Answers :
       /\ Told(c, "agent", "analysed", a)
       /\ Proceeds(c, [req[c] EXCEPT !.at = "compact", !.log = IF a = "text" THEN Adds(@, <<<<"assistant", 1>>>>) ELSE @])
  /\ UNCHANGED configs

\* One of the tools the model calls in its analysis says that the investigation is
\* complete: whether or not it was offered in this turn, it is executed and ends the run.
AnalysisCompletes(c) == Told(c, "agent", "analysed", "tools") /\ Finishes(c) /\ UNCHANGED configs

\* What is kept of the log for the next turn.
CompactLog(c, summary) ==
  GoOn(c, [req[c] EXCEPT !.at = "strategy", !.log = MaybeCompact(@, req[c].window, summary)])

\* When its job has been run before, there may be a summary of this turn already.
LoadSummary(c) ==
  /\ At(c, "agent", "compact")
  /\ CompactLog(c, SummarySize)
  /\ UNCHANGED <<call, configs>>

\* A log that is too long is summarised.
CompactOrSummarise(c) ==
  LET log == req[c].log IN
  /\ At(c, "agent", "compact")
  /\ IF Tokens(log) > Limit(req[c].window) /\ Len(log) > 7
     THEN CallLlm(c, [req[c] EXCEPT !.at = "summarised"], SummaryPrompt(SubSeq(log, 3, Len(log) - 5)), req[c].window, FALSE)
     ELSE CompactLog(c, SummarySize) /\ UNCHANGED call
  /\ UNCHANGED configs

\* A template replaces a summary that could not be had.
TakeSummary(c) ==
  /\ \E a \in Answers :
       /\ Told(c, "agent", "summarised", a)
       /\ CompactLog(c, IF a = "text" THEN SummarySize ELSE FallbackSize)
  /\ call' = [call EXCEPT ![c] = NoCall]
  /\ UNCHANGED configs

EndRun(c) == (\E a \in Answers : Told(c, "agent", "final", a)) /\ Finishes(c) /\ UNCHANGED configs

AgentProgress(c) ==
  \/ ChoosePlaybook(c) \/ NextTurn(c) \/ (\E guided \in BOOLEAN : PlanTools(c, guided)) \/ PlanIsRefused(c)
  \/ (\E sizes \in ToolResults : AnalyseResults(c, sizes) \/ \E b \in BOOLEAN : CompleteInvestigation(c, sizes, b))
  \/ TakeAnalysis(c) \/ AnalysisCompletes(c) \/ LoadSummary(c) \/ CompactOrSummarise(c) \/ TakeSummary(c)
  \/ EndRun(c)

AgentStep(c) ==
  \/ \E size \in QuestionSizes, failing \in FirstFailing : StartAgent(c, size, failing)
  \/ AgentProgress(c)
=============================================================================
