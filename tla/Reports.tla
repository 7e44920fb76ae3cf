-------------------------------- MODULE Reports --------------------------------
(***************************************************************************)
(* The reports of an investigation: each request to generate one, as text  *)
(* or as a file, makes it anew and replaces the ones there are.            *)
(***************************************************************************)
EXTENDS LlmConfigs, LlmCalls

VARIABLE reports  \* the committed rows, each by the number of its request

ReportRequest ==
  [kind: {"report"}, at: {"config", "facts", "narrative", "delete", "rows", "store", "file"},
   began: Nat, download: BOOLEAN, llm: BOOLEAN,
   seen: SUBSET Nat,  \* the reports that its DELETE looks at
   lone: BOOLEAN]     \* no other request has deleted and not yet stored

\* LLMClient is given no window: its default, in units.
DefaultWindow == Units(32768)

Deleters == {c \in Of("report") : req[c].at \in {"rows", "store"}}

RequestReport(c, download) ==
  /\ Begin(c, [kind |-> "report", at |-> "config", began |-> clock + 1, download |-> download, llm |-> FALSE,
               seen |-> {}, lone |-> FALSE])
  /\ UNCHANGED <<call, reports>>

\* Two active configurations are an error, none is a report without a narrative.
ReadActiveConfig(c) ==
  /\ At(c, "report", "config")
  /\ IF TwoActive THEN End(c) ELSE GoOn(c, [req[c] EXCEPT !.llm = ~NoneActive, !.at = "facts"])
  /\ UNCHANGED <<call, reports>>

\* The investigation may be gone; its artifacts, timeline and events are read.
GatherFacts(c, facts, wish) ==
  /\ At(c, "report", "facts")
  /\ IF req[c].llm THEN CallLlm(c, [req[c] EXCEPT !.at = "narrative"], ReportPrompt(facts, wish), DefaultWindow, FALSE)
     ELSE GoTo(c, "delete") /\ UNCHANGED call
  /\ UNCHANGED reports

\* Whatever came of the call, there is a narrative: an error is a text too.
WriteNarrative(c) ==
  /\ \E a \in Answers : Told(c, "report", "narrative", a)
  /\ Proceeds(c, [req[c] EXCEPT !.at = "delete"])
  /\ UNCHANGED reports

\* create_report's DELETE looks for the rows, waits for those that another DELETE
\* holds, and leaves out those that are gone by then.
LookForReports(c) ==
  /\ At(c, "report", "delete")
  /\ LET r == [req[c] EXCEPT !.at = "rows", !.seen = reports, !.lone = Deleters = {}] IN
     req' = [d \in Clients |-> IF d = c THEN r ELSE IF d \in Deleters THEN [req[d] EXCEPT !.lone = FALSE] ELSE req[d]]
  /\ UNCHANGED <<left, clock, call, reports>>

DeleteReports(c) ==
  /\ At(c, "report", "rows")
  /\ \A d \in Deleters \ {c} : req[d].at = "store" => req[d].seen \cap req[c].seen \cap reports = {}
  /\ GoOn(c, [req[c] EXCEPT !.at = "store", !.seen = @ \cap reports])
  /\ UNCHANGED <<call, reports>>

\* Mutant: the old reports are deleted, and that is committed, before the new one is inserted.
StoreReportLater(c) ==
  /\ At(c, "report", "store")
  /\ IF req[c].seen # {} THEN reports' = reports \ req[c].seen /\ GoOn(c, [req[c] EXCEPT !.seen = {}])
     ELSE reports' = reports \cup {req[c].began} /\ End(c)
  /\ UNCHANGED call

\* The new row and the COMMIT.
StoreReport(c) ==
  /\ At(c, "report", "store")
  /\ reports' = (reports \ req[c].seen) \cup {req[c].began}
  /\ IF req[c].download THEN GoTo(c, "file") ELSE End(c)
  /\ UNCHANGED call

\* The PDF is made of the text, is too large or not: the report stays.
ConvertReport(c) == At(c, "report", "file") /\ End(c) /\ UNCHANGED <<call, reports>>

ReportFails(c) ==
  /\ \E at \in {"facts", "delete", "rows", "store"} : At(c, "report", at)
  /\ End(c)
  /\ UNCHANGED <<call, reports>>

InitReports == reports \in {{}, {0}}

\* get_latest_report: of several, the one whose transaction began last.
HasReport == reports # {}
LatestReport == IF HasReport THEN {Max(reports)} ELSE {}

ReportProgress(c) ==
  \/ ReadActiveConfig(c) \/ GatherFacts(c, 1, 1) \/ WriteNarrative(c)
  \/ LookForReports(c) \/ DeleteReports(c) \/ StoreReport(c) \/ ConvertReport(c)

ReportStep(c) ==
  \/ \E download \in BOOLEAN : RequestReport(c, download)
  \/ ReportProgress(c) \/ ReportFails(c)

-----------------------------------------------------------------------------
(* Properties.                                                             *)

\* Once an investigation has a report, one can be read at every moment; a request
\* during which no other one deleted leaves its own as the only one, and there are
\* never more of them than requests that can overlap.
ReportsReplaced ==
  /\ [](Cardinality(reports) <= Cardinality(Clients))
  /\ [][/\ HasReport => LatestReport' # {}
        /\ \A c \in Clients : StoreReport(c) /\ req[c].lone => reports' = {req[c].began}]_<<req, reports>>
=============================================================================
