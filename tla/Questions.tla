------------------------------- MODULE Questions -------------------------------
(***************************************************************************)
(* A question in the chat, from its router to the handlers that call the   *)
(* model (chat_router, query_expander, rag_handler, timeline_handler,      *)
(* event_handler, general_chat_handler). What the handlers write is in     *)
(* Timeline, EventIngest and ChatMessages; here is what they ask, and how  *)
(* a question ends.                                                        *)
(***************************************************************************)
EXTENDS LlmConfigs, LlmCalls, Retrieval

CONSTANTS
  WindowOf,        \* the window of each configuration's model, in units
  QuestionSizes,   \* sizes of a question, in units
  Histories,       \* conversations before it
  ToolResults,     \* results of one turn of tools, each a sequence of sizes
  Corpora,         \* sets of embedded texts
  Scale,           \* bound: how many texts one text of a corpus stands for
  MaxTurns         \* bound: turns of a loop (10 in the code)

ASSUME QuestionsAssumption ==
  /\ WindowOf \in [Configs -> Nat] /\ QuestionSizes \subseteq Nat
  /\ Histories \subseteq Seq(Messages) /\ ToolResults \subseteq Seq(Nat)
  /\ \A texts \in Corpora : IsCorpus(texts)
  /\ Scale \in Nat \ {0} /\ MaxTurns \in Nat

Modes == {"auto", "augmented", "timeline"}
Intents == {"insert", "timeline", "general", "policy"}

QuestionRequest ==
  [kind: {"question"}, mode: Modes, size: Nat, window: Nat, history: Histories,
   at: {"status", "config", "queries", "vectors", "ranked", "answer",
        "history", "expand", "expanded", "classify", "classified", "general", "extract", "extracted", "insert",
        "timeline", "loop", "tooled"},
   queries: Nat, texts: Corpora \cup {{}}, chunks: Seq(UNION Corpora), log: Seq(Messages),
   turn: Nat]

Goes(c, at) == GoTo(c, at) /\ UNCHANGED <<call, configs>>
Fails(c) == End(c) /\ UNCHANGED <<call, configs>>
Window == WindowOf[TheActive]

\* The router's first decision. What was said before is read in mode auto only.
AskQuestion(c, mode, size, history) ==
  /\ mode = "auto" \/ history = <<>>
  /\ Begin(c, [kind |-> "question", mode |-> mode, size |-> size, history |-> history, window |-> 0,
               at |-> CASE mode = "augmented" -> "status" [] mode = "auto" -> "history" [] OTHER -> "timeline",
               queries |-> 0, texts |-> {}, chunks |-> <<>>, log |-> <<>>, turn |-> 0])
  /\ UNCHANGED <<call, configs>>

-----------------------------------------------------------------------------
(* Augmented: retrieval, then an answer from what was retrieved.           *)

\* Without an active configuration, or one for embeddings, the question is refused,
\* with two the request fails; so it does when events are still to be embedded.
CheckStatus(c, usable) ==
  /\ At(c, "question", "status")
  /\ IF NoneActive \/ TwoActive \/ ~usable THEN Fails(c) ELSE Goes(c, "config")

\* The configuration is read again, as it is by now, and kept for the whole answer.
ExpandIntoQueries(c) ==
  /\ At(c, "question", "config")
  /\ IF NoneActive \/ TwoActive THEN Fails(c)
     ELSE CallAsIs(c, [req[c] EXCEPT !.at = "queries", !.window = Window], SearchPrompt(req[c].size), Window)
  /\ UNCHANGED configs

\* The question itself is searched for, with what the model adds to it if it answers.
EmbedQueries(c, added) ==
  /\ \E a \in Answers : Told(c, "question", "queries", a) /\ (added > 0 => a = "text")
  /\ CallEmbedder(c, [req[c] EXCEPT !.at = "vectors", !.queries = 1 + added])
  /\ UNCHANGED configs

\* All queries' texts, those of one query after those of the other.
FoundFor(texts, n, gone) ==
  UNION {Retrieve(texts, q, Max({1, QueryK(n) \div Scale}), gone) : q \in 1..n}

\* A failure in between gives all of it up.
RetrieveTexts(c, texts, gone) ==
  /\ \E a \in Answers : Told(c, "question", "vectors", a) /\ a = "text"
  /\ LET found == Deduplicate(FoundFor(texts, req[c].queries, gone), 200) IN
     Proceeds(c, [req[c] EXCEPT !.at = "ranked", !.texts = texts, !.chunks = found])
  /\ UNCHANGED configs

\* With a model for that, the texts are put in its order; if it fails, in their own.
RankTexts(c) == At(c, "question", "ranked") /\ CallEmbedder(c, req[c]) /\ UNCHANGED configs

RagMessages(c, chunks) == RagPrompt([i \in DOMAIN chunks |-> chunks[i].size], req[c].size)
AskForAnswer(c) ==
  /\ \/ At(c, "question", "ranked")
     \/ \E a \in Answers : Told(c, "question", "ranked", a)
  /\ LET chunks == IF call[c] = Answered("text") THEN Reranked(req[c].chunks, 100, 50) ELSE First(req[c].chunks, 50) IN
     CallLlm(c, [req[c] EXCEPT !.at = "answer", !.chunks = chunks], RagMessages(c, chunks), req[c].window, FALSE)
  /\ UNCHANGED configs

\* The answer is passed on and the transaction committed; none is an error.
TakeAnswer(c) == (\E a \in Answers : Told(c, "question", "answer", a)) /\ Finishes(c) /\ UNCHANGED configs

\* No vectors, or none of the texts can be read.
RetrievalFails(c) ==
  /\ \E a \in Answers : Told(c, "question", "vectors", a)
  /\ Finishes(c)
  /\ UNCHANGED configs

-----------------------------------------------------------------------------
(* Auto: the question is made more precise, then sorted.                   *)

\* A long question and a command are taken as they are.
FetchHistory(c, detailed) ==
  /\ At(c, "question", "history")
  /\ Goes(c, IF detailed THEN "classify" ELSE "expand")

\* Whatever prevents it, the question is taken as it is.
ExpandQuery(c, readable) ==
  /\ At(c, "question", "expand")
  /\ IF NoneActive \/ TwoActive THEN GoTo(c, "classify") /\ UNCHANGED call
     ELSE CallAsIs(c, [req[c] EXCEPT !.at = "expanded"], ExpansionPrompt(req[c].history, req[c].size, readable), Window)
  /\ UNCHANGED configs

\* An expansion may be a hundred times as long.
TakeExpansion(c, size) ==
  /\ \E a \in Answers : Told(c, "question", "expanded", a) /\ (size # req[c].size => a = "text" /\ size < 100 * req[c].size)
  /\ Proceeds(c, [req[c] EXCEPT !.at = "classify", !.size = size])
  /\ UNCHANGED configs

\* Two active configurations end the question here, none is answered by keywords.
ClassifyIntent(c) ==
  /\ At(c, "question", "classify")
  /\ IF TwoActive THEN End(c) /\ UNCHANGED call
     ELSE IF NoneActive THEN GoTo(c, "classified") /\ UNCHANGED call
     ELSE CallAsIs(c, [req[c] EXCEPT !.at = "classified"], ClassificationPrompt(req[c].history, req[c].size), Window)
  /\ UNCHANGED configs

\* The model's word for it, or the keywords'. A policy is the agent's from here on.
RouteIntent(c, intent) ==
  /\ At(c, "question", "classified") \/ \E a \in Answers : Told(c, "question", "classified", a)
  /\ IF intent = "policy" THEN Finishes(c)
     ELSE Proceeds(c, [req[c] EXCEPT !.at = IF intent = "insert" THEN "extract" ELSE intent])
  /\ UNCHANGED configs

\* A general question reads columns that there are not: it never gets to a prompt.
AnswerGeneral(c) == At(c, "question", "general") /\ Fails(c)

\* Events in the question are taken as JSON, YAML or CSV, or as the model reads them.
ExtractEvents(c, structured) ==
  /\ At(c, "question", "extract")
  /\ IF structured THEN GoTo(c, "insert") /\ UNCHANGED call
     ELSE IF NoneActive \/ TwoActive THEN End(c) /\ UNCHANGED call
     ELSE CallAsIs(c, [req[c] EXCEPT !.at = "extracted"], ExtractPrompt(req[c].size), Window)
  /\ UNCHANGED configs

TakeEvents(c, some) ==
  /\ \E a \in Answers : Told(c, "question", "extracted", a) /\ (some => a = "text")
  /\ IF some THEN Proceeds(c, [req[c] EXCEPT !.at = "insert"]) ELSE Finishes(c)
  /\ UNCHANGED configs

\* All of them in one transaction, or an error.
InsertEvents(c) == At(c, "question", "insert") /\ Fails(c)

-----------------------------------------------------------------------------
(* Timeline: a loop of calls and tools.                                    *)

\* Messages added to a log, in their order.
Adds(log, ms) == log \o [i \in DOMAIN ms |-> Message(ms[i][1], ms[i][2], Last(log).place + i)]
ToolMessages(sizes) == <<<<"assistant", 1>>>> \o [i \in DOMAIN sizes |-> <<"tool", sizes[i]>>]

StartTimeline(c) ==
  /\ At(c, "question", "timeline")
  /\ IF NoneActive \/ TwoActive THEN Fails(c)
     ELSE GoOn(c, [req[c] EXCEPT !.at = "loop", !.window = Window, !.log = TimelinePrompt(req[c].size)])
          /\ UNCHANGED <<call, configs>>

\* After the last turn the operation is reported as incomplete.
AskForTools(c) ==
  /\ At(c, "question", "loop")
  /\ IF req[c].turn = MaxTurns THEN End(c) /\ UNCHANGED call
     ELSE CallLlm(c, [req[c] EXCEPT !.at = "tooled", !.turn = @ + 1], req[c].log, req[c].window, TRUE)
  /\ UNCHANGED configs

\* The results of the tools go into the conversation.
UseTools(c, sizes) ==
  /\ Told(c, "question", "tooled", "tools")
  /\ Proceeds(c, [req[c] EXCEPT !.at = "loop", !.log = Adds(@, ToolMessages(sizes))])
  /\ UNCHANGED configs

\* An answer without tools ends the loop; so does a call that failed.
EndLoop(c) ==
  /\ \E a \in Answers \ {"tools"} : Told(c, "question", "tooled", a)
  /\ Finishes(c)
  /\ UNCHANGED configs

-----------------------------------------------------------------------------
QuestionProgress(c) ==
  \/ \E usable \in BOOLEAN : CheckStatus(c, usable)
  \/ ExpandIntoQueries(c) \/ (\E n \in 0..1 : EmbedQueries(c, n)) \/ RankTexts(c) \/ AskForAnswer(c) \/ TakeAnswer(c)
  \/ (\E texts \in Corpora : \E gone \in {{}, {t.id : t \in texts}} : RetrieveTexts(c, texts, gone)) \/ RetrievalFails(c)
  \/ \E b \in BOOLEAN : FetchHistory(c, b) \/ ExpandQuery(c, b) \/ ExtractEvents(c, b) \/ TakeEvents(c, b)
  \/ (\E size \in QuestionSizes : TakeExpansion(c, size)) \/ ClassifyIntent(c)
  \/ (\E intent \in Intents : RouteIntent(c, intent)) \/ AnswerGeneral(c) \/ InsertEvents(c)
  \/ StartTimeline(c) \/ AskForTools(c) \/ (\E sizes \in ToolResults : UseTools(c, sizes)) \/ EndLoop(c)

QuestionStep(c) ==
  \/ \E mode \in Modes, size \in QuestionSizes, history \in Histories : AskQuestion(c, mode, size, history)
  \/ QuestionProgress(c)

-----------------------------------------------------------------------------
(* Properties.                                                             *)

\* The question's retrieval promises the nearest texts, and among them those with
\* its words: no text is left out for one that is farther away and has the words no
\* more often.
NearestRetrieved ==
  \A c \in Clients : At(c, "question", "ranked") /\ req[c].queries = 1 =>
    \A t \in req[c].texts \ ToSet(req[c].chunks), u \in ToSet(req[c].chunks) :
      ~(t.far[1] < u.far[1] /\ t.words[1] >= u.words[1])
=============================================================================
