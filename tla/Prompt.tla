-------------------------------- MODULE Prompt --------------------------------
(***************************************************************************)
(* The prompts: which messages a handler or an agent puts together, and    *)
(* what is cut from them when they are too long for the model.             *)
(*                                                                         *)
(* Sizes are in units of 125 tokens, which the code takes for 500          *)
(* characters; what JSON adds to a message is below that unit. A message   *)
(* has its place in the conversation, so that an order can be told.        *)
(***************************************************************************)
EXTENDS Naturals, Sequences, SequencesExt, FiniteSetsExt

Unit == 125
Units(tokens) == tokens \div Unit

Roles == {"system", "user", "assistant", "tool"}
Message(role, size, place) == [role |-> role, size |-> size, place |-> place]
Messages == [role: Roles, size: Nat, place: Nat]

Total(sizes) == LET sum[n \in 0..Len(sizes)] == IF n = 0 THEN 0 ELSE sum[n - 1] + sizes[n] IN sum[Len(sizes)]
Tokens(ms) == Total([i \in DOMAIN ms |-> ms[i].size])
\* Python's ms[-n:].
Newest(ms, n) == SubSeq(ms, IF Len(ms) > n THEN Len(ms) - n + 1 ELSE 1, Len(ms))
AtMost(a, b) == IF a < b THEN a ELSE b

-----------------------------------------------------------------------------
(* Cutting.                                                                *)

\* A prompt may take four fifths of the model's window.
Limit(window) == (window * 8) \div 10

\* What is never cut first: the system prompt and the last three messages.
SystemOf(ms) == IF ms # <<>> /\ ms[1].role = "system" THEN <<ms[1]>> ELSE <<>>
Essential(ms) == SystemOf(ms) \o Newest(SubSeq(ms, Len(SystemOf(ms)) + 1, Len(ms)), 3)

\* Mutant: the system prompt is left out of the account.
EnforceContextLimitUnsystemed(ms, window) ==
  LET rest   == SubSeq(ms, Len(SystemOf(ms)) + 1, Len(ms))
      middle == SubSeq(rest, 1, Len(rest) - Len(Newest(rest, 3)))
      left   == Limit(window) - Tokens(Newest(rest, 3))
      kept   == Max({n \in 0..Len(middle) : Tokens(SubSeq(middle, 1, n)) <= left})
  IN IF Tokens(ms) <= Limit(window) THEN ms
     ELSE IF Tokens(Essential(ms)) >= Limit(window) THEN SystemOf(ms) \o Newest(ms, 2)
     ELSE SystemOf(ms) \o SubSeq(middle, 1, kept) \o Newest(rest, 3)

\* LLMService.enforce_context_limit. The messages between the system prompt and
\* the last three are kept from the oldest on, as far as there is room. If there
\* is no room for any, the last two messages remain after the system prompt, which
\* in a prompt of two messages is itself one of them.
EnforceContextLimit(ms, window) ==
  LET rest   == SubSeq(ms, Len(SystemOf(ms)) + 1, Len(ms))
      middle == SubSeq(rest, 1, Len(rest) - Len(Newest(rest, 3)))
      left   == Limit(window) - Tokens(Essential(ms))
      kept   == Max({n \in 0..Len(middle) : Tokens(SubSeq(middle, 1, n)) <= left})
  IN IF Tokens(ms) <= Limit(window) THEN ms
     ELSE IF Tokens(Essential(ms)) >= Limit(window) THEN SystemOf(ms) \o Newest(ms, 2)
     ELSE SystemOf(ms) \o SubSeq(middle, 1, kept) \o Newest(rest, 3)

\* The agent's log between two turns, when it is not near the window's end.
PruneChatLog(log, most) ==
  IF Tokens(log) <= most \/ Len(log) <= 12 THEN log
  ELSE SubSeq(log, 1, 2) \o Newest(log, 10)

\* The agent's log with a summary for what was between the question and the
\* last five messages; place says where that began.
Compact(log, summary) ==
  IF Len(log) <= 7 THEN log
  ELSE SubSeq(log, 1, 2) \o <<Message("system", summary, log[3].place)>> \o Newest(log, 5)

MaybeCompact(log, window, summary) ==
  IF Tokens(log) > Limit(window) THEN Compact(log, summary)
  ELSE PruneChatLog(log, Units(100000))

-----------------------------------------------------------------------------
(* Putting together. A size that a query of the database decides is given. *)

\* One to three hundred tokens are asked for, the fallback is a template.
SummarySize == Units(300)
FallbackSize == Units(125)

\* generate_chat_summary puts all that is left out into one prompt.
SummaryPrompt(left) ==
  <<Message("system", 0, 0), Message("user", Tokens(left) + 1, 1)>>

\* The last five of the last ten messages, and the question.
ClassificationPrompt(history, question) ==
  <<Message("system", Units(1000), 0),
    Message("user", Tokens(Newest(Newest(history, 10), 5)) + question, 1)>>

\* Three contexts: at most 20 messages of 300 characters; 5 entries; 5 event types.
ChatContext(history) == AtMost(Tokens(Newest(history, 20)), (20 * 300) \div 500)
GraphContext == 1
InvestigationMetadata == 1

\* Each is replaced by a remark if it cannot be read.
ExpansionPrompt(history, question, readable) ==
  LET contexts == IF readable THEN ChatContext(history) + GraphContext + InvestigationMetadata ELSE 0
  IN <<Message("user", Units(500) + question + contexts, 0)>>

SearchPrompt(question) == <<Message("user", Units(500) + question, 0)>>
ExtractPrompt(question) == <<Message("user", Units(250) + question, 0)>>

\* Half of the room is left for the question when it does not fit.
TimelinePrompt(question) ==
  LET instructions == Units(125)
      fits == instructions + question <= Units(2000)
  IN <<Message("system", instructions, 0),
       Message("user", IF fits THEN question ELSE AtMost(question, Units(2000) \div 2), 1)>>

\* The chunks as they are, or the first half of them cut to 500 characters.
CutChunks(chunks) ==
  LET half == SubSeq(chunks, 1, Len(chunks) \div 2) IN [i \in DOMAIN half |-> AtMost(half[i], 1)]
InstructionsWith(chunks) == Units(125) + Total(chunks)
RagPrompt(chunks, question) ==
  LET fits == InstructionsWith(chunks) + question <= Units(16000) IN
  <<Message("system", InstructionsWith(IF fits THEN chunks ELSE CutChunks(chunks)), 0),
    Message("user", question, 1)>>

\* The first 3000 characters of the facts, and what the user asks for.
ReportPrompt(facts, request) ==
  <<Message("system", 0, 0), Message("user", Units(250) + AtMost(facts, 6) + request, 1)>>

\* What an agent is told of its investigation: parts that are read one after another
\* in one transaction, and once a statement has failed the others fail too.
InvestigationContext(parts, failing) == Total(SubSeq(parts, 1, AtMost(failing - 1, Len(parts))))
=============================================================================
