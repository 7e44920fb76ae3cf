------------------------------- MODULE LlmCalls -------------------------------
(***************************************************************************)
(* Calls to a language model or to an embedding model (LLMService,         *)
(* LLMClient, EmbeddingService): what is sent, and the attempts.           *)
(***************************************************************************)
EXTENDS Requests, Prompt

CONSTANT Tries  \* attempts of a call (3 in the code)

ASSUME TriesAssumption == Tries \in Nat \ {0}

VARIABLE call  \* what each request has sent, or what came of it

callVars == <<requestVars, call>>

NoCall == [state |-> "none"]
Answers == {"text", "empty", "tools", "failed", "refused"}
Answered(a) == [state |-> a]

\* A request is at a step of its own, and told what came of its call.
At(c, kind, at) == Doing(c, kind, at) /\ call[c] = NoCall
Told(c, kind, at, answer) == Doing(c, kind, at) /\ call[c] = Answered(answer)

\* Request c calls with messages ms and goes on as r with the answer. enforced: the
\* prompt is first cut to what the window allows.
Calls(c, r, ms, window, enforced, tools) ==
  /\ GoOn(c, r)
  /\ call' = [call EXCEPT ![c] =
       [state |-> "sent", full |-> ms, window |-> window, enforced |-> enforced, tools |-> tools, tries |-> Tries]]
PromptOf(x) == IF x.enforced THEN EnforceContextLimit(x.full, x.window) ELSE x.full

CallLlm(c, r, ms, window, tools) == Calls(c, r, ms, window, TRUE, tools)
CallAsIs(c, r, ms, window) == Calls(c, r, ms, window, FALSE, FALSE)
\* EmbeddingService: texts are sent whatever their size.
CallEmbedder(c, r) == Calls(c, r, <<>>, 0, FALSE, FALSE)

\* A request that is told goes on.
Proceeds(c, r) == GoOn(c, r) /\ call' = [call EXCEPT ![c] = NoCall]
Finishes(c) == Proceeds(c, NoRequest)

Sent(c) == call[c].state = "sent"

Answer(c, a) ==
  /\ Sent(c) /\ (a = "tools" => call[c].tools)
  /\ call' = [call EXCEPT ![c] = Answered(a)]
  /\ UNCHANGED requestVars

\* With one attempt less, and without the tools once they have been refused.
Retried(x, refused) == [x EXCEPT !.tries = @ - 1, !.tools = @ /\ ~refused]

\* Mutant: the attempts are counted from 0 to Tries.
AttemptFailsAgain(c, refused) ==
  /\ Sent(c)
  /\ call' = [call EXCEPT ![c] =
       IF @.tries > 0 THEN Retried(@, refused)
       ELSE Answered(IF refused THEN "refused" ELSE "failed")]
  /\ UNCHANGED requestVars

\* An attempt fails. refused: with status 400, which the caller of the last one sees.
AttemptFails(c, refused) ==
  /\ Sent(c)
  /\ call' = [call EXCEPT ![c] =
       IF @.tries > 1 THEN Retried(@, refused)
       ELSE Answered(IF refused THEN "refused" ELSE "failed")]
  /\ UNCHANGED requestVars

InitCalls == call = [c \in Clients |-> NoCall]

CallStep(c) == (\E a \in {"text", "empty", "tools"} : Answer(c, a)) \/ \E refused \in BOOLEAN : AttemptFails(c, refused)

-----------------------------------------------------------------------------
(* Properties.                                                             *)

IsCall(x) ==
  \/ x.state \in Answers \cup {"none"}
  \/ /\ x.state = "sent" /\ x.tries \in 1..Tries /\ x.tools \in BOOLEAN
     /\ x.full \in Seq(Messages)

\* No prompt is longer than the model's window allows, unless the system prompt and
\* the last three messages are too long by themselves: however long a conversation
\* of tool calls, compactions and questions gets, what is sent of it begins with the
\* system prompt, ends with the newest message, and has each message once, in order.
PromptFits ==
  \A c \in Clients : Sent(c) /\ call[c].enforced =>
    LET p == PromptOf(call[c])  full == call[c].full IN
    Tokens(Essential(full)) < Limit(call[c].window) =>
      /\ Tokens(p) <= Limit(call[c].window)
      /\ SystemOf(p) = SystemOf(full) /\ Last(p) = Last(full)
      /\ \A i \in 1..(Len(p) - 1) : p[i].place < p[i + 1].place
=============================================================================
