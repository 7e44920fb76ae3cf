------------------------------ MODULE LlmRequests ------------------------------
(***************************************************************************)
(* Everything a user asks of the API next to each other: changes of the    *)
(* LLM configuration, reports, continuations, questions, and an agent's    *)
(* turns, which all read the configuration of the moment.                  *)
(***************************************************************************)
EXTENDS AgentCalls, Reports, Choices

vars == <<req, left, clock, call, configs, reports, choices>>

Init == InitRequests /\ InitCalls /\ InitConfigs /\ InitReports /\ InitChoices

ChangeConfig(c) == ConfigStep(c) /\ UNCHANGED <<call, reports, choices>>
MakeReport(c) == ReportStep(c) /\ UNCHANGED <<configs, choices>>
Choose(c) == ChoiceStep(c) /\ UNCHANGED <<call, configs, reports>>
Question(c) == QuestionStep(c) /\ UNCHANGED <<reports, choices>>
RunAgent(c) == AgentStep(c) /\ UNCHANGED <<reports, choices>>
Call(c) == CallStep(c) /\ UNCHANGED <<configs, reports, choices>>

Next == \E c \in Clients : ChangeConfig(c) \/ MakeReport(c) \/ Choose(c) \/ Question(c) \/ RunAgent(c) \/ Call(c)

Spec == Init /\ [][Next]_vars

\* A request that can go on does, a call is answered or fails, and the database
\* looks for deadlocks.
Progress(c) ==
  /\ ~Sent(c)
  /\ \/ req[c].kind = "config" /\ ConfigProgress(c) /\ UNCHANGED <<call, reports, choices>>
     \/ req[c].kind = "report" /\ ReportProgress(c) /\ UNCHANGED <<configs, choices>>
     \/ req[c].kind = "choice" /\ ChoiceProgress(c) /\ UNCHANGED <<call, configs, reports>>
     \/ req[c].kind = "question" /\ QuestionProgress(c) /\ UNCHANGED <<reports, choices>>
     \/ req[c].kind = "agent" /\ AgentProgress(c) /\ UNCHANGED <<reports, choices>>

FairSpec == Spec /\ \A c \in Clients : WF_vars(Progress(c) \/ Call(c))

-----------------------------------------------------------------------------
(* Properties.                                                             *)

TypeOK ==
  /\ \A c \in Clients : \/ req[c] = NoRequest
                        \/ req[c] \in ConfigRequest \cup ReportRequest \cup ChoiceRequest
                        \/ req[c].kind = "question" /\ req[c] \in QuestionRequest
                        \/ req[c].kind = "agent" /\ req[c] \in AgentRequest
  /\ \A c \in Clients : IsCall(call[c]) /\ (req[c] = NoRequest => call[c] = NoCall)
  /\ left \in [Kinds -> Nat] /\ clock \in Nat
  /\ configs \in [Configs -> {"none", "off", "on", "gone"}]
  /\ reports \subseteq 0..clock
  /\ \A id \in Offered : choices[id].jobs \subseteq 1..clock /\ choices[id].marked \in 0..clock /\ choices[id].names \in 0..clock

\* Every request ends, although configurations wait for each other's rows, reports
\* for each other's, loops go on as long as the model asks for tools, and calls are
\* repeated: nobody waits for ever, and no loop is without a bound.
RequestsEnd == \A c \in Clients : req[c] # NoRequest ~> req[c] = NoRequest
=============================================================================
