---------------------------- MODULE ChatMessages ----------------------------
(***************************************************************************)
(* The assistant messages of one investigation's chat.  A question gets a  *)
(* "thinking" message at once; the router then answers it, reports an      *)
(* error, or queues an agent job and attaches it to the message.  The      *)
(* workers that run the jobs report what they do through an endpoint of    *)
(* the API, which finds the message of the job and rewrites its metadata.  *)
(*                                                                         *)
(* One step is one transaction of the API.  A handler of the endpoint is   *)
(* two: it loads the message, and it writes the metadata back as a whole.  *)
(***************************************************************************)
EXTENDS Naturals, SequencesExt

CONSTANTS
  Questions,        \* questions asked, each on a connection of its own
  Continues,        \* requests to continue an investigation
  Embedding,        \* answers to "are embedding jobs open?" the router may get
  Overlap,          \* may a job be created while another one is not finished?
  MaxJobs,          \* bound: agent jobs ever created
  MaxSteps,         \* bound: tools that one run of a job reports
  MaxRuns,          \* bound: runs of one job, the repeated included
  MaxFaults         \* bound: reports lost, reports sent again although they
                    \*   arrived, and runs that raise

ASSUME ChatConstantsAssumption ==
  /\ Embedding \subseteq BOOLEAN
  /\ Overlap \in BOOLEAN
  /\ MaxJobs \in Nat
  /\ MaxSteps \in Nat
  /\ MaxRuns \in Nat \ {0}
  /\ MaxFaults \in Nat

\* A job is its place in the order of created_at; 0 stands for none.
Jobs == 1 .. MaxJobs

VARIABLES
  chat,       \* the assistant messages, in the order of created_at
  \* --- _handle_question(), one per question
  qpc,        \* [Questions -> what the handler does next]
  qmsg,       \* [Questions -> place of its message in chat]
  qjob,       \* [Questions -> the job queued for it]
  \* --- continue_investigation(), one per request
  cpc,        \* [Continues -> what the request does next]
  cjob,       \* [Continues -> the job it created]
  cseen,      \* [Continues -> the message it loaded, and its metadata]
  \* --- agent jobs and the workers that run them
  status,     \* [Jobs -> absent, pending, running or ended]
  reuse,      \* [Jobs -> metadata.reuse_message_id, or 0]
  run,        \* [Jobs -> runs begun]
  next,       \* [Jobs -> what the run reports next]
  step,       \* [Jobs -> tools the run has reported]
  call,       \* [Jobs -> the report the endpoint is working on]
  \* --- what the properties except
  raced,      \* did a run report before the API had written to its message?
  \* --- budgets of the bounds
  losses,
  repeats

questions == <<qpc, qmsg, qjob>>
continues == <<cpc, cjob, cseen>>
jobs      == <<status, reuse>>
runs      == <<run, next, step>>
budgets   == <<losses, repeats>>
vars == <<chat, questions, continues, jobs, runs, call, raced, budgets>>

Events == [job : Jobs, run : 1 .. MaxRuns, step : 1 .. (MaxSteps + 1)]

\* What the code keeps in chat_messages.metadata.
Metadata ==
  [kind    : {"thinking", "starting", "started", "answer", "error", "deleted"},
   job     : Jobs \union {0},
   stream  : Jobs \union {0},
   waiting : BOOLEAN,
   events  : Seq(Events)]

Thinking ==
  [kind |-> "thinking", job |-> 0, stream |-> 0, waiting |-> TRUE, events |-> <<>>]

\* What a handler has in its hands between its two transactions.
Loaded(about, m, data) == [phase |-> "loaded", about |-> about, msg |-> m, data |-> data]
Missing(about) == [phase |-> "missing", about |-> about, msg |-> 0, data |-> Thinking]
Idle == [phase |-> "idle", about |-> 0, msg |-> 0, data |-> Thinking]

Reports == {"start", "tool", "summary", "breakoff"}

TypeOK ==
  /\ chat \in Seq(Metadata)
  /\ qpc \in [Questions -> {"new", "routing", "answering", "queued",
                              "done", "raised", "left"}]
  /\ qmsg \in [Questions -> 0 .. Len(chat)]
  /\ qjob \in [Questions -> Jobs \union {0}]
  /\ cpc \in [Continues -> {"new", "marking", "done"}]
  /\ cjob \in [Continues -> Jobs \union {0}]
  /\ \A c \in Continues : cseen[c].msg \in 0 .. Len(chat) /\ cseen[c].data \in Metadata
  /\ status \in [Jobs -> {"absent", "pending", "running", "ended"}]
  /\ reuse \in [Jobs -> 0 .. Len(chat)]
  /\ run \in [Jobs -> 0 .. MaxRuns]
  /\ next \in [Jobs -> Reports \union {"nothing", "verdict"}]
  /\ step \in [Jobs -> 0 .. MaxSteps]
  /\ \A j \in Jobs :
       /\ call[j].phase \in {"idle", "loaded", "missing"}
       /\ call[j].about \in Jobs \union {0}
       /\ call[j].msg \in 0 .. Len(chat)
       /\ call[j].data \in Metadata
  /\ raced \in BOOLEAN
  /\ losses \in 0 .. MaxFaults
  /\ repeats \in 0 .. MaxFaults

Init ==
  /\ chat = <<>>
  /\ qpc  = [q \in Questions |-> "new"]
  /\ qmsg = [q \in Questions |-> 0]
  /\ qjob = [q \in Questions |-> 0]
  /\ cpc   = [c \in Continues |-> "new"]
  /\ cjob  = [c \in Continues |-> 0]
  /\ cseen = [c \in Continues |-> Idle]
  /\ status = [j \in Jobs |-> "absent"]
  /\ reuse  = [j \in Jobs |-> 0]
  /\ run    = [j \in Jobs |-> 0]
  /\ next   = [j \in Jobs |-> "nothing"]
  /\ step   = [j \in Jobs |-> 0]
  /\ call   = [j \in Jobs |-> Idle]
  /\ raced = FALSE
  /\ losses = 0 /\ repeats = 0

-----------------------------------------------------------------------------
(* Statements the handlers are made of.                                    *)

\* INSERT INTO jobs_agents; reused is the message a continuation goes on with.
CreateJob(j, reused) ==
  /\ status[j] = "absent"
  /\ \A k \in Jobs : k < j => status[k] # "absent"
  /\ status' = [status EXCEPT ![j] = "pending"]
  /\ reuse'  = [reuse EXCEPT ![j] = reused]
  /\ Overlap \/ \A k \in Jobs : status[k] \notin {"pending", "running"}

\* The message created last of those in S, or 0.
LastOf(S) == IF S = {} THEN 0 ELSE CHOOSE m \in S : \A n \in S : n <= m

\* Mutant: only a message that still waits is looked for.
StreamingWaiting(j) == LastOf({m \in DOMAIN chat : chat[m].stream = j /\ chat[m].waiting})

\* _get_streaming_message()
Streaming(j) == LastOf({m \in DOMAIN chat : chat[m].stream = j})

\* update_message(): the metadata is replaced as a whole.
Rewrite(m, data) == chat' = [chat EXCEPT ![m] = data]

Goto(q, state) == qpc' = [qpc EXCEPT ![q] = state]

-----------------------------------------------------------------------------
(* _handle_question() and route_chat_message().                            *)

\* The question and its thinking message are stored before it is routed.
\* (While parsing_locked is set, a question is refused and nothing is stored:
\* in the model it is not asked.)
Ask(q) ==
  /\ qpc[q] = "new"
  /\ chat' = Append(chat, Thinking)
  /\ qmsg' = [qmsg EXCEPT ![q] = Len(chat) + 1]
  /\ Goto(q, "routing")
  /\ UNCHANGED <<qjob, continues, jobs, runs, call, raced, budgets>>

\* The modes auto and augmented ask whether embedding jobs are open.  If they
\* are, the router reads a key that get_embedding_status() does not return,
\* outside of every try.
RouteRaises(q) ==
  /\ qpc[q] = "routing"
  /\ TRUE \in Embedding
  /\ Goto(q, "raised")
  /\ UNCHANGED <<chat, qmsg, qjob, continues, jobs, runs, call, raced, budgets>>

\* A handler answers in chunks, in any mode but agent.  (Mode timeline does not
\* ask for the embedding jobs.)
Answer(q) ==
  /\ qpc[q] = "routing"
  /\ Goto(q, "answering")
  /\ UNCHANGED <<chat, qmsg, qjob, continues, jobs, runs, call, raced, budgets>>

\* After the last chunk the message gets the answer.
Deliver(q) ==
  /\ qpc[q] = "answering"
  /\ Rewrite(qmsg[q], [Thinking EXCEPT !.kind = "answer", !.waiting = FALSE])
  /\ Goto(q, "done")
  /\ UNCHANGED <<qmsg, qjob, continues, jobs, runs, call, raced, budgets>>

\* The router yields an error, in every mode and at any point of the answer.
ReportError(q) ==
  /\ qpc[q] \in {"routing", "answering"}
  /\ Rewrite(qmsg[q], [Thinking EXCEPT !.kind = "error", !.waiting = FALSE])
  /\ Goto(q, "done")
  /\ UNCHANGED <<qmsg, qjob, continues, jobs, runs, call, raced, budgets>>

\* In mode "agent" parsing jobs in progress are told the client only.
Postpone(q) ==
  /\ qpc[q] = "routing"
  /\ Goto(q, "left")
  /\ UNCHANGED <<chat, qmsg, qjob, continues, jobs, runs, call, raced, budgets>>

\* The policy asks for clarification: the message is deleted.
Clarify(q) ==
  /\ qpc[q] = "routing"
  /\ Rewrite(qmsg[q], [chat[qmsg[q]] EXCEPT !.kind = "deleted"])
  /\ Goto(q, "done")
  /\ UNCHANGED <<qmsg, qjob, continues, jobs, runs, call, raced, budgets>>

\* Mode agent, or auto: route_question() commits the job ...
QueueJob(q) ==
  /\ qpc[q] = "routing"
  /\ \E j \in Jobs : CreateJob(j, 0) /\ qjob' = [qjob EXCEPT ![q] = j]
  /\ Goto(q, "queued")
  /\ UNCHANGED <<chat, qmsg, continues, runs, call, raced, budgets>>

\* Mutant: the message does not get the id the workers' reports look for.
JobMetadataUnlinked(j) == [Thinking EXCEPT !.kind = "starting", !.job = j]

JobMetadata(j) == [Thinking EXCEPT !.kind = "starting", !.job = j, !.stream = j]

\* ... and then attached to the message.
AttachJob(q) ==
  /\ qpc[q] = "queued"
  /\ Rewrite(qmsg[q], JobMetadata(qjob[q]))
  /\ Goto(q, "done")
  /\ UNCHANGED <<qmsg, qjob, continues, jobs, runs, call, raced, budgets>>

\* The client is gone: sending it the next response raises.
Leave(q) ==
  /\ qpc[q] \in {"routing", "answering"}
  /\ Goto(q, "left")
  /\ UNCHANGED <<chat, qmsg, qjob, continues, jobs, runs, call, raced, budgets>>

-----------------------------------------------------------------------------
(* continue_investigation().                                               *)

\* Any job but a running one is continued; the new one shall reuse the
\* message the old one is recorded in.
Continue(c) ==
  /\ cpc[c] = "new"
  /\ \E j, n \in Jobs :
       /\ status[j] \in {"pending", "ended"}
       /\ LET m == LastOf({k \in DOMAIN chat : chat[k].job = j})
          IN  /\ CreateJob(n, m)
              /\ cjob' = [cjob EXCEPT ![c] = n]
              /\ IF m = 0
                 THEN cpc' = [cpc EXCEPT ![c] = "done"] /\ UNCHANGED cseen
                 ELSE /\ cpc'   = [cpc EXCEPT ![c] = "marking"]
                      /\ cseen' = [cseen EXCEPT ![c] = Loaded(n, m, chat[m])]
  /\ UNCHANGED <<chat, questions, runs, call, raced, budgets>>

\* The message is marked with the metadata it was loaded with.
MarkContinuing(c) ==
  /\ cpc[c] = "marking"
  /\ Rewrite(cseen[c].msg, [cseen[c].data EXCEPT !.waiting = TRUE])
  /\ cpc'   = [cpc EXCEPT ![c] = "done"]
  /\ cseen' = [cseen EXCEPT ![c] = Idle]
  /\ UNCHANGED <<questions, cjob, jobs, runs, call, raced, budgets>>

-----------------------------------------------------------------------------
(* The run of a job, as far as it reports (AgentJobs).                     *)

Begin(j) ==
  /\ status[j] = "pending"
  /\ run[j] < MaxRuns
  /\ status' = [status EXCEPT ![j] = "running"]
  /\ run'    = [run EXCEPT ![j] = @ + 1]
  /\ next'   = [next EXCEPT ![j] = "start"]
  /\ step'   = [step EXCEPT ![j] = 0]
  /\ UNCHANGED <<chat, questions, continues, reuse, call, raced, budgets>>

\* An exception before the agent runs, or in the verdict: the worker reports
\* job_failed, which the endpoint passes on without storing anything.
RunFails(j) ==
  /\ next[j] \in {"start", "verdict"}
  /\ call[j] = Idle
  /\ losses + repeats < MaxFaults
  /\ losses' = losses + 1
  /\ status' = [status EXCEPT ![j] = "ended"]
  /\ next'   = [next EXCEPT ![j] = "nothing"]
  /\ UNCHANGED <<chat, questions, continues, reuse, run, step, call, raced, repeats>>

\* The worker dies between two reports, and the job is pending again.
RunBreaks(j) ==
  /\ status[j] = "running"
  /\ call[j] = Idle
  /\ run[j] < MaxRuns
  /\ status' = [status EXCEPT ![j] = "pending"]
  /\ next'   = [next EXCEPT ![j] = "nothing"]
  /\ UNCHANGED <<chat, questions, continues, reuse, run, step, call, raced, budgets>>

Verdict(j) ==
  /\ next[j] = "verdict"
  /\ status' = [status EXCEPT ![j] = "ended"]
  /\ next'   = [next EXCEPT ![j] = "nothing"]
  /\ UNCHANGED <<chat, questions, continues, reuse, run, step, call, raced, budgets>>

\* What a run may report after what it has reported.
After(j) ==
  IF next[j] \in {"summary", "breakoff"} THEN {"verdict"}
  ELSE {"summary", "breakoff"} \union
       (IF step[j] + (IF next[j] = "tool" THEN 1 ELSE 0) < MaxSteps THEN {"tool"} ELSE {})

\* Mutant: whatever is reported counts as a tool.
ReportedCounted(j) ==
  /\ call' = [call EXCEPT ![j] = Idle]
  /\ step' = [step EXCEPT ![j] = @ + 1]
  /\ \E n \in After(j) : next' = [next EXCEPT ![j] = n]
  /\ UNCHANGED run

\* The endpoint has answered, or the worker has given up: on to the next.
Reported(j) ==
  /\ call' = [call EXCEPT ![j] = Idle]
  /\ step' = [step EXCEPT ![j] = IF next[j] = "tool" THEN @ + 1 ELSE @]
  /\ \E n \in After(j) : next' = [next EXCEPT ![j] = n]
  /\ UNCHANGED run

-----------------------------------------------------------------------------
(* broadcast_message() and handle_broadcast_message().                     *)

\* Mutant: the first job of the investigation instead of the last.
OldestJob == CHOOSE j \in Jobs : status[j] # "absent" /\ \A k \in Jobs : k < j => status[k] = "absent"

\* A report names no job: the investigation's latest is taken.
LatestJob == LastOf({j \in Jobs : status[j] # "absent"})

\* Does the API still have to attach the job, or to mark its message m?
BeingAttached(j, m) ==
  \/ \E q \in Questions : qpc[q] = "queued" /\ qjob[q] = j
  \/ \E c \in Continues : cpc[c] = "marking" /\ cseen[c].msg = m

\* The report arrives; the job and its message are looked up.
Look(j) ==
  /\ next[j] \in Reports
  /\ call[j].phase = "idle"
  /\ LET about == LatestJob
         m == IF next[j] = "start" /\ reuse[about] # 0 THEN reuse[about] ELSE Streaming(about)
     IN  /\ call' = [call EXCEPT ![j] = IF m = 0 THEN Missing(about) ELSE Loaded(about, m, chat[m])]
         /\ raced' = (raced \/ BeingAttached(j, m))
  /\ UNCHANGED <<chat, questions, continues, jobs, runs, budgets>>

\* agent_started without a message: a second look a moment later, and then a
\* new message.
LookAgain(j) ==
  /\ next[j] = "start"
  /\ call[j].phase = "missing"
  /\ LET about == call[j].about
         m == Streaming(about)
     IN  IF m # 0
         THEN /\ call' = [call EXCEPT ![j] = Loaded(about, m, chat[m])]
              /\ UNCHANGED <<chat, runs>>
         ELSE /\ chat' = Append(chat, [Thinking EXCEPT !.kind = "started", !.job = about,
                                         !.stream = about, !.waiting = FALSE])
              /\ Reported(j)
  /\ UNCHANGED <<questions, continues, jobs, raced, budgets>>

\* Any other report without a message is dropped with a warning.
Drop(j) ==
  /\ next[j] # "start"
  /\ call[j].phase = "missing"
  /\ Reported(j)
  /\ UNCHANGED <<chat, questions, continues, jobs, raced, budgets>>

\* _handle_agent_started(): a report that was stored already is skipped; a
\* continuation takes its message over.
AlreadyStarted(j) ==
  /\ next[j] = "start"
  /\ reuse[call[j].about] = 0
  /\ call[j].data.kind = "started"

Skip(j) ==
  /\ call[j].phase = "loaded"
  /\ AlreadyStarted(j)
  /\ Reported(j)
  /\ UNCHANGED <<chat, questions, continues, jobs, raced, budgets>>

\* Mutant: a new start forgets what the message has recorded.
StartedAfresh(about, data) ==
  [data EXCEPT !.kind = "started", !.job = about, !.stream = about, !.events = <<>>,
               !.waiting = IF reuse[about] # 0 THEN TRUE ELSE @]

Started(about, data) ==
  [data EXCEPT !.kind = "started", !.job = about, !.stream = about,
               !.waiting = IF reuse[about] # 0 THEN TRUE ELSE @]

\* An entry of event_sequence.
Recorded(j, k, data) ==
  [data EXCEPT !.events = Append(@, [job |-> j, run |-> run[j], step |-> k])]

\* Mutant: a run that breaks off leaves the message waiting.
FinishedKeepsWaiting(j, data) ==
  IF next[j] = "summary" THEN [Recorded(j, step[j] + 1, data) EXCEPT !.waiting = FALSE] ELSE data

\* agent_completed has a summary; agent_cancelled and agent_error have none.
Finished(j, data) ==
  [(IF next[j] = "summary" THEN Recorded(j, step[j] + 1, data) ELSE data) EXCEPT !.waiting = FALSE]

NewMetadata(j) ==
  LET data == call[j].data
  IN  CASE next[j] = "start" -> Started(call[j].about, data)
        [] next[j] = "tool"  -> Recorded(j, step[j] + 1, data)
        [] OTHER             -> Finished(j, data)

\* The metadata are written back; the answer to the worker may be late, and
\* then the worker sends the report again.
Store(j) ==
  /\ call[j].phase = "loaded"
  /\ ~AlreadyStarted(j)
  /\ Rewrite(call[j].msg, NewMetadata(j))
  /\ \/ Reported(j) /\ UNCHANGED repeats
     \/ /\ losses + repeats < MaxFaults
        /\ repeats' = repeats + 1
        /\ call' = [call EXCEPT ![j] = Idle]
        /\ UNCHANGED runs
  /\ UNCHANGED <<questions, continues, jobs, raced, losses>>

\* The endpoint is not reachable in three attempts, or the handler fails,
\* which the worker is not told.
Lose(j) ==
  /\ next[j] \in Reports
  /\ losses + repeats < MaxFaults
  /\ losses' = losses + 1
  /\ Reported(j)
  /\ UNCHANGED <<chat, questions, continues, jobs, raced, repeats>>

-----------------------------------------------------------------------------
Route(q) ==
  \/ RouteRaises(q) \/ Answer(q) \/ Deliver(q) \/ ReportError(q)
  \/ Postpone(q)    \/ Clarify(q) \/ QueueJob(q) \/ AttachJob(q)

Report(j) == Look(j) \/ LookAgain(j) \/ Drop(j) \/ Skip(j) \/ Store(j)

Next ==
  \/ \E q \in Questions : Ask(q) \/ Route(q) \/ Leave(q)
  \/ \E c \in Continues : Continue(c) \/ MarkContinuing(c)
  \/ \E j \in Jobs :
       \/ Begin(j) \/ Report(j) \/ Verdict(j)
       \/ RunFails(j) \/ RunBreaks(j) \/ Lose(j)

\* A handler of the API that has begun goes on (calls to the model time out),
\* workers claim jobs and go on with them (AgentJobs).
Fairness ==
  /\ \A q \in Questions : WF_vars(Route(q))
  /\ \A c \in Continues : WF_vars(MarkContinuing(c))
  /\ \A j \in Jobs : WF_vars(Begin(j) \/ Report(j) \/ Verdict(j))

Spec == Init /\ [][Next]_vars

FairSpec == Spec /\ Fairness

-----------------------------------------------------------------------------
(* Properties.                                                             *)

\* What a run reports is recorded in the message of its own job
\* (chat_broadcast.py:60-74).
EventsInOwnMessage ==
  \A m \in DOMAIN chat : \A n \in DOMAIN chat[m].events :
    LET j == chat[m].events[n].job
    IN  \/ chat[m].job = j
        \/ \E k \in Jobs : reuse[k] = m /\ j < k /\ k <= chat[m].job

\* The same, as long as the jobs of an investigation come one after the other
\* and each is attached before its run reports.
OwnEvents == ~Overlap /\ ~raced => EventsInOwnMessage

\* A job is followed in one message: the reports find the one its question
\* was given (chat.py:492-494, chat_broadcast.py:290-415).
OneMessagePerJob ==
  ~Overlap /\ ~raced =>
    \A m, n \in DOMAIN chat : chat[m].job # 0 /\ chat[m].job = chat[n].job => m = n

\* Where the events of the run of j are in message m.
RecordedAt(j, m) ==
  {i \in DOMAIN chat[m].events : chat[m].events[i].job = j /\ chat[m].events[i].run = run[j]}

\* Unless a report is lost, a run that has started has a message, where every tool
\* it has reported is recorded, in order, and exactly once unless a report was
\* repeated (chat_broadcast.py:927-1031).
RunRecorded ==
  ~Overlap /\ ~raced /\ losses = 0 =>
    \A j \in Jobs : status[j] = "running" /\ next[j] # "start" =>
      \E m \in DOMAIN chat :
        LET at == RecordedAt(j, m)
            StepAt(i) == chat[m].events[i].step
        IN  /\ \A k \in 1 .. step[j] : \E i \in at : StepAt(i) = k
            /\ \A i \in at : StepAt(i) <= step[j] + 1
            /\ \A i, k \in at : i < k =>
                 StepAt(i) < StepAt(k) \/ (StepAt(i) = StepAt(k) /\ repeats > 0)

\* What is recorded stays: a run that begins again, a continuation and a report
\* that is repeated only add to it (chat_broadcast.py:259-301, chat.py:982-998).
NothingForgotten ==
  [][\A m \in DOMAIN chat :
       ~Overlap /\ ~raced' => IsPrefix(chat[m].events, chat'[m].events)]_vars

\* Once a job has ended, the message it reported to does not wait any more,
\* unless a later job goes on with it (chat_broadcast.py:704-741).
EndedJobsSettle ==
  ~Overlap /\ ~raced /\ losses = 0 =>
    \A j \in Jobs, m \in DOMAIN chat :
      status[j] = "ended" /\ chat[m].stream = j =>
        ~chat[m].waiting \/ \E k \in Jobs : reuse[k] = m /\ status[k] # "ended"

\* Every question is answered or reported as an error in the end,
\* if its client stays, its job's reports arrive and the router does not
\* raise (chat.py:345-450, chat_broadcast.py:660-752).
Settled(q) ==
  \/ qpc[q] \in {"raised", "left"}
  \/ qpc[q] = "done" /\ ~chat[qmsg[q]].waiting
  \/ qpc[q] = "done" /\ chat[qmsg[q]].kind = "deleted"
QuestionsSettle ==
  \A q \in Questions :
    qpc[q] = "routing" ~> Settled(q) \/ Overlap \/ raced \/ losses > 0
=============================================================================
