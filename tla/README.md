# Models of open-agent-investigation

A digital-forensics assistant: users upload artifacts to an investigation, worker
processes parse them into events, a second service embeds the events, and users
ask questions that are answered from the events at once or by an agent that runs
as a background job. This directory holds TLA+ models of the parts where several
processes meet and of the algorithms whose mistakes a test with one row does not
show, the TLC configurations that check them on small instances, and TLAPS proofs
for every instance.

    tlc -workers 2 -config parsing_safety.cfg MCParsingJobs     # a run
    tlapm ParsingJobsProofs.tla                                 # the proofs

Paths below are relative to `src/`; `main.py` is `api/worker/main.py`.

## 1. The system

| component | state it keeps | operations | what is hard |
|---|---|---|---|
| parsing jobs (`main.py`, `routers/artifacts.py`, `crud/job.py`) | `jobs_parsing`, `investigations.parsing_locked`, advisory locks | upload, claim, parse (archives create further jobs), verdict, unlock, recovery | many workers, crashes, stale sessions, two ways to unlock |
| agent jobs (`main.py`, `routers/jobs.py`, `agents/assistant_agent.py`) | `jobs_agents`, `investigation_choices`, timers in the API process | enqueue, claim, turns, stop (forced, graceful, from the chat), verdict, choices, recovery | stop against verdict, late timers, failing handlers |
| embedding pipeline (`embedding_batcher.py`, `embedding_worker.py`, `embedding_background_worker.py`) | a queue in memory, `jobs_embedding`, `embeddings` | queue, batch, create jobs, claim, embed, count, recovery | loss of memory, retries, progress counters |
| chat (`routers/chat.py`, `chat_router.py`, `policy_router.py`, `chat_broadcast.py`) | `chat_messages` and their metadata | ask, route, attach a job, report, continue | reports that are lost, repeated or early; metadata rewritten as a whole |
| timeline of agents (`timeline_tools.py`, `tool_executor.py`) | `timeline_entries`, their embeddings | tools in savepoints of an outer transaction | commit points elsewhere; rollbacks undo what was announced |
| timeline of users (`routers/timeline.py`, `timeline_handler.py`) | the same tables, notes | edits, the model's tool loop | unique index and cascades under concurrent requests, waits |
| choices (`routers/investigation_choices.py`) | `investigation_choices` | offer, select | check, commit, mark in three transactions |
| event ingestion (`parsers/*`) | `events` | which parser and decoder takes a file; batched inserts, fallback | order of the tests; no key on events; failing inserts |
| analyses and their cache (`app/analysis/*`) | `analysis_results` | query, count, store, serve, invalidate | computed while events arrive |
| LLM configuration (`crud/llm_config.py`, `db/schema.sql`) | one active configuration | create, patch, delete, activate | a trigger under READ COMMITTED |
| reports (`crud/report.py`, `report_generator.py`) | one report | generate, replace, read | two at a time |
| LLM client and context limit (`llm_service.py`, `llm_client.py`, both `context_manager.py`) | none | put a prompt together, cut it, send it, try again | sizes at the boundary, order and overlap of the parts |
| retrieval (`services/rag/*`, `rag_handler.py`, `hybrid_search.py`) | embeddings (read) | search, fuse, deduplicate, cut | arithmetic on ranks, distances and budgets |
| worker manager (`main.py` 1070-1310) | child processes | spawn, monitor, shut down | signals, inherited handlers |
| the rest: CRUD routers, accounts, logs, MCP, UI | rows | single-row requests | little |

How they interact. The upload commits an artifact and a job and then locks the
investigation. Workers poll the job tables (`FOR UPDATE SKIP LOCKED`), parsers
store events in batches, delete the cached analyses and put event ids into a queue
shared with the batcher, the batcher creates embedding jobs, another service polls
those. The chat router reads the state of all three (parsing lock, open parsing
jobs, open embedding jobs) before it routes a question; a question is answered by
retrieval and a call to the model, by a tool loop on the timeline, or by an agent's
job. Workers report to the chat over HTTP (`POST .../broadcast`), and the API
stores what they report and forwards it to the browsers. Whoever calls the model
reads the active configuration first.

What makes a component correct:

* a job table: a job has one verdict, is not in two hands at a time, and ends;
* the parsing lock: closed while there is work, open afterwards;
* ingestion: a file gets the decoder made for it, a record is stored once, none is
  dropped; an analysis served from the cache shows what is there;
* the pipeline: each event embedded, once, and a progress that is a percentage;
* the chat: what a job reports is found in its own message, once and in order,
  and no message waits for ever;
* the timeline: an event once, what was announced is stored, what was deleted stays
  deleted, nobody waits for ever;
* requests: one active configuration, one report, a choice that starts one job, a
  prompt that fits its window, and an end.

`PROJECT.json` lists every component with its files, and under `hazards` each
place in the code where one of these can go wrong.

## 2. Modules

| module | models | builds on |
|---|---|---|
| `JobTable` | what any job table promises: `pending`, `running`, any number of times, then a verdict for good; every job ends | |
| `ParsingJobs` | uploads, workers, manager, parsing lock | implements `JobTable` |
| `AgentJobs` | the control of agent jobs | implements `JobTable` |
| `EmbeddingPipeline` | parsers, queue, batcher, embedding service | implements `JobTable` |
| `ChatMessages` | the chat's assistant messages and the reports on them | |
| `Timeline` | the sessions that write one investigation's timeline | |
| `Dispatch` | which parser takes a file, and which event types come of it | |
| `EventIngest` | one artifact's run through a parser, next to analyses | `Dispatch` |
| `Requests` | requests in progress next to each other | |
| `LlmConfigs` | the configurations, the trigger, row locks | `Requests` |
| `Prompt` | sizes of prompts, the cut to the window, compaction | |
| `LlmCalls` | calls to the model: attempts, answers, refusals | `LlmConfigs`, `Prompt` |
| `Retrieval` | search, fusion, deduplication, ranking | |
| `Questions` | a question's way to its answer | `LlmCalls`, `Retrieval` |
| `AgentCalls` | an agent's conversation with the model | `LlmCalls` |
| `Reports`, `Choices` | generation of reports, selection of a continuation | `LlmCalls`; `Requests` |
| `LlmRequests` | composes the five kinds of request | all of them |
| `MC...` | the instances for TLC | |
| `PromptProofs` | theorems on prompts, logs and sorted results | `Prompt`, `Retrieval` |
| `...Proofs` | theorems on the module of that name | |

The three job modules share one abstraction, `JobTable`, through
`JT == INSTANCE JobTable WITH Jobs <- Jobs, status <- status`. `JT!Safe` is its
safety part (`JobTableSafe`), `JT!Spec` adds that every pending job gets a verdict
(`JobTableSpec`). Overwriting one verdict by another is allowed: the code's last
UPDATEs name the job by its id only, so a second report may change `completed` to
`failed`. That a verdict is never followed by another run is what counts.

### ParsingJobs

One step is one transaction, or one statement where a lock is held across
statements. `pc`, `task` and `saw` are what a worker remembers between them: its
place in `worker_process`, the job, and `parsing_locked` **as its session has it
loaded**. Sessions are made with `expire_on_commit=False`, so a query that returns
a known row does not refresh it; an assignment that does not change the loaded
value writes nothing (`SetParsingLock`); a rollback expires it. `usaw` is the same
for an upload.

| actions | code |
|---|---|
| `UploadLoad`, `UploadEnqueue`, `UploadLock`, `UploadAborts` | `artifacts.py` 54-113 |
| `SelectJob`, `CommitClaim`, `ClaimFails`, `Rest`, `Wake` | `claim_parsing_job`, loop 922-982 |
| `LoadInvestigation`, `ExtractFile`, `RollbackWhileParsing` | `process_parsing_job` up to the parse, `archive_parser.py` |
| `MarkCompleted`, `CountRemaining`, `TryAdvisoryLock`, `ClearParsingLock`, `LeaveParsingLock`, `NotifyComplete` | `main.py` 340-416 |
| `JobRaises`, `MarkFailed`, `MarkFailedRaises`, `Recheck`, `ClearAfterFailure`, `RecheckRaises` | the handlers, `check_and_clear_parsing_lock` |
| `RecoverStaleJobs`, `WorkerDies`, `ReplaceWorker`, `ReplaceWithoutCleanup`, `RestartService` | 745-816, 997-1067, 1126-1304 |

`aged` says that `started_at` is older than 30 minutes; `JobAges` lets time pass.
`AllowOverrun` says whether that may happen to a job that is being worked on.
`RestartService(S)` covers the orderly stop, which resets every running job, and a
kill with the recovery at start-up, which resets the stale ones.

`LockCoversJobs` is claimed for one upload per investigation and no overrun; with
a second upload it does not hold (section 6).

### AgentJobs

A turn has three stages between two looks at the stop flag (`planning`,
`executing`, `analysing`); the run ends `finished`, `exhausted`, `stopped`, `erred`
or `cancelled`. `complete_investigation` is offered on the last turn only but is
executed whenever the model calls it. `error` records who wrote `error_message`
and `seen` what the session has loaded of it: `None` assigned to a loaded `None` is
not written. Stop requests have a state of their own: a graceful one leaves a
task in the API process that wakes up after 30 seconds, reads the status and, a
statement later, writes `failed` without a condition (`TimerReads`, `TimerKills`);
a restart of the API loses it. The handlers that mark a job failed commit on a
session that was not rolled back, so they may raise and leave the job running in
nobody's hands (`MarkRaises`); only the stale recovery brings it back. What the run
says to the model is `AgentCalls`, what its tools write is `Timeline`.

### EmbeddingPipeline

`queue` and `batch` are memory of the worker service and die with it
(`BatcherDies`, `RestartWorkerService`). An event of the model stands for one call
to the embedding API, so a job is a set of a few such events. `todo` is what the
job's run selected as not yet embedded, `made` what it embedded, `owed` the progress
it has not added yet; `copies[e]` counts rows in `embeddings`, which have no unique
key. `MarkFailedRaises` follows from the fault that broke the session, so it costs
none of its own. The batcher process is started once and never again.

### ChatMessages

One investigation. A message is the record of its metadata that the code looks at:
`type`, `job_id`, `streaming_message_id`, `isWaitingForLLM`, `event_sequence`.
A question goes through `Ask` (its message exists before it is routed) and one of:
`Answer`/`Deliver`, `ReportError`, `Clarify` (the message is deleted), `QueueJob`/
`AttachJob`, `Postpone`, `RouteRaises`; `Leave` is a client that disconnects. A run
reports `start`, tools and an end (`summary` for `agent_completed`, `breakoff` for
`agent_cancelled` and `agent_error`). A report is handled in two transactions:
`Look` loads the message of the investigation's **latest** job, `Store` writes its
metadata back as a whole; `LookAgain` is the second look after 100 ms. `Store` may
leave the report to be sent again (the worker timed out while the endpoint waited
for slow browsers); `Lose` is a report that never arrives or whose handler fails,
which the endpoint answers with 200. What a run does between reports is
`AgentJobs`, how a question is answered is `Questions`.

`raced` records that a report came before the API had attached its job to the
question's message, or while a continuation had yet to mark the message the report
goes to. `Overlap = FALSE` keeps the
jobs of an investigation one after the other. The properties except both, and the
code does not enforce either: section 6.

### Timeline

A session is an agent, a timeline question or a user's request. PostgreSQL at READ
COMMITTED is a few operators: `Seen(s)` is what is committed and what the session's
own transaction did, `Blocks(t, s)` says that `t`'s open transaction holds the row
`s` waits for, or has touched the same (investigation, event) in the unique index,
`Free(s)` that nobody does, `AheadOf(s)` whom `s` waits for over any number of others, `Commit` and `RollBack` what they do to the transaction
`tx[s]`. A statement is issued (`Call...`, `Check...`, `Request...`: the look that
precedes it belongs here) and ends in another step, so others come in between. The
ids drawn from the sequence are never reused. Two history variables tell what the
tables do not: `removed`, the ids deleted on purpose, and `opened`, how often a session
had to be opened anew because it had died. `NoEntryVanishes` looks at the rows before
and after a step, not at what an action says of them: a row that is gone was deleted by
somebody (`IsDeleted`), or its own session was given up (`IsGivenUp`: it died, its
embeddings failed, a query of an analysis module failed, or a look at the stop flag).
Without the savepoint a tool that fails would take the rows of earlier tools with it,
and the property would be violated.

| actions | code |
|---|---|
| `CallRegister`, `RegisterEntry`, `ToolFails` | `timeline_tools.py` 76-385 in the savepoint of `tool_executor.py` 86-182 |
| `CallAnalysis`, `Analyse`, `AnalysisFails`, `LookFails` | `analysis_tools.py`; a module whose query fails, and a look at the stop flag that fails, roll back the whole session |
| `CallEmbeddings`, `EmbedEntries`, `EmbeddingFails`, `CommitAgent` | `embedding_service.py` 403-544 and `memory_summarizer.py`: the commit points of a turn |
| `CallAdd`/`AskAdds`, `CallUpdate`/`AskUpdates`, `CallDelete`/`AskDeletes`, `AskEnds` | `timeline_handler.py` 442-1073, committed with the answer in `chat.py` |
| `CheckCreate`/`CreateEntry`, `RequestUpdate`/`UpdateEntry`, `RequestDelete`/`DeleteEntry`, `CheckNote`/`CreateNote`, `DeleteNote` | `routers/timeline.py` 429-1018 |
| `SessionDies`, `AbortStatement` | a crash or a client that leaves; PostgreSQL's deadlock detector |

### Dispatch and EventIngest

`Dispatch` is a pure module. A file is a name, a content, a size class and whether
the content can be read; `Claims(p, f)` is the parser's `can_parse`, `Order` the
dispatcher's list, `Selected(f)` the first that claims. Inside a parser the decoders
are records of what they need of an entry and which event types they make;
`EventTypes(f)` is what comes out, `TypesMeant(c)` the union over the decoders
written for that content. The order of both lists, the overlaps of the tests (by
suffix, by signature, by size) and the decoders that give up are the code's.

`EventIngest` is one artifact's way through the parser: `Identify`, `Select`, then
per record `Convert`, `InsertEventBatch` at a full batch, `EndOfFile` for the rest,
`InvalidateCache` after each insert's commit. Parsers are records that say what
differs: whether batches are bounded, whether an insert that raises is swallowed
with the record or ends the parse, whether plugins' events come first. `InsertFails`
and `ReadFails` lead to the end of the record, of the parse, or to `Fallback`
(`file_metadata`). `RunAgain` is the job taken up after a crash: it starts from the
first record and keeps what was committed. Next to it analyses are asked for:
`Ask`, `CompareCount` (the stored row is served if its count is the table's),
`QueryCategory`/`QueryFails` per query, `CountForCache`, `CacheResults`, and a user's
`ClearCache`. `clean` marks a stored row whose queries all succeeded and saw the
number of events it was stored with.

### LlmRequests

`Requests` gives each client at most one request, a record with `kind` and `at` (the
next step); `Begin`, `GoOn` and `End` are the only ways to change it, `left` bounds
how many are made, `clock` numbers them. The kinds:

| module | actions | code |
|---|---|---|
| `LlmConfigs` | `CreateConfig`, `PatchConfig`, `DeleteConfig`, `WriteConfig`, `DeactivateConfig` (one row of the trigger's UPDATE), `CommitConfig`, `ConfigFails`, `DeadlockDetected` | `routers/llm_config.py`, `crud/llm_config.py`, `schema.sql` 569-598 |
| `Reports` | `RequestReport`, `ReadActiveConfig`, `GatherFacts`, `WriteNarrative`, `LookForReports`, `DeleteReports`, `StoreReport`, `ConvertReport`, `ReportFails` | `routers/reports.py`, `report_generator.py`, `crud/report.py` |
| `Choices` | `SelectChoice`, `CheckChoice`, `EnqueueChoice`, `MarkChoice`, `SelectFails` | `routers/investigation_choices.py`, `crud/investigation_choice.py` |
| `Questions` | `AskQuestion`, `CheckStatus`; augmented: `ExpandIntoQueries`, `EmbedQueries`, `RetrieveTexts`, `RankTexts`, `AskForAnswer`, `TakeAnswer`; auto: `FetchHistory`, `ExpandQuery`, `TakeExpansion`, `ClassifyIntent`, `RouteIntent`, `ExtractEvents`, `InsertEvents`; timeline: `StartTimeline`, `AskForTools`, `UseTools`, `EndLoop` | `chat_router.py`, `handlers/*`, `query_expander.py` |
| `AgentCalls` | `StartAgent`, `ChoosePlaybook`, `NextTurn`, `PlanTools`, `AnalyseResults`, `CompleteInvestigation`, `TakeAnalysis`, `AnalysisCompletes`, `LoadSummary`, `CompactOrSummarise`, `TakeSummary`, `EndRun` | `assistant_agent.py` 494-1059, `memory_summarizer.py`, playbooks |
| `LlmCalls` | `Calls` (sent cut by `CallLlm`, as it is by `CallAsIs`), `Answer`, `AttemptFails` | `llm_service.py` 424-670, `llm_client.py` |

A message is a role, a size and a place in its conversation; a size is a number of
units of 125 tokens, which the code takes for 500 characters; what is smaller than
that counts nothing. `EnforceContextLimit`, `PruneChatLog` and `Compact` are the code's
functions on such sequences, and the operators `...Prompt` the sizes each caller
puts together. `Retrieval` works on a set of texts with an owner, a distance and a
word count for each query; `Scale` lets one text of the instance stand for many
where the code's constants (150 candidates, 50 results) would hide a cut.

## 3. Runs

| run | instance | asks |
|---|---|---|
| `parsing_safety` | 1 upload, 3 jobs, 2 workers, 1 crash, 2 faults, no overrun | nobody works on another's job; locked while a job is open; statuses as `JobTable` |
| `parsing_liveness` | 1 upload, 2 jobs, 2 workers, 1 crash, 1 fault, overruns | every job ends; verdicts are final |
| `stuck_lock` (violation) | 1 upload, 1 job, nothing fails | the lock is released in the end: it is not |
| `agent` | 1 job, 2 workers, 2 turns, 1 stop request, 2 crashes, 1 fault, 1 overrun | one runner; one set of choices; every job ends |
| `embed_safety` | 1 artifact parsed twice, 2 jobs, 2 workers, batches of 2, 1 each of fault, death, loss, overrun | embedded once; progress within the job; no event forgotten |
| `embed_liveness` | 2 artifacts of 2 investigations, 2 jobs, no fault, 1 death, 1 overrun | every event is embedded; every job ends |
| `chat` | 2 questions, 1 continuation, 2 jobs of 2 runs, 1 report lost or repeated | events in their own message, once, in order, for good; ended jobs settle |
| `chat_liveness` | 1 question, 1 continuation, the rest as above | a routed question settles |
| `timeline` | 1 agent, 1 timeline question, 1 user, 2 events, 4 entries, 4 statements, 1 failure | one entry per event; none vanishes; deleted for good; every statement ends |
| `ingest` | every file of `Dispatch`; 2 records in batches of 1, 5 parsers, 2 analyses, 2 requests for them, 1 crash, 1 fault | the right decoder; stored once per run; nothing dropped; what is served is current; job and requests end |
| `requests` | 2 clients; one of six mixes: 3 changes of configuration, 1 and 2 reports, 3 reports, 3 selections, 1 and a question, an agent of 2 turns | prompts fit; a choice starts one job; one active configuration; reports are replaced; requests end |
| `retrieval` (violation) | 1 question, three texts near or far, with the query's words or without | the nearest text is retrieved: it is not |

Bounds. Two workers suffice for every race over one row, and a third adds no new
pair of steps: each lock is held by one process and each reset names one owner or
all. Three parsing jobs are an archive, a file of it and one that is claimed in
between; one job is enough where a property is about one job (agents), because
claims only order the jobs. Two embedding jobs are needed for two of one artifact
and for two investigations; with a repeated parse `EveryEventEmbedded` would need
a third, so the liveness run parses once. In the chat two jobs are the fewest with
a latest and an older one, two runs of a job the fewest with a repetition, and one
tool with a summary the shortest sequence that has an order. On the timeline one
session of each kind meets every pair of different kinds, and four statements let
one of them look, wait for a second, and find what a third has left; two agents at
once differ from an agent and a question in nothing the index knows. Two records
are a full batch and a rest, with batches of one; the five parsers are one of each
kind (`MCEventIngest`). Two clients are two overlapping transactions, and the
properties about reports and choices need a third request that comes later, so
three of a kind are made; 8000 and 200000 tokens are a window that everything
overflows and one that only a huge result does, and two turns let an agent compact
what the first one has left. Budgets of one fault each are what single-failure
claims need; two crashes let a job be lost, taken up and lost again. `Permutations`
of workers or questions are used in safety runs only.

`CHECK_DEADLOCK FALSE` stands where a behaviour may really come to its end: in the
chat when every question is settled and every job has ended, in `timeline`,
`ingest`, `requests` and `retrieval` when the statements or requests that may be
made have been. In the job modules idle workers go on polling.

Fairness. Weak on what a live process does next (`Proceed`, `Route`, `Report`):
calls to the model and to HTTP have timeouts, and workers poll every few seconds.
Weak on `ReplaceWorker`: the monitor polls every five seconds. Weak on `JobAges`:
time passes. Strong on `RecoverStaleJobs`: it runs only between two polls of an
idle worker, every ten (parsing, agents) or five (embedding) minutes, so it is not
continuously enabled, but an idle worker comes by again and again. In `Timeline`
weak on the end of each session's statement and commit, and on `AbortStatement`:
PostgreSQL looks for deadlocks after a second. In `EventIngest` weak on the parse
and on each request, in `LlmRequests` on each client's next step or the end of its
call: both are coroutines the event loop resumes, and every call has a timeout.
None is assumed on users, crashes or faults; what the model answers is free, so a
loop that ended only because the model is reasonable would be found.

## 4. Proofs

Eight modules prove, for any number of the processes, jobs, requests, records and
failures, from the named assumptions on the constants alone:

| theorem | says |
|---|---|
| `TypeCorrect` in `ParsingJobsProofs`, `AgentJobsProofs`, `EmbeddingPipelineProofs`, `TimelineProofs`, `ChatMessagesProofs`, `EventIngestProofs`, `LlmRequestsProofs` | `Spec => []TypeOK` |
| `ImplementsJobTable` in `ParsingJobsProofs`, `AgentJobsProofs`, `EmbeddingPipelineProofs` | `Spec => JobTableSafe` |
| `ParsingJobsProofs!VerdictsAreFinal` | `Spec => VerdictIsFinal` |
| `ParsingJobsProofs!RunnersOwnTheirJobs` | `Spec => []RunnerOwnsJob` |
| `ParsingJobsProofs!LockCoversOpenJobs` | `Spec => []LockCoversJobs`, for one upload per investigation and no overrun |
| `AgentJobsProofs!RunnersAreAlone` | `Spec => []OneRunner` |
| `AgentJobsProofs!ChoicesAreOfferedOnce` | `Spec => []ChoicesOnce` |
| `EmbeddingPipelineProofs!EventsEmbeddedOnce` | `Spec => []EmbeddedOnce` |
| `EmbeddingPipelineProofs!ProgressStaysWithin` | `Spec => []ProgressWithinJob` |
| `EmbeddingPipelineProofs!NoneForgotten` | `Spec => []NoEventForgotten` |
| `ChatMessagesProofs!OwnEventsInOwnMessage` | `Spec => []OwnEvents` |
| `ChatMessagesProofs!JobsHaveOneMessage` | `Spec => []OneMessagePerJob` |
| `ChatMessagesProofs!RunsAreRecorded` | `Spec => []RunRecorded` |
| `ChatMessagesProofs!RecordsStay` | `Spec => NothingForgotten` |
| `ChatMessagesProofs!EndedJobsHaveSettled` | `Spec => []EndedJobsSettle` |
| `TimelineProofs!EventsOnceOnTimeline` | `Spec => []OneEntryPerEvent` |
| `TimelineProofs!EntriesStay` | `Spec => NoEntryVanishes` |
| `TimelineProofs!DeletionsHold` | `Spec => []DeletedForGood` |
| `TimelineProofs!WaitersAreServed` | among those a waiting session waits for there is one that can go on, or one in a cycle the database breaks |
| `EventIngestProofs!StoredOncePerRun` | `Spec => []OncePerRun` |
| `EventIngestProofs!JobsDropNothing` | `Spec => []NothingDropped` |
| `EventIngestProofs!FilesFindTheirDecoder` | `Spec => []RightDecoder` |
| `EventIngestProofs!ServedResultsAreCurrent` | `Spec => []ServedIsCurrent` |
| `EventIngestProofs!ParsingAdvances` | each step of a parse leaves less to do; only a worker that takes the job up again gives it more |
| `EventIngestProofs!AnalysesComeToAnEnd` | each step of a request for an analysis leaves it fewer steps |
| `PromptProofs!CutPromptFits` | `EnforceContextLimit` cuts any conversation to the window and keeps its system prompt, last message and order, if what is never cut fits |
| `PromptProofs!CompactionKeepsLog` | what `MaybeCompact` leaves of an agent's log still starts with its instructions and the question, and has nothing twice or in another order |
| `PromptProofs!SortedIsInOrder` | `Sorted` lists a finite set in full, each member once, the better before the worse |
| `LlmRequestsProofs!PromptsFit` | `Spec => []PromptFits` |
| `LlmRequestsProofs!ChoicesStartOnce` | `Spec => []ChosenOnce` |
| `LlmRequestsProofs!ActivationIsExclusive` | `Spec => OneActive` |
| `LlmRequestsProofs!ReportsAreReplaced` | `Spec => ReportsReplaced` |
| `LlmRequestsProofs!RequestsAdvance` | each step of a request, or attempt of its call, leaves fewer of either |

The pattern of every step lemma is one step per action. The arguments:

**Parsing and agent jobs.** `TypeOK` is not inductive: a worker writes to the row
`task[w]`, and for that row to exist and to name an investigation the invariant must
say that whoever holds a job names one that was created (`TaskExists`,
`HeldExists`), that a timer aims at one (`AimedExists`), and that a row about to be
claimed is pending and locked by its claimer (`ClaimLocksRow`). With that invariant
every write is a step of `JobTable`. Ownership needs more: without overruns a job in
hand is running (or, for agents, judged by a stop request), owned by its worker
**and younger than the threshold** (`InHandIsOwned`, `HoldersOwn`); the last part
keeps the stale recovery away from it, the owner part the cleanup after another
worker's death, the status part every claim. Two workers that hold the same job
would own the same row. For the choices, a worker about to offer them is the only
one that holds the job, the job has a verdict, so nobody can claim it any more, and
has no choices yet (`ChoicesInv`).

**The lock.** Until the request's job exists the investigation has none and is not
locked (`LockIsToCome`); who is about to clear the lock has found no open job, and
none can come: no running job is left to extract from, and with one upload each no
request is left (`NothingRemains`). The second fact needs ownership, since a job
taken from its worker would go on extracting after it was counted as ended.

**Embedding pipeline.** `Types` adds to `TypeOK` that a held job exists, that jobs
are created in order, and that a worker has parts of a job only while it embeds.
`Lasting` says what no step takes back: the events of a created job, an embedding, a
parse. `Remembered` gives `NoneForgotten`: unless something failed or memory was
lost, what a worker still has to embed is all its job lacks, so a job that ends has
left nothing out. `HeldOwned` is ownership as above. `Counted` gives
`ProgressStaysWithin`: `events_processed` and what is owed to it, together with what
the worker has made and not yet counted, are at most the job's events it no longer
has to do; each step moves a share from one term to the other. `SingleOf` gives
`EventsEmbeddedOnce`: an event of an artifact parsed once is at one place at most, a
position of the queue, the batch, or one job, and is selected only as long as it has
no embedding, which is why a second embedding would need a second job or an overrun.

**Chat.** `Types` adds to `TypeOK` that what a process names is there. `Orderly` is
what serial jobs and attached messages give: one open job, so the investigation's
latest job is the one that reports (`OneByOne`); whose a message is, and that a job
has one (`Linked`, `Reused`, `Owned`, `Single`); that an unanswered question has its
message to itself and its job has none yet (`Asked`, `Queued`); and that what a
report or a continuation has looked up is still what the message says
(`LookedUp`, `Continued`). The last two are the heart of it: the metadata is written
back as a whole, and only because nobody else is about to write there does this lose
nothing. That a set of jobs or messages has a latest one comes from well-foundedness.
`Settling` follows the job to its end: a run whose message the API has yet to
write to has not reported, one that continues a message takes it over with its first
report, and one whose end was reported has let it go. `Recording` gives `RunsAreRecorded`:
jobs come one after another, so at most one has anything to report, and the message
of that one tells its tools from 1 to `step` in order, the last perhaps again if a
report was repeated; whatever else is in any message is of a run gone by
(`OfThePast`). A report is never dropped for want of a message, since a run that has
started has one.

**Timeline.** `Room` keeps the sequence within its bound: `nextId` and the sessions
about to insert never exceed it. Every step has one of eight effects (`Nothing`,
`Adds`, `Marks`, `Commits`, `RollsBack`, `Creates`, `Deletes`, `Annotates`), and each
property is preserved by each effect, whoever has it. A user's session holds no
transaction (`UsersHoldNothing`), and rows of two sessions or of one and the table
have different ids (`IdsApart`). `OneEntryPerEvent` is inductive only together with
the waiting: an insert ends when no open transaction holds the key. For
`NoEntryVanishes` the two effects that drop rows carry their reason: a rollback that
the session is given up, a deletion who asked for it; a commit drops only what its
session has deleted, and agents delete nothing (`AgentsDeleteNothing`).

**Ingestion.** While the selected parser reads (`OwnRun`), what it has converted is
in the table or in the batch, never in both except between an insert's commit and
the end of its invalidation; after a fallback (`FallbackRun`) only the catch-all's
one event counts, and what the first parser had committed stays.

**The cache.** A stored result is served because its count is the table's. Events are
only added, so the sum over the records never falls, and if it is what it was, so is
every term (`Fresh`, for the stored row; `InStep`, for a request under way, whose
queries saw one table as long as the two counts around them agree). That a sum over a
set of records grows with each term is an induction over the size of the set; it is
made over a *set* of numbers instead of a predicate, by taking the least number
outside of it, which needs no operator parameter.

**The decoders.** `Selected` is the first parser that claims and each parser takes the
first decoder that applies, so `FirstClaimSelects` and `FirstFindDecodes` reduce the
theorem to tests, one content at a time: what claims a file under its given name
(`ParserOfFile`) agrees with what its decoder then looks for (`TestsAgree`,
`MeantFinds`), and decoders before it do not apply (`DecodersApart`).

**Requests.** A request of one kind leaves those of the others alone (`Leaves`), so
each property needs an invariant over its own kind only. `ChoiceInv`: a request that
has passed the check began before the choice was marked. `ConfigInv`: a lone writer
has deactivated, or has yet to deactivate, every other active row. `ReportInv`: a
report is some client's, none has two, and a request that deletes deletes its own
earlier one, so the number of reports is bounded by the clients and never returns to
none.

**Prompts.** `RequestsInv` says of every conversation in progress what its kind
promises: whose it is (`Tagged`), that each call to the model carries a prompt in
order (`AllFit`), and that rows, reports, choices and what is left are in range. Its
other half is about the functions, for every sequence of messages: `Total` is a
recursive function, so that a total is the sum of the totals of two parts is again an
induction over a set of numbers (`CountingUp`, `SumsJoin`, `TotalOfBoth`);
`EnforceContextLimit` keeps `Essential` and as much of the newest as fits
(`CutPromptFits`); and an agent's log stays one, its places in order, under every
addition, cut and compaction (`CompactionKeepsLog`). Texts found by a search are put
in order by counting those before each: the ranks are injective into `1..n`, hence
onto, which is all `Sorted` needs (`SortedIsInOrder`).

**Coming to an end.** A loop without a bound would be a number that never falls.
Each request has one: what is left of its turns, of the categories to query, or of
the statements of a report, a choice or a configuration (`Remaining`), and below it
the attempts left of its call (`Attempts`). Every step the request is fair to take
lowers the pair in lexicographic order, and no step of another request touches it
(`Steady`), so only a new request raises it (`RequestsAdvance`). That the turns stay
within `MaxTurns` is an invariant of its own (`TurnsFit`). A parse has the records
still to read, the steps of the batch in hand, the fallback and the failures that may
still happen (`Work`; these count because a read that fails at the end of the file may leave
the parse where it was). A request for an analysis has
its comparison and its queries (`Asking`), which is why the event types are assumed
to be a finite set (`CatsAssumption`).

**Waiting.** Users hold no transaction, and every statement a session has issued is
one that some action of its kind ends (`Owners`). A row of sessions of which each
waits for the next (`Chain`) either comes to one that can go on or can be made longer.
One longer than there are sessions names a session twice; `Ahead`, computed in as many
rounds as there are sessions, contains whatever comes later in a row
(`LaterIsAhead`), so the detector sees that cycle. It does not follow that somebody goes on:
that is the fairness of `StatementsEnd`.

Only model-checked. What needs fairness: `JobTableSpec` (its safety half is
`ImplementsJobTable`), `EveryEventEmbedded`, `QuestionsSettle`, `StatementsEnd`,
`IngestEnds`, `RequestsEnd`, since the prover has no rules for fairness and ENABLED.
Of the last three the theorems above give the part that is not fairness: what each
step brings nearer, and that nobody waits for a session that can never move.
Every invariant and every action property of the passing runs has a theorem. The two
properties the code violates have a counterexample instead (section 5).

## 5. Disagreements the runs show

* `stuck_lock`: a worker that claims a request's job before the request sets the
  lock has loaded `parsing_locked = FALSE` (`main.py:309`), sees that object again at
  384 and skips the branch that would clear the lock. It stays set for good.
* `retrieval`: the hybrid retriever adds a normalised rank, where more is better, to
  a normalised cosine **distance**, where less is, and takes the highest sums
  (`retriever.py:187`): of the texts it has fetched, the farthest ones.

## 6. Seen while modelling, without a run

What follows is what the code does and the properties therefore except by name; a
hazard that lies within an exception says so in its note. So none of them catches the
choices a crash leaves out, the report of an older of two open jobs, a router that
raises, a batch of events that is lost before its job exists; and overlapping
selections, activations and reports are covered only in what comes after them.

Jobs and workers:

* With a second upload, the worker that ends the first one's last job may unlock
  while the second's job is pending (`main.py:357-392`).
* Two workers that end the last two jobs may both clear and announce
  (`main.py:390`, against `db/README.md:672`).
* A forced stop sets no flag (`jobs.py:380-394`: "Worker process will detect and
  terminate"), so the run goes on and `main.py:612` writes `completed` over `failed`;
  the error message stays (`ForceStop` in `AgentJobs`).
* A flag seen at the top of a turn ends the job `completed`, in the middle `failed`
  (`worker/README.md:109` says the latter).
* The graceful timer writes `failed` over a job that completed between its two
  statements (`jobs.py:426-440`).
* A job that outlasts 30 minutes is embedded by two workers, and both insert:
  `ON CONFLICT DO NOTHING` never applies, because `embeddings` has no unique key
  (`embedding_worker.py:110-125`, against "Idempotent Operations",
  `worker/README.md:40`).
* `events_processed` may exceed the job's size when two runs add to it
  (`embedding_worker.py:367`), and a retried job's final count replaces the sum of
  both runs (173). A batch whose call fails counts 0 and the job completes (380).
* Between the end of a parse and the batcher's commit there is no open embedding
  job, and the router takes the embeddings for complete (`embedding_queue.py:177`).

Chat:

* While embedding jobs are open, `chat_router.py:526` (also 240, 459) reads a key that
  `get_embedding_status` does not return; the KeyError leaves the router (440: "No
  exceptions are propagated"), and the question's message keeps thinking.
* A report is attributed to the investigation's latest job
  (`chat_broadcast.py:61-71`, against the parameter's description at 950); with two
  jobs at a time, reports of the older one end up in the other's message.
* `agent_started` may come before the job is attached to the question's message
  (`chat.py:492-518`): a second message is created, and the attachment then resets
  the event sequence of nothing but its own. The comment there says it prevents
  duplicates; the second look after 100 ms makes them rare.
* A continuation is marked with metadata read before the job was committed
  (`chat.py:947-998`); if the new job reports in between, its `streaming_message_id`
  is overwritten and its later reports find no message. A mark that comes later
  still overwrites what another continuation's job has recorded there.
* In mode agent a question that meets open parsing jobs is never answered, although
  `policy_router.py:461` says that the system will retry (`Postpone`).
* A client that leaves while its question is routed leaves the message waiting.
* A general question always fails: `general_chat_handler.py:137-182` selects columns
  that `schema.sql:33-63` does not have.
* A model that fails in the middle of a timeline question is reported as an error,
  but `chat.py` commits what its tools had done.

Agents and calls:

* `tool_executor.py:123` isolates each tool in a savepoint, but an analysis module
  whose query fails rolls back the whole session, with the entries of earlier tools
  that were announced (`AnalysisFails`); `NoEntryVanishes` names it among the ways a
  session is given up (`IsGivenUp`).
* The playbook's strategy stays in the log (`assistant_agent.py:793-795`), and its
  generic text is not an f-string (`investigation_playbooks.py:51-66`).
* For a prompt of two messages the emergency cut sends the system prompt twice
  (`EnforceContextLimit`); a compaction may leave tool results without their call; a
  job that runs again starts from a summary of its first run.
* Two configurations activated at once stay active both, and every question raises
  until one is activated again. PATCH cannot clear a field.
* A retried stream repeats the text already sent (`llm_service.py:599-640`); attempts
  multiply (the agent's three by the client's three); `temperature=None` changes the
  shared configuration.
* A failed statement in one of the `load_*_context` makes the reads after it fail
  (`InvestigationContext`).
* Ranking is asked for in batches, but the indexes it returns are read as those of
  the whole list (`rag_handler.py:423-430`). Search by words takes the texts with the
  lowest ids, not the best.

Ingestion:

* `Windows.edb` and a large SRUM database are claimed by no parser that decodes them;
  SRUM is not part of the execution evidence; a `History*.dat` that is SQLite yields nothing. `RightDecoder` names the ones it
  leaves out.
* Parsers that swallow errors never fall back to the catch-all.
* An analysis computed while events arrive may be stored with the later count and is
  then served as current (`clean` in `ServedIsCurrent` excepts it).
* The filter before the embedding queue finds no event of the MFT, registry, prefetch
  or shortcuts interesting.

## 7. Not modelled, and why

Decoding of binary formats, prompts and texts of the model, SQL that only reads,
single-row CRUD, accounts, logs, MCP configuration and the UI: they have data but
little control, and the tests reach them. The endpoint that embeds timeline entries
and chat messages on request, and links between entries, are written and read in one
place each. No caller uses `embedding_pool.py`, `base_agent.py`,
`choice_generator.py`, `llm_context.py`'s context builders, the phase contexts of
`context_manager.py` (299-506), `delete_reports_for_investigation` and
`delete_investigation_choice`. Inside the modelled parts: contents of notifications,
tool results, the preference of agent jobs over parsing jobs, deletion of an
investigation under a running job, collisions of advisory keys, pieces of streamed
answers.

## 8. What could be added

* The shutdown of the worker manager, if it came to do more than end processes.
