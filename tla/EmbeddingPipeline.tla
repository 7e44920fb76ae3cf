------------------------- MODULE EmbeddingPipeline -------------------------
(***************************************************************************)
(* From a parsed event to its embedding: the parsers insert events and put *)
(* their ids into a queue in memory, a batcher process turns the queue     *)
(* into embedding jobs, and the workers of a separate service claim the    *)
(* jobs and embed what has no embedding yet.                               *)
(*                                                                         *)
(* One step is one database transaction, or one operation on the queue.    *)
(* An event of the model stands for as many events as one call of the      *)
(* embedding provider takes (EMBEDDING_BATCH_SIZE).                        *)
(***************************************************************************)
EXTENDS Naturals, Sequences, FiniteSets, Functions

CONSTANTS
  Artifacts,
  Investigations,
  InvOf,            \* InvOf[a]: the investigation of artifact a
  Workers,          \* slots of the embedding service, NUM_EMBEDDING_WORKERS
  BatchSize,        \* most events the batcher puts into one round of jobs
  Concurrent,       \* allow_concurrent_embedding_calls of the LLM config
  MaxParses,        \* bound: parses of one artifact, the repeated included
  MaxJobs,          \* bound: embedding jobs ever created
  MaxFaults,        \* bound: exceptions, failed calls and transactions
  MaxDeaths,        \* bound: deaths of embedding workers or their service
  MaxLosses,        \* bound: deaths of the batcher or the worker service
  MaxOverruns       \* bound: jobs that outlast the stale threshold (30 minutes)

ASSUME ConstantsAssumption ==
  /\ InvOf \in [Artifacts -> Investigations]
  /\ Concurrent \in BOOLEAN
  /\ MaxOverruns \in Nat
  /\ BatchSize \in Nat \ {0}
  /\ MaxParses \in Nat
  /\ MaxJobs \in Nat
  /\ MaxFaults \in Nat
  /\ MaxDeaths \in Nat
  /\ MaxLosses \in Nat

\* The events of the k-th parse of an artifact.
Events == Artifacts \X (1 .. MaxParses)
InvOfEvent(e) == InvOf[e[1]]

\* A job is its place in the order of created_at.
Jobs == 1 .. MaxJobs

\* "nobody" is NULL; "gone" is the id of a process that no longer exists.
Nobody == "nobody"
Gone   == "gone"

ASSUME WorkersAssumption == Nobody \notin Workers /\ Gone \notin Workers

VARIABLES
  \* --- the parsers and table events
  parse,      \* [Artifacts -> how far the artifact's parsing job is]
  parses,     \* [Artifacts -> parses that inserted their events]
  \* --- the queue (a process of the worker service) and the batcher
  queue,      \* event ids put and not taken yet
  batch,      \* event ids the batcher holds in memory
  batcher,    \* is the batcher process alive?
  \* --- table jobs_embedding
  status,     \* [Jobs -> JobStatus or "absent"]
  owner,      \* [Jobs -> the worker_id column]
  aged,       \* [Jobs -> started_at is older than 30 minutes]
  jobEvents,  \* [Jobs -> the event_ids column, repeated ids once]
  processed,  \* [Jobs -> the events_processed column]
  \* --- table embeddings
  copies,     \* [Events -> rows for the event]
  \* --- embedding workers
  pc,         \* [Workers -> what the process does next]
  task,       \* [Workers -> the job in its hands]
  seen,       \* [Workers -> events_processed as its session has it loaded]
  todo,       \* [Workers -> events selected and not called for yet]
  made,       \* [Workers -> embeddings this run of the job has inserted]
  owed,       \* [Workers -> of these, not yet added to events_processed]
  \* --- budgets of the bounds
  faults,
  deaths,
  losses,
  overruns

parsers  == <<parse, parses>>
inMemory == <<queue, batch, batcher>>
jobTable == <<status, owner, aged, jobEvents, processed>>
workers  == <<pc, task, seen, todo, made, owed>>
budgets  == <<faults, deaths, losses, overruns>>
vars == <<parsers, inMemory, jobTable, copies, workers, budgets>>

Active   == {"pending", "running"}
Verdicts == {"completed", "failed"}

ParseStates  == {"todo", "inserted", "queued", "done"}
WorkerStates == {"idle", "claimed", "embedding", "failing", "resting", "dead"}

TypeOK ==
  /\ parse     \in [Artifacts -> ParseStates]
  /\ parses    \in [Artifacts -> 0 .. MaxParses]
  /\ queue     \in Seq(Events)
  /\ batch     \in Seq(Events)
  /\ batcher   \in {"up", "down"}
  /\ status    \in [Jobs -> {"absent"} \union Active \union Verdicts]
  /\ owner     \in [Jobs -> Workers \union {Nobody, Gone}]
  /\ aged      \in [Jobs -> BOOLEAN]
  /\ jobEvents \in [Jobs -> SUBSET Events]
  /\ processed \in [Jobs -> Nat]
  /\ copies    \in [Events -> Nat]
  /\ pc        \in [Workers -> WorkerStates]
  /\ task      \in [Workers -> Jobs \union {0}]
  /\ seen      \in [Workers -> Nat]
  /\ todo      \in [Workers -> SUBSET Events]
  /\ made      \in [Workers -> Nat]
  /\ owed      \in [Workers -> Nat]
  /\ faults    \in 0 .. MaxFaults
  /\ deaths    \in 0 .. MaxDeaths
  /\ losses    \in 0 .. MaxLosses
  /\ overruns  \in 0 .. MaxOverruns

Init ==
  /\ parse     = [a \in Artifacts |-> "todo"]
  /\ parses    = [a \in Artifacts |-> 0]
  /\ queue     = <<>>
  /\ batch     = <<>>
  /\ batcher   = "up"
  /\ status    = [j \in Jobs |-> "absent"]
  /\ owner     = [j \in Jobs |-> Nobody]
  /\ aged      = [j \in Jobs |-> FALSE]
  /\ jobEvents = [j \in Jobs |-> {}]
  /\ processed = [j \in Jobs |-> 0]
  /\ copies    = [e \in Events |-> 0]
  /\ pc        = [w \in Workers |-> "idle"]
  /\ task      = [w \in Workers |-> 0]
  /\ seen      = [w \in Workers |-> 0]
  /\ todo      = [w \in Workers |-> {}]
  /\ made      = [w \in Workers |-> 0]
  /\ owed      = [w \in Workers |-> 0]
  /\ faults = 0 /\ deaths = 0 /\ losses = 0 /\ overruns = 0

Items(s) == {s[i] : i \in DOMAIN s}

Fail == faults < MaxFaults /\ faults' = faults + 1 /\ UNCHANGED <<deaths, losses, overruns>>
Die  == deaths < MaxDeaths /\ deaths' = deaths + 1 /\ UNCHANGED <<faults, losses, overruns>>
Lose == losses < MaxLosses /\ losses' = losses + 1 /\ UNCHANGED <<faults, deaths, overruns>>

-----------------------------------------------------------------------------
(* The parsers: parse_artifact(), within a parsing job.                    *)

\* _insert_event_batch() and its commit; a repeated parse inserts its events
\* once more.
InsertEvents(a) ==
  /\ parse[a] = "todo"
  /\ parses[a] < MaxParses
  /\ parses' = [parses EXCEPT ![a] = @ + 1]
  /\ parse'  = [parse EXCEPT ![a] = "inserted"]
  /\ UNCHANGED <<inMemory, jobTable, copies, workers, budgets>>

\* The artifact's events without an embedding, those of earlier parses
\* included.
Unembedded(a) == {e \in {a} \X (1 .. parses[a]) : copies[e] = 0}

\* The ids are put one after the other, in the order of the events' times, which the
\* repeated parse gives its events again.
Put(S) == \E ids \in Bijection(1 .. Cardinality(S), S) : queue' = queue \o ids

QueueEvents(a) ==
  /\ parse[a] = "inserted"
  /\ Put(Unembedded(a))
  /\ parse' = [parse EXCEPT ![a] = "queued"]
  /\ UNCHANGED <<parses, batch, batcher, jobTable, copies, workers, budgets>>

\* The SELECT or a put raises: a warning, and the parse goes on.
QueueingFails(a) ==
  /\ parse[a] = "inserted"
  /\ Fail
  /\ \E S \in SUBSET Unembedded(a) : Put(S)
  /\ parse' = [parse EXCEPT ![a] = "queued"]
  /\ UNCHANGED <<parses, batch, batcher, jobTable, copies, workers>>

\* The parsing job gets its verdict.
ParseDone(a) ==
  /\ parse[a] = "queued"
  /\ parse' = [parse EXCEPT ![a] = "done"]
  /\ UNCHANGED <<parses, inMemory, jobTable, copies, workers, budgets>>

\* The parsing worker dies before the verdict, or its job is reset under it:
\* the job is parsed from the start.
ParseRepeats(a) ==
  /\ parses[a] < MaxParses
  /\ \/ parse[a] = "inserted" /\ \E S \in SUBSET Unembedded(a) : Put(S)
     \/ parse[a] = "queued" /\ UNCHANGED queue
  /\ parse' = [parse EXCEPT ![a] = "todo"]
  /\ UNCHANGED <<parses, batch, batcher, jobTable, copies, workers, budgets>>

-----------------------------------------------------------------------------
(* batch_loop_async().                                                     *)

\* The batch ends when it is full or three seconds have passed.
TakeBatch ==
  /\ batcher = "up"
  /\ batch = <<>>
  /\ \E n \in 1 .. Len(queue) :
       /\ n <= BatchSize
       /\ batch' = SubSeq(queue, 1, n)
       /\ queue' = SubSeq(queue, n + 1, Len(queue))
  /\ UNCHANGED <<parsers, batcher, jobTable, copies, workers, budgets>>

Created == {j \in Jobs : status[j] # "absent"}

\* The part of the batch that belongs to an investigation.
Group(i) == {e \in Items(batch) : InvOfEvent(e) = i}

\* Mutant: only the first event's group gets its job.
GroupsFirst == {InvOfEvent(batch[1])}

Groups == {InvOfEvent(e) : e \in Items(batch)}

\* One job per investigation, all in one transaction: their order is free.
CreateJobs ==
  /\ batch # <<>>
  /\ LET n == Cardinality(Created)
         new == (n + 1) .. (n + Cardinality(Groups))
     IN  /\ new \subseteq Jobs
         /\ \E inv \in Bijection(new, Groups) :
              /\ status'    = [j \in Jobs |-> IF j \in new THEN "pending" ELSE status[j]]
              /\ jobEvents' = [j \in Jobs |-> IF j \in new THEN Group(inv[j]) ELSE jobEvents[j]]
  /\ batch' = <<>>
  /\ UNCHANGED <<parsers, queue, batcher, owner, aged, processed, copies, workers, budgets>>

\* The transaction fails: it is logged, and the next batch begins empty.
CreateFails ==
  /\ batch # <<>>
  /\ Fail
  /\ batch' = <<>>
  /\ UNCHANGED <<parsers, queue, batcher, jobTable, copies, workers>>

\* The batcher dies; nobody starts it again.  The queue goes on taking ids.
BatcherDies ==
  /\ batcher = "up"
  /\ Lose
  /\ batcher' = "down"
  /\ batch'   = <<>>
  /\ UNCHANGED <<parsers, queue, jobTable, copies, workers>>

\* The worker service restarts: queue and batch are gone, and the artifacts
\* whose parsing job had no verdict are parsed again.
RestartWorkerService ==
  /\ Lose
  /\ queue' = <<>> /\ batch' = <<>> /\ batcher' = "up"
  /\ parse' = [a \in Artifacts |-> IF parse[a] \in {"inserted", "queued"} THEN "todo" ELSE parse[a]]
  /\ UNCHANGED <<parses, jobTable, copies, workers>>

-----------------------------------------------------------------------------
(* embedding_worker_loop() and process_embedding_job().                    *)

Goto(w, state) == pc' = [pc EXCEPT ![w] = state]

\* What the process has in its hands is dropped.
Drop(w) ==
  /\ task' = [task EXCEPT ![w] = 0]
  /\ seen' = [seen EXCEPT ![w] = 0]
  /\ todo' = [todo EXCEPT ![w] = {}]
  /\ made' = [made EXCEPT ![w] = 0]
  /\ owed' = [owed EXCEPT ![w] = 0]

NextRound(w) == Goto(w, "idle") /\ Drop(w)

Claimable(j) == status[j] = "pending"

\* claim_embedding_job(): the oldest pending job; its row stays locked from
\* the SELECT to the commit.
Assign(w, j) ==
  /\ Claimable(j)
  /\ \A k \in Jobs : k < j => ~Claimable(k)
  /\ status' = [status EXCEPT ![j] = "running"]
  /\ owner'  = [owner EXCEPT ![j] = w]
  /\ aged'   = [aged EXCEPT ![j] = FALSE]
  /\ UNCHANGED <<jobEvents, processed>>

Claim(w) ==
  /\ pc[w] = "idle"
  /\ \E j \in Jobs :
       /\ Assign(w, j)
       /\ task' = [task EXCEPT ![w] = j]
       /\ seen' = [seen EXCEPT ![w] = processed[j]]
  /\ Goto(w, "claimed")
  /\ UNCHANGED <<parsers, inMemory, copies, todo, made, owed, budgets>>

\* The refresh after the commit raises: the loop forgets the job.
LoseClaim(w) ==
  /\ pc[w] = "idle"
  /\ Fail
  /\ \E j \in Jobs : Assign(w, j)
  /\ UNCHANGED <<parsers, inMemory, copies, workers>>

Rest(w) ==
  /\ pc[w] = "idle"
  /\ \A j \in Jobs : ~Claimable(j)
  /\ Goto(w, "resting")
  /\ UNCHANGED <<parsers, inMemory, jobTable, copies, task, seen, todo, made, owed, budgets>>

\* The check for stale jobs is not due.
Wake(w) ==
  /\ pc[w] = "resting"
  /\ NextRound(w)
  /\ UNCHANGED <<parsers, inMemory, jobTable, copies, budgets>>

\* Mutant: a status outside the enum.
JudgeFinished(j, verdict) == status' = [status EXCEPT ![j] = "finished"]

\* UPDATE jobs_embedding SET status = verdict WHERE job_id = j.
Judge(j, verdict) == status' = [status EXCEPT ![j] = verdict]

\* The job is completed with events_processed = 0, an assignment that is
\* written only if it changes what the session has loaded.
CompleteEmpty(w) ==
  /\ Judge(task[w], "completed")
  /\ processed' = [processed EXCEPT ![task[w]] = IF seen[w] = 0 THEN @ ELSE 0]
  /\ NextRound(w)
  /\ UNCHANGED <<parsers, inMemory, owner, aged, jobEvents, copies>>

\* No embedding provider is configured any more.
SkipJob(w) ==
  /\ pc[w] = "claimed"
  /\ Fail
  /\ CompleteEmpty(w)

\* Mutant: the events are not matched with their embeddings.
WantedAll(j) == jobEvents[j]

\* The events of the job that have no embedding.
Wanted(j) == {e \in jobEvents[j] : copies[e] = 0}

SelectEvents(w) ==
  /\ pc[w] = "claimed"
  /\ Wanted(task[w]) # {}
  /\ todo' = [todo EXCEPT ![w] = Wanted(task[w])]
  /\ Goto(w, "embedding")
  /\ UNCHANGED <<parsers, inMemory, jobTable, copies, task, seen, made, owed, budgets>>

NothingToEmbed(w) ==
  /\ pc[w] = "claimed"
  /\ Wanted(task[w]) = {}
  /\ CompleteEmpty(w)
  /\ UNCHANGED budgets

\* One call of the provider and the INSERT of its embeddings.  No constraint
\* makes an event's embedding unique: ON CONFLICT never applies.
EmbedBatch(w, e) ==
  /\ pc[w] = "embedding"
  /\ e \in todo[w]
  /\ copies' = [copies EXCEPT ![e] = @ + 1]
  /\ todo'   = [todo EXCEPT ![w] = @ \ {e}]
  /\ made'   = [made EXCEPT ![w] = @ + 1]
  /\ owed'   = [owed EXCEPT ![w] = IF Concurrent THEN @ + 1 ELSE @]
  /\ UNCHANGED <<parsers, inMemory, jobTable, pc, task, seen, budgets>>

\* The call or the INSERT raises: logged, and the job goes on without.
BatchFails(w, e) ==
  /\ pc[w] = "embedding"
  /\ e \in todo[w]
  /\ Fail
  /\ todo' = [todo EXCEPT ![w] = @ \ {e}]
  /\ UNCHANGED <<parsers, inMemory, jobTable, copies, pc, task, seen, made, owed>>

\* A finished batch adds itself to events_processed, on a connection of its
\* own.
ReportProgress(w) ==
  /\ owed[w] > 0
  /\ owed' = [owed EXCEPT ![w] = @ - 1]
  /\ processed' = [processed EXCEPT ![task[w]] = @ + 1]
  /\ UNCHANGED <<parsers, inMemory, status, owner, aged, jobEvents, copies,
                 pc, task, seen, todo, made, budgets>>

ReportFails(w) ==
  /\ owed[w] > 0
  /\ Fail
  /\ owed' = [owed EXCEPT ![w] = @ - 1]
  /\ UNCHANGED <<parsers, inMemory, jobTable, copies, pc, task, seen, todo, made>>

\* Mutant: the verdict does not wait for the last batch.
SomeBatchEnded(w) == made[w] > 0 /\ owed[w] = 0

\* gather() has returned: every batch has ended, well or badly.
AllBatchesEnded(w) == todo[w] = {} /\ owed[w] = 0

\* Mutant: the run's count is added to the batches' own reports.
FinalCountAdded(w) == processed[task[w]] + made[w]

\* What events_processed becomes with the verdict.
FinalCount(w) == made[w]

\* UPDATE ... SET status = 'completed', events_processed = count.
Finish(w) ==
  /\ pc[w] = "embedding"
  /\ AllBatchesEnded(w)
  /\ Judge(task[w], "completed")
  /\ processed' = [processed EXCEPT ![task[w]] = FinalCount(w)]
  /\ NextRound(w)
  /\ UNCHANGED <<parsers, inMemory, owner, aged, jobEvents, copies, budgets>>

\* A statement outside the batches raises; a sequential run can also fail in
\* the rollback of a batch.
JobRaises(w) ==
  /\ \/ pc[w] = "claimed"
     \/ pc[w] = "embedding" /\ (AllBatchesEnded(w) \/ ~Concurrent)
  /\ Fail
  /\ Goto(w, "failing")
  /\ todo' = [todo EXCEPT ![w] = {}]
  /\ made' = [made EXCEPT ![w] = 0]
  /\ UNCHANGED <<parsers, inMemory, jobTable, copies, task, seen, owed>>

MarkFailed(w) ==
  /\ pc[w] = "failing"
  /\ Judge(task[w], "failed")
  /\ NextRound(w)
  /\ UNCHANGED <<parsers, inMemory, owner, aged, jobEvents, processed, copies, budgets>>

\* That UPDATE raises too, for the same cause (so it is not counted twice):
\* the job keeps its status, in nobody's hands.
MarkFailedRaises(w) ==
  /\ pc[w] = "failing"
  /\ NextRound(w)
  /\ UNCHANGED <<parsers, inMemory, jobTable, copies, budgets>>

-----------------------------------------------------------------------------
(* Deaths and recovery: main() of the embedding service, and the two       *)
(* periodic checks for stale jobs.                                         *)

\* Mutant: recovery passes over the rows of processes it does not know any
\* more.
StaleOfKnown == {j \in Jobs : status[j] = "running" /\ aged[j] /\ owner[j] # Gone}

Stale == {j \in Jobs : status[j] = "running" /\ aged[j]}

\* Mutant: the cleanup does not test the status.
OwnedByEver(w) == {j \in Jobs : owner[j] = w}

OwnedBy(w) == {j \in Jobs : status[j] = "running" /\ owner[j] = w}

\* SET status = pending, worker_id = NULL, started_at = NULL, for the jobs S;
\* the ids of the processes replaced name no process any more.
ResetJobs(S, replaced) ==
  /\ status' = [j \in Jobs |-> IF j \in S THEN "pending" ELSE status[j]]
  /\ owner'  = [j \in Jobs |-> IF j \in S THEN Nobody
                                ELSE IF owner[j] \in replaced THEN Gone ELSE owner[j]]
  /\ aged'   = [j \in Jobs |-> aged[j] /\ j \notin S]
  /\ UNCHANGED <<jobEvents, processed>>

\* recover_stale_embedding_jobs(), which only a worker without a job gets to.
RecoverStaleJobs(w) ==
  /\ pc[w] = "resting"
  /\ ResetJobs(Stale, {})
  /\ NextRound(w)
  /\ UNCHANGED <<parsers, inMemory, copies, budgets>>

\* recover_stale_jobs() of the parsing workers looks after this table too.
RecoverByWorkerService ==
  /\ Stale # {}
  /\ ResetJobs(Stale, {})
  /\ UNCHANGED <<parsers, inMemory, copies, workers, budgets>>

WorkerDies(w) ==
  /\ pc[w] # "dead"
  /\ Die
  /\ Goto(w, "dead")
  /\ Drop(w)
  /\ UNCHANGED <<parsers, inMemory, jobTable, copies>>

\* The monitor resets the jobs of the dead worker and starts a successor
\* under a new id.
ReplaceWorker(w) ==
  /\ pc[w] = "dead"
  /\ ResetJobs(OwnedBy(w), {w})
  /\ NextRound(w)
  /\ UNCHANGED <<parsers, inMemory, copies, budgets>>

\* The cleanup raises: logged, and the successor is started all the same.
ReplaceWithoutCleanup(w) ==
  /\ pc[w] = "dead"
  /\ Fail
  /\ ResetJobs({}, {w})
  /\ NextRound(w)
  /\ UNCHANGED <<parsers, inMemory, copies>>

\* The embedding service goes down and comes up with new ids.  Its signal
\* handler resets the jobs of its workers; after a kill nothing does, not
\* even at startup.
RestartEmbeddingService(S) ==
  /\ Die
  /\ \A j \in S : j \in UNION {OwnedBy(w) : w \in Workers}
  /\ ResetJobs(S, Workers)
  /\ pc'   = [w \in Workers |-> "idle"]
  /\ task' = [w \in Workers |-> 0]
  /\ seen' = [w \in Workers |-> 0]
  /\ todo' = [w \in Workers |-> {}]
  /\ made' = [w \in Workers |-> 0]
  /\ owed' = [w \in Workers |-> 0]
  /\ UNCHANGED <<parsers, inMemory, copies>>

\* The job's owner is at work on it.
InHand(j) == \E w \in Workers : owner[j] = w /\ task[w] = j

\* Half an hour passes since started_at.
JobAges(j) ==
  /\ status[j] = "running"
  /\ ~aged[j]
  /\ aged' = [aged EXCEPT ![j] = TRUE]
  /\ \/ ~InHand(j) /\ UNCHANGED overruns
     \/ InHand(j) /\ overruns < MaxOverruns /\ overruns' = overruns + 1
  /\ UNCHANGED <<parsers, inMemory, status, owner, jobEvents, processed, copies, workers,
                 faults, deaths, losses>>

-----------------------------------------------------------------------------
Parse(a) == InsertEvents(a) \/ QueueEvents(a) \/ ParseDone(a)

Batcher == TakeBatch \/ CreateJobs

\* What a worker does of its own accord.
Proceed(w) ==
  \/ Claim(w) \/ Rest(w) \/ Wake(w)
  \/ SelectEvents(w) \/ NothingToEmbed(w)
  \/ \E e \in Events : EmbedBatch(w, e)
  \/ ReportProgress(w) \/ Finish(w) \/ MarkFailed(w)

\* What goes wrong in a worker, within the budget of faults.
Fault(w) ==
  \/ LoseClaim(w) \/ SkipJob(w)
  \/ \E e \in Events : BatchFails(w, e)
  \/ ReportFails(w) \/ JobRaises(w) \/ MarkFailedRaises(w)

Next ==
  \/ \E a \in Artifacts : Parse(a) \/ QueueingFails(a) \/ ParseRepeats(a)
  \/ Batcher \/ CreateFails \/ BatcherDies
  \/ RestartWorkerService
  \/ \E w \in Workers :
       \/ Proceed(w) \/ Fault(w) \/ RecoverStaleJobs(w)
       \/ WorkerDies(w) \/ ReplaceWorker(w) \/ ReplaceWithoutCleanup(w)
  \/ RecoverByWorkerService
  \/ \E S \in SUBSET Jobs : RestartEmbeddingService(S)
  \/ \E j \in Jobs : JobAges(j)

\* Parsing jobs end (ParsingJobs), the batcher and the workers go on while
\* they are alive, the monitor polls every five seconds, time passes, and a
\* worker that keeps finding nothing to do comes to its check for stale jobs
\* again and again (every five minutes).
Fairness ==
  /\ \A a \in Artifacts : WF_vars(Parse(a))
  /\ WF_vars(Batcher)
  /\ \A w \in Workers :
       WF_vars(Proceed(w)) /\ SF_vars(RecoverStaleJobs(w)) /\ WF_vars(ReplaceWorker(w))
  /\ \A j \in Jobs : WF_vars(JobAges(j))

Spec == Init /\ [][Next]_vars

FairSpec == Spec /\ Fairness

-----------------------------------------------------------------------------
(* Properties.                                                             *)

Inserted(e) == e[2] <= parses[e[1]]
Waiting(e)  == e \in Items(queue) \/ e \in Items(batch)
InOpenJob(e) == \E j \in Jobs : status[j] \in Active /\ e \in jobEvents[j]

\* An event has at most one embedding (embedding_worker.py:110-125, 341-352),
\* whichever workers die and whatever fails, as long as no job outlasts the
\* stale threshold and its artifact is not parsed twice.
EmbeddedOnce ==
  overruns = 0 => \A e \in Events : parses[e[1]] = 1 => copies[e] <= 1

\* No job reports more embeddings than it has events, so that the progress is
\* a percentage (embedding_worker.py:166-180, 359-376, embedding_queue.py:163).
ProgressWithinJob ==
  overruns = 0 => \A j \in Jobs : processed[j] <= Cardinality(jobEvents[j])

\* Unless something fails or memory is lost, an event of a parsed artifact
\* has its embedding, or waits in the queue, the batch or an open job: a
\* crash of an embedding worker, wherever it comes, forgets none
\* (embedding_worker.py:59-64, 110-180, embedding_background_worker.py:59-74).
NoEventForgotten ==
  faults = 0 /\ losses = 0 =>
    \A e \in Events :
      Inserted(e) /\ parse[e[1]] \in {"queued", "done"} =>
        copies[e] > 0 \/ Waiting(e) \/ InOpenJob(e)

\* Where nothing fails, every event is embedded in the end.
EveryEventEmbedded == \A e \in Events : Inserted(e) ~> copies[e] > 0

\* The embedding jobs keep the promises of a job table.
JT == INSTANCE JobTable WITH Jobs <- Jobs, status <- status
JobTableSafe == JT!Safe
JobTableSpec == JT!Spec
=============================================================================
