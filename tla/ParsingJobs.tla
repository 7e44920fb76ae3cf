---------------------------- MODULE ParsingJobs ----------------------------
(***************************************************************************)
(* The parsing side of an investigation: upload requests of the API        *)
(* create jobs, worker processes claim and process them, a manager         *)
(* replaces workers that die, and investigations.parsing_locked is meant   *)
(* to keep questions out while jobs are open.                              *)
(*                                                                         *)
(* One step is one database transaction (or one statement, when locks      *)
(* make the difference); everything a process remembers between two of     *)
(* its transactions is a variable of its own.                              *)
(***************************************************************************)
EXTENDS Naturals, FiniteSets

CONSTANTS
  Workers,          \* slots of the worker manager, NUM_WORKERS of them
  Investigations,
  Uploads,          \* upload requests; each is served at most once
  Target,           \* Target[u]: the investigation request u uploads to
  MaxJobs,          \* bound: jobs ever created
  MaxCrashes,       \* bound: deaths of worker processes and of requests
  MaxFaults,        \* bound: exceptions and failed transactions
  AllowOverrun      \* may a parse outlast the stale threshold (30 minutes)?

ASSUME ConstantsAssumption ==
  /\ Target \in [Uploads -> Investigations]
  /\ MaxJobs \in Nat
  /\ MaxCrashes \in Nat
  /\ MaxFaults \in Nat
  /\ AllowOverrun \in BOOLEAN

\* A job is its place in the order of created_at.
Jobs == 1 .. MaxJobs

\* "nobody" is NULL; "gone" is the id of a process that no longer exists.
Nobody == "nobody"
Gone   == "gone"

ASSUME WorkersAssumption == Nobody \notin Workers /\ Gone \notin Workers

VARIABLES
  \* --- table jobs_parsing
  status,     \* [Jobs -> JobStatus or "absent"]
  owner,      \* [Jobs -> the worker_id column]
  aged,       \* [Jobs -> started_at is older than 30 minutes]
  invOf,      \* [Jobs -> the investigation_id column]
  rowLock,    \* [Jobs -> the worker whose open transaction locks the row]
  \* --- table investigations, and PostgreSQL's advisory locks
  locked,     \* [Investigations -> the parsing_locked column]
  advisory,   \* [Investigations -> the worker that holds the lock]
  \* --- worker processes
  pc,         \* [Workers -> what the process does next]
  task,       \* [Workers -> the job in its hands]
  saw,        \* [Workers -> parsing_locked as its session has it loaded]
  \* --- upload requests
  upc,        \* [Uploads -> what the request does next]
  usaw,       \* [Uploads -> parsing_locked as its session has it loaded]
  \* --- budgets of the bounds
  crashes,
  faults

jobTable == <<status, owner, aged, invOf, rowLock>>
workers  == <<pc, task, saw>>
requests == <<upc, usaw>>
budgets  == <<crashes, faults>>
vars == <<jobTable, locked, advisory, workers, requests, budgets>>

Active   == {"pending", "running"}
Verdicts == {"completed", "failed"}

\* What a session holds for parsing_locked: a value, or nothing since a
\* rollback expired the object (the next query reads the row again).
Views == {"locked", "unlocked", "expired"}
View(i) == IF locked[i] THEN "locked" ELSE "unlocked"

\* Where a worker process can be.
Parsing    == {"claimed", "parsing"}                \* the job is not judged yet
Finishing  == {"counting", "draining", "clearing"}  \* judged by this worker
Recovering == {"failing", "rechecking", "reclearing"}   \* exception handler
WorkerStates ==
  {"idle", "claiming", "resting", "dead"}
    \union Parsing \union Finishing \union Recovering \union {"notifying"}

UploadStates == {"new", "loaded", "enqueued", "done", "aborted"}

TypeOK ==
  /\ status   \in [Jobs -> {"absent"} \union Active \union Verdicts]
  /\ owner    \in [Jobs -> Workers \union {Nobody, Gone}]
  /\ aged     \in [Jobs -> BOOLEAN]
  /\ invOf    \in [Jobs -> Investigations \union {Nobody}]
  /\ rowLock  \in [Jobs -> Workers \union {Nobody}]
  /\ locked   \in [Investigations -> BOOLEAN]
  /\ advisory \in [Investigations -> Workers \union {Nobody}]
  /\ pc       \in [Workers -> WorkerStates]
  /\ task     \in [Workers -> Jobs \union {0}]
  /\ saw      \in [Workers -> Views]
  /\ upc      \in [Uploads -> UploadStates]
  /\ usaw     \in [Uploads -> Views]
  /\ crashes  \in 0 .. MaxCrashes
  /\ faults   \in 0 .. MaxFaults

Init ==
  /\ status   = [j \in Jobs |-> "absent"]
  /\ owner    = [j \in Jobs |-> Nobody]
  /\ aged     = [j \in Jobs |-> FALSE]
  /\ invOf    = [j \in Jobs |-> Nobody]
  /\ rowLock  = [j \in Jobs |-> Nobody]
  /\ locked   = [i \in Investigations |-> FALSE]
  /\ advisory = [i \in Investigations |-> Nobody]
  /\ pc       = [w \in Workers |-> "idle"]
  /\ task     = [w \in Workers |-> 0]
  /\ saw      = [w \in Workers |-> "expired"]
  /\ upc      = [u \in Uploads |-> "new"]
  /\ usaw     = [u \in Uploads |-> "expired"]
  /\ crashes  = 0
  /\ faults   = 0

-----------------------------------------------------------------------------
(* Statements the handlers are made of.                                    *)

\* INSERT INTO jobs_parsing, in the order of created_at.
InsertJob(j, i) ==
  /\ status[j] = "absent"
  /\ \A k \in Jobs : k < j => status[k] # "absent"
  /\ status' = [status EXCEPT ![j] = "pending"]
  /\ invOf'  = [invOf EXCEPT ![j] = i]
  /\ UNCHANGED <<owner, aged, rowLock>>

\* Mutant: SELECT without FOR UPDATE SKIP LOCKED.
RowFreeIgnored(j) == j \in Jobs

\* FOR UPDATE SKIP LOCKED passes over a row that another transaction holds;
\* an UPDATE waits for it.
RowFree(j) == rowLock[j] = Nobody

Claimable(j) == status[j] = "pending" /\ RowFree(j)

\* SET status = pending, worker_id = NULL, started_at = NULL, for the jobs S.
\* The ids of the processes replaced stay in the rows nobody resets, where
\* they name no process any more.
ResetJobs(S, replaced) ==
  /\ status' = [j \in Jobs |-> IF j \in S THEN "pending" ELSE status[j]]
  /\ owner'  = [j \in Jobs |-> IF j \in S THEN Nobody
                                ELSE IF owner[j] \in replaced THEN Gone ELSE owner[j]]
  /\ aged'   = [j \in Jobs |-> aged[j] /\ j \notin S]

\* Mutant: a status outside the enum.
JudgeFinished(j, verdict) ==
  /\ RowFree(j)
  /\ status' = [status EXCEPT ![j] = "finished"]
  /\ UNCHANGED <<owner, aged, invOf, rowLock>>

\* UPDATE jobs_parsing SET status = verdict WHERE job_id = j, whoever owns j.
Judge(j, verdict) ==
  /\ RowFree(j)
  /\ status' = [status EXCEPT ![j] = verdict]
  /\ UNCHANGED <<owner, aged, invOf, rowLock>>

\* Mutant: the count leaves the running jobs out.
RemainingPending(i) == {j \in Jobs : invOf[j] = i /\ status[j] = "pending"}

Remaining(i) == {j \in Jobs : invOf[j] = i /\ status[j] \in {"pending", "running"}}

\* Mutant: recovery that passes over the rows of processes it does not know.
StaleOfKnown == {j \in Jobs : status[j] = "running" /\ aged[j] /\ owner[j] # Gone}

Stale == {j \in Jobs : status[j] = "running" /\ aged[j]}

InvOfTask(w) == invOf[task[w]]

\* set_parsing_lock(): the attribute is assigned, and written only if that
\* changes what the session has loaded.
SetParsingLock(i, view, value) ==
  LET loaded == IF view = "expired" THEN View(i) ELSE view
      target == IF value THEN "locked" ELSE "unlocked"
  IN  locked' = IF loaded # target THEN [locked EXCEPT ![i] = value] ELSE locked

\* End of a transaction: every lock of the worker is released.
ReleaseRows(w)     == rowLock'  = [j \in Jobs |-> IF rowLock[j] = w THEN Nobody ELSE rowLock[j]]
ReleaseAdvisory(w) == advisory' = [i \in Investigations |->
                                     IF advisory[i] = w THEN Nobody ELSE advisory[i]]

Goto(w, state) == pc' = [pc EXCEPT ![w] = state]

\* The session is closed and the loop starts over.
NextRound(w) ==
  /\ Goto(w, "idle")
  /\ task' = [task EXCEPT ![w] = 0]
  /\ saw'  = [saw EXCEPT ![w] = "expired"]

-----------------------------------------------------------------------------
(* upload_artifact(), one request.                                         *)

\* The investigation is loaded for the access check; the session keeps it.
UploadLoad(u) ==
  /\ upc[u] = "new"
  /\ upc'  = [upc EXCEPT ![u] = "loaded"]
  /\ usaw' = [usaw EXCEPT ![u] = View(Target[u])]
  /\ UNCHANGED <<jobTable, locked, advisory, workers, budgets>>

\* create_artifact() and enqueue_parsing_job().
UploadEnqueue(u) ==
  /\ upc[u] = "loaded"
  /\ \E j \in Jobs : InsertJob(j, Target[u])
  /\ upc' = [upc EXCEPT ![u] = "enqueued"]
  /\ UNCHANGED <<usaw, locked, advisory, workers, budgets>>

\* set_parsing_lock(True), a transaction after the job is visible.
UploadLock(u) ==
  /\ upc[u] = "enqueued"
  /\ SetParsingLock(Target[u], usaw[u], TRUE)
  /\ upc' = [upc EXCEPT ![u] = "done"]
  /\ UNCHANGED <<usaw, jobTable, advisory, workers, budgets>>

\* The API process dies, or a statement raises: an upload without a job, or
\* a job without a lock.
UploadAborts(u) ==
  /\ upc[u] \in {"loaded", "enqueued"}
  /\ upc' = [upc EXCEPT ![u] = IF upc[u] = "loaded" THEN "done" ELSE "aborted"]
  /\ UNCHANGED <<usaw, jobTable, locked, advisory, workers, budgets>>

-----------------------------------------------------------------------------
(* worker_process(): the loop.                                             *)

\* claim_parsing_job(), the SELECT: the oldest pending job that no other
\* transaction has locked; its row is locked.
SelectJob(w) ==
  /\ pc[w] = "idle"
  /\ \E j \in Jobs :
       /\ Claimable(j)
       /\ \A k \in Jobs : k < j => ~Claimable(k)
       /\ rowLock' = [rowLock EXCEPT ![j] = w]
       /\ task'    = [task EXCEPT ![w] = j]
  /\ Goto(w, "claiming")
  /\ UNCHANGED <<status, owner, aged, invOf, locked, advisory, saw, requests, budgets>>

\* claim_parsing_job(), the UPDATE and its commit.
CommitClaim(w) ==
  /\ pc[w] = "claiming"
  /\ status' = [status EXCEPT ![task[w]] = "running"]
  /\ owner'  = [owner EXCEPT ![task[w]] = w]
  /\ aged'   = [aged EXCEPT ![task[w]] = FALSE]
  /\ ReleaseRows(w)
  /\ Goto(w, "claimed")
  /\ UNCHANGED <<invOf, locked, advisory, task, saw, requests, budgets>>

\* The claim raises: the loop logs it and the transaction is rolled back.
ClaimFails(w) ==
  /\ pc[w] = "claiming"
  /\ faults < MaxFaults
  /\ faults' = faults + 1
  /\ ReleaseRows(w)
  /\ NextRound(w)
  /\ UNCHANGED <<status, owner, aged, invOf, locked, advisory, requests, crashes>>

\* No job to claim: sleep a second before polling again.
Rest(w) ==
  /\ pc[w] = "idle"
  /\ \A j \in Jobs : ~Claimable(j)
  /\ Goto(w, "resting")
  /\ UNCHANGED <<jobTable, locked, advisory, task, saw, requests, budgets>>

\* The periodic maintenance is not due.
Wake(w) ==
  /\ pc[w] = "resting"
  /\ NextRound(w)
  /\ UNCHANGED <<jobTable, locked, advisory, requests, budgets>>

\* recover_stale_jobs(), which only a worker that found no job gets to.
RecoverStaleJobs(w) ==
  /\ pc[w] = "resting"
  /\ ResetJobs(Stale, {})
  /\ NextRound(w)
  /\ UNCHANGED <<invOf, rowLock, locked, advisory, requests, budgets>>

-----------------------------------------------------------------------------
(* process_parsing_job().                                                  *)

\* The investigation is loaded for its owner; the session keeps it, and
\* with it the value of parsing_locked.
LoadInvestigation(w) ==
  /\ pc[w] = "claimed"
  /\ saw' = [saw EXCEPT ![w] = View(InvOfTask(w))]
  /\ Goto(w, "parsing")
  /\ UNCHANGED <<jobTable, locked, advisory, task, requests, budgets>>

\* parse_artifact() of an archive: a job for each file extracted.  The
\* parser leaves the parsing lock alone.
ExtractFile(w) ==
  /\ pc[w] = "parsing"
  /\ \E j \in Jobs : InsertJob(j, InvOfTask(w))
  /\ UNCHANGED <<locked, advisory, workers, requests, budgets>>

\* parse_artifact() rolls back a batch of events, or a file of an archive,
\* and goes on: everything the session had loaded expires.
RollbackWhileParsing(w) ==
  /\ pc[w] = "parsing"
  /\ saw[w] # "expired"
  /\ faults < MaxFaults
  /\ faults' = faults + 1
  /\ saw' = [saw EXCEPT ![w] = "expired"]
  /\ UNCHANGED <<jobTable, locked, advisory, pc, task, requests, crashes>>

\* Parsed: UPDATE ... SET status = 'completed' and commit.
MarkCompleted(w) ==
  /\ pc[w] = "parsing"
  /\ Judge(task[w], "completed")
  /\ Goto(w, "counting")
  /\ UNCHANGED <<locked, advisory, task, saw, requests, budgets>>

\* SELECT COUNT(*) of the investigation's open jobs.
CountRemaining(w) ==
  /\ pc[w] = "counting"
  /\ IF Remaining(InvOfTask(w)) = {}
     THEN Goto(w, "draining") /\ UNCHANGED <<task, saw>>
     ELSE NextRound(w)
  /\ UNCHANGED <<jobTable, locked, advisory, requests, budgets>>

\* pg_try_advisory_xact_lock(), which never waits.
TryAdvisoryLock(w) ==
  /\ pc[w] = "draining"
  /\ IF advisory[InvOfTask(w)] = Nobody
     THEN /\ advisory' = [advisory EXCEPT ![InvOfTask(w)] = w]
          /\ Goto(w, "clearing")
          /\ UNCHANGED <<task, saw>>
     ELSE NextRound(w) /\ UNCHANGED advisory
  /\ UNCHANGED <<jobTable, locked, requests, budgets>>

\* The SELECT returns the object the session already has, so the test of
\* parsing_locked reads what was loaded when the job began.
SeesLocked(w) ==
  \/ saw[w] = "locked"
  \/ saw[w] = "expired" /\ locked[InvOfTask(w)]

\* set_parsing_lock(False); its commit releases the advisory lock.
ClearParsingLock(w) ==
  /\ pc[w] = "clearing"
  /\ SeesLocked(w)
  /\ SetParsingLock(InvOfTask(w), saw[w], FALSE)
  /\ ReleaseAdvisory(w)
  /\ Goto(w, "notifying")
  /\ UNCHANGED <<jobTable, task, saw, requests, budgets>>

\* "already cleared by another worker".
LeaveParsingLock(w) ==
  /\ pc[w] = "clearing"
  /\ ~SeesLocked(w)
  /\ ReleaseAdvisory(w)
  /\ NextRound(w)
  /\ UNCHANGED <<jobTable, locked, requests, budgets>>

\* The message parsing_complete is sent; a failure to send it is ignored.
NotifyComplete(w) ==
  /\ pc[w] = "notifying"
  /\ NextRound(w)
  /\ UNCHANGED <<jobTable, locked, advisory, requests, budgets>>

-----------------------------------------------------------------------------
(* process_parsing_job(): the exception handler.                           *)

\* Any statement raises, those after the completion included.  The rollback
\* releases the locks and expires what the session has loaded.
JobRaises(w) ==
  /\ pc[w] \in Parsing \union Finishing
  /\ faults < MaxFaults
  /\ faults' = faults + 1
  /\ ReleaseAdvisory(w)
  /\ saw' = [saw EXCEPT ![w] = "expired"]
  /\ Goto(w, "failing")
  /\ UNCHANGED <<jobTable, locked, task, requests, crashes>>

\* UPDATE ... SET status = 'failed' and commit.
MarkFailed(w) ==
  /\ pc[w] = "failing"
  /\ Judge(task[w], "failed")
  /\ Goto(w, "rechecking")
  /\ UNCHANGED <<locked, advisory, task, saw, requests, budgets>>

\* That UPDATE raises too: it is logged, and the job keeps its status.
MarkFailedRaises(w) ==
  /\ pc[w] = "failing"
  /\ faults < MaxFaults
  /\ faults' = faults + 1
  /\ Goto(w, "rechecking")
  /\ UNCHANGED <<jobTable, locked, advisory, task, saw, requests, crashes>>

\* check_and_clear_parsing_lock(), the count.
Recheck(w) ==
  /\ pc[w] = "rechecking"
  /\ IF Remaining(InvOfTask(w)) = {}
     THEN Goto(w, "reclearing") /\ UNCHANGED <<task, saw>>
     ELSE NextRound(w)
  /\ UNCHANGED <<jobTable, locked, advisory, requests, budgets>>

\* check_and_clear_parsing_lock(), the clear: no advisory lock, and no test
\* of the flag; parsing_complete is sent either way.
ClearAfterFailure(w) ==
  /\ pc[w] = "reclearing"
  /\ SetParsingLock(InvOfTask(w), saw[w], FALSE)
  /\ Goto(w, "notifying")
  /\ UNCHANGED <<jobTable, advisory, task, saw, requests, budgets>>

\* check_and_clear_parsing_lock() raises: logged, the loop goes on.
RecheckRaises(w) ==
  /\ pc[w] \in {"rechecking", "reclearing"}
  /\ faults < MaxFaults
  /\ faults' = faults + 1
  /\ NextRound(w)
  /\ UNCHANGED <<jobTable, locked, advisory, requests, crashes>>

-----------------------------------------------------------------------------
(* Deaths, and the manager: main() and cleanup_worker_jobs().              *)

\* Mutant: the finished jobs of the worker are reset as well.
OwnedByEver(w) == {j \in Jobs : owner[j] = w}

OwnedBy(w) == {j \in Jobs : status[j] = "running" /\ owner[j] = w}

\* The process is killed; its open transaction is rolled back.
WorkerDies(w) ==
  /\ pc[w] # "dead"
  /\ crashes < MaxCrashes
  /\ crashes' = crashes + 1
  /\ Goto(w, "dead")
  /\ task' = [task EXCEPT ![w] = 0]
  /\ saw'  = [saw EXCEPT ![w] = "expired"]
  /\ ReleaseRows(w)
  /\ ReleaseAdvisory(w)
  /\ UNCHANGED <<status, owner, aged, invOf, locked, requests, faults>>

\* The monitor finds it dead, resets its jobs and starts a successor under a
\* new id.
ReplaceWorker(w) ==
  /\ pc[w] = "dead"
  /\ ResetJobs(OwnedBy(w), {w})
  /\ Goto(w, "idle")
  /\ UNCHANGED <<invOf, rowLock, locked, advisory, task, saw, requests, budgets>>

\* The cleanup raises: logged, and the successor is started all the same.
ReplaceWithoutCleanup(w) ==
  /\ pc[w] = "dead"
  /\ faults < MaxFaults
  /\ faults' = faults + 1
  /\ ResetJobs({}, {w})
  /\ Goto(w, "idle")
  /\ UNCHANGED <<invOf, rowLock, locked, advisory, task, saw, requests, crashes>>

\* The whole service goes down and comes up again with new ids.  The signal
\* handler resets every running job; after a kill only the stale ones are
\* reset at startup, and the service may have been down for any time.
RestartService(S) ==
  /\ crashes < MaxCrashes
  /\ crashes' = crashes + 1
  /\ \A j \in S : status[j] = "running"
  /\ Stale \subseteq S
  /\ ResetJobs(S, Workers)
  /\ rowLock'  = [j \in Jobs |-> Nobody]
  /\ advisory' = [i \in Investigations |-> Nobody]
  /\ pc'       = [w \in Workers |-> "idle"]
  /\ task'     = [w \in Workers |-> 0]
  /\ saw'      = [w \in Workers |-> "expired"]
  /\ UNCHANGED <<invOf, locked, requests, faults>>

\* The job's owner is at work on it.
InHand(j) ==
  \E w \in Workers :
    /\ owner[j] = w
    /\ task[w] = j
    /\ pc[w] \in Parsing \union {"failing"}

\* Half an hour passes since started_at.
JobAges(j) ==
  /\ status[j] = "running"
  /\ ~aged[j]
  /\ AllowOverrun \/ ~InHand(j)
  /\ aged' = [aged EXCEPT ![j] = TRUE]
  /\ UNCHANGED <<status, owner, invOf, rowLock, locked, advisory, workers, requests, budgets>>

-----------------------------------------------------------------------------
\* What a worker does of its own accord, one transaction after the other.
Proceed(w) ==
  \/ SelectJob(w)         \/ CommitClaim(w)      \/ Rest(w)  \/ Wake(w)
  \/ LoadInvestigation(w) \/ MarkCompleted(w)    \/ CountRemaining(w)
  \/ TryAdvisoryLock(w)   \/ ClearParsingLock(w) \/ LeaveParsingLock(w)
  \/ NotifyComplete(w)
  \/ MarkFailed(w)        \/ Recheck(w)          \/ ClearAfterFailure(w)

\* What goes wrong in a worker, within the budget of faults.
Fault(w) ==
  \/ ClaimFails(w) \/ RollbackWhileParsing(w) \/ JobRaises(w)
  \/ MarkFailedRaises(w) \/ RecheckRaises(w)

Request(u) == UploadLoad(u) \/ UploadEnqueue(u) \/ UploadLock(u)

Next ==
  \/ \E u \in Uploads : Request(u) \/ UploadAborts(u)
  \/ \E w \in Workers :
       \/ Proceed(w) \/ ExtractFile(w) \/ RecoverStaleJobs(w) \/ Fault(w)
       \/ WorkerDies(w) \/ ReplaceWorker(w) \/ ReplaceWithoutCleanup(w)
  \/ \E S \in SUBSET Jobs : RestartService(S)
  \/ \E j \in Jobs : JobAges(j)

\* A process that is alive goes on; the monitor polls every five seconds;
\* time passes; and a worker that keeps finding nothing to do comes to its
\* maintenance again and again (every ten minutes).
Fairness ==
  /\ \A w \in Workers : WF_vars(Proceed(w)) /\ SF_vars(RecoverStaleJobs(w))
  /\ \A w \in Workers : WF_vars(ReplaceWorker(w))
  /\ \A j \in Jobs : WF_vars(JobAges(j))

Spec == Init /\ [][Next]_vars

FairSpec == Spec /\ Fairness

-----------------------------------------------------------------------------
(* Properties.                                                             *)

\* A worker at work on a job owns it and the row says so, unless the job
\* outlasted the stale threshold and was reset under it (main.py:93-138,
\* 766-779, 1011-1024).
RunnerOwnsJob ==
  ~AllowOverrun =>
    \A w \in Workers :
      pc[w] \in Parsing => status[task[w]] = "running" /\ owner[task[w]] = w

\* A job that has a verdict is never run again: neither a late claim, nor a
\* cleanup, nor a recovery takes the verdict back (main.py:341-353, 766-779).
VerdictIsFinal ==
  [][\A j \in Jobs : status[j] \in Verdicts => status'[j] \in Verdicts]_vars

\* While an investigation has an open job it is locked, unless a request is
\* between its job and its lock, or died there (artifacts.py:88-95,
\* main.py:355-404, 55-87).
LockCoversJobs ==
  \A j \in Jobs :
    status[j] \in Active =>
      \/ locked[invOf[j]]
      \/ \E u \in Uploads :
            Target[u] = invOf[j] /\ upc[u] \in {"enqueued", "aborted"}

\* Once no job of the investigation is open, nobody is finishing one and no
\* request is under way, the investigation is not locked any more.
LockReleased ==
  \A i \in Investigations :
    /\ Remaining(i) = {}
    /\ \A u \in Uploads : Target[u] = i => upc[u] \in {"new", "done", "aborted"}
    /\ \A w \in Workers : task[w] = 0
    => ~locked[i]

\* The job table keeps its promises whatever the workers do: statuses move
\* as JobTable allows and, with the fairness above, every job ends.
JT == INSTANCE JobTable WITH Jobs <- Jobs, status <- status
JobTableSafe == JT!Safe
JobTableSpec == JT!Spec
=============================================================================
