----------------------------- MODULE AgentJobs -----------------------------
(***************************************************************************)
(* The control side of an agent job: it is queued by the API, claimed by a *)
(* worker that runs an AssistantAgent for a bounded number of turns, may   *)
(* be stopped by its user in three ways, and ends in a verdict, with       *)
(* choices to continue if the turns ran out.                               *)
(*                                                                         *)
(* One step is one transaction, or one stage of a turn between two looks   *)
(* at the stop flag.  What the agent finds is left to AgentTimeline.       *)
(***************************************************************************)
EXTENDS Naturals, FiniteSets

CONSTANTS
  Workers,          \* slots of the worker manager
  Stops,            \* stop requests; each is made at most once
  MaxTurns,         \* turns of a run: 3, 6 or 9 by effort
  MaxJobs,          \* bound: jobs ever created
  MaxCrashes,       \* bound: deaths of workers and of the API process
  MaxFaults,        \* bound: exceptions and failed transactions
  MaxOverruns       \* bound: runs that outlast the stale threshold (30 minutes)

ASSUME AgentConstantsAssumption ==
  /\ MaxTurns \in Nat \ {0}
  /\ MaxJobs \in Nat
  /\ MaxCrashes \in Nat
  /\ MaxFaults \in Nat
  /\ MaxOverruns \in Nat

\* A job is its place in the order of created_at.
Jobs == 1 .. MaxJobs

\* "nobody" is NULL; "gone" is the id of a process that no longer exists.
Nobody == "nobody"
Gone   == "gone"

ASSUME AgentWorkersAssumption == Nobody \notin Workers /\ Gone \notin Workers

VARIABLES
  \* --- table jobs_agents
  status,     \* [Jobs -> JobStatus or "absent"]
  owner,      \* [Jobs -> the worker_id column]
  aged,       \* [Jobs -> started_at is older than 30 minutes]
  flag,       \* [Jobs -> metadata.stop_requested]
  error,      \* [Jobs -> whom the error_message column quotes]
  \* --- table investigation_choices
  choices,    \* [Jobs -> sets of continuation choices the job has]
  \* --- worker processes
  pc,         \* [Workers -> what the process does next]
  task,       \* [Workers -> the job in its hands]
  turn,       \* [Workers -> AssistantAgent.iteration]
  seen,       \* [Workers -> error_message as its session has it loaded]
  \* --- stop requests, and the timers the graceful ones leave behind
  spc,        \* [Stops -> what the request, or its timer, does next]
  target,     \* [Stops -> the job it is about]
  \* --- budgets of the bounds
  crashes,
  faults,
  overruns

jobTable == <<status, owner, aged, flag, error>>
workers  == <<pc, task, turn, seen>>
requests == <<spc, target>>
budgets  == <<crashes, faults, overruns>>
vars == <<jobTable, choices, workers, requests, budgets>>

Active   == {"pending", "running"}
Verdicts == {"completed", "failed"}

\* Who wrote error_message: nobody, a recovery, a stop request, the agent or
\* the exception handler, the worker loop on cancellation.
Errors == {"null", "reset", "stopped", "agent", "cancelled"}

\* Stages of AssistantAgent.run(), and what it may come to.
Streaming == {"planning", "executing", "analysing", "summing"}
Stages    == {"starting", "turn"} \union Streaming
Outcomes  == {"stopped", "finished", "exhausted", "erred"}
AtWork    == {"claimed"} \union Stages \union Outcomes \union {"cancelled", "failing"}
WorkerStates == {"idle", "resting", "dead", "choosing"} \union AtWork

StopStates == {"new", "checked", "waiting", "killing", "done"}

TypeOK ==
  /\ status  \in [Jobs -> {"absent"} \union Active \union Verdicts]
  /\ owner   \in [Jobs -> Workers \union {Nobody, Gone}]
  /\ aged    \in [Jobs -> BOOLEAN]
  /\ flag    \in [Jobs -> BOOLEAN]
  /\ error   \in [Jobs -> Errors]
  /\ choices \in [Jobs -> Nat]
  /\ pc      \in [Workers -> WorkerStates]
  /\ task    \in [Workers -> Jobs \union {0}]
  /\ turn    \in [Workers -> 0 .. MaxTurns]
  /\ seen    \in [Workers -> {"null", "text", "expired"}]
  /\ spc     \in [Stops -> StopStates]
  /\ target  \in [Stops -> Jobs \union {0}]
  /\ crashes \in 0 .. MaxCrashes
  /\ faults   \in 0 .. MaxFaults
  /\ overruns \in 0 .. MaxOverruns

Init ==
  /\ status  = [j \in Jobs |-> "absent"]
  /\ owner   = [j \in Jobs |-> Nobody]
  /\ aged    = [j \in Jobs |-> FALSE]
  /\ flag    = [j \in Jobs |-> FALSE]
  /\ error   = [j \in Jobs |-> "null"]
  /\ choices = [j \in Jobs |-> 0]
  /\ pc      = [w \in Workers |-> "idle"]
  /\ task    = [w \in Workers |-> 0]
  /\ turn    = [w \in Workers |-> 0]
  /\ seen    = [w \in Workers |-> "expired"]
  /\ spc     = [s \in Stops |-> "new"]
  /\ target  = [s \in Stops |-> 0]
  /\ crashes = 0
  /\ faults   = 0
  /\ overruns = 0

-----------------------------------------------------------------------------
(* Statements the handlers are made of.                                    *)

\* SET status = pending, worker_id = NULL, started_at = NULL and a message,
\* for the jobs S.  metadata keeps the stop flag.
ResetJobs(S, replaced) ==
  /\ status' = [j \in Jobs |-> IF j \in S THEN "pending" ELSE status[j]]
  /\ owner'  = [j \in Jobs |-> IF j \in S THEN Nobody
                                ELSE IF owner[j] \in replaced THEN Gone ELSE owner[j]]
  /\ aged'   = [j \in Jobs |-> aged[j] /\ j \notin S]
  /\ error'  = [j \in Jobs |-> IF j \in S THEN "reset" ELSE error[j]]
  /\ UNCHANGED flag

\* UPDATE jobs_agents SET status, error_message WHERE job_id = j, whoever
\* owns j and whatever its status.
Write(j, verdict, message) ==
  /\ status' = [status EXCEPT ![j] = verdict]
  /\ error'  = [error EXCEPT ![j] = message]
  /\ UNCHANGED <<owner, aged, flag>>

\* error_message = None is written only if it changes what is loaded.
Cleared(w) == IF seen[w] = "null" THEN error[task[w]] ELSE "null"

\* Mutant: recovery that passes over the rows of processes it does not know.
StaleOfKnown == {j \in Jobs : status[j] = "running" /\ aged[j] /\ owner[j] # Gone}

Stale == {j \in Jobs : status[j] = "running" /\ aged[j]}

Goto(w, state) == pc' = [pc EXCEPT ![w] = state]

Spend == faults < MaxFaults /\ faults' = faults + 1

\* The worker lets go of its job: the session is closed, the loop starts over.
Drop(w, state) ==
  /\ Goto(w, state)
  /\ task' = [task EXCEPT ![w] = 0]
  /\ turn' = [turn EXCEPT ![w] = 0]
  /\ seen' = [seen EXCEPT ![w] = "expired"]

-----------------------------------------------------------------------------
(* The API: enqueue_agent_job() and the requests to stop.                  *)

Enqueue(j) ==
  /\ status[j] = "absent"
  /\ \A k \in Jobs : k < j => status[k] # "absent"
  /\ status' = [status EXCEPT ![j] = "pending"]
  /\ UNCHANGED <<owner, aged, flag, error, choices, workers, requests, budgets>>

\* stop_agent_job(): the job must be running when it is looked at.  What
\* comes next depends on the request's parameter force.
StopCheck(s, j) ==
  /\ spc[s] = "new"
  /\ status[j] = "running"
  /\ spc'    = [spc EXCEPT ![s] = "checked"]
  /\ target' = [target EXCEPT ![s] = j]
  /\ UNCHANGED <<jobTable, choices, workers, budgets>>

\* force=true: the verdict at once, and no flag.
ForceStop(s) ==
  /\ spc[s] = "checked"
  /\ Write(target[s], "failed", "stopped")
  /\ spc' = [spc EXCEPT ![s] = "done"]
  /\ UNCHANGED <<choices, workers, target, budgets>>

SetFlag(j) ==
  /\ flag' = [flag EXCEPT ![j] = TRUE]
  /\ UNCHANGED <<status, owner, aged, error>>

\* force=false: the flag, and a background task that sleeps for 30 seconds.
GracefulStop(s) ==
  /\ spc[s] = "checked"
  /\ SetFlag(target[s])
  /\ spc' = [spc EXCEPT ![s] = "waiting"]
  /\ UNCHANGED <<choices, workers, target, budgets>>

\* The task wakes up and reads the status.
TimerReads(s) ==
  /\ spc[s] = "waiting"
  /\ spc' = [spc EXCEPT ![s] = IF status[target[s]] = "running" THEN "killing" ELSE "done"]
  /\ UNCHANGED <<jobTable, choices, workers, target, budgets>>

\* A statement later it writes its verdict.
TimerKills(s) ==
  /\ spc[s] = "killing"
  /\ Write(target[s], "failed", "stopped")
  /\ spc' = [spc EXCEPT ![s] = "done"]
  /\ UNCHANGED <<choices, workers, target, budgets>>

\* _handle_stop_agent(): the flag, whatever the status, and no timer.
ChatStop(s, j) ==
  /\ spc[s] = "new"
  /\ status[j] # "absent"
  /\ SetFlag(j)
  /\ spc'    = [spc EXCEPT ![s] = "done"]
  /\ target' = [target EXCEPT ![s] = j]
  /\ UNCHANGED <<choices, workers, budgets>>

\* The API process goes down: its requests and its timers are no more.
ApiRestarts ==
  /\ \E s \in Stops : spc[s] \in {"checked", "waiting", "killing"}
  /\ crashes < MaxCrashes
  /\ crashes' = crashes + 1
  /\ spc' = [s \in Stops |-> IF spc[s] = "new" THEN "new" ELSE "done"]
  /\ UNCHANGED <<jobTable, choices, workers, target, faults, overruns>>

-----------------------------------------------------------------------------
(* worker_process(): the loop, and process_agent_job() up to the run.      *)

\* Mutant: any job that has no verdict yet.
ClaimableActive(j) == status[j] \in Active

Claimable(j) == status[j] = "pending"

\* claim_agent_job(): the row stays locked from the SELECT, which passes
\* over locked rows, to the commit.
Claim(w) ==
  /\ pc[w] = "idle"
  /\ \E j \in Jobs :
       /\ Claimable(j)
       /\ \A k \in Jobs : k < j => ~Claimable(k)
       /\ status' = [status EXCEPT ![j] = "running"]
       /\ owner'  = [owner EXCEPT ![j] = w]
       /\ aged'   = [aged EXCEPT ![j] = FALSE]
       /\ task'   = [task EXCEPT ![w] = j]
  /\ Goto(w, "claimed")
  /\ UNCHANGED <<flag, error, choices, turn, seen, requests, budgets>>

\* db.refresh(job), a statement after the commit.
Refresh(w) ==
  /\ pc[w] = "claimed"
  /\ seen' = [seen EXCEPT ![w] = IF error[task[w]] = "null" THEN "null" ELSE "text"]
  /\ Goto(w, "starting")
  /\ UNCHANGED <<jobTable, choices, task, turn, requests, budgets>>

\* The claim, or its refresh, raises: the loop logs it and goes on, and a
\* claim that was committed stays.
RefreshFails(w) ==
  /\ pc[w] = "claimed"
  /\ Spend
  /\ Drop(w, "idle")
  /\ UNCHANGED <<jobTable, choices, requests, crashes, overruns>>

Rest(w) ==
  /\ pc[w] = "idle"
  /\ \A j \in Jobs : ~Claimable(j)
  /\ Goto(w, "resting")
  /\ UNCHANGED <<jobTable, choices, task, turn, seen, requests, budgets>>

Wake(w) ==
  /\ pc[w] = "resting"
  /\ Goto(w, "idle")
  /\ UNCHANGED <<jobTable, choices, task, turn, seen, requests, budgets>>

\* recover_stale_jobs(), which only a worker that found no job gets to.
RecoverStaleJobs(w) ==
  /\ pc[w] = "resting"
  /\ ResetJobs(Stale, {})
  /\ Goto(w, "idle")
  /\ UNCHANGED <<choices, task, turn, seen, requests, budgets>>

\* The user has a configuration of a language model, and the context is built.
Start(w) ==
  /\ pc[w] = "starting"
  /\ Goto(w, "turn")
  /\ UNCHANGED <<jobTable, choices, task, turn, seen, requests, budgets>>

\* There is no configuration, or no context.
StartFails(w) ==
  /\ pc[w] = "starting"
  /\ Goto(w, "failing")
  /\ UNCHANGED <<jobTable, choices, task, turn, seen, requests, budgets>>

-----------------------------------------------------------------------------
(* AssistantAgent.run().                                                   *)

\* Mutant: the bound of the loop is off by one.
BeginTurnBeyond(w) ==
  /\ pc[w] = "turn"
  /\ turn[w] <= MaxTurns
  /\ turn' = [turn EXCEPT ![w] = @ + 1]
  /\ Goto(w, IF flag[task[w]] THEN "stopped" ELSE "planning")
  /\ UNCHANGED <<jobTable, choices, task, seen, requests, budgets>>

\* The loop: the next turn is counted, then the flag is looked at.
BeginTurn(w) ==
  /\ pc[w] = "turn"
  /\ turn[w] < MaxTurns
  /\ turn' = [turn EXCEPT ![w] = @ + 1]
  /\ Goto(w, IF flag[task[w]] THEN "stopped" ELSE "planning")
  /\ UNCHANGED <<jobTable, choices, task, seen, requests, budgets>>

\* check_cancel_signal() raises: the transaction is rolled back, which
\* expires what the session has loaded, and the answer is no.
CheckFails(w) ==
  /\ pc[w] = "turn"
  /\ turn[w] < MaxTurns
  /\ Spend
  /\ turn' = [turn EXCEPT ![w] = @ + 1]
  /\ seen' = [seen EXCEPT ![w] = "expired"]
  /\ Goto(w, "planning")
  /\ UNCHANGED <<jobTable, choices, task, requests, crashes, overruns>>

\* The same in the middle of a turn, or any other rollback there.
RollbackInTurn(w) ==
  /\ pc[w] \in Streaming
  /\ seen[w] # "expired"
  /\ Spend
  /\ seen' = [seen EXCEPT ![w] = "expired"]
  /\ UNCHANGED <<jobTable, choices, pc, task, turn, requests, crashes, overruns>>

\* The model answers with tools to call, or not at all.
Plan(w) ==
  /\ pc[w] = "planning"
  /\ Goto(w, "executing")
  /\ UNCHANGED <<jobTable, choices, task, turn, seen, requests, budgets>>

\* The model refuses tools: reported as an error from the second turn on.
PlanRefused(w) ==
  /\ pc[w] = "planning"
  /\ turn[w] > 1
  /\ Goto(w, "erred")
  /\ UNCHANGED <<jobTable, choices, task, turn, seen, requests, budgets>>

Execute(w) ==
  /\ pc[w] = "executing"
  /\ Goto(w, "analysing")
  /\ UNCHANGED <<jobTable, choices, task, turn, seen, requests, budgets>>

Analyse(w) ==
  /\ pc[w] = "analysing"
  /\ Goto(w, "turn")
  /\ UNCHANGED <<jobTable, choices, task, turn, seen, requests, budgets>>

\* complete_investigation is offered on the last turn only, but executed
\* whenever the model calls it.
CompleteInvestigation(w) ==
  /\ pc[w] \in {"executing", "analysing"}
  /\ Goto(w, "finished")
  /\ UNCHANGED <<jobTable, choices, task, turn, seen, requests, budgets>>

\* No turn is left: the agent asks for a summary.
OutOfTurns(w) ==
  /\ pc[w] = "turn"
  /\ turn[w] = MaxTurns
  /\ Goto(w, "summing")
  /\ UNCHANGED <<jobTable, choices, task, turn, seen, requests, budgets>>

Summarise(w) ==
  /\ pc[w] = "summing"
  /\ Goto(w, "exhausted")
  /\ UNCHANGED <<jobTable, choices, task, turn, seen, requests, budgets>>

\* The flag is seen in the middle of a turn, between chunks of the model's
\* answer or before a tool: CancelledError.
CutOff(w) ==
  /\ pc[w] \in Streaming
  /\ flag[task[w]]
  /\ Goto(w, "cancelled")
  /\ UNCHANGED <<jobTable, choices, task, turn, seen, requests, budgets>>

\* Anything else raises: the agent reports agent_error and returns.  (An
\* exception in the closing summary is logged and a stock text is used.)
RunRaises(w) ==
  /\ pc[w] \in Streaming \ {"summing"}
  /\ Spend
  /\ Goto(w, "erred")
  /\ UNCHANGED <<jobTable, choices, task, turn, seen, requests, crashes, overruns>>

-----------------------------------------------------------------------------
(* process_agent_job() after the run.                                      *)

\* The verdict: failed after agent_error, completed otherwise, also when
\* the user stopped the run between two turns.
Judge(w) ==
  /\ pc[w] \in Outcomes
  /\ IF pc[w] = "erred"
     THEN Write(task[w], "failed", "agent")
     ELSE Write(task[w], "completed", Cleared(w))
  /\ IF pc[w] = "exhausted"
     THEN Goto(w, "choosing") /\ UNCHANGED <<task, turn, seen>>
     ELSE Drop(w, "idle")
  /\ UNCHANGED <<choices, requests, budgets>>

\* The commit of the verdict raises: on to the exception handler, whose own
\* commit raises as well if the session still wants a rollback.
JudgeRaises(w) ==
  /\ pc[w] \in Outcomes
  /\ Spend
  /\ \/ Goto(w, "failing") /\ UNCHANGED <<task, turn, seen>>
     \/ Drop(w, "idle")
  /\ UNCHANGED <<jobTable, choices, requests, crashes, overruns>>

\* Three choices to continue, in a session and a transaction of their own.
OfferChoices(w) ==
  /\ pc[w] = "choosing"
  /\ choices' = [choices EXCEPT ![task[w]] = @ + 1]
  /\ Drop(w, "idle")
  /\ UNCHANGED <<jobTable, requests, budgets>>

ChoicesFail(w) ==
  /\ pc[w] = "choosing"
  /\ Spend
  /\ Drop(w, "idle")
  /\ UNCHANGED <<jobTable, choices, requests, crashes, overruns>>

\* The exception handler of process_agent_job().
MarkFailed(w) ==
  /\ pc[w] = "failing"
  /\ Write(task[w], "failed", "agent")
  /\ Drop(w, "idle")
  /\ UNCHANGED <<choices, requests, budgets>>

\* The handler of the worker loop for CancelledError.
MarkCancelled(w) ==
  /\ pc[w] = "cancelled"
  /\ Write(task[w], "failed", "cancelled")
  /\ Drop(w, "idle")
  /\ UNCHANGED <<choices, requests, budgets>>

\* Neither handler rolls the session back first, so its commit may raise
\* too: the job stays running, in nobody's hands.
MarkRaises(w) ==
  /\ pc[w] \in {"failing", "cancelled"}
  /\ Spend
  /\ Drop(w, "idle")
  /\ UNCHANGED <<jobTable, choices, requests, crashes, overruns>>

-----------------------------------------------------------------------------
(* Deaths, and the manager.                                                *)

\* Mutant: the finished jobs of the worker are reset as well.
OwnedByEver(w) == {j \in Jobs : owner[j] = w}

OwnedBy(w) == {j \in Jobs : status[j] = "running" /\ owner[j] = w}

WorkerDies(w) ==
  /\ pc[w] # "dead"
  /\ crashes < MaxCrashes
  /\ crashes' = crashes + 1
  /\ Drop(w, "dead")
  /\ UNCHANGED <<jobTable, choices, requests, faults, overruns>>

ReplaceWorker(w) ==
  /\ pc[w] = "dead"
  /\ ResetJobs(OwnedBy(w), {w})
  /\ Goto(w, "idle")
  /\ UNCHANGED <<choices, task, turn, seen, requests, budgets>>

\* The cleanup raises: logged, and the successor is started all the same.
ReplaceWithoutCleanup(w) ==
  /\ pc[w] = "dead"
  /\ Spend
  /\ ResetJobs({}, {w})
  /\ Goto(w, "idle")
  /\ UNCHANGED <<choices, task, turn, seen, requests, crashes, overruns>>

\* The worker service goes down and comes up again with new ids.  The signal
\* handler resets every running job, a kill leaves it to the recovery at
\* startup, and the service may have been down for any time.
RestartService(S) ==
  /\ crashes < MaxCrashes
  /\ crashes' = crashes + 1
  /\ \A j \in S : status[j] = "running"
  /\ Stale \subseteq S
  /\ ResetJobs(S, Workers)
  /\ pc'   = [w \in Workers |-> "idle"]
  /\ task' = [w \in Workers |-> 0]
  /\ turn' = [w \in Workers |-> 0]
  /\ seen' = [w \in Workers |-> "expired"]
  /\ UNCHANGED <<choices, requests, faults, overruns>>

InHand(j) ==
  \E w \in Workers : owner[j] = w /\ task[w] = j /\ pc[w] \in AtWork

\* Half an hour passes since started_at.
JobAges(j) ==
  /\ status[j] = "running"
  /\ ~aged[j]
  /\ aged' = [aged EXCEPT ![j] = TRUE]
  /\ \/ ~InHand(j) /\ UNCHANGED overruns
     \/ /\ InHand(j)
        /\ overruns < MaxOverruns
        /\ overruns' = overruns + 1
  /\ UNCHANGED <<status, owner, flag, error, choices, workers, requests, crashes, faults>>

-----------------------------------------------------------------------------
Run(w) ==
  \/ BeginTurn(w)  \/ Plan(w)       \/ PlanRefused(w) \/ Execute(w)
  \/ Analyse(w)    \/ CompleteInvestigation(w)        \/ OutOfTurns(w)
  \/ Summarise(w)  \/ CutOff(w)

\* What a worker does of its own accord.
Proceed(w) ==
  \/ Claim(w) \/ Refresh(w) \/ Rest(w) \/ Wake(w) \/ Start(w) \/ StartFails(w)
  \/ Run(w)   \/ Judge(w)   \/ OfferChoices(w)
  \/ MarkFailed(w) \/ MarkCancelled(w)

\* What goes wrong in a worker, within the budget of faults.
Fault(w) ==
  \/ RefreshFails(w) \/ CheckFails(w)  \/ RollbackInTurn(w) \/ RunRaises(w)
  \/ JudgeRaises(w)  \/ ChoicesFail(w) \/ MarkRaises(w)

Stop(s) ==
  \/ \E j \in Jobs : StopCheck(s, j) \/ ChatStop(s, j)
  \/ ForceStop(s) \/ GracefulStop(s) \/ TimerReads(s) \/ TimerKills(s)

Next ==
  \/ \E j \in Jobs : Enqueue(j) \/ JobAges(j)
  \/ \E s \in Stops : Stop(s)
  \/ ApiRestarts
  \/ \E w \in Workers :
       \/ Proceed(w) \/ Fault(w) \/ RecoverStaleJobs(w)
       \/ WorkerDies(w) \/ ReplaceWorker(w) \/ ReplaceWithoutCleanup(w)
  \/ \E S \in SUBSET Jobs : RestartService(S)

\* A process that is alive goes on (calls to the model time out), the monitor
\* polls, time passes, and idle workers come to their maintenance.
Fairness ==
  /\ \A w \in Workers : WF_vars(Proceed(w)) /\ SF_vars(RecoverStaleJobs(w))
  /\ \A w \in Workers : WF_vars(ReplaceWorker(w))
  /\ \A j \in Jobs : WF_vars(JobAges(j))

Spec == Init /\ [][Next]_vars

FairSpec == Spec /\ Fairness

-----------------------------------------------------------------------------
(* Properties.                                                             *)

\* No job is in the hands of two workers, unless it outlasted the stale
\* threshold: neither the cleanup after a crash, nor a restart, nor a stop
\* followed by a new start hands out a job somebody still works on
\* (main.py:162-181, 781-790, 1032-1041).
OneRunner ==
  overruns = 0 =>
    \A v, w \in Workers :
      v # w /\ pc[v] \in AtWork /\ pc[w] \in AtWork => task[v] # task[w]

\* A job offers one set of choices, and only once it has a verdict, however
\* often it was run (main.py:610-715).
ChoicesOnce ==
  \A j \in Jobs :
    /\ choices[j] > 0 => status[j] \in Verdicts
    /\ overruns = 0 => choices[j] <= 1

\* Nothing can make a finished job run again: statuses move as JobTable
\* allows; and with the fairness above every job ends.
JT == INSTANCE JobTable WITH Jobs <- Jobs, status <- status
JobTableSafe == JT!Safe
JobTableSpec == JT!Spec
=============================================================================
