------------------------- MODULE ParsingJobsProofs -------------------------
(***************************************************************************)
(* Theorems about ParsingJobs, for every number of workers, requests,      *)
(* investigations and jobs, and for every budget of crashes and faults.    *)
(***************************************************************************)
EXTENDS ParsingJobs, TLAPS

\* Expanding the statements of the handlers.
USE DEF jobTable, workers, requests, budgets

\* A job's number is never the 0 that stands for "no job in hand".
LEMMA JobsAreNonzero == 0 \notin Jobs /\ Nobody \notin Workers /\ Gone \notin Workers
  BY ConstantsAssumption, WorkersAssumption DEF Jobs

\* Whoever works on a job, or is about to, names one that exists; the row of
\* a job being claimed is pending and locked by the claimer.
ClaimLocksRow ==
  \A w \in Workers : pc[w] = "claiming" =>
    /\ task[w] \in Jobs
    /\ status[task[w]] = "pending"
    /\ rowLock[task[w]] = w

TaskExists ==
  \A w \in Workers :
    pc[w] \in Parsing \union Finishing \union Recovering \union {"notifying"} =>
      /\ task[w] \in Jobs
      /\ status[task[w]] # "absent"
      /\ invOf[task[w]] \in Investigations

\* The rows of jobs that exist name an investigation.
JobsHaveInvestigation ==
  \A j \in Jobs : status[j] # "absent" => invOf[j] \in Investigations

Inv == TypeOK /\ ClaimLocksRow /\ TaskExists /\ JobsHaveInvestigation

LEMMA InitInv == Init => Inv
  BY ConstantsAssumption
  DEF Init, Inv, TypeOK, ClaimLocksRow, TaskExists, JobsHaveInvestigation,
      WorkerStates, UploadStates, Views, Parsing, Finishing, Recovering, Active, Verdicts

\* What the definitions of the state sets are, for the steps below.
LEMMA StateSets ==
  /\ WorkerStates = {"idle", "claiming", "resting", "dead", "claimed", "parsing",
                     "counting", "draining", "clearing", "failing", "rechecking",
                     "reclearing", "notifying"}
  /\ UploadStates = {"new", "loaded", "enqueued", "done", "aborted"}
  /\ Views = {"locked", "unlocked", "expired"}
  /\ \A i : View(i) \in Views
  BY DEF WorkerStates, UploadStates, Views, View, Parsing, Finishing, Recovering

\* A reset keeps the types of the columns it writes.
LEMMA ResetTypes ==
  ASSUME TypeOK, NEW S, NEW replaced, ResetJobs(S, replaced)
  PROVE  /\ status' \in [Jobs -> {"absent"} \union Active \union Verdicts]
         /\ owner' \in [Jobs -> Workers \union {Nobody, Gone}]
         /\ aged' \in [Jobs -> BOOLEAN]
<1>1. aged' \in [Jobs -> BOOLEAN]
  BY Zenon DEF ResetJobs
<1> QED
  BY <1>1 DEF ResetJobs, TypeOK, Active

\* Every step keeps the types.
LEMMA TypeStep ==
  ASSUME TypeOK, TaskExists, [Next]_vars
  PROVE  TypeOK'
<1> USE ConstantsAssumption, StateSets DEF TypeOK, Active, Verdicts
<1>1. CASE \E u \in Uploads : Request(u) \/ UploadAborts(u)
  <2> SUFFICES ASSUME NEW u \in Uploads, Request(u) \/ UploadAborts(u)
               PROVE  TypeOK'
    BY <1>1
  <2>1. CASE UploadLoad(u)
    BY <2>1 DEF UploadLoad
  <2>2. CASE UploadEnqueue(u)
    BY <2>2 DEF UploadEnqueue, InsertJob
  <2>3. CASE UploadLock(u)
    BY <2>3 DEF UploadLock, SetParsingLock
  <2>4. CASE UploadAborts(u)
    BY <2>4 DEF UploadAborts
  <2> QED
    BY <2>1, <2>2, <2>3, <2>4 DEF Request
<1>2. CASE \E w \in Workers :
             \/ Proceed(w) \/ ExtractFile(w) \/ RecoverStaleJobs(w) \/ Fault(w)
             \/ WorkerDies(w) \/ ReplaceWorker(w) \/ ReplaceWithoutCleanup(w)
  <2> SUFFICES ASSUME NEW w \in Workers,
                      \/ Proceed(w) \/ ExtractFile(w) \/ RecoverStaleJobs(w) \/ Fault(w)
                      \/ WorkerDies(w) \/ ReplaceWorker(w) \/ ReplaceWithoutCleanup(w)
               PROVE  TypeOK'
    BY <1>2
  <2>1. CASE SelectJob(w)
    BY <2>1 DEF SelectJob, Goto
  <2>2. CASE CommitClaim(w)
    BY <2>2 DEF CommitClaim, Goto, ReleaseRows
  <2>3. CASE Rest(w)
    BY <2>3 DEF Rest, Goto
  <2>4. CASE Wake(w)
    BY <2>4 DEF Wake, Goto, NextRound
  <2>5. CASE LoadInvestigation(w)
    BY <2>5 DEF LoadInvestigation, Goto
  <2>6. CASE MarkCompleted(w)
    BY <2>6 DEF MarkCompleted, Goto, Judge
  <2>7. CASE CountRemaining(w)
    BY <2>7 DEF CountRemaining, Goto, NextRound
  <2>8. CASE TryAdvisoryLock(w)
    BY <2>8 DEF TryAdvisoryLock, Goto, NextRound, InvOfTask
  <2>9. CASE ClearParsingLock(w)
    BY <2>9 DEF ClearParsingLock, Goto, SetParsingLock, ReleaseAdvisory
  <2>10. CASE LeaveParsingLock(w)
    BY <2>10 DEF LeaveParsingLock, Goto, NextRound, ReleaseAdvisory
  <2>11. CASE NotifyComplete(w)
    BY <2>11 DEF NotifyComplete, Goto, NextRound
  <2>12. CASE MarkFailed(w)
    BY <2>12 DEF MarkFailed, Goto, Judge
  <2>13. CASE Recheck(w)
    BY <2>13 DEF Recheck, Goto, NextRound
  <2>14. CASE ClearAfterFailure(w)
    BY <2>14 DEF ClearAfterFailure, Goto, SetParsingLock
  <2>15. CASE ExtractFile(w)
    BY <2>15 DEF ExtractFile, InsertJob, InvOfTask, TaskExists, Parsing
  <2>16. CASE RecoverStaleJobs(w)
    BY <2>16, ResetTypes DEF RecoverStaleJobs, Goto, NextRound
  <2>17. CASE ClaimFails(w)
    BY <2>17 DEF ClaimFails, Goto, NextRound, ReleaseRows
  <2>18. CASE RollbackWhileParsing(w)
    BY <2>18 DEF RollbackWhileParsing
  <2>19. CASE JobRaises(w)
    BY <2>19 DEF JobRaises, Goto, ReleaseAdvisory
  <2>20. CASE MarkFailedRaises(w)
    BY <2>20 DEF MarkFailedRaises, Goto
  <2>21. CASE RecheckRaises(w)
    BY <2>21 DEF RecheckRaises, Goto, NextRound
  <2>22. CASE WorkerDies(w)
    BY <2>22 DEF WorkerDies, Goto, ReleaseRows, ReleaseAdvisory
  <2>23. CASE ReplaceWorker(w)
    BY <2>23, ResetTypes DEF ReplaceWorker, Goto
  <2>24. CASE ReplaceWithoutCleanup(w)
    BY <2>24, ResetTypes DEF ReplaceWithoutCleanup, Goto
  <2> QED
    BY <2>1, <2>2, <2>3, <2>4, <2>5, <2>6, <2>7, <2>8, <2>9, <2>10, <2>11, <2>12,
       <2>13, <2>14, <2>15, <2>16, <2>17, <2>18, <2>19, <2>20, <2>21, <2>22, <2>23, <2>24
    DEF Proceed, Fault
<1>3. CASE \E S \in SUBSET Jobs : RestartService(S)
  BY <1>3, ResetTypes DEF RestartService
<1>4. CASE \E j \in Jobs : JobAges(j)
  BY <1>4 DEF JobAges
<1>5. CASE UNCHANGED vars
  BY <1>5 DEF vars
<1> QED
  BY <1>1, <1>2, <1>3, <1>4, <1>5 DEF Next

\* Every step keeps what is known of claims and of the jobs in hand.
LEMMA InvStep ==
  ASSUME Inv, [Next]_vars
  PROVE  Inv'
<1> USE StateSets, JobsAreNonzero
    DEF Inv, TypeOK, ClaimLocksRow, TaskExists, JobsHaveInvestigation,
        Active, Verdicts, Parsing, Finishing, Recovering
<1>0. TypeOK'
  BY TypeStep
<1>1. CASE \E u \in Uploads : Request(u) \/ UploadAborts(u)
  <2> SUFFICES ASSUME NEW u \in Uploads, Request(u) \/ UploadAborts(u)
               PROVE  Inv'
    BY <1>1
  <2>1. CASE UploadLoad(u)
    BY <1>0, <2>1, ConstantsAssumption DEF UploadLoad
  <2>2. CASE UploadEnqueue(u)
    <3>1. PICK j \in Jobs : InsertJob(j, Target[u])
      BY <2>2 DEF UploadEnqueue
    <3>2. Target[u] \in Investigations
      BY ConstantsAssumption
    <3>3. ClaimLocksRow' /\ TaskExists' /\ JobsHaveInvestigation'
      BY <2>2, <3>1, <3>2 DEF UploadEnqueue, InsertJob
    <3> QED
      BY <1>0, <3>3
  <2>3. CASE UploadLock(u)
    BY <1>0, <2>3, ConstantsAssumption DEF UploadLock, SetParsingLock
  <2>4. CASE UploadAborts(u)
    BY <1>0, <2>4, ConstantsAssumption DEF UploadAborts
  <2> QED
    BY <2>1, <2>2, <2>3, <2>4 DEF Request
<1>2. CASE \E w \in Workers :
             \/ Proceed(w) \/ ExtractFile(w) \/ RecoverStaleJobs(w) \/ Fault(w)
             \/ WorkerDies(w) \/ ReplaceWorker(w) \/ ReplaceWithoutCleanup(w)
  <2> SUFFICES ASSUME NEW w \in Workers,
                      \/ Proceed(w) \/ ExtractFile(w) \/ RecoverStaleJobs(w) \/ Fault(w)
                      \/ WorkerDies(w) \/ ReplaceWorker(w) \/ ReplaceWithoutCleanup(w)
               PROVE  Inv'
    BY <1>2
  <2>1. CASE SelectJob(w)
    BY <1>0, <2>1, ConstantsAssumption DEF SelectJob, Goto, Claimable, RowFree
  <2>2. CASE CommitClaim(w)
    BY <1>0, <2>2, ConstantsAssumption DEF CommitClaim, Goto, ReleaseRows
  <2>3. CASE Rest(w)
    BY <1>0, <2>3, ConstantsAssumption DEF Rest, Goto
  <2>4. CASE Wake(w)
    BY <1>0, <2>4, ConstantsAssumption DEF Wake, Goto, NextRound
  <2>5. CASE LoadInvestigation(w)
    BY <1>0, <2>5, ConstantsAssumption DEF LoadInvestigation, Goto
  <2>6. CASE MarkCompleted(w)
    BY <1>0, <2>6, ConstantsAssumption DEF MarkCompleted, Goto, Judge, RowFree
  <2>7. CASE CountRemaining(w)
    BY <1>0, <2>7, ConstantsAssumption DEF CountRemaining, Goto, NextRound
  <2>8. CASE TryAdvisoryLock(w)
    BY <1>0, <2>8, ConstantsAssumption DEF TryAdvisoryLock, Goto, NextRound, InvOfTask
  <2>9. CASE ClearParsingLock(w)
    BY <1>0, <2>9, ConstantsAssumption DEF ClearParsingLock, Goto, SetParsingLock, ReleaseAdvisory
  <2>10. CASE LeaveParsingLock(w)
    BY <1>0, <2>10, ConstantsAssumption DEF LeaveParsingLock, Goto, NextRound, ReleaseAdvisory
  <2>11. CASE NotifyComplete(w)
    BY <1>0, <2>11, ConstantsAssumption DEF NotifyComplete, Goto, NextRound
  <2>12. CASE MarkFailed(w)
    BY <1>0, <2>12, ConstantsAssumption DEF MarkFailed, Goto, Judge, RowFree
  <2>13. CASE Recheck(w)
    BY <1>0, <2>13, ConstantsAssumption DEF Recheck, Goto, NextRound
  <2>14. CASE ClearAfterFailure(w)
    BY <1>0, <2>14, ConstantsAssumption DEF ClearAfterFailure, Goto, SetParsingLock
  <2>15. CASE ExtractFile(w)
    BY <1>0, <2>15, ConstantsAssumption DEF ExtractFile, InsertJob, InvOfTask, TaskExists, Parsing
  <2>16. CASE RecoverStaleJobs(w)
    BY <1>0, <2>16, ConstantsAssumption DEF RecoverStaleJobs, ResetJobs, Goto, NextRound, Stale
  <2>17. CASE ClaimFails(w)
    BY <1>0, <2>17, ConstantsAssumption DEF ClaimFails, Goto, NextRound, ReleaseRows
  <2>18. CASE RollbackWhileParsing(w)
    BY <1>0, <2>18, ConstantsAssumption DEF RollbackWhileParsing
  <2>19. CASE JobRaises(w)
    BY <1>0, <2>19, ConstantsAssumption DEF JobRaises, Goto, ReleaseAdvisory
  <2>20. CASE MarkFailedRaises(w)
    BY <1>0, <2>20, ConstantsAssumption DEF MarkFailedRaises, Goto
  <2>21. CASE RecheckRaises(w)
    BY <1>0, <2>21, ConstantsAssumption DEF RecheckRaises, Goto, NextRound
  <2>22. CASE WorkerDies(w)
    BY <1>0, <2>22, ConstantsAssumption DEF WorkerDies, Goto, ReleaseRows, ReleaseAdvisory
  <2>23. CASE ReplaceWorker(w)
    BY <1>0, <2>23, ConstantsAssumption DEF ReplaceWorker, ResetJobs, Goto, OwnedBy
  <2>24. CASE ReplaceWithoutCleanup(w)
    BY <1>0, <2>24, ConstantsAssumption DEF ReplaceWithoutCleanup, ResetJobs, Goto, OwnedBy
  <2> QED
    BY <2>1, <2>2, <2>3, <2>4, <2>5, <2>6, <2>7, <2>8, <2>9, <2>10, <2>11, <2>12,
       <2>13, <2>14, <2>15, <2>16, <2>17, <2>18, <2>19, <2>20, <2>21, <2>22, <2>23, <2>24
    DEF Proceed, Fault
<1>3. CASE \E S \in SUBSET Jobs : RestartService(S)
  BY <1>0, <1>3 DEF RestartService, ResetJobs
<1>4. CASE \E j \in Jobs : JobAges(j)
  BY <1>0, <1>4 DEF JobAges
<1>5. CASE UNCHANGED vars
  BY <1>0, <1>5 DEF vars
<1> QED
  BY <1>1, <1>2, <1>3, <1>4, <1>5 DEF Next


-----------------------------------------------------------------------------
\* The invariant of every execution: the types, and the claims and the jobs in
\* hand it takes to keep them.
THEOREM InvHolds == Spec => []Inv
  BY InitInv, InvStep, PTL DEF Spec

\* Type correctness: the columns, the program counters and what sessions have
\* loaded stay in their ranges (models/job.py, schema.sql).
THEOREM TypeCorrect == Spec => []TypeOK
<1>1. Inv => TypeOK
  BY DEF Inv
<1> QED
  BY <1>1, InvHolds, PTL

-----------------------------------------------------------------------------
(* ParsingJobs implements JobTable.                                        *)

\* The INSERT of one job is a creation.
LEMMA InsertCreates ==
  ASSUME TypeOK, NEW j \in Jobs, NEW i, InsertJob(j, i)
  PROVE  JT!Next
<1>1. JT!Create({j})
  BY DEF TypeOK, InsertJob, JT!Create
<1>2. {j} \in SUBSET Jobs
  OBVIOUS
<1> QED
  BY <1>1, <1>2 DEF JT!Next

LEMMA TableStep ==
  ASSUME Inv, [Next]_vars
  PROVE  [JT!Next]_status
<1> USE DEF Inv, ClaimLocksRow, TaskExists, Parsing, Finishing, Recovering, TypeOK
<1>1. CASE \E u \in Uploads : Request(u) \/ UploadAborts(u)
  <2>1. PICK u \in Uploads : Request(u) \/ UploadAborts(u)
    BY <1>1
  <2>2. CASE UploadEnqueue(u)
    BY <2>2, InsertCreates DEF UploadEnqueue
  <2>3. CASE UploadLoad(u) \/ UploadLock(u) \/ UploadAborts(u)
    BY <2>3 DEF UploadLoad, UploadLock, UploadAborts
  <2> QED
    BY <2>1, <2>2, <2>3 DEF Request
<1>2. CASE \E w \in Workers :
             \/ Proceed(w) \/ ExtractFile(w) \/ RecoverStaleJobs(w) \/ Fault(w)
             \/ WorkerDies(w) \/ ReplaceWorker(w) \/ ReplaceWithoutCleanup(w)
  <2>1. PICK w \in Workers :
             \/ Proceed(w) \/ ExtractFile(w) \/ RecoverStaleJobs(w) \/ Fault(w)
             \/ WorkerDies(w) \/ ReplaceWorker(w) \/ ReplaceWithoutCleanup(w)
    BY <1>2
  <2>2. CASE CommitClaim(w)
    <3>1. task[w] \in Jobs /\ JT!Assign(task[w])
      BY <2>2 DEF CommitClaim, JT!Assign
    <3> QED
      BY <3>1 DEF JT!Next
  <2>3. CASE ExtractFile(w)
    BY <2>3, InsertCreates DEF ExtractFile
  <2>4. CASE MarkCompleted(w)
    <3>1. task[w] \in Jobs /\ JT!Report(task[w], "completed")
      BY <2>4 DEF MarkCompleted, Judge, JT!Report
    <3> QED
      BY <3>1 DEF JT!Next, JT!Verdicts
  <2>5. CASE MarkFailed(w)
    <3>1. task[w] \in Jobs /\ JT!Report(task[w], "failed")
      BY <2>5 DEF MarkFailed, Judge, JT!Report
    <3> QED
      BY <3>1 DEF JT!Next, JT!Verdicts
  <2>6. CASE RecoverStaleJobs(w)
    <3>1. Stale \in SUBSET Jobs /\ JT!TakeBack(Stale)
      BY <2>6 DEF RecoverStaleJobs, ResetJobs, Stale, JT!TakeBack
    <3> QED
      BY <3>1 DEF JT!Next
  <2>7. CASE ReplaceWorker(w)
    <3>1. OwnedBy(w) \in SUBSET Jobs /\ JT!TakeBack(OwnedBy(w))
      BY <2>7 DEF ReplaceWorker, ResetJobs, OwnedBy, JT!TakeBack
    <3> QED
      BY <3>1 DEF JT!Next
  <2>8. CASE ReplaceWithoutCleanup(w)
    <3>1. JT!TakeBack({})
      BY <2>8 DEF ReplaceWithoutCleanup, ResetJobs, JT!TakeBack
    <3> QED
      BY <3>1 DEF JT!Next
  <2>9. CASE \/ SelectJob(w) \/ Rest(w) \/ Wake(w) \/ LoadInvestigation(w)
             \/ CountRemaining(w) \/ TryAdvisoryLock(w) \/ ClearParsingLock(w)
             \/ LeaveParsingLock(w) \/ NotifyComplete(w) \/ Recheck(w)
             \/ ClearAfterFailure(w) \/ Fault(w) \/ WorkerDies(w)
    BY <2>9
    DEF SelectJob, Rest, Wake, LoadInvestigation, CountRemaining, TryAdvisoryLock,
        ClearParsingLock, LeaveParsingLock, NotifyComplete, Recheck, ClearAfterFailure,
        Fault, ClaimFails, RollbackWhileParsing, JobRaises, MarkFailedRaises,
        RecheckRaises, WorkerDies
  <2> QED
    BY <2>1, <2>2, <2>3, <2>4, <2>5, <2>6, <2>7, <2>8, <2>9 DEF Proceed
<1>3. CASE \E S \in SUBSET Jobs : RestartService(S)
  <2>1. PICK S \in SUBSET Jobs : RestartService(S)
    BY <1>3
  <2>2. JT!TakeBack(S)
    BY <2>1 DEF RestartService, ResetJobs, JT!TakeBack
  <2> QED
    BY <2>2 DEF JT!Next
<1>4. CASE \E j \in Jobs : JobAges(j)
  BY <1>4 DEF JobAges
<1>5. CASE UNCHANGED vars
  BY <1>5 DEF vars
<1> QED
  BY <1>1, <1>2, <1>3, <1>4, <1>5 DEF Next

\* The job table moves only as JobTable allows, whichever workers crash,
\* stall or report late (main.py:93-138, 267-449, 745-816, 997-1067).
THEOREM ImplementsJobTable == Spec => JobTableSafe
<1>1. Init => JT!Init
  BY DEF Init, JT!Init
<1>2. Inv /\ [Next]_vars => [JT!Next]_status
  BY TableStep
<1> QED
  BY <1>1, <1>2, InvHolds, PTL DEF Spec, JobTableSafe, JT!Safe

\* A verdict stays one: no claim, cleanup or recovery, however late, makes a
\* completed or failed job pending or running again.
THEOREM VerdictsAreFinal == Spec => VerdictIsFinal
<1>1. ASSUME Inv, [Next]_vars
      PROVE  [\A j \in Jobs : status[j] \in Verdicts => status'[j] \in Verdicts]_vars
  <2>1. CASE JT!Next
    BY <1>1, <2>1
    DEF JT!Next, JT!Create, JT!Assign, JT!TakeBack, JT!Report, JT!Verdicts,
        Verdicts, Inv, TypeOK
  <2>2. CASE UNCHANGED status
    BY <2>2
  <2> QED
    BY <1>1, <2>1, <2>2, TableStep
<1> QED
  BY <1>1, InvHolds, PTL DEF Spec, VerdictIsFinal

-----------------------------------------------------------------------------
(* Without overruns, nobody works on a job that is not his.                *)

\* A job in hand is running, owned by the worker and younger than the stale
\* threshold until the worker judges it; judged, it has a verdict.  In the
\* exception handler it is either.
Owns(w) ==
  status[task[w]] = "running" /\ owner[task[w]] = w /\ ~aged[task[w]]

Judged(w) == status[task[w]] \in Verdicts

InHandIsOwned ==
  \A w \in Workers :
    /\ pc[w] \in Parsing => Owns(w)
    /\ pc[w] = "failing" => Owns(w) \/ Judged(w)
    /\ pc[w] \in Finishing => Judged(w)

LEMMA InHandStep ==
  ASSUME AllowOverrun = FALSE, Inv, InHandIsOwned, [Next]_vars
  PROVE  InHandIsOwned'
<1> USE StateSets, JobsAreNonzero
    DEF Inv, TypeOK, ClaimLocksRow, TaskExists, InHandIsOwned, Owns, Judged,
        Active, Verdicts, Parsing, Finishing, Recovering
<1>1. CASE \E u \in Uploads : Request(u) \/ UploadAborts(u)
  <2>1. PICK u \in Uploads : Request(u) \/ UploadAborts(u)
    BY <1>1
  <2>2. CASE UploadEnqueue(u)
    BY <2>2 DEF UploadEnqueue, InsertJob
  <2>3. CASE UploadLoad(u) \/ UploadLock(u) \/ UploadAborts(u)
    <3>1. UNCHANGED <<status, owner, aged, pc, task>>
      BY <2>3 DEF UploadLoad, UploadLock, UploadAborts
    <3> QED
      BY <3>1
  <2> QED
    BY <2>1, <2>2, <2>3 DEF Request
<1>2. CASE \E w \in Workers :
             \/ Proceed(w) \/ ExtractFile(w) \/ RecoverStaleJobs(w) \/ Fault(w)
             \/ WorkerDies(w) \/ ReplaceWorker(w) \/ ReplaceWithoutCleanup(w)
  <2> SUFFICES ASSUME NEW w \in Workers,
                      \/ Proceed(w) \/ ExtractFile(w) \/ RecoverStaleJobs(w) \/ Fault(w)
                      \/ WorkerDies(w) \/ ReplaceWorker(w) \/ ReplaceWithoutCleanup(w)
               PROVE  InHandIsOwned'
    BY <1>2
  <2>1. CASE SelectJob(w)
    BY <2>1 DEF SelectJob, Goto
  <2>2. CASE CommitClaim(w)
    BY <2>2 DEF CommitClaim, Goto, ReleaseRows
  <2>3. CASE Rest(w)
    BY <2>3 DEF Rest, Goto
  <2>4. CASE Wake(w)
    BY <2>4 DEF Wake, Goto, NextRound
  <2>5. CASE LoadInvestigation(w)
    BY <2>5 DEF LoadInvestigation, Goto
  <2>6. CASE MarkCompleted(w)
    BY <2>6 DEF MarkCompleted, Goto, Judge, RowFree
  <2>7. CASE CountRemaining(w)
    BY <2>7 DEF CountRemaining, Goto, NextRound
  <2>8. CASE TryAdvisoryLock(w)
    BY <2>8 DEF TryAdvisoryLock, Goto, NextRound, InvOfTask
  <2>9. CASE ClearParsingLock(w)
    BY <2>9 DEF ClearParsingLock, Goto, SetParsingLock, ReleaseAdvisory
  <2>10. CASE LeaveParsingLock(w)
    BY <2>10 DEF LeaveParsingLock, Goto, NextRound, ReleaseAdvisory
  <2>11. CASE NotifyComplete(w)
    BY <2>11 DEF NotifyComplete, Goto, NextRound
  <2>12. CASE MarkFailed(w)
    BY <2>12 DEF MarkFailed, Goto, Judge, RowFree
  <2>13. CASE Recheck(w)
    BY <2>13 DEF Recheck, Goto, NextRound
  <2>14. CASE ClearAfterFailure(w)
    BY <2>14 DEF ClearAfterFailure, Goto, SetParsingLock
  <2>15. CASE ExtractFile(w)
    BY <2>15 DEF ExtractFile, InsertJob, InvOfTask
  <2>16. CASE RecoverStaleJobs(w)
    BY <2>16 DEF RecoverStaleJobs, ResetJobs, Goto, NextRound, Stale
  <2>17. CASE ClaimFails(w)
    BY <2>17 DEF ClaimFails, Goto, NextRound, ReleaseRows
  <2>18. CASE RollbackWhileParsing(w)
    BY <2>18 DEF RollbackWhileParsing
  <2>19. CASE JobRaises(w)
    BY <2>19 DEF JobRaises, Goto, ReleaseAdvisory
  <2>20. CASE MarkFailedRaises(w)
    BY <2>20 DEF MarkFailedRaises, Goto
  <2>21. CASE RecheckRaises(w)
    BY <2>21 DEF RecheckRaises, Goto, NextRound
  <2>22. CASE WorkerDies(w)
    BY <2>22 DEF WorkerDies, Goto, ReleaseRows, ReleaseAdvisory
  <2>23. CASE ReplaceWorker(w)
    BY <2>23 DEF ReplaceWorker, ResetJobs, Goto, OwnedBy
  <2>24. CASE ReplaceWithoutCleanup(w)
    BY <2>24 DEF ReplaceWithoutCleanup, ResetJobs, Goto, OwnedBy
  <2> QED
    BY <2>1, <2>2, <2>3, <2>4, <2>5, <2>6, <2>7, <2>8, <2>9, <2>10, <2>11, <2>12,
       <2>13, <2>14, <2>15, <2>16, <2>17, <2>18, <2>19, <2>20, <2>21, <2>22, <2>23, <2>24
    DEF Proceed, Fault
<1>3. CASE \E S \in SUBSET Jobs : RestartService(S)
  BY <1>3 DEF RestartService
<1>4. CASE \E j \in Jobs : JobAges(j)
  BY <1>4 DEF JobAges, InHand
<1>5. CASE UNCHANGED vars
  BY <1>5 DEF vars
<1> QED
  BY <1>1, <1>2, <1>3, <1>4, <1>5 DEF Next

\* Where no parse outlasts the stale threshold, a worker at work on a job is
\* the row's owner, so that no two workers parse the same artifact at a time,
\* whatever crashes, restarts and recoveries come in between.
THEOREM RunnersOwnTheirJobs == Spec => []RunnerOwnsJob
<1>1. CASE AllowOverrun
  <2>1. RunnerOwnsJob
    BY <1>1 DEF RunnerOwnsJob
  <2> QED
    BY <2>1, PTL
<1>2. CASE AllowOverrun = FALSE
  <2>1. Init => InHandIsOwned
    BY DEF Init, InHandIsOwned, Parsing, Finishing
  <2>2. Inv /\ InHandIsOwned /\ [Next]_vars => InHandIsOwned'
    BY <1>2, InHandStep
  <2>3. InHandIsOwned => RunnerOwnsJob
    BY DEF InHandIsOwned, Owns, RunnerOwnsJob
  <2> QED
    BY <2>1, <2>2, <2>3, InvHolds, PTL DEF Spec
<1> QED
  BY <1>1, <1>2, ConstantsAssumption

-----------------------------------------------------------------------------
(* The parsing lock covers the open jobs.                                  *)

\* One request at most uploads to an investigation.
OneUploadEach == \A u, v \in Uploads : Target[u] = Target[v] => u = v

\* Until a request has created its job its investigation has none, and until it
\* has set the lock nobody else has.
LockIsToCome ==
  \A u \in Uploads :
    /\ upc[u] \in {"new", "loaded"} =>
         \A j \in Jobs : status[j] # "absent" => invOf[j] # Target[u]
    /\ upc[u] \in {"new", "loaded", "enqueued"} => ~locked[Target[u]]
    /\ upc[u] \in {"loaded", "enqueued"} => usaw[u] = "unlocked"

\* Who is about to clear the lock has found no open job, and there is none yet.
NothingRemains ==
  \A w \in Workers : pc[w] \in {"draining", "clearing", "reclearing"} =>
    \A j \in Jobs : invOf[j] = InvOfTask(w) => status[j] \notin Active

LockInv == InHandIsOwned /\ LockIsToCome /\ NothingRemains /\ LockCoversJobs

\* Jobs are created, and requests go on, in four steps only.
LEMMA LockStep ==
  ASSUME AllowOverrun = FALSE, OneUploadEach, Inv, LockInv, [Next]_vars
  PROVE  LockInv'
<1> USE StateSets, JobsAreNonzero, ConstantsAssumption
    DEF Inv, TypeOK, ClaimLocksRow, TaskExists, InHandIsOwned, Owns, Judged,
        LockInv, LockIsToCome, NothingRemains, LockCoversJobs, InvOfTask, OneUploadEach,
        Active, Verdicts, Parsing, Finishing, Recovering
<1>0. InHandIsOwned'
  BY InHandStep
<1>1. CASE \E u \in Uploads : Request(u) \/ UploadAborts(u)
  <2> SUFFICES ASSUME NEW u \in Uploads, Request(u) \/ UploadAborts(u)
               PROVE  LockIsToCome' /\ NothingRemains' /\ LockCoversJobs'
    BY <1>0, <1>1
  <2>1. CASE UploadLoad(u)
    BY <2>1 DEF UploadLoad, View
  <2>2. CASE UploadEnqueue(u)
    <3>1. PICK j \in Jobs : InsertJob(j, Target[u])
      BY <2>2 DEF UploadEnqueue
    <3>2. LockIsToCome'
      BY <2>2, <3>1 DEF UploadEnqueue, InsertJob
    <3>3. NothingRemains'
      BY <2>2, <3>1 DEF UploadEnqueue, InsertJob
    <3>4. LockCoversJobs'
      BY <2>2, <3>1 DEF UploadEnqueue, InsertJob
    <3> QED
      BY <3>2, <3>3, <3>4
  <2>3. CASE UploadLock(u)
    <3>1. locked' = [locked EXCEPT ![Target[u]] = TRUE]
      BY <2>3 DEF UploadLock, SetParsingLock
    <3> QED
      BY <2>3, <3>1 DEF UploadLock
  <2>4. CASE UploadAborts(u)
    BY <2>4 DEF UploadAborts
  <2> QED
    BY <2>1, <2>2, <2>3, <2>4 DEF Request
<1>2. CASE \E w \in Workers :
             \/ Proceed(w) \/ ExtractFile(w) \/ RecoverStaleJobs(w) \/ Fault(w)
             \/ WorkerDies(w) \/ ReplaceWorker(w) \/ ReplaceWithoutCleanup(w)
  <2> SUFFICES ASSUME NEW w \in Workers,
                      \/ Proceed(w) \/ ExtractFile(w) \/ RecoverStaleJobs(w) \/ Fault(w)
                      \/ WorkerDies(w) \/ ReplaceWorker(w) \/ ReplaceWithoutCleanup(w)
               PROVE  LockIsToCome' /\ NothingRemains' /\ LockCoversJobs'
    BY <1>0, <1>2
  <2>1. CASE SelectJob(w)
    BY <2>1 DEF SelectJob, Goto
  <2>2. CASE CommitClaim(w)
    BY <2>2 DEF CommitClaim, Goto, ReleaseRows
  <2>3. CASE Rest(w)
    BY <2>3 DEF Rest, Goto
  <2>4. CASE Wake(w)
    BY <2>4 DEF Wake, Goto, NextRound
  <2>5. CASE LoadInvestigation(w)
    BY <2>5 DEF LoadInvestigation, Goto
  <2>6. CASE MarkCompleted(w)
    BY <2>6 DEF MarkCompleted, Goto, Judge, RowFree
  <2>7. CASE CountRemaining(w)
    BY <2>7 DEF CountRemaining, Goto, NextRound, Remaining
  <2>8. CASE TryAdvisoryLock(w)
    BY <2>8 DEF TryAdvisoryLock, Goto, NextRound, InvOfTask
  <2>9. CASE ClearParsingLock(w)
    BY <2>9 DEF ClearParsingLock, Goto, SetParsingLock, ReleaseAdvisory
  <2>10. CASE LeaveParsingLock(w)
    BY <2>10 DEF LeaveParsingLock, Goto, NextRound, ReleaseAdvisory
  <2>11. CASE NotifyComplete(w)
    BY <2>11 DEF NotifyComplete, Goto, NextRound
  <2>12. CASE MarkFailed(w)
    BY <2>12 DEF MarkFailed, Goto, Judge, RowFree
  <2>13. CASE Recheck(w)
    BY <2>13 DEF Recheck, Goto, NextRound, Remaining
  <2>14. CASE ClearAfterFailure(w)
    BY <2>14 DEF ClearAfterFailure, Goto, SetParsingLock
  <2>15. CASE ExtractFile(w)
    BY <2>15 DEF ExtractFile, InsertJob, InvOfTask
  <2>16. CASE RecoverStaleJobs(w)
    BY <2>16 DEF RecoverStaleJobs, ResetJobs, Goto, NextRound, Stale
  <2>17. CASE ClaimFails(w)
    BY <2>17 DEF ClaimFails, Goto, NextRound, ReleaseRows
  <2>18. CASE RollbackWhileParsing(w)
    BY <2>18 DEF RollbackWhileParsing
  <2>19. CASE JobRaises(w)
    BY <2>19 DEF JobRaises, Goto, ReleaseAdvisory
  <2>20. CASE MarkFailedRaises(w)
    BY <2>20 DEF MarkFailedRaises, Goto
  <2>21. CASE RecheckRaises(w)
    BY <2>21 DEF RecheckRaises, Goto, NextRound
  <2>22. CASE WorkerDies(w)
    BY <2>22 DEF WorkerDies, Goto, ReleaseRows, ReleaseAdvisory
  <2>23. CASE ReplaceWorker(w)
    BY <2>23 DEF ReplaceWorker, ResetJobs, Goto, OwnedBy
  <2>24. CASE ReplaceWithoutCleanup(w)
    BY <2>24 DEF ReplaceWithoutCleanup, ResetJobs, Goto, OwnedBy
  <2> QED
    BY <2>1, <2>2, <2>3, <2>4, <2>5, <2>6, <2>7, <2>8, <2>9, <2>10, <2>11, <2>12,
       <2>13, <2>14, <2>15, <2>16, <2>17, <2>18, <2>19, <2>20, <2>21, <2>22, <2>23, <2>24
    DEF Proceed, Fault
<1>3. CASE \E S \in SUBSET Jobs : RestartService(S)
  BY <1>0, <1>3 DEF RestartService, ResetJobs
<1>4. CASE \E j \in Jobs : JobAges(j)
  BY <1>0, <1>4 DEF JobAges
<1>5. CASE UNCHANGED vars
  BY <1>0, <1>5 DEF vars
<1> QED
  BY <1>1, <1>2, <1>3, <1>4, <1>5 DEF Next

\* Where one request uploads to an investigation and no parse outlasts the stale
\* threshold, the investigation is locked while it has an open job, but for the
\* moment between the request's job and its lock: however many files an archive
\* holds and however many workers end them, who clears the lock is the last one.
THEOREM LockCoversOpenJobs ==
  ASSUME AllowOverrun = FALSE, OneUploadEach
  PROVE  Spec => []LockCoversJobs
<1>1. Init => LockInv
  BY ConstantsAssumption
  DEF Init, LockInv, InHandIsOwned, LockIsToCome, NothingRemains, LockCoversJobs,
      Active, Parsing, Finishing
<1>2. Inv /\ LockInv /\ [Next]_vars => LockInv'
  BY LockStep
<1>3. LockInv => LockCoversJobs
  BY DEF LockInv
<1> QED
  BY <1>1, <1>2, <1>3, InvHolds, PTL DEF Spec
=============================================================================
