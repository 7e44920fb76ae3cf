-------------------------- MODULE AgentJobsProofs --------------------------
(***************************************************************************)
(* Theorems about AgentJobs, for every number of workers, stop requests,   *)
(* jobs and turns, and for every budget of crashes, faults and overruns.   *)
(***************************************************************************)
EXTENDS AgentJobs, TLAPS

\* Expanding the statements of the handlers.
USE DEF jobTable, workers, requests, budgets

\* The states in which a worker has a job in its hands.
Holding == AtWork \union {"choosing"}

\* What the sets of states are, for the steps below, and that a job's number
\* is never the 0 that stands for "no job in hand".
LEMMA StateSets ==
  /\ Streaming = {"planning", "executing", "analysing", "summing"}
  /\ Outcomes = {"stopped", "finished", "exhausted", "erred"}
  /\ AtWork = {"claimed", "starting", "turn", "planning", "executing", "analysing",
               "summing", "stopped", "finished", "exhausted", "erred",
               "cancelled", "failing"}
  /\ WorkerStates = {"idle", "resting", "dead", "choosing"} \union AtWork
  /\ StopStates = {"new", "checked", "waiting", "killing", "done"}
  /\ Errors = {"null", "reset", "stopped", "agent", "cancelled"}
  /\ Holding = AtWork \union {"choosing"}
  BY DEF Streaming, Outcomes, AtWork, WorkerStates, StopStates, Errors, Stages, Holding

LEMMA JobsAreNonzero == 0 \notin Jobs /\ Nobody \notin Workers /\ Gone \notin Workers
  BY AgentConstantsAssumption, AgentWorkersAssumption DEF Jobs

\* Whoever holds a job, or is about to stop one, names one that exists.
HeldExists ==
  \A w \in Workers : pc[w] \in Holding =>
    task[w] \in Jobs /\ status[task[w]] # "absent"

AimedExists ==
  \A s \in Stops : spc[s] \in {"checked", "waiting", "killing"} =>
    target[s] \in Jobs /\ status[target[s]] # "absent"

Inv == TypeOK /\ HeldExists /\ AimedExists

LEMMA InitInv == Init => Inv
  BY StateSets, AgentConstantsAssumption
  DEF Init, Inv, TypeOK, HeldExists, AimedExists, Active, Verdicts

\* A reset keeps the types of the columns it writes.
LEMMA ResetTypes ==
  ASSUME TypeOK, NEW S, NEW replaced, ResetJobs(S, replaced)
  PROVE  /\ status' \in [Jobs -> {"absent"} \union Active \union Verdicts]
         /\ owner' \in [Jobs -> Workers \union {Nobody, Gone}]
         /\ aged' \in [Jobs -> BOOLEAN]
         /\ flag' \in [Jobs -> BOOLEAN]
         /\ error' \in [Jobs -> Errors]
<1>1. aged' \in [Jobs -> BOOLEAN]
  BY Zenon DEF ResetJobs
<1> QED
  BY <1>1 DEF ResetJobs, TypeOK, Active, Errors

\* Every step keeps the types.
LEMMA TypeStep ==
  ASSUME TypeOK, HeldExists, [Next]_vars
  PROVE  TypeOK'
<1> USE AgentConstantsAssumption, StateSets DEF TypeOK, HeldExists, Active, Verdicts
<1>1. CASE \E j \in Jobs : Enqueue(j) \/ JobAges(j)
  <2> SUFFICES ASSUME NEW j \in Jobs, Enqueue(j) \/ JobAges(j)
               PROVE  TypeOK'
    BY <1>1
  <2>1. CASE Enqueue(j)
    BY <2>1 DEF Enqueue
  <2>2. CASE JobAges(j)
    BY <2>2 DEF JobAges, InHand
  <2> QED
    BY <2>1, <2>2
<1>2. CASE (\E s \in Stops : Stop(s)) \/ ApiRestarts
  <2>1. CASE ApiRestarts
    BY <2>1 DEF ApiRestarts
  <2>2. CASE \E s \in Stops : Stop(s)
    <3> SUFFICES ASSUME NEW s \in Stops, Stop(s)
                 PROVE  TypeOK'
      BY <2>2
    <3>1. CASE \E j \in Jobs : StopCheck(s, j)
      BY <3>1 DEF StopCheck
    <3>2. CASE \E j \in Jobs : ChatStop(s, j)
      BY <3>2 DEF ChatStop, SetFlag
    <3>3. CASE ForceStop(s)
      BY <3>3 DEF ForceStop, Write
    <3>4. CASE GracefulStop(s)
      BY <3>4 DEF GracefulStop, SetFlag
    <3>5. CASE TimerReads(s)
      BY <3>5 DEF TimerReads
    <3>6. CASE TimerKills(s)
      BY <3>6 DEF TimerKills, Write
    <3> QED
      BY <3>1, <3>2, <3>3, <3>4, <3>5, <3>6 DEF Stop
  <2> QED
    BY <1>2, <2>1, <2>2
<1>3. CASE \E w \in Workers :
             \/ Proceed(w) \/ Fault(w) \/ RecoverStaleJobs(w)
             \/ WorkerDies(w) \/ ReplaceWorker(w) \/ ReplaceWithoutCleanup(w)
  <2> SUFFICES ASSUME NEW w \in Workers,
                      \/ Proceed(w) \/ Fault(w) \/ RecoverStaleJobs(w)
                      \/ WorkerDies(w) \/ ReplaceWorker(w) \/ ReplaceWithoutCleanup(w)
               PROVE  TypeOK'
    BY <1>3
  <2>1. CASE Claim(w)
    BY <2>1 DEF Claim, Goto, Claimable
  <2>2. CASE Refresh(w)
    BY <2>2 DEF Refresh, Goto
  <2>3. CASE Rest(w)
    BY <2>3 DEF Rest, Goto
  <2>4. CASE Wake(w)
    BY <2>4 DEF Wake, Goto
  <2>5. CASE Start(w)
    BY <2>5 DEF Start, Goto
  <2>6. CASE StartFails(w)
    BY <2>6 DEF StartFails, Goto
  <2>7. CASE BeginTurn(w)
    BY <2>7 DEF BeginTurn, Goto
  <2>8. CASE Plan(w)
    BY <2>8 DEF Plan, Goto
  <2>9. CASE PlanRefused(w)
    BY <2>9 DEF PlanRefused, Goto
  <2>10. CASE Execute(w)
    BY <2>10 DEF Execute, Goto
  <2>11. CASE Analyse(w)
    BY <2>11 DEF Analyse, Goto
  <2>12. CASE CompleteInvestigation(w)
    BY <2>12 DEF CompleteInvestigation, Goto
  <2>13. CASE OutOfTurns(w)
    BY <2>13 DEF OutOfTurns, Goto
  <2>14. CASE Summarise(w)
    BY <2>14 DEF Summarise, Goto
  <2>15. CASE CutOff(w)
    BY <2>15 DEF CutOff, Goto
  <2>16. CASE Judge(w)
    BY <2>16 DEF Judge, Goto, Drop, Write, Cleared
  <2>17. CASE OfferChoices(w)
    BY <2>17 DEF OfferChoices, Goto, Drop
  <2>18. CASE MarkFailed(w)
    BY <2>18 DEF MarkFailed, Goto, Drop, Write
  <2>19. CASE MarkCancelled(w)
    BY <2>19 DEF MarkCancelled, Goto, Drop, Write
  <2>20. CASE RefreshFails(w)
    BY <2>20 DEF RefreshFails, Goto, Drop, Spend
  <2>21. CASE CheckFails(w)
    BY <2>21 DEF CheckFails, Goto, Spend
  <2>22. CASE RollbackInTurn(w)
    BY <2>22 DEF RollbackInTurn, Spend
  <2>23. CASE RunRaises(w)
    BY <2>23 DEF RunRaises, Goto, Spend
  <2>24. CASE JudgeRaises(w)
    BY <2>24 DEF JudgeRaises, Goto, Drop, Spend
  <2>25. CASE ChoicesFail(w)
    BY <2>25 DEF ChoicesFail, Goto, Drop, Spend
  <2>26. CASE MarkRaises(w)
    BY <2>26 DEF MarkRaises, Goto, Drop, Spend
  <2>27. CASE RecoverStaleJobs(w)
    BY <2>27, ResetTypes DEF RecoverStaleJobs, Goto
  <2>28. CASE WorkerDies(w)
    BY <2>28 DEF WorkerDies, Goto, Drop
  <2>29. CASE ReplaceWorker(w)
    BY <2>29, ResetTypes DEF ReplaceWorker, Goto
  <2>30. CASE ReplaceWithoutCleanup(w)
    BY <2>30, ResetTypes DEF ReplaceWithoutCleanup, Goto, Spend
  <2> QED
    BY <2>1, <2>2, <2>3, <2>4, <2>5, <2>6, <2>7, <2>8, <2>9, <2>10,
       <2>11, <2>12, <2>13, <2>14, <2>15, <2>16, <2>17, <2>18, <2>19, <2>20,
       <2>21, <2>22, <2>23, <2>24, <2>25, <2>26, <2>27, <2>28, <2>29, <2>30
    DEF Proceed, Run, Fault
<1>4. CASE \E S \in SUBSET Jobs : RestartService(S)
  BY <1>4, ResetTypes DEF RestartService
<1>5. CASE UNCHANGED vars
  BY <1>5 DEF vars
<1> QED
  BY <1>1, <1>2, <1>3, <1>4, <1>5 DEF Next

\* Every step keeps what is known of the jobs held and aimed at.
LEMMA InvStep ==
  ASSUME Inv, [Next]_vars
  PROVE  Inv'
<1> USE StateSets, JobsAreNonzero
    DEF Inv, TypeOK, HeldExists, AimedExists, Active, Verdicts
<1>0. TypeOK'
  BY TypeStep
<1> SUFFICES HeldExists' /\ AimedExists'
  BY <1>0
<1>1. CASE \E j \in Jobs : Enqueue(j) \/ JobAges(j)
  <2> SUFFICES ASSUME NEW j \in Jobs, Enqueue(j) \/ JobAges(j)
               PROVE  HeldExists' /\ AimedExists'
    BY <1>1
  <2>1. CASE Enqueue(j)
    BY <2>1 DEF Enqueue
  <2>2. CASE JobAges(j)
    BY <2>2 DEF JobAges, InHand
  <2> QED
    BY <2>1, <2>2
<1>2. CASE (\E s \in Stops : Stop(s)) \/ ApiRestarts
  <2>1. CASE ApiRestarts
    BY <2>1 DEF ApiRestarts
  <2>2. CASE \E s \in Stops : Stop(s)
    <3> SUFFICES ASSUME NEW s \in Stops, Stop(s)
                 PROVE  HeldExists' /\ AimedExists'
      BY <2>2
    <3>1. CASE \E j \in Jobs : StopCheck(s, j)
      BY <3>1 DEF StopCheck
    <3>2. CASE \E j \in Jobs : ChatStop(s, j)
      BY <3>2 DEF ChatStop, SetFlag
    <3>3. CASE ForceStop(s)
      BY <3>3 DEF ForceStop, Write
    <3>4. CASE GracefulStop(s)
      BY <3>4 DEF GracefulStop, SetFlag
    <3>5. CASE TimerReads(s)
      BY <3>5 DEF TimerReads
    <3>6. CASE TimerKills(s)
      BY <3>6 DEF TimerKills, Write
    <3> QED
      BY <3>1, <3>2, <3>3, <3>4, <3>5, <3>6 DEF Stop
  <2> QED
    BY <1>2, <2>1, <2>2
<1>3. CASE \E w \in Workers :
             \/ Proceed(w) \/ Fault(w) \/ RecoverStaleJobs(w)
             \/ WorkerDies(w) \/ ReplaceWorker(w) \/ ReplaceWithoutCleanup(w)
  <2> SUFFICES ASSUME NEW w \in Workers,
                      \/ Proceed(w) \/ Fault(w) \/ RecoverStaleJobs(w)
                      \/ WorkerDies(w) \/ ReplaceWorker(w) \/ ReplaceWithoutCleanup(w)
               PROVE  HeldExists' /\ AimedExists'
    BY <1>3
  <2>1. CASE Claim(w)
    BY <2>1 DEF Claim, Goto, Claimable
  <2>2. CASE Refresh(w)
    BY <2>2 DEF Refresh, Goto
  <2>3. CASE Rest(w)
    BY <2>3 DEF Rest, Goto
  <2>4. CASE Wake(w)
    BY <2>4 DEF Wake, Goto
  <2>5. CASE Start(w)
    BY <2>5 DEF Start, Goto
  <2>6. CASE StartFails(w)
    BY <2>6 DEF StartFails, Goto
  <2>7. CASE BeginTurn(w)
    BY <2>7 DEF BeginTurn, Goto
  <2>8. CASE Plan(w)
    BY <2>8 DEF Plan, Goto
  <2>9. CASE PlanRefused(w)
    BY <2>9 DEF PlanRefused, Goto
  <2>10. CASE Execute(w)
    BY <2>10 DEF Execute, Goto
  <2>11. CASE Analyse(w)
    BY <2>11 DEF Analyse, Goto
  <2>12. CASE CompleteInvestigation(w)
    BY <2>12 DEF CompleteInvestigation, Goto
  <2>13. CASE OutOfTurns(w)
    BY <2>13 DEF OutOfTurns, Goto
  <2>14. CASE Summarise(w)
    BY <2>14 DEF Summarise, Goto
  <2>15. CASE CutOff(w)
    BY <2>15 DEF CutOff, Goto
  <2>16. CASE Judge(w)
    BY <2>16 DEF Judge, Goto, Drop, Write, Cleared
  <2>17. CASE OfferChoices(w)
    BY <2>17 DEF OfferChoices, Goto, Drop
  <2>18. CASE MarkFailed(w)
    BY <2>18 DEF MarkFailed, Goto, Drop, Write
  <2>19. CASE MarkCancelled(w)
    BY <2>19 DEF MarkCancelled, Goto, Drop, Write
  <2>20. CASE RefreshFails(w)
    BY <2>20 DEF RefreshFails, Goto, Drop, Spend
  <2>21. CASE CheckFails(w)
    BY <2>21 DEF CheckFails, Goto, Spend
  <2>22. CASE RollbackInTurn(w)
    BY <2>22 DEF RollbackInTurn, Spend
  <2>23. CASE RunRaises(w)
    BY <2>23 DEF RunRaises, Goto, Spend
  <2>24. CASE JudgeRaises(w)
    BY <2>24 DEF JudgeRaises, Goto, Drop, Spend
  <2>25. CASE ChoicesFail(w)
    BY <2>25 DEF ChoicesFail, Goto, Drop, Spend
  <2>26. CASE MarkRaises(w)
    BY <2>26 DEF MarkRaises, Goto, Drop, Spend
  <2>27. CASE RecoverStaleJobs(w)
    BY <2>27 DEF RecoverStaleJobs, Goto, ResetJobs, Stale
  <2>28. CASE WorkerDies(w)
    BY <2>28 DEF WorkerDies, Goto, Drop
  <2>29. CASE ReplaceWorker(w)
    BY <2>29 DEF ReplaceWorker, Goto, ResetJobs, OwnedBy
  <2>30. CASE ReplaceWithoutCleanup(w)
    BY <2>30 DEF ReplaceWithoutCleanup, Goto, ResetJobs, Spend
  <2> QED
    BY <2>1, <2>2, <2>3, <2>4, <2>5, <2>6, <2>7, <2>8, <2>9, <2>10,
       <2>11, <2>12, <2>13, <2>14, <2>15, <2>16, <2>17, <2>18, <2>19, <2>20,
       <2>21, <2>22, <2>23, <2>24, <2>25, <2>26, <2>27, <2>28, <2>29, <2>30
    DEF Proceed, Run, Fault
<1>4. CASE \E S \in SUBSET Jobs : RestartService(S)
  BY <1>4 DEF RestartService, ResetJobs, Stale
<1>5. CASE UNCHANGED vars
  BY <1>5 DEF vars
<1> QED
  BY <1>1, <1>2, <1>3, <1>4, <1>5 DEF Next

-----------------------------------------------------------------------------
THEOREM InvHolds == Spec => []Inv
  BY InitInv, InvStep, PTL DEF Spec

\* Type correctness: among the rest, no run takes more turns than its effort
\* allows (assistant_agent.py:717-723).
THEOREM TypeCorrect == Spec => []TypeOK
<1>1. Inv => TypeOK
  BY DEF Inv
<1> QED
  BY <1>1, InvHolds, PTL

-----------------------------------------------------------------------------
(* AgentJobs implements JobTable.                                          *)

LEMMA WriteReports ==
  ASSUME Inv, NEW j \in Jobs, status[j] # "absent", NEW verdict \in Verdicts,
         NEW message, Write(j, verdict, message)
  PROVE  JT!Next
<1>1. JT!Report(j, verdict)
  BY DEF Write, JT!Report
<1> QED
  BY <1>1 DEF JT!Next, JT!Verdicts, Verdicts

LEMMA ResetTakesBack ==
  ASSUME Inv, NEW S \in SUBSET Jobs, NEW replaced, ResetJobs(S, replaced),
         \A j \in S : status[j] = "running"
  PROVE  JT!Next
<1>1. JT!TakeBack(S)
  BY DEF ResetJobs, JT!TakeBack
<1> QED
  BY <1>1 DEF JT!Next

LEMMA TableStep ==
  ASSUME Inv, [Next]_vars
  PROVE  [JT!Next]_status
<1> USE StateSets DEF Inv, HeldExists, AimedExists, TypeOK
<1>1. CASE \E j \in Jobs : Enqueue(j) \/ JobAges(j)
  <2>1. PICK j \in Jobs : Enqueue(j) \/ JobAges(j)
    BY <1>1
  <2>2. CASE Enqueue(j)
    <3>1. {j} \in SUBSET Jobs /\ JT!Create({j})
      BY <2>2 DEF Enqueue, JT!Create
    <3> QED
      BY <3>1 DEF JT!Next
  <2>3. CASE JobAges(j)
    BY <2>3 DEF JobAges
  <2> QED
    BY <2>1, <2>2, <2>3
<1>2. CASE (\E s \in Stops : Stop(s)) \/ ApiRestarts
  <2>1. CASE ApiRestarts
    BY <2>1 DEF ApiRestarts
  <2>2. ASSUME NEW s \in Stops, ForceStop(s) \/ TimerKills(s)
        PROVE  JT!Next
    <3>1. target[s] \in Jobs /\ status[target[s]] # "absent"
      BY <2>2 DEF ForceStop, TimerKills
    <3>2. Write(target[s], "failed", "stopped")
      BY <2>2 DEF ForceStop, TimerKills
    <3> QED
      BY <3>1, <3>2, WriteReports DEF Verdicts
  <2>3. ASSUME NEW s \in Stops,
               \/ \E j \in Jobs : StopCheck(s, j) \/ ChatStop(s, j)
               \/ GracefulStop(s) \/ TimerReads(s)
        PROVE  UNCHANGED status
    BY <2>3 DEF StopCheck, ChatStop, GracefulStop, TimerReads, SetFlag
  <2> QED
    BY <1>2, <2>1, <2>2, <2>3 DEF Stop
<1>3. CASE \E w \in Workers :
             \/ Proceed(w) \/ Fault(w) \/ RecoverStaleJobs(w)
             \/ WorkerDies(w) \/ ReplaceWorker(w) \/ ReplaceWithoutCleanup(w)
  <2>1. PICK w \in Workers :
             \/ Proceed(w) \/ Fault(w) \/ RecoverStaleJobs(w)
             \/ WorkerDies(w) \/ ReplaceWorker(w) \/ ReplaceWithoutCleanup(w)
    BY <1>3
  <2>2. CASE Claim(w)
    <3>1. PICK j \in Jobs : Claimable(j) /\ status' = [status EXCEPT ![j] = "running"]
      BY <2>2 DEF Claim
    <3>2. JT!Assign(j)
      BY <3>1 DEF Claimable, JT!Assign
    <3> QED
      BY <3>2 DEF JT!Next
  <2>3. CASE Judge(w) \/ MarkFailed(w) \/ MarkCancelled(w)
    <3>1. task[w] \in Jobs /\ status[task[w]] # "absent"
      BY <2>3 DEF Judge, MarkFailed, MarkCancelled
    <3>2. \E verdict \in Verdicts, message \in {"agent", "cancelled", Cleared(w)} :
             Write(task[w], verdict, message)
      BY <2>3 DEF Judge, MarkFailed, MarkCancelled, Verdicts
    <3> QED
      BY <3>1, <3>2, WriteReports
  <2>4. CASE RecoverStaleJobs(w)
    BY <2>4, ResetTakesBack DEF RecoverStaleJobs, Stale
  <2>5. CASE ReplaceWorker(w)
    BY <2>5, ResetTakesBack DEF ReplaceWorker, OwnedBy
  <2>6. CASE ReplaceWithoutCleanup(w)
    BY <2>6, ResetTakesBack DEF ReplaceWithoutCleanup
  <2>7. CASE \/ Refresh(w) \/ Rest(w) \/ Wake(w) \/ Start(w) \/ StartFails(w)
             \/ Run(w) \/ OfferChoices(w) \/ Fault(w) \/ WorkerDies(w)
    BY <2>7
    DEF Refresh, Rest, Wake, Start, StartFails, Run, BeginTurn, Plan, PlanRefused,
        Execute, Analyse, CompleteInvestigation, OutOfTurns, Summarise, CutOff,
        OfferChoices, Fault, RefreshFails, CheckFails, RollbackInTurn, RunRaises,
        JudgeRaises, ChoicesFail, MarkRaises, WorkerDies
  <2> QED
    BY <2>1, <2>2, <2>3, <2>4, <2>5, <2>6, <2>7 DEF Proceed
<1>4. CASE \E S \in SUBSET Jobs : RestartService(S)
  BY <1>4, ResetTakesBack DEF RestartService
<1>5. CASE UNCHANGED vars
  BY <1>5 DEF vars
<1> QED
  BY <1>1, <1>2, <1>3, <1>4, <1>5 DEF Next

\* The job table moves only as JobTable allows: whoever stops, resets or
\* judges a job, and however late, a verdict is never followed by another run
\* (main.py:161-180, 597-742, 745-816, jobs.py:378-440).
THEOREM ImplementsJobTable == Spec => JobTableSafe
<1>1. Init => JT!Init
  BY DEF Init, JT!Init
<1>2. Inv /\ [Next]_vars => [JT!Next]_status
  BY TableStep
<1> QED
  BY <1>1, <1>2, InvHolds, PTL DEF Spec, JobTableSafe, JT!Safe

-----------------------------------------------------------------------------
(* One runner, and one set of choices.                                     *)

\* As long as no job outlasted the stale threshold, whoever works on a job
\* owns its row, which is neither pending nor old, and whoever offers choices
\* has judged the job.
Owns(w) ==
  /\ owner[task[w]] = w
  /\ ~aged[task[w]]
  /\ status[task[w]] \in {"running", "completed", "failed"}

HoldersOwn ==
  overruns = 0 => \A w \in Workers : pc[w] \in AtWork => Owns(w)

LEMMA HoldersStep ==
  ASSUME Inv, HoldersOwn, [Next]_vars
  PROVE  HoldersOwn'
<1> USE StateSets, JobsAreNonzero, AgentConstantsAssumption
    DEF Inv, TypeOK, HeldExists, AimedExists, HoldersOwn, Owns, Active, Verdicts
<1>1. CASE \E j \in Jobs : Enqueue(j) \/ JobAges(j)
  <2> SUFFICES ASSUME NEW j \in Jobs, Enqueue(j) \/ JobAges(j)
               PROVE  HoldersOwn'
    BY <1>1
  <2>1. CASE Enqueue(j)
    BY <2>1 DEF Enqueue
  <2>2. CASE JobAges(j)
    BY <2>2 DEF JobAges, InHand
  <2> QED
    BY <2>1, <2>2
<1>2. CASE (\E s \in Stops : Stop(s)) \/ ApiRestarts
  <2>1. CASE ApiRestarts
    BY <2>1 DEF ApiRestarts
  <2>2. CASE \E s \in Stops : Stop(s)
    <3> SUFFICES ASSUME NEW s \in Stops, Stop(s)
                 PROVE  HoldersOwn'
      BY <2>2
    <3>1. CASE \E j \in Jobs : StopCheck(s, j)
      BY <3>1 DEF StopCheck
    <3>2. CASE \E j \in Jobs : ChatStop(s, j)
      BY <3>2 DEF ChatStop, SetFlag
    <3>3. CASE ForceStop(s)
      BY <3>3 DEF ForceStop, Write
    <3>4. CASE GracefulStop(s)
      BY <3>4 DEF GracefulStop, SetFlag
    <3>5. CASE TimerReads(s)
      BY <3>5 DEF TimerReads
    <3>6. CASE TimerKills(s)
      BY <3>6 DEF TimerKills, Write
    <3> QED
      BY <3>1, <3>2, <3>3, <3>4, <3>5, <3>6 DEF Stop
  <2> QED
    BY <1>2, <2>1, <2>2
<1>3. CASE \E w \in Workers :
             \/ Proceed(w) \/ Fault(w) \/ RecoverStaleJobs(w)
             \/ WorkerDies(w) \/ ReplaceWorker(w) \/ ReplaceWithoutCleanup(w)
  <2> SUFFICES ASSUME NEW w \in Workers,
                      \/ Proceed(w) \/ Fault(w) \/ RecoverStaleJobs(w)
                      \/ WorkerDies(w) \/ ReplaceWorker(w) \/ ReplaceWithoutCleanup(w)
               PROVE  HoldersOwn'
    BY <1>3
  <2>1. CASE Claim(w)
    BY <2>1 DEF Claim, Goto, Claimable
  <2>2. CASE Refresh(w)
    BY <2>2 DEF Refresh, Goto
  <2>3. CASE Rest(w)
    BY <2>3 DEF Rest, Goto
  <2>4. CASE Wake(w)
    BY <2>4 DEF Wake, Goto
  <2>5. CASE Start(w)
    BY <2>5 DEF Start, Goto
  <2>6. CASE StartFails(w)
    BY <2>6 DEF StartFails, Goto
  <2>7. CASE BeginTurn(w)
    BY <2>7 DEF BeginTurn, Goto
  <2>8. CASE Plan(w)
    BY <2>8 DEF Plan, Goto
  <2>9. CASE PlanRefused(w)
    BY <2>9 DEF PlanRefused, Goto
  <2>10. CASE Execute(w)
    BY <2>10 DEF Execute, Goto
  <2>11. CASE Analyse(w)
    BY <2>11 DEF Analyse, Goto
  <2>12. CASE CompleteInvestigation(w)
    BY <2>12 DEF CompleteInvestigation, Goto
  <2>13. CASE OutOfTurns(w)
    BY <2>13 DEF OutOfTurns, Goto
  <2>14. CASE Summarise(w)
    BY <2>14 DEF Summarise, Goto
  <2>15. CASE CutOff(w)
    BY <2>15 DEF CutOff, Goto
  <2>16. CASE Judge(w)
    BY <2>16 DEF Judge, Goto, Drop, Write, Cleared
  <2>17. CASE OfferChoices(w)
    BY <2>17 DEF OfferChoices, Goto, Drop
  <2>18. CASE MarkFailed(w)
    BY <2>18 DEF MarkFailed, Goto, Drop, Write
  <2>19. CASE MarkCancelled(w)
    BY <2>19 DEF MarkCancelled, Goto, Drop, Write
  <2>20. CASE RefreshFails(w)
    BY <2>20 DEF RefreshFails, Goto, Drop, Spend
  <2>21. CASE CheckFails(w)
    BY <2>21 DEF CheckFails, Goto, Spend
  <2>22. CASE RollbackInTurn(w)
    BY <2>22 DEF RollbackInTurn, Spend
  <2>23. CASE RunRaises(w)
    BY <2>23 DEF RunRaises, Goto, Spend
  <2>24. CASE JudgeRaises(w)
    BY <2>24 DEF JudgeRaises, Goto, Drop, Spend
  <2>25. CASE ChoicesFail(w)
    BY <2>25 DEF ChoicesFail, Goto, Drop, Spend
  <2>26. CASE MarkRaises(w)
    BY <2>26 DEF MarkRaises, Goto, Drop, Spend
  <2>27. CASE RecoverStaleJobs(w)
    BY <2>27 DEF RecoverStaleJobs, Goto, ResetJobs, Stale
  <2>28. CASE WorkerDies(w)
    BY <2>28 DEF WorkerDies, Goto, Drop
  <2>29. CASE ReplaceWorker(w)
    BY <2>29 DEF ReplaceWorker, Goto, ResetJobs, OwnedBy
  <2>30. CASE ReplaceWithoutCleanup(w)
    BY <2>30 DEF ReplaceWithoutCleanup, Goto, ResetJobs, Spend
  <2> QED
    BY <2>1, <2>2, <2>3, <2>4, <2>5, <2>6, <2>7, <2>8, <2>9, <2>10,
       <2>11, <2>12, <2>13, <2>14, <2>15, <2>16, <2>17, <2>18, <2>19, <2>20,
       <2>21, <2>22, <2>23, <2>24, <2>25, <2>26, <2>27, <2>28, <2>29, <2>30
    DEF Proceed, Run, Fault
<1>4. CASE \E S \in SUBSET Jobs : RestartService(S)
  BY <1>4 DEF RestartService, ResetJobs, Stale
<1>5. CASE UNCHANGED vars
  BY <1>5 DEF vars
<1> QED
  BY <1>1, <1>2, <1>3, <1>4, <1>5 DEF Next

\* No two workers have the same job in their hands, whichever workers die,
\* whoever stops the job, and whatever recovery comes in between.
THEOREM RunnersAreAlone == Spec => []OneRunner
<1>1. Init => HoldersOwn
  BY StateSets DEF Init, HoldersOwn
<1>2. Inv /\ HoldersOwn /\ [Next]_vars => HoldersOwn'
  BY HoldersStep
<1>3. HoldersOwn => OneRunner
  BY DEF HoldersOwn, Owns, OneRunner
<1> QED
  BY <1>1, <1>2, <1>3, InvHolds, PTL DEF Spec

\* Choices follow a verdict, and a worker about to offer them is the only one
\* that holds the job, which has none yet.
ChoicesFollowVerdicts ==
  /\ \A j \in Jobs : choices[j] > 0 => status[j] \in Verdicts
  /\ \A w \in Workers : pc[w] = "choosing" => status[task[w]] \in Verdicts

HoldersDiffer ==
  \A v, w \in Workers :
    v # w /\ pc[v] \in Holding /\ pc[w] \in Holding => task[v] # task[w]

NoChoicesYet ==
  /\ \A j \in Jobs : choices[j] <= 1
  /\ \A w \in Workers : pc[w] \in Holding => choices[task[w]] = 0

ChoicesInv ==
  /\ ChoicesFollowVerdicts
  /\ overruns = 0 => HoldersDiffer /\ NoChoicesYet

LEMMA ChoicesStep ==
  ASSUME Inv, HoldersOwn, ChoicesInv, [Next]_vars
  PROVE  ChoicesInv'
<1> USE StateSets, JobsAreNonzero, AgentConstantsAssumption
    DEF Inv, TypeOK, HeldExists, AimedExists, HoldersOwn, Owns, Active, Verdicts,
        ChoicesInv, ChoicesFollowVerdicts, HoldersDiffer, NoChoicesYet
<1>1. CASE \E j \in Jobs : Enqueue(j) \/ JobAges(j)
  <2> SUFFICES ASSUME NEW j \in Jobs, Enqueue(j) \/ JobAges(j)
               PROVE  ChoicesInv'
    BY <1>1
  <2>1. CASE Enqueue(j)
    BY <2>1 DEF Enqueue
  <2>2. CASE JobAges(j)
    BY <2>2 DEF JobAges, InHand
  <2> QED
    BY <2>1, <2>2
<1>2. CASE (\E s \in Stops : Stop(s)) \/ ApiRestarts
  <2>1. CASE ApiRestarts
    BY <2>1 DEF ApiRestarts
  <2>2. CASE \E s \in Stops : Stop(s)
    <3> SUFFICES ASSUME NEW s \in Stops, Stop(s)
                 PROVE  ChoicesInv'
      BY <2>2
    <3>1. CASE \E j \in Jobs : StopCheck(s, j)
      BY <3>1 DEF StopCheck
    <3>2. CASE \E j \in Jobs : ChatStop(s, j)
      BY <3>2 DEF ChatStop, SetFlag
    <3>3. CASE ForceStop(s)
      BY <3>3 DEF ForceStop, Write
    <3>4. CASE GracefulStop(s)
      BY <3>4 DEF GracefulStop, SetFlag
    <3>5. CASE TimerReads(s)
      BY <3>5 DEF TimerReads
    <3>6. CASE TimerKills(s)
      BY <3>6 DEF TimerKills, Write
    <3> QED
      BY <3>1, <3>2, <3>3, <3>4, <3>5, <3>6 DEF Stop
  <2> QED
    BY <1>2, <2>1, <2>2
<1>3. CASE \E w \in Workers :
             \/ Proceed(w) \/ Fault(w) \/ RecoverStaleJobs(w)
             \/ WorkerDies(w) \/ ReplaceWorker(w) \/ ReplaceWithoutCleanup(w)
  <2> SUFFICES ASSUME NEW w \in Workers,
                      \/ Proceed(w) \/ Fault(w) \/ RecoverStaleJobs(w)
                      \/ WorkerDies(w) \/ ReplaceWorker(w) \/ ReplaceWithoutCleanup(w)
               PROVE  ChoicesInv'
    BY <1>3
  <2>1. CASE Claim(w)
    BY <2>1 DEF Claim, Goto, Claimable
  <2>2. CASE Refresh(w)
    BY <2>2 DEF Refresh, Goto
  <2>3. CASE Rest(w)
    BY <2>3 DEF Rest, Goto
  <2>4. CASE Wake(w)
    BY <2>4 DEF Wake, Goto
  <2>5. CASE Start(w)
    BY <2>5 DEF Start, Goto
  <2>6. CASE StartFails(w)
    BY <2>6 DEF StartFails, Goto
  <2>7. CASE BeginTurn(w)
    BY <2>7 DEF BeginTurn, Goto
  <2>8. CASE Plan(w)
    BY <2>8 DEF Plan, Goto
  <2>9. CASE PlanRefused(w)
    BY <2>9 DEF PlanRefused, Goto
  <2>10. CASE Execute(w)
    BY <2>10 DEF Execute, Goto
  <2>11. CASE Analyse(w)
    BY <2>11 DEF Analyse, Goto
  <2>12. CASE CompleteInvestigation(w)
    BY <2>12 DEF CompleteInvestigation, Goto
  <2>13. CASE OutOfTurns(w)
    BY <2>13 DEF OutOfTurns, Goto
  <2>14. CASE Summarise(w)
    BY <2>14 DEF Summarise, Goto
  <2>15. CASE CutOff(w)
    BY <2>15 DEF CutOff, Goto
  <2>16. CASE Judge(w)
    BY <2>16 DEF Judge, Goto, Drop, Write, Cleared
  <2>17. CASE OfferChoices(w)
    BY <2>17 DEF OfferChoices, Goto, Drop
  <2>18. CASE MarkFailed(w)
    BY <2>18 DEF MarkFailed, Goto, Drop, Write
  <2>19. CASE MarkCancelled(w)
    BY <2>19 DEF MarkCancelled, Goto, Drop, Write
  <2>20. CASE RefreshFails(w)
    BY <2>20 DEF RefreshFails, Goto, Drop, Spend
  <2>21. CASE CheckFails(w)
    BY <2>21 DEF CheckFails, Goto, Spend
  <2>22. CASE RollbackInTurn(w)
    BY <2>22 DEF RollbackInTurn, Spend
  <2>23. CASE RunRaises(w)
    BY <2>23 DEF RunRaises, Goto, Spend
  <2>24. CASE JudgeRaises(w)
    BY <2>24 DEF JudgeRaises, Goto, Drop, Spend
  <2>25. CASE ChoicesFail(w)
    BY <2>25 DEF ChoicesFail, Goto, Drop, Spend
  <2>26. CASE MarkRaises(w)
    BY <2>26 DEF MarkRaises, Goto, Drop, Spend
  <2>27. CASE RecoverStaleJobs(w)
    BY <2>27 DEF RecoverStaleJobs, Goto, ResetJobs, Stale
  <2>28. CASE WorkerDies(w)
    BY <2>28 DEF WorkerDies, Goto, Drop
  <2>29. CASE ReplaceWorker(w)
    BY <2>29 DEF ReplaceWorker, Goto, ResetJobs, OwnedBy
  <2>30. CASE ReplaceWithoutCleanup(w)
    BY <2>30 DEF ReplaceWithoutCleanup, Goto, ResetJobs, Spend
  <2> QED
    BY <2>1, <2>2, <2>3, <2>4, <2>5, <2>6, <2>7, <2>8, <2>9, <2>10,
       <2>11, <2>12, <2>13, <2>14, <2>15, <2>16, <2>17, <2>18, <2>19, <2>20,
       <2>21, <2>22, <2>23, <2>24, <2>25, <2>26, <2>27, <2>28, <2>29, <2>30
    DEF Proceed, Run, Fault
<1>4. CASE \E S \in SUBSET Jobs : RestartService(S)
  BY <1>4 DEF RestartService, ResetJobs, Stale
<1>5. CASE UNCHANGED vars
  BY <1>5 DEF vars
<1> QED
  BY <1>1, <1>2, <1>3, <1>4, <1>5 DEF Next

\* However often a job is run and judged, it offers one set of choices at most,
\* and only after its verdict.
THEOREM ChoicesAreOfferedOnce == Spec => []ChoicesOnce
<1>1. Init => HoldersOwn /\ ChoicesInv
  BY StateSets
  DEF Init, HoldersOwn, ChoicesInv, ChoicesFollowVerdicts, HoldersDiffer, NoChoicesYet
<1>2. Inv /\ HoldersOwn /\ ChoicesInv /\ [Next]_vars => HoldersOwn' /\ ChoicesInv'
  BY HoldersStep, ChoicesStep
<1>3. ChoicesInv => ChoicesOnce
  BY DEF ChoicesInv, ChoicesFollowVerdicts, NoChoicesYet, ChoicesOnce
<1> QED
  BY <1>1, <1>2, <1>3, InvHolds, PTL DEF Spec
=============================================================================
