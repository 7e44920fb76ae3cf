------------------------ MODULE EmbeddingPipelineProofs ------------------------
(***************************************************************************)
(* Theorems about EmbeddingPipeline, for every number of artifacts,        *)
(* parses, workers and jobs, every size of a batch, and every budget of    *)
(* faults, deaths, losses and overruns.                                    *)
(***************************************************************************)
EXTENDS EmbeddingPipeline, TLAPS, FiniteSetTheorems, SequenceTheorems

USE DEF parsers, inMemory, jobTable, workers, budgets

\* The states in which a worker has a job in its hands.
Holding(w) == pc[w] \in {"claimed", "embedding", "failing"}

HeldExists == \A w \in Workers : Holding(w) => task[w] \in Created

\* Jobs are created in their order.
CreatedFirst == \E n \in 0 .. MaxJobs : Created = 1 .. n

\* What a worker has not begun it has no part of.
OnlyWhileEmbedding ==
  \A w \in Workers :
    /\ pc[w] # "embedding" => todo[w] = {} /\ made[w] = 0 /\ owed[w] = 0
    /\ ~Concurrent => owed[w] = 0

Types == TypeOK /\ HeldExists /\ CreatedFirst /\ OnlyWhileEmbedding

LEMMA WorkersAreSomebody == Nobody \notin Workers /\ Gone \notin Workers
  BY WorkersAssumption

LEMMA StateSets ==
  /\ Active = {"pending", "running"} /\ Verdicts = {"completed", "failed"}
  /\ WorkerStates = {"idle", "claimed", "embedding", "failing", "resting", "dead"}
  /\ ParseStates = {"todo", "inserted", "queued", "done"}
  BY DEF Active, Verdicts, WorkerStates, ParseStates

LEMMA InitTypes == Init => Types
<1> SUFFICES ASSUME Init PROVE Types
  OBVIOUS
<1>1. TypeOK
  BY StateSets, ConstantsAssumption DEF Init, TypeOK
<1>2. Created = 1 .. 0
  BY DEF Init, Created
<1>3. HeldExists /\ OnlyWhileEmbedding
  BY DEF Init, HeldExists, OnlyWhileEmbedding, Holding
<1> QED
  BY <1>1, <1>2, <1>3, ConstantsAssumption DEF Types, CreatedFirst

-----------------------------------------------------------------------------
(* Sequences and sets.                                                     *)

LEMMA ItemsOfSequences ==
  ASSUME NEW s \in Seq(Events)
  PROVE  /\ Items(s) \subseteq Events
         /\ \A t \in Seq(Events) : s \o t \in Seq(Events) /\ Items(s \o t) = Items(s) \cup Items(t)
         /\ \A n \in 0 .. Len(s) :
              /\ SubSeq(s, 1, n) \in Seq(Events) /\ SubSeq(s, n + 1, Len(s)) \in Seq(Events)
              /\ Items(s) = Items(SubSeq(s, 1, n)) \cup Items(SubSeq(s, n + 1, Len(s)))
<1>1. Items(s) \subseteq Events
  BY DEF Items
<1>2. ASSUME NEW t \in Seq(Events) PROVE s \o t \in Seq(Events) /\ Items(s \o t) = Items(s) \cup Items(t)
  <2>1. s \o t \in Seq(Events) /\ Len(s \o t) = Len(s) + Len(t)
    OBVIOUS
  <2>2. \A k \in 1 .. (Len(s) + Len(t)) : (s \o t)[k] = IF k <= Len(s) THEN s[k] ELSE t[k - Len(s)]
    OBVIOUS
  <2>3. ASSUME NEW e \in Items(t) PROVE e \in Items(s \o t)
    <3>1. PICK k \in 1 .. Len(t) : e = t[k]
      BY DEF Items
    <3>2. (s \o t)[Len(s) + k] = e /\ Len(s) + k \in 1 .. Len(s \o t)
      BY <2>1, <2>2, <3>1
    <3> QED
      BY <2>1, <3>2 DEF Items
  <2>4. ASSUME NEW e \in Items(s) PROVE e \in Items(s \o t)
    BY <2>1, <2>2, <2>4 DEF Items
  <2>5. ASSUME NEW e \in Items(s \o t) PROVE e \in Items(s) \cup Items(t)
    BY <2>1, <2>2, <2>5 DEF Items
  <2> QED
    BY <2>1, <2>3, <2>4, <2>5
<1>3. ASSUME NEW n \in 0 .. Len(s)
      PROVE  /\ SubSeq(s, 1, n) \in Seq(Events) /\ SubSeq(s, n + 1, Len(s)) \in Seq(Events)
             /\ Items(s) = Items(SubSeq(s, 1, n)) \cup Items(SubSeq(s, n + 1, Len(s)))
  <2>1. /\ SubSeq(s, 1, n) \in Seq(Events) /\ SubSeq(s, n + 1, Len(s)) \in Seq(Events)
        /\ Len(SubSeq(s, 1, n)) = n /\ Len(SubSeq(s, n + 1, Len(s))) = Len(s) - n
        /\ \A k \in 1 .. n : SubSeq(s, 1, n)[k] = s[k]
        /\ \A k \in 1 .. (Len(s) - n) : SubSeq(s, n + 1, Len(s))[k] = s[n + k]
    <3>1. Len(s) \in Nat /\ \A k \in 1 .. Len(s) : s[k] \in Events
      OBVIOUS
    <3>2. /\ SubSeq(s, 1, n) \in Seq(Events) /\ Len(SubSeq(s, 1, n)) = n
          /\ \A k \in 1 .. n : SubSeq(s, 1, n)[k] = s[k]
      BY <3>1, SubSeqProperties
    <3>3. /\ SubSeq(s, n + 1, Len(s)) \in Seq(Events)
          /\ Len(SubSeq(s, n + 1, Len(s))) = IF n + 1 <= Len(s) THEN Len(s) - (n + 1) + 1 ELSE 0
          /\ \A k \in 1 .. Len(s) - (n + 1) + 1 : SubSeq(s, n + 1, Len(s))[k] = s[n + 1 + k - 1]
      BY <3>1, SubSeqProperties
    <3> QED
      BY <3>1, <3>2, <3>3
  <2> PICK p, q : p = SubSeq(s, 1, n) /\ q = SubSeq(s, n + 1, Len(s))
    OBVIOUS
  <2>2. /\ p \in Seq(Events) /\ q \in Seq(Events) /\ DOMAIN p = 1 .. n /\ DOMAIN q = 1 .. (Len(s) - n)
        /\ \A k \in 1 .. n : p[k] = s[k]
        /\ \A k \in 1 .. (Len(s) - n) : q[k] = s[n + k]
    BY <2>1
  <2>3. Items(p) = {s[k] : k \in 1 .. n}
    BY <2>2 DEF Items
  <2>4. Items(q) = {s[n + k] : k \in 1 .. (Len(s) - n)}
    BY <2>2 DEF Items
  <2>5. ASSUME NEW k \in 1 .. Len(s) PROVE s[k] \in Items(p) \cup Items(q)
    <3>1. CASE k <= n
      BY <2>3, <3>1
    <3>2. CASE ~(k <= n)
      <4>1. k - n \in 1 .. (Len(s) - n) /\ k = n + (k - n)
        BY <3>2
      <4> QED
        BY <2>4, <4>1
    <3> QED
      BY <3>1, <3>2
  <2>6. Items(s) = {s[k] : k \in 1 .. Len(s)}
    <3>1. DOMAIN s = 1 .. Len(s)
      OBVIOUS
    <3> QED
      BY <3>1 DEF Items
  <2>7. Items(p) \cup Items(q) = Items(s)
    BY <2>3, <2>4, <2>5, <2>6
  <2> QED
    BY <2>2, <2>7
<1> QED
  BY <1>1, <1>2, <1>3

\* What is put is in the queue, and nothing else comes in.
LEMMA PutAdds ==
  ASSUME queue \in Seq(Events), NEW S \in SUBSET Events, IsFiniteSet(S), Put(S)
  PROVE  queue' \in Seq(Events) /\ Items(queue') = Items(queue) \cup S
<1>1. PICK ids \in Bijection(1 .. Cardinality(S), S) : queue' = queue \o ids
  BY DEF Put
<1>2. ids \in [1 .. Cardinality(S) -> S] /\ \A e \in S : \E k \in 1 .. Cardinality(S) : ids[k] = e
  BY <1>1 DEF Bijection, Injection, Surjection
<1>3. ids \in Seq(Events) /\ DOMAIN ids = 1 .. Cardinality(S)
  BY <1>2, FS_CardinalityType
<1>4. Items(ids) = S
  BY <1>2, <1>3 DEF Items
<1> QED
  BY <1>1, <1>3, <1>4, ItemsOfSequences

LEMMA UnembeddedIsFinite ==
  ASSUME TypeOK, NEW a \in Artifacts, NEW S \in SUBSET Unembedded(a)
  PROVE  S \subseteq Events /\ IsFiniteSet(S) /\ \A e \in S : e[1] = a /\ e[2] \in 1 .. parses[a] /\ copies[e] = 0
<1>1. parses[a] \in 0 .. MaxParses
  BY DEF TypeOK
<1>2. IsFiniteSet({a} \X (1 .. parses[a]))
  <2>1. IsFiniteSet({a}) /\ IsFiniteSet(1 .. parses[a])
    <3>1. parses[a] \in Int
      BY <1>1, ConstantsAssumption
    <3>2. IsFiniteSet(1 .. parses[a])
      BY <3>1, FS_Interval
    <3>3. IsFiniteSet({a})
      BY FS_Singleton
    <3> QED
      BY <3>2, <3>3
  <2> QED
    BY <2>1, FS_Product
<1>3. S \subseteq {a} \X (1 .. parses[a])
  BY DEF Unembedded
<1> QED
  BY <1>1, <1>2, <1>3, FS_Subset, ConstantsAssumption DEF Events, Unembedded

\* The batch has finitely many groups, each in an event's name.
LEMMA GroupsAreFinite ==
  ASSUME TypeOK
  PROVE  IsFiniteSet(Groups) /\ Cardinality(Groups) \in Nat
<1> DEFINE f == [k \in 1 .. Len(batch) |-> InvOfEvent(batch[k])]
<1>1. batch \in Seq(Events) /\ Len(batch) \in Nat
  BY DEF TypeOK
<1>2. f \in [1 .. Len(batch) -> Groups]
  BY <1>1 DEF Groups, Items
<1>3. \A i \in Groups : \E k \in 1 .. Len(batch) : f[k] = i
  BY <1>1 DEF Groups, Items
<1>4. f \in Surjection(1 .. Len(batch), Groups)
  BY <1>2, <1>3 DEF Surjection
<1> QED
  BY <1>1, <1>4, FS_Interval, FS_Surjection, FS_CardinalityType

\* The new jobs are the next ones, one for each group.
LEMMA CreateJobsCreates ==
  ASSUME Types, CreateJobs
  PROVE  \E n \in Nat, m \in Nat : \E inv \in Bijection((n + 1) .. m, Groups) :
           /\ Created = 1 .. n /\ n <= m /\ m <= MaxJobs /\ (n + 1) .. m \subseteq Jobs
           /\ Created' = 1 .. m
           /\ status'    = [j \in Jobs |-> IF j \in (n + 1) .. m THEN "pending" ELSE status[j]]
           /\ jobEvents' = [j \in Jobs |-> IF j \in (n + 1) .. m THEN Group(inv[j]) ELSE jobEvents[j]]
<1>1. PICK n \in 0 .. MaxJobs : Created = 1 .. n
  BY DEF Types, CreatedFirst
<1>2. Cardinality(Created) = n /\ n \in Nat
  BY <1>1, FS_Interval, ConstantsAssumption
<1>3. PICK g \in Nat : g = Cardinality(Groups)
  BY GroupsAreFinite DEF Types
<1> DEFINE new == (n + 1) .. (n + g)
<1>4. PICK inv \in Bijection(new, Groups) :
        /\ new \subseteq Jobs
        /\ status'    = [j \in Jobs |-> IF j \in new THEN "pending" ELSE status[j]]
        /\ jobEvents' = [j \in Jobs |-> IF j \in new THEN Group(inv[j]) ELSE jobEvents[j]]
  BY <1>2, <1>3 DEF CreateJobs
<1>5. n + g <= MaxJobs
  BY <1>2, <1>3, <1>4, ConstantsAssumption DEF Jobs
<1>6. Created' = 1 .. (n + g)
  <2>1. Created' = Created \cup new
    BY <1>4 DEF Created
  <2> QED
    BY <1>1, <1>2, <2>1
<1> QED
  BY <1>1, <1>2, <1>3, <1>4, <1>5, <1>6

-----------------------------------------------------------------------------
(* Types.                                                                  *)

\* The parts of a step that goes wrong.
BudgetTypes ==
  /\ faults \in 0 .. MaxFaults /\ deaths \in 0 .. MaxDeaths /\ losses \in 0 .. MaxLosses
  /\ overruns \in 0 .. MaxOverruns

LEMMA BudgetsKeepTypes ==
  ASSUME TypeOK, Fail \/ Die \/ Lose \/ UNCHANGED budgets
  PROVE  BudgetTypes'
  BY SMTT(30), ConstantsAssumption DEF TypeOK, BudgetTypes, Fail, Die, Lose

\* A step of the parsers and the batcher creates jobs at most.
LEMMA SourcesKeepTypes ==
  ASSUME Types,
         \/ \E a \in Artifacts : Parse(a) \/ QueueingFails(a) \/ ParseRepeats(a)
         \/ Batcher \/ CreateFails \/ BatcherDies \/ RestartWorkerService
  PROVE  Types'
<1> USE StateSets, ConstantsAssumption
<1>1. ASSUME UNCHANGED <<jobTable, workers>>, TypeOK'
      PROVE  Types'
  BY <1>1 DEF Types, HeldExists, CreatedFirst, OnlyWhileEmbedding, Holding, Created
<1>2. ASSUME NEW a \in Artifacts, Parse(a) \/ QueueingFails(a) \/ ParseRepeats(a) PROVE Types'
  <2>1. CASE InsertEvents(a)
    BY SMTT(30), <1>1, <2>1 DEF InsertEvents, Types, TypeOK
  <2>2. CASE QueueEvents(a)
    <3>1. queue' \in Seq(Events)
      BY <2>2, PutAdds, UnembeddedIsFinite DEF QueueEvents, Types, TypeOK
    <3> QED
      BY <1>1, <2>2, <3>1 DEF QueueEvents, Types, TypeOK
  <2>3. CASE QueueingFails(a)
    <3>1. queue' \in Seq(Events)
      BY <2>3, PutAdds, UnembeddedIsFinite DEF QueueingFails, Types, TypeOK
    <3> QED
      <4>1. BudgetTypes'
        BY <2>3, BudgetsKeepTypes DEF QueueingFails, Types
      <4> QED
        BY <1>1, <2>3, <3>1, <4>1 DEF QueueingFails, BudgetTypes, Types, TypeOK
  <2>4. CASE ParseDone(a)
    BY <1>1, <2>4 DEF ParseDone, Types, TypeOK
  <2>5. CASE ParseRepeats(a)
    <3>1. queue' \in Seq(Events)
      BY <2>5, PutAdds, UnembeddedIsFinite DEF ParseRepeats, Types, TypeOK
    <3> QED
      BY <1>1, <2>5, <3>1 DEF ParseRepeats, Types, TypeOK
  <2> QED
    BY <1>2, <2>1, <2>2, <2>3, <2>4, <2>5 DEF Parse
<1>3. CASE TakeBatch
  <2>1. queue' \in Seq(Events) /\ batch' \in Seq(Events)
    BY <1>3, ItemsOfSequences DEF TakeBatch, Types, TypeOK
  <2> QED
    BY <1>1, <1>3, <2>1 DEF TakeBatch, Types, TypeOK
<1>4. CASE CreateJobs
  <2>1. PICK n \in Nat, m \in Nat : \E inv \in Bijection((n + 1) .. m, Groups) :
           /\ Created = 1 .. n /\ n <= m /\ m <= MaxJobs /\ (n + 1) .. m \subseteq Jobs
           /\ Created' = 1 .. m
           /\ status'    = [j \in Jobs |-> IF j \in (n + 1) .. m THEN "pending" ELSE status[j]]
           /\ jobEvents' = [j \in Jobs |-> IF j \in (n + 1) .. m THEN Group(inv[j]) ELSE jobEvents[j]]
    BY <1>4, CreateJobsCreates
  <2>2. \A i : Group(i) \subseteq Events
    BY DEF Group, Items, Types, TypeOK
  <2>3. status' \in [Jobs -> {"absent"} \union Active \union Verdicts] /\ jobEvents' \in [Jobs -> SUBSET Events]
    BY <2>1, <2>2 DEF Types, TypeOK
  <2>4. TypeOK'
    BY <1>4, <2>3 DEF CreateJobs, Types, TypeOK
  <2>5. HeldExists' /\ CreatedFirst' /\ OnlyWhileEmbedding'
    <3>1. Created \subseteq Created' /\ UNCHANGED workers
      BY <1>4, <2>1 DEF CreateJobs
    <3>2. HeldExists' /\ OnlyWhileEmbedding'
      BY <3>1 DEF Types, HeldExists, OnlyWhileEmbedding, Holding
    <3>3. CreatedFirst'
      BY <2>1 DEF CreatedFirst
    <3> QED
      BY <3>2, <3>3
  <2> QED
    BY <2>4, <2>5 DEF Types
<1>5. CASE CreateFails
  <2>1. BudgetTypes'
    BY <1>5, BudgetsKeepTypes DEF CreateFails, Types
  <2> QED
    BY SMTT(30), <1>1, <1>5, <2>1 DEF CreateFails, BudgetTypes, Types, TypeOK
<1>6. CASE BatcherDies
  <2>1. BudgetTypes'
    BY <1>6, BudgetsKeepTypes DEF BatcherDies, Types
  <2> QED
    <3>1. batch' \in Seq(Events) /\ batcher' \in {"up", "down"} /\ UNCHANGED <<parsers, queue, jobTable, copies, workers>>
      BY <1>6 DEF BatcherDies
    <3>2. TypeOK'
      BY <2>1, <3>1 DEF BudgetTypes, Types, TypeOK
    <3> QED
      BY <1>1, <3>1, <3>2
<1>7. CASE RestartWorkerService
  <2>1. parse' \in [Artifacts -> ParseStates]
    BY <1>7 DEF RestartWorkerService, Types, TypeOK
  <2>2. BudgetTypes'
    BY <1>7, BudgetsKeepTypes DEF RestartWorkerService, Types
  <2> QED
    BY SMTT(30), <1>1, <1>7, <2>1, <2>2 DEF RestartWorkerService, BudgetTypes, Types, TypeOK
<1> QED
  BY <1>2, <1>3, <1>4, <1>5, <1>6, <1>7 DEF Batcher

\* A reset keeps the types of the columns it writes, and creates no job.
LEMMA ResetTypes ==
  ASSUME TypeOK, NEW S, NEW replaced, ResetJobs(S, replaced), \A j \in S : j \in Jobs /\ status[j] = "running"
  PROVE  /\ status' \in [Jobs -> {"absent"} \union Active \union Verdicts]
         /\ owner' \in [Jobs -> Workers \union {Nobody, Gone}]
         /\ aged' \in [Jobs -> BOOLEAN]
         /\ Created' = Created
<1>1. aged' \in [Jobs -> BOOLEAN]
  BY Zenon DEF ResetJobs
<1> QED
  BY <1>1, StateSets DEF ResetJobs, TypeOK, Created

\* What a worker does on its own account writes a status of a job that exists.
LEMMA WorkersKeepCreated ==
  ASSUME Types, NEW w \in Workers, Proceed(w) \/ Fault(w)
  PROVE  /\ BudgetTypes'
         /\ \/ UNCHANGED status
            \/ \E j \in Created, v \in {"running", "completed", "failed"} : status' = [status EXCEPT ![j] = v]
<1>1. BudgetTypes'
  BY BudgetsKeepTypes DEF Types, Proceed, Fault, Claim, Rest, Wake, SelectEvents, NothingToEmbed, EmbedBatch, ReportProgress,
     Finish, MarkFailed, LoseClaim, SkipJob, BatchFails, ReportFails, JobRaises, MarkFailedRaises
<1>2. CASE Claim(w) \/ LoseClaim(w)
  BY <1>1, <1>2 DEF Claim, LoseClaim, Assign, Claimable, Created
<1>3. CASE NothingToEmbed(w) \/ SkipJob(w) \/ Finish(w) \/ MarkFailed(w)
  BY <1>1, <1>3 DEF NothingToEmbed, SkipJob, CompleteEmpty, Finish, MarkFailed, Judge, Types, HeldExists, Holding
<1>4. CASE \/ Rest(w) \/ Wake(w) \/ SelectEvents(w) \/ (\E e \in Events : EmbedBatch(w, e) \/ BatchFails(w, e))
           \/ ReportProgress(w) \/ ReportFails(w) \/ JobRaises(w) \/ MarkFailedRaises(w)
  BY <1>1, <1>4 DEF Rest, Wake, SelectEvents, EmbedBatch, BatchFails, ReportProgress, ReportFails, JobRaises, MarkFailedRaises
<1> QED
  BY <1>2, <1>3, <1>4 DEF Proceed, Fault

LEMMA WorkersKeepTypes ==
  ASSUME Types, NEW w \in Workers, Proceed(w) \/ Fault(w)
  PROVE  Types'
<1>1. BudgetTypes' /\ Created' = Created
  BY WorkersKeepCreated DEF Created, Types, TypeOK
<1>2. CreatedFirst'
  BY <1>1 DEF Types, CreatedFirst
<1>3. TypeOK' /\ HeldExists' /\ OnlyWhileEmbedding'
  <2> USE StateSets, ConstantsAssumption, <1>1 DEF Types, TypeOK, BudgetTypes, HeldExists, OnlyWhileEmbedding, Holding
  <2>1. CASE Claim(w)
    BY <2>1 DEF Claim, Assign, Claimable, Goto, Created
  <2>2. CASE Rest(w)
    BY <2>2 DEF Rest, Goto
  <2>3. CASE Wake(w)
    BY <2>3 DEF Wake, NextRound, Drop, Goto
  <2>4. CASE SelectEvents(w)
    <3>1. task[w] \in Jobs
      BY <2>4 DEF SelectEvents, Created
    <3>2. Wanted(task[w]) \subseteq Events
      BY <3>1 DEF Wanted
    <3> QED
      BY <2>4, <3>2 DEF SelectEvents, Goto
  <2>5. CASE NothingToEmbed(w)
    BY <2>5 DEF NothingToEmbed, CompleteEmpty, Judge, NextRound, Drop, Goto
  <2>6. ASSUME NEW e \in Events, EmbedBatch(w, e) PROVE TypeOK' /\ HeldExists' /\ OnlyWhileEmbedding'
    <3>1. /\ copies' \in [Events -> Nat] /\ made' \in [Workers -> Nat] /\ todo' \in [Workers -> SUBSET Events]
          /\ owed' \in [Workers -> Nat] /\ \A v \in Workers : v # w => todo'[v] = todo[v] /\ made'[v] = made[v] /\ owed'[v] = owed[v]
          /\ ~Concurrent => owed' = owed
      BY <2>6 DEF EmbedBatch
    <3>2. UNCHANGED <<parsers, inMemory, jobTable, pc, task, seen, budgets>> /\ pc[w] = "embedding"
      BY <2>6 DEF EmbedBatch
    <3> QED
      BY <3>1, <3>2
  <2>7. CASE ReportProgress(w)
    <3>1. pc[w] = "embedding" /\ Concurrent
      BY <2>7 DEF ReportProgress
    <3>2. task[w] \in Jobs
      BY <3>1 DEF Created
    <3> QED
      BY <2>7, <3>1, <3>2 DEF ReportProgress
  <2>8. CASE Finish(w)
    BY <2>8 DEF Finish, FinalCount, Judge, NextRound, Drop, Goto
  <2>9. CASE MarkFailed(w)
    BY <2>9 DEF MarkFailed, Judge, NextRound, Drop, Goto
  <2>10. CASE LoseClaim(w)
    BY <2>10 DEF LoseClaim, Assign, Claimable, Created
  <2>11. CASE SkipJob(w)
    BY <2>11 DEF SkipJob, CompleteEmpty, Judge, NextRound, Drop, Goto
  <2>12. ASSUME NEW e \in Events, BatchFails(w, e) PROVE TypeOK' /\ HeldExists' /\ OnlyWhileEmbedding'
    BY <2>12 DEF BatchFails
  <2>13. CASE ReportFails(w)
    BY SMTT(30), <2>13 DEF ReportFails
  <2>14. CASE JobRaises(w)
    BY <2>14 DEF JobRaises, AllBatchesEnded, Goto
  <2>15. CASE MarkFailedRaises(w)
    BY <2>15 DEF MarkFailedRaises, NextRound, Drop, Goto
  <2> QED
    BY <2>1, <2>2, <2>3, <2>4, <2>5, <2>6, <2>7, <2>8, <2>9, <2>10, <2>11, <2>12, <2>13, <2>14, <2>15 DEF Proceed, Fault
<1> QED
  BY <1>2, <1>3 DEF Types

\* The monitor, the checks for stale jobs, deaths, and time.
Upkeep ==
  \/ \E w \in Workers : RecoverStaleJobs(w) \/ WorkerDies(w) \/ ReplaceWorker(w) \/ ReplaceWithoutCleanup(w)
  \/ RecoverByWorkerService \/ (\E S \in SUBSET Jobs : RestartEmbeddingService(S)) \/ \E j \in Jobs : JobAges(j)

\* It resets running jobs at most.
LEMMA UpkeepResets ==
  ASSUME Types, Upkeep
  PROVE  /\ UNCHANGED <<parsers, inMemory, jobEvents, processed, copies>>
         /\ \/ UNCHANGED <<status, owner>>
            \/ \E S \in SUBSET Jobs, replaced \in SUBSET Workers :
                 ResetJobs(S, replaced) /\ \A j \in S : status[j] = "running"
<1> DEFINE Resets == \E S \in SUBSET Jobs, replaced \in SUBSET Workers :
                       ResetJobs(S, replaced) /\ \A j \in S : status[j] = "running"
<1>1. ASSUME NEW w \in Workers, RecoverStaleJobs(w) \/ ReplaceWorker(w) PROVE Resets
  <2>1. Stale \subseteq Jobs /\ OwnedBy(w) \subseteq Jobs /\ \A j \in Stale \cup OwnedBy(w) : status[j] = "running"
    BY DEF Stale, OwnedBy
  <2> QED
    BY <1>1, <2>1 DEF RecoverStaleJobs, ReplaceWorker
<1>2. ASSUME NEW w \in Workers, ReplaceWithoutCleanup(w) PROVE Resets
  <2>1. ResetJobs({}, {w}) /\ {} \in SUBSET Jobs /\ {w} \in SUBSET Workers
    BY <1>2 DEF ReplaceWithoutCleanup
  <2> QED
    BY <2>1
<1>3. ASSUME RecoverByWorkerService PROVE Resets
  <2>1. ResetJobs(Stale, {}) /\ Stale \in SUBSET Jobs /\ \A j \in Stale : status[j] = "running"
    BY <1>3 DEF RecoverByWorkerService, Stale
  <2> QED
    BY <2>1
<1>4. ASSUME NEW S \in SUBSET Jobs, RestartEmbeddingService(S) PROVE Resets
  <2>1. ResetJobs(S, Workers) /\ Workers \in SUBSET Workers /\ \A j \in S : status[j] = "running"
    BY <1>4 DEF RestartEmbeddingService, OwnedBy
  <2> QED
    BY <2>1
<1>5. UNCHANGED <<parsers, inMemory, jobEvents, processed, copies>>
  BY DEF Upkeep, RecoverStaleJobs, WorkerDies, ReplaceWorker, ReplaceWithoutCleanup, RecoverByWorkerService,
         RestartEmbeddingService, JobAges, ResetJobs
<1>6. ASSUME (\E w \in Workers : WorkerDies(w)) \/ \E j \in Jobs : JobAges(j) PROVE UNCHANGED <<status, owner>>
  BY <1>6 DEF WorkerDies, JobAges
<1> QED
  BY <1>1, <1>2, <1>3, <1>4, <1>5, <1>6 DEF Upkeep

\* A worker is where it was, or has nothing.
UpkeepMoves ==
  /\ pc' \in [Workers -> WorkerStates] /\ task' \in [Workers -> Jobs \union {0}] /\ seen' \in [Workers -> Nat]
  /\ todo' \in [Workers -> SUBSET Events] /\ made' \in [Workers -> Nat] /\ owed' \in [Workers -> Nat]
  /\ \A w \in Workers :
       \/ pc'[w] = pc[w] /\ task'[w] = task[w] /\ todo'[w] = todo[w] /\ made'[w] = made[w] /\ owed'[w] = owed[w]
       \/ pc'[w] \in {"idle", "dead"} /\ todo'[w] = {} /\ made'[w] = 0 /\ owed'[w] = 0

LEMMA UpkeepMovesOrDrops ==
  ASSUME Types, Upkeep
  PROVE  UpkeepMoves
<1> USE StateSets DEF UpkeepMoves, Types, TypeOK, NextRound, Drop, Goto
<1>1. ASSUME NEW w \in Workers, RecoverStaleJobs(w) \/ WorkerDies(w) \/ ReplaceWorker(w) \/ ReplaceWithoutCleanup(w) PROVE UpkeepMoves
  <2>1. Drop(w) /\ (Goto(w, "idle") \/ Goto(w, "dead"))
    BY <1>1 DEF RecoverStaleJobs, WorkerDies, ReplaceWorker, ReplaceWithoutCleanup
  <2> QED
    BY <2>1
<1>2. CASE RecoverByWorkerService \/ \E j \in Jobs : JobAges(j)
  BY <1>2 DEF RecoverByWorkerService, JobAges
<1>3. CASE \E S \in SUBSET Jobs : RestartEmbeddingService(S)
  BY <1>3 DEF RestartEmbeddingService
<1> QED
  BY <1>1, <1>2, <1>3 DEF Upkeep

LEMMA UpkeepKeepsTypes ==
  ASSUME Types, Upkeep
  PROVE  Types'
<1>1. /\ status' \in [Jobs -> {"absent"} \union Active \union Verdicts]
      /\ owner' \in [Jobs -> Workers \union {Nobody, Gone}]
      /\ Created' = Created
  <2>1. CASE UNCHANGED <<status, owner>>
    BY <2>1 DEF Types, TypeOK, Created
  <2>2. CASE \E S \in SUBSET Jobs, replaced \in SUBSET Workers :
               ResetJobs(S, replaced) /\ \A j \in S : status[j] = "running"
    BY <2>2, ResetTypes DEF Types
  <2> QED
    BY <2>1, <2>2, UpkeepResets
<1>2. aged' \in [Jobs -> BOOLEAN]
  <2>1. ASSUME NEW S, NEW replaced, ResetJobs(S, replaced) PROVE aged' \in [Jobs -> BOOLEAN]
    BY <2>1, Zenon DEF ResetJobs
  <2>2. CASE \E j \in Jobs : JobAges(j)
    BY <2>2 DEF JobAges, Types, TypeOK
  <2>3. CASE \E w \in Workers : WorkerDies(w)
    BY <2>3 DEF WorkerDies, Types, TypeOK
  <2> QED
    BY <2>1, <2>2, <2>3 DEF Upkeep, RecoverStaleJobs, ReplaceWorker, ReplaceWithoutCleanup, RecoverByWorkerService,
                            RestartEmbeddingService
<1>3. BudgetTypes'
  <2>1. CASE \E j \in Jobs : JobAges(j)
    BY <2>1, ConstantsAssumption DEF JobAges, BudgetTypes, Types, TypeOK
  <2>2. CASE ~\E j \in Jobs : JobAges(j)
    BY <2>2, BudgetsKeepTypes DEF Upkeep, Types, RecoverStaleJobs, WorkerDies, ReplaceWorker, ReplaceWithoutCleanup,
                              RecoverByWorkerService, RestartEmbeddingService
  <2> QED
    BY <2>1, <2>2
<1>4. UpkeepMoves
  BY UpkeepMovesOrDrops
<1>5. TypeOK'
  BY <1>1, <1>2, <1>3, <1>4, UpkeepResets DEF UpkeepMoves, BudgetTypes, Types, TypeOK
<1>6. HeldExists' /\ OnlyWhileEmbedding' /\ CreatedFirst'
  BY <1>1, <1>4 DEF UpkeepMoves, Types, HeldExists, OnlyWhileEmbedding, CreatedFirst, Holding
<1> QED
  BY <1>5, <1>6 DEF Types

LEMMA NextCases ==
  ASSUME Next
  PROVE  \/ \E a \in Artifacts : Parse(a) \/ QueueingFails(a) \/ ParseRepeats(a)
         \/ Batcher \/ CreateFails \/ BatcherDies \/ RestartWorkerService
         \/ \E w \in Workers : Proceed(w) \/ Fault(w)
         \/ Upkeep
  BY DEF Next, Upkeep

LEMMA NextKeepsTypes == Types /\ [Next]_vars => Types'
<1> SUFFICES ASSUME Types, [Next]_vars PROVE Types'
  OBVIOUS
<1>1. CASE UNCHANGED vars
  BY <1>1 DEF vars, Types, TypeOK, HeldExists, CreatedFirst, OnlyWhileEmbedding, Holding, Created
<1>2. CASE Next
  BY <1>2, NextCases, SourcesKeepTypes, WorkersKeepTypes, UpkeepKeepsTypes
<1> QED
  BY <1>1, <1>2

LEMMA TypesHold == Spec => []Types
  BY InitTypes, NextKeepsTypes, PTL DEF Spec

\* Every state of the pipeline is well typed; the queue and the batch hold events, jobs
\* are rows that exist as soon as a worker names them.
THEOREM TypeCorrect == Spec => []TypeOK
<1>1. Types => TypeOK
  BY DEF Types
<1> QED
  BY <1>1, TypesHold, PTL

-----------------------------------------------------------------------------
(* The job table.                                                          *)

\* However often an embedding job is claimed, lost, reset and run again: it is created
\* once, and once it has a verdict nobody runs it again.
THEOREM ImplementsJobTable == Spec => JobTableSafe
<1>1. Init => JT!Init
  BY DEF Init, JT!Init
<1>2. Types /\ [Next]_vars => [JT!Next]_status
  <2> SUFFICES ASSUME Types, Next, status' # status PROVE JT!Next
    BY DEF vars
  <2>1. CASE Batcher \/ CreateFails \/ BatcherDies \/ RestartWorkerService
             \/ \E a \in Artifacts : Parse(a) \/ QueueingFails(a) \/ ParseRepeats(a)
    <3>1. CreateJobs
      BY <2>1 DEF Batcher, TakeBatch, CreateFails, BatcherDies, RestartWorkerService, Parse, InsertEvents, QueueEvents, ParseDone,
                  QueueingFails, ParseRepeats
    <3>2. PICK n \in Nat, m \in Nat :
             /\ Created = 1 .. n /\ (n + 1) .. m \subseteq Jobs
             /\ status' = [j \in Jobs |-> IF j \in (n + 1) .. m THEN "pending" ELSE status[j]]
      BY <3>1, CreateJobsCreates
    <3>3. \A j \in (n + 1) .. m : status[j] = "absent"
      BY <3>2 DEF Created
    <3>4. JT!Create((n + 1) .. m)
      BY <3>2, <3>3 DEF JT!Create
    <3> QED
      BY <3>2, <3>4 DEF JT!Next
  <2>2. CASE \E w \in Workers : Proceed(w) \/ Fault(w)
    <3>1. PICK w \in Workers : Proceed(w) \/ Fault(w)
      BY <2>2
    <3>2. CASE Claim(w) \/ LoseClaim(w)
      BY <3>2 DEF Claim, LoseClaim, Assign, Claimable, JT!Next, JT!Assign
    <3>3. CASE NothingToEmbed(w) \/ SkipJob(w) \/ Finish(w) \/ MarkFailed(w)
      <4>1. \E v \in JT!Verdicts : status' = [status EXCEPT ![task[w]] = v]
        BY <3>3 DEF NothingToEmbed, SkipJob, CompleteEmpty, Finish, MarkFailed, Judge, JT!Verdicts
      <4>2. task[w] \in Jobs /\ status[task[w]] # "absent"
        BY <3>3 DEF NothingToEmbed, SkipJob, Finish, MarkFailed, Types, HeldExists, Holding, Created
      <4> QED
        BY <4>1, <4>2 DEF JT!Next, JT!Report
    <3>4. CASE \/ Rest(w) \/ Wake(w) \/ SelectEvents(w) \/ (\E e \in Events : EmbedBatch(w, e) \/ BatchFails(w, e))
               \/ ReportProgress(w) \/ ReportFails(w) \/ JobRaises(w) \/ MarkFailedRaises(w)
      BY <3>4 DEF Rest, Wake, SelectEvents, EmbedBatch, BatchFails, ReportProgress, ReportFails, JobRaises, MarkFailedRaises
    <3> QED
      BY <3>1, <3>2, <3>3, <3>4 DEF Proceed, Fault
  <2>3. CASE Upkeep
    <3>1. PICK S \in SUBSET Jobs, replaced \in SUBSET Workers :
            ResetJobs(S, replaced) /\ \A j \in S : status[j] = "running"
      BY <2>3, UpkeepResets
    <3> QED
      BY <3>1 DEF ResetJobs, JT!Next, JT!TakeBack
  <2> QED
    BY <2>1, <2>2, <2>3, NextCases
<1> QED
  BY <1>1, <1>2, TypesHold, PTL DEF Spec, JobTableSafe, JT!Safe

-----------------------------------------------------------------------------
(* What every step leaves of the events of a job.                          *)

LEMMA Counts ==
  ASSUME TypeOK
  PROVE  /\ \A e \in Events : copies[e] \in Nat
         /\ \A a \in Artifacts : parses[a] \in Nat
         /\ queue \in Seq(Events) /\ batch \in Seq(Events)
         /\ faults \in Nat /\ losses \in Nat /\ overruns \in Nat
<1>1. \A a \in Artifacts : parses[a] \in 0 .. MaxParses
  BY DEF TypeOK
<1>2. \A e \in Events : copies[e] \in Nat
  BY DEF TypeOK
<1> QED
  BY <1>1, <1>2, ConstantsAssumption DEF TypeOK

\* The events of a job that exists are never written again, no embedding is taken back, and
\* what is over budget stays so.
Lasting ==
  /\ \A j \in Created : j \in Created' /\ jobEvents'[j] = jobEvents[j]
  /\ \A e \in Events : copies[e] \in Nat /\ copies'[e] \in Nat /\ copies'[e] >= copies[e]
  /\ \A a \in Artifacts : parses'[a] >= parses[a]
  /\ faults' >= faults /\ losses' >= losses /\ overruns' >= overruns

LEMMA StepsLast == Types /\ [Next]_vars => Lasting
<1> SUFFICES ASSUME Types, [Next]_vars PROVE Lasting
  OBVIOUS
<1> USE ConstantsAssumption
<1>1. UNCHANGED copies \/ \E w \in Workers, e \in Events : EmbedBatch(w, e)
  BY DEF vars, Next, Parse, Batcher, Proceed, Fault, InsertEvents, QueueEvents, QueueingFails, ParseDone, ParseRepeats,
         TakeBatch, CreateJobs, CreateFails, BatcherDies, RestartWorkerService, Claim, LoseClaim, Rest, Wake, SelectEvents,
         NothingToEmbed, SkipJob, CompleteEmpty, BatchFails, ReportProgress, ReportFails, Finish, JobRaises, MarkFailed,
         MarkFailedRaises, RecoverStaleJobs, RecoverByWorkerService, WorkerDies, ReplaceWorker, ReplaceWithoutCleanup,
         RestartEmbeddingService, JobAges
<1>2. \A e \in Events : copies[e] \in Nat /\ copies'[e] \in Nat /\ copies'[e] >= copies[e]
  <2>1. CASE UNCHANGED copies
    BY <2>1, Counts DEF Types
  <2>2. ASSUME NEW w \in Workers, NEW f \in Events, EmbedBatch(w, f) PROVE \A e \in Events : copies[e] \in Nat /\ copies'[e] \in Nat /\ copies'[e] >= copies[e]
    <3>1. copies \in [Events -> Nat] /\ copies' = [copies EXCEPT ![f] = @ + 1]
      BY <2>2 DEF EmbedBatch, Types, TypeOK
    <3> QED
      BY <3>1
  <2> QED
    BY <1>1, <2>1, <2>2, Zenon
<1>3. UNCHANGED parses \/ \E a \in Artifacts : InsertEvents(a)
  BY SMTT(30), ZenonT(40) DEF vars, Next, Parse, Batcher, Proceed, Fault, QueueEvents, QueueingFails, ParseDone, ParseRepeats,
         TakeBatch, CreateJobs, CreateFails, BatcherDies, RestartWorkerService, Claim, LoseClaim, Rest, Wake, SelectEvents,
         NothingToEmbed, SkipJob, CompleteEmpty, EmbedBatch, BatchFails, ReportProgress, ReportFails, Finish, JobRaises,
         MarkFailed, MarkFailedRaises, RecoverStaleJobs, RecoverByWorkerService, WorkerDies, ReplaceWorker,
         ReplaceWithoutCleanup, RestartEmbeddingService, JobAges
<1>4. \A a \in Artifacts : parses'[a] >= parses[a]
  <2>1. CASE UNCHANGED parses
    BY <2>1, Counts DEF Types
  <2>2. ASSUME NEW b \in Artifacts, InsertEvents(b) PROVE \A a \in Artifacts : parses'[a] >= parses[a]
    <3>1. parses \in [Artifacts -> 0 .. MaxParses] /\ parses' = [parses EXCEPT ![b] = @ + 1]
      BY <2>2 DEF InsertEvents, Types, TypeOK
    <3> QED
      BY <3>1
  <2> QED
    BY <1>3, <2>1, <2>2, Zenon
<1>5. UNCHANGED budgets \/ Fail \/ Die \/ Lose \/ \E j \in Jobs : JobAges(j)
  <2>1. ASSUME NEW a \in Artifacts, Parse(a) \/ QueueingFails(a) \/ ParseRepeats(a) PROVE UNCHANGED budgets \/ Fail
    BY <2>1 DEF Parse, InsertEvents, QueueEvents, QueueingFails, ParseDone, ParseRepeats
  <2>2. CASE Batcher \/ CreateFails \/ BatcherDies \/ RestartWorkerService
    BY <2>2 DEF Batcher, TakeBatch, CreateJobs, CreateFails, BatcherDies, RestartWorkerService
  <2>3. ASSUME NEW w \in Workers, Proceed(w) PROVE UNCHANGED budgets
    BY <2>3 DEF Proceed, Claim, Rest, Wake, SelectEvents, NothingToEmbed, EmbedBatch, ReportProgress, Finish, MarkFailed
  <2>4. ASSUME NEW w \in Workers, Fault(w) PROVE UNCHANGED budgets \/ Fail
    BY <2>4 DEF Fault, LoseClaim, SkipJob, BatchFails, ReportFails, JobRaises, MarkFailedRaises
  <2>5. CASE Upkeep
    BY <2>5 DEF Upkeep, RecoverStaleJobs, WorkerDies, ReplaceWorker, ReplaceWithoutCleanup, RecoverByWorkerService,
                RestartEmbeddingService
  <2>6. CASE UNCHANGED vars
    BY <2>6 DEF vars
  <2> QED
    BY <2>1, <2>2, <2>3, <2>4, <2>5, <2>6, NextCases, Zenon
<1>6. faults' >= faults /\ losses' >= losses /\ overruns' >= overruns
  BY <1>5 DEF Fail, Die, Lose, JobAges, Types, TypeOK
<1>7. UNCHANGED jobEvents \/ CreateJobs
  BY DEF vars, Next, Parse, Batcher, Proceed, Fault, InsertEvents, QueueEvents, QueueingFails, ParseDone, ParseRepeats,
         TakeBatch, CreateFails, BatcherDies, RestartWorkerService, Claim, LoseClaim, Assign, Rest, Wake, SelectEvents,
         NothingToEmbed, SkipJob, CompleteEmpty, EmbedBatch, BatchFails, ReportProgress, ReportFails, Finish, JobRaises,
         MarkFailed, MarkFailedRaises, RecoverStaleJobs, RecoverByWorkerService, WorkerDies, ReplaceWorker,
         ReplaceWithoutCleanup, RestartEmbeddingService, ResetJobs, JobAges
<1>8. \A j \in Created : jobEvents'[j] = jobEvents[j]
  <2>1. CASE CreateJobs
    <3>1. PICK n \in Nat, m \in Nat : \E inv \in Bijection((n + 1) .. m, Groups) :
             /\ Created = 1 .. n
             /\ jobEvents' = [j \in Jobs |-> IF j \in (n + 1) .. m THEN Group(inv[j]) ELSE jobEvents[j]]
      BY <2>1, CreateJobsCreates
    <3>2. \A j \in Created : j \in Jobs /\ j \notin (n + 1) .. m
      BY <3>1 DEF Created
    <3> QED
      BY <3>1, <3>2
  <2> QED
    BY <1>7, <2>1
<1>9. \A j \in Created : j \in Created'
  <2>1. CASE UNCHANGED vars
    BY <2>1 DEF vars, Created
  <2>2. CASE CreateJobs
    BY <2>2, CreateJobsCreates
  <2>3. CASE \E w \in Workers : Proceed(w) \/ Fault(w)
    BY <2>3, WorkersKeepCreated DEF Created, Types, TypeOK
  <2>4. CASE Upkeep
    BY <2>4, UpkeepResets, ResetTypes DEF Types, Created
  <2>5. CASE (\E a \in Artifacts : Parse(a) \/ QueueingFails(a) \/ ParseRepeats(a)) \/ TakeBatch \/ CreateFails \/ BatcherDies
             \/ RestartWorkerService
    BY <2>5 DEF Parse, InsertEvents, QueueEvents, QueueingFails, ParseDone, ParseRepeats, TakeBatch, CreateFails,
                BatcherDies, RestartWorkerService, Created
  <2> QED
    BY <2>1, <2>2, <2>3, <2>4, <2>5, NextCases DEF Batcher
<1> QED
  BY <1>2, <1>4, <1>6, <1>8, <1>9 DEF Lasting

-----------------------------------------------------------------------------
(* No event is forgotten.                                                  *)

\* What the worker still has to embed is all that its job lacks, and nothing has gone wrong
\* in its hands.
NothingDropped ==
  \A w \in Workers :
    /\ pc[w] = "embedding" => \A e \in jobEvents[task[w]] : copies[e] > 0 \/ e \in todo[w]
    /\ pc[w] # "failing"

Remembered ==
  faults = 0 /\ losses = 0 =>
    /\ NothingDropped
    /\ \A e \in Events :
         Inserted(e) /\ parse[e[1]] \in {"queued", "done"} => copies[e] > 0 \/ Waiting(e) \/ InOpenJob(e)

LEMMA EventsAreOfArtifacts == \A e \in Events : e[1] \in Artifacts /\ e[2] \in 1 .. MaxParses /\ e = <<e[1], e[2]>>
  BY DEF Events

\* What the parsers and the batcher do moves the events on.
LEMMA SourcesRemember ==
  ASSUME Types, Types', Lasting, Remembered,
         \/ \E a \in Artifacts : Parse(a) \/ QueueingFails(a) \/ ParseRepeats(a)
         \/ Batcher \/ CreateFails \/ BatcherDies \/ RestartWorkerService
  PROVE  Remembered'
<1> SUFFICES ASSUME faults' = 0, losses' = 0 PROVE Remembered'
  BY DEF Remembered
<1> USE ConstantsAssumption, EventsAreOfArtifacts
<1>1. faults = 0 /\ losses = 0 /\ Remembered
  BY SMTT(30) DEF Lasting, Types, TypeOK
<1>2. ~Fail /\ ~Lose
  BY <1>1 DEF Fail, Lose
<1>3. UNCHANGED workers
  BY DEF Parse, Batcher, InsertEvents, QueueEvents, QueueingFails, ParseDone, ParseRepeats, TakeBatch, CreateJobs, CreateFails,
         BatcherDies, RestartWorkerService
<1>6. \A e \in Events : copies[e] \in Nat /\ (copies[e] > 0 => copies'[e] > 0)
  <2>1. \A e \in Events : copies[e] \in Nat /\ copies'[e] \in Nat /\ copies'[e] >= copies[e]
    BY DEF Lasting
  <2> QED
    BY <2>1
<1>4. NothingDropped'
  <2>1. \A w \in Workers : Holding(w) => task[w] \in Created
    BY DEF Types, HeldExists
  <2>2. ASSUME NEW w \in Workers, pc'[w] = "embedding", NEW e \in jobEvents'[task'[w]] PROVE copies'[e] > 0 \/ e \in todo'[w]
    <3>1. pc[w] = "embedding" /\ task[w] \in Created /\ task'[w] = task[w]
      BY <1>3, <2>1, <2>2 DEF Holding
    <3>2. jobEvents'[task[w]] = jobEvents[task[w]] /\ e \in Events
      BY <2>2, <3>1 DEF Lasting, Types, TypeOK, Created
    <3>3. copies[e] > 0 \/ e \in todo[w]
      BY <1>1, <2>2, <3>1, <3>2 DEF Remembered, NothingDropped
    <3> QED
      BY <1>3, <1>6, <3>2, <3>3
  <2> QED
    BY <1>1, <1>3, <2>2 DEF Remembered, NothingDropped
<1>5. ASSUME NEW e \in Events, Inserted(e)', parse'[e[1]] \in {"queued", "done"}
      PROVE  (copies[e] > 0 \/ Waiting(e) \/ InOpenJob(e))'
  <2> DEFINE Was == Inserted(e) /\ parse[e[1]] \in {"queued", "done"}
  <2>1. Was => copies[e] > 0 \/ Waiting(e) \/ InOpenJob(e)
    BY <1>1 DEF Remembered
  <2>2. copies[e] > 0 => copies'[e] > 0
    BY <1>6
  <2>3. ASSUME NEW a \in Artifacts, Parse(a) \/ ParseRepeats(a) PROVE (copies[e] > 0 \/ Waiting(e) \/ InOpenJob(e))'
    <3>1. UNCHANGED <<batch, jobTable, copies>>
      BY <2>3 DEF Parse, InsertEvents, QueueEvents, ParseDone, ParseRepeats
    <3>2. InOpenJob(e) => InOpenJob(e)'
      BY <3>1 DEF InOpenJob
    <3>3. CASE InsertEvents(a)
      <4>1. a # e[1]
        BY <1>5, <3>3 DEF InsertEvents, Types, TypeOK
      <4>2. Was /\ UNCHANGED queue
        BY <1>5, <3>3, <4>1 DEF InsertEvents, Inserted, Types, TypeOK
      <4> QED
        BY <2>1, <3>1, <3>2, <4>2 DEF Waiting
    <3>4. CASE QueueEvents(a)
      <4>1. queue \in Seq(Events) /\ Items(queue') = Items(queue) \cup Unembedded(a)
        BY <3>4, PutAdds, UnembeddedIsFinite DEF QueueEvents, Types, TypeOK
      <4>2. CASE a = e[1]
        <5>1. e[2] \in 1 .. parses[a]
          BY <1>5, <3>4, <4>2 DEF QueueEvents, Inserted, Types, TypeOK
        <5>2. e \in {a} \X (1 .. parses[a])
          BY <4>2, <5>1
        <5>3. copies[e] = 0 \/ copies[e] > 0
          BY <1>6
        <5> QED
          BY <2>2, <4>1, <5>2, <5>3 DEF Unembedded, Waiting
      <4>3. CASE a # e[1]
        <5>1. Was
          BY <1>5, <3>4, <4>3 DEF QueueEvents, Inserted, Types, TypeOK
        <5> QED
          BY <2>1, <3>1, <3>2, <4>1, <5>1 DEF Waiting
      <4> QED
        BY <4>2, <4>3
    <3>5. CASE ParseDone(a)
      <4>1. Was /\ UNCHANGED queue
        BY <1>5, <3>5 DEF ParseDone, Inserted, Types, TypeOK
      <4> QED
        BY <2>1, <3>1, <3>2, <4>1 DEF Waiting
    <3>6. CASE ParseRepeats(a)
      <4>1. Items(queue) \subseteq Items(queue')
        <5>1. CASE UNCHANGED queue
          BY <5>1
        <5>2. CASE \E S \in SUBSET Unembedded(a) : Put(S)
          BY SMTT(30), ZenonT(40), <5>2, PutAdds, UnembeddedIsFinite, Counts DEF Types
        <5> QED
          BY <3>6, <5>1, <5>2 DEF ParseRepeats
      <4>2. a # e[1]
        BY <1>5, <3>6 DEF ParseRepeats, Types, TypeOK
      <4>3. Was
        BY <1>5, <3>6, <4>2 DEF ParseRepeats, Inserted, Types, TypeOK
      <4> QED
        BY <2>1, <3>1, <3>2, <4>1, <4>3 DEF Waiting
    <3> QED
      BY <2>3, <3>3, <3>4, <3>5, <3>6 DEF Parse
  <2>4. CASE TakeBatch
    <3>1. Was /\ UNCHANGED <<jobTable, copies>> /\ batch = <<>>
      BY <1>5, <2>4 DEF TakeBatch, Inserted
    <3>2. PICK n \in 1 .. Len(queue) : batch' = SubSeq(queue, 1, n) /\ queue' = SubSeq(queue, n + 1, Len(queue))
      BY <2>4 DEF TakeBatch
    <3>3. Items(queue) = Items(batch') \cup Items(queue') /\ Items(batch) = {}
      <4>1. queue \in Seq(Events) /\ n \in 0 .. Len(queue)
        BY <3>2, Counts DEF Types
      <4>2. Items(queue) = Items(batch') \cup Items(queue')
        BY <3>2, <4>1, ItemsOfSequences
      <4>3. Items(<<>>) = {}
        BY DEF Items
      <4> QED
        BY <3>1, <4>2, <4>3
    <3> QED
      BY <2>1, <3>1, <3>3 DEF Waiting, InOpenJob
  <2>5. CASE CreateJobs
    <3>1. PICK n \in Nat, m \in Nat : \E inv \in Bijection((n + 1) .. m, Groups) :
             /\ Created = 1 .. n /\ (n + 1) .. m \subseteq Jobs
             /\ status'    = [j \in Jobs |-> IF j \in (n + 1) .. m THEN "pending" ELSE status[j]]
             /\ jobEvents' = [j \in Jobs |-> IF j \in (n + 1) .. m THEN Group(inv[j]) ELSE jobEvents[j]]
      BY <2>5, CreateJobsCreates
    <3>2. PICK inv \in Bijection((n + 1) .. m, Groups) :
             jobEvents' = [j \in Jobs |-> IF j \in (n + 1) .. m THEN Group(inv[j]) ELSE jobEvents[j]]
      BY <3>1
    <3>3. Was /\ UNCHANGED <<queue, copies>>
      BY <1>5, <2>5 DEF CreateJobs, Inserted
    <3>4. ASSUME e \in Items(batch) PROVE InOpenJob(e)'
      <4>1. InvOfEvent(e) \in Groups /\ e \in Group(InvOfEvent(e))
        BY <3>4 DEF Groups, Group
      <4>2. PICK j \in (n + 1) .. m : inv[j] = InvOfEvent(e)
        BY <3>2, <4>1 DEF Bijection, Surjection
      <4>3. j \in Jobs /\ status'[j] = "pending" /\ e \in jobEvents'[j]
        BY <3>1, <3>2, <4>1, <4>2
      <4> QED
        BY <4>3 DEF InOpenJob, Active
    <3>5. ASSUME InOpenJob(e) PROVE InOpenJob(e)'
      <4>1. PICK j \in Jobs : status[j] \in Active /\ e \in jobEvents[j]
        BY <3>5 DEF InOpenJob
      <4>2. j \in Created
        BY <4>1 DEF Created, Active
      <4>3. status'[j] = status[j] /\ jobEvents'[j] = jobEvents[j]
        BY <3>1, <3>2, <4>2
      <4> QED
        BY <4>1, <4>3 DEF InOpenJob
    <3> QED
      BY <2>1, <3>3, <3>4, <3>5 DEF Waiting
  <2>6. ~(\E a \in Artifacts : QueueingFails(a)) /\ ~CreateFails /\ ~BatcherDies /\ ~RestartWorkerService
    BY <1>2 DEF QueueingFails, CreateFails, BatcherDies, RestartWorkerService
  <2> QED
    BY <2>3, <2>4, <2>5, <2>6 DEF Batcher
<1> QED
  BY <1>4, <1>5 DEF Remembered

\* A worker closes a job only when each of its events is embedded.
LEMMA WorkersRemember ==
  ASSUME Types, Lasting, Remembered, NEW w \in Workers, Proceed(w) \/ Fault(w)
  PROVE  Remembered'
<1> SUFFICES ASSUME faults' = 0, losses' = 0 PROVE Remembered'
  BY DEF Remembered
<1>1. faults = 0 /\ losses = 0 /\ NothingDropped
  <2>1. faults \in Nat /\ losses \in Nat /\ faults' >= faults /\ losses' >= losses
    BY Counts DEF Types, Lasting
  <2>2. faults = 0 /\ losses = 0
    BY <2>1
  <2> QED
    BY <2>2 DEF Remembered
<1>2. ~Fail
  BY <1>1 DEF Fail
<1>3. \A e \in Events : copies[e] \in Nat /\ (copies[e] > 0 => copies'[e] > 0)
  <2>1. \A e \in Events : copies[e] \in Nat /\ copies'[e] \in Nat /\ copies'[e] >= copies[e]
    BY DEF Lasting
  <2> QED
    BY <2>1
<1>4. UNCHANGED <<parsers, inMemory, jobEvents>>
  BY DEF Proceed, Fault, Claim, LoseClaim, Assign, Rest, Wake, SelectEvents, NothingToEmbed, SkipJob, CompleteEmpty, EmbedBatch,
         BatchFails, ReportProgress, ReportFails, Finish, JobRaises, MarkFailed, MarkFailedRaises
<1>5. ~Fault(w) \/ MarkFailedRaises(w)
  BY <1>2 DEF Fault, LoseClaim, SkipJob, BatchFails, ReportFails, JobRaises
<1>6. pc[w] # "failing"
  BY <1>1 DEF NothingDropped
<1> DEFINE Others == \A v \in Workers : v # w => pc'[v] = pc[v] /\ task'[v] = task[v] /\ todo'[v] = todo[v]
<1>7. Others /\ pc'[w] # "failing"
  <2> USE DEF Goto, NextRound, Drop, Types, TypeOK
  <2>1. CASE Claim(w)
    BY <2>1 DEF Claim
  <2>2. CASE Rest(w) \/ Wake(w)
    BY <2>2 DEF Rest, Wake
  <2>3. CASE SelectEvents(w)
    BY <2>3 DEF SelectEvents
  <2>4. CASE NothingToEmbed(w) \/ Finish(w)
    BY <2>4 DEF NothingToEmbed, Finish, CompleteEmpty
  <2>5. CASE (\E e \in Events : EmbedBatch(w, e)) \/ ReportProgress(w)
    <3>1. pc' = pc /\ task' = task
      BY <2>5 DEF EmbedBatch, ReportProgress
    <3>2. todo' = todo \/ \E f \in Events : todo' = [todo EXCEPT ![w] = @ \ {f}]
      BY <2>5 DEF EmbedBatch, ReportProgress
    <3>3. \A v \in Workers : v # w => todo'[v] = todo[v]
      BY <3>2
    <3> QED
      BY <1>6, <3>1, <3>3
  <2> QED
    BY <1>5, <1>6, <2>1, <2>2, <2>3, <2>4, <2>5 DEF Proceed, MarkFailed, MarkFailedRaises
<1>8. ASSUME pc'[w] = "embedding", NEW e \in jobEvents[task'[w]] PROVE e \in Events => copies'[e] > 0 \/ e \in todo'[w]
  <2>1. CASE SelectEvents(w)
    <3>1. task'[w] = task[w] /\ todo'[w] = Wanted(task[w]) /\ UNCHANGED copies
      BY <2>1 DEF SelectEvents, Types, TypeOK
    <3>2. e \in Events => copies[e] = 0 \/ copies[e] > 0
      BY <1>3
    <3> QED
      BY <1>8, <3>1, <3>2 DEF Wanted
  <2>2. ASSUME NEW f \in Events, EmbedBatch(w, f) PROVE e \in Events => copies'[e] > 0 \/ e \in todo'[w]
    <3>1. pc[w] = "embedding" /\ task'[w] = task[w] /\ todo'[w] = todo[w] \ {f} /\ copies'[f] = copies[f] + 1
      BY <2>2 DEF EmbedBatch, Types, TypeOK
    <3>2. copies'[f] > 0
      BY <1>3, <3>1
    <3> QED
      BY <1>1, <1>3, <1>8, <3>1, <3>2 DEF NothingDropped
  <2>3. CASE ReportProgress(w)
    BY <1>1, <1>3, <1>8, <2>3 DEF ReportProgress, NothingDropped
  <2>4. CASE Claim(w) \/ Rest(w) \/ Wake(w) \/ NothingToEmbed(w) \/ Finish(w)
    BY <1>8, <2>4 DEF Claim, Rest, Wake, NothingToEmbed, Finish, CompleteEmpty, Goto, NextRound, Drop, Types, TypeOK
  <2> QED
    BY <1>5, <1>6, <2>1, <2>2, <2>3, <2>4 DEF Proceed, MarkFailed, MarkFailedRaises
<1>9. NothingDropped'
  <2>1. \A v \in Workers : pc'[v] = "embedding" => jobEvents[task'[v]] \subseteq Events
    <3>1. \A v \in Workers : pc'[v] = "embedding" => task'[v] = task[v] /\ (pc[v] = "embedding" \/ pc[v] = "claimed")
      BY <1>5, <1>6, <1>7 DEF Proceed, MarkFailed, MarkFailedRaises, Claim, Rest, Wake, SelectEvents, NothingToEmbed, Finish,
           CompleteEmpty, EmbedBatch, ReportProgress, Goto, NextRound, Drop, Types, TypeOK
    <3>2. \A v \in Workers : pc[v] = "embedding" \/ pc[v] = "claimed" => task[v] \in Jobs
      BY DEF Types, HeldExists, Holding, Created
    <3> QED
      BY <3>1, <3>2 DEF Types, TypeOK
  <2> QED
    BY <1>1, <1>3, <1>4, <1>7, <1>8, <2>1 DEF NothingDropped
<1>10. ASSUME NEW j \in Jobs, status[j] \in Active, NEW e \in jobEvents[j], e \in Events, copies[e] = 0 PROVE status'[j] \in Active
  <2>1. CASE Claim(w)
    BY <1>10, <2>1, StateSets DEF Claim, Assign, Types, TypeOK
  <2>2. CASE NothingToEmbed(w)
    <3>1. j # task[w]
      BY <1>10, <2>2 DEF NothingToEmbed, Wanted
    <3> QED
      BY <1>10, <2>2, <3>1 DEF NothingToEmbed, CompleteEmpty, Judge, Types, TypeOK
  <2>3. CASE Finish(w)
    <3>1. todo[w] = {} /\ pc[w] = "embedding"
      BY <2>3 DEF Finish, AllBatchesEnded
    <3>2. j # task[w]
      BY <1>1, <1>10, <3>1 DEF NothingDropped
    <3> QED
      BY <1>10, <2>3, <3>2 DEF Finish, Judge, Types, TypeOK
  <2>4. CASE Rest(w) \/ Wake(w) \/ SelectEvents(w) \/ (\E f \in Events : EmbedBatch(w, f)) \/ ReportProgress(w)
    BY <1>10, <2>4 DEF Rest, Wake, SelectEvents, EmbedBatch, ReportProgress
  <2> QED
    BY <1>5, <1>6, <2>1, <2>2, <2>3, <2>4 DEF Proceed, MarkFailed, MarkFailedRaises
<1>11. ASSUME NEW e \in Events, Inserted(e)', parse'[e[1]] \in {"queued", "done"}
       PROVE  (copies[e] > 0 \/ Waiting(e) \/ InOpenJob(e))'
  <2>1. Inserted(e) /\ parse[e[1]] \in {"queued", "done"} /\ (Waiting(e) => Waiting(e)')
    BY <1>4, <1>11 DEF Inserted, Waiting
  <2>2. copies[e] > 0 \/ Waiting(e) \/ InOpenJob(e)
    BY <1>1, <2>1 DEF Remembered
  <2>3. copies[e] = 0 /\ InOpenJob(e) => InOpenJob(e)'
    BY <1>4, <1>10 DEF InOpenJob
  <2> QED
    BY <1>3, <2>1, <2>2, <2>3
<1> QED
  BY <1>9, <1>11 DEF Remembered

\* A reset opens a running job again, and takes nothing from it.
LEMMA UpkeepRemembers ==
  ASSUME Types, Lasting, Remembered, Upkeep
  PROVE  Remembered'
<1> SUFFICES ASSUME faults' = 0, losses' = 0 PROVE Remembered'
  BY DEF Remembered
<1>1. faults = 0 /\ losses = 0 /\ NothingDropped
  <2>1. faults \in Nat /\ losses \in Nat /\ faults' >= faults /\ losses' >= losses
    BY Counts DEF Types, Lasting
  <2>2. faults = 0 /\ losses = 0
    BY <2>1
  <2> QED
    BY <2>2 DEF Remembered
<1>2. UNCHANGED <<parsers, inMemory, jobEvents, copies>>
  BY UpkeepResets
<1>3. \A j \in Jobs : status[j] \in Active => status'[j] \in Active
  BY UpkeepResets, StateSets DEF ResetJobs
<1>4. \A v \in Workers : \/ pc'[v] = pc[v] /\ task'[v] = task[v] /\ todo'[v] = todo[v]
                         \/ pc'[v] \in {"idle", "dead"}
  BY UpkeepMovesOrDrops DEF UpkeepMoves
<1>5. NothingDropped'
  BY <1>1, <1>2, <1>4 DEF NothingDropped
<1>6. ASSUME NEW e \in Events, Inserted(e)', parse'[e[1]] \in {"queued", "done"}
      PROVE  (copies[e] > 0 \/ Waiting(e) \/ InOpenJob(e))'
  <2>1. Inserted(e) /\ parse[e[1]] \in {"queued", "done"} /\ (Waiting(e) => Waiting(e)')
    BY <1>2, <1>6 DEF Inserted, Waiting
  <2>2. copies[e] > 0 \/ Waiting(e) \/ InOpenJob(e)
    BY <1>1, <2>1 DEF Remembered
  <2>3. InOpenJob(e) => InOpenJob(e)'
    BY <1>2, <1>3 DEF InOpenJob
  <2> QED
    BY <1>2, <2>1, <2>2, <2>3
<1> QED
  BY <1>5, <1>6 DEF Remembered

\* Unless something fails or memory is lost, an event of a parsed artifact has its
\* embedding, or waits in the queue, the batch or an open job: the death of an embedding
\* worker, wherever it comes, forgets none.
THEOREM NoneForgotten == Spec => []NoEventForgotten
<1>1. Init => Remembered
  <2> SUFFICES ASSUME Init PROVE Remembered
    OBVIOUS
  <2>1. \A w \in Workers : pc[w] = "idle"
    BY DEF Init
  <2>2. \A e \in Events : parse[e[1]] = "todo"
    BY EventsAreOfArtifacts DEF Init
  <2> QED
    BY <2>1, <2>2 DEF Remembered, NothingDropped
<1>2. Types /\ Types' /\ Remembered /\ [Next]_vars => Remembered'
  <2> SUFFICES ASSUME Types, Types', Remembered, [Next]_vars PROVE Remembered'
    OBVIOUS
  <2>1. Lasting
    BY StepsLast
  <2>2. CASE UNCHANGED vars
    BY <2>2 DEF vars, Remembered, NothingDropped, Inserted, Waiting, InOpenJob, Items
  <2>3. CASE Next
    BY <2>1, <2>3, NextCases, SourcesRemember, WorkersRemember, UpkeepRemembers
  <2> QED
    BY <2>2, <2>3
<1>3. Remembered => NoEventForgotten
  BY DEF Remembered, NoEventForgotten
<1> QED
  BY <1>1, <1>2, <1>3, TypesHold, PTL DEF Spec

-----------------------------------------------------------------------------
(* No job counts more than its events.                                     *)

\* As long as no job outlasts the stale threshold, the job in a worker's hands is that
\* worker's own, and no check for stale jobs touches it.
HeldOwned ==
  overruns = 0 =>
    \A w \in Workers : Holding(w) => status[task[w]] = "running" /\ owner[task[w]] = w /\ ~aged[task[w]]

\* The events of a job are finitely many; a job that does not exist has none.
JobRows ==
  \A j \in Jobs : IsFiniteSet(jobEvents[j]) /\ (j \notin Created => processed[j] = 0)

LEMMA NoOverrunBefore == ASSUME Types, Lasting, overruns' = 0 PROVE overruns = 0
<1>1. overruns \in Nat /\ overruns' >= overruns
  BY Counts DEF Types, Lasting
<1> QED
  BY <1>1

LEMMA SourcesKeepHeld ==
  ASSUME Types, Lasting, HeldOwned,
         \/ \E a \in Artifacts : Parse(a) \/ QueueingFails(a) \/ ParseRepeats(a)
         \/ Batcher \/ CreateFails \/ BatcherDies \/ RestartWorkerService
  PROVE  HeldOwned'
<1> SUFFICES ASSUME overruns' = 0 PROVE HeldOwned'
  BY DEF HeldOwned
<1>1. overruns = 0
  BY NoOverrunBefore
<1>2. UNCHANGED workers /\ UNCHANGED <<owner, aged>>
  BY DEF Parse, Batcher, InsertEvents, QueueEvents, QueueingFails, ParseDone, ParseRepeats, TakeBatch, CreateJobs, CreateFails,
         BatcherDies, RestartWorkerService
<1>3. \A j \in Created : status'[j] = status[j]
  <2>1. CASE CreateJobs
    <3>1. PICK n \in Nat, m \in Nat :
             /\ Created = 1 .. n
             /\ status' = [j \in Jobs |-> IF j \in (n + 1) .. m THEN "pending" ELSE status[j]]
      BY <2>1, CreateJobsCreates
    <3>2. \A j \in Created : j \in Jobs /\ j \notin (n + 1) .. m
      BY <3>1 DEF Created
    <3> QED
      BY <3>1, <3>2
  <2>2. CASE ~CreateJobs
    BY <2>2 DEF Parse, Batcher, InsertEvents, QueueEvents, QueueingFails, ParseDone, ParseRepeats, TakeBatch, CreateFails,
         BatcherDies, RestartWorkerService
  <2> QED
    BY <2>1, <2>2
<1> QED
  BY <1>1, <1>2, <1>3 DEF HeldOwned, Holding, Types, HeldExists

\* Two workers never have the same job.
LEMMA OneHolder ==
  ASSUME HeldOwned, overruns = 0, NEW v \in Workers, NEW w \in Workers, Holding(v), Holding(w), task[v] = task[w]
  PROVE  v = w
  BY DEF HeldOwned

LEMMA WorkersKeepHeld ==
  ASSUME Types, Lasting, HeldOwned, NEW w \in Workers, Proceed(w) \/ Fault(w)
  PROVE  HeldOwned'
<1> SUFFICES ASSUME overruns' = 0 PROVE HeldOwned'
  BY DEF HeldOwned
<1>1. overruns = 0
  BY NoOverrunBefore
<1> DEFINE Own(v) == status[task[v]] = "running" /\ owner[task[v]] = v /\ ~aged[task[v]]
<1>2. \A v \in Workers : Holding(v) => Own(v) /\ task[v] \in Jobs
  BY <1>1 DEF HeldOwned, Types, HeldExists, Created
<1>3. ASSUME NEW j \in Jobs, Assign(w, j) PROVE /\ \A v \in Workers : Holding(v) => Own(v)' \/ task'[v] # task[v]
                                                /\ status'[j] = "running" /\ owner'[j] = w /\ ~aged'[j]
  <2>1. status[j] = "pending"
    BY <1>3 DEF Assign, Claimable
  <2>2. \A k \in Jobs : k # j => status'[k] = status[k] /\ owner'[k] = owner[k] /\ aged'[k] = aged[k]
    BY <1>3 DEF Assign, Types, TypeOK
  <2> QED
    BY <1>2, <1>3, <2>1, <2>2 DEF Assign, Types, TypeOK
<1>4. CASE Claim(w)
  <2>1. PICK j \in Jobs : Assign(w, j) /\ task' = [task EXCEPT ![w] = j]
    BY <1>4 DEF Claim
  <2>2. task'[w] = j /\ \A v \in Workers : v # w => task'[v] = task[v] /\ pc'[v] = pc[v]
    BY <1>4, <2>1 DEF Claim, Goto, Types, TypeOK
  <2> QED
    BY <1>3, <2>1, <2>2 DEF HeldOwned, Holding
<1>5. CASE LoseClaim(w)
  <2>1. UNCHANGED workers /\ \E j \in Jobs : Assign(w, j)
    BY <1>5 DEF LoseClaim
  <2> QED
    BY <1>3, <2>1 DEF HeldOwned, Holding
<1>6. CASE NothingToEmbed(w) \/ SkipJob(w) \/ Finish(w) \/ MarkFailed(w)
  <2>1. /\ Holding(w) /\ NextRound(w) /\ UNCHANGED <<owner, aged>>
        /\ \E v \in {"completed", "failed"} : status' = [status EXCEPT ![task[w]] = v]
    BY <1>6 DEF NothingToEmbed, SkipJob, CompleteEmpty, Finish, MarkFailed, Judge, Holding
  <2>2. \A v \in Workers : Holding(v)' => v # w /\ Holding(v) /\ task'[v] = task[v]
    BY <2>1 DEF Holding, NextRound, Goto, Drop, Types, TypeOK
  <2>3. \A v \in Workers : v # w /\ Holding(v) => status'[task[v]] = status[task[v]]
    <3>1. \A v \in Workers : v # w /\ Holding(v) => task[v] # task[w] /\ task[v] \in Jobs
      BY <1>1, <1>2, <2>1, OneHolder
    <3> QED
      BY <2>1, <3>1 DEF Types, TypeOK
  <2> QED
    BY <1>2, <2>1, <2>2, <2>3 DEF HeldOwned
<1>7. CASE \/ Rest(w) \/ Wake(w) \/ SelectEvents(w) \/ (\E e \in Events : EmbedBatch(w, e) \/ BatchFails(w, e))
           \/ ReportProgress(w) \/ ReportFails(w) \/ JobRaises(w) \/ MarkFailedRaises(w)
  <2>1. UNCHANGED <<status, owner, aged>>
    BY <1>7 DEF Rest, Wake, SelectEvents, EmbedBatch, BatchFails, ReportProgress, ReportFails, JobRaises, MarkFailedRaises
  <2>2. \A v \in Workers : Holding(v)' => Holding(v) /\ task'[v] = task[v]
    BY <1>7 DEF Rest, Wake, SelectEvents, EmbedBatch, BatchFails, ReportProgress, ReportFails, JobRaises, MarkFailedRaises,
         Holding, NextRound, Goto, Drop, Types, TypeOK
  <2> QED
    BY <1>2, <2>1, <2>2 DEF HeldOwned
<1> QED
  BY <1>4, <1>5, <1>6, <1>7 DEF Proceed, Fault

LEMMA UpkeepKeepsHeld ==
  ASSUME Types, Lasting, HeldOwned, Upkeep
  PROVE  HeldOwned'
<1> SUFFICES ASSUME overruns' = 0 PROVE HeldOwned'
  BY DEF HeldOwned
<1>1. overruns = 0 /\ overruns \in Nat
  BY NoOverrunBefore, Counts DEF Types
<1>2. \A v \in Workers : Holding(v) => status[task[v]] = "running" /\ owner[task[v]] = v /\ ~aged[task[v]] /\ task[v] \in Jobs
  BY <1>1 DEF HeldOwned, Types, HeldExists, Created
<1>3. \A v \in Workers : Holding(v)' => Holding(v) /\ task'[v] = task[v] /\ pc'[v] = pc[v]
  BY UpkeepMovesOrDrops DEF UpkeepMoves, Holding
<1>4. ASSUME NEW S, NEW replaced, ResetJobs(S, replaced), NEW v \in Workers, Holding(v), task[v] \notin S, v \notin replaced
      PROVE  status'[task[v]] = "running" /\ owner'[task[v]] = v /\ ~aged'[task[v]]
  BY <1>2, <1>4 DEF ResetJobs
<1>5. ASSUME NEW w \in Workers, RecoverStaleJobs(w) PROVE HeldOwned'
  BY <1>2, <1>3, <1>4, <1>5 DEF RecoverStaleJobs, Stale, HeldOwned
<1>6. CASE RecoverByWorkerService
  BY <1>2, <1>3, <1>4, <1>6 DEF RecoverByWorkerService, Stale, HeldOwned
<1>7. ASSUME NEW w \in Workers, WorkerDies(w) PROVE HeldOwned'
  BY <1>2, <1>3, <1>7 DEF WorkerDies, HeldOwned
<1>8. ASSUME NEW w \in Workers, ReplaceWorker(w) \/ ReplaceWithoutCleanup(w) PROVE HeldOwned'
  <2>1. pc[w] = "dead" /\ (ResetJobs(OwnedBy(w), {w}) \/ ResetJobs({}, {w}))
    BY <1>8 DEF ReplaceWorker, ReplaceWithoutCleanup
  <2>2. \A v \in Workers : Holding(v) => v # w /\ task[v] \notin OwnedBy(w)
    BY <1>2, <2>1 DEF Holding, OwnedBy
  <2> QED
    BY <1>3, <1>4, <2>1, <2>2 DEF HeldOwned
<1>9. ASSUME NEW S \in SUBSET Jobs, RestartEmbeddingService(S) PROVE HeldOwned'
  BY <1>9 DEF RestartEmbeddingService, HeldOwned, Holding
<1>10. ASSUME NEW j \in Jobs, JobAges(j) PROVE HeldOwned'
  <2>1. ~InHand(j)
    BY <1>1, <1>10 DEF JobAges
  <2>2. \A v \in Workers : Holding(v) => task[v] # j
    BY <1>2, <2>1 DEF InHand
  <2>3. UNCHANGED <<status, owner, pc, task>> /\ \A k \in Jobs : k # j => aged'[k] = aged[k]
    BY <1>10 DEF JobAges, Types, TypeOK
  <2> QED
    BY <1>2, <1>3, <2>2, <2>3 DEF HeldOwned
<1> QED
  BY <1>5, <1>6, <1>7, <1>8, <1>9, <1>10 DEF Upkeep

\* The embeddings that the events of a job have, those of T aside.
Share(j, T) == Cardinality({e \in jobEvents[j] : copies[e] > 0} \ T)

\* The share after the step.
NewShare(j, T) == Cardinality({e \in jobEvents'[j] : copies'[e] > 0} \ T)

Counted ==
  overruns = 0 =>
    /\ \A j \in Jobs : processed[j] <= Share(j, {})
    /\ \A w \in Workers : pc[w] = "embedding" =>
         /\ todo[w] \subseteq jobEvents[task[w]]
         /\ processed[task[w]] + owed[w] <= Share(task[w], todo[w])
         /\ made[w] <= Share(task[w], todo[w])

LEMMA SharesAreNumbers ==
  ASSUME JobRows, NEW j \in Jobs, NEW T
  PROVE  Share(j, T) \in Nat /\ Share(j, T) <= Share(j, {}) /\ Share(j, {}) <= Cardinality(jobEvents[j])
         /\ Cardinality(jobEvents[j]) \in Nat
<1> DEFINE Emb == {e \in jobEvents[j] : copies[e] > 0}
<1>1. IsFiniteSet(jobEvents[j]) /\ Cardinality(jobEvents[j]) \in Nat
  BY FS_CardinalityType DEF JobRows
<1>2. IsFiniteSet(Emb) /\ Cardinality(Emb) <= Cardinality(jobEvents[j]) /\ Cardinality(Emb) \in Nat
  BY <1>1, FS_Subset, FS_CardinalityType
<1>3. IsFiniteSet(Emb \ T) /\ Cardinality(Emb \ T) <= Cardinality(Emb) /\ Cardinality(Emb \ T) \in Nat
  BY <1>2, FS_Subset, FS_CardinalityType
<1>4. Emb \ {} = Emb
  OBVIOUS
<1> HIDE DEF Emb
<1> QED
  <2>1. Share(j, T) = Cardinality(Emb \ T) /\ Share(j, {}) = Cardinality(Emb)
    BY <1>4 DEF Share, Emb
  <2> QED
    BY <1>1, <1>2, <1>3, <2>1

\* A share does not shrink.
LEMMA SharesGrow ==
  ASSUME Types, JobRows, JobRows', Lasting, NEW j \in Created, NEW T, NEW U, U \subseteq T
  PROVE  Share(j, T) <= NewShare(j, U) /\ Share(j, T) \in Nat
<1> DEFINE Emb == {e \in jobEvents[j] : copies[e] > 0} \ T
           New == {e \in jobEvents'[j] : copies'[e] > 0} \ U
<1>1. j \in Jobs /\ jobEvents'[j] = jobEvents[j] /\ jobEvents[j] \subseteq Events
  BY DEF Types, TypeOK, Lasting, Created
<1>2. \A e \in Events : copies[e] > 0 => copies'[e] > 0
  <2>1. \A e \in Events : copies[e] \in Nat /\ copies'[e] \in Nat /\ copies'[e] >= copies[e]
    BY DEF Lasting
  <2> QED
    BY <2>1
<1>3. Emb \subseteq New
  BY <1>1, <1>2
<1>4. IsFiniteSet(New)
  <2>1. IsFiniteSet(jobEvents'[j])
    BY <1>1 DEF JobRows
  <2>2. New \subseteq jobEvents'[j]
    OBVIOUS
  <2> QED
    BY <2>1, <2>2, FS_Subset
<1> HIDE DEF Emb, New
<1>5. Cardinality(Emb) <= Cardinality(New) /\ Cardinality(Emb) \in Nat /\ Cardinality(New) \in Nat
  BY <1>3, <1>4, FS_Subset, FS_CardinalityType
<1> QED
  BY <1>5 DEF Emb, New, Share, NewShare

LEMMA NewSharesAreNumbers ==
  ASSUME JobRows', NEW j \in Jobs, NEW T
  PROVE  NewShare(j, T) \in Nat
<1>1. IsFiniteSet(jobEvents'[j])
  BY DEF JobRows
<1> QED
  BY <1>1, FS_Subset, FS_CardinalityType DEF NewShare

LEMMA RowsKeep ==
  ASSUME Types, Types', JobRows, Lasting, [Next]_vars
  PROVE  JobRows'
<1>1. CASE CreateJobs
  <2>1. PICK n \in Nat, m \in Nat : \E inv \in Bijection((n + 1) .. m, Groups) :
           /\ Created = 1 .. n
           /\ Created' = 1 .. m /\ n <= m
           /\ jobEvents' = [j \in Jobs |-> IF j \in (n + 1) .. m THEN Group(inv[j]) ELSE jobEvents[j]]
    BY <1>1, CreateJobsCreates
  <2>2. \A i : IsFiniteSet(Group(i))
    <3>1. batch \in Seq(Events)
      BY Counts DEF Types
    <3>2. IsFiniteSet(Items(batch))
      <4> DEFINE f == [k \in 1 .. Len(batch) |-> batch[k]]
      <4>1. f \in Surjection(1 .. Len(batch), Items(batch))
        BY <3>1 DEF Surjection, Items
      <4> QED
        BY <3>1, <4>1, FS_Interval, FS_Surjection
    <3> QED
      BY <3>2, FS_Subset DEF Group
  <2>3. UNCHANGED processed
    BY <1>1 DEF CreateJobs
  <2> QED
    BY <2>1, <2>2, <2>3 DEF JobRows
<1>2. CASE ~CreateJobs
  <2>1. UNCHANGED jobEvents
    BY <1>2 DEF vars, Next, Parse, Batcher, Proceed, Fault, InsertEvents, QueueEvents, QueueingFails, ParseDone, ParseRepeats,
         TakeBatch, CreateFails, BatcherDies, RestartWorkerService, Claim, LoseClaim, Assign, Rest, Wake, SelectEvents,
         NothingToEmbed, SkipJob, CompleteEmpty, EmbedBatch, BatchFails, ReportProgress, ReportFails, Finish, JobRaises,
         MarkFailed, MarkFailedRaises, RecoverStaleJobs, RecoverByWorkerService, WorkerDies, ReplaceWorker,
         ReplaceWithoutCleanup, RestartEmbeddingService, ResetJobs, JobAges
  <2>2. UNCHANGED processed \/ \E w \in Workers : Holding(w) /\ \E n : processed' = [processed EXCEPT ![task[w]] = n]
    <3>1. ASSUME NEW w \in Workers, Proceed(w) \/ Fault(w)
          PROVE UNCHANGED processed \/ (Holding(w) /\ \E n : processed' = [processed EXCEPT ![task[w]] = n])
      <4>1. CASE ReportProgress(w)
        <5>1. pc[w] = "embedding"
          BY <4>1 DEF ReportProgress, Types, TypeOK, OnlyWhileEmbedding
        <5> QED
          BY <4>1, <5>1 DEF ReportProgress, Holding
      <4>2. CASE NothingToEmbed(w) \/ SkipJob(w) \/ Finish(w)
        BY <4>2 DEF NothingToEmbed, SkipJob, CompleteEmpty, Finish, Holding
      <4>3. CASE ~ReportProgress(w) /\ ~NothingToEmbed(w) /\ ~SkipJob(w) /\ ~Finish(w)
        BY <3>1, <4>3 DEF Proceed, Fault, Claim, LoseClaim, Assign, Rest, Wake, SelectEvents, EmbedBatch, BatchFails, ReportFails,
             JobRaises, MarkFailed, MarkFailedRaises
      <4> QED
        BY <4>1, <4>2, <4>3
    <3>2. CASE Upkeep
      BY <3>2, UpkeepResets
    <3>3. CASE ~Upkeep /\ ~\E w \in Workers : Proceed(w) \/ Fault(w)
      BY <3>3 DEF vars, Next, Upkeep, Parse, Batcher, InsertEvents, QueueEvents, QueueingFails, ParseDone, ParseRepeats,
         TakeBatch, CreateJobs, CreateFails, BatcherDies, RestartWorkerService
    <3> QED
      BY <3>1, <3>2, <3>3
  <2>3. \A j \in Jobs : j \notin Created' => j \notin Created
    BY DEF Lasting
  <2>4. \A j \in Jobs : j \notin Created => processed'[j] = processed[j]
    BY <2>2 DEF Types, TypeOK, HeldExists
  <2> QED
    BY <2>1, <2>3, <2>4 DEF JobRows
<1> QED
  BY <1>1, <1>2

\* The count of a job that nobody has written.
LEMMA CountStays ==
  ASSUME Types, JobRows, JobRows', Lasting, Counted, overruns = 0, NEW j \in Jobs, processed'[j] = processed[j]
  PROVE  processed'[j] <= NewShare(j, {})
<1>1. processed[j] \in Nat /\ processed[j] <= Share(j, {})
  BY DEF Counted, Types, TypeOK
<1>2. NewShare(j, {}) \in Nat
  BY NewSharesAreNumbers
<1>3. CASE j \in Created
  <2>1. Share(j, {}) <= NewShare(j, {}) /\ Share(j, {}) \in Nat
    BY <1>3, SharesGrow
  <2> QED
    BY <1>1, <1>2, <2>1
<1>4. CASE j \notin Created
  BY <1>2, <1>4 DEF JobRows
<1> QED
  BY <1>3, <1>4

\* The counts of a worker that goes on as it was.
CountsOf(v) ==
  /\ todo'[v] \subseteq jobEvents'[task'[v]]
  /\ processed'[task'[v]] + owed'[v] <= NewShare(task'[v], todo'[v])
  /\ made'[v] <= NewShare(task'[v], todo'[v])

LEMMA WorkerStays ==
  ASSUME Types, JobRows, JobRows', Lasting, Counted, overruns = 0, NEW v \in Workers,
         pc[v] = "embedding", task'[v] = task[v], processed'[task[v]] = processed[task[v]],
         todo'[v] \subseteq todo[v], owed'[v] \in Nat, owed'[v] <= owed[v], made'[v] = made[v]
  PROVE  CountsOf(v)
<1>1. task[v] \in Created /\ task[v] \in Jobs
  BY DEF Types, HeldExists, Holding, Created
<1>2. /\ todo[v] \subseteq jobEvents[task[v]]
      /\ processed[task[v]] + owed[v] <= Share(task[v], todo[v])
      /\ made[v] <= Share(task[v], todo[v])
      /\ processed[task[v]] \in Nat /\ owed[v] \in Nat /\ made[v] \in Nat
  BY <1>1 DEF Counted, Types, TypeOK
<1>3. Share(task[v], todo[v]) <= NewShare(task[v], todo'[v]) /\ Share(task[v], todo[v]) \in Nat
  BY <1>1, SharesGrow
<1>4. NewShare(task[v], todo'[v]) \in Nat
  BY <1>1, NewSharesAreNumbers
<1>5. jobEvents'[task[v]] = jobEvents[task[v]]
  BY <1>1 DEF Lasting
<1> QED
  BY <1>2, <1>3, <1>4, <1>5 DEF CountsOf

LEMMA CountedNext ==
  ASSUME \A j \in Jobs : processed'[j] <= NewShare(j, {}),
         \A v \in Workers : pc'[v] = "embedding" => CountsOf(v)
  PROVE  Counted'
<1>1. \A j \in Jobs : processed'[j] <= Share(j, {})'
  BY DEF Share, NewShare
<1>2. \A v \in Workers : Share(task[v], todo[v])' = NewShare(task'[v], todo'[v])
  BY DEF Share, NewShare
<1> QED
  BY <1>1, <1>2 DEF Counted, CountsOf

\* A step that writes no count, and in which a worker embedding goes on as it was.
LEMMA CountsStay ==
  ASSUME Types, JobRows, JobRows', Lasting, Counted, overruns = 0, UNCHANGED processed,
         \A v \in Workers : pc'[v] = "embedding" =>
           /\ pc[v] = "embedding" /\ task'[v] = task[v]
           /\ todo'[v] \subseteq todo[v] /\ owed'[v] \in Nat /\ owed'[v] <= owed[v] /\ made'[v] = made[v]
  PROVE  Counted'
<1>1. \A j \in Jobs : processed'[j] <= NewShare(j, {})
  BY CountStays
<1>2. \A v \in Workers : pc'[v] = "embedding" => CountsOf(v)
  BY WorkerStays
<1> QED
  BY <1>1, <1>2, CountedNext

LEMMA SourcesCount ==
  ASSUME Types, JobRows, JobRows', Lasting, Counted, overruns = 0,
         \/ \E a \in Artifacts : Parse(a) \/ QueueingFails(a) \/ ParseRepeats(a)
         \/ Batcher \/ CreateFails \/ BatcherDies \/ RestartWorkerService
  PROVE  Counted'
<1>1. UNCHANGED workers /\ UNCHANGED processed
  BY DEF Parse, Batcher, InsertEvents, QueueEvents, QueueingFails, ParseDone, ParseRepeats, TakeBatch, CreateJobs, CreateFails,
         BatcherDies, RestartWorkerService
<1>2. \A v \in Workers : owed[v] \in Nat
  BY DEF Types, TypeOK
<1> QED
  BY <1>1, <1>2, CountsStay

LEMMA UpkeepCounts ==
  ASSUME Types, JobRows, JobRows', Lasting, Counted, overruns = 0, Upkeep
  PROVE  Counted'
<1>1. UNCHANGED processed
  BY UpkeepResets
<1>2. \A v \in Workers : owed[v] \in Nat
  BY DEF Types, TypeOK
<1> QED
  BY <1>1, <1>2, UpkeepMovesOrDrops, CountsStay DEF UpkeepMoves

\* The other workers do not move, and have other jobs.
OthersStay(w) ==
  \A v \in Workers : v # w =>
    pc'[v] = pc[v] /\ task'[v] = task[v] /\ todo'[v] = todo[v] /\ made'[v] = made[v] /\ owed'[v] = owed[v]

LEMMA OthersCount ==
  ASSUME Types, JobRows, JobRows', Lasting, Counted, HeldOwned, overruns = 0, NEW w \in Workers, Holding(w),
         NEW n \in Nat, processed' = [processed EXCEPT ![task[w]] = n],
         n <= NewShare(task[w], {}), OthersStay(w), pc'[w] = "embedding" => CountsOf(w)
  PROVE  Counted'
<1>1. task[w] \in Created /\ task[w] \in Jobs
  BY DEF Types, HeldExists, Created
<1>2. processed'[task[w]] = n /\ \A j \in Jobs : j # task[w] => processed'[j] = processed[j]
  BY <1>1 DEF Types, TypeOK
<1>3. \A j \in Jobs : processed'[j] <= NewShare(j, {})
  BY <1>2, CountStays
<1>4. ASSUME NEW v \in Workers, v # w, pc'[v] = "embedding" PROVE CountsOf(v)
  <2>1. pc[v] = "embedding" /\ task'[v] = task[v] /\ todo'[v] = todo[v] /\ made'[v] = made[v] /\ owed'[v] = owed[v]
    BY <1>4 DEF OthersStay
  <2>2. task[v] \in Jobs /\ owed[v] \in Nat /\ Holding(v)
    BY <2>1 DEF Types, TypeOK, HeldExists, Holding, Created
  <2>3. task[v] # task[w]
    BY <1>4, <2>2, OneHolder
  <2>4. processed'[task[v]] = processed[task[v]]
    BY <1>2, <2>2, <2>3
  <2> QED
    BY <2>1, <2>2, <2>4, WorkerStays
<1> QED
  BY <1>3, <1>4, CountedNext

LEMMA WorkersCount ==
  ASSUME Types, Types', JobRows, JobRows', Lasting, Counted, HeldOwned, overruns = 0, NEW w \in Workers, Proceed(w) \/ Fault(w)
  PROVE  Counted'
<1>1. \A v \in Workers : owed[v] \in Nat /\ made[v] \in Nat
  BY DEF Types, TypeOK
<1>2. \A v \in Workers : Holding(v) => task[v] \in Created /\ task[v] \in Jobs
  BY DEF Types, HeldExists, Created
<1>3. OthersStay(w)
  <2> USE DEF Goto, NextRound, Drop, Types, TypeOK, OthersStay
  <2>1. CASE Claim(w)
    BY <2>1 DEF Claim
  <2>2. CASE Rest(w) \/ Wake(w) \/ SelectEvents(w) \/ LoseClaim(w)
    BY ZenonT(40), <2>2 DEF Rest, Wake, SelectEvents, LoseClaim
  <2>3. CASE NothingToEmbed(w) \/ Finish(w) \/ SkipJob(w) \/ MarkFailed(w) \/ MarkFailedRaises(w) \/ JobRaises(w)
    BY ZenonT(40), <2>3 DEF NothingToEmbed, Finish, CompleteEmpty, SkipJob, MarkFailed, MarkFailedRaises, JobRaises
  <2>4. ASSUME NEW e \in Events, EmbedBatch(w, e) PROVE OthersStay(w)
    <3>1. /\ pc' = pc /\ task' = task /\ todo' = [todo EXCEPT ![w] = @ \ {e}] /\ made' = [made EXCEPT ![w] = @ + 1]
          /\ owed' = [owed EXCEPT ![w] = IF Concurrent THEN @ + 1 ELSE @]
      BY <2>4 DEF EmbedBatch
    <3> QED
      BY <3>1
  <2>5. ASSUME NEW e \in Events, BatchFails(w, e) PROVE OthersStay(w)
    BY <2>5 DEF BatchFails
  <2>6. CASE ReportProgress(w) \/ ReportFails(w)
    BY <2>6 DEF ReportProgress, ReportFails
  <2> QED
    BY <2>1, <2>2, <2>3, <2>4, <2>5, <2>6 DEF Proceed, Fault
<1>4. CASE Claim(w) \/ LoseClaim(w) \/ Rest(w) \/ Wake(w) \/ MarkFailed(w) \/ MarkFailedRaises(w) \/ JobRaises(w)
  <2>1. UNCHANGED processed /\ (pc'[w] # "embedding" \/ UNCHANGED workers)
    BY <1>4 DEF Claim, LoseClaim, Assign, Rest, Wake, MarkFailed, MarkFailedRaises, JobRaises, Goto, NextRound, Drop, Types, TypeOK
  <2>2. CASE UNCHANGED workers
    BY <1>1, <2>1, <2>2, CountsStay DEF OthersStay
  <2>3. CASE pc'[w] # "embedding"
    BY <1>1, <1>3, <2>1, <2>3, CountsStay DEF OthersStay
  <2> QED
    BY <2>1, <2>2, <2>3
<1>5. ASSUME NEW e \in Events, BatchFails(w, e) PROVE Counted'
  <2>1. /\ UNCHANGED processed /\ pc' = pc /\ task' = task /\ made' = made /\ owed' = owed
        /\ todo'[w] = todo[w] \ {e}
    BY <1>5 DEF BatchFails, Types, TypeOK
  <2> QED
    BY <1>1, <1>3, <2>1, CountsStay DEF OthersStay
<1>6. CASE ReportFails(w)
  <2>1. /\ UNCHANGED processed /\ pc' = pc /\ task' = task /\ made' = made /\ todo' = todo
        /\ owed[w] > 0 /\ owed'[w] = owed[w] - 1
    BY <1>6 DEF ReportFails, Types, TypeOK
  <2>2. owed'[w] \in Nat /\ owed'[w] <= owed[w]
    BY <1>1, <2>1
  <2> QED
    BY <1>1, <1>3, <2>1, <2>2, CountsStay DEF OthersStay
<1>7. CASE NothingToEmbed(w) \/ SkipJob(w)
  <2>1. /\ Holding(w) /\ pc'[w] # "embedding"
        /\ processed' = [processed EXCEPT ![task[w]] = IF seen[w] = 0 THEN @ ELSE 0]
    BY <1>7 DEF NothingToEmbed, SkipJob, CompleteEmpty, NextRound, Goto, Holding, Types, TypeOK
  <2>2. CASE UNCHANGED processed
    BY <1>1, <1>3, <2>1, <2>2, CountsStay DEF OthersStay
  <2>3. CASE processed' = [processed EXCEPT ![task[w]] = 0]
    <3>1. NewShare(task[w], {}) \in Nat
      BY <1>2, <2>1, NewSharesAreNumbers
    <3>2. 0 \in Nat /\ 0 <= NewShare(task[w], {})
      BY <3>1
    <3> QED
      BY <1>3, <2>1, <2>3, <3>2, OthersCount
  <2> QED
    BY <2>1, <2>2, <2>3 DEF Types, TypeOK
<1>8. CASE ReportProgress(w)
  <2>1. /\ pc[w] = "embedding" /\ pc' = pc /\ task' = task /\ made' = made /\ todo' = todo /\ UNCHANGED <<jobEvents, copies>>
        /\ owed[w] > 0 /\ owed'[w] = owed[w] - 1
        /\ processed' = [processed EXCEPT ![task[w]] = processed[task[w]] + 1]
    BY <1>8 DEF ReportProgress, Types, TypeOK, OnlyWhileEmbedding
  <2>2. Holding(w) /\ task[w] \in Jobs
    BY <1>2, <2>1 DEF Holding
  <2>3. /\ todo[w] \subseteq jobEvents[task[w]]
        /\ processed[task[w]] + owed[w] <= Share(task[w], todo[w])
        /\ made[w] <= Share(task[w], todo[w])
        /\ processed[task[w]] \in Nat /\ owed[w] \in Nat /\ made[w] \in Nat
    BY <2>1, <2>2 DEF Counted, Types, TypeOK
  <2>4. NewShare(task[w], {}) = Share(task[w], {}) /\ NewShare(task[w], todo[w]) = Share(task[w], todo[w])
    BY <2>1 DEF NewShare, Share
  <2>5. Share(task[w], todo[w]) \in Nat /\ Share(task[w], todo[w]) <= Share(task[w], {}) /\ Share(task[w], {}) \in Nat
    BY <2>2, SharesAreNumbers
  <2>6. processed[task[w]] + 1 \in Nat /\ processed[task[w]] + 1 <= NewShare(task[w], {})
    BY <2>1, <2>3, <2>4, <2>5
  <2>7. processed'[task[w]] = processed[task[w]] + 1
    BY <2>1, <2>2 DEF Types, TypeOK
  <2>8. CountsOf(w)
    BY <2>1, <2>3, <2>4, <2>5, <2>7 DEF CountsOf
  <2> QED
    BY <1>3, <2>1, <2>2, <2>6, <2>8, OthersCount
<1>9. CASE Finish(w)
  <2>1. /\ pc[w] = "embedding" /\ pc'[w] # "embedding" /\ todo[w] = {} /\ UNCHANGED <<jobEvents, copies>>
        /\ processed' = [processed EXCEPT ![task[w]] = made[w]]
    BY <1>9 DEF Finish, FinalCount, AllBatchesEnded, NextRound, Goto, Types, TypeOK
  <2>2. Holding(w) /\ task[w] \in Jobs /\ made[w] <= Share(task[w], todo[w])
    BY <1>2, <2>1 DEF Holding, Counted
  <2>3. NewShare(task[w], {}) = Share(task[w], todo[w])
    BY <2>1 DEF NewShare, Share
  <2> QED
    BY <1>1, <1>3, <2>1, <2>2, <2>3, OthersCount
\* Nothing is embedded of what is selected; the job's own count is carried on.
<1>10. CASE SelectEvents(w)
  <2>1. /\ pc[w] = "claimed" /\ task' = task /\ todo'[w] = Wanted(task[w]) /\ owed' = owed /\ made' = made
        /\ UNCHANGED <<jobEvents, copies, processed>>
    BY <1>10 DEF SelectEvents, Types, TypeOK
  <2>2. task[w] \in Jobs /\ task[w] \in Created /\ owed[w] = 0 /\ made[w] = 0
    BY <1>2, <2>1 DEF Holding, Types, OnlyWhileEmbedding
  <2>3. NewShare(task[w], todo'[w]) = Share(task[w], {})
    <3>1. {e \in jobEvents[task[w]] : copies[e] > 0} \ Wanted(task[w]) = {e \in jobEvents[task[w]] : copies[e] > 0} \ {}
      BY DEF Wanted
    <3> QED
      BY <2>1, <3>1 DEF NewShare, Share
  <2>4. processed[task[w]] <= Share(task[w], {}) /\ processed[task[w]] \in Nat /\ Share(task[w], {}) \in Nat
    BY <2>2, SharesAreNumbers DEF Counted, Types, TypeOK
  <2>5. Wanted(task[w]) \subseteq jobEvents[task[w]]
    BY DEF Wanted
  <2>6. CountsOf(w)
    BY <2>1, <2>2, <2>3, <2>4, <2>5 DEF CountsOf
  <2>7. \A j \in Jobs : processed'[j] <= NewShare(j, {})
    BY <2>1, CountStays
  <2>8. ASSUME NEW v \in Workers, v # w, pc'[v] = "embedding" PROVE CountsOf(v)
    BY <1>1, <1>3, <2>1, <2>8, WorkerStays DEF OthersStay
  <2> QED
    BY <2>6, <2>7, <2>8, CountedNext
\* The event that is embedded joins the others.
<1>11. ASSUME NEW e \in Events, EmbedBatch(w, e) PROVE Counted'
  <2>1. /\ pc[w] = "embedding" /\ e \in todo[w] /\ UNCHANGED <<jobEvents, processed>> /\ task' = task
        /\ copies' = [copies EXCEPT ![e] = @ + 1]
        /\ todo' = [todo EXCEPT ![w] = @ \ {e}] /\ made' = [made EXCEPT ![w] = @ + 1]
        /\ owed' = [owed EXCEPT ![w] = IF Concurrent THEN @ + 1 ELSE @]
    BY <1>11 DEF EmbedBatch
  <2>2. /\ todo'[w] = todo[w] \ {e} /\ made'[w] = made[w] + 1
        /\ owed'[w] \in Nat /\ owed'[w] <= owed[w] + 1
    <3>1. todo \in [Workers -> SUBSET Events] /\ made \in [Workers -> Nat] /\ owed \in [Workers -> Nat]
      BY DEF Types, TypeOK
    <3>2. todo'[w] = todo[w] \ {e} /\ made'[w] = made[w] + 1 /\ owed'[w] = IF Concurrent THEN owed[w] + 1 ELSE owed[w]
      BY <2>1, <3>1
    <3> QED
      BY <1>1, <3>2
  <2>3. /\ task[w] \in Jobs /\ todo[w] \subseteq jobEvents[task[w]]
        /\ processed[task[w]] + owed[w] <= Share(task[w], todo[w])
        /\ made[w] <= Share(task[w], todo[w])
        /\ processed[task[w]] \in Nat
    BY <1>2, <2>1 DEF Counted, Holding, Types, TypeOK
  <2>4. NewShare(task[w], todo'[w]) = Share(task[w], todo[w]) + 1 /\ Share(task[w], todo[w]) \in Nat
    <3> DEFINE Old == {f \in jobEvents[task[w]] : copies[f] > 0} \ todo[w]
               New == {f \in jobEvents[task[w]] : copies'[f] > 0} \ (todo[w] \ {e})
    <3>1. jobEvents[task[w]] \subseteq Events
      BY <2>3 DEF Types, TypeOK
    <3>2. copies'[e] = copies[e] + 1 /\ copies[e] \in Nat /\ \A f \in Events : f # e => copies'[f] = copies[f]
      BY <2>1 DEF Types, TypeOK
    <3>3. New = Old \cup {e}
      BY <2>1, <2>3, <3>1, <3>2
    <3>4. e \notin Old
      BY <2>1
    <3>5. IsFiniteSet(Old)
      <4>1. IsFiniteSet(jobEvents[task[w]]) /\ Old \subseteq jobEvents[task[w]]
        BY <2>3 DEF JobRows
      <4> QED
        BY <4>1, FS_Subset
    <3> HIDE DEF Old, New
    <3>6. Cardinality(New) = Cardinality(Old) + 1 /\ Cardinality(Old) \in Nat
      BY <3>3, <3>4, <3>5, FS_AddElement, FS_CardinalityType
    <3> QED
      BY <2>1, <2>2, <3>6 DEF Old, New, NewShare, Share
  <2>5. CountsOf(w)
    <3>1. todo'[w] \subseteq jobEvents'[task'[w]]
      BY <2>1, <2>2, <2>3
    <3>2. made[w] + 1 <= Share(task[w], todo[w]) + 1
      BY <1>1, <2>3, <2>4
    <3>3. processed[task[w]] + owed'[w] <= Share(task[w], todo[w]) + 1
      BY <1>1, <2>2, <2>3, <2>4
    <3> QED
      BY <2>1, <2>2, <2>4, <3>1, <3>2, <3>3 DEF CountsOf
  <2>6. \A j \in Jobs : processed'[j] <= NewShare(j, {})
    BY <2>1, CountStays
  <2>7. ASSUME NEW v \in Workers, v # w, pc'[v] = "embedding" PROVE CountsOf(v)
    BY <1>1, <1>3, <2>1, <2>7, WorkerStays DEF OthersStay
  <2> QED
    BY <2>5, <2>6, <2>7, CountedNext
<1> QED
  BY <1>4, <1>5, <1>6, <1>7, <1>8, <1>9, <1>10, <1>11 DEF Proceed, Fault

LEMMA CountsHold == Spec => [](HeldOwned /\ JobRows /\ Counted)
<1> DEFINE Inv == HeldOwned /\ JobRows /\ Counted
<1>1. Init => Inv
  <2> SUFFICES ASSUME Init PROVE Inv
    OBVIOUS
  <2>1. \A w \in Workers : pc[w] = "idle"
    BY DEF Init
  <2>2. \A j \in Jobs : jobEvents[j] = {} /\ processed[j] = 0
    BY DEF Init
  <2>3. JobRows
    BY <2>2, FS_EmptySet DEF JobRows
  <2>4. \A j \in Jobs : Share(j, {}) \in Nat
    BY <2>3, SharesAreNumbers
  <2> QED
    BY <2>1, <2>2, <2>3, <2>4 DEF HeldOwned, Counted, Holding
<1>2. Types /\ Types' /\ Inv /\ [Next]_vars => Inv'
  <2> SUFFICES ASSUME Types, Types', Inv, [Next]_vars PROVE Inv'
    OBVIOUS
  <2>1. Lasting
    BY StepsLast
  <2>2. JobRows'
    BY <2>1, RowsKeep
  <2>3. HeldOwned'
    <3>1. CASE UNCHANGED vars
      BY <3>1 DEF vars, HeldOwned, Holding
    <3>2. CASE Next
      BY <2>1, <3>2, NextCases, SourcesKeepHeld, WorkersKeepHeld, UpkeepKeepsHeld
    <3> QED
      BY <3>1, <3>2
  <2>4. ASSUME overruns' = 0 PROVE Counted'
    <3>1. overruns = 0
      BY <2>1, <2>4, NoOverrunBefore
    <3>2. CASE UNCHANGED vars
      BY <3>2 DEF vars, Counted, Share
    <3>3. CASE Next
      BY <2>1, <2>2, <3>1, <3>3, NextCases, SourcesCount, WorkersCount, UpkeepCounts
    <3> QED
      BY <3>2, <3>3
  <2> QED
    BY <2>2, <2>3, <2>4 DEF Counted
<1> QED
  BY <1>1, <1>2, TypesHold, PTL DEF Spec

\* No job reports more embeddings than it has events, whatever fails and whoever dies,
\* as long as none outlasts the stale threshold.
THEOREM ProgressStaysWithin == Spec => []ProgressWithinJob
<1>1. Types /\ JobRows /\ Counted => ProgressWithinJob
  <2> SUFFICES ASSUME Types, JobRows, Counted, overruns = 0, NEW j \in Jobs PROVE processed[j] <= Cardinality(jobEvents[j])
    BY DEF ProgressWithinJob
  <2>1. processed[j] \in Nat /\ processed[j] <= Share(j, {})
    BY DEF Counted, Types, TypeOK
  <2>2. Share(j, {}) \in Nat /\ Share(j, {}) <= Cardinality(jobEvents[j]) /\ Cardinality(jobEvents[j]) \in Nat
    BY SharesAreNumbers
  <2> QED
    BY <2>1, <2>2
<1> QED
  BY <1>1, TypesHold, CountsHold, PTL

-----------------------------------------------------------------------------
(* An event is embedded once.                                              *)

Once(s, e) == \A k, l \in DOMAIN s : s[k] = e /\ s[l] = e => k = l

InNoJob(e) == \A j \in Jobs : e \notin jobEvents[j]

\* The parse has not come to the queueing of the event.
NotYet(e) == e[2] > parses[e[1]] \/ parse[e[1]] = "inserted"

\* The event is in one place at most on its way, and its way ends with its embedding.
SingleOf(e) ==
  /\ Once(queue, e)
  /\ e \in Items(queue) => e \notin Items(batch) /\ InNoJob(e)
  /\ e \in Items(batch) => InNoJob(e)
  /\ \A j, k \in Jobs : e \in jobEvents[j] /\ e \in jobEvents[k] => j = k
  /\ NotYet(e) => e \notin Items(queue) /\ e \notin Items(batch) /\ InNoJob(e) /\ copies[e] = 0
  /\ copies[e] <= 1
  /\ \A w \in Workers : e \in todo[w] => copies[e] = 0

Singly == overruns = 0 => \A e \in Events : parses[e[1]] <= 1 => SingleOf(e)

LEMMA PutsOnce ==
  ASSUME queue \in Seq(Events), NEW S \in SUBSET Events, IsFiniteSet(S), Put(S),
         NEW e \in Events, Once(queue, e), e \in S => e \notin Items(queue)
  PROVE  Once(queue', e)
<1>1. PICK ids \in Bijection(1 .. Cardinality(S), S) : queue' = queue \o ids
  BY DEF Put
<1>2. /\ ids \in [1 .. Cardinality(S) -> S]
      /\ \A k, l \in 1 .. Cardinality(S) : ids[k] = ids[l] => k = l
  BY <1>1 DEF Bijection, Injection, IsInjective
<1>3. ids \in Seq(Events) /\ Len(ids) = Cardinality(S) /\ Cardinality(S) \in Nat
  BY <1>2, FS_CardinalityType
<1>4. /\ DOMAIN queue' = 1 .. (Len(queue) + Len(ids))
      /\ \A k \in 1 .. (Len(queue) + Len(ids)) : queue'[k] = IF k <= Len(queue) THEN queue[k] ELSE ids[k - Len(queue)]
  BY <1>1, <1>3
<1>5. SUFFICES ASSUME NEW k \in DOMAIN queue', NEW l \in DOMAIN queue', queue'[k] = e, queue'[l] = e PROVE k = l
  BY DEF Once
<1>6. Len(queue) \in Nat /\ k \in Nat /\ l \in Nat /\ DOMAIN queue = 1 .. Len(queue)
  BY <1>4
<1>7. \A i \in 1 .. (Len(queue) + Len(ids)) : i <= Len(queue) => queue[i] \in Items(queue)
  BY <1>6 DEF Items
<1>8. \A i \in 1 .. (Len(queue) + Len(ids)) : i > Len(queue) => i - Len(queue) \in 1 .. Cardinality(S) /\ ids[i - Len(queue)] \in S
  BY <1>2, <1>3, <1>6
<1>9. CASE k <= Len(queue) /\ l <= Len(queue)
  BY <1>4, <1>5, <1>6, <1>9 DEF Once
<1>10. CASE k > Len(queue) /\ l > Len(queue)
  <2>1. k - Len(queue) = l - Len(queue)
    BY <1>2, <1>4, <1>5, <1>8, <1>10
  <2> QED
    BY <1>6, <2>1
<1>11. CASE k <= Len(queue) /\ l > Len(queue)
  BY <1>4, <1>5, <1>7, <1>8, <1>11
<1>12. CASE k > Len(queue) /\ l <= Len(queue)
  BY <1>4, <1>5, <1>7, <1>8, <1>12
<1> QED
  BY <1>6, <1>9, <1>10, <1>11, <1>12

LEMMA SplitsOnce ==
  ASSUME NEW s \in Seq(Events), NEW n \in 0 .. Len(s), NEW e \in Events, Once(s, e)
  PROVE  /\ Once(SubSeq(s, n + 1, Len(s)), e)
         /\ ~(e \in Items(SubSeq(s, 1, n)) /\ e \in Items(SubSeq(s, n + 1, Len(s))))
<1>1. Len(s) \in Nat /\ DOMAIN s = 1 .. Len(s) /\ \A k \in 1 .. Len(s) : s[k] \in Events
  OBVIOUS
<1>2. /\ SubSeq(s, 1, n) \in Seq(Events) /\ Len(SubSeq(s, 1, n)) = n
      /\ \A k \in 1 .. n : SubSeq(s, 1, n)[k] = s[k]
  BY <1>1, SubSeqProperties
<1>3. /\ SubSeq(s, n + 1, Len(s)) \in Seq(Events)
      /\ Len(SubSeq(s, n + 1, Len(s))) = IF n + 1 <= Len(s) THEN Len(s) - (n + 1) + 1 ELSE 0
      /\ \A k \in 1 .. Len(s) - (n + 1) + 1 : SubSeq(s, n + 1, Len(s))[k] = s[n + 1 + k - 1]
  BY <1>1, SubSeqProperties
<1> PICK p, q : p = SubSeq(s, 1, n) /\ q = SubSeq(s, n + 1, Len(s))
  OBVIOUS
<1>4. /\ DOMAIN p = 1 .. n /\ DOMAIN q = 1 .. (Len(s) - n)
      /\ \A k \in 1 .. n : p[k] = s[k]
      /\ \A k \in 1 .. (Len(s) - n) : q[k] = s[n + k]
  BY <1>1, <1>2, <1>3
<1>5. Once(q, e)
  <2> SUFFICES ASSUME NEW k \in 1 .. (Len(s) - n), NEW l \in 1 .. (Len(s) - n), q[k] = e, q[l] = e PROVE k = l
    BY <1>4 DEF Once
  <2>1. n + k \in 1 .. Len(s) /\ n + l \in 1 .. Len(s)
    BY <1>1
  <2>2. n + k = n + l
    BY <1>1, <1>4, <2>1 DEF Once
  <2> QED
    BY <2>2
<1>6. ASSUME e \in Items(p), e \in Items(q) PROVE FALSE
  <2>1. PICK k \in 1 .. n : s[k] = e
    BY <1>4, <1>6 DEF Items
  <2>2. PICK l \in 1 .. (Len(s) - n) : s[n + l] = e
    BY <1>4, <1>6 DEF Items
  <2>3. k \in 1 .. Len(s) /\ n + l \in 1 .. Len(s) /\ k # n + l
    BY <1>1
  <2> QED
    BY <1>1, <2>1, <2>2, <2>3 DEF Once
<1> QED
  BY <1>5, <1>6

\* The event's parse goes on, and it is where it was.
LEMMA SingleStays ==
  ASSUME NEW e \in Events, SingleOf(e), UNCHANGED <<queue, batch, jobEvents, copies>>,
         \A w \in Workers : todo'[w] \subseteq todo[w],
         NotYet(e)' => NotYet(e)
  PROVE  SingleOf(e)'
  BY DEF SingleOf, Once, Items, InNoJob

LEMMA SourcesKeepSingle ==
  ASSUME Types, Types', Lasting, Singly,
         \/ \E a \in Artifacts : Parse(a) \/ QueueingFails(a) \/ ParseRepeats(a)
         \/ Batcher \/ CreateFails \/ BatcherDies \/ RestartWorkerService
  PROVE  Singly'
<1> SUFFICES ASSUME overruns' = 0, NEW e \in Events, parses'[e[1]] <= 1 PROVE SingleOf(e)'
  BY DEF Singly
<1> USE EventsAreOfArtifacts
<1>1. overruns = 0
  BY NoOverrunBefore
<1>2. parses[e[1]] \in Nat /\ parses'[e[1]] \in Nat /\ parses'[e[1]] >= parses[e[1]]
  <2>1. \A a \in Artifacts : parses'[a] \in 0 .. MaxParses
    BY DEF Types, TypeOK
  <2> QED
    BY SMTT(30), ZenonT(40), <2>1, Counts, ConstantsAssumption DEF Types, Lasting
<1>3. SingleOf(e)
  BY <1>1, <1>2 DEF Singly
<1>4. UNCHANGED workers
  BY DEF Parse, Batcher, InsertEvents, QueueEvents, QueueingFails, ParseDone, ParseRepeats, TakeBatch, CreateJobs, CreateFails,
         BatcherDies, RestartWorkerService
<1>5. queue \in Seq(Events) /\ batch \in Seq(Events)
  BY Counts DEF Types
\* The ids of the artifact that are put were nowhere before.
<1>6. ASSUME NEW a \in Artifacts, NEW S \in SUBSET Unembedded(a), Put(S), parse[a] = "inserted", parse'[a] # "inserted",
             UNCHANGED <<parses, batch, jobEvents, copies, todo>>, \A b \in Artifacts : b # a => parse'[b] = parse[b]
      PROVE  SingleOf(e)'
  <2>1. S \subseteq Events /\ IsFiniteSet(S) /\ \A f \in S : f[1] = a /\ f[2] \in 1 .. parses[a]
    BY <1>6, UnembeddedIsFinite DEF Types
  <2>2. queue' \in Seq(Events) /\ Items(queue') = Items(queue) \cup S
    BY <1>5, <1>6, <2>1, PutAdds
  <2>3. e \in S => NotYet(e)
    BY <1>6, <2>1 DEF NotYet
  <2>4. e \in S => e \notin Items(queue) /\ e \notin Items(batch) /\ InNoJob(e) /\ copies[e] = 0
    BY <1>3, <2>3 DEF SingleOf
  <2>5. Once(queue', e)
    BY <1>3, <1>5, <1>6, <2>1, <2>4, PutsOnce DEF SingleOf
  <2>6. NotYet(e)' => NotYet(e) /\ e \notin S
    <3>1. CASE e[1] = a
      <4>1. NotYet(e)' => e[2] > parses[a]
        BY <1>6, <3>1 DEF NotYet
      <4>2. e \in S => e[2] <= parses[a]
        BY <2>1, <1>2, <3>1
      <4>3. e[2] \in Nat /\ parses[a] \in Nat
        BY <1>2, <3>1, ConstantsAssumption
      <4> QED
        BY <3>1, <4>1, <4>2, <4>3 DEF NotYet
    <3>2. CASE e[1] # a
      BY <1>6, <2>1, <3>2 DEF NotYet
    <3> QED
      BY <3>1, <3>2
  <2>7. Items(batch)' = Items(batch) /\ InNoJob(e)' = InNoJob(e)
    BY <1>6 DEF Items, InNoJob
  <2> QED
    BY <1>3, <1>6, <2>2, <2>4, <2>5, <2>6, <2>7 DEF SingleOf, Items
<1>7. ASSUME NEW a \in Artifacts, Parse(a) \/ QueueingFails(a) \/ ParseRepeats(a) PROVE SingleOf(e)'
  <2>1. CASE InsertEvents(a)
    <3>1. UNCHANGED <<queue, batch, jobEvents, copies, todo>>
      BY <2>1 DEF InsertEvents
    <3>2. NotYet(e)' => NotYet(e)
      <4>1. CASE e[1] = a
        <5>1. parses'[a] = parses[a] + 1
          BY <2>1 DEF InsertEvents, Types, TypeOK
        <5>2. parses[e[1]] = 0 /\ e[2] > 0
          BY <1>2, <4>1, <5>1, ConstantsAssumption
        <5> QED
          BY <5>2 DEF NotYet
      <4>2. CASE e[1] # a
        BY <2>1, <4>2 DEF InsertEvents, NotYet, Types, TypeOK
      <4> QED
        BY <4>1, <4>2
    <3> QED
      BY <1>3, <3>1, <3>2, SingleStays
  <2>2. CASE QueueEvents(a)
    <3>1. UNCHANGED <<parses, batch, jobEvents, copies, todo>> /\ parse[a] = "inserted" /\ parse' = [parse EXCEPT ![a] = "queued"]
          /\ Put(Unembedded(a))
      BY <2>2 DEF QueueEvents
    <3>2. parse'[a] = "queued" /\ \A b \in Artifacts : b # a => parse'[b] = parse[b]
      BY <3>1 DEF Types, TypeOK
    <3> QED
      BY <1>6, <3>1, <3>2
  <2>3. CASE QueueingFails(a)
    <3>1. UNCHANGED <<parses, batch, jobEvents, copies, todo>> /\ parse[a] = "inserted" /\ parse' = [parse EXCEPT ![a] = "queued"]
          /\ \E S \in SUBSET Unembedded(a) : Put(S)
      BY <2>3 DEF QueueingFails
    <3>2. parse'[a] = "queued" /\ \A b \in Artifacts : b # a => parse'[b] = parse[b]
      BY <3>1 DEF Types, TypeOK
    <3> QED
      BY <1>6, <3>1, <3>2
  <2>4. CASE ParseDone(a)
    <3>1. UNCHANGED <<queue, batch, jobEvents, copies, todo, parses>> /\ parse' = [parse EXCEPT ![a] = "done"]
      BY <2>4 DEF ParseDone
    <3>2. NotYet(e)' => NotYet(e)
      BY <3>1 DEF NotYet, Types, TypeOK
    <3> QED
      BY <1>3, <3>1, <3>2, SingleStays
  <2>5. CASE ParseRepeats(a)
    <3>1. UNCHANGED <<parses, batch, jobEvents, copies, todo>> /\ parse' = [parse EXCEPT ![a] = "todo"]
      BY <2>5 DEF ParseRepeats
    <3>2. parse'[a] = "todo" /\ \A b \in Artifacts : b # a => parse'[b] = parse[b]
      BY <3>1 DEF Types, TypeOK
    <3>3. CASE parse[a] = "inserted" /\ \E S \in SUBSET Unembedded(a) : Put(S)
      BY <1>6, <3>1, <3>2, <3>3
    <3>4. CASE UNCHANGED queue
      <4>1. NotYet(e)' => NotYet(e)
        BY <3>1, <3>2 DEF NotYet
      <4> QED
        BY <1>3, <3>1, <3>4, <4>1, SingleStays
    <3> QED
      BY <2>5, <3>3, <3>4 DEF ParseRepeats
  <2> QED
    BY <1>7, <2>1, <2>2, <2>3, <2>4, <2>5 DEF Parse
<1>8. CASE TakeBatch
  <2>1. PICK n \in 1 .. Len(queue) : batch' = SubSeq(queue, 1, n) /\ queue' = SubSeq(queue, n + 1, Len(queue))
    BY <1>8 DEF TakeBatch
  <2>2. n \in 0 .. Len(queue)
    OBVIOUS
  <2>3. Items(queue) = Items(batch') \cup Items(queue')
    BY <1>5, <2>1, <2>2, ItemsOfSequences
  <2>4. Once(queue', e) /\ ~(e \in Items(batch') /\ e \in Items(queue'))
    BY <1>3, <1>5, <2>1, <2>2, SplitsOnce DEF SingleOf
  <2>5. UNCHANGED <<parses, parse, jobEvents, copies, todo>>
    BY <1>8 DEF TakeBatch
  <2>6. NotYet(e)' = NotYet(e) /\ InNoJob(e)' = InNoJob(e)
    BY <2>5 DEF NotYet, InNoJob
  <2>7. Items(batch)' = Items(batch') /\ Items(queue)' = Items(queue')
    BY DEF Items
  <2> QED
    BY <1>3, <2>3, <2>4, <2>5, <2>6, <2>7 DEF SingleOf
<1>9. CASE CreateJobs
  <2>1. PICK n \in Nat, m \in Nat : \E inv \in Bijection((n + 1) .. m, Groups) :
           jobEvents' = [j \in Jobs |-> IF j \in (n + 1) .. m THEN Group(inv[j]) ELSE jobEvents[j]]
    BY <1>9, CreateJobsCreates
  <2>2. PICK inv \in Bijection((n + 1) .. m, Groups) :
           jobEvents' = [j \in Jobs |-> IF j \in (n + 1) .. m THEN Group(inv[j]) ELSE jobEvents[j]]
    BY <2>1
  <2>3. \A j \in (n + 1) .. m : e \in Group(inv[j]) => e \in Items(batch) /\ inv[j] = InvOfEvent(e)
    BY DEF Group
  <2>4. \A j, k \in (n + 1) .. m : inv[j] = inv[k] => j = k
    BY <2>2 DEF Bijection, Injection, IsInjective
  <2>5. batch' = <<>> /\ UNCHANGED <<parse, parses, queue, copies, todo>>
    BY <1>9 DEF CreateJobs
  <2>6. e \notin Items(batch)' /\ Items(queue)' = Items(queue) /\ Once(queue, e)' = Once(queue, e) /\ NotYet(e)' = NotYet(e)
    BY <2>5 DEF Items, Once, NotYet
  <2>7. CASE e \in Items(batch)
    <3>1. \A j \in Jobs : e \in jobEvents'[j] => j \in (n + 1) .. m
      BY <1>3, <2>2, <2>7 DEF SingleOf, InNoJob
    <3>2. \A j, k \in Jobs : e \in jobEvents'[j] /\ e \in jobEvents'[k] => j = k
      BY <2>2, <2>3, <2>4, <3>1
    <3>3. e \notin Items(queue) /\ ~NotYet(e)
      BY <1>3, <2>7 DEF SingleOf
    <3> QED
      BY <1>3, <2>5, <2>6, <3>2, <3>3 DEF SingleOf
  <2>8. CASE e \notin Items(batch)
    <3>1. \A j \in Jobs : e \in jobEvents'[j] => e \in jobEvents[j]
      BY <2>2, <2>3, <2>8
    <3>2. InNoJob(e) => InNoJob(e)'
      BY <3>1 DEF InNoJob
    <3> QED
      BY <1>3, <2>5, <2>6, <3>1, <3>2 DEF SingleOf
  <2> QED
    BY <2>7, <2>8
<1>10. CASE CreateFails \/ BatcherDies \/ RestartWorkerService
  <2>1. UNCHANGED <<parses, jobEvents, copies, todo>> /\ batch' = <<>> /\ (queue' = queue \/ queue' = <<>>)
    BY <1>10 DEF CreateFails, BatcherDies, RestartWorkerService
  <2>2. e \notin Items(batch)' /\ (e \in Items(queue)' => e \in Items(queue))
    BY <2>1 DEF Items
  <2>3. Once(queue, e)'
    BY <1>3, <2>1 DEF SingleOf, Once
  <2>4. NotYet(e)' => NotYet(e)
    BY <1>10 DEF CreateFails, BatcherDies, RestartWorkerService, NotYet, Types, TypeOK
  <2>5. InNoJob(e)' = InNoJob(e)
    BY <2>1 DEF InNoJob
  <2> QED
    BY <1>3, <2>1, <2>2, <2>3, <2>4, <2>5 DEF SingleOf
<1> QED
  BY <1>7, <1>8, <1>9, <1>10 DEF Batcher

\* The worker that embeds the event is the only one that has selected it.
LEMMA WorkersKeepSingle ==
  ASSUME Types, Types', Lasting, HeldOwned, Counted, Singly, NEW w \in Workers, Proceed(w) \/ Fault(w)
  PROVE  Singly'
<1> SUFFICES ASSUME overruns' = 0, NEW e \in Events, parses'[e[1]] <= 1 PROVE SingleOf(e)'
  BY DEF Singly
<1>1. overruns = 0
  BY NoOverrunBefore
<1>2. UNCHANGED <<parsers, inMemory, jobEvents>>
  BY DEF Proceed, Fault, Claim, LoseClaim, Assign, Rest, Wake, SelectEvents, NothingToEmbed, SkipJob, CompleteEmpty, EmbedBatch,
         BatchFails, ReportProgress, ReportFails, Finish, JobRaises, MarkFailed, MarkFailedRaises
<1>3. SingleOf(e)
  BY <1>1, <1>2 DEF Singly
<1>4. /\ Once(queue, e)' = Once(queue, e) /\ Items(queue)' = Items(queue) /\ Items(batch)' = Items(batch)
      /\ InNoJob(e)' = InNoJob(e) /\ NotYet(e)' = NotYet(e)
  BY <1>2 DEF Once, Items, InNoJob, NotYet
<1>5. CASE SelectEvents(w)
  <2>1. UNCHANGED copies /\ todo' = [todo EXCEPT ![w] = Wanted(task[w])]
    BY <1>5 DEF SelectEvents
  <2>2. \A v \in Workers : e \in todo'[v] => copies[e] = 0
    <3>1. \A v \in Workers : todo'[v] = todo[v] \/ todo'[v] = Wanted(task[w])
      BY <2>1 DEF Types, TypeOK
    <3> QED
      BY <1>3, <3>1 DEF Wanted, SingleOf
  <2> QED
    BY <1>2, <1>3, <1>4, <2>1, <2>2 DEF SingleOf
<1>6. ASSUME NEW f \in Events, EmbedBatch(w, f) PROVE SingleOf(e)'
  <2>1. /\ pc[w] = "embedding" /\ f \in todo[w]
        /\ copies' = [copies EXCEPT ![f] = @ + 1] /\ todo' = [todo EXCEPT ![w] = @ \ {f}]
    BY <1>6 DEF EmbedBatch
  <2>2. \A v \in Workers : todo'[v] = IF v = w THEN todo[v] \ {f} ELSE todo[v]
    BY <2>1 DEF Types, TypeOK
  <2>3. CASE e # f
    <3>1. copies'[e] = copies[e]
      BY <2>1, <2>3 DEF Types, TypeOK
    <3> QED
      BY <1>2, <1>3, <1>4, <2>2, <3>1 DEF SingleOf
  <2>4. CASE e = f
    <3>1. copies[e] = 0 /\ copies'[e] = copies[e] + 1
      BY <1>3, <2>1, <2>4 DEF SingleOf, Types, TypeOK
    <3>2. \A v \in Workers : e \in todo[v] => Holding(v) /\ task[v] \in Jobs /\ e \in jobEvents[task[v]]
      BY <1>1 DEF Counted, Types, OnlyWhileEmbedding, HeldExists, Holding, Created
    <3>3. \A v \in Workers : e \in todo[v] => v = w
      <4>1. ASSUME NEW v \in Workers, e \in todo[v] PROVE v = w
        <5>1. task[v] = task[w]
          BY <1>3, <2>1, <2>4, <3>2, <4>1 DEF SingleOf
        <5> QED
          BY <1>1, <2>1, <2>4, <3>2, <4>1, <5>1, OneHolder
      <4> QED
        BY <4>1
    <3>4. \A v \in Workers : e \notin todo'[v]
      BY <2>2, <2>4, <3>3
    <3>5. ~NotYet(e)
      BY <1>3, <2>1, <2>4, <3>2 DEF SingleOf, InNoJob
    <3> QED
      BY <1>2, <1>3, <1>4, <3>1, <3>4, <3>5 DEF SingleOf
  <2> QED
    BY <2>3, <2>4
<1>7. CASE \/ Claim(w) \/ LoseClaim(w) \/ Rest(w) \/ Wake(w) \/ NothingToEmbed(w) \/ SkipJob(w) \/ ReportProgress(w)
           \/ ReportFails(w) \/ Finish(w) \/ JobRaises(w) \/ MarkFailed(w) \/ MarkFailedRaises(w)
           \/ \E f \in Events : BatchFails(w, f)
  <2>1. UNCHANGED copies
    BY <1>7 DEF Claim, LoseClaim, Rest, Wake, NothingToEmbed, SkipJob, CompleteEmpty, ReportProgress, ReportFails, Finish, JobRaises,
         MarkFailed, MarkFailedRaises, BatchFails
  <2>2. \/ todo' = todo \/ todo' = [todo EXCEPT ![w] = {}]
        \/ \E f \in Events : todo' = [todo EXCEPT ![w] = @ \ {f}]
    BY <1>7 DEF Claim, LoseClaim, Rest, Wake, NothingToEmbed, SkipJob, CompleteEmpty, ReportProgress, ReportFails, Finish, JobRaises,
         MarkFailed, MarkFailedRaises, BatchFails, NextRound, Drop
  <2>3. \A v \in Workers : todo'[v] \subseteq todo[v]
    BY ZenonT(40), <2>2 DEF Types, TypeOK
  <2> QED
    BY <1>2, <1>3, <1>4, <2>1, <2>3, SingleStays
<1> QED
  BY <1>5, <1>6, <1>7 DEF Proceed, Fault

LEMMA UpkeepKeepsSingle ==
  ASSUME Types, Lasting, Singly, Upkeep
  PROVE  Singly'
<1> SUFFICES ASSUME overruns' = 0, NEW e \in Events, parses'[e[1]] <= 1 PROVE SingleOf(e)'
  BY DEF Singly
<1>1. overruns = 0
  BY NoOverrunBefore
<1>2. UNCHANGED <<parsers, inMemory, jobEvents, copies>>
  BY UpkeepResets
<1>3. SingleOf(e) /\ NotYet(e)' = NotYet(e)
  BY <1>1, <1>2 DEF Singly, NotYet
<1>4. \A w \in Workers : todo'[w] \subseteq todo[w]
  BY UpkeepMovesOrDrops DEF UpkeepMoves
<1> QED
  BY <1>2, <1>3, <1>4, SingleStays

\* An event has at most one embedding, whichever workers die and whatever fails, as long as
\* no job outlasts the stale threshold and its artifact is not parsed twice.
THEOREM EventsEmbeddedOnce == Spec => []EmbeddedOnce
<1>1. Init => Singly
  <2> SUFFICES ASSUME Init, NEW e \in Events PROVE SingleOf(e)
    BY DEF Singly
  <2> USE EventsAreOfArtifacts
  <2>1. copies[e] = 0
    BY DEF Init
  <2>2. e \notin Items(queue) /\ e \notin Items(batch) /\ Once(queue, e)
    BY DEF Init, Items, Once
  <2>3. InNoJob(e) /\ \A w \in Workers : todo[w] = {}
    BY DEF Init, InNoJob
  <2> QED
    BY <2>1, <2>2, <2>3 DEF SingleOf, InNoJob
<1>2. Types /\ Types' /\ HeldOwned /\ Counted /\ Singly /\ [Next]_vars => Singly'
  <2> SUFFICES ASSUME Types, Types', HeldOwned, Counted, Singly, [Next]_vars PROVE Singly'
    OBVIOUS
  <2>1. Lasting
    BY StepsLast
  <2>2. CASE UNCHANGED vars
    BY <2>2 DEF vars, Singly, SingleOf, Once, Items, InNoJob, NotYet
  <2>3. CASE Next
    BY <2>1, <2>3, NextCases, SourcesKeepSingle, WorkersKeepSingle, UpkeepKeepsSingle
  <2> QED
    BY <2>2, <2>3
<1>3. Types /\ Singly => EmbeddedOnce
  <2> SUFFICES ASSUME Singly, overruns = 0, NEW e \in Events, parses[e[1]] = 1 PROVE copies[e] <= 1
    BY DEF EmbeddedOnce
  <2>1. parses[e[1]] <= 1
    OBVIOUS
  <2> QED
    BY <2>1 DEF Singly, SingleOf
<1> QED
  BY <1>1, <1>2, <1>3, TypesHold, CountsHold, PTL DEF Spec
=============================================================================
