-------------------------- MODULE ChatMessagesProofs --------------------------
(***************************************************************************)
(* Theorems about ChatMessages, for every number of questions,             *)
(* continuations, jobs, runs and tools, and for every budget of faults.    *)
(***************************************************************************)
EXTENDS ChatMessages, TLAPS, WellFoundedInduction, SequenceTheorems

-----------------------------------------------------------------------------
(* The operators.                                                          *)

LEMMA Greatest ==
  ASSUME NEW n \in Nat, NEW S, S \subseteq 1 .. n, S # {}
  PROVE  \E m \in S : \A k \in S : k <= m
<1> DEFINE T == {n - k : k \in S}
<1>1. T \subseteq Nat
  OBVIOUS
<1>2. T # {}
  <2>1. PICK k \in S : TRUE
    OBVIOUS
  <2>2. n - k \in T
    OBVIOUS
  <2> QED
    BY <2>2
<1>3. PICK x \in T : \A y \in T : ~ (<<y, x>> \in OpToRel(<, Nat))
  BY <1>1, <1>2, WFMin, NatLessThanWellFounded
<1>4. \A y \in T : x <= y
  <2> HIDE DEF T
  <2> SUFFICES ASSUME NEW y \in T PROVE x <= y
    OBVIOUS
  <2>1. <<y, x>> \in Nat \X Nat /\ ~(y < x)
    BY <1>1, <1>3 DEF OpToRel
  <2> QED
    BY <2>1
<1>5. PICK m \in S : x = n - m
  BY <1>3
<1>6. \A k \in S : n - m <= n - k
  BY <1>4, <1>5
<1> QED
  BY <1>6

LEMMA LastOfIsLast ==
  ASSUME NEW n \in Nat, NEW S, S \subseteq 1 .. n
  PROVE  /\ LastOf(S) \in 0 .. n
         /\ S = {} => LastOf(S) = 0
         /\ S # {} => LastOf(S) \in S /\ \A k \in S : k <= LastOf(S)
<1>1. CASE S = {}
  BY <1>1 DEF LastOf
<1>2. CASE S # {}
  <2>1. PICK m \in S : \A k \in S : k <= m
    BY <1>2, Greatest
  <2>2. LastOf(S) \in S /\ \A k \in S : k <= LastOf(S)
    BY <1>2, <2>1 DEF LastOf
  <2>3. LastOf(S) \in 1 .. n
    BY <2>2
  <2>4. 1 .. n \subseteq 0 .. n
    OBVIOUS
  <2> QED
    BY <1>2, <2>2, <2>3, <2>4
<1> QED
  BY <1>1, <1>2

\* The two things that happen to the messages.
Rewritten(m, data) ==
  /\ chat' \in Seq(Metadata) /\ Len(chat') = Len(chat) /\ DOMAIN chat' = DOMAIN chat
  /\ \A n \in DOMAIN chat : chat'[n] = IF n = m THEN data ELSE chat[n]
Added(data) ==
  /\ chat' \in Seq(Metadata) /\ Len(chat') = Len(chat) + 1
  /\ DOMAIN chat' = DOMAIN chat \union {Len(chat) + 1} /\ Len(chat) + 1 \notin DOMAIN chat
  /\ \A n \in DOMAIN chat : chat'[n] = chat[n]
  /\ chat'[Len(chat) + 1] = data

LEMMA RewriteRewrites ==
  ASSUME chat \in Seq(Metadata), NEW m \in DOMAIN chat, NEW data \in Metadata, Rewrite(m, data)
  PROVE  Rewritten(m, data)
  BY ExceptSeq, LenProperties DEF Rewrite, Rewritten

LEMMA AppendAdds ==
  ASSUME chat \in Seq(Metadata), NEW data \in Metadata, chat' = Append(chat, data)
  PROVE  Added(data)
<1>1. chat' \in Seq(Metadata) /\ Len(chat') = Len(chat) + 1
  BY AppendProperties
<1>2. DOMAIN chat' = 1 .. Len(chat) + 1 /\ DOMAIN chat = 1 .. Len(chat) /\ Len(chat) \in Nat
  BY <1>1, LenProperties
<1> QED
  BY <1>1, <1>2, AppendProperties DEF Added

-----------------------------------------------------------------------------
(* Types.                                                                  *)

\* What a handler has in its hands.
Hands == [phase : {"idle", "loaded", "missing"}, about : Jobs \union {0}, msg : Nat, data : Metadata]

\* The types, and that what a process names is there.
Types ==
  /\ TypeOK
  /\ call \in [Jobs -> Hands] /\ cseen \in [Continues -> Hands]
  /\ \A q \in Questions :
       /\ qpc[q] # "new" => qmsg[q] \in DOMAIN chat
       /\ qpc[q] = "queued" => qjob[q] \in Jobs
  /\ \A c \in Continues : cpc[c] = "marking" => cseen[c].msg \in DOMAIN chat /\ cjob[c] \in Jobs
  /\ \A j \in Jobs :
       /\ next[j] # "nothing" => status[j] = "running" /\ run[j] \in 1 .. MaxRuns
       /\ next[j] = "tool" => step[j] < MaxSteps
       /\ call[j].phase # "idle" => call[j].about \in Jobs /\ next[j] \in Reports
       /\ call[j].phase = "loaded" => call[j].msg \in DOMAIN chat
       /\ call[j].phase # "loaded" => call[j].data = Thinking /\ call[j].msg = 0

LEMMA ThinkingIsMetadata == Thinking \in Metadata
<1>1. <<>> \in Seq(Events)
  BY EmptySeq
<1> QED
  BY <1>1 DEF Thinking, Metadata

LEMMA InitTypes == Init => Types
<1> SUFFICES ASSUME Init PROVE Types
  OBVIOUS
<1>1. chat \in Seq(Metadata) /\ Len(chat) = 0
  BY EmptySeq DEF Init
<1>2. Idle \in Hands
  BY ThinkingIsMetadata DEF Idle, Hands
<1>3. /\ Idle.phase = "idle" /\ Idle.about = 0 /\ Idle.msg = 0 /\ Idle.data = Thinking
  BY DEF Idle
<1>4. TypeOK
  <2>1. 0 \in 0 .. Len(chat) /\ 0 \in 0 .. MaxRuns /\ 0 \in 0 .. MaxSteps /\ 0 \in 0 .. MaxFaults
    BY <1>1, ChatConstantsAssumption
  <2>2. \A c \in Continues : cseen[c] = Idle
    BY DEF Init
  <2>3. \A j \in Jobs : call[j] = Idle
    BY DEF Init
  <2> QED
    BY <1>1, <1>3, <2>1, <2>2, <2>3, ThinkingIsMetadata DEF Init, TypeOK
<1> QED
  BY <1>1, <1>2, <1>3, <1>4 DEF Init, Types

LEMMA MessagesAreMetadata ==
  ASSUME Types
  PROVE  /\ chat \in Seq(Metadata) /\ Len(chat) \in Nat /\ DOMAIN chat = 1 .. Len(chat)
         /\ \A m \in DOMAIN chat : chat[m] \in Metadata
  BY LenProperties, ElementOfSeq DEF Types, TypeOK

\* What the handlers write is metadata.
LEMMA AnswersAreMetadata ==
  /\ [Thinking EXCEPT !.kind = "answer", !.waiting = FALSE] \in Metadata
  /\ [Thinking EXCEPT !.kind = "error", !.waiting = FALSE] \in Metadata
  /\ \A j \in Jobs : JobMetadata(j) \in Metadata
  /\ \A j \in Jobs : [Thinking EXCEPT !.kind = "started", !.job = j, !.stream = j, !.waiting = FALSE] \in Metadata
  /\ \A d \in Metadata : [d EXCEPT !.kind = "deleted"] \in Metadata /\ [d EXCEPT !.waiting = TRUE] \in Metadata
  BY ThinkingIsMetadata DEF Metadata, JobMetadata

LEMMA RecordedIsMetadata ==
  ASSUME Types, NEW j \in Jobs, next[j] \in Reports, NEW data \in Metadata, NEW k \in 1 .. MaxSteps + 1
  PROVE  /\ Recorded(j, k, data) \in Metadata
         /\ Recorded(j, k, data).events = Append(data.events, [job |-> j, run |-> run[j], step |-> k])
         /\ [job |-> j, run |-> run[j], step |-> k] \in Events
<1>1. [job |-> j, run |-> run[j], step |-> k] \in Events
  BY DEF Types, Events, Reports
<1>2. Append(data.events, [job |-> j, run |-> run[j], step |-> k]) \in Seq(Events)
  BY <1>1, AppendProperties DEF Metadata
<1> QED
  BY <1>1, <1>2 DEF Recorded, Metadata

LEMMA StepsAreCounted ==
  ASSUME Types, NEW j \in Jobs
  PROVE  step[j] \in Nat /\ step[j] + 1 \in 1 .. MaxSteps + 1
  BY ChatConstantsAssumption DEF Types, TypeOK

LEMMA NewMetadataIsMetadata ==
  ASSUME Types, NEW j \in Jobs, call[j].phase = "loaded"
  PROVE  NewMetadata(j) \in Metadata
<1>1. call[j].data \in Metadata /\ call[j].about \in Jobs /\ next[j] \in Reports
  BY DEF Types, Hands
<1>2. Recorded(j, step[j] + 1, call[j].data) \in Metadata
  BY <1>1, StepsAreCounted, RecordedIsMetadata
<1>3. Started(call[j].about, call[j].data) \in Metadata
  BY <1>1 DEF Started, Metadata
<1>4. Finished(j, call[j].data) \in Metadata
  BY <1>1, <1>2 DEF Finished, Metadata
<1> QED
  BY <1>2, <1>3, <1>4 DEF NewMetadata

\* What LastOf finds among the messages is there.
LEMMA FoundIsThere ==
  ASSUME Types, NEW j \in Jobs
  PROVE  /\ LET m == Streaming(j)
            IN  /\ m \in 0 .. Len(chat)
                /\ m = 0 => \A n \in DOMAIN chat : chat[n].stream # j
                /\ m # 0 => m \in DOMAIN chat /\ chat[m].stream = j
         /\ LET m == LastOf({n \in DOMAIN chat : chat[n].job = j})
            IN  /\ m \in 0 .. Len(chat)
                /\ m = 0 => \A n \in DOMAIN chat : chat[n].job # j
                /\ m # 0 => m \in DOMAIN chat /\ chat[m].job = j
<1>1. ASSUME NEW S, S \subseteq DOMAIN chat
      PROVE  LastOf(S) \in 0 .. Len(chat) /\ (LastOf(S) = 0 => S = {}) /\ (LastOf(S) # 0 => LastOf(S) \in S)
  BY <1>1, MessagesAreMetadata, LastOfIsLast
<1>2. {n \in DOMAIN chat : chat[n].stream = j} \subseteq DOMAIN chat
  OBVIOUS
<1>3. {n \in DOMAIN chat : chat[n].job = j} \subseteq DOMAIN chat
  OBVIOUS
<1>4. /\ Streaming(j) \in 0 .. Len(chat)
      /\ Streaming(j) = 0 => \A n \in DOMAIN chat : chat[n].stream # j
      /\ Streaming(j) # 0 => Streaming(j) \in DOMAIN chat /\ chat[Streaming(j)].stream = j
  BY <1>1, <1>2 DEF Streaming
<1> DEFINE m == LastOf({n \in DOMAIN chat : chat[n].job = j})
<1>5. /\ m \in 0 .. Len(chat)
      /\ m = 0 => \A n \in DOMAIN chat : chat[n].job # j
      /\ m # 0 => m \in DOMAIN chat /\ chat[m].job = j
  BY <1>1, <1>3
<1> HIDE DEF m
<1> QED
  BY <1>4, <1>5 DEF m

LEMMA LatestIsAJob ==
  ASSUME Types, NEW j \in Jobs, status[j] # "absent"
  PROVE  LatestJob \in Jobs /\ status[LatestJob] # "absent" /\ \A k \in Jobs : status[k] # "absent" => k <= LatestJob
<1>1. {k \in Jobs : status[k] # "absent"} \subseteq 1 .. MaxJobs /\ j \in {k \in Jobs : status[k] # "absent"}
  BY DEF Jobs
<1> QED
  BY <1>1, LastOfIsLast, ChatConstantsAssumption DEF LatestJob, Jobs

\* Whatever happens to the messages, those that a process names stay.
LEMMA MessagesStay ==
  ASSUME Types, \/ chat' = chat
                \/ \E m \in DOMAIN chat, d \in Metadata : Rewritten(m, d)
                \/ \E d \in Metadata : Added(d)
  PROVE  /\ chat' \in Seq(Metadata) /\ Len(chat) <= Len(chat') /\ Len(chat') \in Nat
         /\ 0 .. Len(chat) \subseteq 0 .. Len(chat') /\ DOMAIN chat \subseteq DOMAIN chat'
         /\ \A m \in DOMAIN chat' : chat'[m] \in Metadata
         /\ DOMAIN chat' = 1 .. Len(chat')
<1>1. chat' \in Seq(Metadata) /\ Len(chat) <= Len(chat') /\ DOMAIN chat \subseteq DOMAIN chat'
  BY MessagesAreMetadata DEF Rewritten, Added
<1>2. Len(chat') \in Nat /\ DOMAIN chat' = 1 .. Len(chat')
  BY <1>1, LenProperties
<1>3. 0 .. Len(chat) \subseteq 0 .. Len(chat')
  BY <1>1, <1>2, MessagesAreMetadata
<1>4. \A m \in DOMAIN chat' : chat'[m] \in Metadata
  BY <1>1, <1>2, ElementOfSeq
<1> QED
  BY <1>1, <1>2, <1>3, <1>4

Moved ==
  /\ chat' \in Seq(Metadata)
  /\ 0 .. Len(chat) \subseteq 0 .. Len(chat') /\ DOMAIN chat \subseteq DOMAIN chat'

\* A question that goes on elsewhere; the rest is as it was, but for the messages.
LEMMA GoingOnKeepsTypes ==
  ASSUME Types, Moved, NEW q \in Questions, qpc[q] # "new", NEW state \in {"answering", "done", "raised", "left"},
         Goto(q, state), UNCHANGED <<qmsg, qjob, continues, jobs, runs, call, raced, budgets>>
  PROVE  Types'
  BY DEF Types, TypeOK, Moved, Goto, continues, jobs, runs, budgets

\* A job is created; whoever asked for it takes note of it.
LEMMA CreationKeepsTypes ==
  ASSUME Types, NEW j \in Jobs, NEW m \in 0 .. Len(chat), CreateJob(j, m), UNCHANGED <<chat, qmsg, runs, call, raced, budgets>>,
         qpc' \in [Questions -> {"new", "routing", "answering", "queued", "done", "raised", "left"}],
         qjob' \in [Questions -> Jobs \union {0}],
         \A q \in Questions : /\ qpc'[q] # "new" => qpc[q] # "new"
                              /\ qpc'[q] = "queued" => qjob'[q] \in Jobs,
         cpc' \in [Continues -> {"new", "marking", "done"}],
         cjob' \in [Continues -> Jobs \union {0}],
         cseen' \in [Continues -> Hands],
         \A c \in Continues : /\ cseen'[c].msg \in 0 .. Len(chat) /\ cseen'[c].data \in Metadata
                              /\ cpc'[c] = "marking" => cseen'[c].msg \in DOMAIN chat /\ cjob'[c] \in Jobs
  PROVE  Types'
<1>1. reuse' \in [Jobs -> 0 .. Len(chat)] /\ status' \in [Jobs -> {"absent", "pending", "running", "ended"}]
  BY DEF CreateJob, Types, TypeOK
<1>2. \A k \in Jobs : status[k] # "absent" => status'[k] = status[k]
  BY DEF CreateJob, Types, TypeOK
<1>3. UNCHANGED <<chat, qmsg, run, next, step, call, raced, losses, repeats>>
  BY DEF runs, budgets
<1>4. TypeOK'
  <2>1. /\ chat' \in Seq(Metadata) /\ qmsg' \in [Questions -> 0 .. Len(chat')] /\ reuse' \in [Jobs -> 0 .. Len(chat')]
        /\ run' \in [Jobs -> 0 .. MaxRuns] /\ step' \in [Jobs -> 0 .. MaxSteps]
        /\ next' \in [Jobs -> Reports \union {"nothing", "verdict"}]
        /\ raced' \in BOOLEAN /\ losses' \in 0 .. MaxFaults /\ repeats' \in 0 .. MaxFaults
    BY <1>1, <1>3 DEF Types, TypeOK
  <2>2. \A k \in Jobs :
          /\ call'[k].phase \in {"idle", "loaded", "missing"} /\ call'[k].about \in Jobs \union {0}
          /\ call'[k].msg \in 0 .. Len(chat') /\ call'[k].data \in Metadata
    BY <1>3 DEF Types, TypeOK
  <2>3. \A c \in Continues : cseen'[c].msg \in 0 .. Len(chat') /\ cseen'[c].data \in Metadata
    BY <1>3
  <2> QED
    BY <1>1, <2>1, <2>2, <2>3 DEF TypeOK
<1>5. \A k \in Jobs : next[k] # "nothing" => status'[k] = "running"
  BY <1>2 DEF Types
<1>6. \A k \in Jobs :
        /\ next'[k] # "nothing" => status'[k] = "running" /\ run'[k] \in 1 .. MaxRuns
        /\ next'[k] = "tool" => step'[k] < MaxSteps
        /\ call'[k].phase # "idle" => call'[k].about \in Jobs /\ next'[k] \in Reports
        /\ call'[k].phase = "loaded" => call'[k].msg \in DOMAIN chat'
        /\ call'[k].phase # "loaded" => call'[k].data = Thinking /\ call'[k].msg = 0
  BY <1>3, <1>5 DEF Types
<1>7. \A q \in Questions :
       /\ qpc'[q] # "new" => qmsg'[q] \in DOMAIN chat'
       /\ qpc'[q] = "queued" => qjob'[q] \in Jobs
  BY <1>3 DEF Types
<1>8. \A c \in Continues : cpc'[c] = "marking" => cseen'[c].msg \in DOMAIN chat' /\ cjob'[c] \in Jobs
  BY <1>3
<1>9. call' \in [Jobs -> Hands]
  BY <1>3 DEF Types
<1> QED
  BY <1>4, <1>6, <1>7, <1>8, <1>9 DEF Types

LEMMA QuestionsKeepTypes ==
  ASSUME Types, NEW q \in Questions, Ask(q) \/ Route(q) \/ Leave(q)
  PROVE  Types'
<1> USE DEF Types, TypeOK
<1>1. CASE Ask(q)
  <2>1. Added(Thinking)
    BY <1>1, AppendAdds, ThinkingIsMetadata DEF Ask
  <2>2. Moved /\ Len(chat) + 1 \in DOMAIN chat' /\ Len(chat) + 1 \in 0 .. Len(chat')
    BY <2>1, MessagesStay, ThinkingIsMetadata, MessagesAreMetadata DEF Moved, Added
  <2> QED
    BY <1>1, <2>2 DEF Ask, Moved, Goto, continues, jobs, runs, budgets
<1>2. CASE \/ RouteRaises(q) \/ Answer(q) \/ Postpone(q) \/ Leave(q)
  <2>1. Moved
    BY <1>2 DEF RouteRaises, Answer, Postpone, Leave, Moved
  <2>2. qpc[q] # "new" /\ UNCHANGED <<qmsg, qjob, continues, jobs, runs, call, raced, budgets>>
    BY <1>2 DEF RouteRaises, Answer, Postpone, Leave
  <2>3. PICK state \in {"answering", "done", "raised", "left"} : Goto(q, state)
    BY <1>2 DEF RouteRaises, Answer, Postpone, Leave
  <2> HIDE DEF Types, TypeOK
  <2> QED
    BY <2>1, <2>2, <2>3, GoingOnKeepsTypes
<1>3. CASE Deliver(q) \/ ReportError(q) \/ Clarify(q) \/ AttachJob(q)
  <2>1. qmsg[q] \in DOMAIN chat /\ chat[qmsg[q]] \in Metadata /\ (qpc[q] = "queued" => qjob[q] \in Jobs)
    BY <1>3, MessagesAreMetadata DEF Deliver, ReportError, Clarify, AttachJob
  <2>2. PICK d \in Metadata : Rewrite(qmsg[q], d)
    BY <1>3, <2>1, AnswersAreMetadata DEF Deliver, ReportError, Clarify, AttachJob
  <2>3. Moved
    BY <2>1, <2>2, RewriteRewrites, MessagesStay DEF Moved
  <2>4. /\ qpc[q] # "new" /\ UNCHANGED <<qmsg, qjob, continues, jobs, runs, call, raced, budgets>>
        /\ Goto(q, "done")
    BY <1>3 DEF Deliver, ReportError, Clarify, AttachJob
  <2> QED
    BY <2>3, <2>4, GoingOnKeepsTypes
<1>4. CASE QueueJob(q)
  <2>1. PICK j \in Jobs : CreateJob(j, 0) /\ qjob' = [qjob EXCEPT ![q] = j]
    BY <1>4 DEF QueueJob
  <2>2. 0 \in 0 .. Len(chat)
    BY MessagesAreMetadata
  <2>3. UNCHANGED <<chat, qmsg, continues, runs, call, raced, budgets>> /\ qpc' = [qpc EXCEPT ![q] = "queued"] /\ qpc[q] = "routing"
    BY <1>4 DEF QueueJob, Goto
  <2>4. qpc' \in [Questions -> {"new", "routing", "answering", "queued", "done", "raised", "left"}]
    BY <2>3
  <2>5. qjob' \in [Questions -> Jobs \union {0}]
    BY <2>1
  <2>6. \A p \in Questions : /\ qpc'[p] # "new" => qpc[p] # "new"
                             /\ qpc'[p] = "queued" => qjob'[p] \in Jobs
    BY <2>1, <2>3
  <2>7. UNCHANGED <<cpc, cjob, cseen>>
    BY <2>3 DEF continues
  <2> QED
    BY <2>1, <2>2, <2>3, <2>4, <2>5, <2>6, <2>7, CreationKeepsTypes
<1> QED
  BY <1>1, <1>2, <1>3, <1>4 DEF Route

LEMMA HandsAreFull ==
  ASSUME Types, NEW m \in DOMAIN chat, NEW about \in Jobs
  PROVE  Loaded(about, m, chat[m]) \in Hands /\ Missing(about) \in Hands /\ Idle \in Hands
  BY MessagesAreMetadata, ThinkingIsMetadata DEF Loaded, Missing, Idle, Hands

LEMMA HandsMayBeEmpty ==
  ASSUME NEW about \in Jobs
  PROVE  Missing(about) \in Hands /\ Idle \in Hands
  BY ThinkingIsMetadata DEF Missing, Idle, Hands

LEMMA ContinuationsKeepTypes ==
  ASSUME Types, NEW c \in Continues, Continue(c) \/ MarkContinuing(c)
  PROVE  Types'
<1> USE DEF Types, TypeOK
<1>1. CASE Continue(c)
  <2>1. PICK j \in Jobs, n \in Jobs :
          /\ status[j] \in {"pending", "ended"}
          /\ LET m == LastOf({k \in DOMAIN chat : chat[k].job = j})
             IN  /\ CreateJob(n, m)
                 /\ cjob' = [cjob EXCEPT ![c] = n]
                 /\ IF m = 0
                    THEN cpc' = [cpc EXCEPT ![c] = "done"] /\ UNCHANGED cseen
                    ELSE /\ cpc'   = [cpc EXCEPT ![c] = "marking"]
                         /\ cseen' = [cseen EXCEPT ![c] = Loaded(n, m, chat[m])]
    BY <1>1, Zenon DEF Continue
  <2> DEFINE m == LastOf({k \in DOMAIN chat : chat[k].job = j})
  <2>2. m \in 0 .. Len(chat) /\ (m # 0 => m \in DOMAIN chat)
    <3> HIDE DEF Types, TypeOK
    <3> QED
      BY FoundIsThere
  <2>3. /\ CreateJob(n, m) /\ cjob' = [cjob EXCEPT ![c] = n]
        /\ m = 0 => cpc' = [cpc EXCEPT ![c] = "done"] /\ cseen' = cseen
        /\ m # 0 => cpc' = [cpc EXCEPT ![c] = "marking"] /\ cseen' = [cseen EXCEPT ![c] = Loaded(n, m, chat[m])]
    <3> HIDE DEF Types, TypeOK
    <3> QED
      BY <2>1
  <2> HIDE DEF m
  <2>4. m # 0 => /\ Loaded(n, m, chat[m]) \in Hands /\ Loaded(n, m, chat[m]).msg = m
                 /\ Loaded(n, m, chat[m]).data = chat[m] /\ chat[m] \in Metadata
    BY <2>2, HandsAreFull, MessagesAreMetadata DEF Loaded
  <2>5. PICK s \in {"marking", "done"} : cpc' = [cpc EXCEPT ![c] = s]
    BY <2>3
  <2>6. /\ cpc' \in [Continues -> {"new", "marking", "done"}] /\ cjob' \in [Continues -> Jobs \union {0}]
        /\ cseen' \in [Continues -> Hands]
    <3>1. cpc' \in [Continues -> {"new", "marking", "done"}]
      BY <2>5
    <3>2. cjob' \in [Continues -> Jobs \union {0}]
      BY <2>3
    <3>3. CASE m = 0
      BY <2>3, <3>1, <3>2, <3>3
    <3>4. CASE m # 0
      <4>1. cseen' = [cseen EXCEPT ![c] = Loaded(n, m, chat[m])] /\ Loaded(n, m, chat[m]) \in Hands
        BY <2>3, <2>4, <3>4
      <4>2. cseen \in [Continues -> Hands]
        OBVIOUS
      <4> HIDE DEF Types, TypeOK
      <4> QED
        BY <3>1, <3>2, <4>1, <4>2
    <3> QED
      BY <3>3, <3>4
  <2>7. ASSUME NEW e \in Continues
        PROVE  /\ cseen'[e].msg \in 0 .. Len(chat) /\ cseen'[e].data \in Metadata
               /\ cpc'[e] = "marking" => cseen'[e].msg \in DOMAIN chat /\ cjob'[e] \in Jobs
    <3>1. CASE e = c
      BY <2>2, <2>3, <2>4, <3>1
    <3>2. CASE e # c
      <4>1. cpc'[e] = cpc[e] /\ cjob'[e] = cjob[e]
        BY <2>3, <2>5, <3>2
      <4>2. cseen'[e] = cseen[e]
        BY <2>3, <3>2
      <4> QED
        BY <4>1, <4>2
    <3> QED
      BY <3>1, <3>2
  <2>8. UNCHANGED <<chat, qpc, qmsg, qjob, runs, call, raced, budgets>>
    BY <1>1 DEF Continue, questions
  <2> QED
    BY <2>2, <2>3, <2>6, <2>7, <2>8, CreationKeepsTypes
<1>2. CASE MarkContinuing(c)
  <2>1. cseen[c].msg \in DOMAIN chat /\ [cseen[c].data EXCEPT !.waiting = TRUE] \in Metadata
    BY <1>2, AnswersAreMetadata DEF MarkContinuing
  <2>2. Moved
    BY <1>2, <2>1, RewriteRewrites, MessagesStay DEF MarkContinuing, Moved
  <2>3. Idle \in Hands /\ Idle.msg = 0 /\ Idle.data = Thinking /\ 0 \in 0 .. Len(chat)
    BY ThinkingIsMetadata, MessagesAreMetadata DEF Idle, Hands
  <2>4. /\ cpc' = [cpc EXCEPT ![c] = "done"] /\ cseen' = [cseen EXCEPT ![c] = Idle]
        /\ UNCHANGED <<qpc, qmsg, qjob, cjob, status, reuse, run, next, step, call, raced, losses, repeats>>
    BY <1>2 DEF MarkContinuing, questions, jobs, runs, budgets
  <2>5. /\ cpc' \in [Continues -> {"new", "marking", "done"}] /\ cseen' \in [Continues -> Hands]
        /\ \A e \in Continues : cpc'[e] = "marking" => cpc[e] = "marking" /\ cseen'[e] = cseen[e]
    BY <2>3, <2>4
  <2>6. \A e \in Continues : cseen'[e].msg \in 0 .. Len(chat') /\ cseen'[e].data \in Metadata
    BY <2>2, <2>3, <2>4, ThinkingIsMetadata DEF Moved
  <2>7. /\ qmsg' \in [Questions -> 0 .. Len(chat')] /\ reuse' \in [Jobs -> 0 .. Len(chat')]
        /\ \A j \in Jobs : call'[j].msg \in 0 .. Len(chat')
    BY <2>2, <2>4 DEF Moved
  <2>8. TypeOK'
    BY <2>2, <2>4, <2>5, <2>6, <2>7 DEF Moved
  <2> QED
    BY <2>2, <2>4, <2>5, <2>8 DEF Moved
<1> QED
  BY <1>1, <1>2

\* A report is answered: the hands are empty, and the run goes on or reports again.
Answered(j) ==
  /\ call' \in [Jobs -> Hands] /\ next' \in [Jobs -> Reports \union {"nothing", "verdict"}]
  /\ step' \in [Jobs -> 0 .. MaxSteps] /\ run' = run
  /\ call'[j] = Idle
  /\ next'[j] # "nothing" /\ (next'[j] = "tool" => step'[j] < MaxSteps)
  /\ \A k \in Jobs : k # j => call'[k] = call[k] /\ next'[k] = next[k] /\ step'[k] = step[k]

LEMMA IdleIsEmpty ==
  Idle \in Hands /\ Idle.phase = "idle" /\ Idle.data = Thinking /\ Idle.msg = 0 /\ Idle.about = 0
  BY ThinkingIsMetadata DEF Idle, Hands

LEMMA ReportedAnswers ==
  ASSUME Types, NEW j \in Jobs, next[j] \in Reports, Reported(j)
  PROVE  Answered(j)
<1>1. PICK n \in After(j) : next' = [next EXCEPT ![j] = n]
  BY DEF Reported
<1>2. n \in Reports \union {"verdict"} /\ (n = "tool" => step[j] + (IF next[j] = "tool" THEN 1 ELSE 0) < MaxSteps)
  BY DEF After, Reports
<1>3. step[j] \in 0 .. MaxSteps /\ (next[j] = "tool" => step[j] + 1 \in 0 .. MaxSteps)
  BY ChatConstantsAssumption DEF Types, TypeOK
<1>5. call' \in [Jobs -> Hands] /\ call' = [call EXCEPT ![j] = Idle]
  BY IdleIsEmpty DEF Reported, Types
<1>6. next' \in [Jobs -> Reports \union {"nothing", "verdict"}]
  BY <1>1, <1>2 DEF Types, TypeOK
<1>7. /\ step' = [step EXCEPT ![j] = IF next[j] = "tool" THEN @ + 1 ELSE @] /\ run' = run
      /\ step' \in [Jobs -> 0 .. MaxSteps]
  BY <1>3 DEF Reported, Types, TypeOK
<1>8. next'[j] # "nothing" /\ (next'[j] = "tool" => step'[j] < MaxSteps)
  BY <1>1, <1>2, <1>3, <1>7 DEF Types, TypeOK, Reports
<1> QED
  BY <1>1, <1>5, <1>6, <1>7, <1>8 DEF Answered, Types, TypeOK

\* A report is answered; the rest is as it was, but for the messages and the budgets.
LEMMA AnsweredKeepsTypes ==
  ASSUME Types, Moved, NEW j \in Jobs, next[j] \in Reports, Answered(j),
         losses' \in 0 .. MaxFaults, repeats' \in 0 .. MaxFaults,
         UNCHANGED <<questions, continues, jobs, raced>>
  PROVE  Types'
<1>1. TypeOK'
  <2>1. \A k \in Jobs : /\ call'[k].phase \in {"idle", "loaded", "missing"}
                        /\ call'[k].about \in Jobs \union {0}
                        /\ call'[k].msg \in 0 .. Len(chat')
                        /\ call'[k].data \in Metadata
    <3> SUFFICES ASSUME NEW k \in Jobs
                 PROVE  /\ call'[k].phase \in {"idle", "loaded", "missing"}
                        /\ call'[k].about \in Jobs \union {0}
                        /\ call'[k].msg \in 0 .. Len(chat')
                        /\ call'[k].data \in Metadata
      OBVIOUS
    <3>1. CASE k = j
      <4>1. 0 \in 0 .. Len(chat')
        BY MessagesAreMetadata DEF Moved
      <4> QED
        BY <3>1, <4>1, IdleIsEmpty, ThinkingIsMetadata DEF Answered
    <3>2. CASE k # j
      BY <3>2 DEF Answered, Types, TypeOK, Moved
    <3> QED
      BY <3>1, <3>2
  <2>2. \A d \in Continues : cseen'[d].msg \in 0 .. Len(chat') /\ cseen'[d].data \in Metadata
    BY DEF Types, TypeOK, Moved, continues
  <2>3. qmsg' \in [Questions -> 0 .. Len(chat')] /\ reuse' \in [Jobs -> 0 .. Len(chat')]
    BY DEF Types, TypeOK, Moved, questions, jobs
  <2> QED
    BY <2>1, <2>2, <2>3 DEF Answered, Types, TypeOK, Moved, questions, continues, jobs
<1>2. \A k \in Jobs :
       /\ next'[k] # "nothing" => status'[k] = "running" /\ run'[k] \in 1 .. MaxRuns
       /\ next'[k] = "tool" => step'[k] < MaxSteps
       /\ call'[k].phase # "idle" => call'[k].about \in Jobs /\ next'[k] \in Reports
       /\ call'[k].phase = "loaded" => call'[k].msg \in DOMAIN chat'
       /\ call'[k].phase # "loaded" => call'[k].data = Thinking /\ call'[k].msg = 0
  <2> SUFFICES ASSUME NEW k \in Jobs
               PROVE  /\ next'[k] # "nothing" => status'[k] = "running" /\ run'[k] \in 1 .. MaxRuns
                      /\ next'[k] = "tool" => step'[k] < MaxSteps
                      /\ call'[k].phase # "idle" => call'[k].about \in Jobs /\ next'[k] \in Reports
                      /\ call'[k].phase = "loaded" => call'[k].msg \in DOMAIN chat'
                      /\ call'[k].phase # "loaded" => call'[k].data = Thinking /\ call'[k].msg = 0
    OBVIOUS
  <2>1. next[j] # "nothing" /\ UNCHANGED <<status, run>>
    BY DEF Reports, Answered, jobs
  <2>2. CASE k = j
    BY <2>1, <2>2, IdleIsEmpty DEF Answered, Types
  <2>3. CASE k # j
    <3>1. next'[k] = next[k] /\ step'[k] = step[k] /\ call'[k] = call[k] /\ status'[k] = status[k] /\ run'[k] = run[k]
      BY <2>1, <2>3 DEF Answered
    <3>2. DOMAIN chat \subseteq DOMAIN chat'
      BY DEF Moved
    <3> QED
      BY <3>1, <3>2 DEF Types
  <2> QED
    BY <2>2, <2>3
<1> QED
  BY <1>1, <1>2 DEF Answered, Types, TypeOK, Moved, questions, continues

\* A report is looked up.
LEMMA TakenUpKeepsTypes ==
  ASSUME Types, NEW j \in Jobs, next[j] \in Reports, NEW h \in Hands,
         h.about \in Jobs, h.phase # "idle", h.msg \in 0 .. Len(chat),
         h.phase = "loaded" => h.msg \in DOMAIN chat,
         h.phase # "loaded" => h.data = Thinking /\ h.msg = 0,
         call' = [call EXCEPT ![j] = h], raced' \in BOOLEAN,
         UNCHANGED <<chat, questions, continues, jobs, runs, budgets>>
  PROVE  Types'
<1>1. call' \in [Jobs -> Hands] /\ call'[j] = h /\ \A k \in Jobs : k # j => call'[k] = call[k]
  BY DEF Types
<1>2. TypeOK'
  BY <1>1 DEF Types, TypeOK, Hands, questions, continues, jobs, runs, budgets
<1> QED
  BY <1>1, <1>2 DEF Types, questions, continues, jobs, runs, budgets

\* What a worker may find for its report.
LEMMA LookedFor ==
  ASSUME Types, NEW j \in Jobs, Look(j)
  PROVE  /\ LatestJob \in Jobs
         /\ LET m == IF next[j] = "start" /\ reuse[LatestJob] # 0 THEN reuse[LatestJob] ELSE Streaming(LatestJob)
            IN  /\ m \in 0 .. Len(chat) /\ (m # 0 => m \in DOMAIN chat)
                /\ call' = [call EXCEPT ![j] = IF m = 0 THEN Missing(LatestJob) ELSE Loaded(LatestJob, m, chat[m])]
                /\ raced' = (raced \/ BeingAttached(j, m))
<1>1. status[j] = "running" /\ next[j] \in Reports
  BY DEF Look, Reports, Types
<1>2. LatestJob \in Jobs
  BY <1>1, LatestIsAJob
<1>3. Streaming(LatestJob) \in 0 .. Len(chat) /\ reuse[LatestJob] \in 0 .. Len(chat)
  BY <1>2, FoundIsThere DEF Types, TypeOK
<1>4. \A m \in 0 .. Len(chat) : m # 0 => m \in DOMAIN chat
  BY MessagesAreMetadata
<1> DEFINE m == IF next[j] = "start" /\ reuse[LatestJob] # 0 THEN reuse[LatestJob] ELSE Streaming(LatestJob)
<1>5. /\ call' = [call EXCEPT ![j] = IF m = 0 THEN Missing(LatestJob) ELSE Loaded(LatestJob, m, chat[m])]
      /\ raced' = (raced \/ BeingAttached(j, m))
  BY DEF Look
<1>6. m \in 0 .. Len(chat)
  BY <1>3
<1> HIDE DEF m
<1> QED
  BY <1>2, <1>4, <1>5, <1>6 DEF m

LEMMA ReportsKeepTypes ==
  ASSUME Types, NEW j \in Jobs, Report(j)
  PROVE  Types'
<1>1. CASE Look(j)
  <2> DEFINE m == IF next[j] = "start" /\ reuse[LatestJob] # 0 THEN reuse[LatestJob] ELSE Streaming(LatestJob)
             h == IF m = 0 THEN Missing(LatestJob) ELSE Loaded(LatestJob, m, chat[m])
  <2>1. LatestJob \in Jobs /\ m \in 0 .. Len(chat) /\ (m # 0 => m \in DOMAIN chat) /\ call' = [call EXCEPT ![j] = h]
        /\ raced' = (raced \/ BeingAttached(j, m))
    BY <1>1, LookedFor
  <2> HIDE DEF m
  <2>2. h \in Hands
    BY <2>1, HandsAreFull, HandsMayBeEmpty
  <2>3. /\ h.about \in Jobs /\ h.phase # "idle" /\ h.msg \in 0 .. Len(chat)
        /\ h.phase = "loaded" => h.msg \in DOMAIN chat
        /\ h.phase # "loaded" => h.data = Thinking /\ h.msg = 0
    BY <2>1, MessagesAreMetadata DEF Missing, Loaded
  <2>4. raced' \in BOOLEAN
    BY <2>1 DEF Types, TypeOK, BeingAttached
  <2> HIDE DEF h
  <2> QED
    BY <1>1, <2>1, <2>2, <2>3, <2>4, TakenUpKeepsTypes DEF Look
<1>2. CASE LookAgain(j)
  <2> DEFINE about == call[j].about
             new == [Thinking EXCEPT !.kind = "started", !.job = about, !.stream = about, !.waiting = FALSE]
  <2>1. about \in Jobs /\ next[j] \in Reports /\ raced' \in BOOLEAN /\ losses' \in 0 .. MaxFaults /\ repeats' \in 0 .. MaxFaults
    BY <1>2 DEF LookAgain, Types, TypeOK, budgets
  <2>2. CASE Streaming(about) # 0
    <3>1. Streaming(about) \in DOMAIN chat /\ Streaming(about) \in 0 .. Len(chat)
      BY <2>1, <2>2, FoundIsThere
    <3> DEFINE h == Loaded(about, Streaming(about), chat[Streaming(about)])
    <3>2. h \in Hands /\ h.about \in Jobs /\ h.phase = "loaded" /\ h.msg \in DOMAIN chat /\ h.msg \in 0 .. Len(chat)
      BY <2>1, <3>1, HandsAreFull DEF Loaded
    <3>3. call' = [call EXCEPT ![j] = h] /\ UNCHANGED <<chat, questions, continues, jobs, runs, budgets>>
      BY <1>2, <2>2 DEF LookAgain
    <3> HIDE DEF h
    <3> QED
      BY <2>1, <3>2, <3>3, TakenUpKeepsTypes
  <2>3. CASE Streaming(about) = 0
    <3>1. chat' = Append(chat, new) /\ Reported(j) /\ UNCHANGED <<questions, continues, jobs, raced>>
      BY <1>2, <2>3 DEF LookAgain
    <3>2. new \in Metadata
      BY <2>1, AnswersAreMetadata
    <3>3. Moved
      BY <3>1, <3>2, AppendAdds, MessagesAreMetadata, MessagesStay DEF Moved
    <3> QED
      BY <2>1, <3>1, <3>3, ReportedAnswers, AnsweredKeepsTypes
  <2> QED
    BY <2>2, <2>3
<1>3. CASE Drop(j) \/ Skip(j)
  <2>1. Moved /\ Reported(j) /\ UNCHANGED <<questions, continues, jobs, raced, budgets>>
    BY <1>3, MessagesAreMetadata DEF Drop, Skip, Moved
  <2>2. next[j] \in Reports
    BY <1>3 DEF Drop, Skip, Types
  <2>3. losses' \in 0 .. MaxFaults /\ repeats' \in 0 .. MaxFaults
    BY <2>1 DEF Types, TypeOK, budgets
  <2> QED
    BY <2>1, <2>2, <2>3, ReportedAnswers, AnsweredKeepsTypes
<1>4. CASE Store(j)
  <2>1. call[j].msg \in DOMAIN chat /\ NewMetadata(j) \in Metadata /\ next[j] \in Reports
    BY <1>4, NewMetadataIsMetadata DEF Store, Types
  <2>2. Moved
    BY <1>4, <2>1, RewriteRewrites, MessagesAreMetadata, MessagesStay DEF Store, Moved
  <2>3. CASE Reported(j) /\ UNCHANGED repeats
    BY <1>4, <2>1, <2>2, <2>3, ReportedAnswers, AnsweredKeepsTypes DEF Store, Types, TypeOK
  <2>4. CASE /\ losses + repeats < MaxFaults
             /\ repeats' = repeats + 1
             /\ call' = [call EXCEPT ![j] = Idle]
             /\ UNCHANGED runs
    <3>1. repeats' \in 0 .. MaxFaults
      BY <2>4, ChatConstantsAssumption DEF Types, TypeOK
    <3>2. Answered(j)
      BY <2>1, <2>4, IdleIsEmpty DEF Answered, Types, TypeOK, runs, Reports
    <3> QED
      BY <1>4, <2>1, <2>2, <3>1, <3>2, AnsweredKeepsTypes DEF Store, Types, TypeOK
  <2> QED
    BY <1>4, <2>3, <2>4 DEF Store
<1> QED
  BY <1>1, <1>2, <1>3, <1>4 DEF Report

LEMMA RunsKeepTypes ==
  ASSUME Types, NEW j \in Jobs, Begin(j) \/ Verdict(j) \/ RunFails(j) \/ RunBreaks(j) \/ Lose(j)
  PROVE  Types'
<1>1. CASE Begin(j)
  <2>1. run[j] + 1 \in 1 .. MaxRuns /\ run[j] + 1 \in 0 .. MaxRuns /\ 0 \in 0 .. MaxSteps
    BY <1>1, ChatConstantsAssumption DEF Begin, Types, TypeOK
  <2>2. next[j] = "nothing"
    BY <1>1 DEF Begin, Types
  <2> QED
    BY <1>1, <2>1, <2>2 DEF Begin, Types, TypeOK, Reports, questions, continues, budgets
<1>2. CASE Verdict(j) \/ RunBreaks(j) \/ RunFails(j)
  <2>1. /\ UNCHANGED <<chat, questions, continues, reuse, run, step, call, raced, repeats>>
        /\ next' = [next EXCEPT ![j] = "nothing"]
        /\ losses' \in 0 .. MaxFaults
    BY <1>2, ChatConstantsAssumption DEF Verdict, RunFails, RunBreaks, Types, TypeOK, budgets
  <2>2. PICK s \in {"ended", "pending"} : status' = [status EXCEPT ![j] = s]
    BY <1>2 DEF Verdict, RunFails, RunBreaks
  <2>3. call[j].phase = "idle"
    BY <1>2 DEF Verdict, RunFails, RunBreaks, Idle, Types, Reports
  <2>4. TypeOK'
    BY <2>1, <2>2 DEF Types, TypeOK, questions, continues
  <2> QED
    BY <2>1, <2>2, <2>3, <2>4 DEF Types, TypeOK, questions, continues
<1>3. CASE Lose(j)
  <2>1. losses' \in 0 .. MaxFaults
    BY <1>3, ChatConstantsAssumption DEF Lose, Types, TypeOK
  <2>2. Moved /\ repeats' \in 0 .. MaxFaults
    BY <1>3, MessagesAreMetadata DEF Lose, Moved, Types, TypeOK
  <2> QED
    BY <1>3, <2>1, <2>2, ReportedAnswers, AnsweredKeepsTypes DEF Lose
<1> QED
  BY <1>1, <1>2, <1>3

LEMMA StepKeepsTypes == Types /\ [Next]_vars => Types'
<1> SUFFICES ASSUME Types, [Next]_vars PROVE Types'
  OBVIOUS
<1>1. CASE UNCHANGED vars
  BY <1>1 DEF vars, Types, TypeOK, questions, continues, jobs, runs, budgets
<1>2. CASE Next
  BY <1>2, QuestionsKeepTypes, ContinuationsKeepTypes, ReportsKeepTypes, RunsKeepTypes DEF Next
<1> QED
  BY <1>1, <1>2

LEMMA AlwaysTypes == Spec => []Types
  BY InitTypes, StepKeepsTypes, PTL DEF Spec

\* Every reachable state is well typed (chat.py, chat_broadcast.py).
THEOREM TypeCorrect == Spec => []TypeOK
<1>1. Types => TypeOK
  BY DEF Types
<1> QED
  BY <1>1, AlwaysTypes, PTL

-----------------------------------------------------------------------------
(* Whose message it is.  Jobs come one after the other, and no report is   *)
(* ahead of the API.                                                       *)

Open == {"pending", "running"}

\* Jobs are created in their order, one after the other, and the endpoint finds the
\* one that reports.
OneByOne ==
  /\ \A j, k \in Jobs : k < j /\ status[j] # "absent" => status[k] # "absent"
  /\ \A j, k \in Jobs : status[j] \in Open /\ status[k] # "absent" => k <= j
  /\ \A j \in Jobs : status[j] = "absent" => reuse[j] = 0
  /\ \A j \in Jobs : call[j].phase # "idle" => call[j].about = j

\* A message that a job is attached to names it twice, and is the one that the job
\* reuses, if it does; what is recorded there is of that job or of an earlier one that
\* it was taken over from.
Linked ==
  \A m \in DOMAIN chat :
    /\ chat[m].stream = chat[m].job
    /\ chat[m].job # 0 => status[chat[m].job] # "absent" /\ reuse[chat[m].job] \in {0, m}
Reused == \A j \in Jobs : reuse[j] # 0 => chat[reuse[j]].job # 0
Own(m, d) ==
  \A n \in DOMAIN d.events :
    \/ d.job = d.events[n].job
    \/ \E k \in Jobs : reuse[k] = m /\ d.events[n].job < k /\ k <= d.job
Owned == \A m \in DOMAIN chat : Own(m, chat[m])
Single == \A m, n \in DOMAIN chat : chat[m].job # 0 /\ chat[m].job = chat[n].job => m = n

\* A question that is not answered has its message for itself, and its job none yet.
Unanswered == {q \in Questions : qpc[q] \in {"routing", "answering", "queued"}}
Asked ==
  /\ \A q \in Unanswered : chat[qmsg[q]] = Thinking
  /\ \A p, q \in Questions : p # q /\ qpc[p] # "new" /\ qpc[q] # "new" => qmsg[p] # qmsg[q]
Unattached(j) == status[j] # "absent" /\ reuse[j] = 0 /\ \A m \in DOMAIN chat : chat[m].job # j
Queued ==
  /\ \A q \in Questions : qpc[q] = "queued" => Unattached(qjob[q])
  /\ \A p, q \in Questions : p # q /\ qpc[p] = "queued" /\ qpc[q] = "queued" => qjob[p] # qjob[q]

\* What a report has loaded is what its message says, and nobody is about to write there.
LookedUp ==
  \A j \in Jobs :
    /\ call[j].phase = "loaded" =>
         /\ chat[call[j].msg] = call[j].data
         /\ IF next[j] = "start" /\ reuse[j] # 0 THEN call[j].msg = reuse[j] ELSE call[j].data.job = j
         /\ \A c \in Continues : cpc[c] = "marking" => cseen[c].msg # call[j].msg
    /\ call[j].phase = "missing" =>
         /\ \A m \in DOMAIN chat : chat[m].job # j
         /\ next[j] = "start" => reuse[j] = 0
    /\ call[j].phase # "idle" => \A q \in Questions : qpc[q] = "queued" => qjob[q] # j

\* What a continuation has loaded is what the message says, but that it waits.
Continued ==
  \A c \in Continues : cpc[c] = "marking" =>
    LET m == cseen[c].msg
        d == cseen[c].data
    IN  /\ d.job # 0 /\ d.job = chat[m].job /\ d.stream = chat[m].stream /\ d.events = chat[m].events
        /\ reuse[cjob[c]] = m

Orderly == OneByOne /\ Linked /\ Reused /\ Owned /\ Single /\ Asked /\ Queued /\ LookedUp /\ Continued

LEMMA InitOrderly == Init => Orderly
<1> SUFFICES ASSUME Init PROVE Orderly
  OBVIOUS
<1>1. DOMAIN chat = {}
  BY EmptySeq, LenProperties DEF Init
<1>2. \A j \in Jobs : call[j].phase = "idle" /\ reuse[j] = 0 /\ status[j] = "absent"
  BY IdleIsEmpty DEF Init
<1>3. \A q \in Questions : qpc[q] = "new"
  BY DEF Init
<1>4. \A c \in Continues : cpc[c] = "new"
  BY DEF Init
<1>5. OneByOne /\ Linked /\ Reused /\ Owned /\ Single
  BY <1>1, <1>2 DEF OneByOne, Linked, Reused, Owned, Single, Open
<1>6. Asked /\ Queued /\ LookedUp /\ Continued
  BY <1>2, <1>3, <1>4 DEF Asked, Unanswered, Queued, LookedUp, Continued
<1> QED
  BY <1>5, <1>6 DEF Orderly

LEMMA OneAtATime ==
  ASSUME Types, OneByOne, NEW j \in Jobs, status[j] \in Open
  PROVE  /\ \A k \in Jobs : status[k] \in Open => k = j
         /\ \A k \in Jobs : call[k].phase # "idle" => k = j
         /\ \A k \in Jobs : next[k] # "nothing" => k = j
<1>1. \A k \in Jobs : status[k] \in Open => k = j
  BY DEF OneByOne, Open, Jobs
<1>2. \A k \in Jobs : call[k].phase # "idle" => next[k] # "nothing"
  BY DEF Types, Reports
<1>3. \A k \in Jobs : next[k] # "nothing" => status[k] \in Open
  BY DEF Types, Open
<1> QED
  BY <1>1, <1>2, <1>3

\* A new job is the first of those that are absent, and finds none at work.
LEMMA JobsComeInOrder ==
  ASSUME Types, OneByOne, ~Overlap, NEW j \in Jobs, NEW m \in Nat, CreateJob(j, m), UNCHANGED call
  PROVE  /\ OneByOne'
         /\ \A k \in Jobs : call[k].phase = "idle" /\ next[k] = "nothing"
         /\ status[j] = "absent" /\ status'[j] = "pending" /\ reuse[j] = 0 /\ reuse'[j] = m
         /\ \A k \in Jobs : k # j => status'[k] = status[k] /\ reuse'[k] = reuse[k]
<1>1. \A k \in Jobs : status[k] \notin Open
  BY DEF CreateJob, Open
<1>2. \A k \in Jobs : call[k].phase = "idle" /\ next[k] = "nothing"
  BY <1>1 DEF Types, Reports, Open, Hands
<1>3. /\ status[j] = "absent" /\ status'[j] = "pending" /\ reuse'[j] = m
      /\ \A k \in Jobs : k # j => status'[k] = status[k] /\ reuse'[k] = reuse[k]
  BY DEF CreateJob, Types, TypeOK
<1>4. reuse[j] = 0
  BY <1>3 DEF OneByOne
<1>5. \A i, k \in Jobs : k < i /\ status'[i] # "absent" => status'[k] # "absent"
  BY <1>3 DEF CreateJob, OneByOne, Jobs
<1>6. \A i, k \in Jobs : status'[i] \in Open /\ status'[k] # "absent" => k <= i
  BY <1>1, <1>3 DEF OneByOne, Jobs
<1>7. OneByOne'
  BY <1>2, <1>3, <1>5, <1>6 DEF OneByOne
<1> QED
  BY <1>2, <1>3, <1>4, <1>7

LEMMA ThinkingFields == Thinking.job = 0 /\ Thinking.stream = 0 /\ Thinking.events = <<>> /\ Thinking.waiting
  BY DEF Thinking

\* The message of a question that is not answered is no job's.
LEMMA NobodysMessage ==
  ASSUME Types, Orderly, NEW q \in Unanswered
  PROVE  /\ qmsg[q] \in DOMAIN chat /\ chat[qmsg[q]] = Thinking
         /\ \A j \in Jobs : reuse[j] # qmsg[q]
         /\ \A j \in Jobs : call[j].phase = "loaded" => call[j].msg # qmsg[q]
         /\ \A c \in Continues : cpc[c] = "marking" => cseen[c].msg # qmsg[q]
<1>1. q \in Questions /\ qpc[q] # "new"
  BY DEF Unanswered
<1>2. qmsg[q] \in DOMAIN chat /\ qmsg[q] # 0
  BY <1>1, MessagesAreMetadata DEF Types
<1>3. chat[qmsg[q]] = Thinking /\ chat[qmsg[q]].job = 0
  BY ThinkingFields DEF Orderly, Asked
<1>4. \A j \in Jobs : reuse[j] # qmsg[q]
  BY <1>2, <1>3 DEF Orderly, Reused
<1>5. \A j \in Jobs : call[j].phase = "loaded" => call[j].msg # qmsg[q]
  BY <1>3, <1>4 DEF Orderly, LookedUp, Jobs
<1>6. \A c \in Continues : cpc[c] = "marking" => cseen[c].msg # qmsg[q]
  BY <1>3 DEF Orderly, Continued
<1> QED
  BY <1>2, <1>3, <1>4, <1>5, <1>6

LEMMA AsksStayOrderly ==
  ASSUME Types, Orderly, NEW q \in Questions, Ask(q)
  PROVE  Orderly'
<1>1. Added(Thinking) /\ qmsg' = [qmsg EXCEPT ![q] = Len(chat) + 1] /\ qpc' = [qpc EXCEPT ![q] = "routing"] /\ qpc[q] = "new"
  BY MessagesAreMetadata, ThinkingIsMetadata, AppendAdds DEF Ask, Goto
<1>2. qmsg'[q] = Len(chat) + 1 /\ qpc'[q] = "routing" /\ \A p \in Questions : p # q => qmsg'[p] = qmsg[p] /\ qpc'[p] = qpc[p]
  BY <1>1 DEF Types, TypeOK
<1>3. UNCHANGED <<qjob, cpc, cjob, cseen, status, reuse, next, call>>
  BY DEF Ask, continues, jobs, runs
<1>4. \A m \in DOMAIN chat' : m \in DOMAIN chat \/ chat'[m] = Thinking
  BY <1>1 DEF Added
<1>5. OneByOne'
  BY <1>3 DEF Orderly, OneByOne
<1>6. Linked'
  BY <1>1, <1>3, <1>4, ThinkingFields DEF Orderly, Linked, Added
<1>7. Reused'
  BY <1>1, <1>3, MessagesAreMetadata DEF Orderly, Reused, Added, Types, TypeOK
<1>8. Owned'
  <2> SUFFICES ASSUME NEW m \in DOMAIN chat' PROVE Own(m, chat[m])'
    BY DEF Owned
  <2>1. CASE m \in DOMAIN chat
    <3>1. Own(m, chat[m]) /\ chat'[m] = chat[m]
      BY <1>1, <2>1 DEF Orderly, Owned, Added
    <3> QED
      BY <1>3, <3>1 DEF Own
  <2>2. CASE chat'[m] = Thinking
    BY <2>2, ThinkingFields DEF Own
  <2> QED
    BY <1>4, <2>1, <2>2
<1>9. Single'
  BY <1>1, <1>4, ThinkingFields DEF Orderly, Single, Added
<1>10. Asked'
  <2>1. \A p \in Questions : p # q /\ qpc'[p] # "new" => qmsg'[p] \in DOMAIN chat /\ qmsg'[p] = qmsg[p] /\ qpc'[p] = qpc[p]
    BY <1>2 DEF Types
  <2>2. qmsg'[q] \notin DOMAIN chat /\ chat'[qmsg'[q]] = Thinking
    BY <1>1, <1>2 DEF Added
  <2>3. \A p \in Unanswered' : p = q \/ p \in Unanswered
    BY <1>2 DEF Unanswered
  <2>4. \A p \in Unanswered' : p \in Questions /\ qpc'[p] # "new"
    BY DEF Unanswered
  <2> QED
    BY <1>1, <2>1, <2>2, <2>3, <2>4 DEF Orderly, Asked, Added
<1>11. Queued'
  <2>1. \A p \in Questions : qpc'[p] = "queued" => qpc[p] = "queued" /\ qjob[p] # 0
    BY <1>2 DEF Types, Jobs
  <2>2. \A p \in Questions : qpc[p] = "queued" => Unattached(qjob[p])'
    BY <1>1, <1>3, <1>4, <2>1, ThinkingFields DEF Orderly, Queued, Unattached, Added, Types, Jobs
  <2> QED
    BY <1>3, <2>1, <2>2 DEF Orderly, Queued
<1>12. LookedUp'
  <2>1. \A p \in Questions : qpc'[p] = "queued" => qpc[p] = "queued"
    BY <1>2
  <2> QED
    BY <1>1, <1>3, <1>4, <2>1, ThinkingFields DEF Orderly, LookedUp, Added, Types, Jobs
<1>13. Continued'
  BY <1>1, <1>3 DEF Orderly, Continued, Added, Types
<1> QED
  BY <1>5, <1>6, <1>7, <1>8, <1>9, <1>10, <1>11, <1>12, <1>13 DEF Orderly

\* A question that goes on and leaves its message alone.
LEMMA GoingOnStaysOrderly ==
  ASSUME Types, Orderly, NEW q \in Questions, qpc[q] \in {"routing", "answering"},
         NEW state \in {"answering", "done", "raised", "left"}, Goto(q, state),
         UNCHANGED <<chat, qmsg, qjob, continues, jobs, runs, call>>
  PROVE  Orderly'
<1>1. qpc'[q] = state /\ \A p \in Questions : p # q => qpc'[p] = qpc[p]
  BY DEF Goto, Types, TypeOK
<1>2. UNCHANGED <<cpc, cjob, cseen, status, reuse, next>>
  BY DEF continues, jobs, runs
<1>3. OneByOne' /\ Linked' /\ Reused' /\ Single' /\ Continued'
  BY <1>2 DEF Orderly, OneByOne, Linked, Reused, Single, Continued
<1>4. Owned'
  BY <1>2 DEF Orderly, Owned, Own
<1>5. Asked'
  <2>1. \A p \in Unanswered' : p \in Unanswered
    BY <1>1 DEF Unanswered
  <2>2. \A p \in Questions : qpc'[p] # "new" => qpc[p] # "new"
    BY <1>1
  <2> QED
    BY <2>1, <2>2 DEF Orderly, Asked
<1>6. \A p \in Questions : qpc'[p] = "queued" => qpc[p] = "queued"
  BY <1>1
<1>7. Queued'
  BY <1>2, <1>6 DEF Orderly, Queued, Unattached
<1>8. LookedUp'
  BY <1>2, <1>6 DEF Orderly, LookedUp
<1> QED
  BY <1>3, <1>4, <1>5, <1>7, <1>8 DEF Orderly

\* An answer, an error or a deletion: the message is no job's before and after.
LEMMA AnsweringStaysOrderly ==
  ASSUME Types, Orderly, NEW q \in Questions, qpc[q] \in {"routing", "answering"}, Goto(q, "done"),
         NEW d \in Metadata, d.job = 0, d.stream = 0, d.events = <<>>, Rewrite(qmsg[q], d),
         UNCHANGED <<qmsg, qjob, continues, jobs, runs, call>>
  PROVE  Orderly'
<1>1. qpc'[q] = "done" /\ \A p \in Questions : p # q => qpc'[p] = qpc[p]
  BY DEF Goto, Types, TypeOK
<1>2. UNCHANGED <<cpc, cjob, cseen, status, reuse, next, call, qmsg, qjob>>
  BY DEF continues, jobs, runs
<1>3. q \in Unanswered
  BY DEF Unanswered
<1>4. /\ qmsg[q] \in DOMAIN chat /\ chat[qmsg[q]] = Thinking
      /\ \A j \in Jobs : reuse[j] # qmsg[q]
      /\ \A j \in Jobs : call[j].phase = "loaded" => call[j].msg # qmsg[q]
      /\ \A c \in Continues : cpc[c] = "marking" => cseen[c].msg # qmsg[q]
  BY <1>3, NobodysMessage
<1>5. /\ DOMAIN chat' = DOMAIN chat /\ chat'[qmsg[q]] = d
      /\ \A m \in DOMAIN chat : m # qmsg[q] => chat'[m] = chat[m]
  BY <1>4, MessagesAreMetadata, RewriteRewrites DEF Rewritten
<1>6. \A m \in DOMAIN chat : chat'[m].job = chat[m].job /\ chat'[m].stream = chat[m].stream /\ chat'[m].events = chat[m].events
  BY <1>4, <1>5, ThinkingFields
<1>7. OneByOne' /\ Linked' /\ Single'
  BY <1>2, <1>5, <1>6 DEF Orderly, OneByOne, Linked, Single
<1>8. Reused'
  BY <1>2, <1>5, <1>6, MessagesAreMetadata DEF Orderly, Reused, Types, TypeOK
<1>9. Owned'
  BY <1>2, <1>5, <1>6 DEF Orderly, Owned, Own
<1>10. Asked'
  <2>1. \A p \in Unanswered' : p \in Unanswered /\ p # q /\ p \in Questions /\ qpc[p] # "new"
    BY <1>1 DEF Unanswered
  <2>2. \A p \in Questions : qpc'[p] # "new" => qpc[p] # "new"
    BY <1>1
  <2>3. \A p \in Unanswered' : qmsg[p] # qmsg[q] /\ qmsg[p] \in DOMAIN chat
    BY <2>1, <1>3 DEF Orderly, Asked, Types
  <2> QED
    BY <1>2, <1>5, <2>1, <2>2, <2>3 DEF Orderly, Asked
<1>11. \A p \in Questions : qpc'[p] = "queued" => qpc[p] = "queued"
  BY <1>1
<1>12. Queued'
  BY <1>2, <1>5, <1>6, <1>11 DEF Orderly, Queued, Unattached
<1>13. LookedUp'
  BY <1>2, <1>4, <1>5, <1>6, <1>11 DEF Orderly, LookedUp, Types
<1>14. Continued'
  BY <1>2, <1>4, <1>5, <1>6 DEF Orderly, Continued, Types
<1> QED
  BY <1>7, <1>8, <1>9, <1>10, <1>12, <1>13, <1>14 DEF Orderly

\* A job is created, and its message, if it has one already, is another job's.
LEMMA CreationLeavesMessages ==
  ASSUME Types, Orderly, ~Overlap, NEW j \in Jobs, NEW m \in Nat, CreateJob(j, m), UNCHANGED <<chat, call>>,
         m # 0 => m \in DOMAIN chat /\ chat[m].job # 0
  PROVE  /\ Linked' /\ Reused' /\ Owned' /\ Single'
         /\ \A n \in DOMAIN chat : chat[n].job # j
         /\ \A k \in Jobs : Unattached(k) => k # j /\ Unattached(k)'
         /\ \A k \in Jobs : reuse[k] # 0 => k # j /\ reuse'[k] = reuse[k]
<1>1. /\ status[j] = "absent" /\ status'[j] = "pending" /\ reuse[j] = 0 /\ reuse'[j] = m
      /\ \A k \in Jobs : k # j => status'[k] = status[k] /\ reuse'[k] = reuse[k]
  BY JobsComeInOrder DEF Orderly
<1>2. \A n \in DOMAIN chat : chat[n].job # j
  BY <1>1, ChatConstantsAssumption DEF Orderly, Linked, Jobs
<1>3. \A n \in DOMAIN chat : chat[n].job \in Jobs \union {0}
  BY MessagesAreMetadata DEF Metadata
<1>4. \A k \in Jobs : reuse[k] # 0 => k # j /\ reuse'[k] = reuse[k]
  BY <1>1
<1>5. Linked'
  BY <1>1, <1>2, <1>3 DEF Orderly, Linked
<1>6. Reused'
  BY <1>1 DEF Orderly, Reused
<1>7. Owned'
  <2> SUFFICES ASSUME NEW n \in DOMAIN chat PROVE Own(n, chat[n])'
    BY DEF Owned
  <2>1. Own(n, chat[n]) /\ n # 0
    BY MessagesAreMetadata DEF Orderly, Owned
  <2> QED
    BY <1>4, <2>1 DEF Own
<1>8. Single'
  BY DEF Orderly, Single
<1>9. \A k \in Jobs : Unattached(k) => k # j /\ Unattached(k)'
  BY <1>1 DEF Unattached
<1> QED
  BY <1>2, <1>4, <1>5, <1>6, <1>7, <1>8, <1>9

LEMMA QueueingStaysOrderly ==
  ASSUME Types, Orderly, ~Overlap, NEW q \in Questions, QueueJob(q)
  PROVE  Orderly'
<1>1. PICK j \in Jobs : CreateJob(j, 0) /\ qjob' = [qjob EXCEPT ![q] = j]
  BY DEF QueueJob
<1>2. /\ qpc[q] = "routing" /\ qpc' = [qpc EXCEPT ![q] = "queued"]
      /\ UNCHANGED <<chat, qmsg, cpc, cjob, cseen, next, call>>
  BY DEF QueueJob, Goto, continues, runs
<1>3. /\ qpc'[q] = "queued" /\ qjob'[q] = j
      /\ \A p \in Questions : p # q => qpc'[p] = qpc[p] /\ qjob'[p] = qjob[p]
  BY <1>1, <1>2 DEF Types, TypeOK
<1>4. OneByOne' /\ \A k \in Jobs : call'[k].phase = "idle"
  BY <1>1, <1>2, JobsComeInOrder DEF Orderly
<1>5. /\ Linked' /\ Reused' /\ Owned' /\ Single'
      /\ \A n \in DOMAIN chat : chat[n].job # j
      /\ \A k \in Jobs : Unattached(k) => k # j /\ Unattached(k)'
      /\ \A k \in Jobs : reuse[k] # 0 => k # j /\ reuse'[k] = reuse[k]
  BY <1>1, <1>2, CreationLeavesMessages
<1>6. Asked'
  <2>1. \A p \in Unanswered' : p \in Unanswered
    BY <1>2, <1>3 DEF Unanswered
  <2>2. \A p \in Questions : qpc'[p] # "new" => qpc[p] # "new"
    BY <1>2, <1>3
  <2> QED
    BY <1>2, <2>1, <2>2 DEF Orderly, Asked
<1>7. Queued'
  <2>1. Unattached(j)'
    BY <1>1, <1>2, <1>5, JobsComeInOrder DEF Orderly, Unattached
  <2>2. \A p \in Questions : p # q /\ qpc'[p] = "queued" => Unattached(qjob[p]) /\ qjob'[p] = qjob[p] /\ qjob[p] \in Jobs
    BY <1>3 DEF Orderly, Queued, Types
  <2>3. \A p \in Questions : p # q /\ qpc'[p] = "queued" => Unattached(qjob[p])' /\ qjob'[p] # j
    BY <1>5, <2>2 DEF Unattached
  <2> QED
    BY <1>3, <2>1, <2>2, <2>3 DEF Orderly, Queued
<1>8. LookedUp'
  BY <1>4 DEF LookedUp
<1>9. Continued'
  <2>1. \A c \in Continues : cpc[c] = "marking" => cjob[c] \in Jobs /\ cseen[c].msg # 0
    BY MessagesAreMetadata DEF Types
  <2> QED
    BY <1>2, <1>5, <2>1 DEF Orderly, Continued
<1> QED
  BY <1>4, <1>5, <1>6, <1>7, <1>8, <1>9 DEF Orderly

LEMMA AttachingStaysOrderly ==
  ASSUME Types, Orderly, NEW q \in Questions, AttachJob(q)
  PROVE  Orderly'
<1> DEFINE j == qjob[q]
           d == JobMetadata(j)
<1>1. j \in Jobs /\ qpc[q] = "queued" /\ Unattached(j) /\ q \in Unanswered
  BY DEF AttachJob, Types, Orderly, Queued, Unanswered
<1>2. d \in Metadata /\ d.job = j /\ d.stream = j /\ d.events = <<>>
  BY <1>1, AnswersAreMetadata, ThinkingFields DEF JobMetadata, Thinking
<1>3. UNCHANGED <<qmsg, qjob, cpc, cjob, cseen, status, reuse, next, call>>
  BY DEF AttachJob, continues, jobs, runs
<1>4. qpc'[q] = "done" /\ \A p \in Questions : p # q => qpc'[p] = qpc[p]
  BY DEF AttachJob, Goto, Types, TypeOK
<1>5. /\ qmsg[q] \in DOMAIN chat /\ chat[qmsg[q]] = Thinking
      /\ \A k \in Jobs : reuse[k] # qmsg[q]
      /\ \A k \in Jobs : call[k].phase = "loaded" => call[k].msg # qmsg[q]
      /\ \A c \in Continues : cpc[c] = "marking" => cseen[c].msg # qmsg[q]
  BY <1>1, NobodysMessage
<1>6. Rewrite(qmsg[q], d)
  BY DEF AttachJob
<1> HIDE DEF d
<1>7. /\ DOMAIN chat' = DOMAIN chat /\ chat'[qmsg[q]] = d
      /\ \A m \in DOMAIN chat : m # qmsg[q] => chat'[m] = chat[m]
  BY <1>2, <1>5, <1>6, MessagesAreMetadata, RewriteRewrites DEF Rewritten
<1> HIDE DEF j
<1>8. OneByOne'
  BY <1>3 DEF Orderly, OneByOne
<1>9. Linked'
  BY <1>1, <1>2, <1>3, <1>7 DEF Orderly, Linked, Unattached
<1>10. Reused'
  <2>1. \A k \in Jobs : reuse[k] # 0 => reuse[k] \in DOMAIN chat /\ reuse[k] # qmsg[q]
    BY <1>5, MessagesAreMetadata DEF Types, TypeOK
  <2> QED
    BY <1>3, <1>7, <2>1 DEF Orderly, Reused
<1>11. Owned'
  <2> SUFFICES ASSUME NEW m \in DOMAIN chat PROVE Own(m, chat[m])'
    BY <1>7 DEF Owned
  <2>1. CASE m = qmsg[q]
    BY <1>2, <1>7, <2>1 DEF Own
  <2>2. CASE m # qmsg[q]
    BY <1>3, <1>7, <2>2 DEF Orderly, Owned, Own
  <2> QED
    BY <2>1, <2>2
<1>12. Single'
  BY <1>1, <1>2, <1>7 DEF Orderly, Single, Unattached
<1>13. Asked'
  <2>1. \A p \in Unanswered' : p \in Unanswered /\ p # q /\ p \in Questions /\ qpc[p] # "new"
    BY <1>4 DEF Unanswered
  <2>2. \A p \in Questions : qpc'[p] # "new" => qpc[p] # "new"
    BY <1>1, <1>4
  <2>3. \A p \in Unanswered' : qmsg[p] # qmsg[q] /\ qmsg[p] \in DOMAIN chat
    BY <1>1, <2>1 DEF Orderly, Asked, Types
  <2> QED
    BY <1>3, <1>7, <2>1, <2>2, <2>3 DEF Orderly, Asked
<1>14. \A p \in Questions : qpc'[p] = "queued" => qpc[p] = "queued" /\ p # q
  BY <1>4
<1>15. Queued'
  <2>1. \A p \in Questions : qpc'[p] = "queued" => qjob[p] # j
    BY <1>1, <1>14 DEF Orderly, Queued, j
  <2> QED
    BY <1>2, <1>3, <1>7, <1>14, <2>1 DEF Orderly, Queued, Unattached
<1>16. LookedUp'
  <2>1. \A k \in Jobs : call[k].phase # "idle" => k # j
    BY <1>1 DEF Orderly, LookedUp, j
  <2> QED
    BY <1>2, <1>3, <1>5, <1>7, <1>14, <2>1 DEF Orderly, LookedUp, Types
<1>17. Continued'
  BY <1>3, <1>5, <1>7 DEF Orderly, Continued, Types
<1> QED
  BY <1>8, <1>9, <1>10, <1>11, <1>12, <1>13, <1>15, <1>16, <1>17 DEF Orderly

LEMMA QuestionsStayOrderly ==
  ASSUME Types, Orderly, ~Overlap, NEW q \in Questions, Ask(q) \/ Route(q) \/ Leave(q)
  PROVE  Orderly'
<1>1. CASE RouteRaises(q) \/ Answer(q) \/ Postpone(q) \/ Leave(q)
  <2>1. qpc[q] \in {"routing", "answering"} /\ UNCHANGED <<chat, qmsg, qjob, continues, jobs, runs, call>>
    BY <1>1 DEF RouteRaises, Answer, Postpone, Leave
  <2>2. PICK state \in {"answering", "done", "raised", "left"} : Goto(q, state)
    BY <1>1 DEF RouteRaises, Answer, Postpone, Leave
  <2> QED
    BY <2>1, <2>2, GoingOnStaysOrderly
<1>2. CASE Deliver(q) \/ ReportError(q) \/ Clarify(q)
  <2>1. /\ qpc[q] \in {"routing", "answering"} /\ Goto(q, "done")
        /\ UNCHANGED <<qmsg, qjob, continues, jobs, runs, call>>
    BY <1>2 DEF Deliver, ReportError, Clarify
  <2>2. chat[qmsg[q]] = Thinking
    BY <2>1, NobodysMessage DEF Unanswered
  <2>3. PICK d \in Metadata : d.job = 0 /\ d.stream = 0 /\ d.events = <<>> /\ Rewrite(qmsg[q], d)
    <3>1. CASE Deliver(q)
      BY <3>1, AnswersAreMetadata DEF Deliver, Thinking
    <3>2. CASE ReportError(q)
      BY <3>2, AnswersAreMetadata DEF ReportError, Thinking
    <3>3. CASE Clarify(q)
      BY <2>2, <3>3, AnswersAreMetadata, ThinkingIsMetadata DEF Clarify, Thinking
    <3> QED
      BY <1>2, <3>1, <3>2, <3>3
  <2> QED
    BY <2>1, <2>3, AnsweringStaysOrderly
<1> QED
  BY <1>1, <1>2, AsksStayOrderly, QueueingStaysOrderly, AttachingStaysOrderly DEF Route

LEMMA ContinuingStaysOrderly ==
  ASSUME Types, Orderly, ~Overlap, NEW c \in Continues, Continue(c)
  PROVE  Orderly'
<1>1. PICK j \in Jobs, n \in Jobs :
        /\ status[j] \in {"pending", "ended"}
        /\ LET m == LastOf({k \in DOMAIN chat : chat[k].job = j})
           IN  /\ CreateJob(n, m)
               /\ cjob' = [cjob EXCEPT ![c] = n]
               /\ IF m = 0
                  THEN cpc' = [cpc EXCEPT ![c] = "done"] /\ UNCHANGED cseen
                  ELSE /\ cpc'   = [cpc EXCEPT ![c] = "marking"]
                       /\ cseen' = [cseen EXCEPT ![c] = Loaded(n, m, chat[m])]
  BY Zenon DEF Continue
<1> DEFINE m == LastOf({k \in DOMAIN chat : chat[k].job = j})
<1>2. m \in 0 .. Len(chat) /\ m \in Nat /\ (m # 0 => m \in DOMAIN chat /\ chat[m].job = j)
  <2>1. m \in 0 .. Len(chat) /\ (m # 0 => m \in DOMAIN chat /\ chat[m].job = j)
    BY FoundIsThere
  <2> HIDE DEF m
  <2> QED
    BY <2>1, MessagesAreMetadata
<1>3. /\ CreateJob(n, m) /\ cjob' = [cjob EXCEPT ![c] = n]
      /\ m = 0 => cpc' = [cpc EXCEPT ![c] = "done"] /\ cseen' = cseen
      /\ m # 0 => cpc' = [cpc EXCEPT ![c] = "marking"] /\ cseen' = [cseen EXCEPT ![c] = Loaded(n, m, chat[m])]
  BY <1>1
<1> HIDE DEF m
<1>4. UNCHANGED <<chat, qpc, qmsg, qjob, next, call>>
  BY DEF Continue, questions, runs
<1>5. OneByOne' /\ (\A k \in Jobs : call'[k].phase = "idle") /\ reuse'[n] = m
  BY <1>2, <1>3, <1>4, JobsComeInOrder DEF Orderly
<1>6. /\ Linked' /\ Reused' /\ Owned' /\ Single'
      /\ \A k \in Jobs : Unattached(k) => k # n /\ Unattached(k)'
      /\ \A k \in Jobs : reuse[k] # 0 => k # n /\ reuse'[k] = reuse[k]
  <2>1. m # 0 => m \in DOMAIN chat /\ chat[m].job # 0
    BY <1>2 DEF Jobs
  <2> QED
    BY <1>2, <1>3, <1>4, <2>1, CreationLeavesMessages
<1>7. Asked'
  BY <1>4 DEF Orderly, Asked, Unanswered
<1>8. Queued'
  <2>1. \A p \in Questions : qpc[p] = "queued" => qjob[p] \in Jobs /\ Unattached(qjob[p])
    BY DEF Orderly, Queued, Types
  <2>2. \A p \in Questions : qpc[p] = "queued" => Unattached(qjob[p])'
    BY <1>4, <1>6, <2>1 DEF Unattached
  <2> QED
    BY <1>4, <2>2 DEF Orderly, Queued
<1>9. LookedUp'
  BY <1>5 DEF LookedUp
<1>10. Continued'
  <2>1. \A e \in Continues : cpc[e] = "marking" => cjob[e] \in Jobs /\ cseen[e].msg # 0 /\ reuse[cjob[e]] # 0
    BY MessagesAreMetadata DEF Orderly, Continued, Types
  <2>2. \A e \in Continues : e # c => cjob'[e] = cjob[e] /\ cseen'[e] = cseen[e] /\ cpc'[e] = cpc[e]
    BY <1>3 DEF Types, TypeOK
  <2>3. cpc'[c] = "marking" => /\ m # 0 /\ cjob'[c] = n /\ cseen'[c].msg = m /\ cseen'[c].data = chat[m]
    BY <1>3 DEF Types, TypeOK, Loaded
  <2>4. cpc'[c] = "marking" =>
          LET k == cseen'[c].msg
              d == cseen'[c].data
          IN  /\ d.job # 0 /\ d.job = chat[k].job /\ d.stream = chat[k].stream /\ d.events = chat[k].events
              /\ reuse'[cjob'[c]] = k
    BY <1>2, <1>5, <2>3 DEF Jobs
  <2>5. \A e \in Continues : e # c /\ cpc'[e] = "marking" =>
          LET k == cseen'[e].msg
              d == cseen'[e].data
          IN  /\ d.job # 0 /\ d.job = chat[k].job /\ d.stream = chat[k].stream /\ d.events = chat[k].events
              /\ reuse'[cjob'[e]] = k
    BY <1>6, <2>1, <2>2 DEF Orderly, Continued
  <2> QED
    BY <1>4, <2>4, <2>5 DEF Continued
<1> QED
  BY <1>5, <1>6, <1>7, <1>8, <1>9, <1>10 DEF Orderly

LEMMA MarkingStaysOrderly ==
  ASSUME Types, Orderly, NEW c \in Continues, MarkContinuing(c)
  PROVE  Orderly'
<1> DEFINE m == cseen[c].msg
           d == [cseen[c].data EXCEPT !.waiting = TRUE]
<1>1. /\ m \in DOMAIN chat /\ cseen[c].data \in Metadata /\ d \in Metadata
      /\ cpc[c] = "marking" /\ cjob[c] \in Jobs
  BY AnswersAreMetadata DEF MarkContinuing, Types, TypeOK
<1>2. d.job # 0 /\ d.job = chat[m].job /\ d.stream = chat[m].stream /\ d.events = chat[m].events /\ reuse[cjob[c]] = m
  BY <1>1 DEF Orderly, Continued, Metadata
<1>3. Rewrite(m, d) /\ UNCHANGED <<qpc, qmsg, qjob, cjob, status, reuse, next, call>>
  BY DEF MarkContinuing, questions, jobs, runs
<1> HIDE DEF d
<1>4. /\ DOMAIN chat' = DOMAIN chat /\ chat'[m] = d
      /\ \A n \in DOMAIN chat : n # m => chat'[n] = chat[n]
  BY <1>1, <1>3, MessagesAreMetadata, RewriteRewrites DEF Rewritten
<1>5. \A n \in DOMAIN chat : chat'[n].job = chat[n].job /\ chat'[n].stream = chat[n].stream /\ chat'[n].events = chat[n].events
  BY <1>2, <1>4
<1>6. \A e \in Continues : cpc'[e] = "marking" => cpc[e] = "marking" /\ cseen'[e] = cseen[e]
  BY DEF MarkContinuing, Types, TypeOK
<1>7. OneByOne' /\ Linked' /\ Single'
  BY <1>3, <1>4, <1>5 DEF Orderly, OneByOne, Linked, Single
<1>8. Reused'
  BY <1>3, <1>4, <1>5, MessagesAreMetadata DEF Orderly, Reused, Types, TypeOK
<1>9. Owned'
  BY <1>3, <1>4, <1>5 DEF Orderly, Owned, Own
<1>10. Asked'
  <2>1. \A q \in Unanswered : qmsg[q] # m /\ qmsg[q] \in DOMAIN chat
    BY <1>1, NobodysMessage
  <2> QED
    BY <1>3, <1>4, <2>1 DEF Orderly, Asked, Unanswered
<1>11. Queued'
  BY <1>3, <1>4, <1>5 DEF Orderly, Queued, Unattached
<1>12. LookedUp'
  <2>1. \A k \in Jobs : call[k].phase = "loaded" => call[k].msg # m /\ call[k].msg \in DOMAIN chat
    BY <1>1 DEF Orderly, LookedUp, Types
  <2> QED
    BY <1>3, <1>4, <1>5, <1>6, <2>1 DEF Orderly, LookedUp
<1>13. Continued'
  BY <1>3, <1>4, <1>5, <1>6 DEF Orderly, Continued, Types
<1> QED
  BY <1>7, <1>8, <1>9, <1>10, <1>11, <1>12, <1>13 DEF Orderly

\* A run begins, ends or breaks off; no report is on its way.
LEMMA RunsStayOrderly ==
  ASSUME Types, Orderly, NEW j \in Jobs, Begin(j) \/ Verdict(j) \/ RunFails(j) \/ RunBreaks(j)
  PROVE  Orderly'
<1>1. UNCHANGED <<chat, qpc, qmsg, qjob, cpc, cjob, cseen, reuse, call>>
  BY DEF Begin, Verdict, RunFails, RunBreaks, questions, continues
<1>2. status[j] \in Open /\ call[j].phase = "idle"
  BY IdleIsEmpty DEF Begin, Verdict, RunFails, RunBreaks, Types, Open, Reports, Hands
<1>3. PICK s \in {"running", "ended", "pending"} : status' = [status EXCEPT ![j] = s]
  BY DEF Begin, Verdict, RunFails, RunBreaks
<1>4. status'[j] = s /\ \A k \in Jobs : k # j => status'[k] = status[k]
  BY <1>3 DEF Types, TypeOK
<1>5. \A k \in Jobs : status'[k] = "absent" <=> status[k] = "absent"
  BY <1>2, <1>4 DEF Open
<1>6. \A k \in Jobs : status'[k] \in Open => status[k] \in Open
  BY <1>2, <1>4 DEF Open
<1>7. \A k \in Jobs : k # j => next'[k] = next[k]
  BY DEF Begin, Verdict, RunFails, RunBreaks, Types, TypeOK
<1>8. OneByOne'
  BY <1>1, <1>5, <1>6 DEF Orderly, OneByOne
<1>9. Linked'
  <2>1. \A n \in DOMAIN chat : chat[n].job # 0 => chat[n].job \in Jobs
    BY MessagesAreMetadata DEF Metadata
  <2> QED
    BY <1>1, <1>5, <2>1 DEF Orderly, Linked
<1>10. Reused' /\ Single' /\ Continued'
  BY <1>1 DEF Orderly, Reused, Single, Continued
<1>11. Owned' /\ Asked'
  BY <1>1 DEF Orderly, Owned, Own, Asked, Unanswered
<1>12. Queued'
  BY <1>1, <1>5 DEF Orderly, Queued, Unattached, Types
<1>13. LookedUp'
  BY <1>1, <1>2, <1>7 DEF Orderly, LookedUp
<1> QED
  BY <1>8, <1>9, <1>10, <1>11, <1>12, <1>13 DEF Orderly

LEMMA LooksStayOrderly ==
  ASSUME Types, Orderly, NEW j \in Jobs, Look(j), ~raced'
  PROVE  Orderly'
<1>1. /\ next[j] \in Reports /\ status[j] = "running" /\ status[j] \in Open
      /\ UNCHANGED <<chat, qpc, qmsg, qjob, cpc, cjob, cseen, status, reuse, next>>
  BY DEF Look, Reports, Types, Open, questions, continues, jobs, runs
<1>2. LatestJob = j
  BY <1>1, LatestIsAJob DEF Orderly, OneByOne, Jobs
<1> DEFINE m == IF next[j] = "start" /\ reuse[j] # 0 THEN reuse[j] ELSE Streaming(j)
           h == IF m = 0 THEN Missing(j) ELSE Loaded(j, m, chat[m])
<1>3. m \in 0 .. Len(chat) /\ (m # 0 => m \in DOMAIN chat) /\ call' = [call EXCEPT ![j] = h] /\ raced' = (raced \/ BeingAttached(j, m))
  BY <1>2, LookedFor
<1>4. /\ IF next[j] = "start" /\ reuse[j] # 0 THEN m = reuse[j] ELSE m # 0 => chat[m].job = j
      /\ m = 0 => (next[j] = "start" => reuse[j] = 0) /\ \A n \in DOMAIN chat : chat[n].job # j
  <2>1. Streaming(j) # 0 => Streaming(j) \in DOMAIN chat /\ chat[Streaming(j)].stream = j
    BY FoundIsThere
  <2>2. Streaming(j) = 0 => \A n \in DOMAIN chat : chat[n].stream # j
    BY FoundIsThere
  <2>3. \A n \in DOMAIN chat : chat[n].stream = chat[n].job
    BY DEF Orderly, Linked
  <2>4. CASE next[j] = "start" /\ reuse[j] # 0
    BY <2>4
  <2>5. CASE ~(next[j] = "start" /\ reuse[j] # 0)
    BY <2>1, <2>2, <2>3, <2>5
  <2> QED
    BY <2>4, <2>5
<1>5. ~BeingAttached(j, m)
  BY <1>3
<1> HIDE DEF m
<1>6. call'[j] = h /\ \A k \in Jobs : k # j => call'[k] = call[k]
  BY <1>3 DEF Types
<1>7. OneByOne'
  <2>1. h.about = j
    BY DEF Missing, Loaded
  <2> QED
    BY <1>1, <1>6, <2>1 DEF Orderly, OneByOne
<1>8. Linked' /\ Reused' /\ Single' /\ Continued'
  BY <1>1 DEF Orderly, Linked, Reused, Single, Continued
<1>9. Owned' /\ Asked' /\ Queued'
  BY <1>1 DEF Orderly, Owned, Own, Asked, Unanswered, Queued, Unattached
<1>10. LookedUp'
  <2>1. /\ h.phase = "loaded" => m # 0 /\ h.msg = m /\ h.data = chat[m]
        /\ h.phase = "missing" => m = 0
    BY DEF Missing, Loaded
  <2>2. /\ \A c \in Continues : cpc[c] = "marking" => cseen[c].msg # m
        /\ \A q \in Questions : qpc[q] = "queued" => qjob[q] # j
    BY <1>5 DEF BeingAttached
  <2> HIDE DEF h
  <2> QED
    BY <1>1, <1>4, <1>6, <2>1, <2>2 DEF Orderly, LookedUp
<1> QED
  BY <1>7, <1>8, <1>9, <1>10 DEF Orderly

\* A report is answered, and its job's message, if it has one, is what the run says.
LEMMA NoReportIsLeft ==
  ASSUME Types, Orderly, NEW j \in Jobs, next[j] \in Reports, Answered(j), UNCHANGED jobs
  PROVE  /\ \A k \in Jobs : call'[k].phase = "idle"
         /\ OneByOne' /\ LookedUp'
<1>1. status[j] \in Open
  BY DEF Types, Open, Reports
<1>2. \A k \in Jobs : call'[k].phase = "idle"
  BY <1>1, OneAtATime, IdleIsEmpty DEF Orderly, Answered, Types, Hands
<1> QED
  BY <1>2 DEF Orderly, OneByOne, LookedUp, jobs

LEMMA AnsweredStaysOrderly ==
  ASSUME Types, Orderly, NEW j \in Jobs, next[j] \in Reports, Answered(j),
         UNCHANGED <<chat, questions, continues, jobs>>
  PROVE  Orderly'
<1>1. OneByOne' /\ LookedUp'
  BY NoReportIsLeft
<1>2. UNCHANGED <<chat, qpc, qmsg, qjob, cpc, cjob, cseen, status, reuse>>
  BY DEF questions, continues, jobs
<1>3. Linked' /\ Reused' /\ Single' /\ Continued'
  BY <1>2 DEF Orderly, Linked, Reused, Single, Continued
<1>4. Owned' /\ Asked' /\ Queued'
  BY <1>2 DEF Orderly, Owned, Own, Asked, Unanswered, Queued, Unattached
<1> QED
  BY <1>1, <1>3, <1>4 DEF Orderly

\* agent_started finds no message twice, and makes one.
LEMMA SecondLooksStayOrderly ==
  ASSUME Types, Orderly, NEW j \in Jobs, LookAgain(j)
  PROVE  Orderly'
<1>1. /\ call[j].phase = "missing" /\ call[j].about = j /\ next[j] = "start" /\ next[j] \in Reports
      /\ reuse[j] = 0 /\ status[j] = "running" /\ (\A n \in DOMAIN chat : chat[n].job # j)
      /\ \A q \in Questions : qpc[q] = "queued" => qjob[q] # j
  BY DEF LookAgain, Orderly, OneByOne, LookedUp, Types, Reports
<1> DEFINE d == [Thinking EXCEPT !.kind = "started", !.job = j, !.stream = j, !.waiting = FALSE]
<1>2. Streaming(j) = 0
  <2>1. Streaming(j) # 0 => Streaming(j) \in DOMAIN chat /\ chat[Streaming(j)].stream = j
    BY FoundIsThere
  <2>2. \A n \in DOMAIN chat : chat[n].stream = chat[n].job
    BY DEF Orderly, Linked
  <2> QED
    BY <1>1, <2>1, <2>2
<1>3. chat' = Append(chat, d) /\ Reported(j)
  BY <1>1, <1>2 DEF LookAgain
<1>4. d \in Metadata /\ d.job = j /\ d.stream = j /\ d.events = <<>>
  BY AnswersAreMetadata, ThinkingFields DEF Thinking
<1> HIDE DEF d
<1>5. Added(d)
  BY <1>3, <1>4, MessagesAreMetadata, AppendAdds
<1>6. \A n \in DOMAIN chat' : n \in DOMAIN chat \/ chat'[n] = d
  BY <1>5 DEF Added
<1>7. UNCHANGED <<qpc, qmsg, qjob, cpc, cjob, cseen, status, reuse, questions, continues, jobs>>
  BY DEF LookAgain, questions, continues, jobs
<1>8. OneByOne' /\ LookedUp'
  BY <1>1, <1>3, <1>7, ReportedAnswers, NoReportIsLeft
<1>9. Linked'
  BY <1>1, <1>4, <1>5, <1>6, <1>7 DEF Orderly, Linked, Added
<1>10. Reused'
  <2>1. \A k \in Jobs : reuse[k] # 0 => reuse[k] \in DOMAIN chat
    BY MessagesAreMetadata DEF Types, TypeOK
  <2> QED
    BY <1>5, <1>7, <2>1 DEF Orderly, Reused, Added
<1>11. Owned'
  <2> SUFFICES ASSUME NEW n \in DOMAIN chat' PROVE Own(n, chat[n])'
    BY DEF Owned
  <2>1. CASE n \in DOMAIN chat
    <3>1. Own(n, chat[n]) /\ chat'[n] = chat[n]
      BY <1>5, <2>1 DEF Orderly, Owned, Added
    <3> QED
      BY <1>7, <3>1 DEF Own
  <2>2. CASE chat'[n] = d
    BY <1>4, <2>2 DEF Own
  <2> QED
    BY <1>6, <2>1, <2>2
<1>12. Single'
  BY <1>1, <1>4, <1>5, <1>6 DEF Orderly, Single, Added
<1>13. Asked'
  BY <1>5, <1>7 DEF Orderly, Asked, Unanswered, Added, Types
<1>14. Queued'
  BY <1>1, <1>4, <1>5, <1>6, <1>7 DEF Orderly, Queued, Unattached, Added
<1>15. Continued'
  BY <1>5, <1>7 DEF Orderly, Continued, Added, Types
<1> QED
  BY <1>8, <1>9, <1>10, <1>11, <1>12, <1>13, <1>14, <1>15 DEF Orderly

\* What the run of j writes to message m: the job is its own, and what was recorded stays.
Follows(j, m, d) ==
  /\ m \in DOMAIN chat /\ d \in Metadata /\ chat[m] \in Metadata
  /\ d.job = j /\ d.stream = j /\ chat[m].job # 0
  /\ next[j] # "start" \/ reuse[j] = 0 => chat[m].job = j
  /\ next[j] = "start" /\ reuse[j] # 0 => m = reuse[j]
  /\ \/ d.events = chat[m].events
     \/ /\ chat[m].job = j
        /\ \E e \in Events : e.job = j /\ d.events = Append(chat[m].events, e)

LEMMA WhatIsStored ==
  ASSUME Types, Orderly, NEW j \in Jobs, call[j].phase = "loaded"
  PROVE  Follows(j, call[j].msg, NewMetadata(j))
<1> DEFINE m == call[j].msg
           d == NewMetadata(j)
<1> SUFFICES Follows(j, m, d)
  OBVIOUS
<1>1. /\ m \in DOMAIN chat /\ d \in Metadata /\ chat[m] = call[j].data /\ chat[m] \in Metadata
      /\ next[j] \in Reports /\ call[j].about = j
  BY NewMetadataIsMetadata, MessagesAreMetadata DEF Types, Orderly, OneByOne, LookedUp
<1>2. /\ next[j] # "start" \/ reuse[j] = 0 => chat[m].job = j
      /\ next[j] = "start" /\ reuse[j] # 0 => m = reuse[j]
      /\ chat[m].job # 0 /\ chat[m].stream = chat[m].job
  BY <1>1 DEF Orderly, LookedUp, Reused, Linked, Jobs
<1>3. CASE next[j] = "start"
  <2>1. d = Started(j, chat[m])
    BY <1>1, <1>3 DEF NewMetadata
  <2>2. d.job = j /\ d.stream = j /\ d.events = chat[m].events
    BY <1>1, <2>1 DEF Started, Metadata
  <2> HIDE DEF d
  <2> QED
    BY <1>1, <1>2, <1>3, <2>2 DEF Follows
<1>4. CASE next[j] # "start"
  <2> DEFINE r == Recorded(j, step[j] + 1, chat[m])
             e == [job |-> j, run |-> run[j], step |-> step[j] + 1]
  <2>1. r \in Metadata /\ r.events = Append(chat[m].events, e) /\ e \in Events /\ e.job = j
    BY <1>1, StepsAreCounted, RecordedIsMetadata
  <2>2. r.job = chat[m].job /\ r.stream = chat[m].stream
    BY <1>1 DEF Recorded, Metadata
  <2>3. CASE next[j] = "tool"
    <3>1. d = r
      BY <1>1, <2>3 DEF NewMetadata
    <3> HIDE DEF d, r, e
    <3> QED
      BY <1>1, <1>2, <1>4, <2>1, <2>2, <3>1 DEF Follows
  <2>4. CASE next[j] # "tool"
    <3>1. d = [(IF next[j] = "summary" THEN r ELSE chat[m]) EXCEPT !.waiting = FALSE]
      BY <1>1, <1>4, <2>4 DEF NewMetadata, Finished
    <3> HIDE DEF d, r, e
    <3>2. /\ d.job = chat[m].job /\ d.stream = chat[m].stream
          /\ d.events = chat[m].events \/ d.events = Append(chat[m].events, e)
      BY <1>1, <2>1, <2>2, <3>1 DEF Metadata
    <3> QED
      BY <1>1, <1>2, <1>4, <2>1, <3>2 DEF Follows
  <2> QED
    BY <2>3, <2>4
<1> QED
  BY <1>3, <1>4

LEMMA StoresStayOrderly ==
  ASSUME Types, Orderly, NEW j \in Jobs, Store(j)
  PROVE  Orderly'
<1> DEFINE m == call[j].msg
           d == NewMetadata(j)
<1>1. /\ call[j].phase = "loaded" /\ next[j] \in Reports /\ status[j] = "running"
      /\ Rewrite(m, d) /\ UNCHANGED <<qpc, qmsg, qjob, cpc, cjob, cseen, status, reuse, jobs>>
  BY DEF Store, Types, Reports, questions, continues, jobs
<1>2. Follows(j, m, d)
  BY <1>1, WhatIsStored
<1>3. /\ \A c \in Continues : cpc[c] = "marking" => cseen[c].msg # m
      /\ \A q \in Questions : qpc[q] = "queued" => qjob[q] # j
  BY <1>1 DEF Orderly, LookedUp
<1>4. Answered(j)
  <2>1. CASE Reported(j)
    BY <1>1, <2>1, ReportedAnswers
  <2>2. CASE call' = [call EXCEPT ![j] = Idle] /\ UNCHANGED runs
    BY <1>1, <2>2, IdleIsEmpty DEF Answered, Types, TypeOK, runs, Reports
  <2> QED
    BY <2>1, <2>2 DEF Store
<1> HIDE DEF m, d
<1>5. /\ DOMAIN chat' = DOMAIN chat /\ chat'[m] = d
      /\ \A n \in DOMAIN chat : n # m => chat'[n] = chat[n]
  BY <1>1, <1>2, MessagesAreMetadata, RewriteRewrites DEF Rewritten, Follows
<1>6. OneByOne' /\ LookedUp'
  BY <1>1, <1>4, NoReportIsLeft
<1>7. chat[m].job \in Jobs /\ chat[m].job <= j
  BY <1>1, <1>2 DEF Orderly, OneByOne, Linked, Open, Follows, Metadata
<1>8. Linked'
  BY <1>1, <1>2, <1>5 DEF Orderly, Linked, Follows
<1>9. Reused'
  <2>1. \A k \in Jobs : reuse[k] # 0 => reuse[k] \in DOMAIN chat
    BY MessagesAreMetadata DEF Types, TypeOK
  <2> QED
    BY <1>1, <1>2, <1>5, <2>1 DEF Orderly, Reused, Follows, Jobs
<1>10. Owned'
  <2> SUFFICES ASSUME NEW n \in DOMAIN chat PROVE Own(n, chat[n])'
    BY <1>5 DEF Owned
  <2>1. Own(n, chat[n])
    BY DEF Orderly, Owned
  <2>2. CASE n # m
    BY <1>1, <1>5, <2>1, <2>2 DEF Own
  <2>3. CASE n = m
    <3>1. \A i \in DOMAIN chat[m].events : chat[m].events[i].job \in Jobs
      <4>1. chat[m].events \in Seq(Events)
        BY <1>2 DEF Follows, Metadata
      <4>2. \A i \in DOMAIN chat[m].events : chat[m].events[i] \in Events
        BY <4>1, LenProperties, ElementOfSeq
      <4> QED
        BY <4>2 DEF Events
    <3>2. \A i \in DOMAIN chat[m].events :
            \/ j = chat[m].events[i].job
            \/ \E k \in Jobs : reuse[k] = m /\ chat[m].events[i].job < k /\ k <= j
      <4> SUFFICES ASSUME NEW i \in DOMAIN chat[m].events
                   PROVE  \/ j = chat[m].events[i].job
                          \/ \E k \in Jobs : reuse[k] = m /\ chat[m].events[i].job < k /\ k <= j
        OBVIOUS
      <4>1. CASE chat[m].events[i].job = chat[m].job /\ chat[m].job # j
        <5>1. reuse[j] = m /\ chat[m].job < j
          BY <1>2, <1>7, <4>1 DEF Follows, Jobs
        <5> QED
          BY <4>1, <5>1 DEF Jobs
      <4>2. CASE chat[m].events[i].job = chat[m].job /\ chat[m].job = j
        BY <4>2
      <4>3. CASE \E k \in Jobs : reuse[k] = m /\ chat[m].events[i].job < k /\ k <= chat[m].job
        <5>1. PICK k \in Jobs : reuse[k] = m /\ chat[m].events[i].job < k /\ k <= chat[m].job
          BY <4>3
        <5>2. k <= j
          BY <1>7, <5>1 DEF Jobs
        <5> QED
          BY <5>1, <5>2
      <4> QED
        BY <2>1, <2>3, <4>1, <4>2, <4>3 DEF Own
    <3>3. CASE d.events = chat[m].events
      BY <1>1, <1>2, <1>5, <2>3, <3>2, <3>3 DEF Own, Follows
    <3>4. ASSUME chat[m].job = j, NEW e \in Events, e.job = j, d.events = Append(chat[m].events, e)
          PROVE  Own(n, chat[n])'
      <4>1. chat[m].events \in Seq(Events)
        BY <1>2 DEF Follows, Metadata
      <4>2. \A i \in DOMAIN d.events : \/ i \in DOMAIN chat[m].events /\ d.events[i] = chat[m].events[i]
                                       \/ d.events[i] = e
        BY <3>4, <4>1, AppendProperties, LenProperties
      <4> QED
        BY <1>1, <1>2, <1>5, <2>3, <3>2, <3>4, <4>2 DEF Own, Follows
    <3> QED
      BY <1>2, <3>3, <3>4 DEF Follows
  <2> QED
    BY <2>2, <2>3
<1>11. Single'
  <2>1. \A n \in DOMAIN chat : chat[n].job = j => n = m
    BY <1>2 DEF Orderly, Single, Linked, Follows, Jobs
  <2> QED
    BY <1>2, <1>5, <2>1 DEF Orderly, Single, Follows
<1>12. Asked'
  <2>1. \A q \in Unanswered : qmsg[q] # m /\ qmsg[q] \in DOMAIN chat
    BY <1>1, NobodysMessage DEF m
  <2> QED
    BY <1>1, <1>5, <2>1 DEF Orderly, Asked, Unanswered
<1>13. Queued'
  BY <1>1, <1>2, <1>3, <1>5 DEF Orderly, Queued, Unattached, Follows
<1>14. Continued'
  BY <1>1, <1>3, <1>5 DEF Orderly, Continued, Types
<1> QED
  BY <1>6, <1>8, <1>9, <1>10, <1>11, <1>12, <1>13, <1>14 DEF Orderly

LEMMA StepStaysOrderly ==
  ASSUME Types, Orderly, ~Overlap, [Next]_vars, ~raced'
  PROVE  Orderly'
<1>1. CASE UNCHANGED vars
  <2>1. UNCHANGED <<chat, qpc, qmsg, qjob, cpc, cjob, cseen, status, reuse, next, call>>
    BY <1>1 DEF vars, questions, continues, jobs, runs
  <2>2. OneByOne' /\ Linked' /\ Reused' /\ Single' /\ Continued'
    BY <2>1 DEF Orderly, OneByOne, Linked, Reused, Single, Continued
  <2>3. Owned' /\ Asked' /\ Queued' /\ LookedUp'
    BY <2>1 DEF Orderly, Owned, Own, Asked, Unanswered, Queued, Unattached, LookedUp
  <2> QED
    BY <2>2, <2>3 DEF Orderly
<1>2. ASSUME NEW q \in Questions, Ask(q) \/ Route(q) \/ Leave(q) PROVE Orderly'
  BY <1>2, QuestionsStayOrderly
<1>3. ASSUME NEW c \in Continues, Continue(c) \/ MarkContinuing(c) PROVE Orderly'
  BY <1>3, ContinuingStaysOrderly, MarkingStaysOrderly
<1>4. ASSUME NEW j \in Jobs, Begin(j) \/ Verdict(j) \/ RunFails(j) \/ RunBreaks(j) PROVE Orderly'
  BY <1>4, RunsStayOrderly
<1>5. ASSUME NEW j \in Jobs, Drop(j) \/ Skip(j) \/ Lose(j) PROVE Orderly'
  <2>1. next[j] \in Reports /\ Reported(j) /\ UNCHANGED <<chat, questions, continues, jobs>>
    BY <1>5 DEF Drop, Skip, Lose, Types
  <2> QED
    BY <2>1, ReportedAnswers, AnsweredStaysOrderly
<1>6. ASSUME NEW j \in Jobs, Look(j) \/ LookAgain(j) \/ Store(j) PROVE Orderly'
  BY <1>6, LooksStayOrderly, SecondLooksStayOrderly, StoresStayOrderly
<1>7. CASE Next
  BY <1>2, <1>3, <1>4, <1>5, <1>6, <1>7 DEF Next, Report
<1> QED
  BY <1>1, <1>7

\* Once a report was ahead of the API, it stays so.
LEMMA RacedStays == [Next]_vars /\ raced => raced'
<1> SUFFICES ASSUME [Next]_vars, raced PROVE raced'
  OBVIOUS
<1>1. ASSUME NEW q \in Questions, Ask(q) \/ Route(q) \/ Leave(q) PROVE raced'
  BY <1>1 DEF Ask, Route, Leave, RouteRaises, Answer, Deliver, ReportError, Postpone, Clarify, QueueJob, AttachJob
<1>2. ASSUME NEW c \in Continues, Continue(c) \/ MarkContinuing(c) PROVE raced'
  BY <1>2 DEF Continue, MarkContinuing
<1>3. ASSUME NEW j \in Jobs, \/ Begin(j) \/ Report(j) \/ Verdict(j)
                             \/ RunFails(j) \/ RunBreaks(j) \/ Lose(j) PROVE raced'
  BY <1>3 DEF Begin, Report, Look, LookAgain, Drop, Skip, Store, Verdict, RunFails, RunBreaks, Lose
<1> QED
  BY <1>1, <1>2, <1>3 DEF Next, vars

Aligned == Types /\ (~Overlap /\ ~raced => Orderly)

LEMMA AlwaysAligned == Spec => []Aligned
<1>1. Init => Aligned
  BY InitTypes, InitOrderly DEF Aligned
<1>2. Aligned /\ [Next]_vars => Aligned'
  BY StepKeepsTypes, StepStaysOrderly, RacedStays DEF Aligned
<1> QED
  BY <1>1, <1>2, PTL DEF Spec

\* As long as the jobs of an investigation come one after the other and no run
\* reports before the API has attached its job, what a run reports is recorded in
\* the message of its own job (chat_broadcast.py:60-74).
THEOREM OwnEventsInOwnMessage == Spec => []OwnEvents
<1>1. Aligned => OwnEvents
  BY DEF Aligned, Orderly, Owned, Own, OwnEvents, EventsInOwnMessage
<1> QED
  BY <1>1, AlwaysAligned, PTL

\* And a job is followed in one message (chat_broadcast.py:290-415).
THEOREM JobsHaveOneMessage == Spec => []OneMessagePerJob
<1>1. Aligned => OneMessagePerJob
  BY DEF Aligned, Orderly, Single, OneMessagePerJob
<1> QED
  BY <1>1, AlwaysAligned, PTL

-----------------------------------------------------------------------------
(* What is recorded stays.                                                 *)

LEMMA PrefixOfItself ==
  ASSUME NEW s \in Seq(Events)
  PROVE  IsPrefix(s, s)
  BY LenProperties DEF IsPrefix

LEMMA PrefixOfMore ==
  ASSUME NEW s \in Seq(Events), NEW e \in Events
  PROVE  IsPrefix(s, Append(s, e))
<1>1. Len(s) \in Nat /\ Append(s, e) \in Seq(Events) /\ Len(Append(s, e)) = Len(s) + 1
  BY AppendProperties, LenProperties
<1>2. SubSeq(s, 1, Len(s)) = s /\ s = [i \in 1 .. Len(s) |-> s[i]]
  BY LenProperties
<1>3. SubSeq(Append(s, e), 1, Len(s)) = s
  BY <1>1, <1>2, AppendProperties
<1> QED
  BY <1>1, <1>2, <1>3 DEF IsPrefix

\* The events of a message stay as they are, or one is added.
Kept(m) ==
  \/ chat'[m].events = chat[m].events
  \/ \E e \in Events : chat'[m].events = Append(chat[m].events, e)

LEMMA StepKeepsEvents ==
  ASSUME Types, Orderly, [Next]_vars
  PROVE  \A m \in DOMAIN chat : Kept(m)
<1>1. ASSUME UNCHANGED chat PROVE \A m \in DOMAIN chat : Kept(m)
  BY <1>1 DEF Kept
<1>2. ASSUME NEW d, Added(d) PROVE \A m \in DOMAIN chat : Kept(m)
  BY <1>2 DEF Kept, Added
<1>3. ASSUME NEW n \in DOMAIN chat, NEW d \in Metadata, Rewrite(n, d),
             d.events = chat[n].events \/ \E e \in Events : d.events = Append(chat[n].events, e)
      PROVE  \A m \in DOMAIN chat : Kept(m)
  BY <1>3, MessagesAreMetadata, RewriteRewrites DEF Kept, Rewritten
<1>4. ASSUME NEW q \in Questions, Ask(q) \/ Route(q) \/ Leave(q) PROVE \A m \in DOMAIN chat : Kept(m)
  <2>1. CASE Ask(q)
    BY <1>2, <2>1, MessagesAreMetadata, ThinkingIsMetadata, AppendAdds DEF Ask
  <2>2. CASE RouteRaises(q) \/ Answer(q) \/ Postpone(q) \/ Leave(q) \/ QueueJob(q)
    BY <1>1, <2>2 DEF RouteRaises, Answer, Postpone, Leave, QueueJob
  <2>3. CASE Deliver(q) \/ ReportError(q) \/ Clarify(q) \/ AttachJob(q)
    <3>1. q \in Unanswered /\ (qpc[q] = "queued" => qjob[q] \in Jobs)
      BY <2>3 DEF Deliver, ReportError, Clarify, AttachJob, Unanswered, Types
    <3>2. qmsg[q] \in DOMAIN chat /\ chat[qmsg[q]] = Thinking
      BY <3>1, NobodysMessage
    <3>3. PICK d \in Metadata : Rewrite(qmsg[q], d) /\ d.events = <<>>
      <4>1. CASE Deliver(q)
        BY <4>1, AnswersAreMetadata DEF Deliver, Thinking
      <4>2. CASE ReportError(q)
        BY <4>2, AnswersAreMetadata DEF ReportError, Thinking
      <4>3. CASE Clarify(q)
        BY <3>2, <4>3, AnswersAreMetadata, ThinkingIsMetadata DEF Clarify, Thinking
      <4>4. CASE AttachJob(q)
        BY <3>1, <4>4, AnswersAreMetadata DEF AttachJob, JobMetadata, Thinking
      <4> QED
        BY <2>3, <4>1, <4>2, <4>3, <4>4
    <3> QED
      BY <1>3, <3>2, <3>3, ThinkingFields
  <2> QED
    BY <1>4, <2>1, <2>2, <2>3 DEF Route
<1>5. ASSUME NEW c \in Continues, Continue(c) \/ MarkContinuing(c) PROVE \A m \in DOMAIN chat : Kept(m)
  <2>1. CASE Continue(c)
    BY <1>1, <2>1 DEF Continue
  <2>2. CASE MarkContinuing(c)
    <3> DEFINE d == [cseen[c].data EXCEPT !.waiting = TRUE]
    <3>1. cseen[c].msg \in DOMAIN chat /\ cseen[c].data \in Metadata /\ d \in Metadata
      BY <2>2, AnswersAreMetadata DEF MarkContinuing, Types, TypeOK
    <3>2. d.events = chat[cseen[c].msg].events
      BY <2>2, <3>1 DEF MarkContinuing, Orderly, Continued, Metadata
    <3>3. Rewrite(cseen[c].msg, d)
      BY <2>2 DEF MarkContinuing
    <3> HIDE DEF d
    <3> QED
      BY <1>3, <3>1, <3>2, <3>3
  <2> QED
    BY <1>5, <2>1, <2>2
<1>6. ASSUME NEW j \in Jobs, Begin(j) \/ Look(j) \/ Drop(j) \/ Skip(j) \/ Verdict(j) \/ RunFails(j) \/ RunBreaks(j) \/ Lose(j)
      PROVE  \A m \in DOMAIN chat : Kept(m)
  BY <1>1, <1>6 DEF Begin, Look, Drop, Skip, Verdict, RunFails, RunBreaks, Lose
<1>7. ASSUME NEW j \in Jobs, LookAgain(j) PROVE \A m \in DOMAIN chat : Kept(m)
  <2>1. CASE UNCHANGED chat
    BY <1>1, <2>1
  <2>2. CASE chat' # chat
    <3>1. call[j].about \in Jobs
      BY <1>7 DEF LookAgain, Types
    <3>2. chat' = Append(chat, [Thinking EXCEPT !.kind = "started", !.job = call[j].about,
                                  !.stream = call[j].about, !.waiting = FALSE])
      BY <1>7, <2>2 DEF LookAgain
    <3> QED
      BY <1>2, <3>1, <3>2, MessagesAreMetadata, AnswersAreMetadata, AppendAdds
  <2> QED
    BY <2>1, <2>2
<1>8. ASSUME NEW j \in Jobs, Store(j) PROVE \A m \in DOMAIN chat : Kept(m)
  <2>1. Rewrite(call[j].msg, NewMetadata(j)) /\ Follows(j, call[j].msg, NewMetadata(j))
    BY <1>8, WhatIsStored DEF Store
  <2> QED
    BY <1>3, <2>1 DEF Follows
<1> QED
  BY <1>1, <1>4, <1>5, <1>6, <1>7, <1>8 DEF Next, Report, vars

\* A run that begins again, a continuation and a report that is repeated only add
\* to what a message has recorded (chat_broadcast.py:259-301, chat.py:982-998).
THEOREM RecordsStay == Spec => NothingForgotten
<1>1. Aligned /\ [Next]_vars =>
        [\A m \in DOMAIN chat : ~Overlap /\ ~raced' => IsPrefix(chat[m].events, chat'[m].events)]_vars
  <2> SUFFICES ASSUME Aligned, [Next]_vars, ~Overlap, ~raced', NEW m \in DOMAIN chat
               PROVE  IsPrefix(chat[m].events, chat'[m].events)
    OBVIOUS
  <2>1. Types /\ Orderly
    BY RacedStays DEF Aligned
  <2>2. Kept(m) /\ chat[m].events \in Seq(Events)
    BY <2>1, StepKeepsEvents, MessagesAreMetadata DEF Metadata
  <2> QED
    BY <2>2, PrefixOfItself, PrefixOfMore DEF Kept
<1> QED
  BY <1>1, AlwaysAligned, PTL DEF Spec, NothingForgotten

-----------------------------------------------------------------------------
(* A job that has ended.                                                   *)

\* A job whose message the API has yet to write to has not reported.
NotBegun(j) == status[j] \in Open /\ next[j] \in {"nothing", "start"}
Unreported ==
  /\ \A q \in Questions : qpc[q] = "queued" => NotBegun(qjob[q])
  /\ \A c \in Continues : cpc[c] = "marking" => NotBegun(cjob[c])

\* A continuation that has reported has taken its message over.
TakenOver == \A j \in Jobs : next[j] \notin {"nothing", "start"} /\ reuse[j] # 0 => chat[reuse[j]].job = j

\* A run about to end lets go of its message, and it stays so unless a later job goes
\* on with the message.
LetGo == \A j \in Jobs : next[j] = "verdict" => \A m \in DOMAIN chat : chat[m].job = j => ~chat[m].waiting
Followed(m) == \E k \in Jobs : reuse[k] = m /\ status[k] # "ended"
Closed ==
  \A j \in Jobs, m \in DOMAIN chat : status[j] = "ended" /\ chat[m].job = j => ~chat[m].waiting \/ Followed(m)

Settling == Unreported /\ TakenOver /\ LetGo /\ Closed

LEMMA InitSettling == Init => Settling
<1> SUFFICES ASSUME Init PROVE Settling
  OBVIOUS
<1>1. DOMAIN chat = {}
  BY EmptySeq, LenProperties DEF Init
<1>2. \A j \in Jobs : next[j] = "nothing"
  BY DEF Init
<1>3. (\A q \in Questions : qpc[q] = "new") /\ (\A c \in Continues : cpc[c] = "new")
  BY DEF Init
<1> QED
  BY <1>1, <1>2, <1>3 DEF Settling, Unreported, TakenOver, LetGo, Closed

\* The messages of jobs are as they were, and there are no others.
Untouched ==
  /\ \A m \in DOMAIN chat : chat[m].job # 0 => m \in DOMAIN chat' /\ chat'[m].job = chat[m].job /\ chat'[m].waiting = chat[m].waiting
  /\ \A m \in DOMAIN chat' : chat'[m].job # 0 => m \in DOMAIN chat /\ chat'[m].job = chat[m].job /\ chat'[m].waiting = chat[m].waiting

LEMMA UntouchedSettles ==
  ASSUME Types, Orderly, Settling, Untouched, UNCHANGED <<status, reuse, next>>,
         \A q \in Questions : qpc'[q] = "queued" => qpc[q] = "queued" /\ qjob'[q] = qjob[q],
         \A c \in Continues : cpc'[c] = "marking" => cpc[c] = "marking" /\ cjob'[c] = cjob[c]
  PROVE  Settling'
<1>1. Unreported'
  BY DEF Settling, Unreported, NotBegun
<1>2. TakenOver'
  <2>1. \A k \in Jobs : reuse[k] # 0 => reuse[k] \in DOMAIN chat /\ chat[reuse[k]].job # 0
    BY MessagesAreMetadata DEF Types, TypeOK, Orderly, Reused
  <2> QED
    BY <2>1 DEF Settling, TakenOver, Untouched
<1>3. LetGo'
  BY DEF Settling, LetGo, Untouched, Jobs
<1>4. Closed'
  BY DEF Settling, Closed, Followed, Untouched, Jobs
<1> QED
  BY <1>1, <1>2, <1>3, <1>4 DEF Settling

LEMMA AttachingSettles ==
  ASSUME Types, Orderly, Settling, NEW q \in Questions, AttachJob(q)
  PROVE  Settling'
<1> DEFINE j == qjob[q]
           d == JobMetadata(j)
<1>1. j \in Jobs /\ qpc[q] = "queued" /\ NotBegun(j) /\ q \in Unanswered
  BY DEF AttachJob, Types, Settling, Unreported, Unanswered
<1>2. d \in Metadata /\ d.job = j
  BY <1>1, AnswersAreMetadata, ThinkingFields DEF JobMetadata, Thinking
<1>3. /\ UNCHANGED <<qjob, cpc, cjob, status, reuse, next>> /\ Rewrite(qmsg[q], d)
      /\ qpc' = [qpc EXCEPT ![q] = "done"]
  BY DEF AttachJob, continues, jobs, runs, Goto
<1>4. qmsg[q] \in DOMAIN chat /\ chat[qmsg[q]].job = 0 /\ \A k \in Jobs : reuse[k] # qmsg[q]
  BY <1>1, NobodysMessage, ThinkingFields
<1> HIDE DEF d, j
<1>5. /\ DOMAIN chat' = DOMAIN chat /\ chat'[qmsg[q]] = d
      /\ \A m \in DOMAIN chat : m # qmsg[q] => chat'[m] = chat[m]
  BY <1>2, <1>3, <1>4, MessagesAreMetadata, RewriteRewrites DEF Rewritten
<1>6. Unreported'
  BY <1>3 DEF Settling, Unreported, NotBegun, Types, TypeOK
<1>7. TakenOver'
  <2>1. \A k \in Jobs : reuse[k] # 0 => reuse[k] \in DOMAIN chat
    BY MessagesAreMetadata DEF Types, TypeOK
  <2> QED
    BY <1>3, <1>4, <1>5, <2>1 DEF Settling, TakenOver
<1>8. LetGo'
  BY <1>1, <1>2, <1>3, <1>5 DEF Settling, LetGo, NotBegun
<1>9. Closed'
  BY <1>1, <1>2, <1>3, <1>5 DEF Settling, Closed, Followed, NotBegun, Open
<1> QED
  BY <1>6, <1>7, <1>8, <1>9 DEF Settling

\* A job is created.
LEMMA CreationSettles ==
  ASSUME Types, Orderly, Settling, ~Overlap, NEW j \in Jobs, NEW n \in Nat, CreateJob(j, n),
         UNCHANGED <<chat, next, call>>,
         \A q \in Questions : qpc'[q] = "queued" => qjob'[q] = j \/ (qpc[q] = "queued" /\ qjob'[q] = qjob[q]),
         \A c \in Continues : cpc'[c] = "marking" => cjob'[c] = j \/ (cpc[c] = "marking" /\ cjob'[c] = cjob[c])
  PROVE  Settling'
<1>1. /\ \A k \in Jobs : next[k] = "nothing"
      /\ status[j] = "absent" /\ status'[j] = "pending" /\ reuse[j] = 0
      /\ \A k \in Jobs : k # j => status'[k] = status[k] /\ reuse'[k] = reuse[k]
  BY JobsComeInOrder DEF Orderly
<1>2. Unreported'
  <2>1. NotBegun(j)'
    BY <1>1 DEF NotBegun, Open
  <2>2. \A k \in Jobs : NotBegun(k) => NotBegun(k)'
    BY <1>1 DEF NotBegun, Open
  <2>3. \A q \in Questions : qpc[q] = "queued" => qjob[q] \in Jobs /\ NotBegun(qjob[q])
    BY DEF Types, Settling, Unreported
  <2>4. \A c \in Continues : cpc[c] = "marking" => cjob[c] \in Jobs /\ NotBegun(cjob[c])
    BY DEF Types, Settling, Unreported
  <2> QED
    BY <2>1, <2>2, <2>3, <2>4 DEF Unreported, NotBegun
<1>3. TakenOver' /\ LetGo'
  BY <1>1 DEF TakenOver, LetGo
<1>4. Closed'
  <2>1. \A m \in DOMAIN chat : m # 0
    BY MessagesAreMetadata
  <2>2. \A m \in DOMAIN chat : Followed(m) => Followed(m)'
    BY <1>1, <2>1 DEF Followed
  <2>3. \A k \in Jobs : status'[k] = "ended" => status[k] = "ended"
    BY <1>1
  <2> QED
    BY <2>2, <2>3 DEF Settling, Closed
<1> QED
  BY <1>2, <1>3, <1>4 DEF Settling

LEMMA MarkingSettles ==
  ASSUME Types, Orderly, Settling, NEW c \in Continues, MarkContinuing(c)
  PROVE  Settling'
<1> DEFINE m == cseen[c].msg
           d == [cseen[c].data EXCEPT !.waiting = TRUE]
<1>1. /\ m \in DOMAIN chat /\ cseen[c].data \in Metadata /\ d \in Metadata
      /\ cpc[c] = "marking" /\ cjob[c] \in Jobs /\ NotBegun(cjob[c])
  BY AnswersAreMetadata DEF MarkContinuing, Types, TypeOK, Settling, Unreported
<1>2. d.job = chat[m].job /\ reuse[cjob[c]] = m
  BY <1>1 DEF Orderly, Continued, Metadata
<1>3. Rewrite(m, d) /\ UNCHANGED <<qpc, qjob, cjob, status, reuse, next>>
  BY DEF MarkContinuing, questions, jobs, runs
<1> HIDE DEF d
<1>4. /\ DOMAIN chat' = DOMAIN chat /\ chat'[m] = d
      /\ \A n \in DOMAIN chat : n # m => chat'[n] = chat[n]
  BY <1>1, <1>3, MessagesAreMetadata, RewriteRewrites DEF Rewritten
<1>5. Unreported'
  BY <1>3 DEF Settling, Unreported, NotBegun, MarkContinuing, Types, TypeOK
<1>6. TakenOver'
  <2>1. \A k \in Jobs : reuse[k] # 0 => reuse[k] \in DOMAIN chat
    BY MessagesAreMetadata DEF Types, TypeOK
  <2> QED
    BY <1>2, <1>3, <1>4, <2>1 DEF Settling, TakenOver
<1>7. LetGo'
  <2>1. \A k \in Jobs : next[k] # "verdict"
    BY <1>1, OneAtATime DEF Orderly, NotBegun
  <2> QED
    BY <1>3, <2>1 DEF LetGo
<1>8. Closed'
  <2>1. Followed(m)
    BY <1>1, <1>2 DEF Followed, NotBegun, Open
  <2> QED
    BY <1>2, <1>3, <1>4, <2>1 DEF Settling, Closed, Followed
<1> QED
  BY <1>5, <1>6, <1>7, <1>8 DEF Settling

LEMMA RunsSettle ==
  ASSUME Types, Orderly, Settling, NEW j \in Jobs, Begin(j) \/ RunBreaks(j) \/ Verdict(j)
  PROVE  Settling'
<1>1. UNCHANGED <<chat, qpc, qjob, cpc, cjob, reuse>>
  BY DEF Begin, Verdict, RunBreaks, questions, continues
<1>2. \A k \in Jobs : k # j => status'[k] = status[k] /\ next'[k] = next[k]
  BY DEF Begin, Verdict, RunBreaks, Types, TypeOK
<1>3. next'[j] \in {"nothing", "start"}
  BY DEF Begin, Verdict, RunBreaks, Types, TypeOK
<1>4. TakenOver' /\ LetGo'
  BY <1>1, <1>2, <1>3 DEF Settling, TakenOver, LetGo
<1>5. CASE Begin(j) \/ RunBreaks(j)
  <2>1. status'[j] \in Open /\ status[j] \in Open
    BY <1>5 DEF Begin, RunBreaks, Types, TypeOK, Open
  <2>2. Unreported'
    BY <1>1, <1>2, <1>3, <2>1 DEF Settling, Unreported, NotBegun, Types
  <2>3. Closed'
    BY <1>1, <1>2, <2>1 DEF Settling, Closed, Followed, Open
  <2> QED
    BY <1>4, <2>2, <2>3 DEF Settling
<1>6. CASE Verdict(j)
  <2>1. next[j] = "verdict" /\ status'[j] = "ended"
    BY <1>6 DEF Verdict, Types, TypeOK
  <2>2. Unreported'
    BY <1>1, <1>2, <2>1 DEF Settling, Unreported, NotBegun, Types
  <2>3. Closed'
    <3> SUFFICES ASSUME NEW i \in Jobs, NEW m \in DOMAIN chat, status'[i] = "ended", chat[m].job = i, chat[m].waiting
                 PROVE  Followed(m)'
      BY <1>1 DEF Closed
    <3>1. i # j
      BY <2>1 DEF Settling, LetGo
    <3>2. PICK k \in Jobs : reuse[k] = m /\ status[k] # "ended"
      BY <1>2, <3>1 DEF Settling, Closed, Followed
    <3>3. k # j
      BY <2>1, <3>1, <3>2, MessagesAreMetadata DEF Settling, TakenOver
    <3> QED
      BY <1>1, <1>2, <3>2, <3>3 DEF Followed
  <2> QED
    BY <1>4, <2>2, <2>3 DEF Settling
<1> QED
  BY <1>5, <1>6

\* A report is answered: what its run does next.
LEMMA WhatComesNext ==
  ASSUME Types, NEW j \in Jobs, next[j] \in Reports, Reported(j)
  PROVE  /\ next'[j] \notin {"nothing", "start"}
         /\ next'[j] = "verdict" => next[j] \in {"summary", "breakoff"}
         /\ \A k \in Jobs : k # j => next'[k] = next[k]
  BY DEF Reported, After, Reports, Types, TypeOK

LEMMA AnsweredIsReported ==
  ASSUME Types, Orderly, Settling, NEW j \in Jobs, next[j] \in Reports, call[j].phase # "idle", Reported(j),
         UNCHANGED <<questions, continues, jobs>>
  PROVE  Unreported'
<1>1. call[j].about = j /\ \A q \in Questions : qpc[q] = "queued" => qjob[q] # j
  BY DEF Orderly, OneByOne, LookedUp
<1>2. \A c \in Continues : cpc[c] = "marking" => cjob[c] # j
  <2> SUFFICES ASSUME NEW c \in Continues, cpc[c] = "marking", cjob[c] = j PROVE FALSE
    OBVIOUS
  <2>1. next[j] = "start" /\ reuse[j] = cseen[c].msg /\ cseen[c].msg # 0
    BY MessagesAreMetadata DEF Settling, Unreported, NotBegun, Orderly, Continued, Types, Reports
  <2>2. call[j].phase = "loaded" /\ call[j].msg = cseen[c].msg
    BY <2>1 DEF Orderly, LookedUp, Types, Hands
  <2> QED
    BY <2>2 DEF Orderly, LookedUp
<1> QED
  BY <1>1, <1>2, WhatComesNext DEF Settling, Unreported, NotBegun, Types, questions, continues, jobs

LEMMA ReportsSettle ==
  ASSUME Types, Orderly, Orderly', Settling, NEW j \in Jobs, LookAgain(j) \/ Drop(j) \/ Skip(j) \/ Store(j)
  PROVE  Settling'
<1>1. /\ next[j] \in Reports /\ status[j] = "running" /\ call[j].phase \in {"loaded", "missing"}
      /\ UNCHANGED <<qpc, qjob, cpc, cjob, status, reuse, questions, continues, jobs>>
  BY DEF LookAgain, Drop, Skip, Store, Types, Reports, questions, continues, jobs
<1>2. \A k \in Jobs : next[k] # "nothing" => k = j
  BY <1>1, OneAtATime DEF Orderly, Open
<1>3. ASSUME Drop(j) \/ Skip(j) PROVE Settling'
  <2>1. Reported(j) /\ chat' = chat
    BY <1>3 DEF Drop, Skip
  <2>2. Unreported'
    BY <1>1, <2>1, AnsweredIsReported
  <2>3. /\ next'[j] = "verdict" => call[j].phase = "missing"
        /\ next[j] = "start" => reuse[j] = 0
    BY <1>1, <1>3, <2>1, WhatComesNext DEF Drop, Skip, AlreadyStarted, Orderly, OneByOne
  <2>4. TakenOver'
    BY <1>1, <2>1, <2>3, WhatComesNext DEF Settling, TakenOver, Reports
  <2>5. LetGo'
    BY <1>1, <2>1, <2>3, WhatComesNext DEF Settling, LetGo, Orderly, LookedUp
  <2>6. Closed'
    BY <1>1, <2>1 DEF Settling, Closed, Followed
  <2> QED
    BY <2>2, <2>4, <2>5, <2>6 DEF Settling
<1>4. ASSUME LookAgain(j) PROVE Settling'
  <2>1. call[j].phase = "missing" /\ call[j].about = j /\ next[j] = "start" /\ reuse[j] = 0 /\ \A n \in DOMAIN chat : chat[n].job # j
    BY <1>4 DEF LookAgain, Orderly, OneByOne, LookedUp
  <2>2. Streaming(j) = 0
    <3>1. Streaming(j) # 0 => Streaming(j) \in DOMAIN chat /\ chat[Streaming(j)].stream = j
      BY FoundIsThere
    <3> QED
      BY <2>1, <3>1 DEF Orderly, Linked
  <2> DEFINE d == [Thinking EXCEPT !.kind = "started", !.job = j, !.stream = j, !.waiting = FALSE]
  <2>3. chat' = Append(chat, d) /\ Reported(j) /\ d \in Metadata /\ ~d.waiting
    BY <1>4, <2>1, <2>2, AnswersAreMetadata DEF LookAgain, Thinking
  <2> HIDE DEF d
  <2>4. Added(d)
    BY <2>3, MessagesAreMetadata, AppendAdds
  <2>5. Unreported'
    BY <1>1, <2>3, AnsweredIsReported
  <2>6. TakenOver' /\ LetGo'
    <3>1. next'[j] # "verdict" /\ \A k \in Jobs : k # j => next'[k] = "nothing"
      BY <1>1, <1>2, <2>1, <2>3, WhatComesNext
    <3> QED
      BY <1>1, <2>1, <3>1 DEF TakenOver, LetGo
  <2>7. Closed'
    BY <1>1, <2>3, <2>4 DEF Settling, Closed, Followed, Added
  <2> QED
    BY <2>5, <2>6, <2>7 DEF Settling
<1>5. ASSUME Store(j) PROVE Settling'
  <2> DEFINE m == call[j].msg
             d == NewMetadata(j)
  <2>1. Follows(j, m, d) /\ Rewrite(m, d) /\ call[j].phase = "loaded"
    BY <1>5, WhatIsStored DEF Store
  <2>2. next[j] \in {"summary", "breakoff"} => ~d.waiting
    <3>1. call[j].data \in Metadata /\ Recorded(j, step[j] + 1, call[j].data) \in Metadata
      BY <1>1, StepsAreCounted, RecordedIsMetadata DEF Types, Hands
    <3> QED
      BY <3>1 DEF NewMetadata, Finished, Metadata
  <2> HIDE DEF d, m
  <2>3. /\ DOMAIN chat' = DOMAIN chat /\ chat'[m] = d
        /\ \A n \in DOMAIN chat : n # m => chat'[n] = chat[n]
    BY <2>1, MessagesAreMetadata, RewriteRewrites DEF Rewritten, Follows
  <2>4. \/ Reported(j)
        \/ next' = next
    BY <1>5 DEF Store, runs
  <2>5. /\ next'[j] = "verdict" => next[j] \in {"summary", "breakoff"}
        /\ \A k \in Jobs : k # j => next'[k] = "nothing"
    BY <1>1, <1>2, <2>4, WhatComesNext DEF Reports
  <2>6. Unreported'
    <3>1. CASE Reported(j)
      BY <1>1, <3>1, AnsweredIsReported
    <3>2. CASE next' = next
      BY <1>1, <3>2 DEF Settling, Unreported, NotBegun
    <3> QED
      BY <2>4, <3>1, <3>2
  <2>7. TakenOver'
    <3>1. reuse[j] # 0 => chat'[reuse[j]].job = j
      <4>1. reuse[j] # 0 => reuse[j] \in DOMAIN chat
        BY MessagesAreMetadata DEF Types, TypeOK
      <4>2. CASE next[j] = "start"
        BY <2>1, <2>3, <4>2 DEF Follows
      <4>3. CASE next[j] # "start"
        BY <1>1, <2>1, <2>3, <4>1, <4>3 DEF Settling, TakenOver, Follows, Reports
      <4> QED
        BY <4>2, <4>3
    <3> QED
      BY <1>1, <2>5, <3>1 DEF TakenOver
  <2>8. LetGo'
    <3>1. \A n \in DOMAIN chat' : chat'[n].job = j => n = m
      BY <2>1, <2>3 DEF Orderly, Single, Follows, Jobs
    <3> QED
      BY <2>2, <2>3, <2>5, <3>1 DEF LetGo
  <2>9. Closed'
    BY <1>1, <2>1, <2>3 DEF Settling, Closed, Followed, Follows
  <2> QED
    BY <2>6, <2>7, <2>8, <2>9 DEF Settling
<1> QED
  BY <1>3, <1>4, <1>5

LEMMA QuestionsSettleToo ==
  ASSUME Types, Orderly, Settling, ~Overlap, NEW q \in Questions, Ask(q) \/ Route(q) \/ Leave(q)
  PROVE  Settling'
<1>1. CASE Ask(q)
  <2>1. Added(Thinking)
    BY <1>1, MessagesAreMetadata, ThinkingIsMetadata, AppendAdds DEF Ask
  <2>2. Untouched
    BY <2>1, ThinkingFields DEF Added, Untouched
  <2> QED
    BY <1>1, <2>2, UntouchedSettles DEF Ask, Goto, continues, jobs, runs, Types, TypeOK
<1>2. CASE RouteRaises(q) \/ Answer(q) \/ Postpone(q) \/ Leave(q)
  <2>1. UNCHANGED <<chat, qjob, cpc, cjob, status, reuse, next>>
    BY <1>2 DEF RouteRaises, Answer, Postpone, Leave, continues, jobs, runs
  <2>2. \A p \in Questions : qpc'[p] = "queued" => qpc[p] = "queued"
    <3>1. PICK state \in {"answering", "raised", "left"} : Goto(q, state)
      BY <1>2 DEF RouteRaises, Answer, Postpone, Leave
    <3> QED
      BY <3>1 DEF Goto, Types, TypeOK
  <2>3. Untouched
    BY <2>1 DEF Untouched
  <2> QED
    BY <2>1, <2>2, <2>3, UntouchedSettles
<1>3. CASE Deliver(q) \/ ReportError(q) \/ Clarify(q)
  <2>1. q \in Unanswered
    BY <1>3 DEF Deliver, ReportError, Clarify, Unanswered
  <2>2. qmsg[q] \in DOMAIN chat /\ chat[qmsg[q]] = Thinking
    BY <2>1, NobodysMessage
  <2>3. PICK d \in Metadata : d.job = 0 /\ Rewrite(qmsg[q], d)
    <3>1. CASE Deliver(q)
      BY <3>1, AnswersAreMetadata DEF Deliver, Thinking
    <3>2. CASE ReportError(q)
      BY <3>2, AnswersAreMetadata DEF ReportError, Thinking
    <3>3. CASE Clarify(q)
      BY <2>2, <3>3, AnswersAreMetadata, ThinkingIsMetadata DEF Clarify, Thinking
    <3> QED
      BY <1>3, <3>1, <3>2, <3>3
  <2>4. Untouched
    BY <2>2, <2>3, ThinkingFields, MessagesAreMetadata, RewriteRewrites DEF Untouched, Rewritten
  <2>5. UNCHANGED <<qjob, cpc, cjob, status, reuse, next>>
    BY <1>3 DEF Deliver, ReportError, Clarify, continues, jobs, runs
  <2>6. \A p \in Questions : qpc'[p] = "queued" => qpc[p] = "queued"
    BY <1>3 DEF Deliver, ReportError, Clarify, Goto, Types, TypeOK
  <2> QED
    BY <2>4, <2>5, <2>6, UntouchedSettles
<1>4. CASE QueueJob(q)
  <2>1. PICK j \in Jobs : CreateJob(j, 0) /\ qjob' = [qjob EXCEPT ![q] = j]
    BY <1>4 DEF QueueJob
  <2>2. UNCHANGED <<chat, next, call, cpc, cjob>>
    BY <1>4 DEF QueueJob, continues, runs
  <2>3. \A p \in Questions : qpc'[p] = "queued" => qjob'[p] = j \/ (qpc[p] = "queued" /\ qjob'[p] = qjob[p])
    BY <1>4, <2>1 DEF QueueJob, Goto, Types, TypeOK
  <2> QED
    BY <2>1, <2>2, <2>3, CreationSettles
<1> QED
  BY <1>1, <1>2, <1>3, <1>4, AttachingSettles DEF Route

LEMMA ContinuationsSettle ==
  ASSUME Types, Orderly, Settling, ~Overlap, NEW c \in Continues, Continue(c)
  PROVE  Settling'
<1>1. PICK j \in Jobs, n \in Jobs :
        /\ status[j] \in {"pending", "ended"}
        /\ LET m == LastOf({k \in DOMAIN chat : chat[k].job = j})
           IN  /\ CreateJob(n, m)
               /\ cjob' = [cjob EXCEPT ![c] = n]
               /\ IF m = 0
                  THEN cpc' = [cpc EXCEPT ![c] = "done"] /\ UNCHANGED cseen
                  ELSE /\ cpc'   = [cpc EXCEPT ![c] = "marking"]
                       /\ cseen' = [cseen EXCEPT ![c] = Loaded(n, m, chat[m])]
  BY Zenon DEF Continue
<1> DEFINE m == LastOf({k \in DOMAIN chat : chat[k].job = j})
<1>2. m \in Nat
  <2>1. m \in 0 .. Len(chat)
    BY FoundIsThere
  <2> HIDE DEF m
  <2> QED
    BY <2>1, MessagesAreMetadata
<1>3. CreateJob(n, m) /\ cjob' = [cjob EXCEPT ![c] = n] /\ \E s \in {"done", "marking"} : cpc' = [cpc EXCEPT ![c] = s]
  BY <1>1
<1> HIDE DEF m
<1>4. UNCHANGED <<chat, next, call, qpc, qjob>>
  BY DEF Continue, questions, runs
<1>5. \A e \in Continues : cpc'[e] = "marking" => cjob'[e] = n \/ (cpc[e] = "marking" /\ cjob'[e] = cjob[e])
  BY <1>3 DEF Types, TypeOK
<1> QED
  BY <1>2, <1>3, <1>4, <1>5, CreationSettles

LEMMA StepSettles ==
  ASSUME Types, Orderly, Orderly', Settling, ~Overlap, [Next]_vars, losses' = 0
  PROVE  Settling'
<1>1. CASE UNCHANGED vars
  <2>1. UNCHANGED <<chat, qpc, qjob, cpc, cjob, status, reuse, next>>
    BY <1>1 DEF vars, questions, continues, jobs, runs
  <2>2. Untouched
    BY <2>1 DEF Untouched
  <2> QED
    BY <2>1, <2>2, UntouchedSettles
<1>2. ASSUME NEW q \in Questions, Ask(q) \/ Route(q) \/ Leave(q) PROVE Settling'
  BY <1>2, QuestionsSettleToo
<1>3. ASSUME NEW c \in Continues, Continue(c) \/ MarkContinuing(c) PROVE Settling'
  BY <1>3, ContinuationsSettle, MarkingSettles
<1>4. ASSUME NEW j \in Jobs, Look(j) PROVE Settling'
  <2>1. UNCHANGED <<chat, qpc, qjob, cpc, cjob, status, reuse, next>>
    BY <1>4 DEF Look, questions, continues, jobs, runs
  <2>2. Untouched
    BY <2>1 DEF Untouched
  <2> QED
    BY <2>1, <2>2, UntouchedSettles
<1>5. ASSUME NEW j \in Jobs, LookAgain(j) \/ Drop(j) \/ Skip(j) \/ Store(j) PROVE Settling'
  BY <1>5, ReportsSettle
<1>6. ASSUME NEW j \in Jobs, Begin(j) \/ RunBreaks(j) \/ Verdict(j) PROVE Settling'
  BY <1>6, RunsSettle
<1>7. ASSUME NEW j \in Jobs, RunFails(j) \/ Lose(j) PROVE FALSE
  BY <1>7 DEF RunFails, Lose, Types, TypeOK
<1>8. CASE Next
  BY <1>2, <1>3, <1>4, <1>5, <1>6, <1>7, <1>8 DEF Next, Report
<1> QED
  BY <1>1, <1>8

\* A report that is lost stays lost.
LEMMA LossesStay == Types /\ [Next]_vars /\ losses' = 0 => losses = 0
<1> SUFFICES ASSUME Types, [Next]_vars, losses' = 0 PROVE losses = 0
  OBVIOUS
<1>1. ASSUME NEW q \in Questions, Ask(q) \/ Route(q) \/ Leave(q) PROVE losses' = losses
  BY <1>1 DEF Ask, Route, Leave, RouteRaises, Answer, Deliver, ReportError, Postpone, Clarify, QueueJob, AttachJob, budgets
<1>2. ASSUME NEW c \in Continues, Continue(c) \/ MarkContinuing(c) PROVE losses' = losses
  BY <1>2 DEF Continue, MarkContinuing, budgets
<1>3. ASSUME NEW j \in Jobs, Begin(j) \/ Report(j) \/ Verdict(j) \/ RunBreaks(j) PROVE losses' = losses
  BY <1>3 DEF Begin, Report, Look, LookAgain, Drop, Skip, Store, Verdict, RunBreaks, budgets
<1>4. ASSUME NEW j \in Jobs, RunFails(j) \/ Lose(j) PROVE FALSE
  BY <1>4 DEF RunFails, Lose, Types, TypeOK
<1> QED
  BY <1>1, <1>2, <1>3, <1>4 DEF Next, vars, budgets

\* Unless a report is lost, the message a job reported to does not wait any more once
\* the job has ended, but where a later job goes on with it
\* (chat_broadcast.py:704-741).
THEOREM EndedJobsHaveSettled == Spec => []EndedJobsSettle
<1> DEFINE Inv == Aligned /\ (~Overlap /\ ~raced /\ losses = 0 => Settling)
<1>1. Init => Inv
  BY InitTypes, InitOrderly, InitSettling DEF Aligned
<1>2. Inv /\ [Next]_vars => Inv'
  <2> SUFFICES ASSUME Inv, [Next]_vars PROVE Inv'
    OBVIOUS
  <2>1. Aligned'
    BY StepKeepsTypes, StepStaysOrderly, RacedStays DEF Aligned
  <2>2. ASSUME ~Overlap, ~raced', losses' = 0 PROVE Settling'
    BY <2>1, <2>2, StepSettles, RacedStays, LossesStay DEF Aligned
  <2> QED
    BY <2>1, <2>2
<1>3. Inv => EndedJobsSettle
  <2> SUFFICES ASSUME Inv, ~Overlap, ~raced, losses = 0, NEW j \in Jobs, NEW m \in DOMAIN chat,
                      status[j] = "ended", chat[m].stream = j
               PROVE  ~chat[m].waiting \/ Followed(m)
    BY DEF EndedJobsSettle, Followed
  <2> QED
    BY DEF Aligned, Orderly, Linked, Settling, Closed
<1> QED
  BY <1>1, <1>2, <1>3, PTL DEF Spec

-----------------------------------------------------------------------------
(* What a run has reported.                                                *)

\* What s tells of the run r of job j: each of its first n tools, in order and
\* nothing else, but for the report it is about (over) and for repeated ones (again).
OfRun(s, j, r) == {i \in DOMAIN s : s[i].job = j /\ s[i].run = r}
Told(s, j, r, n) == \A k \in 1 .. n : \E i \in OfRun(s, j, r) : s[i].step = k
UpTo(s, j, r, n) == \A i \in OfRun(s, j, r) : s[i].step <= n
InOrder(s, j, r, again) ==
  \A i, k \in OfRun(s, j, r) : i < k => s[i].step < s[k].step \/ (s[i].step = s[k].step /\ again)
Written(s, j, r, n, over, again) ==
  Told(s, j, r, n) /\ UpTo(s, j, r, n + 1) /\ (over \/ UpTo(s, j, r, n)) /\ InOrder(s, j, r, again)

\* A run that has not reported a tool has nothing to be told of.
LEMMA NothingWritten ==
  ASSUME NEW s \in Seq(Events), NEW j \in Jobs, NEW r, NEW over \in BOOLEAN, NEW again \in BOOLEAN,
         \A i \in DOMAIN s : s[i].job = j => s[i].run # r
  PROVE  Written(s, j, r, 0, over, again)
<1>1. OfRun(s, j, r) = {}
  BY DEF OfRun
<1> QED
  BY <1>1 DEF Written, Told, UpTo, InOrder

\* The next tool is recorded.
Longer(t, s, j, r, n) == \E e \in Events : e.job = j /\ e.run = r /\ e.step = n + 1 /\ t = Append(s, e)

LEMMA OneMoreWritten ==
  ASSUME NEW s \in Seq(Events), NEW t, NEW j \in Jobs, NEW r, NEW n \in Nat, NEW again \in BOOLEAN,
         Written(s, j, r, n, again, again), Longer(t, s, j, r, n)
  PROVE  Told(t, j, r, n + 1) /\ UpTo(t, j, r, n + 1) /\ InOrder(t, j, r, again)
<1> PICK e \in Events : e.job = j /\ e.run = r /\ e.step = n + 1 /\ t = Append(s, e)
  BY DEF Longer
<1>1. /\ Len(s) \in Nat /\ DOMAIN s = 1 .. Len(s) /\ Len(t) = Len(s) + 1 /\ DOMAIN t = 1 .. Len(t)
      /\ t[Len(s) + 1] = e /\ \A i \in 1 .. Len(s) : t[i] = s[i]
  BY AppendProperties, LenProperties
<1> PICK z \in Nat : z = Len(s) + 1
  BY <1>1
<1>2. DOMAIN t = DOMAIN s \union {z} /\ z \notin DOMAIN s /\ \A i \in DOMAIN s : i < z /\ i \in Nat
  BY <1>1
<1>3. t[z] = e /\ \A i \in DOMAIN s : t[i] = s[i]
  BY <1>1
<1>4. OfRun(t, j, r) = OfRun(s, j, r) \union {z} /\ OfRun(s, j, r) \subseteq DOMAIN s
  BY <1>2, <1>3 DEF OfRun
<1>5. \A i \in DOMAIN s : s[i].step \in Nat
  <2>1. \A i \in DOMAIN s : s[i] \in Events
    BY ElementOfSeq, <1>1
  <2> QED
    BY <2>1, ChatConstantsAssumption DEF Events
<1>6. \A k \in 1 .. n + 1 : k = n + 1 \/ k \in 1 .. n
  OBVIOUS
<1>7. Told(t, j, r, n + 1)
  <2> SUFFICES ASSUME NEW k \in 1 .. n + 1 PROVE \E i \in OfRun(t, j, r) : t[i].step = k
    BY DEF Told
  <2>1. CASE k = n + 1
    BY <2>1, <1>3, <1>4
  <2>2. CASE k \in 1 .. n
    <3>1. PICK i \in OfRun(s, j, r) : s[i].step = k
      BY <2>2 DEF Written, Told
    <3> QED
      BY <3>1, <1>3, <1>4
  <2> QED
    BY <1>6, <2>1, <2>2
<1>8. UpTo(t, j, r, n + 1)
  BY <1>3, <1>4 DEF Written, UpTo
<1>9. InOrder(t, j, r, again)
  <2> SUFFICES ASSUME NEW i \in OfRun(t, j, r), NEW k \in OfRun(t, j, r), i < k
               PROVE  t[i].step < t[k].step \/ (t[i].step = t[k].step /\ again)
    BY DEF InOrder
  <2>1. i \in OfRun(s, j, r)
    BY <1>2, <1>4
  <2>2. CASE k \in OfRun(s, j, r)
    BY <2>1, <2>2, <1>3, <1>4 DEF Written, InOrder
  <2>3. CASE k = z
    <3>1. t[i].step = s[i].step /\ t[k].step = n + 1 /\ s[i].step \in Nat
      BY <2>1, <2>3, <1>3, <1>4, <1>5
    <3>2. s[i].step <= n + 1 /\ (again \/ s[i].step <= n)
      BY <2>1 DEF Written, UpTo
    <3> QED
      BY <3>1, <3>2
  <2> QED
    BY <1>4, <2>2, <2>3
<1> QED
  BY <1>7, <1>8, <1>9

LEMMA WrittenIsWritten ==
  ASSUME NEW s \in Seq(Events), NEW j \in Jobs, NEW r, NEW n \in Nat,
         NEW over \in BOOLEAN, NEW again \in BOOLEAN, Told(s, j, r, n), InOrder(s, j, r, again),
         UpTo(s, j, r, n) \/ (UpTo(s, j, r, n + 1) /\ over)
  PROVE  Written(s, j, r, n, over, again)
<1>1. \A i \in DOMAIN s : s[i].step \in Nat
  <2>1. \A i \in DOMAIN s : s[i] \in Events
    BY ElementOfSeq, LenProperties
  <2> QED
    BY <2>1, ChatConstantsAssumption DEF Events
<1>2. UpTo(s, j, r, n) => UpTo(s, j, r, n + 1)
  BY <1>1 DEF UpTo, OfRun
<1> QED
  BY <1>2 DEF Written

\* A run that has reported has a message, which tells what it has; what is recorded is
\* of this run or an earlier one, and of an earlier one as long as it has not started.
Begun(j) == next[j] \notin {"nothing", "start"}
Tells(j, m) ==
  /\ chat[m].job = j
  /\ Written(chat[m].events, j, run[j], step[j], next[j] = "verdict" \/ repeats > 0, repeats > 0)
OfThePast(e) == e.run <= run[e.job] /\ (next[e.job] = "start" => e.run # run[e.job])
Past(m) == \A i \in DOMAIN chat[m].events : OfThePast(chat[m].events[i])
Recording ==
  /\ \A j \in Jobs :
       /\ status[j] = "running" => next[j] # "nothing"
       /\ next[j] = "start" => step[j] = 0
       /\ Begun(j) => \E m \in DOMAIN chat : Tells(j, m)
  /\ \A m \in DOMAIN chat : Past(m)

LEMMA InitRecording == Init => Recording
<1> SUFFICES ASSUME Init PROVE Recording
  OBVIOUS
<1>1. DOMAIN chat = {}
  BY EmptySeq, LenProperties DEF Init
<1>2. \A j \in Jobs : next[j] = "nothing" /\ status[j] = "absent"
  BY DEF Init
<1> QED
  BY <1>1, <1>2 DEF Recording, Begun

\* The messages of jobs tell what they did, and no other tells anything new.
Quiet ==
  /\ \A m \in DOMAIN chat : chat[m].job # 0 =>
       m \in DOMAIN chat' /\ chat'[m].job = chat[m].job /\ chat'[m].events = chat[m].events
  /\ \A m \in DOMAIN chat' :
       chat'[m].events = <<>> \/ (m \in DOMAIN chat /\ chat'[m].events = chat[m].events)

LEMMA QuietRecords ==
  ASSUME Types, Recording, Quiet, UNCHANGED <<run, next, step, repeats>>,
         \A j \in Jobs : status'[j] = "running" => status[j] = "running"
  PROVE  Recording'
<1>1. \A j \in Jobs, m \in DOMAIN chat : Tells(j, m) => m \in DOMAIN chat' /\ Tells(j, m)'
  BY DEF Tells, Quiet, Jobs
<1>2. \A j \in Jobs : Begun(j)' => Begun(j)
  BY DEF Begun
<1>3. \A m \in DOMAIN chat' : Past(m)'
  <2> SUFFICES ASSUME NEW m \in DOMAIN chat' PROVE Past(m)'
    OBVIOUS
  <2>1. CASE chat'[m].events = <<>>
    <3>1. DOMAIN chat'[m].events = {}
      BY <2>1, EmptySeq, LenProperties
    <3> QED
      BY <3>1 DEF Past
  <2>2. CASE m \in DOMAIN chat /\ chat'[m].events = chat[m].events
    BY <2>2 DEF Recording, Past, OfThePast
  <2> QED
    BY <2>1, <2>2 DEF Quiet
<1> QED
  BY <1>1, <1>2, <1>3 DEF Recording

LEMMA QuestionsRecord ==
  ASSUME Types, Orderly, Recording, NEW q \in Questions, Ask(q) \/ Route(q) \/ Leave(q)
  PROVE  Recording'
<1>1. UNCHANGED <<run, next, step, repeats>>
  BY DEF Ask, Route, Leave, RouteRaises, Answer, Deliver, ReportError, Postpone, Clarify, QueueJob, AttachJob,
         runs, budgets
<1>2. \A j \in Jobs : status'[j] = "running" => status[j] = "running"
  <2>1. CASE QueueJob(q)
    <3>1. PICK j \in Jobs : CreateJob(j, 0)
      BY <2>1 DEF QueueJob
    <3> QED
      BY <3>1 DEF CreateJob, Types, TypeOK
  <2> QED
    BY <2>1 DEF Ask, Route, Leave, RouteRaises, Answer, Deliver, ReportError, Postpone, Clarify, AttachJob, jobs
<1>3. Quiet
  <2>1. CASE Ask(q)
    BY <2>1, MessagesAreMetadata, ThinkingIsMetadata, AppendAdds, ThinkingFields DEF Ask, Added, Quiet
  <2>2. CASE RouteRaises(q) \/ Answer(q) \/ Postpone(q) \/ Leave(q) \/ QueueJob(q)
    <3>1. chat' = chat
      BY <2>2 DEF RouteRaises, Answer, Postpone, Leave, QueueJob
    <3> QED
      BY <3>1 DEF Quiet
  <2>3. CASE Deliver(q) \/ ReportError(q) \/ Clarify(q) \/ AttachJob(q)
    <3>1. q \in Unanswered /\ (qpc[q] = "queued" => qjob[q] \in Jobs)
      BY <2>3 DEF Deliver, ReportError, Clarify, AttachJob, Unanswered, Types
    <3>2. qmsg[q] \in DOMAIN chat /\ chat[qmsg[q]] = Thinking
      BY <3>1, NobodysMessage
    <3>3. PICK d \in Metadata : Rewrite(qmsg[q], d) /\ d.events = <<>>
      <4>1. CASE Deliver(q)
        BY <4>1, AnswersAreMetadata DEF Deliver, Thinking
      <4>2. CASE ReportError(q)
        BY <4>2, AnswersAreMetadata DEF ReportError, Thinking
      <4>3. CASE Clarify(q)
        BY <3>2, <4>3, AnswersAreMetadata, ThinkingIsMetadata DEF Clarify, Thinking
      <4>4. CASE AttachJob(q)
        BY <3>1, <4>4, AnswersAreMetadata DEF AttachJob, JobMetadata, Thinking
      <4> QED
        BY <2>3, <4>1, <4>2, <4>3, <4>4
    <3> QED
      BY <3>2, <3>3, ThinkingFields, MessagesAreMetadata, RewriteRewrites DEF Quiet, Rewritten
  <2> QED
    BY <2>1, <2>2, <2>3 DEF Route
<1> QED
  BY <1>1, <1>2, <1>3, QuietRecords

LEMMA ContinuationsRecord ==
  ASSUME Types, Orderly, Recording, NEW c \in Continues, Continue(c) \/ MarkContinuing(c)
  PROVE  Recording'
<1>1. UNCHANGED <<run, next, step, repeats>>
  BY DEF Continue, MarkContinuing, runs, budgets
<1>2. CASE Continue(c)
  <2>1. PICK n \in Jobs, m \in Nat \union {LastOf({k \in DOMAIN chat : chat[k].job = j}) : j \in Jobs} : CreateJob(n, m)
    BY <1>2 DEF Continue
  <2>2. \A j \in Jobs : status'[j] = "running" => status[j] = "running"
    BY <2>1 DEF CreateJob, Types, TypeOK
  <2>3. Quiet
    BY <1>2 DEF Continue, Quiet
  <2> QED
    BY <1>1, <2>2, <2>3, QuietRecords
<1>3. CASE MarkContinuing(c)
  <2> DEFINE d == [cseen[c].data EXCEPT !.waiting = TRUE]
  <2>1. cseen[c].msg \in DOMAIN chat /\ cseen[c].data \in Metadata /\ d \in Metadata
    BY <1>3, AnswersAreMetadata DEF MarkContinuing, Types, TypeOK
  <2>2. d.events = chat[cseen[c].msg].events /\ d.job = chat[cseen[c].msg].job
    BY <1>3, <2>1 DEF MarkContinuing, Orderly, Continued, Metadata
  <2>3. Rewrite(cseen[c].msg, d) /\ status' = status
    BY <1>3 DEF MarkContinuing, jobs
  <2> HIDE DEF d
  <2>4. Quiet
    BY <2>1, <2>2, <2>3, MessagesAreMetadata, RewriteRewrites DEF Quiet, Rewritten
  <2> QED
    BY <1>1, <2>3, <2>4, QuietRecords
<1> QED
  BY <1>2, <1>3

\* The runs, but for their reports.
LEMMA RunsRecord ==
  ASSUME Types, Orderly, Recording, NEW j \in Jobs, Begin(j) \/ RunBreaks(j) \/ Verdict(j)
  PROVE  Recording'
<1>1. chat' = chat /\ repeats' = repeats
  BY DEF Begin, Verdict, RunBreaks, budgets
<1>2. \A k \in Jobs : k # j => status'[k] = status[k] /\ next'[k] = next[k] /\ run'[k] = run[k] /\ step'[k] = step[k]
  BY DEF Begin, Verdict, RunBreaks, Types, TypeOK
<1>3. /\ next'[j] \in {"nothing", "start"} /\ (next'[j] = "start" => step'[j] = 0)
      /\ status'[j] = "running" => next'[j] # "nothing"
      /\ run[j] \in Nat /\ run'[j] \in {run[j], run[j] + 1} /\ (next'[j] = "start" => run'[j] = run[j] + 1)
  BY DEF Begin, Verdict, RunBreaks, Types, TypeOK
<1>4. \A k \in Jobs, m \in DOMAIN chat : k # j /\ Tells(k, m) => Tells(k, m)'
  BY <1>1, <1>2 DEF Tells
<1>5. ~Begun(j)' /\ \A k \in Jobs : k # j /\ Begun(k)' => Begun(k)
  BY <1>2, <1>3 DEF Begun
<1>6. ASSUME NEW e \in Events, OfThePast(e) PROVE OfThePast(e)'
  <2>1. e.job \in Jobs /\ e.run \in Nat
    BY DEF Events
  <2>2. CASE e.job = j
    BY <1>3, <1>6, <2>1, <2>2 DEF OfThePast
  <2>3. CASE e.job # j
    BY <1>2, <1>6, <2>1, <2>3 DEF OfThePast
  <2> QED
    BY <2>2, <2>3
<1>7. \A m \in DOMAIN chat : \A i \in DOMAIN chat[m].events : chat[m].events[i] \in Events
  BY MessagesAreMetadata, ElementOfSeq, LenProperties DEF Metadata
<1>8. \A m \in DOMAIN chat : Past(m)'
  BY <1>1, <1>6, <1>7 DEF Recording, Past
<1> QED
  BY <1>1, <1>2, <1>3, <1>4, <1>5, <1>8 DEF Recording

\* A report is answered, and a message tells what it said.
LEMMA AnsweredRecords ==
  ASSUME Types, Orderly, Recording, NEW j \in Jobs, next[j] \in Reports, Reported(j), UNCHANGED jobs,
         \E m \in DOMAIN chat' : Tells(j, m)',
         \A m \in DOMAIN chat' : \A i \in DOMAIN chat'[m].events :
           LET e == chat'[m].events[i] IN e \in Events /\ (OfThePast(e) \/ (e.job = j /\ e.run = run[j]))
  PROVE  Recording'
<1>1. status[j] \in Open /\ run[j] \in Nat
  BY DEF Types, TypeOK, Open, Reports
<1>2. \A k \in Jobs : k # j => next[k] = "nothing" /\ status[k] \notin Open
  BY <1>1, OneAtATime DEF Orderly
<1>3. next'[j] \notin {"nothing", "start"} /\ \A k \in Jobs : k # j => next'[k] = next[k]
  BY WhatComesNext
<1>4. \A k \in Jobs : (status'[k] = "running" => next'[k] # "nothing") /\ next'[k] # "start" /\ (Begun(k)' => k = j)
  BY <1>2, <1>3 DEF Open, Begun, jobs
<1>5. run' = run
  BY DEF Reported
<1>6. ASSUME NEW e \in Events, OfThePast(e) \/ (e.job = j /\ e.run = run[j]) PROVE OfThePast(e)'
  <2>1. e.job \in Jobs /\ e.run <= run[e.job]
    BY <1>1, <1>6 DEF Events, OfThePast
  <2> QED
    BY <1>4, <1>5, <2>1 DEF OfThePast
<1>7. \A m \in DOMAIN chat' : Past(m)'
  BY <1>6 DEF Past
<1> QED
  BY <1>4, <1>7 DEF Recording

\* What is stored of a report.
LEMMA WhatIsRecorded ==
  ASSUME Types, Orderly, NEW j \in Jobs, call[j].phase = "loaded"
  PROVE  LET s == chat[call[j].msg].events
             e == [job |-> j, run |-> run[j], step |-> step[j] + 1]
         IN  /\ next[j] \in {"tool", "summary"} => NewMetadata(j).events = Append(s, e)
             /\ next[j] \in {"start", "breakoff"} => NewMetadata(j).events = s
<1> PICK d : d = call[j].data
  OBVIOUS
<1>1. d = chat[call[j].msg] /\ d \in Metadata /\ next[j] \in Reports
  BY DEF Types, Hands, Orderly, LookedUp
<1> PICK r : r = Recorded(j, step[j] + 1, d)
  OBVIOUS
<1>2. r \in Metadata /\ r.events = Append(d.events, [job |-> j, run |-> run[j], step |-> step[j] + 1])
  BY <1>1, StepsAreCounted, RecordedIsMetadata
<1>3. CASE next[j] = "start"
  <2>1. NewMetadata(j) = Started(call[j].about, d)
    BY <1>3 DEF NewMetadata
  <2>2. Started(call[j].about, d).events = d.events
    BY <1>1 DEF Started, Metadata
  <2> QED
    BY <1>1, <1>3, <2>1, <2>2
<1>4. CASE next[j] = "tool"
  <2>1. NewMetadata(j) = r
    BY <1>4 DEF NewMetadata
  <2> QED
    BY <1>1, <1>2, <1>4, <2>1
<1>5. CASE next[j] = "summary"
  <2>1. NewMetadata(j) = [r EXCEPT !.waiting = FALSE]
    BY <1>5 DEF NewMetadata, Finished
  <2>2. [r EXCEPT !.waiting = FALSE].events = r.events
    BY <1>2 DEF Metadata
  <2> QED
    BY <1>1, <1>2, <1>5, <2>1, <2>2
<1>6. CASE next[j] = "breakoff"
  <2>1. NewMetadata(j) = [d EXCEPT !.waiting = FALSE]
    BY <1>6 DEF NewMetadata, Finished
  <2>2. [d EXCEPT !.waiting = FALSE].events = d.events
    BY <1>1 DEF Metadata
  <2> QED
    BY <1>1, <1>6, <2>1, <2>2
<1> QED
  BY <1>1, <1>3, <1>4, <1>5, <1>6 DEF Reports

\* What is recorded in the messages is an event, and of the past.
LEMMA EventsAreOfThePast ==
  ASSUME Types, Recording, NEW m \in DOMAIN chat
  PROVE  chat[m].events \in Seq(Events) /\ \A i \in DOMAIN chat[m].events : chat[m].events[i] \in Events /\ OfThePast(chat[m].events[i])
<1>1. chat[m].events \in Seq(Events)
  BY MessagesAreMetadata DEF Metadata
<1>2. \A i \in DOMAIN chat[m].events : chat[m].events[i] \in Events
  BY <1>1, ElementOfSeq, LenProperties
<1> QED
  BY <1>1, <1>2 DEF Recording, Past

\* A run that has just started has nothing to tell.
LEMMA StartTellsNothing ==
  ASSUME Types, Recording, NEW j \in Jobs, next[j] = "start", NEW m \in DOMAIN chat,
         NEW over \in BOOLEAN, NEW again \in BOOLEAN
  PROVE  step[j] = 0 /\ Written(chat[m].events, j, run[j], 0, over, again)
<1>1. chat[m].events \in Seq(Events) /\ \A i \in DOMAIN chat[m].events : OfThePast(chat[m].events[i])
  BY EventsAreOfThePast
<1>2. \A i \in DOMAIN chat[m].events : chat[m].events[i].job = j => chat[m].events[i].run # run[j]
  BY <1>1 DEF OfThePast
<1> QED
  BY <1>1, <1>2, NothingWritten DEF Recording

\* What the run of j has reported is written in its message, with the report at hand.
LEMMA StoreTells ==
  ASSUME Types, Orderly, Recording, NEW j \in Jobs, call[j].phase = "loaded"
  PROVE  LET s == NewMetadata(j).events
             n == step[j]
         IN  /\ next[j] = "start" => n = 0 /\ \A o, a \in BOOLEAN : Written(s, j, run[j], n, o, a)
             /\ next[j] = "tool" => \A o \in BOOLEAN : Written(s, j, run[j], n + 1, o, repeats > 0)
             /\ next[j] # "start" => Written(s, j, run[j], n, TRUE, repeats > 0) /\ Written(s, j, run[j], n, TRUE, TRUE)
             /\ s \in Seq(Events)
             /\ \A i \in DOMAIN s : s[i] \in Events /\ (OfThePast(s[i]) \/ (s[i].job = j /\ s[i].run = run[j]))
<1> PICK m : m = call[j].msg
  OBVIOUS
<1> PICK n \in Nat : n = step[j]
  BY StepsAreCounted
<1>0. (repeats > 0) \in BOOLEAN
  BY DEF Types, TypeOK
<1> PICK again \in BOOLEAN : again = (repeats > 0)
  BY <1>0, Zenon
<1> PICK s : s = chat[m].events
  OBVIOUS
<1> PICK d : d = NewMetadata(j)
  OBVIOUS
<1> PICK e : e = [job |-> j, run |-> run[j], step |-> step[j] + 1]
  OBVIOUS
<1>1. /\ m \in DOMAIN chat /\ next[j] \in Reports
      /\ s \in Seq(Events) /\ \A i \in DOMAIN s : s[i] \in Events /\ OfThePast(s[i])
  BY EventsAreOfThePast DEF Types
<1>2. e \in Events /\ e.job = j /\ e.run = run[j] /\ e.step = n + 1
  BY <1>1, StepsAreCounted DEF Events, Types, Reports
<1>3. /\ next[j] \in {"tool", "summary"} => d.events = Append(s, e)
      /\ next[j] \in {"start", "breakoff"} => d.events = s
  BY WhatIsRecorded
<1>4. next[j] # "start" => Written(s, j, run[j], n, again, again)
  <2> SUFFICES ASSUME next[j] # "start" PROVE Written(s, j, run[j], n, again, again)
    OBVIOUS
  <2>1. PICK k \in DOMAIN chat : Tells(j, k)
    BY <1>1 DEF Recording, Begun, Reports
  <2>2. chat[m].job = j
    BY WhatIsStored DEF Follows
  <2>3. k = m
    BY <1>1, <2>1, <2>2 DEF Orderly, Single, Tells, Jobs
  <2>4. (next[j] = "verdict" \/ repeats > 0) = again
    BY <1>1 DEF Reports
  <2> QED
    BY <2>1, <2>3, <2>4 DEF Tells
<1>5. next[j] = "start" => n = 0 /\ \A o, a \in BOOLEAN : Written(s, j, run[j], n, o, a)
  BY <1>1, StartTellsNothing
<1>6. ASSUME next[j] \in {"tool", "summary"}
      PROVE  /\ Told(d.events, j, run[j], n + 1) /\ UpTo(d.events, j, run[j], n + 1) /\ InOrder(d.events, j, run[j], again)
             /\ d.events \in Seq(Events)
             /\ \A i \in DOMAIN d.events : d.events[i] \in Events /\ (OfThePast(d.events[i]) \/ (d.events[i].job = j /\ d.events[i].run = run[j]))
  <2>1. d.events = Append(s, e)
    BY <1>3, <1>6
  <2>2. Told(d.events, j, run[j], n + 1) /\ UpTo(d.events, j, run[j], n + 1) /\ InOrder(d.events, j, run[j], again)
    <3>1. Written(s, j, run[j], n, again, again)
      BY <1>4, <1>6
    <3> PICK r : r = run[j]
      OBVIOUS
    <3> PICK t : t = d.events
      OBVIOUS
    <3>2. Longer(t, s, j, r, n)
      BY <1>2, <2>1 DEF Longer
    <3>3. s \in Seq(Events) /\ Written(s, j, r, n, again, again)
      BY <1>1, <3>1
    <3>4. Told(t, j, r, n + 1) /\ UpTo(t, j, r, n + 1) /\ InOrder(t, j, r, again)
      BY <3>2, <3>3, OneMoreWritten, Zenon
    <3> QED
      BY <3>4
  <2>3. /\ d.events \in Seq(Events) /\ DOMAIN d.events = 1 .. Len(s) + 1 /\ DOMAIN s = 1 .. Len(s) /\ Len(s) \in Nat
        /\ d.events[Len(s) + 1] = e /\ \A i \in 1 .. Len(s) : d.events[i] = s[i]
    BY <1>1, <1>2, <2>1, AppendProperties, LenProperties
  <2>4. \A i \in DOMAIN d.events : i \in DOMAIN s \/ i = Len(s) + 1
    BY <2>3
  <2> QED
    BY <1>1, <1>2, <2>2, <2>3, <2>4
<1>7. ASSUME next[j] = "tool" PROVE \A o \in BOOLEAN : Written(d.events, j, run[j], n + 1, o, again)
  <2> PICK r : r = run[j]
    OBVIOUS
  <2> PICK t : t = d.events
    OBVIOUS
  <2>1. t \in Seq(Events) /\ Told(t, j, r, n + 1) /\ UpTo(t, j, r, n + 1) /\ InOrder(t, j, r, again)
    BY <1>6, <1>7
  <2>2. \A o \in BOOLEAN : Written(t, j, r, n + 1, o, again)
    <3>1. n + 1 \in Nat
      OBVIOUS
    <3> QED
      BY <2>1, <3>1, WrittenIsWritten, Zenon
  <2> QED
    BY <2>2
<1>8. ASSUME next[j] # "start" PROVE \A a \in BOOLEAN : (again => a) => Written(d.events, j, run[j], n, TRUE, a)
  <2>1. CASE next[j] \in {"tool", "summary"}
    <3>1. Told(d.events, j, run[j], n)
      BY <1>6, <2>1 DEF Told
    <3>2. \A a \in BOOLEAN : (again => a) => InOrder(d.events, j, run[j], a)
      BY <1>6, <2>1 DEF InOrder
    <3> QED
      BY <1>6, <2>1, <3>1, <3>2, WrittenIsWritten
  <2>2. CASE next[j] = "breakoff"
    <3>1. d.events = s
      BY <1>3, <2>2
    <3>2. Written(s, j, run[j], n, again, again)
      BY <1>4, <1>8
    <3>3. \A a \in BOOLEAN : (again => a) => InOrder(s, j, run[j], a)
      BY <3>2 DEF InOrder, Written
    <3> QED
      BY <3>1, <3>2, <3>3 DEF Written
  <2> QED
    BY <1>1, <1>8, <2>1, <2>2 DEF Reports
<1>9. /\ d.events \in Seq(Events)
      /\ \A i \in DOMAIN d.events : d.events[i] \in Events /\ (OfThePast(d.events[i]) \/ (d.events[i].job = j /\ d.events[i].run = run[j]))
  <2>1. CASE next[j] \in {"tool", "summary"}
    BY <1>6, <2>1
  <2>2. CASE next[j] \in {"start", "breakoff"}
    BY <1>1, <1>3, <2>2
  <2> QED
    BY <1>1, <2>1, <2>2 DEF Reports
<1>10. next[j] = "start" => d.events = s
  BY <1>3
<1>11. next[j] # "start" => Written(d.events, j, run[j], n, TRUE, again) /\ Written(d.events, j, run[j], n, TRUE, TRUE)
  BY <1>8
<1> QED
  BY <1>5, <1>7, <1>9, <1>10, <1>11

LEMMA StoresRecord ==
  ASSUME Types, Orderly, Recording, NEW j \in Jobs, Store(j)
  PROVE  Recording'
<1> PICK m : m = call[j].msg
  OBVIOUS
<1> PICK d : d = NewMetadata(j)
  OBVIOUS
<1>1. /\ call[j].phase = "loaded" /\ next[j] \in Reports /\ Follows(j, m, d) /\ Rewrite(m, d)
      /\ UNCHANGED jobs
  BY WhatIsStored DEF Store, Types
<1>2. /\ DOMAIN chat' = DOMAIN chat /\ m \in DOMAIN chat /\ chat'[m] = d /\ d.job = j
      /\ \A n \in DOMAIN chat : n # m => chat'[n] = chat[n]
  BY <1>1, MessagesAreMetadata, RewriteRewrites DEF Rewritten, Follows
<1>3. \A n \in DOMAIN chat' : \A i \in DOMAIN chat'[n].events :
        LET e == chat'[n].events[i] IN e \in Events /\ (OfThePast(e) \/ (e.job = j /\ e.run = run[j]))
  <2>1. \A i \in DOMAIN d.events : LET e == d.events[i] IN e \in Events /\ (OfThePast(e) \/ (e.job = j /\ e.run = run[j]))
    BY <1>1, StoreTells
  <2>2. \A n \in DOMAIN chat : \A i \in DOMAIN chat[n].events : chat[n].events[i] \in Events /\ OfThePast(chat[n].events[i])
    BY EventsAreOfThePast
  <2> QED
    BY <1>2, <2>1, <2>2
<1>4. ASSUME Reported(j), repeats' = repeats PROVE Recording'
  <2>1. run' = run /\ step'[j] = (IF next[j] = "tool" THEN step[j] + 1 ELSE step[j])
    BY <1>4 DEF Reported, Types, TypeOK
  <2>2. next[j] \in {"summary", "breakoff"} => next'[j] = "verdict"
    BY <1>4 DEF Reported, After, Types, TypeOK
  <2>3. Written(d.events, j, run[j], step'[j], next'[j] = "verdict" \/ repeats > 0, repeats > 0)
    <3>0. (repeats > 0) \in BOOLEAN /\ (next'[j] = "verdict" \/ repeats > 0) \in BOOLEAN
      BY DEF Types, TypeOK
    <3>1. CASE next[j] = "start"
      <4>1. step[j] = 0 /\ \A o, a \in BOOLEAN : Written(NewMetadata(j).events, j, run[j], step[j], o, a)
        BY <1>1, <3>1, StoreTells
      <4>2. Written(d.events, j, run[j], step[j], next'[j] = "verdict" \/ repeats > 0, repeats > 0)
        BY <3>0, <4>1
      <4> QED
        BY <2>1, <3>1, <4>2
    <3>2. CASE next[j] = "tool"
      BY <1>1, <2>1, <3>0, <3>2, StoreTells
    <3>3. CASE next[j] \in {"summary", "breakoff"}
      <4>1. Written(d.events, j, run[j], step[j], TRUE, repeats > 0)
        BY <1>1, <3>3, StoreTells
      <4> QED
        BY <2>1, <2>2, <3>3, <4>1
    <3> QED
      BY <1>1, <3>1, <3>2, <3>3 DEF Reports
  <2>4. Tells(j, m)'
    BY <1>2, <1>4, <2>1, <2>3 DEF Tells
  <2> QED
    BY <1>1, <1>2, <1>3, <1>4, <2>4, AnsweredRecords
<1>5. ASSUME UNCHANGED runs, repeats' = repeats + 1 PROVE Recording'
  <2>1. next' = next /\ step' = step /\ run' = run /\ status' = status /\ repeats' > 0
    BY <1>1, <1>5 DEF runs, jobs, Types, TypeOK
  <2>2. \A k \in Jobs : next[k] # "nothing" => k = j
    BY <1>1, OneAtATime DEF Orderly, Types, Open, Reports
  <2>3. next[j] # "start" => Tells(j, m)'
    <3>1. next[j] # "start" => Written(d.events, j, run[j], step[j], TRUE, TRUE)
      BY <1>1, StoreTells
    <3> QED
      BY <1>2, <2>1, <3>1 DEF Tells
  <2>4. \A n \in DOMAIN chat' : Past(n)'
    <3>1. CASE next[j] = "start"
      <4>1. d.events = chat[m].events
        BY <1>1, <3>1, WhatIsRecorded
      <4> QED
        BY <1>2, <2>1, <4>1 DEF Recording, Past, OfThePast
    <3>2. CASE next[j] # "start"
      <4>1. run[j] \in Nat /\ \A e \in Events : e.job \in Jobs
        BY DEF Types, TypeOK, Events
      <4>2. ASSUME NEW e \in Events, OfThePast(e) \/ (e.job = j /\ e.run = run[j]) PROVE OfThePast(e)'
        BY <2>1, <3>2, <4>1, <4>2 DEF OfThePast
      <4> QED
        BY <1>3, <4>2 DEF Past
    <3> QED
      BY <3>1, <3>2
  <2> QED
    BY <1>2, <2>1, <2>2, <2>3, <2>4 DEF Recording, Begun
<1>6. \/ Reported(j) /\ repeats' = repeats
      \/ UNCHANGED runs /\ repeats' = repeats + 1
  BY DEF Store
<1> QED
  BY <1>4, <1>5, <1>6

\* The other steps of a report: without losses none is dropped.
LEMMA ReportsRecord ==
  ASSUME Types, Orderly, Recording, NEW j \in Jobs, Look(j) \/ LookAgain(j) \/ Drop(j) \/ Skip(j)
  PROVE  Recording'
<1>1. CASE Look(j) \/ (LookAgain(j) /\ UNCHANGED <<chat, runs>>)
  <2>1. UNCHANGED <<chat, run, next, step, repeats, status>>
    BY <1>1 DEF Look, LookAgain, runs, budgets, jobs
  <2>2. Quiet
    BY <2>1 DEF Quiet
  <2> QED
    BY <2>1, <2>2, QuietRecords
<1>2. CASE LookAgain(j) /\ ~UNCHANGED <<chat, runs>>
  <2>1. next[j] = "start" /\ next[j] \in Reports /\ call[j].phase = "missing" /\ call[j].about = j /\ UNCHANGED jobs /\ repeats' = repeats
    BY <1>2 DEF LookAgain, Orderly, OneByOne, Reports, budgets
  <2> PICK d : d = [Thinking EXCEPT !.kind = "started", !.job = j, !.stream = j, !.waiting = FALSE]
    OBVIOUS
  <2>2. d \in Metadata /\ d.job = j /\ d.events = <<>>
    BY AnswersAreMetadata DEF Thinking
  <2>3. chat' = Append(chat, d) /\ Reported(j)
    BY <1>2, <2>1 DEF LookAgain
  <2>4. Added(d)
    BY <2>2, <2>3, MessagesAreMetadata, AppendAdds
  <2>5. run' = run /\ step'[j] = step[j]
    BY <2>1, <2>3 DEF Reported, Types, TypeOK
  <2>6. d.events \in Seq(Events) /\ DOMAIN d.events = {}
    <3>1. <<>> \in Seq(Events) /\ DOMAIN <<>> = {}
      BY EmptySeq, LenProperties
    <3> QED
      BY <2>2, <3>1
  <2>7. \E m \in DOMAIN chat' : Tells(j, m)'
    <3>1. step[j] = 0
      BY <2>1 DEF Recording
    <3>0. (repeats > 0) \in BOOLEAN /\ (next'[j] = "verdict" \/ repeats > 0) \in BOOLEAN
      BY DEF Types, TypeOK
    <3>2. Written(d.events, j, run[j], 0, next'[j] = "verdict" \/ repeats > 0, repeats > 0)
      BY <2>6, <3>0, NothingWritten
    <3>3. chat'[Len(chat) + 1] = d
      BY <2>4 DEF Added
    <3> PICK n : n = Len(chat) + 1
      OBVIOUS
    <3>4. chat'[n] = d
      BY <3>3
    <3>5. Tells(j, n)'
      BY <2>1, <2>2, <2>5, <3>1, <3>2, <3>4 DEF Tells
    <3> QED
      BY <2>4, <3>5 DEF Added
  <2>8. \A m \in DOMAIN chat' : \A i \in DOMAIN chat'[m].events :
          LET e == chat'[m].events[i] IN e \in Events /\ (OfThePast(e) \/ (e.job = j /\ e.run = run[j]))
    BY <2>4, <2>6, EventsAreOfThePast DEF Added
  <2> QED
    BY <2>1, <2>3, <2>7, <2>8, AnsweredRecords
<1>3. CASE Skip(j)
  <2>1. /\ next[j] = "start" /\ next[j] \in Reports /\ call[j].phase = "loaded" /\ reuse[j] = 0
        /\ Reported(j) /\ UNCHANGED <<chat, jobs, repeats>>
    BY <1>3 DEF Skip, AlreadyStarted, Orderly, OneByOne, Reports, budgets
  <2> PICK m : m = call[j].msg
    OBVIOUS
  <2>2. m \in DOMAIN chat /\ chat[m].job = j
    BY <2>1 DEF Types, Orderly, LookedUp
  <2>3. run' = run /\ step'[j] = step[j]
    BY <2>1 DEF Reported, Types, TypeOK
  <2>7. (repeats > 0) \in BOOLEAN /\ (next'[j] = "verdict" \/ repeats > 0) \in BOOLEAN
    BY DEF Types, TypeOK
  <2>4. step[j] = 0 /\ Written(chat[m].events, j, run[j], 0, next'[j] = "verdict" \/ repeats > 0, repeats > 0)
    BY <2>1, <2>2, <2>7, StartTellsNothing
  <2>5. Tells(j, m)'
    BY <2>1, <2>2, <2>3, <2>4 DEF Tells
  <2>6. \A n \in DOMAIN chat' : \A i \in DOMAIN chat'[n].events :
          LET e == chat'[n].events[i] IN e \in Events /\ (OfThePast(e) \/ (e.job = j /\ e.run = run[j]))
    BY <2>1, EventsAreOfThePast
  <2> QED
    BY <2>1, <2>2, <2>5, <2>6, AnsweredRecords
<1>4. CASE Drop(j)
  <2>1. next[j] # "start" /\ next[j] \in Reports /\ \A m \in DOMAIN chat : chat[m].job # j
    BY <1>4 DEF Drop, Types, Orderly, LookedUp
  <2> QED
    BY <2>1 DEF Recording, Begun, Tells, Reports
<1> QED
  BY <1>1, <1>2, <1>3, <1>4

LEMMA StepRecords ==
  ASSUME Types, Orderly, Recording, [Next]_vars, losses' = 0
  PROVE  Recording'
<1>1. CASE UNCHANGED vars
  <2>1. UNCHANGED <<chat, run, next, step, repeats, status>>
    BY <1>1 DEF vars, jobs, runs, budgets
  <2>2. Quiet
    BY <2>1 DEF Quiet
  <2> QED
    BY <2>1, <2>2, QuietRecords
<1>2. ASSUME NEW j \in Jobs, RunFails(j) \/ Lose(j) PROVE FALSE
  BY <1>2 DEF RunFails, Lose, Types, TypeOK
<1>3. CASE Next
  BY <1>2, <1>3, QuestionsRecord, ContinuationsRecord, RunsRecord, ReportsRecord, StoresRecord DEF Next, Report
<1> QED
  BY <1>1, <1>3

\* Unless a report is lost, a run that has started has a message, where every tool it
\* has reported is recorded, in order, and exactly once unless a report was repeated
\* (chat_broadcast.py:927-1031).
THEOREM RunsAreRecorded == Spec => []RunRecorded
<1> DEFINE Inv == Aligned /\ (~Overlap /\ ~raced /\ losses = 0 => Recording)
<1>1. Init => Inv
  BY InitTypes, InitOrderly, InitRecording DEF Aligned
<1>2. Inv /\ [Next]_vars => Inv'
  <2> SUFFICES ASSUME Inv, [Next]_vars PROVE Inv'
    OBVIOUS
  <2>1. Aligned'
    BY StepKeepsTypes, StepStaysOrderly, RacedStays DEF Aligned
  <2>2. ASSUME ~Overlap, ~raced', losses' = 0 PROVE Recording'
    BY <2>2, StepRecords, RacedStays, LossesStay DEF Aligned
  <2> QED
    BY <2>1, <2>2
<1>3. Inv => RunRecorded
  <2> SUFFICES ASSUME Recording, NEW j \in Jobs, status[j] = "running", next[j] # "start"
               PROVE  \E m \in DOMAIN chat :
                        LET at == RecordedAt(j, m)
                            StepAt(i) == chat[m].events[i].step
                        IN  /\ \A k \in 1 .. step[j] : \E i \in at : StepAt(i) = k
                            /\ \A i \in at : StepAt(i) <= step[j] + 1
                            /\ \A i, k \in at : i < k =>
                                 StepAt(i) < StepAt(k) \/ (StepAt(i) = StepAt(k) /\ repeats > 0)
    BY DEF RunRecorded
  <2>1. PICK m \in DOMAIN chat : Tells(j, m)
    BY DEF Recording, Begun
  <2>2. RecordedAt(j, m) = OfRun(chat[m].events, j, run[j])
    BY DEF RecordedAt, OfRun
  <2> QED
    BY <2>1, <2>2 DEF Tells, Written, Told, UpTo, InOrder
<1> QED
  BY <1>1, <1>2, <1>3, PTL DEF Spec
=============================================================================
