---------------------------- MODULE TimelineProofs ----------------------------
(***************************************************************************)
(* Theorems about Timeline, for every number of agents, questions, users   *)
(* and events, and for every budget of entries, calls and faults.          *)
(***************************************************************************)
EXTENDS Timeline, TLAPS, FiniteSetTheorems, WellFoundedInduction

USE DEF table

\* The sessions that are about to draw an id.
Inserting == {s \in Sessions : stmt[s].op = "insert"}

\* Each of them will find one that is left.
Room == nextId + Cardinality(Inserting) <= MaxEntries + 1

Types == TypeOK /\ Room

LEMMA SessionsOfAKind ==
  /\ Agents \subseteq Sessions /\ Asks \subseteq Sessions /\ Users \subseteq Sessions
  /\ IsFiniteSet(Sessions)
  BY SessionsAssumption DEF Sessions

LEMMA InsertingIsFinite == IsFiniteSet(Inserting) /\ Cardinality(Inserting) \in Nat
<1>1. Inserting \subseteq Sessions
  BY DEF Inserting
<1> QED
  BY <1>1, SessionsOfAKind, FS_Subset, FS_CardinalityType

\* A session that inserts counts, so there is an id for it.
LEMMA AnIdIsLeft ==
  ASSUME Types, NEW s \in Sessions, stmt[s].op = "insert"
  PROVE  nextId \in Ids
<1>1. Inserting # {}
  BY DEF Inserting
<1>2. Cardinality(Inserting) # 0
  BY <1>1, InsertingIsFinite, FS_EmptySet
<1> QED
  BY <1>2, InsertingIsFinite, BoundsAssumption DEF Types, TypeOK, Room, Ids

\* A statement that ends makes room, if it was an insert, for the id it has drawn.
LEMMA FinishLeavesRoom ==
  ASSUME Types, NEW s \in Sessions, Finish(s),
         nextId' \in Nat,
         nextId' <= nextId \/ (stmt[s].op = "insert" /\ nextId' = nextId + 1)
  PROVE  Room'
<1>1. Inserting' = Inserting \ {s}
  BY DEF Inserting, Finish, Idle, Types, TypeOK
<1>2. /\ Cardinality(Inserting') \in Nat
      /\ Cardinality(Inserting') = IF s \in Inserting THEN Cardinality(Inserting) - 1 ELSE Cardinality(Inserting)
  BY <1>1, InsertingIsFinite, FS_RemoveElement, FS_CardinalityType
<1> QED
  BY <1>2, InsertingIsFinite, BoundsAssumption DEF Types, TypeOK, Room, Inserting

LEMMA StartLeavesRoom ==
  ASSUME Types, NEW s \in Sessions, NEW st \in Statements, Start(s, st)
  PROVE  Types'
<1>1. s \notin Inserting
  BY DEF Inserting, Start, Idle
<1>2. nextId' = nextId
  BY DEF Start
<1>3. Room'
  <2>1. CASE st.op = "insert"
    <3>1. Inserting' = Inserting \cup {s}
      BY <2>1 DEF Inserting, Start, Idle, Types, TypeOK
    <3>2. nextId + Cardinality(Inserting) \in Ids
      BY <2>1 DEF Start, Inserting
    <3>3. Cardinality(Inserting') = Cardinality(Inserting) + 1
      BY <1>1, <3>1, InsertingIsFinite, FS_AddElement
    <3> QED
      BY <1>2, <3>2, <3>3, InsertingIsFinite, BoundsAssumption DEF Types, TypeOK, Room, Ids
  <2>2. CASE st.op # "insert"
    <3>1. Inserting' = Inserting
      BY <1>1, <2>2 DEF Inserting, Start, Types, TypeOK
    <3> QED
      BY <1>2, <3>1 DEF Types, Room
  <2> QED
    BY <2>1, <2>2
<1>4. TypeOK'
  BY BoundsAssumption DEF Start, Types, TypeOK
<1> QED
  BY <1>3, <1>4 DEF Types

-----------------------------------------------------------------------------
(* Types.                                                                  *)

LEMMA InitTypes == Init => Types
<1> SUFFICES ASSUME Init PROVE Types
  OBVIOUS
<1>1. Inserting = {}
  BY DEF Init, Inserting, Idle
<1>2. Room
  BY <1>1, FS_EmptySet, BoundsAssumption DEF Init, Room
<1>3. TypeOK
  BY BoundsAssumption DEF Init, TypeOK, NoTx, Statements
<1> QED
  BY <1>2, <1>3 DEF Types

LEMMA StatementsOfEachOp ==
  /\ Idle \in Statements /\ [op |-> "embed"] \in Statements /\ [op |-> "analyse"] \in Statements
  /\ \A e \in Events \cup {NoEvent} : [op |-> "insert", event |-> e] \in Statements
  /\ \A id \in Ids : /\ [op |-> "delete", id |-> id] \in Statements
                    /\ [op |-> "update", id |-> id] \in Statements
                    /\ [op |-> "note", id |-> id] \in Statements
  BY DEF Statements, Inserts, OnRows

LEMMA FieldsOfEachOp ==
  ASSUME TypeOK, NEW s \in Sessions
  PROVE  /\ stmt[s].op = "insert" => stmt[s].event \in Events \cup {NoEvent}
         /\ stmt[s].op \in {"delete", "update", "note"} => stmt[s].id \in Ids
  BY DEF TypeOK, Statements, Inserts, OnRows, Idle

\* The statements that begin: nothing else changes.
LEMMA BeginningsKeepTypes ==
  ASSUME Types, NEW s \in Sessions,
         \/ \E e \in Events \cup {NoEvent} : CallRegister(s, e) \/ CallAdd(s, e) \/ CheckCreate(s, e)
         \/ CallAnalysis(s) \/ CallEmbeddings(s)
         \/ \E id \in Ids : \/ CallUpdate(s, id) \/ CallDelete(s, id)
                           \/ RequestUpdate(s, id) \/ RequestDelete(s, id) \/ CheckNote(s, id)
  PROVE  \E st \in Statements : Start(s, st)
  BY StatementsOfEachOp DEF CallRegister, CallAdd, CheckCreate, CallAnalysis, CallEmbeddings,
       CallUpdate, CallDelete, RequestUpdate, RequestDelete, CheckNote

\* What the statements are made of.
LEMMA SetsOfIds ==
  ASSUME TypeOK, NEW s \in Sessions
  PROVE  /\ IdsOf(entries) \subseteq Ids /\ IdsOf(tx[s].ins) \subseteq Ids
         /\ tx[s].ins \subseteq Entry /\ tx[s].del \subseteq Ids /\ tx[s].upd \subseteq Ids
         /\ IdsOf(Seen(s)) \subseteq Ids /\ IdsOf(Unembedded(s)) \subseteq Ids
<1>1. /\ tx[s].ins \subseteq Entry /\ tx[s].del \subseteq Ids /\ tx[s].upd \subseteq Ids
      /\ entries \subseteq Entry
  BY DEF TypeOK
<1>2. \A n \in Entry : n.id \in Ids
  BY DEF Entry
<1> QED
  BY <1>1, <1>2 DEF IdsOf, Seen, Unembedded

LEMMA InsertKeepsTypes ==
  ASSUME Types, NEW s \in Sessions, stmt[s].op = "insert", InsertRow(s, stmt[s].event)
  PROVE  tx' \in [Sessions -> [ins: SUBSET Entry, del: SUBSET Ids, upd: SUBSET Ids]]
<1>1. [id |-> nextId, event |-> stmt[s].event] \in Entry
  BY AnIdIsLeft, FieldsOfEachOp DEF Types, Entry
<1> QED
  BY <1>1 DEF InsertRow, Types, TypeOK

LEMMA EmptyingKeepsTypes ==
  ASSUME TypeOK, NEW s \in Sessions
  PROVE  [tx EXCEPT ![s] = NoTx] \in [Sessions -> [ins: SUBSET Entry, del: SUBSET Ids, upd: SUBSET Ids]]
  BY DEF TypeOK, NoTx

LEMMA RollBackKeepsTypes ==
  ASSUME TypeOK, NEW s \in Sessions, RollBack(s)
  PROVE  tx' \in [Sessions -> [ins: SUBSET Entry, del: SUBSET Ids, upd: SUBSET Ids]]
  BY EmptyingKeepsTypes DEF RollBack

LEMMA CommitKeepsTypes ==
  ASSUME TypeOK, NEW s \in Sessions, Commit(s)
  PROVE  /\ tx' \in [Sessions -> [ins: SUBSET Entry, del: SUBSET Ids, upd: SUBSET Ids]]
         /\ entries' \subseteq Entry /\ notes' \subseteq Ids /\ removed' \subseteq Ids
  BY EmptyingKeepsTypes, SetsOfIds DEF Commit, Published, TypeOK

LEMMA FinishKeepsTypes ==
  ASSUME TypeOK, NEW s \in Sessions, Finish(s)
  PROVE  stmt' \in [Sessions -> Statements]
  BY StatementsOfEachOp DEF Finish, TypeOK

LEMMA FaultsKeepTypes ==
  ASSUME TypeOK, Fail
  PROVE  faults' \in 0..MaxFaults
  BY BoundsAssumption DEF Fail, TypeOK

\* Each of the other steps ends the statement of a session, if it had one.
LEMMA StepKeepsTypes ==
  ASSUME Types, NEW s \in Sessions, AgentStep(s) \/ AskStep(s) \/ UserStep(s) \/ SessionDies(s) \/ AbortStatement(s)
  PROVE  Types'
<1> USE DEF Types
<1> DEFINE Ended == Finish(s) /\ (nextId' = nextId \/ (stmt[s].op = "insert" /\ nextId' = nextId + 1))
<1>1. ASSUME Ended PROVE Room' /\ stmt' \in [Sessions -> Statements] /\ nextId' \in 1..(MaxEntries + 1)
  <2>1. nextId' \in Nat
    BY <1>1 DEF TypeOK
  <2>2. nextId' \in 1..(MaxEntries + 1)
    BY <1>1, AnIdIsLeft, BoundsAssumption DEF TypeOK, Ids
  <2>3. nextId' <= nextId \/ (stmt[s].op = "insert" /\ nextId' = nextId + 1)
    BY <1>1 DEF TypeOK
  <2> QED
    BY <1>1, <2>1, <2>2, <2>3, FinishLeavesRoom, FinishKeepsTypes
<1>2. ASSUME UNCHANGED <<stmt, nextId>> PROVE Room' /\ stmt' \in [Sessions -> Statements] /\ nextId' \in 1..(MaxEntries + 1)
  <2>1. Inserting' = Inserting
    BY <1>2 DEF Inserting
  <2> QED
    BY <1>2, <2>1 DEF Room, TypeOK
<1> HIDE DEF Ended
<1>3. CASE \/ \E e \in Events \cup {NoEvent} : CallRegister(s, e) \/ CallAdd(s, e) \/ CheckCreate(s, e)
           \/ CallAnalysis(s) \/ CallEmbeddings(s)
           \/ \E id \in Ids : \/ CallUpdate(s, id) \/ CallDelete(s, id)
                             \/ RequestUpdate(s, id) \/ RequestDelete(s, id) \/ CheckNote(s, id)
  BY <1>3, BeginningsKeepTypes, StartLeavesRoom
<1>4. CASE RegisterEntry(s)
  <2>1. Ended
    BY <1>4 DEF RegisterEntry, InsertRow, Ended
  <2>2. tx' \in [Sessions -> [ins: SUBSET Entry, del: SUBSET Ids, upd: SUBSET Ids]]
    BY <1>4, InsertKeepsTypes DEF RegisterEntry, TypeOK
  <2> QED
    BY <1>1, <1>4, <2>1, <2>2 DEF RegisterEntry, TypeOK
<1>5. CASE AskAdds(s)
  <2>1. Ended
    BY <1>5 DEF AskAdds, InsertRow, Ended
  <2>2. tx' \in [Sessions -> [ins: SUBSET Entry, del: SUBSET Ids, upd: SUBSET Ids]]
    BY <1>5, InsertKeepsTypes DEF AskAdds, TypeOK
  <2> QED
    BY <1>1, <1>5, <2>1, <2>2 DEF AskAdds, TypeOK
<1>6. CASE ToolFails(s)
  BY <1>1, <1>6, FaultsKeepTypes DEF ToolFails, Ended, TypeOK
<1>7. CASE Analyse(s)
  BY <1>1, <1>7 DEF Analyse, Ended, TypeOK
<1>8. CASE AnalysisFails(s)
  BY <1>1, <1>8, RollBackKeepsTypes DEF AnalysisFails, Ended, TypeOK
<1>9. CASE LookFails(s)
  BY <1>2, <1>9, RollBackKeepsTypes, FaultsKeepTypes DEF LookFails, TypeOK
<1>10. CASE EmbedEntries(s)
  <2>1. Ended
    BY <1>10 DEF EmbedEntries, Ended
  <2>2. vectors' \subseteq Ids
    BY <1>10, SetsOfIds DEF EmbedEntries, TypeOK
  <2> QED
    BY <1>1, <1>10, <2>1, <2>2, CommitKeepsTypes DEF EmbedEntries, TypeOK
<1>11. CASE EmbeddingFails(s)
  BY <1>1, <1>11, RollBackKeepsTypes, FaultsKeepTypes DEF EmbeddingFails, Ended, TypeOK
<1>12. CASE CommitAgent(s) \/ AskEnds(s)
  BY <1>2, <1>12, CommitKeepsTypes DEF CommitAgent, AskEnds, TypeOK
<1>13. CASE AskUpdates(s) \/ AskDeletes(s)
  <2>1. Ended
    BY <1>13 DEF AskUpdates, AskDeletes, Ended
  <2>2. {stmt[s].id} \cap IdsOf(Seen(s)) \subseteq Ids
    BY SetsOfIds
  <2>3. tx' \in [Sessions -> [ins: SUBSET Entry, del: SUBSET Ids, upd: SUBSET Ids]]
    <3>1. CASE AskUpdates(s)
      BY <2>2, <3>1 DEF AskUpdates, TypeOK
    <3>2. CASE AskDeletes(s)
      BY <2>2, <3>2 DEF AskDeletes, TypeOK
    <3> QED
      BY <1>13, <3>1, <3>2
  <2> QED
    BY <1>1, <1>13, <2>1, <2>3 DEF AskUpdates, AskDeletes, TypeOK
<1>14. CASE CreateEntry(s)
  <2>1. Ended
    BY <1>14 DEF CreateEntry, Ended
  <2>2. [id |-> nextId, event |-> stmt[s].event] \in Entry
    BY <1>14, AnIdIsLeft, FieldsOfEachOp DEF CreateEntry, Entry
  <2>3. entries' \subseteq Entry
    BY <1>14, <2>2 DEF CreateEntry, TypeOK
  <2> QED
    BY <1>1, <1>14, <2>1, <2>3 DEF CreateEntry, TypeOK
<1>15. CASE UpdateEntry(s)
  BY <1>1, <1>15 DEF UpdateEntry, Ended, TypeOK
<1>16. CASE DeleteEntry(s)
  BY <1>1, <1>16, SetsOfIds DEF DeleteEntry, Ended, TypeOK
<1>17. CASE CreateNote(s)
  BY <1>1, <1>17, SetsOfIds DEF CreateNote, Ended, TypeOK
<1>18. CASE \E id \in Ids : DeleteNote(s, id)
  BY <1>2, <1>18 DEF DeleteNote, TypeOK
<1>19. CASE SessionDies(s)
  BY <1>1, <1>19, RollBackKeepsTypes, FaultsKeepTypes DEF SessionDies, Ended, TypeOK
<1>20. CASE AbortStatement(s)
  <2>1. Ended
    BY <1>20 DEF AbortStatement, Ended
  <2>2. tx' \in [Sessions -> [ins: SUBSET Entry, del: SUBSET Ids, upd: SUBSET Ids]]
    BY <1>20, RollBackKeepsTypes DEF AbortStatement, TypeOK
  <2> QED
    BY <1>1, <1>20, <2>1, <2>2 DEF AbortStatement, TypeOK
<1> QED
  BY <1>3, <1>4, <1>5, <1>6, <1>7, <1>8, <1>9, <1>10, <1>11, <1>12, <1>13, <1>14, <1>15, <1>16,
     <1>17, <1>18, <1>19, <1>20 DEF AgentStep, AskStep, UserStep

LEMMA NextKeepsTypes == Types /\ [Next]_vars => Types'
<1> SUFFICES ASSUME Types, [Next]_vars PROVE Types'
  OBVIOUS
<1>1. CASE Next
  BY <1>1, StepKeepsTypes DEF Next
<1>2. CASE UNCHANGED vars
  <2>1. Inserting' = Inserting
    BY <1>2 DEF vars, Inserting
  <2> QED
    BY <1>2, <2>1 DEF vars, Types, TypeOK, Room
<1> QED
  BY <1>1, <1>2

LEMMA TypesHold == Spec => []Types
  BY InitTypes, NextKeepsTypes, PTL DEF Spec

\* Every row has an id the sequence may draw, every statement and transaction is
\* one the code can issue.
THEOREM TypeCorrect == Spec => []TypeOK
<1>1. Types => TypeOK
  BY DEF Types
<1> QED
  BY <1>1, TypesHold, PTL

-----------------------------------------------------------------------------
(* What a step can do to the table and to the transactions.                *)

Others(s) == \A t \in Sessions \ {s} : tx'[t] = tx[t]
Row(s) == [id |-> nextId, event |-> stmt[s].event]
Fresh(s) == stmt[s].op = "insert" /\ Free(s) /\ ~OnTimeline(s, stmt[s].event) /\ nextId' = nextId + 1

Nothing == UNCHANGED <<entries, notes, tx, removed, nextId>>
Adds(s) ==
  /\ s \notin Users /\ Fresh(s) /\ Others(s) /\ UNCHANGED <<entries, notes, removed>>
  /\ tx'[s].ins = tx[s].ins \cup {Row(s)} /\ tx'[s].del = tx[s].del
Marks(s) ==
  /\ s \in Asks /\ Others(s) /\ UNCHANGED <<entries, notes, removed, nextId>>
  /\ tx'[s].ins = tx[s].ins
  /\ tx[s].del \subseteq tx'[s].del /\ tx'[s].del \subseteq tx[s].del \cup IdsOf(Seen(s))
Commits(s) ==
  s \notin Users /\ Commit(s) /\ Others(s) /\ tx'[s] = NoTx /\ UNCHANGED <<opened, nextId>>
RollsBack(s) ==
  /\ IsGivenUp(s) /\ Others(s) /\ tx'[s] = NoTx /\ UNCHANGED <<entries, notes, removed, nextId>>
Creates(s) ==
  /\ s \in Users /\ Fresh(s) /\ UNCHANGED <<notes, tx, removed>>
  /\ entries' = entries \cup {Row(s)}
Deletes(s) ==
  /\ s \in Users /\ stmt'[s] = Idle /\ UNCHANGED <<tx, opened, nextId>>
  /\ \E gone \in SUBSET IdsOf(entries) :
       /\ \A i \in gone : stmt[s] = [op |-> "delete", id |-> i]
       /\ entries' = {n \in entries : n.id \notin gone}
       /\ notes' = notes \ gone /\ removed' = removed \cup gone
Annotates == UNCHANGED <<entries, tx, removed, nextId>> /\ notes' \subseteq notes \cup IdsOf(entries)

Effect(s) ==
  \/ Nothing \/ Adds(s) \/ Marks(s) \/ Commits(s) \/ RollsBack(s) \/ Creates(s) \/ Deletes(s) \/ Annotates

\* The sessions of the three kinds are different ones.
LEMMA KindsDiffer == Agents \cap Users = {} /\ Asks \cap Users = {}
  BY SessionsAssumption

LEMMA EmptyingIsPointwise ==
  ASSUME TypeOK, NEW s \in Sessions, tx' = [tx EXCEPT ![s] = NoTx]
  PROVE  Others(s) /\ tx'[s] = NoTx
  BY DEF TypeOK, Others

LEMMA InsertIsPointwise ==
  ASSUME TypeOK, NEW s \in Sessions, InsertRow(s, stmt[s].event)
  PROVE  Others(s) /\ tx'[s].ins = tx[s].ins \cup {Row(s)} /\ tx'[s].del = tx[s].del
  BY DEF TypeOK, InsertRow, Others, Row

LEMMA DeletionsNameARow ==
  ASSUME NEW st \in Statements, st.op = "delete"
  PROVE  st = [op |-> "delete", id |-> st.id]
  BY DEF Statements, Inserts, OnRows, Idle

LEMMA EffectOfAStep ==
  ASSUME TypeOK, NEW s \in Sessions, AgentStep(s) \/ AskStep(s) \/ UserStep(s) \/ SessionDies(s) \/ AbortStatement(s)
  PROVE  Effect(s)
<1> USE DEF Effect
<1>3. CASE \/ \E e \in Events \cup {NoEvent} : CallRegister(s, e) \/ CallAdd(s, e) \/ CheckCreate(s, e)
           \/ CallAnalysis(s) \/ CallEmbeddings(s)
           \/ \E id \in Ids : \/ CallUpdate(s, id) \/ CallDelete(s, id)
                             \/ RequestUpdate(s, id) \/ RequestDelete(s, id) \/ CheckNote(s, id)
  BY <1>3 DEF Nothing, Start, CallRegister, CallAdd, CheckCreate, CallAnalysis, CallEmbeddings,
       CallUpdate, CallDelete, RequestUpdate, RequestDelete, CheckNote
<1>4. CASE RegisterEntry(s)
  <2>1. CASE OnTimeline(s, stmt[s].event)
    BY <1>4, <2>1 DEF RegisterEntry, Nothing
  <2>2. CASE ~OnTimeline(s, stmt[s].event)
    <3>1. InsertRow(s, stmt[s].event)
      BY <1>4, <2>2 DEF RegisterEntry
    <3> QED
      BY <1>4, <2>2, <3>1, InsertIsPointwise, KindsDiffer DEF RegisterEntry, InsertRow, Adds, Fresh
  <2> QED
    BY <2>1, <2>2
<1>5. CASE AskAdds(s)
  <2>1. CASE OnTimeline(s, stmt[s].event)
    BY <1>5, <2>1 DEF AskAdds, Nothing
  <2>2. CASE ~OnTimeline(s, stmt[s].event)
    <3>1. InsertRow(s, stmt[s].event)
      BY <1>5, <2>2 DEF AskAdds
    <3> QED
      BY <1>5, <2>2, <3>1, InsertIsPointwise, KindsDiffer DEF AskAdds, InsertRow, Adds, Fresh
  <2> QED
    BY <2>1, <2>2
<1>6. CASE ToolFails(s) \/ Analyse(s) \/ UpdateEntry(s)
  BY <1>6 DEF ToolFails, Analyse, UpdateEntry, Nothing
<1>7. CASE AnalysisFails(s) \/ LookFails(s) \/ EmbeddingFails(s) \/ SessionDies(s)
  <2>1. RollBack(s) /\ UNCHANGED <<entries, notes, removed, nextId>>
    BY <1>7 DEF AnalysisFails, LookFails, EmbeddingFails, SessionDies
  <2>2. faults + 1 # faults /\ opened[s] + 1 # opened[s]
    BY DEF TypeOK
  <2>3. ASSUME Finish(s) PROVE stmt'[s] = Idle
    BY <2>3 DEF Finish, TypeOK
  <2>4. IsGivenUp(s)
    BY <1>7, <2>2, <2>3 DEF AnalysisFails, LookFails, EmbeddingFails, SessionDies, Fail, table, IsGivenUp, TypeOK
  <2> QED
    BY <2>1, <2>4, EmptyingIsPointwise DEF RollBack, RollsBack
<1>8. CASE EmbedEntries(s) \/ CommitAgent(s) \/ AskEnds(s)
  <2>1. s \notin Users /\ Commit(s) /\ UNCHANGED <<opened, nextId>>
    BY <1>8, KindsDiffer DEF EmbedEntries, CommitAgent, AskEnds
  <2> QED
    BY <2>1, EmptyingIsPointwise DEF Commit, Commits
<1>9. CASE AskUpdates(s)
  BY <1>9, KindsDiffer DEF AskUpdates, Marks, Others, TypeOK
<1>10. CASE AskDeletes(s)
  BY <1>10, KindsDiffer DEF AskDeletes, Marks, Others, TypeOK
<1>11. CASE CreateEntry(s)
  BY <1>11 DEF CreateEntry, Nothing, Creates, Fresh, Row
<1>12. CASE DeleteEntry(s)
  <2> DEFINE gone == {stmt[s].id} \cap IdsOf(entries)
  <2>1. s \in Users /\ stmt'[s] = Idle /\ UNCHANGED <<tx, opened, nextId>>
    BY <1>12 DEF DeleteEntry, Finish, TypeOK
  <2>2. \A i \in gone : stmt[s] = [op |-> "delete", id |-> i]
    BY <1>12, DeletionsNameARow DEF DeleteEntry, TypeOK
  <2> QED
    BY <1>12, <2>1, <2>2 DEF DeleteEntry, Deletes
<1>13. CASE CreateNote(s) \/ \E id \in Ids : DeleteNote(s, id)
  BY <1>13 DEF CreateNote, DeleteNote, Annotates
<1>14. CASE AbortStatement(s)
  <2>1. CASE stmt[s].op = "embed"
    BY <1>14, <2>1, EmptyingIsPointwise DEF AbortStatement, RollBack, RollsBack, IsGivenUp, Finish, table, TypeOK
  <2>2. CASE stmt[s].op # "embed"
    BY <1>14, <2>2 DEF AbortStatement, Nothing
  <2> QED
    BY <2>1, <2>2
<1> QED
  BY <1>3, <1>4, <1>5, <1>6, <1>7, <1>8, <1>9, <1>10, <1>11, <1>12, <1>13, <1>14
  DEF AgentStep, AskStep, UserStep

LEMMA EffectOfNext ==
  ASSUME TypeOK, [Next]_vars
  PROVE  Nothing \/ \E s \in Sessions : Effect(s)
  BY EffectOfAStep DEF Next, vars, Nothing

-----------------------------------------------------------------------------
(* An entry that was created stays.                                        *)

\* The tools of an agent add entries, and take none away.
AgentsDeleteNothing == \A a \in Agents : tx[a].del = {}

LEMMA NextKeepsDeletions == TypeOK /\ AgentsDeleteNothing /\ [Next]_vars => AgentsDeleteNothing'
<1> SUFFICES ASSUME TypeOK, AgentsDeleteNothing, [Next]_vars, NEW a \in Agents
             PROVE  tx'[a].del = {}
  BY DEF AgentsDeleteNothing
<1>1. tx[a].del = {} /\ a \in Sessions /\ a \notin Asks /\ NoTx.del = {}
  BY SessionsAssumption DEF AgentsDeleteNothing, Sessions, NoTx
<1>2. CASE Nothing
  BY <1>1, <1>2 DEF Nothing
<1>3. ASSUME NEW s \in Sessions, Effect(s) PROVE tx'[a].del = {}
  <2>1. tx' = tx \/ Others(s)
    BY <1>3 DEF Effect, Nothing, Adds, Marks, Commits, RollsBack, Creates, Deletes, Annotates
  <2>2. CASE tx' = tx \/ s # a
    BY <1>1, <2>1, <2>2 DEF Others
  <2>3. CASE s = a /\ tx' # tx
    BY <1>1, <1>3, <2>3 DEF Effect, Nothing, Adds, Marks, Commits, RollsBack, Creates, Deletes, Annotates
  <2> QED
    BY <2>2, <2>3
<1> QED
  BY <1>2, <1>3, EffectOfNext

\* What may become of a row in a step.
Excused(n) == IsDeleted(n) \/ \E s \in Sessions : n \in Pending(s) /\ IsGivenUp(s)

LEMMA RowsAre ==
  \A n : /\ n \in Rows <=> n \in entries \/ \E t \in Sessions : n \in tx[t].ins
         /\ n \in Rows' <=> n \in entries' \/ \E t \in Sessions : n \in tx'[t].ins
  BY DEF Rows, Pending

LEMMA RowsStay ==
  ASSUME TypeOK, AgentsDeleteNothing, NEW s \in Sessions, Effect(s), NEW n \in Rows, n \notin Rows'
  PROVE  Excused(n)
<1>1. /\ n \notin entries' /\ \A t \in Sessions : n \notin tx'[t].ins
      /\ n \in entries \/ \E t \in Sessions : n \in tx[t].ins
  BY RowsAre
<1>2. CASE Nothing \/ Annotates
  BY <1>1, <1>2 DEF Nothing, Annotates
<1>3. CASE Adds(s) \/ Marks(s)
  <2>1. entries' = entries /\ Others(s) /\ tx[s].ins \subseteq tx'[s].ins
    BY <1>3 DEF Adds, Marks
  <2> QED
    BY <1>1, <2>1 DEF Others
<1>4. CASE Creates(s)
  BY <1>1, <1>4 DEF Creates
<1>5. CASE Commits(s)
  <2>1. n \in entries \cup tx[s].ins
    BY <1>1, <1>5 DEF Commits, Others
  <2>2. n.id \in tx[s].del
    BY <1>1, <1>5, <2>1 DEF Commits, Commit, Published
  <2>3. s \in Asks
    BY <1>5, <2>2 DEF Commits, AgentsDeleteNothing, Sessions
  <2> QED
    BY <1>5, <2>2, <2>3 DEF Commits, IsDeleted, Excused
<1>6. CASE RollsBack(s)
  <2>1. n \in tx[s].ins
    BY <1>1, <1>6 DEF RollsBack, Others
  <2> QED
    BY <1>6, <2>1 DEF RollsBack, Excused, Pending
<1>7. CASE Deletes(s)
  <2>1. stmt[s] = [op |-> "delete", id |-> n.id]
    BY <1>1, <1>7 DEF Deletes
  <2> QED
    BY <1>7, <2>1 DEF Deletes, IsDeleted, Excused
<1> QED
  BY <1>2, <1>3, <1>4, <1>5, <1>6, <1>7 DEF Effect

\* Whatever tools fail, conflict or are aborted, and whatever the others do, a row that
\* was created goes only if somebody deletes it, or if its own session is given up by
\* something else than a tool that writes.
THEOREM EntriesStay == Spec => NoEntryVanishes
<1>1. Init => AgentsDeleteNothing
  BY SessionsAssumption DEF Init, AgentsDeleteNothing, NoTx, Sessions
<1>2. TypeOK /\ AgentsDeleteNothing /\ [Next]_vars => [\A n \in Rows \ Rows' : Excused(n)]_vars
  <2> SUFFICES ASSUME TypeOK, AgentsDeleteNothing, [Next]_vars, NEW n \in Rows, n \notin Rows'
               PROVE  Excused(n)
    OBVIOUS
  <2>1. CASE Nothing
    BY <2>1, RowsAre DEF Nothing
  <2>2. ASSUME NEW s \in Sessions, Effect(s) PROVE Excused(n)
    BY <2>2, RowsStay
  <2> QED
    BY <2>1, <2>2, EffectOfNext
<1>3. TypeOK /\ AgentsDeleteNothing /\ [Next]_vars => AgentsDeleteNothing'
  BY NextKeepsDeletions
<1>4. (\A n \in Rows \ Rows' : Excused(n)) =>
        \A n \in Rows \ Rows' : IsDeleted(n) \/ \E s \in Sessions : n \in Pending(s) /\ IsGivenUp(s)
  BY DEF Excused
<1> QED
  BY <1>1, <1>2, <1>3, <1>4, TypeCorrect, PTL DEF Spec, NoEntryVanishes

-----------------------------------------------------------------------------
(* An event is on the timeline once.                                       *)

\* The three parts of OneEntryPerEvent.
Once == \A m, n \in entries : ~SameEvent(m, n)
OnceWithin(s) == \A m \in tx[s].ins : \A n \in entries \cup tx[s].ins :
  SameEvent(m, n) => {m.id, n.id} \cap tx[s].del # {}
OnceBetween(s, t) == \A m \in tx[s].ins, n \in tx[t].ins : ~SameEvent(m, n)

\* A user's request commits with its statement: between two it holds nothing.
UsersHoldNothing == \A u \in Users : tx[u].ins = {} /\ tx[u].del = {}

LEMMA PartsOfOnce ==
  OneEntryPerEvent <=> /\ Once
                       /\ \A s \in Sessions : OnceWithin(s)
                       /\ \A s \in Sessions : \A t \in Sessions \ {s} : OnceBetween(s, t)
  BY DEF OneEntryPerEvent, Once, OnceWithin, OnceBetween, Pending

LEMMA UsersStillHoldNothing ==
  ASSUME UsersHoldNothing, NEW s \in Sessions, Effect(s)
  PROVE  UsersHoldNothing'
<1>1. /\ Commits(s) \/ RollsBack(s) => tx'[s].ins = {} /\ tx'[s].del = {}
  BY DEF Commits, RollsBack, NoTx
<1>2. Users \subseteq Sessions /\ Asks \cap Users = {}
  BY SessionsOfAKind, KindsDiffer
<1> QED
  BY <1>1, <1>2 DEF UsersHoldNothing, Effect, Nothing, Adds, Marks, Commits, RollsBack, Creates, Deletes, Annotates, Others

LEMMA OnceStays ==
  ASSUME TypeOK, UsersHoldNothing, OneEntryPerEvent, NEW s \in Sessions, Effect(s)
  PROVE  OneEntryPerEvent'
<1>1. /\ Once
      /\ \A p \in Sessions : OnceWithin(p)
      /\ \A p \in Sessions : \A t \in Sessions \ {p} : OnceBetween(p, t)
  BY PartsOfOnce
<1> SUFFICES /\ Once'
             /\ \A p \in Sessions : OnceWithin(p)'
             /\ \A p \in Sessions : \A t \in Sessions \ {p} : OnceBetween(p, t)'
  BY PartsOfOnce DEF OneEntryPerEvent, Once, OnceWithin, OnceBetween, Pending
<1> DEFINE NoOther(S) == \A n \in S : ~SameEvent(Row(s), n) /\ ~SameEvent(n, Row(s))
<1>2. ASSUME Fresh(s) PROVE NoOther(Seen(s)) /\ \A t \in Sessions \ {s} : NoOther(tx[t].ins)
  <2>1. Row(s).event = stmt[s].event
    BY DEF Row
  <2>2. NoOther(Seen(s))
    BY <1>2, <2>1 DEF Fresh, OnTimeline, SameEvent
  <2>3. ASSUME NEW t \in Sessions \ {s} PROVE NoOther(tx[t].ins)
    <3>1. stmt[s].event = NoEvent \/ \A n \in tx[t].ins : n.event # stmt[s].event
      BY <1>2 DEF Fresh, Free, Blocks, HoldsKey
    <3> QED
      BY <2>1, <3>1 DEF SameEvent
  <2> QED
    BY <2>2, <2>3
<1>3. CASE Nothing \/ Annotates
  BY <1>1, <1>3 DEF Nothing, Annotates, Once, OnceWithin, OnceBetween
<1>4. CASE Adds(s)
  <2>1. Once'
    BY <1>1, <1>4 DEF Adds, Once
  <2>2. OnceWithin(s)'
    <3>1. \A n \in entries \cup tx[s].ins : n \in Seen(s) \/ n.id \in tx[s].del
      BY DEF Seen
    <3>2. ~SameEvent(Row(s), Row(s))
      BY DEF SameEvent
    <3> QED
      BY <1>1, <1>2, <1>4, <3>1, <3>2 DEF Adds, OnceWithin
  <2>3. \A t \in Sessions \ {s} : OnceWithin(t)'
    BY <1>1, <1>4 DEF Adds, Others, OnceWithin
  <2>4. \A p \in Sessions : \A t \in Sessions \ {p} : OnceBetween(p, t)'
    BY <1>1, <1>2, <1>4 DEF Adds, Others, OnceBetween
  <2> QED
    BY <2>1, <2>2, <2>3, <2>4
<1>5. CASE Marks(s)
  <2>1. \A t \in Sessions : tx'[t].ins = tx[t].ins /\ tx[t].del \subseteq tx'[t].del
    BY <1>5 DEF Marks, Others
  <2>2. entries' = entries
    BY <1>5 DEF Marks
  <2> QED
    BY <1>1, <2>1, <2>2 DEF Once, OnceWithin, OnceBetween
<1>6. CASE Commits(s)
  <2>1. /\ tx'[s].ins = {} /\ Others(s)
        /\ entries' = {n \in entries \cup tx[s].ins : n.id \notin tx[s].del}
    BY <1>6 DEF Commits, Commit, Published, NoTx
  <2>2. Once'
    <3> SUFFICES ASSUME NEW m \in entries', NEW n \in entries', SameEvent(m, n) PROVE FALSE
      BY DEF Once
    <3>1. SameEvent(n, m)
      BY DEF SameEvent
    <3>2. {m.id, n.id} \cap tx[s].del = {}
      BY <2>1
    <3> QED
      BY <1>1, <2>1, <3>1, <3>2 DEF Once, OnceWithin
  <2>3. \A t \in Sessions : OnceWithin(t)'
    <3> SUFFICES ASSUME NEW t \in Sessions \ {s} PROVE OnceWithin(t)'
      BY <2>1 DEF OnceWithin
    <3>1. tx'[t] = tx[t]
      BY <2>1 DEF Others
    <3> QED
      BY <1>1, <2>1, <3>1 DEF OnceWithin, OnceBetween
  <2>4. \A p \in Sessions : \A t \in Sessions \ {p} : OnceBetween(p, t)'
    BY <1>1, <2>1 DEF Others, OnceBetween
  <2> QED
    BY <2>2, <2>3, <2>4
<1>7. CASE RollsBack(s)
  <2>1. tx'[s].ins = {} /\ Others(s) /\ entries' = entries
    BY <1>7 DEF RollsBack, NoTx
  <2>2. \A t \in Sessions : OnceWithin(t)'
    BY <1>1, <2>1 DEF Others, OnceWithin
  <2>3. Once' /\ \A p \in Sessions : \A t \in Sessions \ {p} : OnceBetween(p, t)'
    BY <1>1, <2>1 DEF Others, Once, OnceBetween
  <2> QED
    BY <2>2, <2>3
<1>8. CASE Creates(s)
  <2>1. tx' = tx /\ entries' = entries \cup {Row(s)} /\ tx[s].ins = {} /\ tx[s].del = {}
    BY <1>8 DEF Creates, UsersHoldNothing
  <2>2. NoOther(entries) /\ \A t \in Sessions \ {s} : NoOther(tx[t].ins)
    <3>1. Seen(s) = entries
      BY <2>1 DEF Seen
    <3> QED
      BY <1>2, <1>8, <3>1 DEF Creates
  <2>3. Once'
    <3>1. ~SameEvent(Row(s), Row(s))
      BY DEF SameEvent
    <3> QED
      BY <1>1, <2>1, <2>2, <3>1 DEF Once
  <2>4. \A t \in Sessions : OnceWithin(t)'
    BY <1>1, <2>1, <2>2 DEF OnceWithin
  <2>5. \A p \in Sessions : \A t \in Sessions \ {p} : OnceBetween(p, t)'
    BY <1>1, <2>1 DEF OnceBetween
  <2> QED
    BY <2>3, <2>4, <2>5
<1>9. CASE Deletes(s)
  <2>1. tx' = tx /\ entries' \subseteq entries
    BY <1>9 DEF Deletes
  <2> QED
    BY <1>1, <2>1 DEF Once, OnceWithin, OnceBetween
<1> QED
  BY <1>3, <1>4, <1>5, <1>6, <1>7, <1>8, <1>9 DEF Effect

\* An event is on the timeline once, whoever puts it there: the looks are stale, the
\* unique index and the waiting for open transactions are what makes it true.
THEOREM EventsOnceOnTimeline == Spec => []OneEntryPerEvent
<1> DEFINE Inv == UsersHoldNothing /\ OneEntryPerEvent
<1>1. Init => Inv
  <2> SUFFICES ASSUME Init PROVE Inv
    OBVIOUS
  <2>1. entries = {} /\ \A s \in Sessions : tx[s].ins = {} /\ tx[s].del = {}
    BY DEF Init, NoTx
  <2> QED
    BY <2>1, SessionsOfAKind DEF UsersHoldNothing, OneEntryPerEvent, Pending
<1>2. Types /\ Inv /\ [Next]_vars => Inv'
  <2> SUFFICES ASSUME Types, Inv, [Next]_vars PROVE Inv'
    OBVIOUS
  <2>1. CASE Nothing
    BY <2>1 DEF Nothing, UsersHoldNothing, OneEntryPerEvent, Pending
  <2>2. ASSUME NEW s \in Sessions, Effect(s) PROVE Inv'
    BY <2>2, UsersStillHoldNothing, OnceStays DEF Types
  <2> QED
    BY <2>1, <2>2, EffectOfNext DEF Types
<1> QED
  BY <1>1, <1>2, TypesHold, PTL DEF Spec

-----------------------------------------------------------------------------
(* A deleted entry stays deleted.                                          *)

Drawn == 1..(nextId - 1)

\* Every row has its own id, and only the session that inserted a row, or anyone
\* once it is committed, can delete it.
IdsApart ==
  /\ IdsOf(entries) \subseteq Drawn /\ removed \subseteq Drawn
  /\ \A s \in Sessions :
       /\ IdsOf(tx[s].ins) \subseteq Drawn /\ tx[s].del \subseteq Drawn
       /\ IdsOf(tx[s].ins) \cap (removed \cup IdsOf(entries)) = {}
       /\ \A t \in Sessions \ {s} : IdsOf(tx[s].ins) \cap (IdsOf(tx[t].ins) \cup tx[t].del) = {}

Kept == IdsApart /\ DeletedForGood

LEMMA IdsOfNothing == IdsOf({}) = {}
  BY DEF IdsOf

LEMMA IdsOfOneMore ==
  ASSUME NEW S, NEW n
  PROVE  IdsOf(S \cup {n}) = IdsOf(S) \cup {n.id}
<1>1. \A i : i \in IdsOf(S \cup {n}) <=> i \in IdsOf(S) \/ i = n.id
  BY DEF IdsOf
<1> QED
  BY <1>1

LEMMA KeptStays ==
  ASSUME TypeOK, Kept, NEW s \in Sessions, Effect(s)
  PROVE  Kept'
<1> DEFINE E == IdsOf(entries)
<1>1. nextId \notin Drawn /\ nextId \in Nat /\ \A S : IdsOf(S \cup {Row(s)}) = IdsOf(S) \cup {nextId}
  <2>1. nextId \in Nat
    BY DEF TypeOK
  <2>2. nextId \notin Drawn
    BY <2>1 DEF Drawn
  <2>3. \A S : IdsOf(S \cup {Row(s)}) = IdsOf(S) \cup {nextId}
    <3>1. Row(s).id = nextId
      BY DEF Row
    <3> QED
      BY <3>1, IdsOfOneMore
  <2> QED
    BY <2>1, <2>2, <2>3
<1>2. nextId' = nextId + 1 => Drawn' = Drawn \cup {nextId}
  BY DEF Drawn, TypeOK
<1>3. nextId' = nextId => Drawn' = Drawn
  BY DEF Drawn
<1>4. CASE Nothing \/ Annotates
  BY <1>3, <1>4 DEF Nothing, Annotates, Kept, IdsApart, DeletedForGood
<1>5. CASE Adds(s)
  <2>1. /\ IdsOf(tx'[s].ins) = IdsOf(tx[s].ins) \cup {nextId}
        /\ tx'[s].del = tx[s].del /\ Others(s) /\ Drawn' = Drawn \cup {nextId}
        /\ UNCHANGED <<entries, notes, removed>>
    BY <1>1, <1>2, <1>5 DEF Adds, Fresh
  <2> QED
    BY <1>1, <2>1 DEF Kept, IdsApart, DeletedForGood, Others
<1>6. CASE Marks(s)
  <2>1. IdsOf(Seen(s)) \subseteq E \cup IdsOf(tx[s].ins)
    BY DEF Seen, IdsOf
  <2>2. /\ \A t \in Sessions : tx'[t].ins = tx[t].ins
        /\ tx'[s].del \subseteq tx[s].del \cup E \cup IdsOf(tx[s].ins)
        /\ Others(s) /\ UNCHANGED <<entries, notes, removed>> /\ Drawn' = Drawn
    BY <1>3, <1>6, <2>1 DEF Marks, Others
  <2> QED
    BY <2>2 DEF Kept, IdsApart, DeletedForGood, Others
<1>7. CASE Commits(s)
  <2>1. /\ IdsOf(entries') = (E \cup IdsOf(tx[s].ins)) \ tx[s].del
        /\ IdsOf(tx'[s].ins) = {} /\ tx'[s].del = {} /\ Others(s) /\ Drawn' = Drawn
        /\ removed' = removed \cup tx[s].del /\ notes' = notes \ tx[s].del
    <3>1. entries' = {n \in entries \cup tx[s].ins : n.id \notin tx[s].del}
      BY <1>7 DEF Commits, Commit, Published
    <3>2. IdsOf(entries') = (E \cup IdsOf(tx[s].ins)) \ tx[s].del
      BY <3>1 DEF IdsOf
    <3>3. tx'[s].ins = {} /\ tx'[s].del = {}
      BY <1>7 DEF Commits, NoTx
    <3>4. IdsOf(tx'[s].ins) = {}
      BY <3>3, IdsOfNothing
    <3>5. /\ Others(s) /\ Drawn' = Drawn
          /\ removed' = removed \cup tx[s].del /\ notes' = notes \ tx[s].del
      BY <1>3, <1>7 DEF Commits, Commit
    <3> QED
      BY <3>2, <3>3, <3>4, <3>5
  <2>2. \A t \in Sessions \ {s} : IdsOf(tx'[t].ins) = IdsOf(tx[t].ins) /\ tx'[t].del = tx[t].del
    BY <2>1 DEF Others
  <2>3. IdsApart'
    BY <2>1, <2>2 DEF Kept, IdsApart
  <2>4. DeletedForGood'
    BY <2>1 DEF Kept, IdsApart, DeletedForGood
  <2> QED
    BY <2>3, <2>4 DEF Kept
<1>8. CASE RollsBack(s)
  <2>1. /\ IdsOf(tx'[s].ins) = {} /\ tx'[s].del = {} /\ Others(s) /\ Drawn' = Drawn
        /\ UNCHANGED <<entries, notes, removed>>
    BY <1>3, <1>8, IdsOfNothing DEF RollsBack, NoTx
  <2> QED
    BY <2>1 DEF Kept, IdsApart, DeletedForGood, Others
<1>9. CASE Creates(s)
  <2>1. /\ IdsOf(entries') = E \cup {nextId} /\ Drawn' = Drawn \cup {nextId}
        /\ UNCHANGED <<notes, tx, removed>>
    BY <1>1, <1>2, <1>9 DEF Creates, Fresh
  <2> QED
    BY <1>1, <2>1 DEF Kept, IdsApart, DeletedForGood
<1>10. CASE Deletes(s)
  <2>1. PICK gone \in SUBSET E :
          /\ entries' = {n \in entries : n.id \notin gone}
          /\ notes' = notes \ gone /\ removed' = removed \cup gone
    BY <1>10 DEF Deletes
  <2>2. IdsOf(entries') = E \ gone
    BY <2>1 DEF IdsOf
  <2>3. Drawn' = Drawn /\ UNCHANGED tx
    BY <1>3, <1>10 DEF Deletes
  <2> QED
    BY <2>1, <2>2, <2>3 DEF Kept, IdsApart, DeletedForGood
<1> QED
  BY <1>4, <1>5, <1>6, <1>7, <1>8, <1>9, <1>10 DEF Effect

\* A deleted entry does not come back and leaves no note behind, although others
\* update it, embed it or write a note on it at the same time.
THEOREM DeletionsHold == Spec => []DeletedForGood
<1>1. Init => Kept
  <2> SUFFICES ASSUME Init PROVE Kept
    OBVIOUS
  <2>1. entries = {} /\ removed = {} /\ notes = {} /\ \A s \in Sessions : tx[s].ins = {} /\ tx[s].del = {}
    BY DEF Init, NoTx
  <2> QED
    BY <2>1, IdsOfNothing DEF Kept, IdsApart, DeletedForGood
<1>2. Types /\ Kept /\ [Next]_vars => Kept'
  <2> SUFFICES ASSUME Types, Kept, [Next]_vars PROVE Kept'
    OBVIOUS
  <2>1. CASE Nothing
    BY <2>1 DEF Nothing, Kept, IdsApart, DeletedForGood, Drawn
  <2>2. ASSUME NEW s \in Sessions, Effect(s) PROVE Kept'
    BY <2>2, KeptStays DEF Types
  <2> QED
    BY <2>1, <2>2, EffectOfNext DEF Types
<1>3. Kept => DeletedForGood
  BY DEF Kept
<1> QED
  BY <1>1, <1>2, <1>3, TypesHold, PTL DEF Spec

-----------------------------------------------------------------------------
(* Somebody can always go on.                                              *)

\* What the sessions of each kind issue.
MayIssue(s) ==
  IF s \in Agents THEN {"idle", "insert", "embed", "analyse"}
  ELSE IF s \in Asks THEN {"idle", "insert", "update", "delete"} ELSE {"idle", "insert", "update", "delete", "note"}

Owners == \A s \in Sessions : stmt[s].op \in MayIssue(s) /\ (s \in Users => tx[s] = NoTx)

LEMMA InitOwners == Init => Owners
  BY DEF Init, Owners, MayIssue, Idle

LEMMA StepKeepsOwners ==
  ASSUME TypeOK, Owners, NEW s \in Sessions, AgentStep(s) \/ AskStep(s) \/ UserStep(s) \/ SessionDies(s) \/ AbortStatement(s)
  PROVE  Owners'
<1> DEFINE Same == tx' = tx \/ tx' = [tx EXCEPT ![s] = NoTx] \/ (s \notin Users /\ \E x : tx' = [tx EXCEPT ![s] = x])
<1>1. ASSUME NEW st, stmt' = [stmt EXCEPT ![s] = st], st.op \in MayIssue(s), Same PROVE Owners'
  BY <1>1 DEF TypeOK, Owners
<1>2. ASSUME UNCHANGED stmt, Same PROVE Owners'
  BY <1>2 DEF TypeOK, Owners
<1>3. Idle.op \in MayIssue(s)
  BY DEF Idle, MayIssue
<1>4. ASSUME NEW e, CallRegister(s, e) \/ CallAdd(s, e) \/ CheckCreate(s, e) PROVE Owners'
  BY <1>1, <1>4, KindsDiffer DEF CallRegister, CallAdd, CheckCreate, Start, MayIssue
<1>5. CASE CallAnalysis(s) \/ CallEmbeddings(s)
  BY <1>1, <1>5 DEF CallAnalysis, CallEmbeddings, Start, MayIssue
<1>6. ASSUME NEW id, CallUpdate(s, id) \/ CallDelete(s, id) \/ RequestUpdate(s, id) \/ RequestDelete(s, id) \/ CheckNote(s, id)
      PROVE  Owners'
  BY <1>1, <1>6, KindsDiffer, SessionsAssumption
     DEF CallUpdate, CallDelete, RequestUpdate, RequestDelete, CheckNote, Start, MayIssue
<1>7. ASSUME Finish(s), Same PROVE Owners'
  BY <1>1, <1>3, <1>7 DEF Finish
<1>8. CASE RegisterEntry(s) \/ AskAdds(s)
  <2>1. Same
    BY <1>8, KindsDiffer DEF RegisterEntry, AskAdds, InsertRow
  <2> QED
    BY <1>7, <1>8, <2>1 DEF RegisterEntry, AskAdds
<1>9. CASE ToolFails(s) \/ Analyse(s) \/ UpdateEntry(s) \/ CreateEntry(s) \/ DeleteEntry(s) \/ CreateNote(s)
  BY <1>7, <1>9 DEF ToolFails, Analyse, UpdateEntry, CreateEntry, DeleteEntry, CreateNote
<1>10. CASE AnalysisFails(s) \/ EmbeddingFails(s) \/ SessionDies(s) \/ EmbedEntries(s) \/ AbortStatement(s)
  BY <1>7, <1>10 DEF AnalysisFails, EmbeddingFails, SessionDies, EmbedEntries, AbortStatement, RollBack, Commit
<1>11. CASE LookFails(s) \/ CommitAgent(s) \/ AskEnds(s)
  BY <1>2, <1>11 DEF LookFails, CommitAgent, AskEnds, RollBack, Commit
<1>12. CASE AskUpdates(s) \/ AskDeletes(s)
  <2>1. Same
    BY <1>12, KindsDiffer DEF AskUpdates, AskDeletes
  <2> QED
    BY <1>7, <1>12, <2>1 DEF AskUpdates, AskDeletes
<1>13. ASSUME NEW id, DeleteNote(s, id) PROVE Owners'
  BY <1>2, <1>13 DEF DeleteNote
<1> QED
  BY <1>4, <1>5, <1>6, <1>8, <1>9, <1>10, <1>11, <1>12, <1>13 DEF AgentStep, AskStep, UserStep


\* A set of numbers that has 0, and with each number the next one, has all.
LEMMA CountingUp ==
  ASSUME NEW Q, 0 \in Q, \A n \in Nat : n \in Q => n + 1 \in Q
  PROVE  \A n \in Nat : n \in Q
<1> SUFFICES ASSUME NEW n \in Nat, n \notin Q PROVE FALSE
  OBVIOUS
<1> DEFINE T == {m \in Nat : m \notin Q}
<1>1. T \subseteq Nat /\ T # {}
  OBVIOUS
<1>2. PICK x \in T : \A y \in T : ~ (<<y, x>> \in OpToRel(<, Nat))
  BY <1>1, WFMin, NatLessThanWellFounded
<1>3. x \in Nat /\ x # 0 /\ x - 1 \in Nat
  OBVIOUS
<1>4. x - 1 \notin Q
  BY <1>3
<1>5. <<x - 1, x>> \in OpToRel(<, Nat)
  BY <1>3 DEF OpToRel
<1> QED
  BY <1>2, <1>3, <1>4, <1>5

\* f is what Ahead is up to m.
Layers(m, f) == f = [n \in 0..m |-> IF n = 0 THEN Nearest ELSE Farther(f[n - 1])]

LEMMA LayersExist ==
  ASSUME NEW m \in Nat
  PROVE  \E f : Layers(m, f)
<1> DEFINE Q == {n \in Nat : \E f : Layers(n, f)}
<1>1. Layers(0, [n \in 0..0 |-> Nearest])
  BY DEF Layers
<1>2. 0 \in Q
  BY <1>1
<1>3. ASSUME NEW n \in Nat, n \in Q PROVE n + 1 \in Q
  <2>1. PICK f : Layers(n, f)
    BY <1>3
  <2>2. \A i \in 0..n : f[i] = IF i = 0 THEN Nearest ELSE Farther(f[i - 1])
    BY <2>1 DEF Layers
  <2>3. PICK g : g = [i \in 0..(n + 1) |-> IF i <= n THEN f[i] ELSE Farther(f[n])]
    OBVIOUS
  <2>4. (\A i \in 0..n : g[i] = f[i]) /\ g[n + 1] = Farther(g[n])
    BY <2>3
  <2>5. \A i \in 0..(n + 1) : g[i] = IF i = 0 THEN Nearest ELSE Farther(g[i - 1])
    BY <2>2, <2>4
  <2>6. Layers(n + 1, g)
    BY <2>3, <2>5 DEF Layers
  <2> QED
    BY <2>6
<1> HIDE DEF Q
<1>4. m \in Q
  BY <1>2, <1>3, CountingUp
<1> QED
  BY <1>4 DEF Q

LEMMA AheadIsLayered == Cardinality(Sessions) \in Nat /\ Layers(Cardinality(Sessions), Ahead)
<1>1. Cardinality(Sessions) \in Nat
  BY SessionsOfAKind, FS_CardinalityType
<1>2. \E f : Layers(Cardinality(Sessions), f)
  BY <1>1, LayersExist
<1> QED
  BY <1>1, <1>2 DEF Layers, Ahead

\* With one more layer, what is ahead of who blocks s is ahead of s.
LEMMA Layer ==
  ASSUME NEW n \in 0..Cardinality(Sessions), NEW s \in Sessions
  PROVE  /\ Near(s) \subseteq Ahead[n][s]
         /\ n # 0 => \A t \in Near(s) : Ahead[n - 1][t] \subseteq Ahead[n][s]
<1>1. Ahead[n] = IF n = 0 THEN Nearest ELSE Farther(Ahead[n - 1])
  BY AheadIsLayered DEF Layers
<1>2. CASE n = 0
  BY <1>1, <1>2 DEF Nearest
<1>3. CASE n # 0
  <2>1. Ahead[n][s] = Near(s) \cup UNION {Ahead[n - 1][t] : t \in Near(s)}
    BY <1>1, <1>3 DEF Farther
  <2> QED
    BY <2>1
<1> QED
  BY <1>2, <1>3

\* p is a row of sessions of which each is blocked by the next.
Chain(p, m) ==
  /\ p \in [0..m -> Sessions]
  /\ \A i \in 0..(m - 1) : p[i + 1] \in Near(p[i])

\* Whoever comes later in a chain is ahead of whoever comes earlier.
LEMMA LaterIsAhead ==
  ASSUME NEW m \in 0..Cardinality(Sessions), NEW p, Chain(p, m), NEW i \in 0..m, NEW j \in 0..m, i < j
  PROVE  p[j] \in AheadOf(p[i])
<1> DEFINE N == Cardinality(Sessions)
           Q == {n \in Nat : n <= N => \A a, b \in 0..m : a < b /\ b - a <= n + 1 => p[b] \in Ahead[n][p[a]]}
<1>1. N \in Nat /\ m \in Nat /\ m <= N
  BY AheadIsLayered
<1>2. \A a \in 0..m : p[a] \in Sessions /\ (a < m => p[a + 1] \in Near(p[a]))
  BY DEF Chain
<1>3. 0 \in Q
  <2>1. ASSUME NEW a \in 0..m, NEW b \in 0..m, a < b, b - a <= 1 PROVE p[b] \in Ahead[0][p[a]]
    <3>1. b = a + 1 /\ a < m
      BY <1>1, <2>1
    <3>2. p[b] \in Near(p[a]) /\ p[a] \in Sessions
      BY <1>2, <3>1
    <3> QED
      BY <1>1, <3>2, Layer
  <2> QED
    BY <2>1
<1>4. ASSUME NEW n \in Nat, n \in Q PROVE n + 1 \in Q
  <2>1. ASSUME NEW a \in 0..m, NEW b \in 0..m, a < b, b - a <= n + 2, n + 1 <= N PROVE p[b] \in Ahead[n + 1][p[a]]
    <3>1. a < m /\ p[a] \in Sessions /\ p[a + 1] \in Near(p[a])
      BY <1>1, <1>2, <2>1
    <3>2. n + 1 \in 0..N /\ n + 1 # 0 /\ (n + 1) - 1 = n
      BY <1>1, <2>1
    <3>3. Near(p[a]) \subseteq Ahead[n + 1][p[a]] /\ Ahead[n][p[a + 1]] \subseteq Ahead[n + 1][p[a]]
      BY <3>1, <3>2, Layer
    <3>4. CASE b = a + 1
      BY <3>1, <3>3, <3>4
    <3>5. CASE b # a + 1
      <4>1. a + 1 \in 0..m /\ a + 1 < b /\ b - (a + 1) <= n + 1 /\ n <= N
        BY <1>1, <2>1, <3>5
      <4>2. p[b] \in Ahead[n][p[a + 1]]
        BY <1>4, <4>1
      <4> QED
        BY <3>3, <4>2
    <3> QED
      BY <3>4, <3>5
  <2> QED
    BY <2>1
<1> HIDE DEF Q
<1>5. N \in Q
  BY <1>1, <1>3, <1>4, CountingUp
<1>6. j - i <= N + 1
  BY <1>1
<1> QED
  BY <1>1, <1>5, <1>6 DEF Q, AheadOf


\* What a session asks for before it ends its statement, or its transaction.
CanGoOn(s) ==
  \/ stmt[s] # Idle /\ stmt[s].op \in MayIssue(s) /\ Free(s)
  \/ stmt[s] = Idle /\ tx[s] # NoTx /\ s \in Agents \cup Asks

\* Nobody waits for a session that waits for nothing.
NobodyStuck ==
  \A s \in Sessions : stmt[s] # Idle => \E t \in {s} \cup AheadOf(s) : CanGoOn(t) \/ InCycle(t)

LEMMA BlockersHaveWritten ==
  ASSUME NEW t, NEW s, Blocks(t, s)
  PROVE  tx[t] # NoTx
  BY DEF Blocks, HoldsKey, NoTx

LEMMA ChainGoesOn ==
  ASSUME NEW m \in Nat, NEW p, Chain(p, m), NEW t \in Near(p[m])
  PROVE  \E q : Chain(q, m + 1) /\ q[m + 1] = t /\ \A i \in 0..m : q[i] = p[i]
<1>1. PICK q : q = [i \in 0..(m + 1) |-> IF i <= m THEN p[i] ELSE t]
  OBVIOUS
<1>2. q[m + 1] = t /\ \A i \in 0..m : q[i] = p[i]
  BY <1>1
<1>3. q \in [0..(m + 1) -> Sessions]
  BY <1>1 DEF Chain, Near
<1>4. \A i \in 0..m : q[i + 1] \in Near(q[i])
  <2> SUFFICES ASSUME NEW i \in 0..m PROVE q[i + 1] \in Near(q[i])
    OBVIOUS
  <2>1. CASE i = m
    BY <1>2, <2>1
  <2>2. CASE i # m
    <3>1. i \in 0..(m - 1) /\ i + 1 \in 0..m
      BY <2>2
    <3> QED
      BY <1>2, <3>1 DEF Chain
  <2> QED
    BY <2>1, <2>2
<1> QED
  BY <1>2, <1>3, <1>4 DEF Chain

\* A row of waiters either comes to one who need not wait, or gets as long as there are
\* sessions, and then has one twice.
LEMMA SomebodyIsAhead ==
  ASSUME TypeOK, Owners, NEW s \in Sessions, stmt[s] # Idle,
         \A t \in {s} \cup AheadOf(s) : ~CanGoOn(t) /\ ~InCycle(t)
  PROVE  FALSE
<1> DEFINE N == Cardinality(Sessions)
           Waiting(p, m) == Chain(p, m) /\ p[0] = s /\ \A i \in 0..m : stmt[p[i]] # Idle
           Q == {m \in Nat : m <= N => \E p : Waiting(p, m)}
<1>1. N \in Nat /\ IsFiniteSet(Sessions)
  BY AheadIsLayered, SessionsOfAKind
<1>2. ASSUME NEW m \in 0..N, NEW p, Chain(p, m), p[0] = s, NEW i \in 0..m PROVE p[i] \in Sessions /\ p[i] \in {s} \cup AheadOf(s)
  <2>1. p[i] \in Sessions
    BY <1>2 DEF Chain
  <2>2. i # 0 => p[i] \in AheadOf(p[0])
    BY <1>1, <1>2, LaterIsAhead
  <2> QED
    BY <1>2, <2>1, <2>2
<1>3. 0 \in Q
  <2>1. PICK p : p = [i \in 0..0 |-> s]
    OBVIOUS
  <2>2. Chain(p, 0) /\ p[0] = s
    BY <2>1 DEF Chain
  <2> QED
    BY <2>1, <2>2
<1>4. ASSUME NEW m \in Nat, m \in Q PROVE m + 1 \in Q
  <2> SUFFICES ASSUME m + 1 <= N PROVE \E q : Waiting(q, m + 1)
    OBVIOUS
  <2>1. PICK p : Waiting(p, m)
    BY <1>1, <1>4
  <2>2. m \in 0..N /\ m \in 0..m /\ m + 1 \in 0..N
    BY <1>1
  <2>3. p[m] \in Sessions /\ ~CanGoOn(p[m]) /\ stmt[p[m]] # Idle
    BY <1>2, <2>1, <2>2
  <2>4. PICK t \in Sessions : Blocks(t, p[m])
    BY <2>3 DEF CanGoOn, Owners, Free
  <2>5. PICK q : Chain(q, m + 1) /\ q[m + 1] = t /\ \A i \in 0..m : q[i] = p[i]
    BY <2>1, <2>4, ChainGoesOn DEF Near
  <2>6. q[0] = s
    BY <2>1, <2>5
  <2>7. ~CanGoOn(t)
    BY <1>1, <1>2, <2>2, <2>5, <2>6
  <2>8. tx[t] # NoTx
    BY <2>4, BlockersHaveWritten
  <2>9. stmt[t] # Idle
    BY <2>4, <2>7, <2>8 DEF CanGoOn, Owners, Sessions
  <2>10. \A i \in 0..(m + 1) : stmt[q[i]] # Idle
    BY <2>1, <2>5, <2>9
  <2> QED
    BY <2>5, <2>6, <2>10
<1>5. N \in Q
  <2> HIDE DEF Q
  <2> QED
    BY <1>1, <1>3, <1>4, CountingUp
<1>6. PICK p : Waiting(p, N)
  BY <1>1, <1>5
<1>7. IsFiniteSet(0..N) /\ Cardinality(0..N) = N + 1
  BY <1>1, FS_Interval
<1>8. p \in [0..N -> Sessions]
  BY <1>6 DEF Chain
<1>9. PICK i \in 0..N, j \in 0..N : i # j /\ p[i] = p[j]
  BY <1>1, <1>7, <1>8, FS_PigeonHole
<1>10. PICK a \in 0..N, b \in 0..N : a < b /\ p[a] = p[b]
  BY <1>1, <1>9
<1>11. p[a] \in AheadOf(p[a])
  BY <1>1, <1>6, <1>10, LaterIsAhead
<1>12. p[a] \in {s} \cup AheadOf(s)
  BY <1>1, <1>2, <1>6, <1>10
<1> QED
  BY <1>11, <1>12 DEF InCycle

\* Whatever agents, questions and users wait for, and however many of them: among those
\* a waiting session waits for there is always one that can end its statement or its
\* transaction, or one in a cycle that the database sees and breaks.
THEOREM WaitersAreServed == Spec => []NobodyStuck
<1>1. Spec => []Owners
  <2>1. Types /\ Owners /\ [Next]_vars => Owners'
    <3> SUFFICES ASSUME Types, Owners, [Next]_vars PROVE Owners'
      OBVIOUS
    <3>1. CASE UNCHANGED vars
      BY <3>1 DEF vars, Owners
    <3> QED
      BY <3>1, StepKeepsOwners DEF Next, Types
  <2> QED
    BY <2>1, InitOwners, TypesHold, PTL DEF Spec
<1>2. Types /\ Owners => NobodyStuck
  <2> SUFFICES ASSUME TypeOK, Owners, NEW s \in Sessions, stmt[s] # Idle
               PROVE  \E t \in {s} \cup AheadOf(s) : CanGoOn(t) \/ InCycle(t)
    BY DEF NobodyStuck, Types
  <2> QED
    BY SomebodyIsAhead
<1> QED
  BY <1>1, <1>2, TypesHold, PTL
=============================================================================
