------------------------------- MODULE Timeline -------------------------------
(***************************************************************************)
(* The timeline of one investigation and the sessions that write it:       *)
(*                                                                         *)
(*  - an agent (worker process): its tools are savepoints of one           *)
(*    transaction, which only some later steps commit or roll back;        *)
(*  - a timeline question (chat): a loop of the model's tool calls in the  *)
(*    session of the request, committed with the answer;                   *)
(*  - a user's request (REST): a check, then one statement and a commit.   *)
(*                                                                         *)
(* PostgreSQL at READ COMMITTED: a statement sees what is committed and    *)
(* what its own transaction did; it waits while an open transaction holds  *)
(* the row, or has inserted or deleted the same (investigation, event), on *)
(* which there is a unique index; of a cycle of waiters one is aborted.    *)
(***************************************************************************)
EXTENDS Naturals, FiniteSets

CONSTANTS
  Agents, Asks, Users,   \* the sessions
  Events,                \* events of the investigation
  NoEvent,               \* the event_id of a finding, a note or an observation
  MaxEntries,            \* bound: entry ids drawn from the sequence
  MaxCalls,              \* bound: statements of all sessions
  MaxFaults              \* bound: failures of calls, crashes, disconnects

Sessions == Agents \cup Asks \cup Users
Ids == 1..MaxEntries
Entry == [id: Ids, event: Events \cup {NoEvent}]

ASSUME SessionsAssumption ==
  /\ Agents \cap Asks = {} /\ Agents \cap Users = {} /\ Asks \cap Users = {}
  /\ NoEvent \notin Events /\ IsFiniteSet(Sessions)
ASSUME BoundsAssumption == MaxEntries \in Nat /\ MaxCalls \in Nat /\ MaxFaults \in Nat

VARIABLES
  entries,  \* the committed rows of timeline_entries
  vectors,  \* ids of committed rows with an embedding
  notes,    \* ids of entries with a note of a user
  tx,       \* what a session's open transaction inserted, deleted, updated
  stmt,     \* the statement a session is executing, or waiting to execute
  calls,    \* statements issued (bounds the behaviour)
  opened,   \* how often a session was opened anew because it had died
  removed,  \* ids somebody deleted on purpose
  nextId,   \* the sequence of entry_id; a rollback does not turn it back
  faults

vars == <<entries, vectors, notes, tx, stmt, calls, opened, removed, nextId, faults>>
table == <<entries, vectors, notes>>

NoTx == [ins |-> {}, del |-> {}, upd |-> {}]
Idle == [op |-> "idle"]
Inserts == [op: {"insert"}, event: Events \cup {NoEvent}]
OnRows  == [op: {"delete", "update", "note"}, id: Ids]
Statements == {Idle, [op |-> "embed"], [op |-> "analyse"]} \cup Inserts \cup OnRows

TypeOK ==
  /\ entries \subseteq Entry /\ vectors \subseteq Ids /\ notes \subseteq Ids
  /\ tx \in [Sessions -> [ins: SUBSET Entry, del: SUBSET Ids, upd: SUBSET Ids]]
  /\ stmt \in [Sessions -> Statements]
  /\ calls \in 0..MaxCalls
  /\ opened \in [Sessions -> Nat] /\ removed \subseteq Ids
  /\ nextId \in 1..(MaxEntries + 1) /\ faults \in 0..MaxFaults

Init ==
  /\ entries = {} /\ vectors = {} /\ notes = {}
  /\ tx = [s \in Sessions |-> NoTx] /\ stmt = [s \in Sessions |-> Idle]
  /\ calls = 0
  /\ opened = [s \in Sessions |-> 0] /\ removed = {} /\ nextId = 1 /\ faults = 0

-----------------------------------------------------------------------------
(* The database.                                                           *)

IdsOf(S) == {n.id : n \in S}
Seen(s) == {n \in entries \cup tx[s].ins : n.id \notin tx[s].del}
Unembedded(s) == {n \in Seen(s) : n.id \notin vectors}

\* Does t's open transaction touch the index entry of event e?
HoldsKey(t, e) ==
  /\ e # NoEvent
  /\ \/ \E n \in tx[t].ins : n.event = e
     \/ \E n \in entries : n.event = e /\ n.id \in tx[t].del

Blocks(t, s) ==
  /\ t # s
  /\ \/ stmt[s].op = "insert" /\ HoldsKey(t, stmt[s].event)
     \/ stmt[s].op \in {"delete", "update"} /\ stmt[s].id \in tx[t].del \cup tx[t].upd
     \/ stmt[s].op = "note" /\ stmt[s].id \in tx[t].del
     \/ stmt[s].op = "embed" /\ IdsOf(Unembedded(s)) \cap (tx[t].del \cup tx[t].upd) # {}

Free(s) == \A t \in Sessions : ~Blocks(t, s)
\* Mutant: the look for an entry of the event overlooks what the session itself has added.
OnTimelineCommitted(s, e) == e # NoEvent /\ \E n \in entries : n.event = e

OnTimeline(s, e) == e # NoEvent /\ \E n \in Seen(s) : n.event = e

\* A commit publishes the transaction; deleting a row deletes its notes.
Published(s) ==
  LET gone == tx[s].del
  IN {n \in entries \cup tx[s].ins : n.id \notin gone}

Commit(s) ==
  /\ entries' = Published(s)
  /\ notes' = notes \ tx[s].del
  /\ removed' = removed \cup tx[s].del
  /\ tx' = [tx EXCEPT ![s] = NoTx]

\* session.rollback(): the whole transaction goes, whatever savepoints it had.
RollBack(s) == tx' = [tx EXCEPT ![s] = NoTx]

Fail == faults < MaxFaults /\ faults' = faults + 1
Finish(s) == stmt' = [stmt EXCEPT ![s] = Idle]
Start(s, st) ==
  /\ stmt[s] = Idle /\ calls < MaxCalls
  /\ st.op = "insert" => nextId + Cardinality({t \in Sessions : stmt[t].op = "insert"}) \in Ids
  /\ stmt' = [stmt EXCEPT ![s] = st]
  /\ calls' = calls + 1
  /\ UNCHANGED <<table, tx, opened, removed, nextId, faults>>

\* Mutant: an insert draws two ids.
InsertRowDrawsTwo(s, e) ==
  /\ tx' = [tx EXCEPT ![s].ins = @ \cup {[id |-> nextId, event |-> e]}]
  /\ nextId' = nextId + 2

\* A row of the session's open transaction, with the next id of the sequence.
InsertRow(s, e) ==
  /\ tx' = [tx EXCEPT ![s].ins = @ \cup {[id |-> nextId, event |-> e]}]
  /\ nextId' = nextId + 1

-----------------------------------------------------------------------------
(* An agent's tools. Each runs in a savepoint of the session's             *)
(* transaction: one that fails leaves the transaction as it was.           *)

\* The model calls register_timeline_entry for an event, or register_finding.
CallRegister(a, e) == a \in Agents /\ ~OnTimeline(a, e) /\ Start(a, [op |-> "insert", event |-> e])

\* INSERT ... ON CONFLICT DO NOTHING; the result is announced to the clients
\* at once, while the transaction is still open. A conflict (the row was
\* committed since the look) returns the row that is there.
RegisterEntry(a) ==
  /\ a \in Agents /\ stmt[a].op = "insert" /\ Free(a)
  /\ LET e == stmt[a].event
     IN IF OnTimeline(a, e)
        THEN UNCHANGED <<tx, nextId>>
        ELSE InsertRow(a, e)
  /\ Finish(a)
  /\ UNCHANGED <<table, calls, opened, removed, faults>>

\* Mutant: a tool has no savepoint; the session is rolled back.
ToolFailsAll(a) ==
  /\ a \in Agents /\ stmt[a].op = "insert" /\ Fail /\ RollBack(a) /\ Finish(a)
  /\ UNCHANGED <<table, calls, opened, removed, nextId>>

\* A tool that fails: its savepoint is rolled back.
ToolFails(a) ==
  /\ a \in Agents /\ stmt[a].op = "insert" /\ Fail /\ Finish(a)
  /\ UNCHANGED <<table, tx, calls, opened, removed, nextId>>

\* query_analysis_module reads; a module whose query fails rolls the session back
\* as a whole, savepoint or not, and goes on with its next query.
CallAnalysis(a) == a \in Agents /\ Start(a, [op |-> "analyse"])
Analyse(a) ==
  /\ a \in Agents /\ stmt[a].op = "analyse" /\ Finish(a)
  /\ UNCHANGED <<table, tx, calls, opened, removed, nextId, faults>>
AnalysisFails(a) ==
  /\ a \in Agents /\ stmt[a].op = "analyse" /\ RollBack(a) /\ Finish(a)
  /\ UNCHANGED <<table, calls, opened, removed, nextId, faults>>

\* A look at the stop flag that fails (check_cancel_signal).
LookFails(a) ==
  /\ a \in Agents /\ stmt[a] = Idle /\ tx[a] # NoTx /\ Fail /\ RollBack(a)
  /\ UNCHANGED <<table, stmt, calls, opened, removed, nextId>>

\* The end of a turn: batch_generate_embeddings selects the rows without one.
CallEmbeddings(a) == a \in Agents /\ Unembedded(a) # {} /\ Start(a, [op |-> "embed"])

\* The vectors are stored and committed, and with them the open transaction.
EmbedEntries(a) ==
  /\ a \in Agents /\ stmt[a].op = "embed" /\ Free(a)
  /\ vectors' = vectors \cup IdsOf(Unembedded(a))
  /\ Commit(a) /\ Finish(a)
  /\ UNCHANGED <<calls, opened, nextId, faults>>

\* The embedding service fails: the session is rolled back as a whole.
EmbeddingFails(a) ==
  /\ a \in Agents /\ stmt[a].op = "embed" /\ Fail /\ RollBack(a) /\ Finish(a)
  /\ UNCHANGED <<table, calls, opened, removed, nextId>>

\* A summary of the conversation is stored (generate_chat_summary), or the
\* job's verdict is (process_agent_job): both commit the session.
CommitAgent(a) ==
  /\ a \in Agents /\ stmt[a] = Idle /\ tx[a] # NoTx /\ Commit(a)
  /\ UNCHANGED <<vectors, stmt, calls, opened, nextId, faults>>

-----------------------------------------------------------------------------
(* A timeline question: the model's tools in the session of the request.   *)

CallAdd(q, e)     == q \in Asks /\ Start(q, [op |-> "insert", event |-> e])
CallUpdate(q, id) == q \in Asks /\ Start(q, [op |-> "update", id |-> id])
CallDelete(q, id) == q \in Asks /\ Start(q, [op |-> "delete", id |-> id])

\* A plain INSERT: for an event that is on the timeline it fails, three times.
AskAdds(q) ==
  /\ q \in Asks /\ stmt[q].op = "insert" /\ Free(q)
  /\ IF OnTimeline(q, stmt[q].event)
     THEN UNCHANGED <<tx, nextId>>
     ELSE InsertRow(q, stmt[q].event)
  /\ Finish(q)
  /\ UNCHANGED <<table, calls, opened, removed, faults>>

\* A row that is not there is reported to the model as not found.
AskUpdates(q) ==
  /\ q \in Asks /\ stmt[q].op = "update" /\ Free(q)
  /\ tx' = [tx EXCEPT ![q].upd = @ \cup ({stmt[q].id} \cap IdsOf(Seen(q)))]
  /\ Finish(q)
  /\ UNCHANGED <<table, calls, opened, removed, nextId, faults>>

AskDeletes(q) ==
  /\ q \in Asks /\ stmt[q].op = "delete" /\ Free(q)
  /\ tx' = [tx EXCEPT ![q].del = @ \cup ({stmt[q].id} \cap IdsOf(Seen(q)))]
  /\ Finish(q)
  /\ UNCHANGED <<table, calls, opened, removed, nextId, faults>>

\* Mutant: the session is not committed with the answer.
AskEndsOpen(q) ==
  /\ q \in Asks /\ stmt[q] = Idle /\ tx[q] # NoTx
  /\ UNCHANGED vars

\* The answer, or the model's error, is written to the question's message and
\* the session committed (chat.py).
AskEnds(q) ==
  /\ q \in Asks /\ stmt[q] = Idle /\ tx[q] # NoTx /\ Commit(q)
  /\ UNCHANGED <<vectors, stmt, calls, opened, nextId, faults>>

-----------------------------------------------------------------------------
(* A user's request: a look, then one statement and a commit.              *)

\* 409 if the event is on the timeline.
CheckCreate(u, e) == u \in Users /\ ~OnTimeline(u, e) /\ Start(u, [op |-> "insert", event |-> e])
\* A plain INSERT; the unique index refuses what was committed since the look.
CreateEntry(u) ==
  /\ u \in Users /\ stmt[u].op = "insert" /\ Free(u)
  /\ IF OnTimeline(u, stmt[u].event)
     THEN UNCHANGED <<entries, nextId>>
     ELSE /\ entries' = entries \cup {[id |-> nextId, event |-> stmt[u].event]}
          /\ nextId' = nextId + 1
  /\ Finish(u)
  /\ UNCHANGED <<vectors, notes, tx, calls, opened, removed, faults>>

\* PATCH: a field of the row, or 404.
RequestUpdate(u, id) == u \in Users /\ Start(u, [op |-> "update", id |-> id])
UpdateEntry(u) ==
  /\ u \in Users /\ stmt[u].op = "update" /\ Free(u) /\ Finish(u)
  /\ UNCHANGED <<table, tx, calls, opened, removed, nextId, faults>>

RequestDelete(u, id) == u \in Users /\ Start(u, [op |-> "delete", id |-> id])
DeleteEntry(u) ==
  /\ u \in Users /\ stmt[u].op = "delete" /\ Free(u)
  /\ LET gone == {stmt[u].id} \cap IdsOf(entries)
     IN /\ entries' = {n \in entries : n.id \notin gone}
        /\ notes' = notes \ gone
        /\ removed' = removed \cup gone
  /\ Finish(u)
  /\ UNCHANGED <<vectors, tx, calls, opened, nextId, faults>>

\* 404 if the entry is not there.
CheckNote(u, id) == u \in Users /\ id \in IdsOf(entries) /\ Start(u, [op |-> "note", id |-> id])
\* Mutant: notes have no foreign key.
CreateNoteUnchecked(u) ==
  /\ u \in Users /\ stmt[u].op = "note" /\ Free(u)
  /\ notes' = notes \cup {stmt[u].id}
  /\ Finish(u)
  /\ UNCHANGED <<entries, vectors, tx, calls, opened, removed, nextId, faults>>

\* The foreign key refuses a note on an entry deleted since the look.
CreateNote(u) ==
  /\ u \in Users /\ stmt[u].op = "note" /\ Free(u)
  /\ notes' = notes \cup ({stmt[u].id} \cap IdsOf(entries))
  /\ Finish(u)
  /\ UNCHANGED <<entries, vectors, tx, calls, opened, removed, nextId, faults>>

DeleteNote(u, id) ==
  /\ u \in Users /\ stmt[u] = Idle /\ id \in notes
  /\ notes' = notes \ {id}
  /\ UNCHANGED <<entries, vectors, tx, stmt, calls, opened, removed, nextId, faults>>

-----------------------------------------------------------------------------
(* A session that dies (a worker's crash, a client that leaves), and the   *)
(* deadlock detector, which aborts one statement of a cycle of waiters:    *)
(* its savepoint, or the request, is rolled back.                          *)

SessionDies(s) ==
  /\ <<tx[s], stmt[s]>> # <<NoTx, Idle>>
  /\ Fail /\ RollBack(s) /\ Finish(s)
  /\ opened' = [opened EXCEPT ![s] = @ + 1]
  /\ UNCHANGED <<table, calls, removed, nextId>>

\* s waits for a session that waits, over any number of others, for s.
Near(s) == {t \in Sessions : Blocks(t, s)}
Nearest == [s \in Sessions |-> Near(s)]
Farther(ahead) == [s \in Sessions |-> Near(s) \cup UNION {ahead[t] : t \in Near(s)}]
Ahead[n \in 0..Cardinality(Sessions)] == IF n = 0 THEN Nearest ELSE Farther(Ahead[n - 1])
AheadOf(s) == Ahead[Cardinality(Sessions)][s]
InCycle(s) == s \in AheadOf(s)

AbortStatement(s) ==
  /\ InCycle(s)
  /\ IF stmt[s].op = "embed" THEN RollBack(s) ELSE UNCHANGED tx
  /\ Finish(s)
  /\ UNCHANGED <<table, calls, opened, removed, nextId, faults>>

-----------------------------------------------------------------------------
AgentStep(a) ==
  \/ \E e \in Events \cup {NoEvent} : CallRegister(a, e)
  \/ RegisterEntry(a) \/ ToolFails(a)
  \/ CallAnalysis(a) \/ Analyse(a) \/ AnalysisFails(a) \/ LookFails(a)
  \/ CallEmbeddings(a) \/ EmbedEntries(a) \/ EmbeddingFails(a) \/ CommitAgent(a)

AskStep(q) ==
  \/ \E e \in Events \cup {NoEvent} : CallAdd(q, e)
  \/ \E id \in Ids : CallUpdate(q, id) \/ CallDelete(q, id)
  \/ AskAdds(q) \/ AskUpdates(q) \/ AskDeletes(q) \/ AskEnds(q)

UserStep(u) ==
  \/ \E e \in Events \cup {NoEvent} : CheckCreate(u, e)
  \/ \E id \in Ids : RequestUpdate(u, id) \/ RequestDelete(u, id) \/ CheckNote(u, id) \/ DeleteNote(u, id)
  \/ CreateEntry(u) \/ UpdateEntry(u) \/ DeleteEntry(u) \/ CreateNote(u)

Next == \E s \in Sessions : AgentStep(s) \/ AskStep(s) \/ UserStep(s) \/ SessionDies(s) \/ AbortStatement(s)

Spec == Init /\ [][Next]_vars

\* A statement that can go on does, a run and a question end, and the database
\* looks for deadlocks.
Progress(s) ==
  \/ RegisterEntry(s) \/ Analyse(s) \/ EmbedEntries(s) \/ CommitAgent(s)
  \/ AskAdds(s) \/ AskUpdates(s) \/ AskDeletes(s) \/ AskEnds(s)
  \/ CreateEntry(s) \/ UpdateEntry(s) \/ DeleteEntry(s) \/ CreateNote(s)
Fairness == \A s \in Sessions : WF_vars(Progress(s)) /\ WF_vars(AbortStatement(s))
FairSpec == Spec /\ Fairness

-----------------------------------------------------------------------------
(* Properties.                                                             *)

Pending(s) == tx[s].ins
Rows == entries \cup UNION {Pending(s) : s \in Sessions}

\* An event is on the timeline once, whoever puts it there: agents, questions
\* and users look first and insert later, and what one has inserted but not yet
\* committed the others do not see. Only a session that has deleted the entry
\* of an event may have another one for it.
SameEvent(m, n) == m.event # NoEvent /\ m.event = n.event /\ m # n
OneEntryPerEvent ==
  /\ \A m, n \in entries : ~SameEvent(m, n)
  /\ \A s \in Sessions : \A m \in Pending(s) :
       /\ \A n \in entries \cup Pending(s) : SameEvent(m, n) => {m.id, n.id} \cap tx[s].del # {}
       /\ \A t \in Sessions \ {s} : \A n \in Pending(t) : ~SameEvent(m, n)

\* Somebody asked for the deletion, and it is committed in this step.
IsDeleted(n) ==
  \/ \E s \in Asks : n.id \in tx[s].del /\ tx'[s] = NoTx /\ opened'[s] = opened[s]
  \/ \E s \in Users : stmt[s] = [op |-> "delete", id |-> n.id] /\ stmt'[s] = Idle /\ opened'[s] = opened[s]

\* The transaction of s ends without a commit, and not because of a tool that writes:
\* the session dies, the embeddings fail, a query of an analysis module does, or a
\* look at the stop flag between two statements.
IsGivenUp(s) ==
  \/ opened'[s] # opened[s]
  \/ stmt[s].op = "embed" /\ stmt'[s] = Idle /\ vectors' = vectors
  \/ stmt[s].op = "analyse" /\ stmt'[s] = Idle
  \/ stmt[s] = Idle /\ UNCHANGED <<stmt, opened>> /\ faults' # faults

\* An entry that was created, and with that announced, stays: whatever tools fail,
\* conflict or are chosen by the deadlock detector later in its transaction, and
\* whatever other sessions commit and roll back, it goes only if somebody deletes it
\* or its own session is given up (tool_executor.py:120-154, assistant_agent.py:196-202,
\* embedding_service.py:403-544).
NoEntryVanishes ==
  [][\A n \in Rows \ Rows' : IsDeleted(n) \/ \E s \in Sessions : n \in Pending(s) /\ IsGivenUp(s)]_vars

\* A deleted entry does not come back, and neither it nor its notes are left
\* behind, although updates, embeddings and notes of others were under way.
DeletedForGood ==
  /\ removed \cap IdsOf(entries) = {}
  /\ notes \subseteq IdsOf(entries)

\* The timeline is not the place where agents, questions and users wait for
\* each other for ever: every statement ends.
StatementsEnd == \A s \in Sessions : stmt[s] # Idle ~> stmt[s] = Idle
=============================================================================
