------------------------------ MODULE EventIngest ------------------------------
(***************************************************************************)
(* One artifact is parsed into events while users ask for analyses of the  *)
(* investigation, whose results are cached.                                *)
(*                                                                         *)
(*  - The first parser that claims the file is given it (Dispatch).         *)
(*  - A parser reads the records of the file and inserts them in batches,  *)
(*    each a commit of its own, after which it deletes the cached results  *)
(*    in another transaction. Parsers that meet many records insert inside *)
(*    the loop that skips bad records; the others insert once, at the end. *)
(*  - A parser that raises is followed by the catch-all, which describes   *)
(*    the file in one event.                                               *)
(*  - An analysis reads the events category by category, then counts them  *)
(*    and stores its result with the count; a stored result is served as   *)
(*    long as the count is the same.                                       *)
(***************************************************************************)
EXTENDS Dispatch, FiniteSets, Functions

CONSTANTS
  NRecords,    \* records of the artifact; record 0 stands for its metadata
  BatchSize,   \* records of a batch (1000 or 2000 in the code)
  Cats,        \* event types
  CatOf,       \* the event type of a record
  Parsers,     \* bound: the parsers whose reading is followed to its end
  Analyses,    \* the modules users ask for
  Requests,    \* requests under way at the same time
  MaxRequests, \* bound: requests in all
  MaxCrashes,  \* bound: times the job is run again
  MaxFaults    \* bound: statements and reads that fail

Meta == 0
Records == 0..NRecords

ASSUME CatsAssumption == IsFiniteSet(Cats)
ASSUME IngestAssumption ==
  /\ NRecords \in Nat /\ BatchSize \in Nat \ {0}
  /\ CatOf \in [Records -> Cats]
  /\ MaxRequests \in Nat /\ MaxCrashes \in Nat /\ MaxFaults \in Nat

VARIABLES
  file,     \* the file, until its parser is chosen
  pc,       \* where the job is
  suited,   \* the parser that identifies the artifact
  parser,   \* the parser at work
  next,     \* the next record to read
  batch,    \* converted records that are not inserted yet
  stored,   \* committed rows of the table events, by record
  good,     \* the records this run has converted
  inRun,    \* the rows this run of the job has committed
  claimed,  \* events_inserted
  cache,    \* analysis_results, by module
  req,      \* the requests for analyses
  asked, crashes, faults

job  == <<file, pc, suited, parser, next, batch, good, inRun, claimed>>
vars == <<job, stored, cache, req, asked, crashes, faults>>

-----------------------------------------------------------------------------
(* The parsers. bounded: inserts within the loop once BatchSize records are *)
(* there; first: a batch of the registry's plugins comes before the loop;   *)
(* many: takes more than one event from a file; raises: what goes wrong     *)
(* while it reads is raised, not swallowed.                                 *)

Evtx      == [name |-> "evtx", bounded |-> TRUE, first |-> FALSE, many |-> TRUE, raises |-> TRUE]
Mft       == [name |-> "mft", bounded |-> TRUE, first |-> FALSE, many |-> TRUE, raises |-> TRUE]
Registry  == [name |-> "registry", bounded |-> TRUE, first |-> TRUE, many |-> TRUE, raises |-> TRUE]
Prefetch  == [name |-> "prefetch", bounded |-> FALSE, first |-> FALSE, many |-> FALSE, raises |-> TRUE]
Lnk       == [name |-> "lnk", bounded |-> FALSE, first |-> FALSE, many |-> FALSE, raises |-> TRUE]
Jumplist  == [name |-> "jumplist", bounded |-> FALSE, first |-> FALSE, many |-> TRUE, raises |-> FALSE]
Browser   == [name |-> "browser", bounded |-> FALSE, first |-> FALSE, many |-> TRUE, raises |-> FALSE]
Windows   == [name |-> "windows", bounded |-> FALSE, first |-> FALSE, many |-> TRUE, raises |-> FALSE]
FileMetadata == [name |-> "file_metadata", bounded |-> FALSE, first |-> FALSE, many |-> FALSE, raises |-> TRUE]

AllParsers == {Evtx, Mft, Registry, Prefetch, Lnk, Jumplist, Browser, Windows, FileMetadata}
ASSUME ParsersAssumption == Parsers \subseteq AllParsers

NoFile == [name |-> "none"]
Ends == {"done", "failed", "elsewhere"}
Places == {"choose", "queued", "read", "insert", "flush", "invalidate"} \cup Ends
\* Mutant: the loop takes one record too many.
LastRecordOff(p) == IF p.many THEN NRecords + 1 ELSE IF NRecords = 0 THEN 0 ELSE 1

LastRecord(p) == IF p.many THEN NRecords ELSE IF NRecords = 0 THEN 0 ELSE 1

\* Rows in the table events, whatever their record.
Total == FoldFunction(LAMBDA x, y : x + y, 0, stored)
Zero == [r \in Records |-> 0]
Add(f, S) == [r \in Records |-> f[r] + IF r \in S THEN 1 ELSE 0]
Fail == faults < MaxFaults /\ faults' = faults + 1

\* The first parser that claims the file is to read it. A parser that is not
\* followed behaves as one of those that are, or extracts an archive.
Identify ==
  /\ pc = "choose" /\ file' = NoFile
  /\ \/ \E p \in Parsers : p.name = Selected(file) /\ pc' = "queued" /\ suited' = p
     \/ /\ \A p \in Parsers : p.name # Selected(file)
        /\ pc' = "elsewhere" /\ UNCHANGED suited
  /\ UNCHANGED <<parser, next, batch, good, inRun, claimed, stored, cache, req, asked, crashes, faults>>

\* The parser as parse_artifact starts it. The catch-all has its one
\* event at once; the registry parser starts with the plugins' events.
Select ==
  /\ pc = "queued" /\ parser' = suited
  /\ IF suited = FileMetadata
     THEN pc' = "flush" /\ batch' = {Meta} /\ next' = NRecords + 1
     ELSE IF suited.first /\ NRecords > 0
          THEN pc' = "flush" /\ batch' = {1} /\ next' = 2
          ELSE pc' = "read" /\ batch' = {} /\ next' = 1
  /\ good' = batch' /\ inRun' = Zero /\ claimed' = 0
  /\ UNCHANGED <<file, suited, stored, cache, req, asked, crashes, faults>>

\* What the parser's decoders may make of a record.
Outcomes ==
  [n \in {p.name : p \in AllParsers} |-> {Converts(d, e) : d \in DecodersOf(n), e \in Entries}]

\* A record becomes an event, or is skipped: no data, no timestamp, or its
\* conversion raised. The batch is inserted when it is long enough, and the
\* length is looked at only after a record was added to it.
Convert(fine) ==
  /\ pc = "read" /\ next <= LastRecord(parser) /\ fine \in Outcomes[parser.name]
  /\ next' = next + 1
  /\ LET new == IF fine THEN {next} ELSE {}
     IN batch' = batch \cup new /\ good' = good \cup new
  /\ pc' = IF fine /\ parser.bounded /\ Cardinality(batch') >= BatchSize THEN "insert" ELSE "read"
  /\ UNCHANGED <<file, suited, parser, inRun, claimed, stored, cache, req, asked, crashes, faults>>

\* Mutant: the rest of the batch is not inserted at the end.
EndOfFileWithoutRest ==
  /\ pc = "read" /\ next > LastRecord(parser) /\ batch = {}
  /\ pc' = "done"
  /\ UNCHANGED <<file, suited, parser, next, batch, good, inRun, claimed, stored, cache, req, asked, crashes, faults>>

\* The remaining events are inserted at the end of the file.
EndOfFile ==
  /\ pc = "read" /\ next > LastRecord(parser)
  /\ pc' = IF batch = {} THEN "done" ELSE "flush"
  /\ UNCHANGED <<file, suited, parser, next, batch, good, inRun, claimed, stored, cache, req, asked, crashes, faults>>

InsertEventBatch ==
  /\ pc \in {"insert", "flush"} /\ pc' = "invalidate"
  /\ stored' = Add(stored, batch) /\ inRun' = Add(inRun, batch)
  /\ UNCHANGED <<file, suited, parser, next, batch, good, claimed, cache, req, asked, crashes, faults>>

\* What parse_artifact does when the parser raises: the catch-all describes the
\* file. What was inserted stays, and is not counted. If the catch-all raises,
\* the job has failed.
Fallback ==
  /\ claimed' = 0
  /\ next' = NRecords + 1
  /\ IF parser = FileMetadata
     THEN pc' = "failed" /\ batch' = {} /\ UNCHANGED parser
     ELSE pc' = "flush" /\ batch' = {Meta} /\ parser' = FileMetadata

\* Mutant: a batch that could not be inserted is dropped.
InsertFailsDrops ==
  /\ Fail
  /\ \/ pc = "insert" /\ pc' = "read" /\ batch' = {} /\ UNCHANGED <<parser, next, claimed>>
     \/ pc = "flush" /\ Fallback
  /\ UNCHANGED <<file, suited, good, inRun, stored, cache, req, asked, crashes>>

\* The insert fails and is rolled back. In the loop the exception is taken for one
\* of the record's: the batch is kept, to be inserted with the next record.
InsertFails ==
  /\ Fail
  /\ \/ pc = "insert" /\ pc' = "read" /\ UNCHANGED <<parser, next, batch, claimed>>
     \/ pc = "flush" /\ Fallback
  /\ UNCHANGED <<file, suited, good, inRun, stored, cache, req, asked, crashes>>

\* The file cannot be read further.
ReadFails ==
  /\ pc = "read" /\ Fail
  /\ IF parser.raises
     THEN Fallback
     ELSE /\ next' = NRecords + 1
          /\ UNCHANGED <<pc, parser, batch, claimed>>
  /\ UNCHANGED <<file, suited, good, inRun, stored, cache, req, asked, crashes>>

\* invalidate_analysis_cache deletes the results, or fails and says nothing; the
\* parser counts its batch and empties it.
NoRow == [found |-> Zero, count |-> 0, clean |-> FALSE, there |-> FALSE]
\* Mutant: the batch is not emptied after its insert.
InvalidateCacheKeeps(ok) ==
  /\ pc = "invalidate" /\ pc' = "read"
  /\ IF ok THEN cache' = [m \in Analyses |-> NoRow] /\ UNCHANGED faults
           ELSE UNCHANGED cache /\ Fail
  /\ claimed' = claimed + Cardinality(batch)
  /\ UNCHANGED <<file, suited, parser, next, batch, good, inRun, stored, req, asked, crashes>>

InvalidateCache(ok) ==
  /\ pc = "invalidate" /\ pc' = "read"
  /\ IF ok THEN cache' = [m \in Analyses |-> NoRow] /\ UNCHANGED faults
           ELSE UNCHANGED cache /\ Fail
  /\ claimed' = claimed + Cardinality(batch) /\ batch' = {}
  /\ UNCHANGED <<file, suited, parser, next, good, inRun, stored, req, asked, crashes>>

\* The worker dies; the job is taken back and run again from the start.
RunAgain ==
  /\ pc \notin Ends \cup {"choose", "queued"} /\ crashes < MaxCrashes
  /\ crashes' = crashes + 1 /\ pc' = "queued"
  /\ batch' = {} /\ next' = 1 /\ claimed' = 0 /\ good' = {} /\ inRun' = Zero
  /\ UNCHANGED <<file, suited, parser, stored, cache, req, asked, faults>>

-----------------------------------------------------------------------------
(* The analyses. cats: the queries, one for each event type; keepsEmpty:    *)
(* stores a result without entries too.                                     *)

Autoruns          == [name |-> "autoruns", cats |-> Cats, keepsEmpty |-> FALSE]
ExecutionEvidence == [name |-> "execution_evidence", cats |-> Cats, keepsEmpty |-> FALSE]
UserActivity      == [name |-> "user_activity", cats |-> Cats, keepsEmpty |-> FALSE]
Logons(c)         == [name |-> "logons", cats |-> {c}, keepsEmpty |-> FALSE]
BrowsedUrls(c)    == [name |-> "browsed_urls", cats |-> {c}, keepsEmpty |-> TRUE]

ASSUME AnalysesAssumption ==
  Analyses \subseteq {Autoruns, ExecutionEvidence, UserActivity} \cup UNION {{Logons(c), BrowsedUrls(c)} : c \in Cats}

NoRequest == [at |-> "idle"]
\* The events a module would find now.
Found(m) == [r \in Records |-> IF CatOf[r] \in m.cats THEN stored[r] ELSE 0]

\* analyze(): the newest stored result, if any.
Ask(a, m) ==
  /\ pc # "choose" /\ req[a] = NoRequest /\ asked < MaxRequests /\ asked' = asked + 1
  /\ req' = [req EXCEPT ![a] = [at |-> IF cache[m].there THEN "count" ELSE "query", module |-> m,
                                row |-> cache[m], left |-> m.cats, found |-> Zero,
                                base |-> Total, ok |-> TRUE]]
  /\ UNCHANGED <<job, stored, cache, crashes, faults>>

\* Mutant: a stored result is served without a look at the number of events.
CompareCountNever(a) ==
  /\ req[a].at = "count"
  /\ req' = [req EXCEPT ![a] = NoRequest]
  /\ UNCHANGED <<job, stored, cache, asked, crashes, faults>>

\* The stored result is served if the number of events is the one it was stored with.
CompareCount(a) ==
  /\ req[a].at = "count"
  /\ req' = [req EXCEPT ![a] = IF req[a].row.count = Total
                               THEN NoRequest
                               ELSE [@ EXCEPT !.at = "query", !.row = NoRow, !.base = Total]]
  /\ UNCHANGED <<job, stored, cache, asked, crashes, faults>>

\* One query for each event type, each with a snapshot of its own.
QueryCategory(a, c) ==
  /\ req[a].at = "query" /\ c \in req[a].left
  /\ req' = [req EXCEPT ![a].left = @ \ {c},
                        ![a].found = [r \in Records |-> @[r] + IF CatOf[r] = c THEN stored[r] ELSE 0]]
  /\ UNCHANGED <<job, stored, cache, asked, crashes, faults>>

\* A query that fails is logged; the analysis goes on without its events.
QueryFails(a, c) ==
  /\ req[a].at = "query" /\ c \in req[a].left /\ Fail
  /\ req' = [req EXCEPT ![a].left = @ \ {c}, ![a].ok = FALSE]
  /\ UNCHANGED <<job, stored, cache, asked, crashes>>

\* _cache_results counts the events in a session of its own ...
CountForCache(a) ==
  /\ req[a].at = "query" /\ req[a].left = {}
  /\ LET q == req[a]
         row == [found |-> q.found, count |-> Total, there |-> TRUE, clean |-> q.ok /\ q.base = Total]
     IN req' = [req EXCEPT ![a] = IF q.found = Zero /\ ~q.module.keepsEmpty
                                  THEN NoRequest ELSE [q EXCEPT !.at = "store", !.row = row]]
  /\ UNCHANGED <<job, stored, cache, asked, crashes, faults>>

\* ... and stores the result over the one that may be there, or fails silently.
CacheResults(a, ok) ==
  /\ req[a].at = "store"
  /\ IF ok THEN cache' = [cache EXCEPT ![req[a].module] = req[a].row] /\ UNCHANGED faults
           ELSE UNCHANGED cache /\ Fail
  /\ req' = [req EXCEPT ![a] = NoRequest]
  /\ UNCHANGED <<job, stored, asked, crashes>>

ClearCache ==
  /\ \E m \in Analyses : cache[m].there
  /\ asked < MaxRequests /\ asked' = asked + 1
  /\ cache' = [m \in Analyses |-> NoRow]
  /\ UNCHANGED <<job, stored, req, crashes, faults>>

-----------------------------------------------------------------------------
Init ==
  /\ file \in Files /\ pc = "choose"
  /\ suited = FileMetadata /\ parser = FileMetadata /\ next = 1 /\ batch = {}
  /\ stored = Zero /\ good = {} /\ inRun = Zero /\ claimed = 0
  /\ cache = [m \in Analyses |-> NoRow]
  /\ req = [a \in Requests |-> NoRequest]
  /\ asked = 0 /\ crashes = 0 /\ faults = 0

Parse ==
  \/ \E fine \in BOOLEAN : Convert(fine)
  \/ Identify \/ Select \/ EndOfFile \/ InsertEventBatch \/ InsertFails \/ ReadFails
  \/ \E ok \in BOOLEAN : InvalidateCache(ok)

Analyse(a) ==
  \/ CompareCount(a) \/ CountForCache(a)
  \/ \E c \in Cats : QueryCategory(a, c) \/ QueryFails(a, c)
  \/ \E ok \in BOOLEAN : CacheResults(a, ok)

Next ==
  \/ Parse \/ RunAgain \/ ClearCache
  \/ \E a \in Requests : Analyse(a) \/ \E m \in Analyses : Ask(a, m)

Spec == Init /\ [][Next]_vars
\* The worker parses on; a request is a coroutine the event loop resumes.
FairSpec == Spec /\ WF_vars(Parse) /\ \A a \in Requests : WF_vars(Analyse(a))

-----------------------------------------------------------------------------
(* Properties.                                                             *)

Row == [found: [Records -> Nat], count: Nat, clean: BOOLEAN, there: BOOLEAN]
TypeOK ==
  /\ file \in Files \cup {NoFile} /\ pc \in Places
  /\ suited \in Parsers \cup {FileMetadata} /\ parser \in Parsers \cup {FileMetadata}
  /\ next \in 1..(NRecords + 1) /\ batch \subseteq Records /\ good \subseteq Records
  /\ stored \in [Records -> Nat] /\ inRun \in [Records -> Nat] /\ claimed \in Nat
  /\ cache \in [Analyses -> Row]
  /\ \A a \in Requests : req[a] # NoRequest => req[a].at \in {"count", "query", "store"} /\ req[a].row \in Row

\* The tests that claim a file and those its decoder makes agree, and no parser
\* takes a file from one that is asked later: a file under the name Windows or the
\* browser gave it, or under another name if its content is enough to tell, yields
\* the event types its content is meant to yield. Left out are the files the
\* Windows parser does not claim: the index of Windows Search, and a large SRUM
\* database.
RightDecoder ==
  pc = "choose" /\ file.usable /\ file.name = NameOf(file.content)
  /\ file.content # "search index" /\ ~(file.content = "srum" /\ file.size = "big")
  /\ (file.content = "cryptnet" => file.size = "small")
    => EventTypes(file) = TypesMeant(file.content)

\* A run puts an event into the table at most once, however often an insert
\* failed and its batch was tried again together with the next record; only a
\* run after a crash repeats what an earlier one had committed.
OncePerRun == \A r \in Records : inRun[r] <= 1 /\ stored[r] <= crashes + 1

\* When the parser that was selected ends the job, every record it converted is
\* in the table, and events_inserted is their number: a batch whose insert
\* failed was neither dropped nor counted. The catch-all ends with its one event.
NothingDropped ==
  pc = "done" =>
    IF parser = suited
    THEN inRun = Add(Zero, good) /\ claimed = Cardinality(good)
    ELSE inRun[Meta] = 1 /\ claimed = 1

\* A stored analysis that is served shows the events there are at that moment,
\* whatever was ingested since it was stored: the count tells, although the results
\* are deleted only after the events' commit, and perhaps not at all. This holds for
\* results computed without a failing query and without a commit of events between
\* the first query and the count (clean).
ServedIsCurrent ==
  [][\A a \in Requests :
       req[a] # NoRequest /\ req[a].at = "count" /\ req'[a] = NoRequest /\ req[a].row.clean
         => req[a].row.found = Found(req[a].module)]_vars

\* The job ends, with what its parser or the catch-all found or as failed, and
\* every request is answered.
IngestEnds == <>(pc \in Ends) /\ \A a \in Requests : req[a] # NoRequest ~> req[a] = NoRequest
=============================================================================
