--------------------------- MODULE EventIngestProofs ---------------------------
(***************************************************************************)
(* Theorems about EventIngest, for every number of records, size of a      *)
(* batch, set of parsers and analyses, crashes and faults.                 *)
(***************************************************************************)
EXTENDS EventIngest, TLAPS, FiniteSetTheorems, WellFoundedInduction

\* What the invariant needs to know of the types.
JobTypes ==
  /\ pc \in Places
  /\ suited \in AllParsers /\ parser \in AllParsers
  /\ next \in 1..(NRecords + 1) /\ batch \subseteq Records /\ good \subseteq Records
  /\ stored \in [Records -> Nat] /\ inRun \in [Records -> Nat] /\ claimed \in Nat
  /\ crashes \in Nat

\* The places of a run that has begun.
Running == pc \notin {"choose", "queued", "elsewhere"}

\* Nothing is stored twice: what is in the batch is not yet in the table, but while
\* the cache is invalidated.
BatchIsNew ==
  /\ pc \in {"read", "insert", "flush"} => \A r \in batch : inRun[r] = 0
  /\ ~Running => inRun = Zero
  /\ \A r \in Records : inRun[r] <= 1 /\ stored[r] <= crashes + inRun[r]

\* The selected parser reads on: what it converted is in the table or in the batch.
OwnRun ==
  /\ batch \subseteq good
  /\ claimed = Cardinality(good \ batch)
  /\ parser = FileMetadata => good = {Meta} /\ next = NRecords + 1
  /\ parser # FileMetadata => good \subseteq 1..(next - 1)
  /\ pc \in {"read", "insert", "flush"} => \A r \in Records : inRun[r] = IF r \in good \ batch THEN 1 ELSE 0
  /\ pc = "invalidate" => \A r \in Records : inRun[r] = IF r \in good THEN 1 ELSE 0
  /\ pc = "done" => batch = {} /\ \A r \in Records : inRun[r] = IF r \in good THEN 1 ELSE 0

\* The catch-all has taken over: its one event is to be stored, or is.
FallbackRun ==
  /\ parser = FileMetadata /\ next = NRecords + 1
  /\ pc \in {"flush", "invalidate", "read", "done", "failed"}
  /\ pc \in {"flush", "invalidate"} => batch = {Meta} /\ claimed = 0
  /\ pc = "flush" => inRun[Meta] = 0
  /\ pc = "invalidate" => inRun[Meta] = 1
  /\ pc \in {"read", "done"} => batch = {} /\ inRun[Meta] = 1 /\ claimed = 1

Inv ==
  /\ JobTypes /\ BatchIsNew
  /\ Running => IF parser = suited THEN pc # "failed" => OwnRun ELSE FallbackRun

LEMMA SetsAreFinite ==
  /\ IsFiniteSet(Records) /\ Meta \in Records
  /\ \A S \in SUBSET Records : IsFiniteSet(S) /\ Cardinality(S) \in Nat
<1>1. IsFiniteSet(Records) /\ Meta \in Records
  BY IngestAssumption, FS_Interval DEF Records, Meta
<1> QED
  BY <1>1, FS_Subset, FS_CardinalityType

\* The catch-all is a parser of its own, which reads no records.
LEMMA TheCatchAll ==
  /\ FileMetadata \in AllParsers /\ ~FileMetadata.first
  BY DEF AllParsers, FileMetadata

LEMMA AddedUp ==
  ASSUME NEW f \in [Records -> Nat], NEW S
  PROVE  /\ Add(f, S) \in [Records -> Nat]
         /\ \A r \in Records : Add(f, S)[r] = f[r] + (IF r \in S THEN 1 ELSE 0)
  BY DEF Add

LEMMA LastRecordIsARecord ==
  ASSUME NEW p \in AllParsers
  PROVE  LastRecord(p) \in 0..NRecords
  BY IngestAssumption DEF LastRecord, AllParsers

LEMMA InitInv == Init => Inv
<1> SUFFICES ASSUME Init PROVE Inv
  OBVIOUS
<1>1. Zero \in [Records -> Nat] /\ \A r \in Records : Zero[r] = 0
  BY DEF Zero
<1>2. JobTypes
  BY <1>1, TheCatchAll, IngestAssumption DEF Init, JobTypes, Places, Ends
<1>3. BatchIsNew /\ ~Running
  BY <1>1 DEF Init, BatchIsNew, Running
<1> QED
  BY <1>2, <1>3 DEF Inv

\* The steps of requests for analyses leave the job alone.
LEMMA RequestsKeepInv ==
  ASSUME Inv, UNCHANGED <<job, stored, crashes>>
  PROVE  Inv'
  BY DEF Inv, job, JobTypes, BatchIsNew, Running, OwnRun, FallbackRun

-----------------------------------------------------------------------------
(* The steps of the job.                                                   *)

LEMMA IdentifyKeepsInv ==
  ASSUME Inv, Identify
  PROVE  Inv'
<1>1. suited' \in AllParsers /\ pc' \in Places
  BY ParsersAssumption DEF Identify, Inv, JobTypes, Places, Ends
<1> QED
  BY <1>1 DEF Identify, Inv, JobTypes, BatchIsNew, Running

LEMMA SelectKeepsInv ==
  ASSUME Inv, Select
  PROVE  Inv'
<1>1. Zero \in [Records -> Nat] /\ \A r \in Records : Zero[r] = 0
  BY DEF Zero
<1>2. inRun' = Zero /\ claimed' = 0 /\ parser' = suited' /\ good' = batch' /\ inRun = Zero
      /\ UNCHANGED <<stored, crashes, suited>>
  BY DEF Select, Inv, BatchIsNew, Running
<1>3. \/ suited = FileMetadata /\ pc' = "flush" /\ batch' = {Meta} /\ next' = NRecords + 1
      \/ suited # FileMetadata /\ NRecords > 0 /\ pc' = "flush" /\ batch' = {1} /\ next' = 2
      \/ suited # FileMetadata /\ pc' = "read" /\ batch' = {} /\ next' = 1
  BY DEF Select
<1>4. JobTypes'
  BY <1>1, <1>2, <1>3, SetsAreFinite, IngestAssumption DEF Inv, JobTypes, Places, Ends, Records
<1>5. BatchIsNew'
  BY <1>1, <1>2, <1>3, <1>4, SetsAreFinite DEF Inv, BatchIsNew, Running, JobTypes
<1>6. OwnRun'
  <2>1. good' \ batch' = {} /\ Cardinality({}) = 0
    BY <1>2, FS_EmptySet
  <2>2. parser' = FileMetadata => good' = {Meta} /\ next' = NRecords + 1
    BY <1>2, <1>3
  <2>3. parser' # FileMetadata => good' \subseteq 1..(next' - 1)
    BY <1>2, <1>3
  <2> QED
    BY <1>1, <1>2, <1>3, <2>1, <2>2, <2>3 DEF OwnRun
<1> QED
  BY <1>2, <1>4, <1>5, <1>6 DEF Inv

LEMMA ConvertKeepsInv ==
  ASSUME Inv, NEW fine, Convert(fine)
  PROVE  Inv'
<1> DEFINE new == IF fine THEN {next} ELSE {}
<1>1. /\ pc = "read" /\ next \in 1..NRecords /\ next' = next + 1
      /\ batch' = batch \cup new /\ good' = good \cup new
      /\ pc' \in {"read", "insert"}
      /\ UNCHANGED <<suited, parser, inRun, claimed, stored, crashes>>
  BY LastRecordIsARecord, IngestAssumption DEF Convert, Inv, JobTypes
<1>2. parser = suited /\ OwnRun /\ parser # FileMetadata
  BY <1>1, IngestAssumption DEF Inv, Running, OwnRun, FallbackRun
<1>3. new \subseteq Records /\ new \cap good = {} /\ new \subseteq 1..(next' - 1)
  BY <1>1, <1>2, IngestAssumption DEF OwnRun, Records
<1>4. JobTypes'
  BY <1>1, <1>3, IngestAssumption DEF Inv, JobTypes, Places, Ends
<1>5. good' \ batch' = good \ batch
  BY <1>1, <1>2, <1>3 DEF OwnRun
<1>6. good' \subseteq 1..(next' - 1)
  BY <1>1, <1>2, <1>3 DEF OwnRun
<1>7. OwnRun'
  BY <1>1, <1>2, <1>5, <1>6 DEF OwnRun
<1>8. \A r \in batch' : inRun'[r] = 0
  BY <1>1, <1>2, <1>3, <1>4, <1>5 DEF OwnRun, JobTypes
<1>9. BatchIsNew'
  BY <1>1, <1>8 DEF Inv, BatchIsNew, Running
<1> QED
  BY <1>1, <1>2, <1>4, <1>7, <1>9 DEF Inv

LEMMA EndOfFileKeepsInv ==
  ASSUME Inv, EndOfFile
  PROVE  Inv'
<1>1. /\ pc = "read" /\ pc' = IF batch = {} THEN "done" ELSE "flush"
      /\ UNCHANGED <<suited, parser, next, batch, good, inRun, claimed, stored, crashes>>
  BY DEF EndOfFile
<1>2. JobTypes' /\ BatchIsNew'
  BY <1>1 DEF Inv, JobTypes, BatchIsNew, Running, Places, Ends
<1>3. CASE parser = suited
  <2>1. OwnRun
    BY <1>1, <1>3 DEF Inv, Running
  <2>2. OwnRun'
    BY <1>1, <2>1 DEF OwnRun
  <2> QED
    BY <1>1, <1>2, <1>3, <2>2 DEF Inv
<1>4. CASE parser # suited
  <2>1. FallbackRun
    BY <1>1, <1>4 DEF Inv, Running
  <2>2. FallbackRun'
    BY <1>1, <2>1 DEF FallbackRun
  <2> QED
    BY <1>1, <1>2, <1>4, <2>2 DEF Inv
<1> QED
  BY <1>3, <1>4

LEMMA InsertKeepsInv ==
  ASSUME Inv, InsertEventBatch
  PROVE  Inv'
<1>1. /\ pc \in {"insert", "flush"} /\ pc' = "invalidate"
      /\ stored' = Add(stored, batch) /\ inRun' = Add(inRun, batch)
      /\ UNCHANGED <<suited, parser, next, batch, good, claimed, crashes>>
  BY DEF InsertEventBatch
<1>2. \A r \in Records : inRun'[r] = inRun[r] + (IF r \in batch THEN 1 ELSE 0)
  BY <1>1, AddedUp DEF Inv, JobTypes
<1>3. \A r \in Records : stored'[r] = stored[r] + (IF r \in batch THEN 1 ELSE 0)
  BY <1>1, AddedUp DEF Inv, JobTypes
<1>4. JobTypes'
  BY <1>1, AddedUp DEF Inv, JobTypes, Places, Ends
<1>5. BatchIsNew'
  <2>1. \A r \in Records : inRun'[r] <= 1
    BY <1>1, <1>2 DEF Inv, BatchIsNew, JobTypes
  <2>2. \A r \in Records : stored'[r] <= crashes' + inRun'[r]
    BY <1>1, <1>2, <1>3 DEF Inv, BatchIsNew, JobTypes
  <2> QED
    BY <1>1, <2>1, <2>2 DEF BatchIsNew, Running
<1>6. CASE parser = suited
  <2>1. OwnRun
    BY <1>1, <1>6 DEF Inv, Running
  <2>2. \A r \in Records : inRun'[r] = IF r \in good THEN 1 ELSE 0
    BY <1>1, <1>2, <2>1 DEF OwnRun
  <2> QED
    BY <1>1, <1>4, <1>5, <1>6, <2>1, <2>2 DEF Inv, OwnRun
<1>7. CASE parser # suited
  <2>1. FallbackRun
    BY <1>1, <1>7 DEF Inv, Running
  <2>2. inRun'[Meta] = 1
    BY <1>1, <1>2, <2>1, SetsAreFinite DEF FallbackRun
  <2>3. FallbackRun'
    BY <1>1, <2>1, <2>2 DEF FallbackRun
  <2> QED
    BY <1>1, <1>4, <1>5, <1>7, <2>3 DEF Inv
<1> QED
  BY <1>6, <1>7

\* The parser that was selected raises, and what it has read is left alone.
LEMMA FallbackKeepsInv ==
  ASSUME Inv, Fallback, pc \in {"read", "flush"},
         UNCHANGED <<suited, good, inRun, stored, crashes>>
  PROVE  Inv'
<1>1. CASE parser = FileMetadata
  <2>1. /\ claimed' = 0 /\ next' = NRecords + 1 /\ pc' = "failed" /\ batch' = {} /\ parser' = parser
    BY <1>1 DEF Fallback
  <2>2. JobTypes' /\ BatchIsNew'
    BY <2>1, IngestAssumption DEF Inv, JobTypes, BatchIsNew, Running, Places, Ends
  <2>3. parser # suited => FallbackRun'
    BY <1>1, <2>1 DEF FallbackRun
  <2> QED
    BY <2>1, <2>2, <2>3 DEF Inv
<1>2. CASE parser # FileMetadata
  <2>1. /\ claimed' = 0 /\ next' = NRecords + 1 /\ pc' = "flush" /\ batch' = {Meta} /\ parser' = FileMetadata
    BY <1>2 DEF Fallback
  <2>2. parser = suited /\ OwnRun
    BY <1>2 DEF Inv, Running, FallbackRun
  <2>3. inRun[Meta] = 0
    <3>1. Meta \notin good
      BY <1>2, <2>2 DEF OwnRun, Meta
    <3> QED
      BY <2>2, <3>1, SetsAreFinite DEF OwnRun
  <2>4. JobTypes'
    BY <2>1, SetsAreFinite, TheCatchAll, IngestAssumption DEF Inv, JobTypes, Places, Ends
  <2>5. BatchIsNew'
    BY <2>1, <2>3 DEF Inv, BatchIsNew, Running
  <2>6. FallbackRun' /\ parser' # suited'
    BY <1>2, <2>1, <2>2, <2>3 DEF FallbackRun
  <2> QED
    BY <2>4, <2>5, <2>6 DEF Inv
<1> QED
  BY <1>1, <1>2

LEMMA InsertFailsKeepsInv ==
  ASSUME Inv, InsertFails
  PROVE  Inv'
<1>1. CASE pc = "flush" /\ Fallback
  BY <1>1, FallbackKeepsInv DEF InsertFails
<1>2. CASE pc = "insert"
  <2>1. pc' = "read" /\ UNCHANGED <<suited, parser, next, batch, good, inRun, claimed, stored, crashes>>
    BY <1>2 DEF InsertFails
  <2>2. JobTypes' /\ BatchIsNew'
    BY <1>2, <2>1 DEF Inv, JobTypes, BatchIsNew, Running, Places, Ends
  <2>3. parser = suited /\ OwnRun
    BY <1>2 DEF Inv, Running, FallbackRun
  <2> QED
    BY <1>2, <2>1, <2>2, <2>3 DEF Inv, OwnRun
<1> QED
  BY <1>1, <1>2 DEF InsertFails

LEMMA ReadFailsKeepsInv ==
  ASSUME Inv, ReadFails
  PROVE  Inv'
<1>1. CASE parser.raises
  BY <1>1, FallbackKeepsInv DEF ReadFails
<1>2. CASE ~parser.raises
  <2>1. pc = "read" /\ next' = NRecords + 1
        /\ UNCHANGED <<pc, suited, parser, batch, good, inRun, claimed, stored, crashes>>
    BY <1>2 DEF ReadFails
  <2>2. JobTypes' /\ BatchIsNew'
    BY <2>1, IngestAssumption DEF Inv, JobTypes, BatchIsNew, Running
  <2>3. CASE parser = suited
    <3>1. OwnRun
      BY <2>1, <2>3 DEF Inv, Running
    <3>2. parser # FileMetadata => good' \subseteq 1..(next' - 1)
      BY <2>1, <3>1, IngestAssumption DEF OwnRun, Inv, JobTypes
    <3> QED
      BY <2>1, <2>2, <2>3, <3>1, <3>2 DEF Inv, OwnRun
  <2>4. CASE parser # suited
    BY <2>1, <2>2, <2>4 DEF Inv, Running, FallbackRun
  <2> QED
    BY <2>3, <2>4
<1> QED
  BY <1>1, <1>2

LEMMA InvalidateKeepsInv ==
  ASSUME Inv, NEW ok, InvalidateCache(ok)
  PROVE  Inv'
<1>1. /\ pc = "invalidate" /\ pc' = "read"
      /\ claimed' = claimed + Cardinality(batch) /\ batch' = {}
      /\ UNCHANGED <<suited, parser, next, good, inRun, stored, crashes>>
  BY DEF InvalidateCache
<1>2. JobTypes' /\ BatchIsNew'
  BY <1>1, SetsAreFinite DEF Inv, JobTypes, BatchIsNew, Running, Places, Ends
<1>3. CASE parser = suited
  <2>1. OwnRun
    BY <1>1, <1>3 DEF Inv, Running
  <2>2. claimed' = Cardinality(good' \ batch')
    <3>1. IsFiniteSet(good) /\ good \cap batch = batch /\ good' \ batch' = good
      BY <1>1, <2>1, SetsAreFinite DEF Inv, JobTypes, OwnRun
    <3>2. Cardinality(good \ batch) = Cardinality(good) - Cardinality(batch)
      BY <3>1, FS_Difference
    <3>3. Cardinality(good) \in Nat /\ Cardinality(batch) \in Nat
      BY SetsAreFinite DEF Inv, JobTypes
    <3> QED
      BY <1>1, <2>1, <3>1, <3>2, <3>3 DEF OwnRun
  <2>3. \A r \in Records : inRun'[r] = IF r \in good' \ batch' THEN 1 ELSE 0
    BY <1>1, <2>1 DEF OwnRun
  <2> QED
    BY <1>1, <1>2, <1>3, <2>1, <2>2, <2>3 DEF Inv, OwnRun
<1>4. CASE parser # suited
  <2>1. FallbackRun
    BY <1>1, <1>4 DEF Inv, Running
  <2>2. claimed' = 1
    <3>1. batch = {Meta} /\ claimed = 0
      BY <1>1, <2>1 DEF FallbackRun
    <3>2. Cardinality({Meta}) = 1
      BY FS_Singleton
    <3> QED
      BY <1>1, <3>1, <3>2
  <2>3. FallbackRun'
    BY <1>1, <2>1, <2>2 DEF FallbackRun
  <2> QED
    BY <1>1, <1>2, <1>4, <2>3 DEF Inv
<1> QED
  BY <1>3, <1>4

LEMMA RunAgainKeepsInv ==
  ASSUME Inv, RunAgain
  PROVE  Inv'
<1>1. Zero \in [Records -> Nat] /\ \A r \in Records : Zero[r] = 0
  BY DEF Zero
<1>2. /\ crashes' = crashes + 1 /\ pc' = "queued"
      /\ batch' = {} /\ next' = 1 /\ claimed' = 0 /\ good' = {} /\ inRun' = Zero
      /\ UNCHANGED <<suited, parser, stored>>
  BY DEF RunAgain
<1>3. JobTypes'
  BY <1>1, <1>2, IngestAssumption DEF Inv, JobTypes, Places, Ends
<1>4. \A r \in Records : stored'[r] <= crashes' + inRun'[r]
  BY <1>1, <1>2 DEF Inv, JobTypes, BatchIsNew
<1>5. BatchIsNew'
  BY <1>1, <1>2, <1>4 DEF BatchIsNew, Running
<1> QED
  BY <1>2, <1>3, <1>5 DEF Inv, Running

LEMMA NextKeepsInv == Inv /\ [Next]_vars => Inv'
<1> SUFFICES ASSUME Inv, [Next]_vars PROVE Inv'
  OBVIOUS
<1>1. CASE Parse
  BY <1>1, ConvertKeepsInv, IdentifyKeepsInv, SelectKeepsInv, EndOfFileKeepsInv, InsertKeepsInv,
     InsertFailsKeepsInv, ReadFailsKeepsInv, InvalidateKeepsInv DEF Parse
<1>2. CASE RunAgain
  BY <1>2, RunAgainKeepsInv
<1>3. CASE ClearCache
  BY <1>3, RequestsKeepInv DEF ClearCache
<1>4. CASE \E a \in Requests : Analyse(a)
  <2>1. PICK a \in Requests : Analyse(a)
    BY <1>4
  <2>2. UNCHANGED <<job, stored, crashes>>
    BY <2>1 DEF Analyse, CompareCount, CountForCache, QueryCategory, QueryFails, CacheResults
  <2> QED
    BY <2>2, RequestsKeepInv
<1>5. CASE \E a \in Requests : \E m \in Analyses : Ask(a, m)
  BY <1>5, RequestsKeepInv DEF Ask
<1>6. CASE UNCHANGED vars
  BY <1>6, RequestsKeepInv DEF vars
<1> QED
  BY <1>1, <1>2, <1>3, <1>4, <1>5, <1>6 DEF Next

LEMMA InvHolds == Spec => []Inv
  BY InitInv, NextKeepsInv, PTL DEF Spec

-----------------------------------------------------------------------------
\* A run stores an event at most once, and only the runs after a crash repeat what an
\* earlier one had committed, whatever the sizes of the batches and wherever an insert
\* fails.
THEOREM StoredOncePerRun == Spec => []OncePerRun
<1>1. Inv => OncePerRun
  <2> SUFFICES ASSUME Inv, NEW r \in Records PROVE inRun[r] <= 1 /\ stored[r] <= crashes + 1
    BY DEF OncePerRun
  <2>1. inRun[r] \in Nat /\ stored[r] \in Nat /\ crashes \in Nat
    BY DEF Inv, JobTypes
  <2>2. inRun[r] <= 1 /\ stored[r] <= crashes + inRun[r]
    BY DEF Inv, BatchIsNew
  <2> QED
    BY <2>1, <2>2
<1> QED
  BY <1>1, InvHolds, PTL

\* A job that ends has stored every record its parser converted and says so, or the
\* one event of the catch-all.
THEOREM JobsDropNothing == Spec => []NothingDropped
<1>1. Inv => NothingDropped
  <2> SUFFICES ASSUME Inv, pc = "done"
               PROVE  IF parser = suited
                      THEN inRun = Add(Zero, good) /\ claimed = Cardinality(good)
                      ELSE inRun[Meta] = 1 /\ claimed = 1
    BY DEF NothingDropped
  <2>1. CASE parser = suited
    <3>1. OwnRun
      BY <2>1 DEF Inv, Running
    <3>2. inRun = Add(Zero, good)
      <4>1. Add(Zero, good) \in [Records -> Nat]
            /\ \A r \in Records : Add(Zero, good)[r] = IF r \in good THEN 1 ELSE 0
        BY DEF Add, Zero
      <4> QED
        BY <3>1, <4>1 DEF OwnRun, Inv, JobTypes
    <3>3. good \ batch = good
      BY <3>1 DEF OwnRun
    <3> QED
      BY <2>1, <3>1, <3>2, <3>3 DEF OwnRun
  <2>2. CASE parser # suited
    BY <2>2 DEF Inv, Running, FallbackRun
  <2> QED
    BY <2>1, <2>2
<1> QED
  BY <1>1, InvHolds, PTL

-----------------------------------------------------------------------------
(* The number of rows. FoldFunction takes one record after the other out   *)
(* of the set, in whatever order CHOOSE gives them.                        *)

\* Induction over the natural numbers, for a set of them.
LEMMA Counting ==
  ASSUME NEW Q, 0 \in Q, \A n \in Nat : n \in Q => n + 1 \in Q
  PROVE  \A n \in Nat : n \in Q
<1> DEFINE T == Nat \ Q
<1> SUFFICES ASSUME T # {} PROVE FALSE
  OBVIOUS
<1>1. T \subseteq Nat
  OBVIOUS
<1>2. PICK x \in T : \A y \in T : ~ (<<y, x>> \in OpToRel(<, Nat))
  BY <1>1, WFMin, NatLessThanWellFounded
<1>3. x \in Nat /\ x # 0 /\ x - 1 \in Nat
  OBVIOUS
<1>4. x - 1 \notin Q
  BY <1>3
<1>5. <<x - 1, x>> \in OpToRel(<, Nat)
  BY <1>3 DEF OpToRel
<1> QED
  BY <1>2, <1>3, <1>4, <1>5

Sum(f) == FoldFunction(LAMBDA x, y : x + y, 0, f)
FirstOf(s) == CHOOSE x \in s : TRUE
Plus(f, g, s) == IF s = {} THEN 0 ELSE f[FirstOf(s)] + g[s \ {FirstOf(s)}]
Adder(f) == CHOOSE g : g = [s \in SUBSET Records |-> Plus(f, g, s)]

LEMMA SumIsAdder ==
  ASSUME NEW f \in [Records -> Nat]
  PROVE  Sum(f) = Adder(f)[Records]
<1>1. DOMAIN f = Records
  OBVIOUS
<1> QED
  BY <1>1 DEF Sum, FoldFunction, FoldFunctionOnSet, MapThenFoldSet, Adder, Plus, FirstOf

\* One record taken out of a set of them.
LEMMA WithoutFirst ==
  ASSUME NEW s \in SUBSET Records, s # {}
  PROVE  /\ FirstOf(s) \in s /\ FirstOf(s) \in Records
         /\ s \ {FirstOf(s)} \in SUBSET Records
         /\ Cardinality(s) \in Nat /\ Cardinality(s) # 0
         /\ Cardinality(s \ {FirstOf(s)}) = Cardinality(s) - 1
<1>1. FirstOf(s) \in s
  BY DEF FirstOf
<1>2. IsFiniteSet(s) /\ Cardinality(s) \in Nat
  BY SetsAreFinite
<1> QED
  BY <1>1, <1>2, FS_RemoveElement, FS_EmptySet

LEMMA OnlyEmptyIsSmall ==
  ASSUME NEW s \in SUBSET Records
  PROVE  Cardinality(s) \in Nat /\ (Cardinality(s) <= 0 => s = {})
<1>1. IsFiniteSet(s) /\ Cardinality(s) \in Nat
  BY SetsAreFinite
<1> QED
  BY <1>1, FS_EmptySet

\* A function that adds up as the fold does, for sets of n records at most.
AddsUpTo(f, g, n) == \A s \in SUBSET Records : Cardinality(s) <= n => g[s] = Plus(f, g, s)

LEMMA AddersExist ==
  ASSUME NEW f \in [Records -> Nat]
  PROVE  \A n \in Nat : \E g \in [SUBSET Records -> Nat] : AddsUpTo(f, g, n)
<1> DEFINE Q == {n \in Nat : \E g \in [SUBSET Records -> Nat] : AddsUpTo(f, g, n)}
<1>1. 0 \in Q
  <2> DEFINE g == [s \in SUBSET Records |-> 0]
  <2>1. ASSUME NEW s \in SUBSET Records, Cardinality(s) <= 0
        PROVE  g[s] = Plus(f, g, s)
    <3>1. s = {}
      BY <2>1, OnlyEmptyIsSmall
    <3> QED
      BY <3>1 DEF Plus
  <2> QED
    BY <2>1 DEF AddsUpTo
<1>2. ASSUME NEW n \in Nat, n \in Q
      PROVE  n + 1 \in Q
  <2>1. PICK g \in [SUBSET Records -> Nat] : AddsUpTo(f, g, n)
    BY <1>2
  <2> DEFINE h == [s \in SUBSET Records |-> IF Cardinality(s) <= n THEN g[s] ELSE Plus(f, g, s)]
  <2>2. ASSUME NEW s \in SUBSET Records
        PROVE  Plus(f, g, s) \in Nat
    <3>1. s # {} => f[FirstOf(s)] \in Nat /\ g[s \ {FirstOf(s)}] \in Nat
      BY WithoutFirst
    <3> QED
      BY <3>1 DEF Plus
  <2>3. h \in [SUBSET Records -> Nat]
    BY <2>2
  <2>4. ASSUME NEW s \in SUBSET Records, Cardinality(s) <= n + 1
        PROVE  h[s] = Plus(f, h, s)
    <3>1. h[s] = Plus(f, g, s)
      <4>1. Cardinality(s) <= n => g[s] = Plus(f, g, s)
        BY <2>1 DEF AddsUpTo
      <4> QED
        BY <4>1
    <3>2. ASSUME s # {}
          PROVE  h[s \ {FirstOf(s)}] = g[s \ {FirstOf(s)}]
      <4>1. s \ {FirstOf(s)} \in SUBSET Records /\ Cardinality(s \ {FirstOf(s)}) <= n
        BY <2>4, <3>2, WithoutFirst
      <4> QED
        BY <4>1
    <3> QED
      BY <3>1, <3>2 DEF Plus
  <2>5. AddsUpTo(f, h, n + 1)
    BY <2>4 DEF AddsUpTo
  <2> HIDE DEF h
  <2> QED
    BY <2>3, <2>5
<1> HIDE DEF Q
<1>3. \A n \in Nat : n \in Q
  BY <1>1, <1>2, Counting
<1> QED
  BY <1>3 DEF Q

LEMMA AdderAdds ==
  ASSUME NEW f \in [Records -> Nat]
  PROVE  /\ Adder(f) \in [SUBSET Records -> Nat]
         /\ \A s \in SUBSET Records : Adder(f)[s] = Plus(f, Adder(f), s)
<1>1. Cardinality(Records) \in Nat
  BY SetsAreFinite
<1>2. PICK g \in [SUBSET Records -> Nat] : AddsUpTo(f, g, Cardinality(Records))
  BY <1>1, AddersExist
<1>3. \A s \in SUBSET Records : Cardinality(s) <= Cardinality(Records)
  BY SetsAreFinite, FS_Subset
<1>4. g = [s \in SUBSET Records |-> Plus(f, g, s)]
  BY <1>2, <1>3 DEF AddsUpTo
<1> DEFINE A == Adder(f)
<1>5. A = [s \in SUBSET Records |-> Plus(f, A, s)]
  BY <1>4 DEF Adder
<1> HIDE DEF A
<1>6. A \in [SUBSET Records -> Nat]
  <2> DEFINE Q == {n \in Nat : \A s \in SUBSET Records : Cardinality(s) <= n => A[s] \in Nat}
  <2>1. 0 \in Q
    <3>1. A[{}] = 0
      BY <1>5 DEF Plus
    <3> SUFFICES ASSUME NEW s \in SUBSET Records, Cardinality(s) <= 0
                 PROVE  A[s] \in Nat
      OBVIOUS
    <3>2. s = {}
      BY OnlyEmptyIsSmall
    <3> QED
      BY <3>1, <3>2
  <2>2. ASSUME NEW n \in Nat, n \in Q
        PROVE  n + 1 \in Q
    <3> SUFFICES ASSUME NEW s \in SUBSET Records, Cardinality(s) <= n + 1
                 PROVE  A[s] \in Nat
      OBVIOUS
    <3>1. CASE s = {}
      BY <1>5, <3>1 DEF Plus
    <3>2. CASE s # {}
      <4>1. A[s \ {FirstOf(s)}] \in Nat
        BY <2>2, <3>2, WithoutFirst
      <4>2. f[FirstOf(s)] \in Nat
        BY <3>2, WithoutFirst
      <4>3. A[s] = f[FirstOf(s)] + A[s \ {FirstOf(s)}]
        BY <1>5, <3>2 DEF Plus
      <4> QED
        BY <4>1, <4>2, <4>3
    <3> QED
      BY <3>1, <3>2
  <2> HIDE DEF Q
  <2>3. \A n \in Nat : n \in Q
    BY <2>1, <2>2, Counting
  <2>4. Cardinality(Records) \in Q
    BY <1>1, <2>3
  <2>5. \A s \in SUBSET Records : A[s] \in Nat
    BY <1>3, <2>4 DEF Q
  <2>6. DOMAIN A = SUBSET Records /\ A = [s \in DOMAIN A |-> A[s]]
    BY <1>5
  <2> QED
    BY <2>5, <2>6
<1> QED
  BY <1>5, <1>6 DEF A

\* More rows of some record and fewer of none are more rows.
LEMMA SumGrows ==
  ASSUME NEW f \in [Records -> Nat], NEW g \in [Records -> Nat],
         \A r \in Records : f[r] <= g[r]
  PROVE  /\ Sum(f) \in Nat /\ Sum(g) \in Nat /\ Sum(f) <= Sum(g)
         /\ Sum(f) = Sum(g) => f = g
<1> DEFINE A == Adder(f)
           B == Adder(g)
           Grows(s) == /\ A[s] <= B[s]
                       /\ (\E r \in s : f[r] < g[r]) => A[s] < B[s]
           Q == {n \in Nat : \A s \in SUBSET Records : Cardinality(s) <= n => Grows(s)}
<1>1. /\ A \in [SUBSET Records -> Nat] /\ B \in [SUBSET Records -> Nat]
      /\ \A s \in SUBSET Records : A[s] = Plus(f, A, s) /\ B[s] = Plus(g, B, s)
  BY AdderAdds
<1> HIDE DEF A, B
<1>2. A[{}] = 0 /\ B[{}] = 0
  BY <1>1 DEF Plus
<1>3. 0 \in Q
  <2> SUFFICES ASSUME NEW s \in SUBSET Records, Cardinality(s) <= 0
               PROVE  Grows(s)
    OBVIOUS
  <2>1. s = {}
    BY OnlyEmptyIsSmall
  <2> QED
    BY <1>2, <2>1
<1>4. ASSUME NEW n \in Nat, n \in Q
      PROVE  n + 1 \in Q
  <2> SUFFICES ASSUME NEW s \in SUBSET Records, Cardinality(s) <= n + 1
               PROVE  Grows(s)
    OBVIOUS
  <2>1. CASE s = {}
    BY <1>2, <2>1
  <2>2. CASE s # {}
    <3> DEFINE x == FirstOf(s)
               t == s \ {x}
    <3>1. x \in s /\ x \in Records /\ t \in SUBSET Records /\ Cardinality(t) <= n
      BY <2>2, WithoutFirst
    <3>2. Grows(t)
      BY <1>4, <3>1
    <3>3. A[s] = f[x] + A[t] /\ B[s] = g[x] + B[t]
      BY <1>1, <2>2 DEF Plus
    <3>4. f[x] \in Nat /\ g[x] \in Nat /\ A[t] \in Nat /\ B[t] \in Nat /\ f[x] <= g[x]
      BY <1>1, <3>1
    <3>5. (\E r \in s : f[r] < g[r]) => f[x] < g[x] \/ \E r \in t : f[r] < g[r]
      OBVIOUS
    <3> QED
      BY <3>2, <3>3, <3>4, <3>5
  <2> QED
    BY <2>1, <2>2
<1> HIDE DEF Q
<1>5. \A n \in Nat : n \in Q
  BY <1>3, <1>4, Counting
<1>6. Cardinality(Records) \in Nat /\ Records \in SUBSET Records
  BY SetsAreFinite
<1>7. Grows(Records)
  BY <1>5, <1>6 DEF Q
<1>8. Sum(f) = A[Records] /\ Sum(g) = B[Records]
  BY SumIsAdder DEF A, B
<1>9. A[Records] \in Nat /\ B[Records] \in Nat
  BY <1>1, <1>6
<1>10. Sum(f) = Sum(g) => \A r \in Records : f[r] = g[r]
  BY <1>7, <1>8, <1>9
<1> QED
  BY <1>7, <1>8, <1>9, <1>10

-----------------------------------------------------------------------------
(* The cached analyses. What is stored with a count is what the events were *)
(* when there were so many of them, and events only come.                   *)

LEMMA TotalIsSum == Total = Sum(stored) /\ Total' = Sum(stored')
<1>1. Total = Sum(stored)
  BY DEF Total, Sum
<1>2. Total' = Sum(stored')
  BY DEF Total, Sum, FoldFunction, FoldFunctionOnSet, MapThenFoldSet
<1> QED
  BY <1>1, <1>2

LEMMA ZeroIsTyped == Zero \in [Records -> Nat] /\ NoRow \in Row /\ ~NoRow.clean
<1>1. Zero \in [Records -> Nat]
  BY DEF Zero
<1> QED
  BY <1>1 DEF NoRow, Row

CacheRequest ==
  [at: {"count", "query", "store"}, module: Analyses, row: Row, left: SUBSET Cats,
   found: [Records -> Nat], base: Nat, ok: BOOLEAN]

CacheTypes ==
  /\ file \in Files \cup {NoFile}
  /\ suited \in Parsers \cup {FileMetadata} /\ parser \in Parsers \cup {FileMetadata}
  /\ cache \in [Analyses -> Row]
  /\ DOMAIN req = Requests
  /\ \A a \in Requests : req[a] = NoRequest \/ req[a] \in CacheRequest

\* A result that no failing query and no commit has come between shows the events of
\* the moment as long as their number is its count.
Fresh(row, m) == row.clean => row.count <= Total /\ (row.count = Total => row.found = Found(m))

\* So does what a request has found up to now, of the types it has asked for.
FoundSoFar(q) == [r \in Records |-> IF CatOf[r] \in q.module.cats \ q.left THEN stored[r] ELSE 0]
InStep(q) ==
  /\ q.left \subseteq q.module.cats
  /\ q.base <= Total
  /\ q.ok /\ q.base = Total => q.found = FoundSoFar(q)

\* A request that looks at a stored result has not begun to compute one.
NotBegun(q) == q.left = q.module.cats /\ q.found = Zero

CacheInv ==
  /\ \A m \in Analyses : Fresh(cache[m], m)
  /\ \A a \in Requests : req[a] # NoRequest =>
       /\ Fresh(req[a].row, req[a].module)
       /\ req[a].at = "count" => NotBegun(req[a])
       /\ req[a].at = "query" => InStep(req[a])

Cached == Inv /\ CacheTypes /\ CacheInv

\* The count tells whether there are other events.
CountTells == Total' = Total => stored' = stored

LEMMA InitCached == Init => Cached
<1> SUFFICES ASSUME Init PROVE Cached
  OBVIOUS
<1>1. Inv
  BY InitInv
<1>2. cache \in [Analyses -> Row] /\ \A m \in Analyses : cache[m] = NoRow
  BY ZeroIsTyped DEF Init
<1>3. DOMAIN req = Requests /\ \A a \in Requests : req[a] = NoRequest
  BY DEF Init
<1>4. CacheTypes
  BY <1>2, <1>3 DEF Init, CacheTypes
<1>5. CacheInv
  BY <1>2, <1>3, ZeroIsTyped DEF CacheInv, Fresh
<1> QED
  BY <1>1, <1>4, <1>5 DEF Cached

\* Rows are only added.
LEMMA EventsOnlyCome ==
  ASSUME Inv, [Next]_vars
  PROVE  /\ Total \in Nat /\ Total' \in Nat /\ Total <= Total'
         /\ Total = Total' => stored' = stored
<1>1. stored \in [Records -> Nat]
  BY DEF Inv, JobTypes
<1>2. stored' = stored \/ \E S : stored' = Add(stored, S)
  BY DEF Next, Parse, Convert, Identify, Select, EndOfFile, InsertEventBatch, InsertFails, ReadFails, InvalidateCache,
     RunAgain, ClearCache, Analyse, CompareCount, CountForCache, QueryCategory, QueryFails, CacheResults, Ask, vars, job
<1>3. stored' \in [Records -> Nat] /\ \A r \in Records : stored[r] <= stored'[r]
  BY <1>1, <1>2, AddedUp
<1>4. Total = Sum(stored) /\ Total' = Sum(stored')
  BY TotalIsSum
<1> QED
  BY <1>1, <1>3, <1>4, SumGrows

\* Whatever a step does to the events, a result that was fresh stays so.
LEMMA StaysFresh ==
  ASSUME Inv, [Next]_vars, NEW row \in Row, NEW m, Fresh(row, m)
  PROVE  Fresh(row, m)'
<1>1. /\ Total \in Nat /\ Total' \in Nat /\ Total <= Total' /\ row.count \in Nat
      /\ Total = Total' => stored' = stored
  BY EventsOnlyCome DEF Row
<1>2. Found(m)' = Found(m) \/ Total < Total'
  BY <1>1 DEF Found
<1> QED
  BY <1>1, <1>2 DEF Fresh

LEMMA StaysInStep ==
  ASSUME Inv, [Next]_vars, NEW q \in CacheRequest, InStep(q)
  PROVE  InStep(q)'
<1>1. /\ Total \in Nat /\ Total' \in Nat /\ Total <= Total' /\ q.base \in Nat
      /\ Total = Total' => stored' = stored
  BY EventsOnlyCome DEF CacheRequest
<1>2. FoundSoFar(q)' = FoundSoFar(q) \/ Total < Total'
  BY <1>1 DEF FoundSoFar
<1> QED
  BY <1>1, <1>2 DEF InStep

\* What becomes of one request, and of no other.
LEMMA OneRequestSteps ==
  ASSUME Cached, [Next]_vars, UNCHANGED <<file, suited, parser, cache>>, NEW a \in Requests, NEW q,
         req' = [req EXCEPT ![a] = q],
         \/ q = NoRequest
         \/ /\ q \in CacheRequest /\ Fresh(q.row, q.module)'
            /\ (q.at = "count" => NotBegun(q)) /\ (q.at = "query" => InStep(q)')
  PROVE  CacheTypes' /\ CacheInv'
<1>1. \A b \in Requests : req'[b] = IF b = a THEN q ELSE req[b]
  BY DEF Cached, CacheTypes
<1>2. CacheTypes'
  BY <1>1 DEF Cached, CacheTypes
<1>3. \A m \in Analyses : Fresh(cache[m], m)'
  BY StaysFresh DEF Cached, CacheTypes, CacheInv
<1>4. ASSUME NEW b \in Requests, req'[b] # NoRequest
      PROVE  /\ Fresh(req[b].row, req[b].module)'
             /\ req'[b].at = "count" => NotBegun(req'[b])
             /\ req'[b].at = "query" => InStep(req[b])'
  <2>1. CASE b = a
    BY <1>1, <1>4, <2>1
  <2>2. CASE b # a
    <3>1. PICK p \in CacheRequest : p = req[b] /\ p = req'[b] /\ p.row \in Row
      BY <1>1, <1>4, <2>2 DEF Cached, CacheTypes, CacheRequest
    <3>2. Fresh(p.row, p.module) /\ (p.at = "count" => NotBegun(p)) /\ (p.at = "query" => InStep(p))
      BY <1>4, <3>1 DEF Cached, CacheInv
    <3>3. Fresh(p.row, p.module)'
      BY <3>1, <3>2, StaysFresh DEF Cached
    <3>4. p.at = "query" => InStep(p)'
      BY <3>1, <3>2, StaysInStep DEF Cached
    <3> QED
      BY <3>1, <3>2, <3>3, <3>4 DEF Fresh, InStep, Found, FoundSoFar
  <2> QED
    BY <2>1, <2>2
<1> QED
  BY <1>2, <1>3, <1>4 DEF CacheInv, NotBegun

\* The steps of the job: the results stay, or are deleted.
LEMMA JobKeepsCached ==
  ASSUME Cached, [Next]_vars, UNCHANGED req, cache' = cache \/ cache' = [m \in Analyses |-> NoRow],
         file' \in Files \cup {NoFile},
         suited' \in Parsers \cup {FileMetadata}, parser' \in Parsers \cup {FileMetadata}
  PROVE  CacheTypes' /\ CacheInv'
<1>1. CacheTypes'
  BY ZeroIsTyped DEF Cached, CacheTypes
<1>2. ASSUME NEW m \in Analyses
      PROVE  Fresh(cache[m], m)'
  <2>1. PICK row \in Row : row = cache'[m] /\ (row = cache[m] \/ row = NoRow)
    BY ZeroIsTyped DEF Cached, CacheTypes
  <2>2. Fresh(row, m)
    BY <2>1, ZeroIsTyped DEF Cached, CacheInv, Fresh
  <2>3. Fresh(row, m)'
    BY <2>2, StaysFresh DEF Cached
  <2> QED
    BY <2>1, <2>3 DEF Fresh, Found
<1>3. ASSUME NEW a \in Requests, req[a] # NoRequest
      PROVE  /\ Fresh(req[a].row, req[a].module)' /\ (req[a].at = "count" => NotBegun(req[a]))
             /\ req[a].at = "query" => InStep(req[a])'
  <2>1. PICK p \in CacheRequest : p = req[a] /\ p = req'[a] /\ p.row \in Row
    BY <1>3 DEF Cached, CacheTypes, CacheRequest
  <2>2. Fresh(p.row, p.module) /\ (p.at = "count" => NotBegun(p)) /\ (p.at = "query" => InStep(p))
    BY <1>3, <2>1 DEF Cached, CacheInv
  <2>3. Fresh(p.row, p.module)'
    BY <2>1, <2>2, StaysFresh DEF Cached
  <2>4. p.at = "query" => InStep(p)'
    BY <2>1, <2>2, StaysInStep DEF Cached
  <2> QED
    BY <2>1, <2>2, <2>3, <2>4 DEF Fresh, InStep, Found, FoundSoFar
<1> QED
  BY <1>1, <1>2, <1>3 DEF CacheInv, NotBegun

LEMMA ParseKeepsCached ==
  ASSUME Cached, Next, Parse
  PROVE  CacheTypes' /\ CacheInv'
<1>1. UNCHANGED req /\ (cache' = cache \/ cache' = [m \in Analyses |-> NoRow])
  BY DEF Parse, Convert, Identify, Select, EndOfFile, InsertEventBatch, InsertFails, ReadFails, InvalidateCache
<1>2. file' \in Files \cup {NoFile}
  BY DEF Parse, Convert, Identify, Select, EndOfFile, InsertEventBatch, InsertFails, ReadFails, InvalidateCache,
     Cached, CacheTypes
<1>3. suited' \in Parsers \cup {FileMetadata}
  BY DEF Parse, Convert, Identify, Select, EndOfFile, InsertEventBatch, InsertFails, ReadFails, InvalidateCache,
     Cached, CacheTypes
<1>4. parser' \in Parsers \cup {FileMetadata}
  BY DEF Parse, Convert, Identify, Select, EndOfFile, InsertEventBatch, InsertFails, ReadFails, InvalidateCache,
     Fallback, Cached, CacheTypes
<1> QED
  BY <1>1, <1>2, <1>3, <1>4, JobKeepsCached

\* What a step needs to know of the request it is about.
LEMMA RequestIsTyped ==
  ASSUME Cached, NEW a \in Requests, req[a].at \in {"count", "query", "store"}
  PROVE  /\ req[a] \in CacheRequest /\ req[a].row \in Row /\ req[a].module \in Analyses
         /\ Fresh(req[a].row, req[a].module)
         /\ req[a].at = "count" => NotBegun(req[a])
         /\ req[a].at = "query" => InStep(req[a])
         /\ Total \in Nat /\ stored \in [Records -> Nat]
<1>1. req[a] # NoRequest
  BY DEF NoRequest
<1>2. Total \in Nat /\ stored \in [Records -> Nat]
  BY SumGrows, TotalIsSum DEF Cached, Inv, JobTypes
<1> QED
  BY <1>1, <1>2 DEF Cached, CacheTypes, CacheInv, CacheRequest

\* A result is computed from what there is at the start.
LEMMA StartsInStep ==
  ASSUME NEW q, q.left = q.module.cats, q.base = Total, q.found = Zero, Total \in Nat
  PROVE  InStep(q)
<1>1. FoundSoFar(q) = Zero
  BY DEF FoundSoFar, Zero
<1> QED
  BY <1>1 DEF InStep

LEMMA AskKeepsCached ==
  ASSUME Cached, Next, NEW a \in Requests, NEW m \in Analyses, Ask(a, m)
  PROVE  CacheTypes' /\ CacheInv'
<1> PICK q : q = [at |-> IF cache[m].there THEN "count" ELSE "query", module |-> m, row |-> cache[m],
                  left |-> m.cats, found |-> Zero, base |-> Total, ok |-> TRUE]
  OBVIOUS
<1>1. req' = [req EXCEPT ![a] = q] /\ UNCHANGED <<file, suited, parser, cache, stored>>
  BY DEF Ask, job
<1>2. Total \in Nat /\ Total' = Total
  BY <1>1, SumGrows, TotalIsSum DEF Cached, Inv, JobTypes
<1>3. m.cats \subseteq Cats
  BY AnalysesAssumption DEF Autoruns, ExecutionEvidence, UserActivity, Logons, BrowsedUrls
<1>4. q \in CacheRequest
  BY <1>2, <1>3, ZeroIsTyped DEF CacheRequest, Cached, CacheTypes
<1>5. cache[m] \in Row /\ Fresh(cache[m], m)
  BY DEF Cached, CacheTypes, CacheInv
<1>6. Fresh(q.row, q.module)
  BY <1>5
<1>7. InStep(q)
  BY <1>2, StartsInStep
<1>8. NotBegun(q)
  BY DEF NotBegun
<1>9. Fresh(q.row, q.module)' /\ InStep(q)'
  BY <1>1, <1>2, <1>6, <1>7 DEF Fresh, InStep, Found, FoundSoFar
<1> QED
  BY <1>1, <1>4, <1>8, <1>9, OneRequestSteps

\* A result that is not served is computed anew.
LEMMA CompareKeepsCached ==
  ASSUME Cached, Next, NEW a \in Requests, CompareCount(a)
  PROVE  CacheTypes' /\ CacheInv'
<1> PICK q : q = [req[a] EXCEPT !.at = "query", !.row = NoRow, !.base = Total]
  OBVIOUS
<1>1. /\ req[a].at = "count" /\ UNCHANGED <<file, suited, parser, cache, stored>>
      /\ req' = [req EXCEPT ![a] = NoRequest] \/ req' = [req EXCEPT ![a] = q]
  BY DEF CompareCount, job
<1>2. req[a] \in CacheRequest /\ Total \in Nat /\ Total' = Total /\ NotBegun(req[a])
  BY <1>1, RequestIsTyped, TotalIsSum
<1>3. q \in CacheRequest /\ q.at = "query" /\ q.row = NoRow
      /\ q.left = q.module.cats /\ q.base = Total /\ q.found = Zero
  BY <1>2, ZeroIsTyped DEF CacheRequest, NotBegun
<1>4. InStep(q)'
  <2>1. InStep(q)
    BY <1>2, <1>3, StartsInStep
  <2> QED
    BY <1>1, <1>2, <2>1 DEF InStep, FoundSoFar
<1>5. Fresh(q.row, q.module)'
  BY <1>3, ZeroIsTyped DEF Fresh
<1>6. CASE req' = [req EXCEPT ![a] = NoRequest]
  BY <1>1, <1>6, OneRequestSteps
<1>7. CASE req' = [req EXCEPT ![a] = q]
  BY <1>1, <1>3, <1>4, <1>5, <1>7, OneRequestSteps
<1> QED
  BY <1>1, <1>6, <1>7

\* A query adds the events of its type to what is found.
LEMMA QueryKeepsCached ==
  ASSUME Cached, Next, NEW a \in Requests, NEW c \in Cats, QueryCategory(a, c)
  PROVE  CacheTypes' /\ CacheInv'
<1> DEFINE more == [r \in Records |-> req[a].found[r] + IF CatOf[r] = c THEN stored[r] ELSE 0]
<1> PICK q : q = [req[a] EXCEPT !.left = @ \ {c}, !.found = more]
  OBVIOUS
<1>1. /\ req[a].at = "query" /\ c \in req[a].left
      /\ UNCHANGED <<file, suited, parser, cache, stored>>
  BY DEF QueryCategory, job
<1>2. /\ req[a] \in CacheRequest /\ Total \in Nat /\ Total' = Total /\ stored \in [Records -> Nat]
      /\ Fresh(req[a].row, req[a].module) /\ InStep(req[a])
  BY <1>1, RequestIsTyped, TotalIsSum
<1>3. req' = [req EXCEPT ![a] = q]
  BY <1>2 DEF QueryCategory, CacheRequest
<1>4. more \in [Records -> Nat]
  BY <1>2 DEF CacheRequest
<1>5. /\ q \in CacheRequest /\ q.at = "query" /\ q.row = req[a].row /\ q.module = req[a].module
      /\ q.left = req[a].left \ {c} /\ q.found = more /\ q.base = req[a].base /\ q.ok = req[a].ok
  BY <1>1, <1>2, <1>4 DEF CacheRequest
<1>6. ASSUME req[a].ok, req[a].base = Total
      PROVE  more = FoundSoFar(q)
  <2>1. req[a].found = FoundSoFar(req[a])
    BY <1>2, <1>6 DEF InStep
  <2>2. ASSUME NEW r \in Records
        PROVE  more[r] = FoundSoFar(q)[r]
    <3>1. stored[r] \in Nat /\ more[r] = FoundSoFar(req[a])[r] + (IF CatOf[r] = c THEN stored[r] ELSE 0)
      BY <1>2, <2>1
    <3>2. c \in req[a].module.cats
      BY <1>1, <1>2 DEF InStep
    <3> QED
      BY <1>1, <1>5, <3>1, <3>2 DEF FoundSoFar
  <2> QED
    BY <2>2 DEF FoundSoFar
<1>7. InStep(q)'
  <2>1. InStep(q)
    BY <1>2, <1>5, <1>6 DEF InStep
  <2> QED
    BY <1>1, <1>2, <2>1 DEF InStep, FoundSoFar
<1>8. Fresh(q.row, q.module)'
  BY <1>1, <1>2, <1>5 DEF Fresh, Found
<1> QED
  BY <1>1, <1>3, <1>5, <1>7, <1>8, OneRequestSteps

LEMMA FailedQueryKeepsCached ==
  ASSUME Cached, Next, NEW a \in Requests, NEW c \in Cats, QueryFails(a, c)
  PROVE  CacheTypes' /\ CacheInv'
<1> PICK q : q = [req[a] EXCEPT !.left = @ \ {c}, !.ok = FALSE]
  OBVIOUS
<1>1. /\ req[a].at = "query" /\ c \in req[a].left
      /\ UNCHANGED <<file, suited, parser, cache, stored>>
  BY DEF QueryFails, job
<1>2. /\ req[a] \in CacheRequest /\ Total \in Nat /\ Total' = Total
      /\ Fresh(req[a].row, req[a].module) /\ InStep(req[a])
  BY <1>1, RequestIsTyped, TotalIsSum
<1>3. req' = [req EXCEPT ![a] = q]
  BY <1>2 DEF QueryFails, CacheRequest
<1>4. /\ q \in CacheRequest /\ q.at = "query" /\ q.row = req[a].row /\ q.module = req[a].module
      /\ q.left = req[a].left \ {c} /\ q.base = req[a].base /\ ~q.ok
  BY <1>1, <1>2 DEF CacheRequest
<1>5. InStep(q)'
  BY <1>2, <1>4 DEF InStep
<1>6. Fresh(q.row, q.module)'
  BY <1>1, <1>2, <1>4 DEF Fresh, Found
<1> QED
  BY <1>1, <1>3, <1>4, <1>5, <1>6, OneRequestSteps

\* When all types have been asked for, what is found is what there is.
LEMMA CountKeepsCached ==
  ASSUME Cached, Next, NEW a \in Requests, CountForCache(a)
  PROVE  CacheTypes' /\ CacheInv'
<1> PICK row : row = [found |-> req[a].found, count |-> Total, there |-> TRUE,
                      clean |-> req[a].ok /\ req[a].base = Total]
  OBVIOUS
<1> PICK q : q = [req[a] EXCEPT !.at = "store", !.row = row]
  OBVIOUS
<1>1. /\ req[a].at = "query" /\ req[a].left = {}
      /\ req' = [req EXCEPT ![a] = NoRequest] \/ req' = [req EXCEPT ![a] = q]
      /\ UNCHANGED <<file, suited, parser, cache, stored>>
  BY DEF CountForCache, job
<1>2. req[a] \in CacheRequest /\ Total \in Nat /\ Total' = Total /\ InStep(req[a])
  BY <1>1, RequestIsTyped, TotalIsSum
<1>3. row \in Row
  BY <1>2 DEF Row, CacheRequest
<1>4. /\ q \in CacheRequest /\ q.at = "store" /\ q.row = row /\ q.module = req[a].module
  BY <1>2, <1>3 DEF CacheRequest
<1>5. row.clean => row.found = Found(q.module)
  <2> SUFFICES ASSUME req[a].ok, req[a].base = Total PROVE req[a].found = Found(q.module)
    OBVIOUS
  <2>1. req[a].found = FoundSoFar(req[a])
    BY <1>2 DEF InStep
  <2> QED
    BY <1>1, <1>4, <2>1 DEF FoundSoFar, Found
<1>6. row.count = Total
  OBVIOUS
<1>7. Fresh(q.row, q.module)'
  BY <1>1, <1>2, <1>4, <1>5, <1>6 DEF Fresh, Found
<1>8. CASE req' = [req EXCEPT ![a] = NoRequest]
  BY <1>1, <1>8, OneRequestSteps
<1>9. CASE req' = [req EXCEPT ![a] = q]
  BY <1>1, <1>4, <1>7, <1>9, OneRequestSteps
<1> QED
  BY <1>1, <1>8, <1>9

\* The result goes into the cache of its module, or nowhere.
LEMMA StoreKeepsCached ==
  ASSUME Cached, Next, NEW a \in Requests, NEW ok, CacheResults(a, ok)
  PROVE  CacheTypes' /\ CacheInv'
<1>1. /\ req[a].at = "store" /\ req' = [req EXCEPT ![a] = NoRequest]
      /\ cache' = cache \/ cache' = [cache EXCEPT ![req[a].module] = req[a].row]
      /\ UNCHANGED <<file, suited, parser, stored>>
  BY DEF CacheResults, job
<1>2. /\ req[a].row \in Row /\ req[a].module \in Analyses /\ Fresh(req[a].row, req[a].module)
      /\ Total' = Total
  BY <1>1, RequestIsTyped, TotalIsSum
<1>3. CacheTypes'
  BY <1>1, <1>2 DEF Cached, CacheTypes
<1>4. ASSUME NEW m \in Analyses
      PROVE  Fresh(cache[m], m)'
  <2>1. cache'[m] = cache[m] \/ (m = req[a].module /\ cache'[m] = req[a].row)
    <3>1. DOMAIN cache = Analyses
      BY DEF Cached, CacheTypes
    <3> QED
      BY <1>1, <1>2, <3>1
  <2>2. Fresh(cache'[m], m)
    BY <1>2, <2>1 DEF Cached, CacheInv
  <2> QED
    BY <1>1, <1>2, <2>2 DEF Fresh, Found
<1>5. ASSUME NEW b \in Requests, req'[b] # NoRequest
      PROVE  /\ Fresh(req[b].row, req[b].module)' /\ (req'[b].at = "count" => NotBegun(req'[b]))
             /\ req'[b].at = "query" => InStep(req[b])'
  <2>1. req'[b] = req[b] /\ req[b] # NoRequest
    BY <1>1, <1>5 DEF Cached, CacheTypes
  <2>2. /\ Fresh(req[b].row, req[b].module) /\ (req[b].at = "count" => NotBegun(req[b]))
        /\ req[b].at = "query" => InStep(req[b])
    BY <2>1 DEF Cached, CacheInv
  <2> QED
    BY <1>1, <1>2, <2>1, <2>2 DEF Fresh, Found, InStep, FoundSoFar
<1> QED
  BY <1>3, <1>4, <1>5 DEF CacheInv, NotBegun

LEMMA NextKeepsCached == Cached /\ [Next]_vars => Cached'
<1> SUFFICES ASSUME Cached, [Next]_vars PROVE Cached'
  OBVIOUS
<1>1. Inv'
  BY NextKeepsInv DEF Cached
<1>2. ASSUME Next
      PROVE  CacheTypes' /\ CacheInv'
  <2>1. CASE Parse
    BY <1>2, <2>1, ParseKeepsCached
  <2>2. CASE RunAgain \/ ClearCache
    <3>1. UNCHANGED <<file, suited, parser, req>> /\ (cache' = cache \/ cache' = [m \in Analyses |-> NoRow])
      BY <2>2 DEF RunAgain, ClearCache, job
    <3> QED
      BY <1>2, <3>1, JobKeepsCached DEF Cached, CacheTypes
  <2>3. CASE \E a \in Requests : Analyse(a)
    BY <1>2, <2>3, CompareKeepsCached, CountKeepsCached, QueryKeepsCached, FailedQueryKeepsCached, StoreKeepsCached
       DEF Analyse
  <2>4. CASE \E a \in Requests : \E m \in Analyses : Ask(a, m)
    BY <1>2, <2>4, AskKeepsCached
  <2> QED
    BY <1>2, <2>1, <2>2, <2>3, <2>4 DEF Next
<1>3. UNCHANGED vars => CacheTypes' /\ CacheInv'
  BY JobKeepsCached DEF vars, job, Cached, CacheTypes
<1> QED
  BY <1>1, <1>2, <1>3 DEF Cached

LEMMA AlwaysCached == Spec => []Cached
  BY InitCached, NextKeepsCached, PTL DEF Spec

\* Every reachable state is well typed (base_parser.py, execution_evidence.py).
THEOREM TypeCorrect == Spec => []TypeOK
<1>1. Cached => TypeOK
  <2> SUFFICES ASSUME Cached PROVE TypeOK
    OBVIOUS
  <2>1. \A a \in Requests : req[a] # NoRequest => req[a].at \in {"count", "query", "store"} /\ req[a].row \in Row
    BY DEF Cached, CacheTypes, CacheRequest
  <2> QED
    BY <2>1 DEF Cached, CacheTypes, Inv, JobTypes, TypeOK
<1> QED
  BY <1>1, AlwaysCached, PTL

\* An analysis that is served from the cache shows the events of that moment, if no
\* query failed and no events were committed while it was computed: their number is
\* then enough to tell, however many parsers commit and whether or not the cache
\* could be invalidated (execution_evidence.py:488-517, base_parser.py:18-48).
THEOREM ServedResultsAreCurrent == Spec => ServedIsCurrent
<1>1. Cached /\ [Next]_vars =>
        [\A a \in Requests :
           req[a] # NoRequest /\ req[a].at = "count" /\ req'[a] = NoRequest /\ req[a].row.clean
             => req[a].row.found = Found(req[a].module)]_vars
  <2> SUFFICES ASSUME Cached, Next, NEW a \in Requests,
                      req[a].at = "count", req'[a] = NoRequest, req[a].row.clean
               PROVE  req[a].row.found = Found(req[a].module)
    BY DEF vars
  <2>1. req[a] # NoRequest /\ DOMAIN req = Requests
    BY DEF NoRequest, Cached, CacheTypes
  <2>2. CompareCount(a)
    <3>1. req' # req
      BY <2>1
    <3>2. \E b \in Requests : Analyse(b) \/ \E m \in Analyses : Ask(b, m)
      BY <3>1 DEF Next, Parse, Convert, Identify, Select, EndOfFile, InsertEventBatch, InsertFails, ReadFails,
         InvalidateCache, RunAgain, ClearCache
    <3>3. PICK b \in Requests : Analyse(b) \/ \E m \in Analyses : Ask(b, m)
      BY <3>2
    <3>4. \E q : req' = [req EXCEPT ![b] = q]
      BY <3>3 DEF Analyse, CompareCount, CountForCache, QueryCategory, QueryFails, CacheResults, Ask
    <3>5. b = a
      BY <2>1, <3>4
    <3> QED
      BY <2>1, <3>3, <3>5 DEF Analyse, CountForCache, QueryCategory, QueryFails, CacheResults, Ask
  <2>3. req[a].row.count = Total
    BY <2>1, <2>2 DEF CompareCount, NoRequest
  <2> QED
    BY <2>3, RequestIsTyped DEF Fresh
<1> QED
  BY <1>1, AlwaysCached, PTL DEF Spec, ServedIsCurrent

-----------------------------------------------------------------------------
(* The parser a file is given to, and its decoder.                         *)

\* The parsers are asked one after the other.
LEMMA FirstClaimSelects ==
  ASSUME NEW f, NEW i \in DOMAIN Order, Claims(Order[i], f), \A j \in 1..(i - 1) : ~Claims(Order[j], f)
  PROVE  Selected(f) = Order[i]
<1> DEFINE First(k) == Claims(Order[k], f) /\ \A j \in 1..(k - 1) : ~Claims(Order[j], f)
<1>1. DOMAIN Order = 1..10
  BY DEF Order
<1>2. \A k \in DOMAIN Order : First(k) => k = i
  <2> SUFFICES ASSUME NEW k \in DOMAIN Order, First(k) PROVE k = i
    OBVIOUS
  <2>1. k < i => k \in 1..(i - 1)
    BY <1>1
  <2>2. i < k => i \in 1..(k - 1)
    BY <1>1
  <2> QED
    BY <1>1, <2>1, <2>2
<1>3. First(i)
  OBVIOUS
<1> HIDE DEF First
<1>4. (CHOOSE k \in DOMAIN Order : First(k)) = i
  BY <1>2, <1>3
<1> QED
  BY <1>4 DEF Selected, First

LEMMA ParsersAsked ==
  ASSUME NEW f
  PROVE  /\ DOMAIN Order = 1..10
         /\ Order[1] = "archive" /\ (Claims(Order[1], f) <=> IsArchive(f))
         /\ Order[2] = "evtx" /\ (Claims(Order[2], f) <=> IsEvtx(f))
         /\ Order[3] = "registry" /\ (Claims(Order[3], f) <=> IsRegistry(f))
         /\ Order[4] = "prefetch" /\ (Claims(Order[4], f) <=> IsPrefetch(f))
         /\ Order[5] = "lnk" /\ (Claims(Order[5], f) <=> IsLnk(f))
         /\ Order[6] = "mft" /\ (Claims(Order[6], f) <=> IsMft(f))
         /\ Order[7] = "jumplist" /\ (Claims(Order[7], f) <=> IsJumplist(f))
         /\ Order[8] = "browser" /\ (Claims(Order[8], f) <=> IsBrowser(f))
         /\ Order[9] = "windows" /\ (Claims(Order[9], f) <=> IsWindows(f))
         /\ Order[10] = "file_metadata" /\ Claims(Order[10], f)
<1>1. /\ DOMAIN Order = 1..10
      /\ Order[1] = "archive"
      /\ Order[2] = "evtx"
      /\ Order[3] = "registry"
      /\ Order[4] = "prefetch"
      /\ Order[5] = "lnk"
      /\ Order[6] = "mft"
      /\ Order[7] = "jumplist"
      /\ Order[8] = "browser"
      /\ Order[9] = "windows"
      /\ Order[10] = "file_metadata"
  BY DEF Order
<1> QED
  BY <1>1 DEF Claims

\* A file under the name it was given, and what the tests say of it.
Named(f) == f \in Files /\ f.name = NameOf(f.content)
Browsed == {"chromium", "firefox", "webcache"}

LEMMA TestsAgree ==
  ASSUME NEW f, Named(f)
  PROVE  /\ IsArchive(f) <=> f.content = "archive"
         /\ IsEvtx(f) <=> f.content = "evtx"
         /\ IsRegistry(f) <=> f.content = "hive"
         /\ IsPrefetch(f) <=> f.content = "prefetch"
         /\ IsLnk(f) <=> f.content = "lnk"
         /\ IsMft(f) <=> f.content = "mft"
         /\ IsJumplist(f) <=> f.content = "jumplist"
         /\ IsBrowser(f) <=> f.content \in Browsed
<1>1. f.content \in Contents
  BY DEF Named, Files
<1>2. /\ f.name = "x.zip" <=> f.content = "archive"
      /\ f.name = "x.evtx" <=> f.content = "evtx"
      /\ f.name = "x.pf" <=> f.content = "prefetch"
      /\ f.name = "x.lnk" <=> f.content = "lnk"
      /\ f.name = "$MFT" <=> f.content = "mft"
      /\ f.name = "x-ms" <=> f.content = "jumplist"
      /\ f.name = "History" <=> f.content = "chromium"
      /\ f.name = "places.sqlite" <=> f.content = "firefox"
      /\ f.name = "WebCacheV01.dat" <=> f.content = "webcache"
      /\ f.name # "History.dat"
  BY <1>1 DEF Named, NameOf
<1>3. IsBrowser(f) <=> f.content \in Browsed
  BY <1>2 DEF IsBrowser, Browsed, Sqlite, Ese
<1> QED
  BY <1>2, <1>3 DEF IsArchive, IsEvtx, IsRegistry, IsPrefetch, IsLnk, IsMft, IsJumplist

LEMMA ParserOfFile ==
  ASSUME NEW f, Named(f)
  PROVE  /\ f.content \in {"archive", "evtx", "prefetch", "lnk", "mft", "jumplist"} => Selected(f) = f.content
         /\ f.content = "hive" => Selected(f) = "registry"
         /\ f.content \in Browsed => Selected(f) = "browser"
         /\ f.content \notin {"archive", "evtx", "hive", "prefetch", "lnk", "mft", "jumplist"} \cup Browsed =>
              Selected(f) = IF IsWindows(f) THEN "windows" ELSE "file_metadata"
<1>1. CASE f.content = "archive"
  <2>1. Claims(Order[1], f) /\ \A j \in 1..0 : ~Claims(Order[j], f)
    BY <1>1, ParsersAsked, TestsAgree DEF Browsed
  <2>2. Selected(f) = "archive"
    BY <2>1, ParsersAsked, FirstClaimSelects
  <2> QED
    BY <1>1, <2>2 DEF Browsed
<1>2. CASE f.content = "evtx"
  <2>1. Claims(Order[2], f) /\ \A j \in 1..1 : ~Claims(Order[j], f)
    BY <1>2, ParsersAsked, TestsAgree DEF Browsed
  <2>2. Selected(f) = "evtx"
    BY <2>1, ParsersAsked, FirstClaimSelects
  <2> QED
    BY <1>2, <2>2 DEF Browsed
<1>3. CASE f.content = "hive"
  <2>1. Claims(Order[3], f) /\ \A j \in 1..2 : ~Claims(Order[j], f)
    BY <1>3, ParsersAsked, TestsAgree DEF Browsed
  <2>2. Selected(f) = "registry"
    BY <2>1, ParsersAsked, FirstClaimSelects
  <2> QED
    BY <1>3, <2>2 DEF Browsed
<1>4. CASE f.content = "prefetch"
  <2>1. Claims(Order[4], f) /\ \A j \in 1..3 : ~Claims(Order[j], f)
    BY <1>4, ParsersAsked, TestsAgree DEF Browsed
  <2>2. Selected(f) = "prefetch"
    BY <2>1, ParsersAsked, FirstClaimSelects
  <2> QED
    BY <1>4, <2>2 DEF Browsed
<1>5. CASE f.content = "lnk"
  <2>1. Claims(Order[5], f) /\ \A j \in 1..4 : ~Claims(Order[j], f)
    BY <1>5, ParsersAsked, TestsAgree DEF Browsed
  <2>2. Selected(f) = "lnk"
    BY <2>1, ParsersAsked, FirstClaimSelects
  <2> QED
    BY <1>5, <2>2 DEF Browsed
<1>6. CASE f.content = "mft"
  <2>1. Claims(Order[6], f) /\ \A j \in 1..5 : ~Claims(Order[j], f)
    BY <1>6, ParsersAsked, TestsAgree DEF Browsed
  <2>2. Selected(f) = "mft"
    BY <2>1, ParsersAsked, FirstClaimSelects
  <2> QED
    BY <1>6, <2>2 DEF Browsed
<1>7. CASE f.content = "jumplist"
  <2>1. Claims(Order[7], f) /\ \A j \in 1..6 : ~Claims(Order[j], f)
    BY <1>7, ParsersAsked, TestsAgree DEF Browsed
  <2>2. Selected(f) = "jumplist"
    BY <2>1, ParsersAsked, FirstClaimSelects
  <2> QED
    BY <1>7, <2>2 DEF Browsed
<1>8. CASE f.content \in Browsed
  <2>1. Claims(Order[8], f) /\ \A j \in 1..7 : ~Claims(Order[j], f)
    BY <1>8, ParsersAsked, TestsAgree DEF Browsed
  <2>2. Selected(f) = "browser"
    BY <2>1, ParsersAsked, FirstClaimSelects
  <2> QED
    BY <1>8, <2>2 DEF Browsed
<1>9. CASE f.content \notin {"archive", "evtx", "hive", "prefetch", "lnk", "mft", "jumplist"} \cup Browsed /\ IsWindows(f)
  <2>1. Claims(Order[9], f) /\ \A j \in 1..8 : ~Claims(Order[j], f)
    BY <1>9, ParsersAsked, TestsAgree DEF Browsed
  <2>2. Selected(f) = "windows"
    BY <2>1, ParsersAsked, FirstClaimSelects
  <2> QED
    BY <1>9, <2>2 DEF Browsed
<1>10. CASE f.content \notin {"archive", "evtx", "hive", "prefetch", "lnk", "mft", "jumplist"} \cup Browsed /\ ~IsWindows(f)
  <2>1. Claims(Order[10], f) /\ \A j \in 1..9 : ~Claims(Order[j], f)
    BY <1>10, ParsersAsked, TestsAgree DEF Browsed
  <2>2. Selected(f) = "file_metadata"
    BY <2>1, ParsersAsked, FirstClaimSelects
  <2> QED
    BY <1>10, <2>2 DEF Browsed
<1> QED
  BY <1>1, <1>2, <1>3, <1>4, <1>5, <1>6, <1>7, <1>8, <1>9, <1>10 DEF Browsed

\* The Windows parser tries its decoders one after the other.
LEMMA FirstFindDecodes ==
  ASSUME NEW f, NEW i \in DOMAIN WindowsDecoders, Finds(WindowsDecoders[i], f),
         \A j \in 1..(i - 1) : ~Finds(WindowsDecoders[j], f)
  PROVE  FirstThatFinds(f) = WindowsDecoders[i]
<1> DEFINE First(k) == Finds(WindowsDecoders[k], f) /\ \A j \in 1..(k - 1) : ~Finds(WindowsDecoders[j], f)
<1>1. DOMAIN WindowsDecoders = 1..8
  BY DEF WindowsDecoders
<1>2. \A k \in DOMAIN WindowsDecoders : First(k) => k = i
  <2> SUFFICES ASSUME NEW k \in DOMAIN WindowsDecoders, First(k) PROVE k = i
    OBVIOUS
  <2>1. k < i => k \in 1..(i - 1)
    BY <1>1
  <2>2. i < k => i \in 1..(k - 1)
    BY <1>1
  <2> QED
    BY <1>1, <2>1, <2>2
<1>3. First(i)
  OBVIOUS
<1> HIDE DEF First
<1>4. (CHOOSE k \in DOMAIN WindowsDecoders : First(k)) = i
  BY <1>2, <1>3
<1> QED
  BY <1>4 DEF FirstThatFinds, First

\* The decoders, and the contents they find entries in.
OwnDecoders ==
  {EvtxRecord, MftEntry, PrefetchRun, LnkHeader, RegistryPlugin, RegistryValue, RegistryMru, AutomaticDestinations, CustomDestinations,
   ChromiumHistory, FirefoxHistory, LegacyEdgeHistory, Notification, SrumRecord, WindowsSearch, ScheduledTaskXml, ScheduledTaskJob, CryptnetCache, BitmapCache}

LEMMA DecodersApart ==
  /\ \A d \in OwnDecoders : d # PcaFile /\ d # Metadata
  /\ PcaFile # Metadata
<1>1. /\ EvtxRecord # PcaFile /\ EvtxRecord # Metadata
      /\ MftEntry # PcaFile /\ MftEntry # Metadata
      /\ PrefetchRun # PcaFile /\ PrefetchRun # Metadata
      /\ LnkHeader # PcaFile /\ LnkHeader # Metadata
      /\ RegistryPlugin # PcaFile /\ RegistryPlugin # Metadata
      /\ RegistryValue # PcaFile /\ RegistryValue # Metadata
      /\ RegistryMru # PcaFile /\ RegistryMru # Metadata
      /\ AutomaticDestinations # PcaFile /\ AutomaticDestinations # Metadata
      /\ CustomDestinations # PcaFile /\ CustomDestinations # Metadata
      /\ ChromiumHistory # PcaFile /\ ChromiumHistory # Metadata
      /\ FirefoxHistory # PcaFile /\ FirefoxHistory # Metadata
      /\ LegacyEdgeHistory # PcaFile /\ LegacyEdgeHistory # Metadata
      /\ Notification # PcaFile /\ Notification # Metadata
      /\ SrumRecord # PcaFile /\ SrumRecord # Metadata
      /\ WindowsSearch # PcaFile /\ WindowsSearch # Metadata
      /\ ScheduledTaskXml # PcaFile /\ ScheduledTaskXml # Metadata
      /\ ScheduledTaskJob # PcaFile /\ ScheduledTaskJob # Metadata
      /\ CryptnetCache # PcaFile /\ CryptnetCache # Metadata
      /\ BitmapCache # PcaFile /\ BitmapCache # Metadata
  BY DEF EvtxRecord, MftEntry, PrefetchRun, LnkHeader, RegistryPlugin, RegistryValue, RegistryMru, AutomaticDestinations, CustomDestinations, ChromiumHistory, FirefoxHistory, LegacyEdgeHistory, Notification, SrumRecord, WindowsSearch, ScheduledTaskXml, ScheduledTaskJob, CryptnetCache, BitmapCache, PcaFile, Metadata
<1>2. PcaFile # Metadata
  BY DEF PcaFile, Metadata
<1> QED
  BY <1>1, <1>2 DEF OwnDecoders

For(c, d) == c \in d.of

LEMMA ContentsOf ==
  ASSUME NEW c
  PROVE  /\ For(c, EvtxRecord) <=> c = "evtx"
         /\ For(c, MftEntry) <=> c = "mft"
         /\ For(c, PrefetchRun) <=> c = "prefetch"
         /\ For(c, LnkHeader) <=> c = "lnk"
         /\ For(c, RegistryPlugin) <=> c = "hive"
         /\ For(c, RegistryValue) <=> c = "hive"
         /\ For(c, RegistryMru) <=> c = "hive"
         /\ For(c, AutomaticDestinations) <=> c = "jumplist"
         /\ For(c, CustomDestinations) <=> c = "jumplist"
         /\ For(c, ChromiumHistory) <=> c = "chromium"
         /\ For(c, FirefoxHistory) <=> c = "firefox"
         /\ For(c, LegacyEdgeHistory) <=> c = "webcache"
         /\ For(c, Notification) <=> c = "notifications"
         /\ For(c, SrumRecord) <=> c \in Srum
         /\ For(c, WindowsSearch) <=> c = "search index"
         /\ For(c, ScheduledTaskXml) <=> c = "task xml"
         /\ For(c, ScheduledTaskJob) <=> c = "task job"
         /\ For(c, CryptnetCache) <=> c = "cryptnet"
         /\ For(c, BitmapCache) <=> c = "bitmap cache"
         /\ For(c, PcaFile) <=> c \in Contents
         /\ For(c, Metadata) <=> c \in Contents
  BY DEF For, EvtxRecord, MftEntry, PrefetchRun, LnkHeader, RegistryPlugin, RegistryValue, RegistryMru, AutomaticDestinations, CustomDestinations, ChromiumHistory,
         FirefoxHistory, LegacyEdgeHistory, Notification, SrumRecord, WindowsSearch, ScheduledTaskXml, ScheduledTaskJob, CryptnetCache, BitmapCache, PcaFile, Metadata

LEMMA DecodersOfParsers ==
  /\ DecodersOf("archive") = {Metadata} /\ DecodersOf("file_metadata") = {Metadata}
  /\ DecodersOf("evtx") = {EvtxRecord} /\ DecodersOf("registry") = {RegistryPlugin, RegistryValue, RegistryMru}
  /\ DecodersOf("prefetch") = {PrefetchRun} /\ DecodersOf("lnk") = {LnkHeader} /\ DecodersOf("mft") = {MftEntry}
  /\ DecodersOf("jumplist") = {AutomaticDestinations, CustomDestinations}
  /\ DecodersOf("browser") = {ChromiumHistory, FirefoxHistory, LegacyEdgeHistory}
  /\ DecodersOf("windows") = {Notification, SrumRecord, WindowsSearch, ScheduledTaskXml, ScheduledTaskJob,
                              CryptnetCache, BitmapCache, PcaFile}
<1>1. {WindowsDecoders[i] : i \in DOMAIN WindowsDecoders} =
        {Notification, SrumRecord, WindowsSearch, ScheduledTaskXml, ScheduledTaskJob, CryptnetCache, BitmapCache, PcaFile}
  BY DEF WindowsDecoders
<1> QED
  BY <1>1 DEF DecodersOf

LEMMA DecodersAre ==
  UNION {DecodersOf(p) : p \in {Order[i] : i \in DOMAIN Order}} = OwnDecoders \cup {PcaFile, Metadata}
<1>1. {Order[i] : i \in DOMAIN Order} =
        {"archive", "evtx", "registry", "prefetch", "lnk", "mft", "jumplist", "browser", "windows", "file_metadata"}
  BY DEF Order
<1> QED
  BY <1>1, DecodersOfParsers DEF OwnDecoders

\* The decoder a content is for.
Others == {"part of srum", "other sqlite", "other ese", "text"}

LEMMA MeantFor ==
  /\ Meant("archive") = {}
  /\ Meant("evtx") = {EvtxRecord}
  /\ Meant("hive") = {RegistryPlugin, RegistryValue, RegistryMru}
  /\ Meant("prefetch") = {PrefetchRun}
  /\ Meant("lnk") = {LnkHeader}
  /\ Meant("mft") = {MftEntry}
  /\ Meant("jumplist") = {AutomaticDestinations, CustomDestinations}
  /\ Meant("chromium") = {ChromiumHistory}
  /\ Meant("firefox") = {FirefoxHistory}
  /\ Meant("webcache") = {LegacyEdgeHistory}
  /\ Meant("notifications") = {Notification}
  /\ Meant("srum") = {SrumRecord}
  /\ Meant("task xml") = {ScheduledTaskXml}
  /\ Meant("task job") = {ScheduledTaskJob}
  /\ Meant("cryptnet") = {CryptnetCache}
  /\ Meant("bitmap cache") = {BitmapCache}
  /\ Meant("pca") = {PcaFile}
  /\ \A c \in Others : Meant(c) = {Metadata}
<1>1. \A c, d : d \in Meant(c) <=>
        /\ d \in OwnDecoders \cup {PcaFile, Metadata}
        /\ IF c \in Others THEN d = Metadata ELSE For(c, d) /\ d # Metadata /\ (d = PcaFile => c = "pca")
  BY DecodersAre DEF Meant, Others, For
<1>2. \A c \in Others : Meant(c) = {Metadata}
  BY <1>1
<1>3. \A c : c \notin Others /\ c # "pca" => Meant(c) = {d \in OwnDecoders : For(c, d)}
  BY <1>1, DecodersApart
<1>4. Meant("pca") = {PcaFile}
  <2>1. "pca" \notin Others /\ "pca" \in Contents
    BY DEF Others, Contents
  <2>2. \A d \in OwnDecoders : ~For("pca", d)
    BY ContentsOf DEF OwnDecoders, Srum
  <2>3. PcaFile \in Meant("pca")
    BY <1>1, <2>1, DecodersApart, ContentsOf
  <2>4. \A d \in Meant("pca") : d = PcaFile
    BY <1>1, <2>1, <2>2
  <2> QED
    BY <2>3, <2>4
<1>5. {d \in OwnDecoders : For("archive", d)} = {}
  BY ContentsOf DEF OwnDecoders, Srum
<1>6. {d \in OwnDecoders : For("evtx", d)} = {EvtxRecord}
  BY ContentsOf DEF OwnDecoders, Srum
<1>7. {d \in OwnDecoders : For("hive", d)} = {RegistryPlugin, RegistryValue, RegistryMru}
  BY ContentsOf DEF OwnDecoders, Srum
<1>8. {d \in OwnDecoders : For("prefetch", d)} = {PrefetchRun}
  BY ContentsOf DEF OwnDecoders, Srum
<1>9. {d \in OwnDecoders : For("lnk", d)} = {LnkHeader}
  BY ContentsOf DEF OwnDecoders, Srum
<1>10. {d \in OwnDecoders : For("mft", d)} = {MftEntry}
  BY ContentsOf DEF OwnDecoders, Srum
<1>11. {d \in OwnDecoders : For("jumplist", d)} = {AutomaticDestinations, CustomDestinations}
  BY ContentsOf DEF OwnDecoders, Srum
<1>12. {d \in OwnDecoders : For("chromium", d)} = {ChromiumHistory}
  BY ContentsOf DEF OwnDecoders, Srum
<1>13. {d \in OwnDecoders : For("firefox", d)} = {FirefoxHistory}
  BY ContentsOf DEF OwnDecoders, Srum
<1>14. {d \in OwnDecoders : For("webcache", d)} = {LegacyEdgeHistory}
  BY ContentsOf DEF OwnDecoders, Srum
<1>15. {d \in OwnDecoders : For("notifications", d)} = {Notification}
  BY ContentsOf DEF OwnDecoders, Srum
<1>16. {d \in OwnDecoders : For("srum", d)} = {SrumRecord}
  BY ContentsOf DEF OwnDecoders, Srum
<1>17. {d \in OwnDecoders : For("task xml", d)} = {ScheduledTaskXml}
  BY ContentsOf DEF OwnDecoders, Srum
<1>18. {d \in OwnDecoders : For("task job", d)} = {ScheduledTaskJob}
  BY ContentsOf DEF OwnDecoders, Srum
<1>19. {d \in OwnDecoders : For("cryptnet", d)} = {CryptnetCache}
  BY ContentsOf DEF OwnDecoders, Srum
<1>20. {d \in OwnDecoders : For("bitmap cache", d)} = {BitmapCache}
  BY ContentsOf DEF OwnDecoders, Srum
<1>21. \A c \in {"archive", "evtx", "hive", "prefetch", "lnk", "mft", "jumplist", "chromium", "firefox", "webcache", "notifications", "srum", "task xml", "task job", "cryptnet", "bitmap cache"} : c \notin Others /\ c # "pca"
  BY DEF Others
<1> QED
  BY <1>2, <1>3, <1>4, <1>5, <1>6, <1>7, <1>8, <1>9, <1>10, <1>11, <1>12, <1>13, <1>14, <1>15, <1>16, <1>17, <1>18, <1>19, <1>20, <1>21

\* The decoder meant for a content finds entries in it.
LEMMA MeantFinds ==
  ASSUME NEW c \in Contents, NEW d \in Meant(c)
  PROVE  For(c, d)
  BY ContentsOf DEF Meant, For

\* What is made of a file that has an entry is what the decoder it was given to finds.
Readers(f) ==
  LET p  == Selected(f)
      ds == CASE p = "archive" -> {}
              [] p = "browser" -> BrowserDecoders(f)
              [] p = "windows" -> {FirstThatFinds(f)}
              [] OTHER -> DecodersOf(p)
  IN {x \in ds : Finds(x, f)}

\* The contents the Windows parser is for, in the order of its decoders.
WindowsFor == <<"notifications", "srum", "search index", "task xml", "task job", "cryptnet", "bitmap cache", "pca">>

LEMMA WindowsTried ==
  /\ DOMAIN WindowsDecoders = 1..8
  /\ WindowsDecoders[1] = Notification
  /\ WindowsDecoders[2] = SrumRecord
  /\ WindowsDecoders[3] = WindowsSearch
  /\ WindowsDecoders[4] = ScheduledTaskXml
  /\ WindowsDecoders[5] = ScheduledTaskJob
  /\ WindowsDecoders[6] = CryptnetCache
  /\ WindowsDecoders[7] = BitmapCache
  /\ WindowsDecoders[8] = PcaFile
  BY DEF WindowsDecoders

LEMMA WindowsForEach ==
  /\ WindowsFor[1] = "notifications"
  /\ WindowsFor[2] = "srum"
  /\ WindowsFor[3] = "search index"
  /\ WindowsFor[4] = "task xml"
  /\ WindowsFor[5] = "task job"
  /\ WindowsFor[6] = "cryptnet"
  /\ WindowsFor[7] = "bitmap cache"
  /\ WindowsFor[8] = "pca"
  BY DEF WindowsFor

LEMMA WindowsReads ==
  ASSUME NEW f, Named(f), f.usable, NEW i \in 1..8, f.content = WindowsFor[i]
  PROVE  FirstThatFinds(f) = WindowsDecoders[i] /\ Finds(WindowsDecoders[i], f)
<1>1. \A d : Finds(d, f) <=> For(f.content, d)
  BY DEF Finds, For
<1> PICK c : c = f.content
  OBVIOUS
<1>2. i \in {1, 2, 3, 4, 5, 6, 7, 8} /\ \A j \in 1..7 : j \in {1, 2, 3, 4, 5, 6, 7}
  OBVIOUS
<1>3. c \in Contents /\ c # "part of srum"
  <2>1. c \in {WindowsFor[1], WindowsFor[2], WindowsFor[3], WindowsFor[4], WindowsFor[5], WindowsFor[6],
              WindowsFor[7], WindowsFor[8]}
    BY <1>2
  <2> QED
    BY <2>1, WindowsForEach DEF Named, Files
<1>4. \A j \in {1, 2, 3, 4, 5, 6, 7} : (For(c, WindowsDecoders[j]) <=> c = WindowsFor[j]) /\ (WindowsFor[j] = WindowsFor[i] => j = i)
  <2>1. \A j \in {1, 2, 3, 4, 5, 6, 7} : For(c, WindowsDecoders[j]) <=> c = WindowsFor[j]
    <3>0. /\ For(c, Notification) <=> c = "notifications"
          /\ For(c, SrumRecord) <=> c = "srum"
          /\ For(c, WindowsSearch) <=> c = "search index"
          /\ For(c, ScheduledTaskXml) <=> c = "task xml"
          /\ For(c, ScheduledTaskJob) <=> c = "task job"
          /\ For(c, CryptnetCache) <=> c = "cryptnet"
          /\ For(c, BitmapCache) <=> c = "bitmap cache"
      BY <1>3, ContentsOf DEF Srum
    <3>1. /\ For(c, WindowsDecoders[1]) <=> c = WindowsFor[1]
          /\ For(c, WindowsDecoders[2]) <=> c = WindowsFor[2]
          /\ For(c, WindowsDecoders[3]) <=> c = WindowsFor[3]
          /\ For(c, WindowsDecoders[4]) <=> c = WindowsFor[4]
          /\ For(c, WindowsDecoders[5]) <=> c = WindowsFor[5]
          /\ For(c, WindowsDecoders[6]) <=> c = WindowsFor[6]
          /\ For(c, WindowsDecoders[7]) <=> c = WindowsFor[7]
      BY <3>0, WindowsTried, WindowsForEach
    <3> QED
      BY <3>1
  <2>2. \A j \in {1, 2, 3, 4, 5, 6, 7} : WindowsFor[j] = WindowsFor[i] => j = i
    BY <1>2, WindowsForEach
  <2> QED
    BY <2>1, <2>2
<1>5. For(c, WindowsDecoders[8])
  BY <1>3, ContentsOf, WindowsTried
<1>6. Finds(WindowsDecoders[i], f) /\ \A j \in 1..(i - 1) : ~Finds(WindowsDecoders[j], f)
  BY <1>1, <1>2, <1>4, <1>5
<1> QED
  BY <1>6, WindowsTried, FirstFindDecodes

\* The file is one the tests are meant for (EventIngest!RightDecoder).
Suited(f) ==
  /\ Named(f) /\ f.usable /\ f.content # "search index"
  /\ f.content = "srum" => f.size # "big"
  /\ f.content = "cryptnet" => f.size = "small"

LEMMA ReadersAreMeant ==
  ASSUME NEW f, Suited(f)
  PROVE  Readers(f) = Meant(f.content)
<1>1. Named(f) /\ f.usable /\ f.content \in Contents
  BY DEF Suited, Named, Files
<1>2. \A d : Finds(d, f) <=> For(f.content, d)
  BY <1>1 DEF Finds, For
<1> PICK c \in Contents : c = f.content
  BY <1>1
<1> PICK p : p = Selected(f)
  OBVIOUS
<1>3. CASE c = "archive"
  <2>1. p = "archive"
    BY <1>1, <1>3, ParserOfFile
  <2>2. Readers(f) = {}
    BY <2>1 DEF Readers
  <2> QED
    BY <1>3, <2>2, MeantFor
<1>4. CASE c \in {"evtx", "hive", "prefetch", "lnk", "mft", "jumplist"}
  <2>1. p = IF c = "hive" THEN "registry" ELSE c
    BY <1>1, <1>4, ParserOfFile
  <2>2. Readers(f) = {d \in DecodersOf(p) : For(c, d)}
    BY <1>2, <1>4, <2>1 DEF Readers
  <2>3. DecodersOf(p) = Meant(c)
    BY <1>4, <2>1, DecodersOfParsers, MeantFor
  <2>4. \A d \in Meant(c) : For(c, d)
    BY MeantFinds
  <2> QED
    BY <2>2, <2>3, <2>4
<1>5. CASE c \in Browsed
  <2>1. p = "browser"
    BY <1>1, <1>5, ParserOfFile
  <2>2. Readers(f) = {d \in BrowserDecoders(f) : For(c, d)}
    BY <1>2, <2>1 DEF Readers
  <2>3. BrowserDecoders(f) = Meant(c)
    <3>1. CASE c = "chromium"
      BY <1>1, <3>1, MeantFor DEF Named, NameOf, BrowserDecoders
    <3>2. CASE c = "firefox"
      BY <1>1, <3>2, MeantFor DEF Named, NameOf, BrowserDecoders
    <3>3. CASE c = "webcache"
      BY <1>1, <3>3, MeantFor DEF Named, NameOf, BrowserDecoders
    <3> QED
      BY <1>5, <3>1, <3>2, <3>3 DEF Browsed
  <2>4. \A d \in Meant(c) : For(c, d)
    BY MeantFinds
  <2> QED
    BY <2>2, <2>3, <2>4
<1>6. CASE c \in {"notifications", "srum", "task xml", "task job", "cryptnet", "bitmap cache", "pca"}
  <2>1. IsWindows(f)
    BY <1>1, <1>6 DEF Suited, IsWindows, LooksLikeCryptnet, Named, Files
  <2>2. p = "windows"
    BY <1>1, <1>6, <2>1, ParserOfFile DEF Browsed
  <2>3. PICK i \in {1, 2, 4, 5, 6, 7, 8} : c = WindowsFor[i] /\ Meant(c) = {WindowsDecoders[i]}
    <3>1. PICK i \in {1, 2, 4, 5, 6, 7, 8} : c = WindowsFor[i]
      BY <1>6, WindowsForEach
    <3>2. Meant(WindowsFor[i]) = {WindowsDecoders[i]}
      BY WindowsForEach, WindowsTried, MeantFor
    <3> QED
      BY <3>1, <3>2
  <2>4. FirstThatFinds(f) = WindowsDecoders[i] /\ Finds(WindowsDecoders[i], f)
    <3>1. i \in 1..8 /\ f.content = WindowsFor[i]
      BY <2>3
    <3> QED
      BY <1>1, <3>1, WindowsReads
  <2>5. Readers(f) = {d \in {FirstThatFinds(f)} : Finds(d, f)}
    BY <2>2 DEF Readers
  <2> QED
    BY <2>3, <2>4, <2>5
<1>7. CASE c \in Others
  <2>1. ~IsWindows(f)
    BY <1>7 DEF Suited, IsWindows, LooksLikeCryptnet, Others
  <2>2. p = "file_metadata"
    BY <1>1, <1>7, <2>1, ParserOfFile DEF Browsed, Others
  <2>3. Readers(f) = {d \in DecodersOf(p) : For(c, d)}
    BY <1>2, <2>2 DEF Readers
  <2>4. DecodersOf(p) = {Metadata} /\ Meant(c) = {Metadata} /\ For(c, Metadata)
    BY <1>7, <2>2, DecodersOfParsers, MeantFor, ContentsOf
  <2> QED
    BY <2>3, <2>4
<1>8. c # "search index"
  BY DEF Suited
<1> QED
  BY <1>3, <1>4, <1>5, <1>6, <1>7, <1>8 DEF Contents, Sqlite, Ese, Srum, Browsed, Others

\* As long as no parser is chosen, the file is there.
FileIsThere == pc = "choose" => file \in Files

LEMMA AlwaysFile == Spec => []FileIsThere
<1>1. Init => FileIsThere
  BY DEF Init, FileIsThere
<1>2. FileIsThere /\ [Next]_vars => FileIsThere'
  <2> SUFFICES ASSUME FileIsThere, [Next]_vars, pc' = "choose" PROVE file' \in Files
    BY DEF FileIsThere
  <2>1. CASE UNCHANGED job
    BY <2>1 DEF job, FileIsThere
  <2>2. CASE Parse \/ RunAgain
    BY <2>2 DEF Parse, RunAgain, Convert, Identify, Select, EndOfFile, InsertEventBatch, InsertFails, ReadFails,
                Fallback, InvalidateCache, FileIsThere
  <2>3. ASSUME NEW a \in Requests, Analyse(a) \/ \E m \in Analyses : Ask(a, m) PROVE UNCHANGED job
    BY <2>3 DEF Analyse, CompareCount, CountForCache, QueryCategory, QueryFails, CacheResults, Ask
  <2>4. ClearCache => UNCHANGED job
    BY DEF ClearCache
  <2> QED
    BY <2>1, <2>2, <2>3, <2>4 DEF Next, vars
<1> QED
  BY <1>1, <1>2, PTL DEF Spec

\* A file under the name Windows or the browser gave it yields the event types its
\* content is meant to yield, but for the contents RightDecoder leaves out: the test
\* that claims it and those its decoder makes agree (dispatcher.py:113-131).
THEOREM FilesFindTheirDecoder == Spec => []RightDecoder
<1>1. FileIsThere => RightDecoder
  <2> SUFFICES ASSUME file \in Files, file.usable, file.name = NameOf(file.content),
                      file.content # "search index", ~(file.content = "srum" /\ file.size = "big"),
                      file.content = "cryptnet" => file.size = "small"
               PROVE  EventTypes(file) = TypesMeant(file.content)
    BY DEF FileIsThere, RightDecoder
  <2>1. Suited(file)
    BY DEF Suited, Named
  <2>2. Readers(file) = Meant(file.content)
    BY <2>1, ReadersAreMeant
  <2>3. EventTypes(file) = UNION {d.types : d \in Readers(file)}
    BY DEF EventTypes, Readers
  <2> QED
    BY <2>2, <2>3 DEF TypesMeant
<1> QED
  BY <1>1, AlwaysFile, PTL

-----------------------------------------------------------------------------
(* How far the job and a request are from their end. Not the fairness that *)
(* lets them get there, but that each of their steps brings them nearer.   *)

\* What the job may still do: weighed so that a record outweighs what is done for
\* it, and the parser that was selected outweighs the catch-all.
Work ==
  MaxFaults - faults
  + CASE pc = "choose" -> 6 * NRecords + 13
      [] pc = "queued" -> 6 * NRecords + 12
      [] OTHER -> 6 * (NRecords + 1 - next) + (IF parser = FileMetadata THEN 0 ELSE 6)
                  + CASE pc = "insert" -> 5
                      [] pc = "read" -> IF batch = {} THEN 1 ELSE 4
                      [] pc = "flush" -> 3
                      [] pc = "invalidate" -> 2
                      [] OTHER -> 0

FaultsInRange == faults \in 0..MaxFaults

LEMMA FaultsStayInRange == Spec => []FaultsInRange
<1>1. Init => FaultsInRange
  BY IngestAssumption DEF Init, FaultsInRange
<1>2. FaultsInRange /\ [Next]_vars => FaultsInRange'
  <2> SUFFICES ASSUME FaultsInRange, [Next]_vars PROVE FaultsInRange'
    OBVIOUS
  <2> USE IngestAssumption DEF FaultsInRange
  <2>1. Fail => faults' \in 0..MaxFaults
    BY DEF Fail
  <2> HIDE DEF FaultsInRange
  <2>2. CASE UNCHANGED faults
    BY <2>2 DEF FaultsInRange
  <2>3. Parse => UNCHANGED faults \/ Fail
    BY DEF Parse, Convert, Identify, Select, EndOfFile, InsertEventBatch, InsertFails, ReadFails, InvalidateCache
  <2>4. RunAgain \/ ClearCache => UNCHANGED faults
    BY DEF RunAgain, ClearCache
  <2>5. ASSUME NEW a \in Requests, Analyse(a) \/ \E m \in Analyses : Ask(a, m) PROVE UNCHANGED faults \/ Fail
    BY <2>5 DEF Analyse, CompareCount, CountForCache, QueryCategory, QueryFails, CacheResults, Ask
  <2> QED
    BY <2>1, <2>2, <2>3, <2>4, <2>5 DEF Next, vars, FaultsInRange
<1> QED
  BY <1>1, <1>2, PTL DEF Spec

\* What the place contributes.
AtPlace ==
  CASE pc = "insert" -> 5
    [] pc = "read" -> IF batch = {} THEN 1 ELSE 4
    [] pc = "flush" -> 3
    [] pc = "invalidate" -> 2
    [] OTHER -> 0
InRun == 6 * (NRecords + 1 - next) + (IF parser = FileMetadata THEN 0 ELSE 6) + AtPlace

WorkOfPlaces ==
  /\ AtPlace \in 0..5 /\ InRun \in 0..(6 * NRecords + 11)
  /\ (pc = "insert" => AtPlace = 5) /\ (pc = "flush" => AtPlace = 3) /\ (pc = "invalidate" => AtPlace = 2)
  /\ (pc = "read" => AtPlace \in {1, 4} /\ (AtPlace = 1 <=> batch = {}))
  /\ (pc \in {"choose", "queued"} \cup Ends => AtPlace = 0)
  /\ (pc = "choose" => Work = MaxFaults - faults + (6 * NRecords + 13))
  /\ (pc = "queued" => Work = MaxFaults - faults + (6 * NRecords + 12))
  /\ (pc \notin {"choose", "queued"} => Work = MaxFaults - faults + InRun)
  /\ Work \in Nat

LEMMA WorkIsWeighed == Inv /\ FaultsInRange => WorkOfPlaces
<1> SUFFICES ASSUME Inv, FaultsInRange PROVE WorkOfPlaces
  OBVIOUS
<1> USE IngestAssumption
<1>1. next \in 1..(NRecords + 1) /\ faults \in 0..MaxFaults /\ pc \in Places
  BY DEF Inv, JobTypes, FaultsInRange
<1>2. /\ AtPlace \in 0..5
      /\ (pc = "insert" => AtPlace = 5) /\ (pc = "flush" => AtPlace = 3) /\ (pc = "invalidate" => AtPlace = 2)
      /\ (pc = "read" => AtPlace \in {1, 4} /\ (AtPlace = 1 <=> batch = {}))
      /\ (pc \in {"choose", "queued"} \cup Ends => AtPlace = 0)
  BY <1>1 DEF AtPlace, Places, Ends
<1>3. InRun \in 0..(6 * NRecords + 11)
  BY <1>1, <1>2 DEF InRun
<1>4. /\ (pc = "choose" => Work = MaxFaults - faults + (6 * NRecords + 13))
      /\ (pc = "queued" => Work = MaxFaults - faults + (6 * NRecords + 12))
      /\ (pc \notin {"choose", "queued"} => Work = MaxFaults - faults + InRun)
  BY DEF Work, InRun, AtPlace
<1> QED
  BY <1>1, <1>2, <1>3, <1>4 DEF WorkOfPlaces

LEMMA NotMoreInRun ==
  ASSUME NEW n \in Int, NEW i \in Int, NEW j \in Int, NEW o \in Int, NEW x \in Int, NEW y \in Int, j >= i, y <= x
  PROVE  6 * (n + 1 - j) + o + y <= 6 * (n + 1 - i) + o + x
  OBVIOUS

LEMMA LessToDo ==
  ASSUME NEW m \in Int, NEW f \in Int, NEW g \in Int, NEW x \in Int, NEW y \in Int, g >= f, y <= x
  PROVE  m - g + y <= m - f + x /\ (g # f \/ y # x => m - g + y < m - f + x)
  OBVIOUS

\* What a step of the job leaves for it to do. It is in a run already, or starts one.
LEMMA WorkDecreases ==
  ASSUME Inv, Inv', FaultsInRange, FaultsInRange', Parse
  PROVE  Work' < Work
<1> USE IngestAssumption
<1>1. next \in 1..(NRecords + 1) /\ next' \in 1..(NRecords + 1) /\ faults \in 0..MaxFaults /\ faults' \in 0..MaxFaults
  BY DEF Inv, JobTypes, FaultsInRange
<1>2. /\ AtPlace \in 0..5 /\ InRun \in 0..(6 * NRecords + 11)
      /\ (pc = "insert" => AtPlace = 5) /\ (pc = "flush" => AtPlace = 3) /\ (pc = "invalidate" => AtPlace = 2)
      /\ (pc = "read" => AtPlace \in {1, 4} /\ (AtPlace = 1 <=> batch = {}))
      /\ (pc = "choose" => Work = MaxFaults - faults + (6 * NRecords + 13))
      /\ (pc = "queued" => Work = MaxFaults - faults + (6 * NRecords + 12))
      /\ (pc \notin {"choose", "queued"} => Work = MaxFaults - faults + InRun)
  BY WorkIsWeighed DEF WorkOfPlaces
<1>3. /\ AtPlace' \in 0..5 /\ InRun' \in 0..(6 * NRecords + 11)
      /\ (pc' = "insert" => AtPlace' = 5) /\ (pc' = "flush" => AtPlace' = 3) /\ (pc' = "invalidate" => AtPlace' = 2)
      /\ (pc' = "read" => AtPlace' \in {1, 4} /\ (AtPlace' = 1 <=> batch' = {}))
      /\ (pc' \in Ends => AtPlace' = 0)
      /\ (pc' = "queued" => Work' = MaxFaults - faults' + (6 * NRecords + 12))
      /\ (pc' \notin {"choose", "queued"} => Work' = MaxFaults - faults' + InRun')
  <2>1. WorkOfPlaces'
    BY WorkIsWeighed, PTL
  <2> QED
    BY <2>1 DEF WorkOfPlaces
<1> DEFINE own == IF parser = FileMetadata THEN 0 ELSE 6
<1>4. InRun = 6 * (NRecords + 1 - next) + own + AtPlace /\ InRun' = 6 * (NRecords + 1 - next') + own' + AtPlace'
      /\ own \in {0, 6} /\ own' \in {0, 6}
  BY DEF InRun
<1>5. UNCHANGED parser => own' = own
  OBVIOUS
<1>6. parser' = FileMetadata => own' = 0
  OBVIOUS
<1>7. parser # FileMetadata => own = 6
  OBVIOUS
<1> HIDE DEF own
<1>8. CASE Identify
  <2>1. pc = "choose" /\ pc' \in {"queued", "elsewhere"} /\ UNCHANGED faults
    BY <1>8 DEF Identify
  <2> QED
    BY <1>1, <1>2, <1>3, <2>1 DEF Ends
<1>9. CASE Select
  <2>1. pc = "queued" /\ pc' \in {"flush", "read"} /\ UNCHANGED faults
    BY <1>9 DEF Select
  <2> QED
    BY <1>1, <1>2, <1>3, <2>1
<1>10. ASSUME NEW fine, Convert(fine) PROVE Work' < Work
  <2>1. pc = "read" /\ pc' \in {"insert", "read"} /\ next' = next + 1 /\ UNCHANGED <<parser, faults>>
    BY <1>10 DEF Convert
  <2> QED
    BY <1>1, <1>2, <1>3, <1>4, <1>5, <2>1
<1>11. CASE EndOfFile
  <2>1. /\ pc = "read" /\ UNCHANGED <<next, parser, faults, batch>>
        /\ (batch = {} /\ pc' = "done") \/ (batch # {} /\ pc' = "flush")
    BY <1>11 DEF EndOfFile
  <2> QED
    BY <1>1, <1>2, <1>3, <1>4, <1>5, <2>1 DEF Ends
<1>12. CASE InsertEventBatch
  <2>1. pc \in {"insert", "flush"} /\ pc' = "invalidate" /\ UNCHANGED <<next, parser, faults>>
    BY <1>12 DEF InsertEventBatch
  <2> QED
    BY <1>1, <1>2, <1>3, <1>4, <1>5, <2>1
<1>13. ASSUME pc \in {"read", "flush"}, Fallback, faults' = faults + 1 PROVE Work' < Work
  <2>1. /\ next' = NRecords + 1
        /\ \/ parser = FileMetadata /\ UNCHANGED parser /\ pc' = "failed"
           \/ parser # FileMetadata /\ parser' = FileMetadata /\ pc' = "flush"
    BY <1>13 DEF Fallback
  <2> QED
    BY <1>1, <1>2, <1>3, <1>4, <1>5, <1>6, <1>7, <1>13, <2>1 DEF Ends
<1>14. CASE InsertFails
  <2>1. CASE pc = "flush"
    BY <1>13, <1>14, <2>1 DEF InsertFails, Fail
  <2>2. CASE pc # "flush"
    <3>1. pc = "insert" /\ pc' = "read" /\ faults' = faults + 1 /\ UNCHANGED <<next, parser>>
      BY <1>14, <2>2 DEF InsertFails, Fail
    <3>2. own' = own
      BY <1>5, <3>1
    <3>3. AtPlace' <= AtPlace
      BY <1>2, <1>3, <3>1
    <3>4. next' >= next
      BY <1>1, <3>1
    <3>5. /\ NRecords \in Int /\ next \in Int /\ next' \in Int /\ own \in Int
          /\ AtPlace \in Int /\ AtPlace' \in Int /\ InRun \in Int /\ InRun' \in Int
          /\ MaxFaults \in Int /\ faults \in Int /\ faults' \in Int /\ faults' >= faults /\ faults' # faults
      BY <1>1, <1>2, <1>3, <1>4, <3>1
    <3>6. InRun' <= InRun
      BY <1>4, <3>2, <3>3, <3>4, <3>5, NotMoreInRun
    <3>7. MaxFaults - faults' + InRun' < MaxFaults - faults + InRun
      BY <3>5, <3>6, LessToDo
    <3> QED
      BY <1>2, <1>3, <3>1, <3>7
  <2> QED
    BY <2>1, <2>2
<1>15. CASE ReadFails
  <2>1. CASE parser.raises
    BY <1>13, <1>15, <2>1 DEF ReadFails, Fail
  <2>2. CASE ~parser.raises
    <3>1. pc = "read" /\ faults' = faults + 1 /\ next' = NRecords + 1 /\ UNCHANGED <<pc, parser, batch>>
      BY <1>15, <2>2 DEF ReadFails, Fail
    <3>2. own' = own
      BY <1>5, <3>1
    <3>3. AtPlace' <= AtPlace
      BY <1>2, <1>3, <3>1
    <3>4. next' >= next
      BY <1>1, <3>1
    <3>5. /\ NRecords \in Int /\ next \in Int /\ next' \in Int /\ own \in Int
          /\ AtPlace \in Int /\ AtPlace' \in Int /\ InRun \in Int /\ InRun' \in Int
          /\ MaxFaults \in Int /\ faults \in Int /\ faults' \in Int /\ faults' >= faults /\ faults' # faults
      BY <1>1, <1>2, <1>3, <1>4, <3>1
    <3>6. InRun' <= InRun
      BY <1>4, <3>2, <3>3, <3>4, <3>5, NotMoreInRun
    <3>7. MaxFaults - faults' + InRun' < MaxFaults - faults + InRun
      BY <3>5, <3>6, LessToDo
    <3> QED
      BY <1>2, <1>3, <3>1, <3>7
  <2> QED
    BY <2>1, <2>2
<1>16. ASSUME NEW ok, InvalidateCache(ok) PROVE Work' < Work
  <2>1. pc = "invalidate" /\ pc' = "read" /\ batch' = {} /\ faults' \in {faults, faults + 1} /\ UNCHANGED <<next, parser>>
    BY <1>16 DEF InvalidateCache, Fail
  <2>2. InRun' < InRun
    BY <1>1, <1>2, <1>3, <1>4, <1>5, <2>1
  <2>3. /\ InRun \in Int /\ InRun' \in Int /\ InRun' <= InRun /\ InRun' # InRun
        /\ MaxFaults \in Int /\ faults \in Int /\ faults' \in Int /\ faults' >= faults
    BY <1>1, <1>2, <1>3, <2>1, <2>2
  <2>4. MaxFaults - faults' + InRun' < MaxFaults - faults + InRun
    BY <2>3, LessToDo
  <2> QED
    BY <1>2, <1>3, <2>1, <2>4
<1> QED
  BY <1>8, <1>9, <1>10, <1>11, <1>12, <1>14, <1>15, <1>16 DEF Parse

LEMMA WorkIsKept ==
  ASSUME UNCHANGED job, faults' \in {faults, faults + 1}, FaultsInRange, Inv, Inv', FaultsInRange'
  PROVE  Work' <= Work
<1>1. UNCHANGED <<pc, parser, next, batch>>
  BY DEF job
<1>2. faults \in 0..MaxFaults /\ faults' \in 0..MaxFaults
  BY DEF FaultsInRange
<1>3. AtPlace' = AtPlace
  BY <1>1 DEF AtPlace
<1>4. InRun' = InRun
  BY <1>1, <1>3 DEF InRun
<1>5. WorkOfPlaces
  BY WorkIsWeighed
<1>6. WorkOfPlaces'
  BY WorkIsWeighed, PTL
<1>7. /\ InRun \in Int /\ InRun' = InRun /\ pc' = pc /\ faults' >= faults /\ 6 * NRecords + 13 \in Int
      /\ 6 * NRecords + 12 \in Int /\ MaxFaults \in Int /\ faults \in Int /\ faults' \in Int
  BY <1>1, <1>2, <1>4, <1>5, IngestAssumption DEF WorkOfPlaces
<1>8. \A x \in Int : MaxFaults - faults' + x <= MaxFaults - faults + x
  <2> SUFFICES ASSUME NEW x \in Int PROVE MaxFaults - faults' + x <= MaxFaults - faults + x
    OBVIOUS
  <2>1. x <= x
    OBVIOUS
  <2> QED
    BY <1>7, <2>1, LessToDo
<1>9. CASE pc = "choose"
  BY <1>5, <1>6, <1>7, <1>8, <1>9 DEF WorkOfPlaces
<1>10. CASE pc = "queued"
  BY <1>5, <1>6, <1>7, <1>8, <1>10 DEF WorkOfPlaces
<1>11. CASE pc \notin {"choose", "queued"}
  BY <1>5, <1>6, <1>7, <1>8, <1>11 DEF WorkOfPlaces
<1> QED
  BY <1>9, <1>10, <1>11

\* No loop of a parser is without a bound: whatever is converted or skipped, and
\* whatever inserts, reads and invalidations fail, each step of the job leaves less
\* to do, and only a worker that takes it up again gives it more
\* (base_parser.py:194-213, dispatcher.py:133-168).
JobAdvances ==
  [][/\ Work \in Nat
     /\ Parse => Work' < Work
     /\ Work' > Work => RunAgain]_vars

\* Hence a parse ends, whatever the file and the failures.
THEOREM ParsingAdvances == Spec => JobAdvances
<1> DEFINE I == Inv /\ FaultsInRange
           A == Work \in Nat /\ (Parse => Work' < Work) /\ (Work' > Work => RunAgain)
<1>1. I /\ I' /\ [Next]_vars => [A]_vars
  <2> SUFFICES ASSUME I, I', Next PROVE A
    OBVIOUS
  <2>1. Work \in Nat
    BY WorkIsWeighed DEF WorkOfPlaces
  <2>2. Work' \in Nat
    <3>1. WorkOfPlaces'
      BY WorkIsWeighed, PTL
    <3> QED
      BY <3>1 DEF WorkOfPlaces
  <2>3. Parse => Work' < Work
    BY WorkDecreases
  <2>4. ClearCache => Work' <= Work
    BY WorkIsKept DEF ClearCache
  <2>5. ASSUME NEW a \in Requests, Analyse(a) \/ \E m \in Analyses : Ask(a, m) PROVE Work' <= Work
    <3>1. UNCHANGED job /\ faults' \in {faults, faults + 1}
      BY <2>5 DEF Analyse, CompareCount, CountForCache, QueryCategory, QueryFails, CacheResults, Ask, Fail
    <3> QED
      BY <3>1, WorkIsKept
  <2>6. Work' > Work => RunAgain
    <3>1. Work' <= Work => ~(Work' > Work)
      BY <2>1, <2>2
    <3>2. Work' < Work => ~(Work' > Work)
      BY <2>1, <2>2
    <3> QED
      BY <2>3, <2>4, <2>5, <3>1, <3>2 DEF Next
  <2> QED
    BY <2>1, <2>3, <2>6
<1>2. Spec => []I
  BY InvHolds, FaultsStayInRange, PTL
<1> QED
  BY <1>1, <1>2, PTL DEF Spec, JobAdvances

\* What a request may still do: its queries, the comparison before, the store after.
Asking(a) ==
  CASE req[a].at = "count" -> Cardinality(Cats) + 3
    [] req[a].at = "query" -> Cardinality(req[a].left) + 2
    [] req[a].at = "store" -> 1
    [] OTHER -> 0

LEMMA QueriesLeft ==
  ASSUME NEW S, S \subseteq Cats
  PROVE  /\ IsFiniteSet(S) /\ Cardinality(S) \in Nat /\ Cardinality(S) <= Cardinality(Cats) /\ Cardinality(Cats) \in Nat
         /\ \A c \in S : Cardinality(S \ {c}) = Cardinality(S) - 1
  BY CatsAssumption, FS_Subset, FS_CardinalityType, FS_RemoveElement

\* No request asks for ever, whatever the parsers commit next to it: it compares once,
\* and each query is made once (execution_evidence.py:488-517). Only when it is made
\* again does it have more to do.
AnswersAdvance ==
  [][\A a \in Requests :
       /\ Asking(a) \in Nat
       /\ Analyse(a) => Asking(a)' < Asking(a)
       /\ Asking(a)' # Asking(a) => Analyse(a) \/ req[a] = NoRequest]_vars

AskingOf(a) ==
  /\ Asking(a) \in Nat
  /\ (req[a] = NoRequest => Asking(a) = 0)
  /\ (req[a].at = "count" => Asking(a) = Cardinality(Cats) + 3)
  /\ (req[a].at = "query" => /\ Asking(a) = Cardinality(req[a].left) + 2 /\ req[a].left \subseteq Cats
                             /\ Cardinality(req[a].left) \in 0..Cardinality(Cats))
  /\ (req[a].at = "store" => Asking(a) = 1)
AskingOfAll == \A a \in Requests : AskingOf(a)

LEMMA RequestsHavePlaces ==
  ASSUME Cached
  PROVE  \A a \in Requests : req[a] # NoRequest => req[a].at \in {"count", "query", "store"} /\ req[a].row \in Row
  BY DEF Cached, CacheTypes, CacheRequest

LEMMA AskingIsCounted == Cached => AskingOfAll
<1> SUFFICES ASSUME Cached, NEW a \in Requests PROVE AskingOf(a)
  BY DEF AskingOfAll
<1>1. req[a] = NoRequest => req[a].at = "idle"
  BY DEF NoRequest
<1>2. req[a] # NoRequest => req[a].at \in {"count", "query", "store"}
  BY RequestsHavePlaces
<1>3. req[a].at = "query" => req[a].left \subseteq Cats
  BY <1>1 DEF Cached, CacheTypes, CacheRequest
<1>4. req[a].at = "query" => Cardinality(req[a].left) \in 0..Cardinality(Cats)
  BY <1>3, QueriesLeft
<1>5. Cardinality(Cats) \in Nat
  BY QueriesLeft
<1>6. CASE req[a] = NoRequest
  BY <1>1, <1>6 DEF Asking, AskingOf
<1>7. CASE req[a].at \in {"count", "query", "store"}
  BY <1>1, <1>3, <1>4, <1>5, <1>7 DEF Asking, AskingOf
<1> QED
  BY <1>2, <1>6, <1>7

LEMMA AnalyseAsksLess ==
  ASSUME Cached, Cached', NEW a \in Requests, Analyse(a)
  PROVE  Asking(a)' < Asking(a)
<1>1. AskingOf(a)
  BY AskingIsCounted DEF AskingOfAll
<1>2. AskingOf(a)'
  <2>1. AskingOfAll'
    BY AskingIsCounted, PTL
  <2> QED
    BY <2>1 DEF AskingOfAll
<1> USE DEF AskingOf
<1>3. Cardinality(Cats) \in Nat /\ DOMAIN req = Requests
  BY QueriesLeft DEF Cached, CacheTypes
<1>4. CASE CompareCount(a)
  <2>1. req[a].at = "count" /\ (req'[a] = NoRequest \/ req'[a].at = "query")
    BY <1>3, <1>4, RequestIsTyped DEF CompareCount, CacheRequest
  <2> QED
    BY <1>1, <1>2, <1>3, <2>1
<1>5. ASSUME NEW c \in Cats, QueryCategory(a, c) \/ QueryFails(a, c)
      PROVE  Asking(a)' < Asking(a)
  <2>1. req[a].at = "query" /\ c \in req[a].left /\ req[a] \in CacheRequest
    BY <1>5, RequestIsTyped DEF QueryCategory, QueryFails
  <2>2. req'[a].at = "query" /\ req'[a].left = req[a].left \ {c}
    BY <1>3, <1>5, <2>1 DEF QueryCategory, QueryFails, CacheRequest
  <2>3. Cardinality(req'[a].left) = Cardinality(req[a].left) - 1
    BY <1>1, <2>1, <2>2, QueriesLeft
  <2> QED
    BY <1>1, <1>2, <1>3, <2>1, <2>2, <2>3
<1>6. CASE CountForCache(a)
  <2>1. req[a].at = "query" /\ (req'[a] = NoRequest \/ req'[a].at = "store")
    BY <1>3, <1>6, RequestIsTyped DEF CountForCache, CacheRequest
  <2> QED
    BY <1>1, <1>2, <1>3, <2>1
<1>7. ASSUME NEW ok, CacheResults(a, ok) PROVE Asking(a)' < Asking(a)
  <2>1. req[a].at = "store" /\ req'[a] = NoRequest
    BY <1>3, <1>7 DEF CacheResults
  <2> QED
    BY <1>1, <1>2, <2>1
<1> QED
  BY <1>4, <1>5, <1>6, <1>7 DEF Analyse

\* Hence every request for an analysis ends, with or without the cache.
THEOREM AnalysesComeToAnEnd == Spec => AnswersAdvance
<1> DEFINE A(a) == /\ Asking(a) \in Nat
                   /\ Analyse(a) => Asking(a)' < Asking(a)
                   /\ Asking(a)' # Asking(a) => Analyse(a) \/ req[a] = NoRequest
<1>1. Cached /\ Cached' /\ [Next]_vars => [\A a \in Requests : A(a)]_vars
  <2> SUFFICES ASSUME Cached, Cached', Next, NEW a \in Requests PROVE A(a)
    OBVIOUS
  <2>1. Asking(a) \in Nat
    BY AskingIsCounted DEF AskingOfAll, AskingOf
  <2>2. Analyse(a) => Asking(a)' < Asking(a)
    BY AnalyseAsksLess
  <2>3. UNCHANGED req[a] => Asking(a)' = Asking(a)
    BY DEF Asking
  <2>4. Parse \/ RunAgain \/ ClearCache => UNCHANGED req[a]
    BY DEF Parse, Convert, Identify, Select, EndOfFile, InsertEventBatch, InsertFails, ReadFails, InvalidateCache,
           RunAgain, ClearCache
  <2>5. ASSUME NEW b \in Requests, b # a, Analyse(b) \/ \E m \in Analyses : Ask(b, m) PROVE UNCHANGED req[a]
    <3>1. DOMAIN req = Requests
      BY DEF Cached, CacheTypes
    <3> QED
      BY <2>5, <3>1 DEF Analyse, CompareCount, CountForCache, QueryCategory, QueryFails, CacheResults, Ask
  <2>6. ASSUME NEW m \in Analyses, Ask(a, m) PROVE req[a] = NoRequest
    BY <2>6 DEF Ask
  <2>7. Asking(a)' # Asking(a) => Analyse(a) \/ req[a] = NoRequest
    BY <2>3, <2>4, <2>5, <2>6 DEF Next
  <2> QED
    BY <2>1, <2>2, <2>7
<1> QED
  BY <1>1, AlwaysCached, PTL DEF Spec, AnswersAdvance
=============================================================================
