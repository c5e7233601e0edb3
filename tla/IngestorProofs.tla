--------------------------- MODULE IngestorProofs ---------------------------
(***************************************************************************)
(* Theorems about Ingestor, for any paths, contents, chunk counts, batch   *)
(* size and faults.  Type correctness needs no further assumption.  Of the *)
(* others the first three assume that one sync runs at a time and that no  *)
(* document has more chunks than a query returns: two syncs do store chunks*)
(* twice, and a capped query leaves stale chunks behind.  What a run       *)
(* reports also needs files that hold still under it and paths that share  *)
(* no content: the chunks of a copy are stored under the other path, and   *)
(* replacing that path's file deletes them.  The last one is about any     *)
(* number of syncs at once, whose calls succeed and whose copies of the    *)
(* chunks still fit a query.                                               *)
(***************************************************************************)
EXTENDS Ingestor, FiniteSetTheorems, TLAPS

OneSyncAtATime == \A p, q \in Workers : p = q
DocumentsFitAQuery == \A c \in Contents : Chunks[c] <= TopK

-----------------------------------------------------------------------------
(* Type correctness                                                        *)

Preparing == {"marker", "count", "load"}

\* What the record of the current file holds at each stage.
RecordOK(p) ==
  /\ pc[p] \in Preparing \cup Mutating => rec[p].file \in Paths /\ rec[p].hash \in Contents
  /\ pc[p] \in Mutating => rec[p].text \in Extractable

TypeInv == TypeOK /\ \A p \in Workers : RecordOK(p)

-----------------------------------------------------------------------------
(* The inductive invariant of a single writer                              *)

\* The stored chunks of a content all come from one load of one file.
OneTextPerHash ==
  /\ \A r \in index : r.idx < Chunks[r.text]
  /\ \A r, s \in index : r.hash = s.hash => r.text = s.text

IndexInv == NoDuplicateChunks /\ OneTextPerHash /\ OneVersionPerSource

\* What the current file's stage says of the index.
StageInv(p) ==
  /\ pc[p] = "load" /\ ~rec[p].was_partial => Rows(rec[p].hash) = {}
  /\ pc[p] \in {"query", "purge"} => Rows(rec[p].hash) = {}
  /\ pc[p] = "purge" => RowsOf(rec[p].file) \subseteq doomed[p]
  /\ pc[p] = "write" =>
       /\ start[p] < Chunks[rec[p].text]
       /\ \A r \in Rows(rec[p].hash) : r.idx < start[p] /\ r.text = rec[p].text
       /\ \A r \in RowsOf(rec[p].file) : r.hash = rec[p].hash
  /\ pc[p] \notin {"write", "rollback"} => start[p] = 0

IInv == TypeInv /\ IndexInv /\ \A p \in Workers : StageInv(p)

-----------------------------------------------------------------------------
(* Every worker keeps the types; only the fields of one worker change.     *)

LEMMA SetExpected ==
  ASSUME rec \in [Workers -> Record], NEW p \in Workers, NEW n \in Nat,
         rec' = [rec EXCEPT ![p].expected = n]
  PROVE  rec' \in [Workers -> Record]
  BY DEF Record

LEMMA SetPartial ==
  ASSUME rec \in [Workers -> Record], NEW p \in Workers, NEW b \in BOOLEAN,
         rec' = [rec EXCEPT ![p].was_partial = b]
  PROVE  rec' \in [Workers -> Record]
  BY DEF Record

LEMMA SetText ==
  ASSUME rec \in [Workers -> Record], NEW p \in Workers, NEW t \in Contents,
         rec' = [rec EXCEPT ![p].text = t]
  PROVE  /\ rec' \in [Workers -> Record]
         /\ rec'[p].file = rec[p].file
         /\ rec'[p].hash = rec[p].hash
         /\ rec'[p].text = t
  BY DEF Record

LEMMA InitTypeInv == Init => TypeInv
<1> SUFFICES ASSUME Init PROVE TypeInv
  OBVIOUS
<1> USE DEF Init
<1>1. NoRecord \in Record
  BY DEF NoRecord, NewRecord, Record
<1>2. NoOutcome \in [Paths -> Outcomes]
  BY DEF NoOutcome, Outcomes
<1>3. TypeOK
  BY <1>1, <1>2 DEF TypeOK, Stages
<1>4. \A p \in Workers : RecordOK(p)
  BY DEF RecordOK, Preparing, Mutating
<1> QED BY <1>3, <1>4 DEF TypeInv

LEMMA SettleTypeInv ==
  ASSUME TypeInv, NEW p \in Workers, NEW o \in Outcomes, Settle(p, o),
         files' = files, index' \subseteq Row
  PROVE  TypeInv'
<1> USE DEF TypeInv, TypeOK, Settle
<1>1. NoRecord \in Record
  BY DEF NoRecord, NewRecord, Record
<1>2. TypeOK'
  BY <1>1 DEF Stages
<1>3. \A q \in Workers : RecordOK(q)'
  <2> TAKE q \in Workers
  <2>1. CASE q = p
    BY <2>1 DEF RecordOK, Preparing, Mutating
  <2>2. CASE q # p
    BY <2>2 DEF RecordOK
  <2> QED BY <2>1, <2>2
<1> QED BY <1>2, <1>3

LEMMA EndRunTypeInv ==
  ASSUME TypeInv, NEW p \in Workers, EndRun(p)
  PROVE  TypeInv'
<1> USE DEF TypeInv, TypeOK, EndRun, store
<1>1. NoRecord \in Record /\ NoOutcome \in [Paths -> Outcomes]
  BY DEF NoRecord, NewRecord, Record, NoOutcome, Outcomes
<1>2. TypeOK'
  BY <1>1 DEF Stages
<1>3. \A q \in Workers : RecordOK(q)'
  <2> TAKE q \in Workers
  <2>1. CASE q = p
    BY <2>1 DEF RecordOK, Preparing, Mutating
  <2>2. CASE q # p
    BY <2>2 DEF RecordOK
  <2> QED BY <2>1, <2>2
<1> QED BY <1>2, <1>3

LEMMA BatchInRange ==
  ASSUME TypeInv, NEW p \in Workers, pc[p] = "write"
  PROVE  /\ Chunks[rec[p].text] \in Nat
         /\ BatchEnd(p) \in Nat /\ BatchEnd(p) <= Chunks[rec[p].text]
         /\ Batch(p) = {i \in Nat : start[p] <= i /\ i < BatchEnd(p)}
<1>1. rec[p].text \in Contents /\ start[p] \in Nat
  BY DEF TypeInv, TypeOK, RecordOK, Mutating, Extractable
<1>2. Chunks[rec[p].text] \in Nat
  BY <1>1, ChunksAssumption
<1> QED BY <1>1, <1>2, BatchSizeAssumption DEF BatchEnd, Batch

LEMMA NewRowsType ==
  ASSUME TypeInv, NEW p \in Workers, pc[p] = "write",
         NEW I \in SUBSET Batch(p), NEW u \in 0 .. MaxCopies
  PROVE  NewRows(rec[p], I, u) \subseteq Row
<1>1. rec[p].file \in Paths /\ rec[p].hash \in Contents /\ rec[p].text \in Contents
  BY DEF TypeInv, RecordOK, Mutating, Extractable
<1>2. I \subseteq Nat
  BY BatchInRange
<1>3. u \in Nat
  BY MaxCopiesAssumption
<1> QED BY <1>1, <1>2, <1>3 DEF NewRows, Row

LEMMA StepTypeInv ==
  ASSUME TypeInv, NEW p \in Workers, StartSync(p) \/ Step(p) \/ Fail(p)
  PROVE  TypeInv'
<1> USE DEF TypeInv, TypeOK
<1>0. ASSUME NEW q \in Workers, q # p, rec'[q] = rec[q], pc'[q] = pc[q]
      PROVE  RecordOK(q)'
  BY <1>0 DEF RecordOK
<1>1. CASE StartSync(p)
  <2>1. TypeOK'
    BY <1>1 DEF StartSync, GoTo, Stages, Listed, store
  <2>2. RecordOK(p)'
    BY <1>1 DEF StartSync, GoTo, RecordOK, Preparing, Mutating
  <2> QED BY <1>0, <1>1, <2>1, <2>2 DEF StartSync, GoTo
<1>2. CASE HashFile(p)
  <2>1. PICK f \in todo[p] :
          /\ todo' = [todo EXCEPT ![p] = @ \ {f}]
          /\ \/ /\ files[f] = NoFile
                /\ outcome' = [outcome EXCEPT ![p][f] = "failed"]
                /\ UNCHANGED <<pc, rec>>
             \/ /\ files[f] # NoFile
                /\ rec' = [rec EXCEPT ![p] = NewRecord(f, files[f])]
                /\ GoTo(p, "marker")
                /\ UNCHANGED outcome
    BY <1>2 DEF HashFile
  <2>2. f \in Paths /\ UNCHANGED <<files, index, doomed, start>>
    BY <1>2 DEF HashFile, store
  <2>3. CASE files[f] = NoFile
    <3>1. TypeOK'
      BY <2>1, <2>2, <2>3 DEF Outcomes
    <3>2. RecordOK(p)'
      BY <2>1, <2>3 DEF RecordOK
    <3> QED BY <1>0, <2>1, <2>3, <3>1, <3>2
  <2>4. CASE files[f] # NoFile
    <3>1. rec'[p] \in Record /\ rec'[p].file \in Paths /\ rec'[p].hash \in Contents
      <4>1. rec'[p] = NewRecord(f, files[f]) /\ files[f] \in Contents
        BY <2>1, <2>2, <2>4
      <4> QED BY <2>2, <4>1 DEF Record, NewRecord
    <3>2. TypeOK'
      BY <2>1, <2>2, <2>4, <3>1 DEF GoTo, Stages
    <3>3. RecordOK(p)'
      BY <2>1, <2>4, <3>1 DEF RecordOK, GoTo, Mutating
    <3> QED BY <1>0, <2>1, <2>4, <3>2, <3>3 DEF GoTo
  <2> QED BY <2>3, <2>4
<1>3. CASE ReadMarker(p)
  <2>1. PICK n \in Nat : rec' = [rec EXCEPT ![p].expected = n]
    <3>1. \A r \in Rows(rec[p].hash) : Total(r) \in Nat
      BY ChunksAssumption DEF Rows, Row, Total
    <3>2. PICK n \in IF Rows(rec[p].hash) = {} THEN {0}
                     ELSE {Total(r) : r \in Rows(rec[p].hash)} :
            rec' = [rec EXCEPT ![p].expected = n]
      BY <1>3 DEF ReadMarker
    <3>3. n \in Nat
      BY <3>1
    <3> QED BY <3>2, <3>3
  <2>4. rec' \in [Workers -> Record]
    BY <2>1, SetExpected
  <2>2. TypeOK'
    BY <1>3, <2>1, <2>4 DEF ReadMarker, GoTo, Stages, store
  <2>3. RecordOK(p)'
    BY <1>3, <2>1 DEF ReadMarker, GoTo, RecordOK, Preparing, Mutating, Record
  <2> QED BY <1>0, <1>3, <2>1, <2>2, <2>3 DEF ReadMarker, GoTo
<1>4. CASE ReadCount(p)
  <2>1. CASE Settle(p, "skipped")
    BY <1>4, <2>1, SettleTypeInv DEF ReadCount, Outcomes, store
  <2>2. CASE ~Settle(p, "skipped")
    <3>1. PICK b \in BOOLEAN : rec' = [rec EXCEPT ![p].was_partial = b]
      BY <1>4, <2>2 DEF ReadCount
    <3>4. rec' \in [Workers -> Record]
      BY <3>1, SetPartial
    <3>2. TypeOK'
      BY <1>4, <2>2, <3>1, <3>4 DEF ReadCount, GoTo, Stages, store
    <3>3. RecordOK(p)'
      BY <1>4, <2>2, <3>1 DEF ReadCount, GoTo, RecordOK, Preparing, Mutating, Record
    <3> QED BY <1>0, <1>4, <2>2, <3>1, <3>2, <3>3 DEF ReadCount, GoTo
  <2> QED BY <2>1, <2>2
<1>5. CASE LoadFile(p)
  <2>1. CASE Settle(p, "failed")
    BY <1>5, <2>1, SettleTypeInv DEF LoadFile, Outcomes, store
  <2>2. CASE ~Settle(p, "failed")
    <3>1. PICK t \in Extractable : rec' = [rec EXCEPT ![p].text = t]
      BY <1>5, <2>2 DEF LoadFile
    <3>2. /\ rec' \in [Workers -> Record]
          /\ rec'[p].file \in Paths /\ rec'[p].hash \in Contents
          /\ rec'[p].text \in Extractable
      <4>1. rec[p].file \in Paths /\ rec[p].hash \in Contents /\ t \in Contents
        BY <1>5 DEF LoadFile, RecordOK, Preparing, Extractable
      <4> QED BY <3>1, <4>1, SetText
    <3>3. pc' = [pc EXCEPT ![p] = IF rec[p].was_partial THEN "clear" ELSE "query"]
      BY <1>5, <2>2 DEF LoadFile, GoTo
    <3>4. TypeOK'
      BY <1>5, <2>2, <3>1, <3>2, <3>3 DEF LoadFile, Stages, store
    <3>5. RecordOK(p)'
      BY <3>2 DEF RecordOK
    <3> QED BY <1>0, <3>1, <3>3, <3>4, <3>5
  <2> QED BY <2>1, <2>2
<1>6. CASE PrepareFails(p)
  BY <1>6, SettleTypeInv DEF PrepareFails, Outcomes, store
<1>7. CASE ClearPartial(p)
  <2>1. TypeOK'
    BY <1>7 DEF ClearPartial, GoTo, Stages
  <2>2. RecordOK(p)'
    BY <1>7 DEF ClearPartial, GoTo, RecordOK, Preparing, Mutating
  <2> QED BY <1>0, <1>7, <2>1, <2>2 DEF ClearPartial, GoTo
<1>8. CASE QueryStale(p)
  <2>1. PICK D \in SUBSET Row : doomed' = [doomed EXCEPT ![p] = D]
    BY <1>8 DEF QueryStale, QueryResults, RowsOf
  <2>2. TypeOK'
    BY <1>8, <2>1 DEF QueryStale, GoTo, Stages, store
  <2>3. RecordOK(p)'
    BY <1>8 DEF QueryStale, GoTo, RecordOK, Preparing, Mutating
  <2> QED BY <1>0, <1>8, <2>2, <2>3 DEF QueryStale, GoTo
<1>9. CASE PurgeStale(p)
  <2>1. TypeOK'
    BY <1>9 DEF PurgeStale, GoTo, Stages
  <2>2. RecordOK(p)'
    BY <1>9 DEF PurgeStale, GoTo, RecordOK, Preparing, Mutating
  <2> QED BY <1>0, <1>9, <2>1, <2>2 DEF PurgeStale, GoTo
<1>10. CASE WriteBatch(p)
  <2>1. index' \subseteq Row
    BY <1>10, NewRowsType DEF WriteBatch
  <2>2. CASE Settle(p, "processed")
    BY <1>10, <2>1, <2>2, SettleTypeInv DEF WriteBatch, Outcomes
  <2>3. CASE ~Settle(p, "processed")
    <3>1. start' = [start EXCEPT ![p] = BatchEnd(p)] /\ BatchEnd(p) \in Nat
      BY <1>10, <2>3, BatchInRange DEF WriteBatch
    <3> QED BY <1>10, <2>1, <2>3, <3>1 DEF WriteBatch, RecordOK
  <2> QED BY <2>2, <2>3
<1>11. CASE WriteFails(p)
  <2>1. index' \subseteq Row
    <3>1. CASE pc[p] = "write"
      BY <1>11, <3>1, NewRowsType DEF WriteFails
    <3>2. CASE pc[p] # "write"
      BY <1>11, <3>2 DEF WriteFails
    <3> QED BY <3>1, <3>2
  <2>2. TypeOK'
    BY <1>11, <2>1 DEF WriteFails, GoTo, Stages
  <2>3. RecordOK(p)'
    BY <1>11 DEF WriteFails, GoTo, RecordOK, Preparing, Mutating
  <2> QED BY <1>0, <1>11, <2>2, <2>3 DEF WriteFails, GoTo
<1>12. CASE Rollback(p)
  BY <1>12, SettleTypeInv DEF Rollback, Outcomes
<1>13. CASE Return(p) \/ Abort(p)
  BY <1>13, EndRunTypeInv DEF Return, Abort
<1> QED BY <1>1, <1>2, <1>3, <1>4, <1>5, <1>6, <1>7, <1>8, <1>9, <1>10, <1>11,
           <1>12, <1>13 DEF Step, Prepare, Write, Fail

LEMMA EditTypeInv ==
  ASSUME TypeInv, NEW f \in Paths, Edit(f)
  PROVE  TypeInv'
<1>1. PICK c \in Contents \cup {NoFile} : files' = [files EXCEPT ![f] = c]
  BY VersionsAssumption DEF Edit
<1>2. UNCHANGED <<index, pc, todo, rec, doomed, start, outcome>>
  BY DEF Edit
<1> QED BY <1>1, <1>2 DEF TypeInv, TypeOK, RecordOK

LEMMA NextTypeInv == TypeInv /\ [Next]_vars => TypeInv'
<1> SUFFICES ASSUME TypeInv, [Next]_vars PROVE TypeInv'
  OBVIOUS
<1>1. CASE UNCHANGED vars
  BY <1>1 DEF vars, TypeInv, TypeOK, RecordOK
<1>2. CASE Next
  BY <1>2, StepTypeInv, EditTypeInv DEF Next
<1> QED BY <1>1, <1>2

\* Every variable stays in its type, whatever the workers, edits and faults;
\* in particular only records of extractable text are ever written.
THEOREM TypeCorrect == Spec => []TypeOK
<1>1. TypeInv => TypeOK
  BY DEF TypeInv
<1> QED BY <1>1, InitTypeInv, NextTypeInv, PTL DEF Spec
-----------------------------------------------------------------------------
(* Counting: distinct positions below n make at most n chunks, and n only  *)
(* when every position is taken.                                           *)

LEMMA CountPositions ==
  ASSUME NEW S \in SUBSET Row, NEW n \in Nat,
         \A r \in S : r.idx < n,
         \A r, s \in S : r.idx = s.idx => r = s
  PROVE  /\ IsFiniteSet(S)
         /\ Cardinality(S) \in Nat
         /\ Cardinality(S) <= n
         /\ Cardinality(S) = n => \A i \in Nat : i < n => \E r \in S : r.idx = i
<1> DEFINE T == 1 .. n
           position == [r \in S |-> r.idx + 1]
<1>1. IsFiniteSet(T) /\ Cardinality(T) = n
  BY FS_Interval
<1>2. \A r \in S : r.idx \in Nat
  BY DEF Row
<1>3. position \in [S -> T]
  BY <1>2
<1>4. position \in Injection(S, T)
  BY <1>2, <1>3 DEF Injection, IsInjective
<1>5. /\ IsFiniteSet(S)
      /\ Cardinality(S) <= Cardinality(T)
      /\ Cardinality(S) = Cardinality(T) <=> position \in Surjection(S, T)
  BY <1>1, <1>4, FS_Injection
<1>6. Cardinality(S) \in Nat
  BY <1>5, FS_CardinalityType
<1>7. ASSUME Cardinality(S) = n, NEW i \in Nat, i < n
      PROVE  \E r \in S : r.idx = i
  <2>1. position \in Surjection(S, T) /\ i + 1 \in T
    BY <1>1, <1>5, <1>7
  <2>2. PICK r \in S : position[r] = i + 1
    BY <2>1 DEF Surjection
  <2> QED BY <1>2, <1>7, <2>2
<1> QED BY <1>1, <1>5, <1>6, <1>7

\* The chunks of one hash: countable, and as many as the document has only
\* when all are there.
LEMMA RowsCount ==
  ASSUME TypeInv, IndexInv, NEW h \in Contents
  PROVE  /\ IsFiniteSet(Rows(h)) /\ Cardinality(Rows(h)) \in Nat
         /\ \A r \in Rows(h) :
              Cardinality(Rows(h)) >= Total(r)
                => \A i \in Nat : i < Total(r) =>
                     \E s \in Rows(h) : s.idx = i /\ s.text = r.text
<1>1. Rows(h) \in SUBSET Row
  BY DEF Rows, TypeInv, TypeOK
<1>2. \A r, s \in Rows(h) : r.idx = s.idx => r = s
  BY DEF IndexInv, NoDuplicateChunks, Rows
<1>3. CASE Rows(h) = {}
  BY <1>3, FS_EmptySet
<1>4. ASSUME NEW r \in Rows(h)
      PROVE  /\ IsFiniteSet(Rows(h)) /\ Cardinality(Rows(h)) \in Nat
             /\ Cardinality(Rows(h)) >= Total(r)
                  => \A i \in Nat : i < Total(r) =>
                       \E s \in Rows(h) : s.idx = i /\ s.text = r.text
  <2>1. Total(r) \in Nat
    BY <1>1, ChunksAssumption DEF Total, Row
  <2>2. \A s \in Rows(h) : s.text = r.text /\ s.idx < Total(r)
    BY DEF IndexInv, OneTextPerHash, Rows, Total
  <2> QED BY <1>1, <1>2, <2>1, <2>2, CountPositions
<1> QED BY <1>3, <1>4

\* The chunks under one path fit in one query result.
LEMMA SourceFitsAQuery ==
  ASSUME TypeInv, IndexInv, DocumentsFitAQuery, NEW f \in Paths
  PROVE  Cardinality(RowsOf(f)) <= TopK
<1>1. RowsOf(f) \in SUBSET Row
  BY DEF RowsOf, TypeInv, TypeOK
<1>2. CASE RowsOf(f) = {}
  BY <1>2, FS_EmptySet, TopKAssumption
<1>3. ASSUME NEW r \in RowsOf(f)
      PROVE  Cardinality(RowsOf(f)) <= TopK
  <2>1. \A s \in RowsOf(f) : s.hash = r.hash
    BY DEF IndexInv, OneVersionPerSource, RowsOf
  <2>2. \A s \in RowsOf(f) : s.text = r.text /\ s.idx < Chunks[r.text]
    BY <2>1 DEF IndexInv, OneTextPerHash, RowsOf
  <2>3. \A s, t \in RowsOf(f) : s.idx = t.idx => s = t
    BY <2>1 DEF IndexInv, NoDuplicateChunks, RowsOf
  <2>4. r.text \in Contents
    BY <1>1 DEF Row
  <2>5. Chunks[r.text] \in Nat /\ Chunks[r.text] <= TopK
    BY <2>4, ChunksAssumption DEF DocumentsFitAQuery
  <2>6. Cardinality(RowsOf(f)) \in Nat /\ Cardinality(RowsOf(f)) <= Chunks[r.text]
    BY <1>1, <2>2, <2>3, <2>5, CountPositions
  <2> QED BY <2>5, <2>6, TopKAssumption
<1> QED BY <1>2, <1>3

-----------------------------------------------------------------------------
(* The index invariant, one kind of change at a time.                      *)

LEMMA DeletingKeepsIndexInv ==
  ASSUME IndexInv, index' \subseteq index
  PROVE  IndexInv'
  BY DEF IndexInv, NoDuplicateChunks, OneTextPerHash, OneVersionPerSource

\* Part of a batch lands after the chunks sent before it.
LEMMA LandingKeepsIndexInv ==
  ASSUME TypeInv, IndexInv, NEW p \in Workers, StageInv(p), pc[p] = "write",
         NEW I \in SUBSET Batch(p), NEW u \in 0 .. MaxCopies,
         index' = index \cup NewRows(rec[p], I, u)
  PROVE  /\ IndexInv'
         /\ \A r \in index' : r.hash = rec[p].hash =>
              r.text = rec[p].text /\ r.idx < BatchEnd(p)
         /\ \A r \in index' : r.source = rec[p].file => r.hash = rec[p].hash
<1> DEFINE new == NewRows(rec[p], I, u)
<1>1. /\ start[p] \in Nat /\ BatchEnd(p) \in Nat
      /\ start[p] <= BatchEnd(p) /\ BatchEnd(p) <= Chunks[rec[p].text]
      /\ Chunks[rec[p].text] \in Nat
      /\ \A i \in I : i \in Nat /\ start[p] <= i /\ i < BatchEnd(p)
  <2>1. start[p] \in Nat /\ start[p] < Chunks[rec[p].text]
    BY DEF TypeInv, TypeOK, StageInv
  <2> QED BY <2>1, BatchInRange, BatchSizeAssumption DEF BatchEnd
<1>2. \A r \in new : /\ r.source = rec[p].file /\ r.hash = rec[p].hash
                     /\ r.text = rec[p].text /\ r.idx \in I
  BY DEF NewRows
<1>3. \A r, s \in new : r.idx = s.idx => r = s
  BY DEF NewRows
<1>4. \A r \in index : r.hash = rec[p].hash => r.idx < start[p] /\ r.text = rec[p].text
  BY DEF StageInv, Rows
<1>5. \A r \in index : r.source = rec[p].file => r.hash = rec[p].hash
  BY DEF StageInv, RowsOf
<1>6. \A r \in index : r.idx \in Nat
  BY DEF TypeInv, TypeOK, Row
<1>7. NoDuplicateChunks'
  <2> SUFFICES ASSUME NEW r \in index', NEW s \in index', r.hash = s.hash, r.idx = s.idx
               PROVE  r = s
    BY DEF NoDuplicateChunks
  <2>1. CASE r \in index /\ s \in index
    BY <2>1 DEF IndexInv, NoDuplicateChunks
  <2>2. CASE r \in new /\ s \in new
    BY <2>2, <1>3
  <2>3. CASE (r \in new /\ s \in index) \/ (r \in index /\ s \in new)
    BY <2>3, <1>1, <1>2, <1>4, <1>6
  <2> QED BY <2>1, <2>2, <2>3
<1>8. OneTextPerHash'
  <2>1. \A r \in index' : r.idx < Chunks[r.text]
    BY <1>1, <1>2 DEF IndexInv, OneTextPerHash
  <2>2. \A r, s \in index' : r.hash = s.hash => r.text = s.text
    BY <1>2, <1>4 DEF IndexInv, OneTextPerHash
  <2> QED BY <2>1, <2>2 DEF OneTextPerHash
<1>9. OneVersionPerSource'
  BY <1>2, <1>5 DEF IndexInv, OneVersionPerSource
<1>10. \A r \in index' : r.hash = rec[p].hash => r.text = rec[p].text /\ r.idx < BatchEnd(p)
  BY <1>1, <1>2, <1>4, <1>6
<1>11. \A r \in index' : r.source = rec[p].file => r.hash = rec[p].hash
  BY <1>2, <1>5
<1> QED BY <1>7, <1>8, <1>9, <1>10, <1>11 DEF IndexInv

-----------------------------------------------------------------------------
(* The inductive step for a single writer.                                 *)

LEMMA InitIInv == Init => IInv
<1> SUFFICES ASSUME Init PROVE IInv
  OBVIOUS
<1>1. IndexInv
  BY DEF Init, IndexInv, NoDuplicateChunks, OneTextPerHash, OneVersionPerSource
<1>2. \A p \in Workers : StageInv(p)
  BY DEF Init, StageInv
<1> QED BY <1>1, <1>2, InitTypeInv DEF IInv

LEMMA SettledStageInv ==
  ASSUME TypeInv, NEW p \in Workers, NEW o, Settle(p, o)
  PROVE  StageInv(p)'
  BY DEF TypeInv, TypeOK, Settle, StageInv

LEMMA PrepareStageInv ==
  ASSUME IInv, NEW p \in Workers, Prepare(p)
  PROVE  StageInv(p)'
<1> USE DEF IInv, TypeInv, TypeOK
<1>1. CASE HashFile(p)
  BY <1>1 DEF HashFile, GoTo, StageInv
<1>2. CASE ReadMarker(p)
  BY <1>2 DEF ReadMarker, GoTo, StageInv
<1>3. CASE ReadCount(p)
  <2> DEFINE stored == CountByFileHash(rec[p].hash)
             status == IngestStatus(stored, rec[p].expected)
  <2>1. CASE Settle(p, "skipped")
    BY <2>1, SettledStageInv
  <2>2. CASE ~Settle(p, "skipped")
    <3>1. /\ status # "complete" /\ pc' = [pc EXCEPT ![p] = "load"]
          /\ rec' = [rec EXCEPT ![p].was_partial = (status = "partial")]
          /\ UNCHANGED <<index, start>> /\ pc[p] = "count"
      BY <1>3, <2>2 DEF ReadCount, GoTo, store
    <3>2. rec[p].hash \in Contents
      BY <3>1 DEF RecordOK, Preparing
    <3>3. rec'[p].hash = rec[p].hash /\ rec'[p].was_partial = (status = "partial")
      BY <3>1 DEF Record
    <3>4. ASSUME ~rec'[p].was_partial
          PROVE  Rows(rec[p].hash) = {}
      <4>1. stored = 0
        BY <3>1, <3>3, <3>4 DEF IngestStatus
      <4>2. Cardinality(Rows(rec[p].hash)) = 0
        BY <4>1, TopKAssumption DEF CountByFileHash
      <4> QED BY <3>2, <4>2, RowsCount, FS_EmptySet
    <3>5. start'[p] = 0
      BY <3>1 DEF StageInv
    <3>6. pc'[p] = "load" /\ (~rec'[p].was_partial => Rows(rec[p].hash)' = {})
      BY <3>1, <3>4 DEF Rows
    <3> QED BY <3>3, <3>5, <3>6 DEF StageInv, Rows
  <2> QED BY <2>1, <2>2
<1>4. CASE LoadFile(p)
  <2>1. CASE Settle(p, "failed")
    BY <2>1, SettledStageInv
  <2>2. CASE ~Settle(p, "failed")
    <3>1. PICK t \in Contents : rec' = [rec EXCEPT ![p].text = t]
      BY <1>4, <2>2 DEF LoadFile, Extractable
    <3>2. rec'[p].hash = rec[p].hash
      BY <3>1, SetText
    <3>3. /\ pc' = [pc EXCEPT ![p] = IF rec[p].was_partial THEN "clear" ELSE "query"]
          /\ UNCHANGED <<index, start>> /\ pc[p] = "load"
      BY <1>4, <2>2 DEF LoadFile, GoTo, store
    <3>4. rec[p].was_partial \/ Rows(rec[p].hash) = {}
      BY <3>3 DEF StageInv
    <3>5. start'[p] = 0
      BY <3>3 DEF StageInv
    <3> QED BY <3>2, <3>3, <3>4, <3>5 DEF StageInv, Rows
  <2> QED BY <2>1, <2>2
<1> QED BY <1>1, <1>2, <1>3, <1>4 DEF Prepare

LEMMA WriteInv ==
  ASSUME IInv, DocumentsFitAQuery, NEW p \in Workers, Write(p)
  PROVE  IndexInv' /\ StageInv(p)'
<1> USE DEF IInv, TypeInv, TypeOK
<1>1. CASE ClearPartial(p)
  <2>1. IndexInv'
    BY <1>1, DeletingKeepsIndexInv DEF ClearPartial
  <2>2. Rows(rec[p].hash)' = {} /\ start'[p] = 0
    BY <1>1 DEF ClearPartial, Rows, StageInv
  <2> QED BY <1>1, <2>1, <2>2 DEF ClearPartial, GoTo, StageInv
<1>2. CASE QueryStale(p)
  <2>1. rec[p].file \in Paths
    BY <1>2 DEF QueryStale, RecordOK, Mutating
  <2>2. QueryResults(RowsOf(rec[p].file)) = {RowsOf(rec[p].file)}
    BY <2>1, SourceFitsAQuery DEF QueryResults
  <2>3. doomed'[p] = {r \in RowsOf(rec[p].file) : r.hash # rec[p].hash}
    BY <1>2, <2>2 DEF QueryStale
  <2>4. Rows(rec[p].hash) = {} /\ start[p] = 0
    BY <1>2 DEF QueryStale, StageInv
  <2>5. RowsOf(rec[p].file) \subseteq doomed'[p]
    BY <2>3, <2>4 DEF Rows, RowsOf
  <2>6. UNCHANGED <<index, rec, start>> /\ pc'[p] = "purge"
    BY <1>2 DEF QueryStale, GoTo, store
  <2>7. IndexInv'
    BY <2>6, DeletingKeepsIndexInv
  <2> QED BY <2>4, <2>5, <2>6, <2>7 DEF StageInv, Rows, RowsOf
<1>3. CASE PurgeStale(p)
  <2>1. IndexInv'
    BY <1>3, DeletingKeepsIndexInv DEF PurgeStale
  <2>2. /\ Rows(rec[p].hash) = {} /\ RowsOf(rec[p].file) \subseteq doomed[p]
        /\ start[p] = 0
    BY <1>3 DEF PurgeStale, StageInv
  <2>3. UNCHANGED <<rec, start>> /\ pc'[p] = "write" /\ index' = index \ doomed[p]
    BY <1>3 DEF PurgeStale, GoTo
  <2>4. \A r \in index' : r.hash # rec[p].hash /\ r.source # rec[p].file
    BY <2>2, <2>3 DEF Rows, RowsOf
  <2>5. rec[p].text \in Extractable
    BY <1>3 DEF PurgeStale, RecordOK, Mutating
  <2>6. start'[p] < Chunks[rec'[p].text]
    BY <2>2, <2>3, <2>5, ChunksAssumption DEF Extractable
  <2> QED BY <2>1, <2>3, <2>4, <2>6 DEF StageInv, Rows, RowsOf
<1>4. CASE WriteBatch(p)
  <2>1. PICK u \in 0 .. MaxCopies : index' = index \cup NewRows(rec[p], Batch(p), u)
    BY <1>4 DEF WriteBatch
  <2>2. pc[p] = "write" /\ StageInv(p)
    BY <1>4 DEF WriteBatch
  <2>3. /\ IndexInv'
        /\ \A r \in index' : r.hash = rec[p].hash =>
             r.text = rec[p].text /\ r.idx < BatchEnd(p)
        /\ \A r \in index' : r.source = rec[p].file => r.hash = rec[p].hash
    BY <2>1, <2>2, LandingKeepsIndexInv
  <2>4. CASE Settle(p, "processed")
    BY <2>3, <2>4, SettledStageInv
  <2>5. CASE ~Settle(p, "processed")
    <3>1. /\ BatchEnd(p) # Chunks[rec[p].text]
          /\ start' = [start EXCEPT ![p] = BatchEnd(p)]
          /\ UNCHANGED <<pc, rec>>
      BY <1>4, <2>5 DEF WriteBatch
    <3>2. start'[p] = BatchEnd(p)
      BY <3>1
    <3>3. BatchEnd(p) < Chunks[rec[p].text]
      <4>1. BatchEnd(p) \in Nat /\ BatchEnd(p) <= Chunks[rec[p].text]
        BY <2>2, BatchInRange
      <4>2. Chunks[rec[p].text] \in Nat
        BY <2>2, BatchInRange
      <4>3. BatchEnd(p) # Chunks[rec[p].text]
        BY <3>1
      <4> HIDE DEF IInv, TypeInv, TypeOK
      <4> QED BY <4>1, <4>2, <4>3
    <3>4. rec' = rec /\ start'[p] < Chunks[rec'[p].text]
      BY <3>1, <3>2, <3>3
    <3> QED BY <2>2, <2>3, <3>1, <3>2, <3>4 DEF StageInv, Rows, RowsOf
  <2> QED BY <2>4, <2>5
<1> QED BY <1>1, <1>2, <1>3, <1>4 DEF Write

LEMMA FailInv ==
  ASSUME IInv, NEW p \in Workers, Fail(p) \/ Rollback(p) \/ Return(p) \/ StartSync(p)
  PROVE  IndexInv' /\ StageInv(p)'
<1> USE DEF IInv, TypeInv, TypeOK
<1>1. CASE PrepareFails(p)
  <2>1. index' = index
    BY <1>1 DEF PrepareFails, store
  <2> QED BY <1>1, <2>1, DeletingKeepsIndexInv, SettledStageInv DEF PrepareFails
<1>2. CASE WriteFails(p)
  <2>1. StageInv(p)'
    BY <1>2 DEF WriteFails, GoTo, StageInv
  <2>2. CASE pc[p] = "write"
    <3>1. PICK landed \in SUBSET Batch(p), u \in 0 .. MaxCopies :
            index' = index \cup NewRows(rec[p], landed, u)
      BY <1>2, <2>2 DEF WriteFails
    <3>2. StageInv(p)
      OBVIOUS
    <3> QED BY <2>1, <2>2, <3>1, <3>2, LandingKeepsIndexInv
  <2>3. CASE pc[p] # "write"
    <3>1. index' \subseteq index
      BY <1>2, <2>3 DEF WriteFails
    <3> QED BY <2>1, <3>1, DeletingKeepsIndexInv
  <2> QED BY <2>2, <2>3
<1>3. CASE Rollback(p)
  <2>1. index' \subseteq index
    BY <1>3 DEF Rollback
  <2> QED BY <1>3, <2>1, DeletingKeepsIndexInv, SettledStageInv DEF Rollback
<1>4. CASE Return(p) \/ Abort(p)
  <2>1. EndRun(p)
    BY <1>4 DEF Return, Abort
  <2>2. index' = index /\ StageInv(p)'
    BY <2>1 DEF EndRun, StageInv, store
  <2> QED BY <2>2, DeletingKeepsIndexInv
<1>5. CASE StartSync(p)
  <2>1. index' = index /\ StageInv(p)'
    BY <1>5 DEF StartSync, GoTo, StageInv, store
  <2> QED BY <2>1, DeletingKeepsIndexInv
<1> QED BY <1>1, <1>2, <1>3, <1>4, <1>5 DEF Fail

LEMMA NextIInv ==
  ASSUME OneSyncAtATime, DocumentsFitAQuery
  PROVE  IInv /\ [Next]_vars => IInv'
<1> SUFFICES ASSUME IInv, [Next]_vars PROVE IInv'
  OBVIOUS
<1>1. TypeInv'
  BY NextTypeInv DEF IInv
<1>2. CASE UNCHANGED vars
  BY <1>1, <1>2 DEF vars, IInv, IndexInv, NoDuplicateChunks, OneTextPerHash,
                    OneVersionPerSource, StageInv, Rows, RowsOf
<1>3. ASSUME NEW f \in Paths, Edit(f)
      PROVE  IndexInv' /\ \A p \in Workers : StageInv(p)'
  <2>1. UNCHANGED <<index, pc, rec, doomed, start>>
    BY <1>3 DEF Edit
  <2>2. IndexInv'
    BY <2>1, DeletingKeepsIndexInv DEF IInv
  <2>3. \A p \in Workers : StageInv(p)'
    BY <2>1 DEF IInv, StageInv, Rows, RowsOf
  <2> QED BY <2>2, <2>3
<1>4. ASSUME NEW p \in Workers, StartSync(p) \/ Step(p) \/ Fail(p)
      PROVE  IndexInv' /\ \A q \in Workers : StageInv(q)'
  <2>1. CASE Prepare(p)
    <3>1. index' = index
      BY <2>1 DEF Prepare, HashFile, ReadMarker, ReadCount, LoadFile, store
    <3> QED BY <2>1, <3>1, DeletingKeepsIndexInv, PrepareStageInv
            DEF IInv, OneSyncAtATime
  <2>2. CASE Write(p)
    BY <2>2, WriteInv DEF OneSyncAtATime
  <2>3. CASE Fail(p) \/ Rollback(p) \/ Return(p) \/ StartSync(p)
    BY <2>3, FailInv DEF OneSyncAtATime
  <2> QED BY <1>4, <2>1, <2>2, <2>3 DEF Step
<1> QED BY <1>1, <1>2, <1>3, <1>4 DEF Next, IInv

LEMMA SingleWriterInv ==
  ASSUME OneSyncAtATime, DocumentsFitAQuery
  PROVE  Spec => []IInv
<1>1. IInv /\ [Next]_vars => IInv'
  BY NextIInv
<1> QED BY <1>1, InitIInv, PTL DEF Spec

\* With one sync at a time no chunk is ever stored twice, although chunks are
\* added under random ids: whatever a crash or a failed rollback left of a
\* document is cleared before the document is written again.
THEOREM NoChunkTwice ==
  ASSUME OneSyncAtATime, DocumentsFitAQuery
  PROVE  Spec => []NoDuplicateChunks
<1>1. IInv => NoDuplicateChunks
  BY DEF IInv, IndexInv
<1> QED BY <1>1, SingleWriterInv, PTL

\* With one sync at a time at most one version of a path is searchable at any
\* moment, crashes between the delete and the write included.
THEOREM OneVersion ==
  ASSUME OneSyncAtATime, DocumentsFitAQuery
  PROVE  Spec => []OneVersionPerSource
<1>1. IInv => OneVersionPerSource
  BY DEF IInv, IndexInv
<1> QED BY <1>1, SingleWriterInv, PTL

\* With one sync at a time the count is a sound test of completeness: a
\* document get_ingest_status calls complete has every chunk stored.
THEOREM CompleteIsWhole ==
  ASSUME OneSyncAtATime, DocumentsFitAQuery
  PROVE  Spec => []CompleteMeansWhole
<1>1. IInv => CompleteMeansWhole
  <2> SUFFICES ASSUME IInv, NEW h \in Contents, NEW r \in Rows(h),
                      IngestStatus(CountByFileHash(h), Total(r)) = "complete",
                      NEW i \in Positions(r.text)
               PROVE  \E s \in Rows(h) : s.idx = i /\ s.text = r.text
    BY DEF CompleteMeansWhole
  <2>1. TypeInv /\ IndexInv /\ r \in index /\ r \in Row
    BY DEF IInv, TypeInv, TypeOK, Rows
  <2>2. Total(r) \in Nat /\ r.idx < Total(r) /\ r.idx \in Nat
    BY <2>1, ChunksAssumption DEF Total, Row, IndexInv, OneTextPerHash
  <2>3. IsFiniteSet(Rows(h)) /\ Cardinality(Rows(h)) \in Nat
    BY <2>1, RowsCount
  <2>4. CountByFileHash(h) \in Nat /\ CountByFileHash(h) <= Cardinality(Rows(h))
    BY <2>3, TopKAssumption DEF CountByFileHash
  <2>5. CountByFileHash(h) >= Total(r)
    BY <2>2, <2>4 DEF IngestStatus
  <2>6. Cardinality(Rows(h)) >= Total(r)
    BY <2>2, <2>3, <2>4, <2>5
  <2>7. i \in Nat /\ i < Total(r)
    BY <2>2 DEF Positions, Total
  <2> QED BY <2>1, <2>6, <2>7, RowsCount
<1> QED BY <1>1, SingleWriterInv, PTL

-----------------------------------------------------------------------------
(* What a run may report: its own files, as long as they hold still        *)

FilesHoldStill == ~EditsDuringRun
OwnVersions == \A f, g \in Paths : f # g => Versions[f] \cap Versions[g] = {}

\* A chunk is stored under the one path its content can have.
HomeInv ==
  /\ \A f \in Paths : files[f] \in Versions[f] \cup {NoFile}
  /\ \A r \in index : r.hash \in Versions[r.source] /\ r.text = r.hash

Working == Preparing \cup Mutating

\* The record is still what the file says, and what was sent has landed.
CurrentInv(p) ==
  /\ pc[p] \in Working => files[rec[p].file] = rec[p].hash
  /\ pc[p] \in Mutating => rec[p].text = rec[p].hash
  /\ pc[p] = "count" /\ Rows(rec[p].hash) # {} => rec[p].expected = Chunks[rec[p].hash]
  /\ pc[p] = "purge" => doomed[p] \subseteq RowsOf(rec[p].file)
  /\ pc[p] = "write" => \A i \in Nat : i < start[p] => \E r \in Rows(rec[p].hash) : r.idx = i

\* What the stats say by now is so, and of the files to come they say nothing.
DoneInv(p) ==
  /\ pc[p] = "idle" => outcome[p] = NoOutcome
  /\ \A f \in todo[p] : outcome[p][f] = "none"
  /\ pc[p] \in Working => outcome[p][rec[p].file] = "none" /\ rec[p].file \notin todo[p]
  /\ \A f \in Paths : outcome[p][f] \in {"skipped", "processed"} => Stored(f)

ReportInv == HomeInv /\ \A p \in Workers : CurrentInv(p) /\ DoneInv(p)

\* A step on one file leaves the chunks of the others where they are.
Elsewhere(p) == \A r \in index \cup index' : r.source # rec[p].file => (r \in index <=> r \in index')

LEMMA OwnRows ==
  ASSUME TypeInv, HomeInv, OwnVersions, NEW f \in Paths, NEW h \in Versions[f], NEW r \in Rows(h)
  PROVE  r.source = f
<1>1. r \in index /\ r.hash = h /\ r.source \in Paths /\ h \in Versions[r.source]
  BY DEF Rows, HomeInv, TypeInv, TypeOK, Row
<1> QED BY <1>1 DEF OwnVersions

LEMMA OthersStay ==
  ASSUME TypeInv, HomeInv, OwnVersions, NEW p \in Workers, Elsewhere(p), files' = files,
         NEW f \in Paths, f # rec[p].file, Stored(f)
  PROVE  Stored(f)'
<1>1. files[f] \in Versions[f] /\ files[f] \in Contents
  BY NoFileAssumption DEF HomeInv, Stored
<1>2. ASSUME NEW i \in Positions(files[f])
      PROVE  \E r \in Rows(files[f])' : r.idx = i /\ r.text = files[f]
  <2>1. PICK r \in Rows(files[f]) : r.idx = i /\ r.text = files[f]
    BY <1>2 DEF Stored, Whole
  <2>2. r.source = f /\ r \in index /\ r.hash = files[f]
    BY <1>1, <2>1, OwnRows DEF Rows
  <2>3. r \in index'
    BY <2>2 DEF Elsewhere
  <2>4. r \in Rows(files[f])'
    BY <2>2, <2>3 DEF Rows
  <2> QED BY <2>1, <2>4
<1>3. RowsOf(f)' = RowsOf(f)
  BY DEF RowsOf, Elsewhere
<1>4. Found(f)' = Found(f)
  BY <1>3 DEF Found
<1> QED BY <1>1, <1>2, <1>4 DEF Stored, Whole, Positions

\* A file is settled as what has become of it.
LEMMA SettledReport ==
  ASSUME TypeInv, HomeInv, OwnVersions, NEW p \in Workers, pc[p] \in Working, DoneInv(p),
         NEW o \in Outcomes, Settle(p, o), Elsewhere(p), files' = files,
         NEW g \in Paths, g = rec[p].file, o \in {"skipped", "processed"} => Stored(g)'
  PROVE  CurrentInv(p)' /\ DoneInv(p)'
<1>1. /\ pc'[p] = "next" /\ todo' = todo
      /\ \A f \in Paths : outcome'[p][f] = IF f = g THEN o ELSE outcome[p][f]
  BY DEF Settle, TypeInv, TypeOK, RecordOK, Working
<1>2. ASSUME NEW f \in Paths, outcome'[p][f] \in {"skipped", "processed"} PROVE Stored(f)'
  <2>1. CASE f = g
    BY <1>1, <1>2, <2>1
  <2>2. CASE f # g
    <3>1. Stored(f)
      BY <1>1, <1>2, <2>2 DEF DoneInv
    <3> QED BY <2>2, <3>1, OthersStay
  <2> QED BY <2>1, <2>2
<1>3. \A f \in todo'[p] : outcome'[p][f] = "none"
  <2>1. todo[p] \subseteq Paths
    BY DEF TypeInv, TypeOK
  <2> QED BY <1>1, <2>1 DEF DoneInv
<1>4. CurrentInv(p)'
  BY <1>1 DEF CurrentInv, Working, Preparing, Mutating
<1> QED BY <1>1, <1>2, <1>3, <1>4 DEF DoneInv, Working, Preparing, Mutating

\* As long as a file is worked on, nothing is said of it.
LEMMA WorkingReport ==
  ASSUME TypeInv, HomeInv, OwnVersions, NEW p \in Workers, pc[p] \in Working, DoneInv(p),
         pc'[p] \in Working, rec'[p].file = rec[p].file, todo' = todo, outcome' = outcome,
         Elsewhere(p), files' = files
  PROVE  DoneInv(p)'
<1>1. ASSUME NEW f \in Paths, outcome[p][f] \in {"skipped", "processed"} PROVE Stored(f)'
  <2>1. f # rec[p].file /\ Stored(f)
    BY <1>1 DEF DoneInv
  <2> QED BY <2>1, OthersStay
<1> QED BY <1>1 DEF DoneInv, Working, Preparing, Mutating

LEMMA SameIndex ==
  ASSUME NEW p \in Workers, UNCHANGED store
  PROVE  Elsewhere(p) /\ files' = files /\ index' = index
         /\ (HomeInv => HomeInv') /\ \A f \in Paths : Stored(f) => Stored(f)'
BY DEF store, Elsewhere, HomeInv, Stored, Found, Whole, Rows, RowsOf, Positions

\* What is deleted belongs to the file at hand.
LEMMA DeletedHere ==
  ASSUME TypeInv, HomeInv, OwnVersions, NEW p \in Workers, pc[p] \in Mutating, CurrentInv(p),
         NEW gone \in SUBSET (Rows(rec[p].hash) \cup RowsOf(rec[p].file)),
         index' = index \ gone, files' = files
  PROVE  Elsewhere(p) /\ HomeInv'
<1>1. rec[p].file \in Paths /\ rec[p].hash \in Contents /\ rec[p].hash = files[rec[p].file]
  BY DEF CurrentInv, Working, TypeInv, RecordOK
<1>2. rec[p].hash \in Versions[rec[p].file]
  BY <1>1, NoFileAssumption DEF HomeInv
<1>3. \A r \in gone : r.source = rec[p].file
  BY <1>1, <1>2, OwnRows DEF RowsOf
<1> QED BY <1>3 DEF Elsewhere, HomeInv

LEMMA LandedHere ==
  ASSUME TypeInv, HomeInv, NEW p \in Workers, pc[p] = "write", CurrentInv(p),
         NEW I, NEW u, index' = index \cup NewRows(rec[p], I, u), files' = files
  PROVE  Elsewhere(p) /\ HomeInv'
<1>1. /\ rec[p].file \in Paths /\ rec[p].hash \in Contents /\ rec[p].hash = files[rec[p].file]
      /\ rec[p].text = rec[p].hash
  BY DEF CurrentInv, Working, Mutating, TypeInv, RecordOK
<1>2. rec[p].hash \in Versions[rec[p].file]
  BY <1>1, NoFileAssumption DEF HomeInv
<1>3. \A r \in NewRows(rec[p], I, u) :
        r.source = rec[p].file /\ r.hash = rec[p].hash /\ r.text = rec[p].text
  BY DEF NewRows
<1> QED BY <1>1, <1>2, <1>3 DEF Elsewhere, HomeInv

LEMMA PrepareReport ==
  ASSUME IInv, ReportInv, OwnVersions, NEW p \in Workers, Prepare(p) \/ PrepareFails(p)
  PROVE  HomeInv' /\ CurrentInv(p)' /\ DoneInv(p)'
<1>1. UNCHANGED store /\ TypeInv /\ HomeInv /\ CurrentInv(p) /\ DoneInv(p)
  BY DEF Prepare, PrepareFails, HashFile, ReadMarker, ReadCount, LoadFile, IInv, ReportInv
<1>2. HomeInv' /\ Elsewhere(p) /\ files' = files /\ index' = index
      /\ \A f \in Paths : Stored(f) => Stored(f)'
  BY <1>1, SameIndex
<1>3. ASSUME NEW o \in {"skipped", "failed"}, pc[p] \in Working, Settle(p, o),
             o = "skipped" => Stored(rec[p].file)
      PROVE  CurrentInv(p)' /\ DoneInv(p)'
  <2>1. o \in Outcomes
    BY <1>3 DEF Outcomes
  <2>2. PICK g \in Paths : g = rec[p].file
    BY <1>1, <1>3 DEF TypeInv, RecordOK, Working
  <2>3. o \in {"skipped", "processed"} => Stored(g)'
    BY <1>2, <1>3, <2>2
  <2> QED BY <1>1, <1>2, <1>3, <2>1, <2>2, <2>3, SettledReport
<1>4. CASE HashFile(p)
  <2>1. PICK f \in todo[p] :
          /\ todo' = [todo EXCEPT ![p] = @ \ {f}]
          /\ \/ /\ files[f] = NoFile
                /\ outcome' = [outcome EXCEPT ![p][f] = "failed"]
                /\ UNCHANGED <<pc, rec>>
             \/ /\ files[f] # NoFile
                /\ rec' = [rec EXCEPT ![p] = NewRecord(f, files[f])]
                /\ GoTo(p, "marker")
                /\ UNCHANGED outcome
    BY <1>4 DEF HashFile
  <2>2. pc[p] = "next" /\ f \in Paths /\ todo'[p] = todo[p] \ {f} /\ todo[p] \subseteq Paths
    BY <1>1, <1>4, <2>1 DEF HashFile, TypeInv, TypeOK
  <2>3. CASE UNCHANGED <<pc, rec>>
    <3>1. \A g \in Paths : outcome'[p][g] = IF g = f THEN "failed" ELSE outcome[p][g]
      BY <1>1, <2>1, <2>2, <2>3 DEF TypeInv, TypeOK, GoTo
    <3>2. pc'[p] = "next"
      BY <2>2, <2>3
    <3>3. DoneInv(p)'
      BY <1>1, <1>2, <2>2, <3>1, <3>2 DEF DoneInv, Working, Preparing, Mutating
    <3> QED BY <1>2, <3>2, <3>3 DEF CurrentInv, Working, Preparing, Mutating
  <2>4. CASE /\ rec' = [rec EXCEPT ![p] = NewRecord(f, files[f])]
             /\ GoTo(p, "marker") /\ UNCHANGED outcome
    <3>1. pc'[p] = "marker" /\ rec'[p].file = f /\ rec'[p].hash = files[f] /\ outcome' = outcome
      BY <1>1, <2>4 DEF GoTo, NewRecord, TypeInv, TypeOK
    <3>2. DoneInv(p)'
      BY <1>1, <1>2, <2>2, <3>1 DEF DoneInv
    <3> QED BY <1>2, <3>1, <3>2 DEF CurrentInv, Mutating
  <2> QED BY <2>1, <2>3, <2>4
<1>5. CASE ReadMarker(p)
  <2>1. PICK n \in IF Rows(rec[p].hash) = {} THEN {0}
                   ELSE {Total(r) : r \in Rows(rec[p].hash)} :
          rec' = [rec EXCEPT ![p].expected = n]
    BY <1>5 DEF ReadMarker
  <2>2. /\ pc[p] = "marker" /\ pc'[p] = "count" /\ todo' = todo /\ outcome' = outcome
        /\ rec'[p].file = rec[p].file /\ rec'[p].hash = rec[p].hash /\ rec'[p].expected = n
    BY <1>1, <1>5, <2>1 DEF ReadMarker, GoTo, TypeInv, TypeOK, Record
  <2>3. pc[p] \in Working /\ pc'[p] \in Working
    BY <2>2 DEF Working, Preparing
  <2>4. DoneInv(p)'
    BY <1>1, <1>2, <2>2, <2>3, WorkingReport
  <2>5. Rows(rec[p].hash) # {} => n = Chunks[rec[p].hash]
    BY <1>1, <2>1 DEF Rows, HomeInv, Total
  <2>6. CurrentInv(p)'
    BY <1>1, <1>2, <2>2, <2>3, <2>5 DEF CurrentInv, Mutating, Rows
  <2> QED BY <1>2, <2>4, <2>6
<1>6. CASE ReadCount(p)
  <2> DEFINE h == rec[p].hash
             status == IngestStatus(CountByFileHash(h), rec[p].expected)
  <2>1. pc[p] = "count" /\ pc[p] \in Working /\ rec[p].file \in Paths /\ h \in Contents
    BY <1>1, <1>6 DEF ReadCount, Working, Preparing, TypeInv, RecordOK
  <2>2. CASE status = "complete" /\ Settle(p, "skipped")
    <3>1. IsFiniteSet(Rows(h)) /\ Cardinality(Rows(h)) \in Nat
      BY <1>1, <2>1, RowsCount DEF IInv
    <3>2. CountByFileHash(h) # 0 /\ (rec[p].expected = 0 \/ CountByFileHash(h) >= rec[p].expected)
      BY <2>2 DEF IngestStatus
    <3>3. Rows(h) # {}
      BY <3>2, FS_EmptySet, TopKAssumption DEF CountByFileHash
    <3>4. PICK r \in Rows(h) : TRUE
      BY <3>3
    <3>5. /\ r \in index /\ r.hash = h /\ r.text = h /\ r.idx \in Nat /\ r.idx < Chunks[h]
          /\ r.source = rec[p].file
      <4>1. h \in Versions[rec[p].file]
        BY <1>1, <2>1, NoFileAssumption DEF HomeInv, CurrentInv
      <4> QED BY <1>1, <2>1, <4>1, OwnRows
              DEF Rows, HomeInv, IInv, IndexInv, OneTextPerHash, TypeInv, TypeOK, Row
    <3>6. Chunks[h] \in Nat /\ rec[p].expected = Chunks[h] /\ Total(r) = Chunks[h]
      BY <1>1, <2>1, <3>3, <3>5, ChunksAssumption DEF CurrentInv, Total
    <3>7. Cardinality(Rows(h)) >= Chunks[h]
      BY <3>1, <3>2, <3>5, <3>6, TopKAssumption DEF CountByFileHash
    <3>8. \A i \in Nat : i < Chunks[h] => \E s \in Rows(h) : s.idx = i /\ s.text = h
      BY <1>1, <2>1, <3>5, <3>6, <3>7, RowsCount DEF IInv
    <3>9. Whole(h)
      BY <3>8 DEF Whole, Positions
    <3>10. Found(rec[p].file) = {h}
      BY <3>5 DEF Found, RowsOf, IInv, IndexInv, OneVersionPerSource
    <3>11. Stored(rec[p].file)
      BY <1>1, <2>1, <3>9, <3>10 DEF Stored, CurrentInv
    <3> QED BY <1>2, <1>3, <2>1, <2>2, <3>11
  <2>3. CASE /\ rec' = [rec EXCEPT ![p].was_partial = (status = "partial")]
             /\ GoTo(p, "load") /\ UNCHANGED <<todo, doomed, start, outcome>>
    <3>1. /\ pc'[p] = "load" /\ todo' = todo /\ outcome' = outcome
          /\ rec'[p].file = rec[p].file /\ rec'[p].hash = rec[p].hash
      BY <1>1, <2>3 DEF GoTo, TypeInv, TypeOK, Record
    <3>2. pc'[p] \in Working
      BY <3>1 DEF Working, Preparing
    <3>3. DoneInv(p)'
      BY <1>1, <1>2, <2>1, <3>1, <3>2, WorkingReport
    <3>4. CurrentInv(p)'
      BY <1>1, <1>2, <2>1, <3>1 DEF CurrentInv, Mutating
    <3> QED BY <1>2, <3>3, <3>4
  <2> QED BY <1>6, <2>2, <2>3 DEF ReadCount
<1>7. CASE LoadFile(p)
  <2>1. pc[p] = "load" /\ pc[p] \in Working
    BY <1>7 DEF LoadFile, Working, Preparing
  <2>2. CASE Settle(p, "failed")
    BY <1>2, <1>3, <2>1, <2>2
  <2>3. CASE /\ files[rec[p].file] \in Extractable
             /\ rec' = [rec EXCEPT ![p].text = files[rec[p].file]]
             /\ GoTo(p, IF rec[p].was_partial THEN "clear" ELSE "query")
             /\ UNCHANGED <<todo, doomed, start, outcome>>
    <3>1. /\ rec'[p].file = rec[p].file /\ rec'[p].hash = rec[p].hash
          /\ rec'[p].text = files[rec[p].file]
      <4>1. files[rec[p].file] \in Contents /\ rec \in [Workers -> Record]
        BY <1>1, <2>3 DEF Extractable, TypeInv, TypeOK
      <4> QED BY <2>3, <4>1, SetText
    <3>2. pc'[p] \in {"clear", "query"}
      BY <1>1, <2>3 DEF GoTo, TypeInv, TypeOK
    <3>3. pc'[p] \in Working
      BY <3>2 DEF Working, Mutating
    <3>4. DoneInv(p)'
      BY <1>1, <1>2, <2>1, <2>3, <3>1, <3>3, WorkingReport
    <3>5. CurrentInv(p)'
      BY <1>1, <1>2, <2>1, <3>1, <3>2 DEF CurrentInv
    <3> QED BY <1>2, <3>4, <3>5
  <2> QED BY <1>7, <2>2, <2>3 DEF LoadFile
<1>8. CASE PrepareFails(p)
  <2>1. pc[p] \in Working /\ Settle(p, "failed")
    BY <1>8 DEF PrepareFails, Working, Preparing
  <2> QED BY <1>2, <1>3, <2>1
<1> QED BY <1>4, <1>5, <1>6, <1>7, <1>8 DEF Prepare

LEMMA WriteReport ==
  ASSUME IInv, ReportInv, OwnVersions, NEW p \in Workers, Write(p)
  PROVE  HomeInv' /\ CurrentInv(p)' /\ DoneInv(p)'
<1>1. /\ TypeInv /\ HomeInv /\ CurrentInv(p) /\ DoneInv(p) /\ StageInv(p) /\ IndexInv
      /\ pc[p] \in Mutating /\ pc[p] \in Working
  BY DEF IInv, ReportInv, Write, ClearPartial, QueryStale, PurgeStale, WriteBatch, Mutating, Working
<1>2. /\ rec[p].file \in Paths /\ rec[p].hash \in Contents /\ rec[p].text = rec[p].hash
      /\ files[rec[p].file] = rec[p].hash
  BY <1>1 DEF TypeInv, RecordOK, CurrentInv
<1>3. CASE ClearPartial(p)
  <2>1. /\ index' = index \ Rows(rec[p].hash) /\ files' = files /\ rec' = rec /\ todo' = todo
        /\ outcome' = outcome /\ pc'[p] = "query"
    BY <1>1, <1>3 DEF ClearPartial, GoTo, TypeInv, TypeOK
  <2>2. HomeInv' /\ Elsewhere(p)
    BY <1>1, <2>1, DeletedHere
  <2>3. pc'[p] \in Working
    BY <2>1 DEF Working, Mutating
  <2>4. DoneInv(p)'
    BY <1>1, <2>1, <2>2, <2>3, WorkingReport
  <2> QED BY <1>2, <2>1, <2>2, <2>4 DEF CurrentInv
<1>4. CASE QueryStale(p)
  <2>1. /\ index' = index /\ files' = files /\ rec' = rec /\ todo' = todo
        /\ outcome' = outcome /\ pc'[p] = "purge" /\ UNCHANGED store
    BY <1>1, <1>4 DEF QueryStale, GoTo, TypeInv, TypeOK, store
  <2>2. HomeInv' /\ Elsewhere(p)
    BY <1>1, <2>1, SameIndex
  <2>3. pc'[p] \in Working
    BY <2>1 DEF Working, Mutating
  <2>4. DoneInv(p)'
    BY <1>1, <2>1, <2>2, <2>3, WorkingReport
  <2>5. PICK Q \in QueryResults(RowsOf(rec[p].file)) :
          doomed' = [doomed EXCEPT ![p] = {r \in Q : r.hash # rec[p].hash}]
    BY <1>4 DEF QueryStale
  <2>6. Q \subseteq RowsOf(rec[p].file)
    BY DEF QueryResults
  <2>7. doomed'[p] \subseteq RowsOf(rec[p].file)
    BY <1>1, <2>5, <2>6 DEF TypeInv, TypeOK
  <2> QED BY <1>2, <2>1, <2>2, <2>4, <2>7 DEF CurrentInv, RowsOf
<1>5. CASE PurgeStale(p)
  <2>1. /\ index' = index \ doomed[p] /\ files' = files /\ rec' = rec /\ todo' = todo
        /\ outcome' = outcome /\ pc'[p] = "write" /\ start' = start /\ pc[p] = "purge"
    BY <1>1, <1>5 DEF PurgeStale, GoTo, TypeInv, TypeOK
  <2>2. HomeInv' /\ Elsewhere(p)
    <3>1. doomed[p] \in SUBSET (Rows(rec[p].hash) \cup RowsOf(rec[p].file))
      BY <1>1, <2>1 DEF CurrentInv
    <3> QED BY <1>1, <2>1, <3>1, DeletedHere
  <2>3. pc'[p] \in Working
    BY <2>1 DEF Working, Mutating
  <2>4. DoneInv(p)'
    BY <1>1, <2>1, <2>2, <2>3, WorkingReport
  <2>5. start'[p] = 0
    BY <1>1, <2>1 DEF StageInv
  <2> QED BY <1>2, <2>1, <2>2, <2>4, <2>5 DEF CurrentInv
<1>6. CASE WriteBatch(p)
  <2> DEFINE h == rec[p].hash
  <2>1. PICK u \in 0 .. MaxCopies : index' = index \cup NewRows(rec[p], Batch(p), u)
    BY <1>6 DEF WriteBatch
  <2>2. pc[p] = "write" /\ files' = files
    BY <1>6 DEF WriteBatch
  <2>3. HomeInv' /\ Elsewhere(p)
    BY <1>1, <2>1, <2>2, LandedHere
  <2>4. /\ start[p] \in Nat /\ BatchEnd(p) \in Nat /\ BatchEnd(p) <= Chunks[h]
        /\ Chunks[h] \in Nat /\ start[p] < Chunks[h]
    <3>1. start[p] \in Nat /\ start[p] < Chunks[rec[p].text]
      BY <1>1, <2>2 DEF TypeInv, TypeOK, StageInv
    <3> QED BY <1>1, <1>2, <2>2, <3>1, BatchInRange, BatchSizeAssumption DEF BatchEnd
  <2>5. ASSUME NEW i \in Nat, i < BatchEnd(p)
        PROVE  \E r \in index' : r.hash = h /\ r.idx = i /\ r.text = h
    <3>1. CASE i < start[p]
      <4>1. PICK r \in Rows(h) : r.idx = i
        BY <1>1, <2>2, <3>1 DEF CurrentInv
      <4> QED BY <1>1, <2>1, <4>1 DEF Rows, HomeInv
    <3>2. CASE start[p] <= i
      <4>1. i \in Batch(p)
        BY <1>2, <2>4, <2>5, <3>2 DEF Batch
      <4>2. [source |-> rec[p].file, hash |-> h, idx |-> i, text |-> rec[p].text, copy |-> u]
              \in NewRows(rec[p], Batch(p), u)
        BY <4>1 DEF NewRows
      <4> QED BY <1>2, <2>1, <4>2
    <3> QED BY <2>4, <3>1, <3>2
  <2>6. CASE BatchEnd(p) = Chunks[rec[p].text] /\ Settle(p, "processed")
    <3>1. PICK g \in Paths : g = rec[p].file
      BY <1>2
    <3>2. Batch(p) \in SUBSET Batch(p)
      OBVIOUS
    <3>3. \A r \in index' : r.source = g => r.hash = h
      BY <1>1, <2>1, <2>2, <3>1, <3>2, LandingKeepsIndexInv
    <3>4. PICK c \in Contents : c = h
      BY <1>2
    <3>5. \A i \in Nat : i < Chunks[c] => \E r \in index' : r.hash = c /\ r.idx = i /\ r.text = c
      BY <1>2, <2>5, <2>6, <3>4
    <3>6. files'[g] = c /\ Whole(c)'
      BY <1>2, <2>2, <3>1, <3>4, <3>5 DEF Whole, Positions, Rows
    <3>7. \E r \in index' : r.source = g
      <4>1. start[p] \in Batch(p)
        BY <1>2, <2>4, BatchSizeAssumption DEF Batch, BatchEnd
      <4>2. [source |-> rec[p].file, hash |-> h, idx |-> start[p], text |-> rec[p].text, copy |-> u]
              \in NewRows(rec[p], Batch(p), u)
        BY <4>1 DEF NewRows
      <4> QED BY <2>1, <3>1, <4>2
    <3>8. Stored(g)'
      <4>1. Found(g)' = {c}
        BY <3>3, <3>4, <3>7 DEF Found, RowsOf
      <4> QED BY <2>2, <3>4, <3>6, <4>1 DEF Stored, Whole, Positions, Rows
    <3>9. "processed" \in Outcomes
      BY DEF Outcomes
    <3> QED BY <1>1, <2>2, <2>3, <2>6, <3>1, <3>8, <3>9, SettledReport
  <2>7. CASE start' = [start EXCEPT ![p] = BatchEnd(p)] /\ UNCHANGED <<pc, todo, rec, doomed, outcome>>
    <3>1. start'[p] = BatchEnd(p)
      BY <1>1, <2>7 DEF TypeInv, TypeOK
    <3>2. DoneInv(p)'
      BY <1>1, <2>2, <2>3, <2>7, WorkingReport
    <3>3. \A i \in Nat : i < start'[p] => \E r \in Rows(rec[p].hash)' : r.idx = i
      BY <2>5, <2>7, <3>1 DEF Rows
    <3> QED BY <1>2, <2>2, <2>3, <2>7, <3>2, <3>3 DEF CurrentInv
  <2> QED BY <1>6, <2>6, <2>7 DEF WriteBatch
<1> QED BY <1>3, <1>4, <1>5, <1>6 DEF Write

\* A call that fails, and what is left of it afterwards.
LEMMA FailReport ==
  ASSUME IInv, ReportInv, OwnVersions, NEW p \in Workers, WriteFails(p) \/ Rollback(p)
  PROVE  HomeInv' /\ CurrentInv(p)' /\ DoneInv(p)'
<1>1. /\ TypeInv /\ HomeInv /\ CurrentInv(p) /\ DoneInv(p) /\ files' = files
      /\ pc[p] \in Mutating /\ pc[p] \in Working
  BY DEF IInv, ReportInv, WriteFails, Rollback, Mutating, Working
<1>2. /\ rec[p].file \in Paths /\ rec[p].text = rec[p].hash /\ files[rec[p].file] = rec[p].hash
  BY <1>1 DEF TypeInv, RecordOK, CurrentInv
<1>3. HomeInv' /\ Elsewhere(p)
  <2>1. CASE /\ pc[p] = "write"
             /\ \E landed, u : index' = index \cup NewRows(rec[p], landed, u)
    BY <1>1, <2>1, LandedHere
  <2>2. CASE \E gone \in SUBSET (Rows(rec[p].hash) \cup RowsOf(rec[p].file)) : index' = index \ gone
    BY <1>1, <2>2, DeletedHere
  <2>3. CASE Rollback(p)
    BY <2>2, <2>3 DEF Rollback
  <2>4. CASE WriteFails(p)
    <3>1. CASE pc[p] = "clear"
      BY <2>2, <2>4, <3>1 DEF WriteFails
    <3>2. CASE pc[p] = "query"
      <4>1. index' = index \ {}
        BY <2>4, <3>2 DEF WriteFails
      <4> QED BY <2>2, <4>1
    <3>3. CASE pc[p] = "purge"
      <4>1. doomed[p] \subseteq RowsOf(rec[p].file)
        BY <1>1, <3>3 DEF CurrentInv
      <4> QED BY <2>2, <2>4, <3>3, <4>1 DEF WriteFails
    <3>4. CASE pc[p] = "write"
      BY <2>1, <2>4, <3>4 DEF WriteFails
    <3> QED BY <2>4, <3>1, <3>2, <3>3, <3>4 DEF WriteFails
  <2> QED BY <2>3, <2>4
<1>4. CASE Rollback(p)
  <2>1. "failed" \in Outcomes /\ Settle(p, "failed")
    BY <1>4 DEF Outcomes, Rollback
  <2>2. PICK g \in Paths : g = rec[p].file
    BY <1>2
  <2> QED BY <1>1, <1>3, <2>1, <2>2, SettledReport
<1>5. CASE WriteFails(p)
  <2>1. rec' = rec /\ todo' = todo /\ outcome' = outcome /\ pc'[p] = "rollback"
    BY <1>1, <1>5 DEF WriteFails, GoTo, TypeInv, TypeOK
  <2>2. pc'[p] \in Working
    BY <2>1 DEF Working, Mutating
  <2>3. DoneInv(p)'
    BY <1>1, <1>3, <2>1, <2>2, WorkingReport
  <2> QED BY <1>1, <1>2, <1>3, <2>1, <2>3 DEF CurrentInv
<1> QED BY <1>4, <1>5

\* A run starts or ends: the stats start from nothing.
LEMMA RunReport ==
  ASSUME IInv, ReportInv, NEW p \in Workers, StartSync(p) \/ EndRun(p)
  PROVE  HomeInv' /\ CurrentInv(p)' /\ DoneInv(p)'
<1>1. UNCHANGED store /\ TypeInv /\ HomeInv /\ DoneInv(p)
  BY DEF IInv, ReportInv, StartSync, EndRun
<1>2. HomeInv'
  BY <1>1, SameIndex
<1>3. pc'[p] \in {"next", "idle"} /\ outcome'[p] = NoOutcome /\ todo'[p] \subseteq Paths
  BY <1>1 DEF StartSync, EndRun, GoTo, DoneInv, TypeInv, TypeOK, Listed
<1> QED BY <1>2, <1>3 DEF CurrentInv, DoneInv, Working, Preparing, Mutating, NoOutcome

LEMMA NextReport ==
  ASSUME OneSyncAtATime, FilesHoldStill, OwnVersions
  PROVE  IInv /\ ReportInv /\ [Next]_vars => ReportInv'
<1> SUFFICES ASSUME IInv, ReportInv, [Next]_vars PROVE ReportInv'
  OBVIOUS
<1>1. CASE UNCHANGED vars
  <2>1. UNCHANGED <<files, index, pc, todo, rec, doomed, start, outcome>> /\ UNCHANGED store
    BY <1>1 DEF vars, store
  <2>2. ASSUME NEW p \in Workers PROVE CurrentInv(p)' /\ DoneInv(p)'
    <3>1. HomeInv' /\ \A f \in Paths : Stored(f) => Stored(f)'
      BY <2>1, SameIndex DEF ReportInv
    <3> QED BY <2>1, <3>1 DEF ReportInv, CurrentInv, DoneInv, Rows, RowsOf
  <2>3. HomeInv'
    BY <2>1 DEF ReportInv, HomeInv
  <2> QED BY <2>2, <2>3 DEF ReportInv
<1>2. ASSUME NEW f \in Paths, Edit(f) PROVE ReportInv'
  <2>1. /\ UNCHANGED <<index, pc, todo, rec, doomed, start, outcome>>
        /\ \A p \in Workers : pc[p] = "idle"
    BY <1>2 DEF Edit, FilesHoldStill
  <2>2. PICK c \in Versions[f] \cup {NoFile} : files' = [files EXCEPT ![f] = c]
    BY <1>2 DEF Edit
  <2>3. HomeInv'
    BY <2>1, <2>2 DEF ReportInv, HomeInv, IInv, TypeInv, TypeOK
  <2>4. \A p \in Workers : CurrentInv(p)' /\ DoneInv(p)'
    BY <2>1 DEF ReportInv, CurrentInv, DoneInv, Working, Preparing, Mutating, NoOutcome
  <2> QED BY <2>3, <2>4 DEF ReportInv
<1>3. ASSUME NEW p \in Workers, StartSync(p) \/ Step(p) \/ Fail(p) PROVE ReportInv'
  <2>1. HomeInv' /\ CurrentInv(p)' /\ DoneInv(p)'
    BY <1>3, PrepareReport, WriteReport, FailReport, RunReport
       DEF Step, Fail, Return, Abort
  <2>2. \A q \in Workers : q = p
    BY DEF OneSyncAtATime
  <2> QED BY <2>1, <2>2 DEF ReportInv
<1> QED BY <1>1, <1>2, <1>3 DEF Next

LEMMA InitReport == Init => ReportInv
BY DEF Init, ReportInv, HomeInv, CurrentInv, DoneInv, Working, Preparing, Mutating, NoOutcome

\* As long as files hold still under a sync and no two paths share a content,
\* what a returning sync counts as processed or skipped is stored whole and
\* alone under its path, whatever failed or was killed before.
THEOREM ReportHolds ==
  ASSUME OneSyncAtATime, DocumentsFitAQuery, FilesHoldStill, OwnVersions
  PROVE  Spec => []ReportIsTrue
<1>1. IInv /\ ReportInv /\ [Next]_vars => ReportInv'
  BY NextReport
<1>2. Spec => []IInv
  BY SingleWriterInv
<1>3. ReportInv => ReportIsTrue
  BY DEF ReportInv, DoneInv, ReportIsTrue
<1> QED BY <1>1, <1>2, <1>3, InitReport, PTL DEF Spec

-----------------------------------------------------------------------------
(* What a sync promises: the document store it implements                  *)

\* A file stored as it is holds every chunk of its text: it is counted complete.
LEMMA StoredCounts ==
  ASSUME TypeInv, IndexInv, DocumentsFitAQuery, NEW f \in Paths, Stored(f)
  PROVE  IngestStatus(CountByFileHash(files[f]), Chunks[files[f]]) = "complete"
<1>1. PICK h \in Contents : h = files[f]
  BY DEF Stored
<1>2. PICK n \in Nat : n = Chunks[h]
  BY ChunksAssumption
<1>3. IsFiniteSet(Rows(h)) /\ Cardinality(Rows(h)) \in Nat
  BY RowsCount
<1>4. \A i \in 0 .. n - 1 : \E r \in Rows(h) : r.idx = i
  BY <1>1, <1>2 DEF Stored, Whole, Positions
<1> DEFINE chunk == [i \in 0 .. n - 1 |-> CHOOSE r \in Rows(h) : r.idx = i]
<1>5. chunk \in Injection(0 .. n - 1, Rows(h))
  <2>1. \A i \in 0 .. n - 1 : chunk[i] \in Rows(h) /\ chunk[i].idx = i
    BY <1>4
  <2> HIDE DEF chunk
  <2>2. chunk \in [0 .. n - 1 -> Rows(h)]
    BY <2>1 DEF chunk
  <2> QED BY <2>1, <2>2 DEF Injection, IsInjective
<1>6. n <= Cardinality(Rows(h))
  BY <1>3, <1>5, FS_Injection, FS_Interval
<1>7. Rows(h) # {} /\ Cardinality(Rows(h)) # 0
  <2>1. Found(f) # {}
    BY DEF Stored
  <2>2. Rows(h) # {}
    BY <1>1, <2>1 DEF Stored, Found, RowsOf, Rows
  <2> QED BY <1>3, <2>2, FS_EmptySet
<1>8. n <= TopK
  BY <1>2 DEF DocumentsFitAQuery
<1>9. CountByFileHash(h) \in Nat /\ CountByFileHash(h) # 0 /\ CountByFileHash(h) >= n
  BY <1>3, <1>6, <1>7, <1>8, TopKAssumption DEF CountByFileHash
<1> QED BY <1>1, <1>2, <1>9 DEF IngestStatus

\* A file that is taken up is not stored as it is.
TakesUp(p) == pc[p] = "load" => ~Stored(rec[p].file)

StoreInv == IInv /\ ReportInv /\ \A p \in Workers : TakesUp(p)

LEMMA NextTakesUp ==
  ASSUME OneSyncAtATime, DocumentsFitAQuery, FilesHoldStill, StoreInv, [Next]_vars
  PROVE  \A p \in Workers : TakesUp(p)'
<1>1. CASE UNCHANGED vars
  BY <1>1 DEF vars, StoreInv, TakesUp, Stored, Found, Whole, Rows, RowsOf
<1>2. ASSUME NEW f \in Paths, Edit(f) PROVE \A p \in Workers : TakesUp(p)'
  BY <1>2 DEF Edit, FilesHoldStill, TakesUp
<1>3. ASSUME NEW p \in Workers, StartSync(p) \/ Step(p) \/ Fail(p) PROVE TakesUp(p)'
  <2>1. TypeInv /\ IndexInv /\ CurrentInv(p)
    BY DEF StoreInv, IInv, ReportInv
  <2>2. CASE ReadCount(p)
    <3> SUFFICES ASSUME pc'[p] = "load" PROVE (~Stored(rec[p].file))'
      BY DEF TakesUp
    <3>1. /\ rec'[p].file = rec[p].file /\ pc[p] = "count"
          /\ IngestStatus(CountByFileHash(rec[p].hash), rec[p].expected) # "complete"
      BY <2>1, <2>2 DEF ReadCount, Settle, TypeInv, TypeOK, Record
    <3>2. PICK f \in Paths : f = rec[p].file
      BY <2>1, <3>1 DEF TypeInv, RecordOK, Preparing
    <3>3. files[f] = rec[p].hash
      BY <2>1, <3>1, <3>2 DEF CurrentInv, Working, Preparing
    <3>4. ASSUME Stored(f) PROVE FALSE
      <4>1. Rows(rec[p].hash) # {}
        BY <3>3, <3>4 DEF Stored, Found, RowsOf, Rows
      <4>2. rec[p].expected = Chunks[files[f]]
        BY <2>1, <3>1, <3>3, <4>1 DEF CurrentInv
      <4> QED BY <2>1, <3>1, <3>3, <3>4, <4>2, StoredCounts
    <3>5. ~Stored(f)'
      BY <2>2, <3>4 DEF ReadCount, store, Stored, Found, RowsOf, Whole, Rows
    <3> QED BY <3>1, <3>2, <3>5
  <2>3. CASE ~ReadCount(p)
    <3>1. pc'[p] # "load"
      BY <1>3, <2>1, <2>3 DEF StartSync, Step, Prepare, Write, Fail, HashFile, ReadMarker, LoadFile,
         PrepareFails, ClearPartial, QueryStale, PurgeStale, WriteBatch, WriteFails, Rollback,
         Return, Abort, AtReturn, EndRun, Settle, GoTo, TypeInv, TypeOK
    <3> QED BY <3>1 DEF TakesUp
  <2> QED BY <2>2, <2>3
<1> QED BY <1>1, <1>2, <1>3 DEF Next, OneSyncAtATime

LEMMA NextStoreInv ==
  ASSUME OneSyncAtATime, DocumentsFitAQuery, FilesHoldStill, OwnVersions
  PROVE  Spec => []StoreInv
<1>1. StoreInv /\ [Next]_vars => (\A p \in Workers : TakesUp(p))'
  BY NextTakesUp
<1>2. StoreInv /\ [Next]_vars => StoreInv'
  BY <1>1, NextIInv, NextReport DEF StoreInv
<1>3. Init => StoreInv
  BY InitIInv, InitReport DEF StoreInv, Init, TakesUp
<1> QED BY <1>2, <1>3, PTL DEF Spec

\* What the store shows is the same as long as the index is.
LEMMA SameFound ==
  ASSUME index' = index
  PROVE  /\ \A f \in Paths : Found(f)' = Found(f)
         /\ [f \in Paths |-> Found(f)]' = [f \in Paths |-> Found(f)]
         /\ FoundWhole' = FoundWhole
BY DEF Found, FoundWhole, RowsOf, Whole, Rows

LEMMA SameStored ==
  ASSUME NEW f \in Paths
  PROVE  Documents!Stored(f) <=> Stored(f)
BY DEF Documents!Stored, Stored, FoundWhole

LEMMA SetReplaced ==
  ASSUME OneSyncAtATime, NEW p \in Workers, NEW b, Replaced(p)' = b
  PROVE  [q \in Workers |-> Replaced(q)]' = [[q \in Workers |-> Replaced(q)] EXCEPT ![p] = b]
BY DEF OneSyncAtATime

LEMMA Stutters ==
  ASSUME OneSyncAtATime, NEW p \in Workers, UNCHANGED <<store, outcome>>,
         Replaced(p)' = Replaced(p)
  PROVE  UNCHANGED Documents!vars
<1>1. [q \in Workers |-> Replaced(q)]' = [q \in Workers |-> Replaced(q)]
  BY DEF OneSyncAtATime
<1>2. files' = files /\ index' = index /\ outcome' = outcome
  BY DEF store
<1> QED BY <1>1, <1>2, SameFound DEF Documents!vars

\* A file is settled: the run has said what became of it and is done with it.
LEMMA Says ==
  ASSUME OneSyncAtATime, TypeInv, NEW p \in Workers, DoneInv(p), pc[p] \in Working,
         NEW f \in Paths, f = rec[p].file, NEW o, Settle(p, o)
  PROVE  Documents!Say(p, f, o)
<1>1. outcome[p][f] = "none" /\ outcome' = [outcome EXCEPT ![p][f] = o]
  BY DEF DoneInv, Settle
<1>2. Replaced(p)' = 0
  BY DEF Settle, Replaced, Mutating, TypeInv, TypeOK
<1> QED BY <1>1, <1>2, SetReplaced DEF Documents!Say

LEMMA PrepareStore ==
  ASSUME OneSyncAtATime, StoreInv, ReportInv', NEW p \in Workers, Prepare(p) \/ PrepareFails(p)
  PROVE  Documents!Next \/ UNCHANGED Documents!vars
<1>1. /\ TypeInv /\ CurrentInv(p) /\ DoneInv(p) /\ DoneInv(p)' /\ TakesUp(p)
      /\ UNCHANGED store /\ index' = index /\ files' = files
  BY DEF StoreInv, IInv, ReportInv, Prepare, PrepareFails, HashFile, ReadMarker, ReadCount,
         LoadFile, store
<1>2. /\ pc[p] \in {"next", "marker", "count", "load"}
      /\ Replaced(p) = 0
  BY DEF Prepare, PrepareFails, HashFile, ReadMarker, ReadCount, LoadFile, Replaced, Mutating
<1>3. [q \in Workers |-> Replaced(q)][p] = 0
  BY <1>2
<1>4. ASSUME NEW f \in Paths, Documents!Say(p, f, "failed") PROVE Documents!Next
  BY <1>1, <1>3, <1>4, SameFound DEF Documents!Next, Documents!Fail
<1>5. ASSUME pc[p] # "next" PROVE pc[p] \in Working /\ rec[p].file \in Paths
  BY <1>1, <1>2, <1>5 DEF Working, Preparing, TypeInv, RecordOK
<1>6. ASSUME pc[p] # "next", Settle(p, "failed") PROVE Documents!Next
  <2>1. PICK f \in Paths : f = rec[p].file
    BY <1>5, <1>6
  <2> QED BY <1>1, <1>4, <1>5, <1>6, <2>1, Says
<1>7. CASE HashFile(p)
  <2>1. PICK f \in todo[p] :
          \/ /\ outcome' = [outcome EXCEPT ![p][f] = "failed"]
             /\ UNCHANGED <<pc, rec>>
          \/ /\ GoTo(p, "marker")
             /\ UNCHANGED outcome
    BY <1>7 DEF HashFile
  <2>2. f \in Paths /\ outcome[p][f] = "none"
    BY <1>1 DEF DoneInv, TypeInv, TypeOK
  <2>3. Replaced(p)' = 0
    BY <1>1, <1>2, <2>1 DEF Replaced, Mutating, GoTo, TypeInv, TypeOK
  <2>4. CASE outcome' = [outcome EXCEPT ![p][f] = "failed"]
    <3>1. Documents!Say(p, f, "failed")
      BY <2>2, <2>3, <2>4, SetReplaced DEF Documents!Say
    <3> QED BY <1>4, <2>2, <3>1
  <2>5. CASE UNCHANGED outcome
    BY <1>1, <1>2, <2>3, <2>5, Stutters
  <2> QED BY <2>1, <2>4, <2>5
<1>8. CASE ReadMarker(p)
  <2>1. Replaced(p)' = 0 /\ outcome' = outcome
    BY <1>1, <1>8 DEF ReadMarker, Replaced, Mutating, GoTo, TypeInv, TypeOK
  <2> QED BY <1>1, <1>2, <2>1, Stutters
<1>9. CASE ReadCount(p)
  <2>1. pc[p] # "next"
    BY <1>9 DEF ReadCount
  <2>2. CASE Settle(p, "skipped")
    <3>1. PICK f \in Paths : f = rec[p].file
      BY <1>5, <2>1
    <3>2. Documents!Say(p, f, "skipped")
      BY <1>1, <1>5, <2>1, <2>2, <3>1, Says
    <3>3. outcome'[p][f] = "skipped"
      BY <1>1, <2>2, <3>1 DEF Settle, TypeInv, TypeOK
    <3>4. Stored(f)'
      BY <1>1, <3>3 DEF DoneInv
    <3>5. Stored(f)
      BY <1>1, <3>4 DEF Stored, Found, RowsOf, Whole, Rows
    <3>6. Documents!Skip(p, f)
      BY <1>1, <1>3, <3>2, <3>5, SameFound, SameStored DEF Documents!Skip
    <3> QED BY <3>6 DEF Documents!Next
  <2>3. CASE GoTo(p, "load") /\ UNCHANGED outcome
    <3>1. Replaced(p)' = 0
      BY <1>1, <2>3 DEF Replaced, Mutating, GoTo, TypeInv, TypeOK
    <3> QED BY <1>1, <1>2, <2>3, <3>1, Stutters
  <2> QED BY <1>9, <2>2, <2>3 DEF ReadCount
<1>10. CASE LoadFile(p)
  <2>1. pc[p] = "load"
    BY <1>10 DEF LoadFile
  <2>2. CASE Settle(p, "failed")
    BY <1>6, <2>1, <2>2
  <2>3. CASE /\ files[rec[p].file] \in Extractable
             /\ rec' = [rec EXCEPT ![p].text = files[rec[p].file]]
             /\ GoTo(p, IF rec[p].was_partial THEN "clear" ELSE "query")
             /\ UNCHANGED <<todo, doomed, start, outcome>>
    <3>1. PICK f \in Paths : f = rec[p].file
      BY <1>5, <2>1
    <3>2. Replaced(p)' = f
      BY <1>1, <2>3, <3>1 DEF Replaced, Mutating, GoTo, TypeInv, TypeOK, Record
    <3>3. \A q \in Workers : [r \in Workers |-> Replaced(r)][q] = 0
      BY <1>2 DEF OneSyncAtATime
    <3>4. outcome[p][f] = "none"
      BY <1>1, <1>5, <2>1, <3>1 DEF DoneInv
    <3>5. ~Documents!Stored(f)
      BY <1>1, <2>1, <3>1, SameStored DEF TakesUp
    <3>6. Documents!Begin(p, f)
      BY <1>1, <2>3, <3>1, <3>2, <3>3, <3>4, <3>5, SetReplaced, SameFound DEF Documents!Begin
    <3> QED BY <3>6 DEF Documents!Next
  <2> QED BY <1>10, <2>2, <2>3 DEF LoadFile
<1>11. CASE PrepareFails(p)
  BY <1>6, <1>11 DEF PrepareFails
<1> QED BY <1>7, <1>8, <1>9, <1>10, <1>11 DEF Prepare

LEMMA Touches ==
  ASSUME TypeInv, TypeInv', HomeInv, HomeInv', OwnVersions, NEW p \in Workers, Elsewhere(p),
         files' = files, NEW f \in Paths, f = rec[p].file,
         \A r \in index' \ index : r.hash = files[f],
         Found(f)' \in {Found(f), {}, {files[f]}}
  PROVE  Documents!Touch(f)
<1>1. ASSUME NEW g \in Paths, g # f
      PROVE  Found(g)' = Found(g) /\ (g \in FoundWhole' <=> g \in FoundWhole)
  <2>1. Found(g)' = Found(g)
    BY <1>1 DEF Found, RowsOf, Elsewhere
  <2>2. ASSUME NEW c \in Contents, Found(g) = {c} PROVE Whole(c)' <=> Whole(c)
    <3>1. PICK r \in index : r.source = g /\ r.hash = c
      BY <2>2 DEF Found, RowsOf
    <3>2. c \in Versions[g]
      BY <3>1 DEF HomeInv
    <3>3. \A s \in index \cup index' : s.hash = c => s.source = g
      <4>1. \A s \in index \cup index' : s.source \in Paths /\ s.hash \in Versions[s.source]
        BY DEF TypeInv, TypeOK, Row, HomeInv
      <4> QED BY <1>1, <3>2, <4>1 DEF OwnVersions
    <3>4. Rows(c)' = Rows(c)
      BY <1>1, <3>3 DEF Rows, Elsewhere
    <3> QED BY <3>4 DEF Whole, Positions
  <2> QED BY <2>1, <2>2 DEF FoundWhole
<1>2. [g \in Paths |-> Found(g)]' = [[g \in Paths |-> Found(g)] EXCEPT ![f] = Found(f)']
  BY <1>1
<1>3. ASSUME f \in FoundWhole', f \notin FoundWhole PROVE Found(f)' = {files[f]}
  <2>1. PICK c \in Contents : Found(f)' = {c} /\ Whole(c)'
    BY <1>3 DEF FoundWhole
  <2>2. CASE Found(f) = {c} /\ c # files[f]
    <3>1. \A r \in Rows(c)' : r \in Rows(c)
      BY <2>2 DEF Rows
    <3>2. Whole(c)
      BY <2>1, <3>1 DEF Whole, Positions
    <3> QED BY <1>3, <2>2, <3>2 DEF FoundWhole
  <2> QED BY <2>1, <2>2
<1>4. \A g \in FoundWhole \cup FoundWhole' : g \in Paths
  BY DEF FoundWhole
<1>5. \/ FoundWhole' \in {FoundWhole, FoundWhole \ {f}}
      \/ FoundWhole' = FoundWhole \cup {f} /\ [g \in Paths |-> Found(g)]'[f] = {files[f]}
  <2>1. CASE f \in FoundWhole' /\ f \notin FoundWhole
    <3>1. FoundWhole' = FoundWhole \cup {f}
      BY <1>1, <1>4, <2>1
    <3> QED BY <1>3, <2>1, <3>1
  <2>2. CASE f \in FoundWhole' /\ f \in FoundWhole
    <3>1. FoundWhole' = FoundWhole
      BY <1>1, <1>4, <2>2
    <3> QED BY <3>1
  <2>3. CASE f \notin FoundWhole'
    <3>1. FoundWhole' = FoundWhole \ {f}
      BY <1>1, <1>4, <2>3
    <3> QED BY <3>1
  <2> QED BY <2>1, <2>2, <2>3
<1>6. Found(f)' \in {[g \in Paths |-> Found(g)][f], {}, {files[f]}}
  OBVIOUS
<1> QED BY <1>2, <1>5, <1>6 DEF Documents!Touch

\* What a step of the write path does to the index.
LEMMA WriteMoves ==
  ASSUME TypeInv, NEW p \in Workers, CurrentInv(p), Write(p) \/ WriteFails(p) \/ Rollback(p)
  PROVE  /\ files' = files /\ pc[p] \in Mutating
         /\ \/ \E gone \in SUBSET (Rows(rec[p].hash) \cup RowsOf(rec[p].file)) :
                 index' = index \ gone
            \/ /\ pc[p] = "write"
               /\ \E I \in SUBSET Batch(p), u \in 0 .. MaxCopies :
                    index' = index \cup NewRows(rec[p], I, u)
<1>1. files' = files /\ pc[p] \in Mutating
  BY DEF Write, ClearPartial, QueryStale, PurgeStale, WriteBatch, WriteFails, Rollback, Mutating, store
<1>2. pc[p] = "purge" => doomed[p] \subseteq RowsOf(rec[p].file)
  BY DEF CurrentInv
<1>3. CASE index' = index
  <2>1. index' = index \ {}
    BY <1>3
  <2> QED BY <1>1, <2>1
<1>4. CASE ClearPartial(p) \/ Rollback(p)
  BY <1>1, <1>4 DEF ClearPartial, Rollback
<1>5. CASE QueryStale(p)
  BY <1>3, <1>5 DEF QueryStale, store
<1>6. CASE PurgeStale(p)
  BY <1>1, <1>2, <1>6 DEF PurgeStale
<1>7. CASE WriteBatch(p)
  <2>1. Batch(p) \in SUBSET Batch(p)
    OBVIOUS
  <2>2. PICK u \in 0 .. MaxCopies : index' = index \cup NewRows(rec[p], Batch(p), u)
    BY <1>7 DEF WriteBatch
  <2>3. pc[p] = "write"
    BY <1>7 DEF WriteBatch
  <2> QED BY <1>1, <2>1, <2>2, <2>3
<1>8. CASE WriteFails(p)
  <2>1. CASE pc[p] = "clear"
    BY <1>1, <1>8, <2>1 DEF WriteFails
  <2>2. CASE pc[p] = "query"
    BY <1>3, <1>8, <2>2 DEF WriteFails
  <2>3. CASE pc[p] = "purge"
    <3>1. PICK gone \in SUBSET doomed[p] : index' = index \ gone
      BY <1>8, <2>3 DEF WriteFails
    <3> QED BY <1>1, <1>2, <2>3, <3>1
  <2>4. CASE pc[p] = "write"
    BY <1>1, <1>8, <2>4 DEF WriteFails
  <2> QED BY <1>8, <2>1, <2>2, <2>3, <2>4 DEF WriteFails
<1> QED BY <1>4, <1>5, <1>6, <1>7, <1>8 DEF Write

LEMMA WriteStore ==
  ASSUME OneSyncAtATime, OwnVersions, StoreInv, IInv', ReportInv', NEW p \in Workers,
         Write(p) \/ WriteFails(p) \/ Rollback(p)
  PROVE  Documents!Next
<1>1. /\ TypeInv /\ TypeInv' /\ IndexInv /\ HomeInv /\ HomeInv' /\ CurrentInv(p) /\ DoneInv(p)
      /\ DoneInv(p)' /\ StageInv(p)
  BY DEF StoreInv, IInv, ReportInv
<1>2. pc[p] \in Mutating /\ pc[p] \in Working /\ files' = files
  BY <1>1, WriteMoves DEF Working
<1>3. PICK f \in Paths : f = rec[p].file
  BY <1>1, <1>2 DEF TypeInv, RecordOK
<1>4. rec[p].hash = files[f]
  BY <1>1, <1>2, <1>3 DEF CurrentInv
<1>5. Documents!Touch(f)
  <2>1. CASE \E gone \in SUBSET (Rows(rec[p].hash) \cup RowsOf(rec[p].file)) : index' = index \ gone
    <3>1. Elsewhere(p)
      BY <1>1, <1>2, <2>1, DeletedHere
    <3>2. index' \subseteq index
      BY <2>1
    <3>3. Found(f)' \in {Found(f), {}}
      BY <1>1, <3>2 DEF Found, RowsOf, IndexInv, OneVersionPerSource
    <3> QED BY <1>1, <1>2, <1>3, <3>1, <3>2, <3>3, Touches
  <2>2. CASE /\ pc[p] = "write"
             /\ \E I \in SUBSET Batch(p), u \in 0 .. MaxCopies :
                  index' = index \cup NewRows(rec[p], I, u)
    <3>1. PICK I \in SUBSET Batch(p), u \in 0 .. MaxCopies :
            index' = index \cup NewRows(rec[p], I, u)
      BY <2>2
    <3>2. Elsewhere(p)
      BY <1>1, <1>2, <2>2, <3>1, LandedHere
    <3>3. \A r \in index' : r.source = f => r.hash = files[f]
      BY <1>1, <1>3, <1>4, <2>2, <3>1, LandingKeepsIndexInv
    <3>4. Found(f)' \in {{}, {files[f]}}
      BY <1>2, <3>3 DEF Found, RowsOf
    <3>5. \A r \in index' \ index : r.hash = files[f]
      BY <1>4, <3>1 DEF NewRows
    <3> QED BY <1>1, <1>2, <1>3, <3>2, <3>4, <3>5, Touches
  <2> QED BY <1>1, <2>1, <2>2, WriteMoves
<1>6. [q \in Workers |-> Replaced(q)][p] = f
  BY <1>2, <1>3 DEF Replaced
<1>7. CASE Settle(p, "failed")
  <2>1. Documents!Say(p, f, "failed")
    BY <1>1, <1>2, <1>3, <1>7, Says
  <2> QED BY <1>5, <1>6, <2>1 DEF Documents!Next, Documents!GiveUp
<1>8. CASE Settle(p, "processed")
  <2>1. Documents!Say(p, f, "processed")
    BY <1>1, <1>2, <1>3, <1>8, Says
  <2>2. outcome'[p][f] = "processed"
    BY <1>1, <1>3, <1>8 DEF Settle, TypeInv, TypeOK
  <2>3. Stored(f)'
    BY <1>1, <2>2 DEF DoneInv
  <2>4. Documents!Stored(f)'
    BY <2>3 DEF Documents!Stored, Stored, FoundWhole
  <2> QED BY <1>5, <1>6, <2>1, <2>4 DEF Documents!Next, Documents!Finish
<1>9. CASE outcome' = outcome /\ rec' = rec /\ pc'[p] \in Mutating
  <2>1. [q \in Workers |-> Replaced(q)]' = [q \in Workers |-> Replaced(q)]
    BY <1>2, <1>9 DEF OneSyncAtATime, Replaced
  <2> QED BY <1>5, <1>6, <1>9, <2>1 DEF Documents!Next, Documents!Change
<1>10. Settle(p, "failed") \/ Settle(p, "processed")
       \/ (outcome' = outcome /\ rec' = rec /\ pc'[p] \in Mutating)
  BY <1>1, <1>2 DEF Write, ClearPartial, QueryStale, PurgeStale, WriteBatch, WriteFails, Rollback,
     GoTo, Mutating, TypeInv, TypeOK
<1> QED BY <1>7, <1>8, <1>9, <1>10

\* Every step of a sync is a step of the document store, or none.
LEMMA StepStore ==
  ASSUME OneSyncAtATime, DocumentsFitAQuery, FilesHoldStill, OwnVersions, StoreInv, [Next]_vars
  PROVE  [Documents!Next]_(Documents!vars)
<1>1. IInv' /\ ReportInv' /\ TypeInv
  BY NextIInv, NextReport DEF StoreInv, IInv
<1>2. CASE UNCHANGED vars
  <2>1. UNCHANGED <<files, index, outcome>> /\ \A p \in Workers : Replaced(p)' = Replaced(p)
    BY <1>2 DEF vars, Replaced
  <2> QED BY <2>1, SameFound DEF Documents!vars
<1>3. ASSUME NEW f \in Paths, Edit(f) PROVE Documents!Next
  <2>1. /\ UNCHANGED <<index, pc, rec, outcome>>
        /\ \A p \in Workers : pc[p] = "idle"
    BY <1>3 DEF Edit, FilesHoldStill
  <2>2. PICK c \in Versions[f] \cup {NoFile} : files' = [files EXCEPT ![f] = c]
    BY <1>3 DEF Edit
  <2>3. \A p \in Workers : Replaced(p) = 0 /\ Replaced(p)' = 0 /\ outcome[p] = Documents!NoReport
    BY <2>1 DEF Replaced, Mutating, StoreInv, ReportInv, DoneInv, NoOutcome, Documents!NoReport
  <2>4. c \in Contents \cup {NoFile}
    BY VersionsAssumption
  <2> QED BY <2>1, <2>2, <2>3, <2>4, SameFound DEF Documents!Next, Documents!Edit
<1>4. ASSUME NEW p \in Workers, StartSync(p) \/ Step(p) \/ Fail(p)
      PROVE  Documents!Next \/ UNCHANGED Documents!vars
  <2>1. CASE StartSync(p)
    <3>1. Replaced(p)' = Replaced(p) /\ UNCHANGED <<store, outcome>>
      BY <1>1, <2>1 DEF StartSync, Replaced, Mutating, GoTo, TypeInv, TypeOK
    <3> QED BY <3>1, Stutters
  <2>2. CASE Prepare(p) \/ PrepareFails(p)
    BY <1>1, <2>2, PrepareStore
  <2>3. CASE Write(p) \/ WriteFails(p) \/ Rollback(p)
    BY <1>1, <2>3, WriteStore
  <2>4. CASE EndRun(p)
    <3>1. UNCHANGED store /\ Replaced(p)' = 0 /\ index' = index /\ files' = files
          /\ outcome' = [outcome EXCEPT ![p] = Documents!NoReport]
      BY <1>1, <2>4 DEF EndRun, Replaced, Mutating, TypeInv, TypeOK, store, NoOutcome, Documents!NoReport
    <3>2. Documents!Stop(p)
      BY <3>1, SetReplaced, SameFound DEF Documents!Stop
    <3> QED BY <3>2 DEF Documents!Next
  <2> QED BY <1>4, <2>1, <2>2, <2>3, <2>4 DEF Step, Fail, Return, Abort
<1> QED BY <1>2, <1>3, <1>4 DEF Next

LEMMA InitStore == Init => Documents!Init
<1> SUFFICES ASSUME Init PROVE Documents!Init
  OBVIOUS
<1>1. \A f \in Paths : Found(f) = {}
  BY DEF Init, Found, RowsOf
<1>2. FoundWhole = {}
  BY <1>1 DEF FoundWhole
<1>3. \A p \in Workers : Replaced(p) = 0
  BY DEF Init, Replaced, Mutating
<1> QED BY <1>1, <1>2, <1>3 DEF Init, Documents!Init, NoOutcome, Documents!NoReport

\* A sync implements the document store: it replaces one path at a time and
\* leaves the others as they are, never shows two versions of a path, never
\* takes up a path that is stored as it is, and tells the truth of each.
THEOREM SyncIsAStore ==
  ASSUME OneSyncAtATime, DocumentsFitAQuery, FilesHoldStill, OwnVersions
  PROVE  Spec => ImplementsStore
<1>1. StoreInv /\ [Next]_vars => [Documents!Next]_(Documents!vars)
  BY StepStore
<1> QED BY <1>1, InitStore, NextStoreInv, PTL DEF Spec, ImplementsStore, Documents!Spec

\* What is stored stays stored, through the failures, crashes and rollbacks of
\* the other files of every run: a path loses its chunks only while a run
\* replaces it, and no run takes up a path that is stored as its file is.
StoredStays ==
  [][\A f \in Paths : /\ Stored(f)
                      /\ files'[f] = files[f]
                      /\ \A p \in Workers : Replaced(p) # f
                      => Stored(f)']_vars

THEOREM NothingStoredIsLost ==
  ASSUME OneSyncAtATime, DocumentsFitAQuery, FilesHoldStill, OwnVersions
  PROVE  Spec => StoredStays
<1>1. ASSUME StoreInv, [Next]_vars, NEW f \in Paths, Stored(f), files'[f] = files[f],
             \A p \in Workers : Replaced(p) # f
      PROVE  Stored(f)'
  <2>1. [Documents!Next]_(Documents!vars)
    BY <1>1, StepStore
  <2>2. f \in FoundWhole /\ Found(f) = {files[f]}
    BY <1>1 DEF Stored, FoundWhole
  <2>3. f \in FoundWhole' /\ Found(f)' = Found(f)
    <3>1. CASE UNCHANGED Documents!vars
      <4>1. [g \in Paths |-> Found(g)]'[f] = [g \in Paths |-> Found(g)][f] /\ FoundWhole' = FoundWhole
        BY <3>1 DEF Documents!vars
      <4> QED BY <2>2, <4>1
    <3>2. ASSUME NEW p \in Workers, NEW g \in Paths,
                 \/ Documents!Change(p, g) \/ Documents!Finish(p, g) \/ Documents!GiveUp(p, g)
          PROVE  f \in FoundWhole' /\ Found(f)' = Found(f)
      <4>1. Replaced(p) = g /\ Documents!Touch(g)
        BY <3>2 DEF Documents!Change, Documents!Finish, Documents!GiveUp
      <4>2. g # f
        BY <1>1, <4>1
      <4>3. /\ [h \in Paths |-> Found(h)]'[f] = [h \in Paths |-> Found(h)][f]
            /\ f \in FoundWhole'
        BY <2>2, <4>1, <4>2 DEF Documents!Touch
      <4> QED BY <4>3
    <3>3. ASSUME [g \in Paths |-> Found(g)]' = [g \in Paths |-> Found(g)], FoundWhole' = FoundWhole
          PROVE  f \in FoundWhole' /\ Found(f)' = Found(f)
      <4>1. [g \in Paths |-> Found(g)]'[f] = [g \in Paths |-> Found(g)][f]
        BY <3>3
      <4> QED BY <2>2, <3>3, <4>1
    <3>4. CASE \E p \in Workers, g \in Paths :
                 Documents!Skip(p, g) \/ Documents!Fail(p, g) \/ Documents!Begin(p, g)
      BY <3>3, <3>4 DEF Documents!Skip, Documents!Fail, Documents!Begin
    <3>5. CASE (\E p \in Workers : Documents!Stop(p)) \/ (\E g \in Paths : Documents!Edit(g))
      BY <3>3, <3>5 DEF Documents!Stop, Documents!Edit
    <3> QED BY <2>1, <3>1, <3>2, <3>4, <3>5 DEF Documents!Next
  <2>4. files[f] \in Contents
    BY <1>1 DEF Stored
  <2> QED BY <1>1, <2>2, <2>3, <2>4 DEF Stored, FoundWhole
<1>2. StoreInv /\ [Next]_vars =>
        [\A f \in Paths : /\ Stored(f)
                          /\ files'[f] = files[f]
                          /\ \A p \in Workers : Replaced(p) # f
                          => Stored(f)']_vars
  BY <1>1
<1> QED BY <1>2, NextStoreInv, PTL DEF Spec, StoredStays

-----------------------------------------------------------------------------
(* Several syncs at once: who has to complete a half-written document      *)

\* No call of the write path fails and no run is killed.
CallsSucceed == Faults \subseteq {"prepare"}

\* All that may ever be stored under a path is one query's worth.
CopiesOf(f) ==
  {r \in Row : /\ r.source = f /\ r.hash \in Versions[f] /\ r.text = r.hash
               /\ r.idx < Chunks[r.text] /\ r.copy <= MaxCopies}
CopiesFitAQuery ==
  \A f \in Paths : IsFiniteSet(CopiesOf(f)) /\ Cardinality(CopiesOf(f)) <= TopK

\* What a worker knows while others write as well: its record is what the file says, and
\* all that is stale under its path is doomed.
HeldInv(p) ==
  /\ pc[p] # "rollback"
  /\ pc[p] \in Working => files[rec[p].file] = rec[p].hash
  /\ pc[p] \in Mutating => rec[p].text = rec[p].hash
  /\ pc[p] # "write" => start[p] = 0
  /\ pc[p] = "purge" =>
       /\ \A r \in doomed[p] : r.source = rec[p].file /\ r.hash # rec[p].hash
       /\ \A r \in RowsOf(rec[p].file) : r.hash # rec[p].hash => r \in doomed[p]

\* Everything p has sent of h is there, and it goes on to send the rest.
Completes(p, h) ==
  /\ rec[p].hash = h
  /\ \/ pc[p] \in {"clear", "query", "purge"}
     \/ /\ pc[p] = "write"
        /\ \A i \in Nat : i < start[p] => \E r \in Rows(h) : r.idx = i /\ r.text = h

PartInv(h) ==
  \/ Rows(h) = {} /\ \A p \in Workers : ~(pc[p] = "write" /\ rec[p].hash = h)
  \/ Whole(h)
  \/ \E p \in Workers : Completes(p, h)

ManyInv ==
  /\ TypeInv /\ HomeInv
  /\ \A r \in index : r \in CopiesOf(r.source)
  /\ \A p \in Workers : HeldInv(p)
  /\ \A h \in Contents : PartInv(h)

\* What the other workers see of a step of p.
Alone(p) ==
  \A q \in Workers \ {p} : /\ pc'[q] = pc[q] /\ rec'[q] = rec[q]
                            /\ doomed'[q] = doomed[q] /\ start'[q] = start[q]

LEMMA StepsAlone ==
  ASSUME TypeInv, NEW p \in Workers, StartSync(p) \/ Step(p) \/ Fail(p)
  PROVE  Alone(p)
<1> USE DEF TypeInv, TypeOK, Alone
<1>1. CASE (\E o \in Outcomes : Settle(p, o)) \/ EndRun(p)
  BY <1>1 DEF Settle, EndRun
<1>2. CASE StartSync(p) \/ HashFile(p) \/ ReadMarker(p)
  BY <1>2 DEF StartSync, HashFile, ReadMarker, GoTo
<1>3. CASE ReadCount(p) \/ LoadFile(p) \/ PrepareFails(p)
  BY <1>1, <1>3 DEF ReadCount, LoadFile, PrepareFails, GoTo, Outcomes
<1>4. CASE ClearPartial(p) \/ QueryStale(p) \/ PurgeStale(p)
  BY <1>4 DEF ClearPartial, QueryStale, PurgeStale, GoTo
<1>5. CASE WriteBatch(p)
  BY <1>1, <1>5 DEF WriteBatch, Outcomes
<1>6. CASE WriteFails(p) \/ Rollback(p) \/ Return(p) \/ Abort(p)
  BY <1>1, <1>6 DEF WriteFails, Rollback, Return, Abort, GoTo, Outcomes
<1> QED BY <1>2, <1>3, <1>4, <1>5, <1>6 DEF Step, Prepare, Write, Fail

\* What others hold stands as long as what lands under their path is current.
LEMMA OthersHold ==
  ASSUME ManyInv, NEW p \in Workers, Alone(p), files' = files, NEW q \in Workers \ {p},
         \A r \in index' \ index : r.source = rec[q].file => r.hash = rec[q].hash
  PROVE  HeldInv(q)'
<1>1. /\ pc'[q] = pc[q] /\ rec'[q] = rec[q] /\ doomed'[q] = doomed[q] /\ start'[q] = start[q]
  BY DEF Alone
<1>2. HeldInv(q)
  BY DEF ManyInv
<1>3. ASSUME pc[q] = "purge", NEW r \in index', r.source = rec[q].file, r.hash # rec[q].hash
      PROVE  r \in doomed[q]
  BY <1>2, <1>3 DEF HeldInv, RowsOf
<1> QED BY <1>1, <1>2, <1>3 DEF HeldInv, RowsOf

LEMMA HashIsHome ==
  ASSUME ManyInv, NEW p \in Workers, pc[p] \in Working
  PROVE  /\ rec[p].file \in Paths /\ rec[p].hash \in Contents
         /\ rec[p].hash = files[rec[p].file] /\ rec[p].hash \in Versions[rec[p].file]
<1>1. /\ rec[p].file \in Paths /\ rec[p].hash \in Contents
      /\ rec[p].hash = files[rec[p].file]
  BY DEF ManyInv, HeldInv, Working, TypeInv, RecordOK
<1> QED BY <1>1, NoFileAssumption DEF ManyInv, HomeInv

\* The steps after which nothing else is stored.
Quiet(p) ==
  \/ StartSync(p) \/ Prepare(p) \/ PrepareFails(p) \/ QueryStale(p) \/ Return(p)

LEMMA QuietHeld ==
  ASSUME ManyInv, CopiesFitAQuery, NEW p \in Workers, Quiet(p)
  PROVE  HeldInv(p)'
<1> USE DEF Working, Preparing, Mutating
<1>0. TypeInv /\ TypeOK /\ HeldInv(p)
  BY DEF ManyInv, TypeInv
<1>1. CASE (\E o \in Outcomes : Settle(p, o)) \/ EndRun(p)
  BY <1>0, <1>1 DEF Settle, EndRun, TypeOK, HeldInv
<1>2. CASE StartSync(p)
  BY <1>0, <1>2 DEF StartSync, GoTo, TypeOK, HeldInv
<1>3. CASE HashFile(p)
  <2>1. /\ files' = files /\ pc[p] = "next" /\ start' = start
        /\ \/ pc' = pc /\ rec' = rec
           \/ \E f \in Paths : pc'[p] = "marker" /\ rec'[p] = NewRecord(f, files[f])
    BY <1>0, <1>3 DEF HashFile, GoTo, TypeOK, store
  <2>2. CASE pc' = pc /\ rec' = rec
    BY <1>0, <2>1, <2>2 DEF HeldInv
  <2>3. ASSUME NEW f \in Paths, pc'[p] = "marker", rec'[p] = NewRecord(f, files[f])
        PROVE  HeldInv(p)'
    <3>1. rec'[p].file = f /\ rec'[p].hash = files[f]
      BY <2>3 DEF NewRecord
    <3> QED BY <1>0, <2>1, <2>3, <3>1 DEF HeldInv
  <2> QED BY <2>1, <2>2, <2>3
<1>4. CASE ReadMarker(p)
  <2>1. /\ files' = files /\ pc[p] = "marker" /\ pc'[p] = "count" /\ start' = start
        /\ rec'[p].file = rec[p].file /\ rec'[p].hash = rec[p].hash
    BY <1>0, <1>4 DEF ReadMarker, GoTo, TypeOK, Record, store
  <2> QED BY <1>0, <2>1 DEF HeldInv
<1>5. CASE ReadCount(p) /\ ~ \E o \in Outcomes : Settle(p, o)
  <2>1. /\ files' = files /\ pc[p] = "count" /\ pc'[p] = "load" /\ start' = start
        /\ rec'[p].file = rec[p].file /\ rec'[p].hash = rec[p].hash
    BY <1>0, <1>5 DEF ReadCount, GoTo, TypeOK, Record, store, Outcomes
  <2> QED BY <1>0, <2>1 DEF HeldInv
<1>6. CASE LoadFile(p) /\ ~ \E o \in Outcomes : Settle(p, o)
  <2>1. /\ files' = files /\ pc[p] = "load" /\ pc'[p] \in {"clear", "query"} /\ start' = start
        /\ rec'[p].file = rec[p].file /\ rec'[p].hash = rec[p].hash
        /\ rec'[p].text = files[rec[p].file]
    BY <1>0, <1>6 DEF LoadFile, GoTo, TypeOK, Record, store, Outcomes
  <2> QED BY <1>0, <2>1 DEF HeldInv
<1>7. CASE QueryStale(p)
  <2> DEFINE f == rec[p].file
             S == RowsOf(f)
  <2>1. pc[p] = "query" /\ pc'[p] = "purge" /\ UNCHANGED <<files, index, rec, start>>
    BY <1>0, <1>7 DEF QueryStale, GoTo, TypeOK, store
  <2>2. f \in Paths
    BY <2>1, HashIsHome
  <2>3. Cardinality(S) <= TopK
    <3>1. S \subseteq CopiesOf(f)
      BY DEF ManyInv, RowsOf
    <3>2. IsFiniteSet(CopiesOf(f)) /\ Cardinality(CopiesOf(f)) <= TopK
      BY <2>2 DEF CopiesFitAQuery
    <3>3. /\ Cardinality(S) \in Nat /\ Cardinality(CopiesOf(f)) \in Nat
          /\ Cardinality(S) <= Cardinality(CopiesOf(f))
      BY <3>1, <3>2, FS_Subset, FS_CardinalityType
    <3> HIDE DEF S
    <3> QED BY <3>2, <3>3, TopKAssumption
  <2>4. QueryResults(S) = {S}
    BY <2>3 DEF QueryResults
  <2>5. doomed'[p] = {r \in S : r.hash # rec[p].hash}
    BY <1>0, <1>7, <2>4 DEF QueryStale, TypeOK
  <2> QED BY <1>0, <2>1, <2>5 DEF HeldInv, RowsOf
<1>8. CASE PrepareFails(p) \/ Return(p)
  BY <1>1, <1>8 DEF PrepareFails, Return, Outcomes
<1> QED BY <1>1, <1>2, <1>3, <1>4, <1>5, <1>6, <1>7, <1>8 DEF Quiet, Prepare

\* Who completes a document goes on to.
LEMMA QuietMoves ==
  ASSUME ManyInv, NEW p \in Workers, Quiet(p)
  PROVE  /\ UNCHANGED <<files, index>> /\ pc'[p] # "write"
         /\ \A h \in Contents : Completes(p, h) => Completes(p, h)'
<1>0. TypeOK
  BY DEF ManyInv, TypeInv
<1>1. CASE StartSync(p) \/ HashFile(p) \/ ReadMarker(p)
  BY <1>0, <1>1 DEF StartSync, HashFile, ReadMarker, GoTo, store, TypeOK, Completes
<1>2. CASE ReadCount(p) \/ LoadFile(p) \/ PrepareFails(p)
  BY <1>0, <1>2 DEF ReadCount, LoadFile, PrepareFails, Settle, GoTo, store, TypeOK, Completes
<1>3. CASE QueryStale(p)
  BY <1>0, <1>3 DEF QueryStale, GoTo, store, TypeOK, Completes
<1>4. CASE Return(p)
  BY <1>0, <1>4 DEF Return, AtReturn, EndRun, store, TypeOK, Completes
<1> QED BY <1>1, <1>2, <1>3, <1>4 DEF Quiet, Prepare

LEMMA QuietMany ==
  ASSUME ManyInv, CopiesFitAQuery, NEW p \in Workers, Quiet(p), Alone(p), TypeInv'
  PROVE  ManyInv'
<1>1. /\ UNCHANGED <<files, index>> /\ pc'[p] # "write"
      /\ \A h \in Contents : Completes(p, h) => Completes(p, h)'
  BY QuietMoves
<1>2. \A q \in Workers : HeldInv(q)'
  BY <1>1, QuietHeld, OthersHold
<1>3. HomeInv' /\ (\A r \in index : r \in CopiesOf(r.source))'
  BY <1>1 DEF ManyInv, HomeInv, CopiesOf
<1>4. ASSUME NEW h \in Contents PROVE PartInv(h)'
  <2>1. Rows(h)' = Rows(h) /\ Whole(h)' = Whole(h)
    BY <1>1 DEF Rows, Whole, Positions
  <2>2. \A q \in Workers : Completes(q, h) => Completes(q, h)'
    BY <1>1, <2>1 DEF Alone, Completes
  <2>3. \A q \in Workers : pc'[q] = "write" => pc[q] = "write" /\ rec'[q] = rec[q]
    BY <1>1 DEF Alone
  <2> QED BY <2>1, <2>2, <2>3 DEF ManyInv, PartInv
<1> QED BY <1>2, <1>3, <1>4 DEF ManyInv


\* A step that changes no chunk of h, of a worker that is not completing h.
LEMMA PartApart ==
  ASSUME NEW p \in Workers, Alone(p), NEW h \in Contents, PartInv(h), Rows(h)' = Rows(h),
         ~Completes(p, h), ~(pc'[p] = "write" /\ rec'[p].hash = h)
  PROVE  PartInv(h)'
<1>1. Whole(h)' = Whole(h)
  BY DEF Whole, Positions
<1>2. \A q \in Workers : Completes(q, h) => Completes(q, h)'
  BY DEF Alone, Completes
<1>3. \A q \in Workers : pc'[q] = "write" /\ rec'[q].hash = h => pc[q] = "write" /\ rec[q].hash = h
  BY DEF Alone
<1> QED BY <1>1, <1>2, <1>3 DEF PartInv

LEMMA ClearMany ==
  ASSUME ManyInv, NEW p \in Workers, ClearPartial(p), Alone(p), TypeInv'
  PROVE  ManyInv'
<1>1. /\ pc[p] = "clear" /\ pc'[p] = "query" /\ UNCHANGED <<files, rec, start>>
      /\ index' = index \ Rows(rec[p].hash)
  BY DEF ManyInv, TypeInv, TypeOK, ClearPartial, GoTo
<1>2. HeldInv(p)'
  BY <1>1 DEF ManyInv, HeldInv, Working, Preparing, Mutating
<1>3. \A q \in Workers : HeldInv(q)'
  BY <1>1, <1>2, OthersHold
<1>4. HomeInv' /\ (\A r \in index : r \in CopiesOf(r.source))'
  BY <1>1 DEF ManyInv, HomeInv, CopiesOf
<1>5. ASSUME NEW h \in Contents PROVE PartInv(h)'
  <2>1. CASE h = rec[p].hash
    <3>1. Completes(p, h)'
      BY <1>1, <2>1 DEF Completes
    <3> QED BY <3>1 DEF PartInv
  <2>2. CASE h # rec[p].hash
    <3>1. Rows(h)' = Rows(h)
      BY <1>1, <2>2 DEF Rows
    <3>2. PartInv(h) /\ ~Completes(p, h)
      BY <2>2 DEF ManyInv, Completes
    <3> QED BY <1>1, <2>2, <3>1, <3>2, PartApart
  <2> QED BY <2>1, <2>2
<1> QED BY <1>3, <1>4, <1>5 DEF ManyInv

\* What is stale goes whole, and nobody writes it.
LEMMA PurgeMany ==
  ASSUME ManyInv, OwnVersions, NEW p \in Workers, PurgeStale(p), Alone(p), TypeInv'
  PROVE  ManyInv'
<1> DEFINE f == rec[p].file
<1>1. /\ pc[p] = "purge" /\ pc'[p] = "write" /\ UNCHANGED <<files, rec, start>>
      /\ index' = index \ doomed[p]
  BY DEF ManyInv, TypeInv, TypeOK, PurgeStale, GoTo
<1>2. /\ f \in Paths /\ rec[p].hash = files[f] /\ rec[p].hash \in Versions[f] /\ start[p] = 0
      /\ \A r \in doomed[p] : r.source = f /\ r.hash # rec[p].hash
      /\ \A r \in RowsOf(f) : r.hash # rec[p].hash => r \in doomed[p]
  BY <1>1, HashIsHome DEF ManyInv, HeldInv, Working, Mutating
<1>3. HeldInv(p)'
  BY <1>1 DEF ManyInv, HeldInv, Working, Preparing, Mutating
<1>4. \A q \in Workers : HeldInv(q)'
  BY <1>1, <1>3, OthersHold
<1>5. HomeInv' /\ (\A r \in index : r \in CopiesOf(r.source))'
  BY <1>1 DEF ManyInv, HomeInv, CopiesOf
<1>6. ASSUME NEW h \in Contents PROVE PartInv(h)'
  <2>1. CASE h = rec[p].hash
    <3>1. Completes(p, h)'
      BY <1>1, <1>2, <2>1 DEF Completes
    <3> QED BY <3>1 DEF PartInv
  <2>2. CASE h # rec[p].hash /\ h \notin Versions[f]
    <3>1. \A r \in Rows(h) : r \notin doomed[p]
      BY <1>2, <2>2 DEF Rows, ManyInv, HomeInv
    <3>2. Rows(h)' = Rows(h)
      BY <1>1, <3>1 DEF Rows
    <3>3. PartInv(h) /\ ~Completes(p, h)
      BY <2>2 DEF ManyInv, Completes
    <3> QED BY <1>1, <2>2, <3>2, <3>3, PartApart
  <2>3. CASE h # rec[p].hash /\ h \in Versions[f]
    <3>1. \A r \in Rows(h) : r \in doomed[p]
      <4>1. \A r \in Rows(h) : r.source = f
        BY <1>2, <2>3, OwnRows DEF ManyInv
      <4> QED BY <1>2, <2>3, <4>1 DEF Rows, RowsOf
    <3>2. Rows(h)' = {}
      BY <1>1, <3>1 DEF Rows
    <3>3. ASSUME NEW q \in Workers, pc'[q] = "write", rec'[q].hash = h PROVE FALSE
      <4>1. q # p /\ pc[q] = "write" /\ rec[q].hash = h
        BY <1>1, <2>3, <3>3 DEF Alone
      <4>2. /\ rec[q].file \in Paths /\ h = files[rec[q].file] /\ h \in Versions[rec[q].file]
        BY <4>1, HashIsHome DEF Working, Mutating
      <4>3. rec[q].file = f
        BY <1>2, <2>3, <4>2 DEF OwnVersions
      <4> QED BY <1>2, <2>3, <4>2, <4>3
    <3> QED BY <3>2, <3>3 DEF PartInv
  <2> QED BY <2>1, <2>2, <2>3
<1> QED BY <1>4, <1>5, <1>6 DEF ManyInv

\* A batch that lands brings its document nearer to whole, and no other one changes.
LEMMA BatchMany ==
  ASSUME ManyInv, OwnVersions, NEW p \in Workers, WriteBatch(p), Alone(p), TypeInv'
  PROVE  ManyInv'
<1> DEFINE f == rec[p].file
<1>0. PICK c : c = rec[p].hash
  OBVIOUS
<1>1. PICK u \in 0 .. MaxCopies : index' = index \cup NewRows(rec[p], Batch(p), u)
  BY DEF WriteBatch
<1>2. /\ pc[p] = "write" /\ files' = files
      /\ \/ BatchEnd(p) = Chunks[rec[p].text] /\ Settle(p, "processed")
         \/ /\ start' = [start EXCEPT ![p] = BatchEnd(p)]
            /\ UNCHANGED <<pc, rec, doomed>>
  BY DEF WriteBatch
<1>3. /\ f \in Paths /\ c \in Contents /\ c = files[f] /\ c \in Versions[f] /\ rec[p].text = c
  BY <1>0, <1>2, HashIsHome DEF ManyInv, HeldInv, Working, Mutating
<1>4. /\ Chunks[c] \in Nat /\ BatchEnd(p) \in Nat /\ BatchEnd(p) <= Chunks[c]
      /\ Batch(p) = {i \in Nat : start[p] <= i /\ i < BatchEnd(p)}
  BY <1>2, <1>3, BatchInRange DEF ManyInv
<1>5. /\ \A r \in NewRows(rec[p], Batch(p), u) :
           /\ r.source = f /\ r.hash = c /\ r.text = c /\ r.copy = u /\ r.idx \in Batch(p)
      /\ \A i \in Batch(p) : \E r \in NewRows(rec[p], Batch(p), u) : r.idx = i
  <2>1. NewRows(rec[p], Batch(p), u) =
          {[source |-> f, hash |-> c, idx |-> i, text |-> c, copy |-> u] : i \in Batch(p)}
    BY <1>0, <1>3 DEF NewRows
  <2> DEFINE row(i) == [source |-> f, hash |-> c, idx |-> i, text |-> c, copy |-> u]
  <2>2. \A i \in Batch(p) : row(i) \in NewRows(rec[p], Batch(p), u) /\ row(i).idx = i
    BY <2>1
  <2>3. \A r \in NewRows(rec[p], Batch(p), u) :
          r.source = f /\ r.hash = c /\ r.text = c /\ r.copy = u /\ r.idx \in Batch(p)
    BY <2>1
  <2> QED BY <2>2, <2>3
<1>6. HomeInv' /\ (\A r \in index : r \in CopiesOf(r.source))'
  <2>1. NewRows(rec[p], Batch(p), u) \subseteq Row
    BY <1>2, NewRowsType DEF ManyInv
  <2>2. \A r \in NewRows(rec[p], Batch(p), u) : r.idx < Chunks[c] /\ r.copy <= MaxCopies
    BY <1>4, <1>5, MaxCopiesAssumption
  <2>3. \A r \in NewRows(rec[p], Batch(p), u) : r \in CopiesOf(r.source)
    BY <1>3, <1>5, <2>1, <2>2 DEF CopiesOf
  <2> QED BY <1>1, <1>2, <1>3, <1>5, <2>3 DEF ManyInv, HomeInv, CopiesOf
<1>7. \A q \in Workers : HeldInv(q)'
  <2>1. ASSUME NEW q \in Workers \ {p} PROVE HeldInv(q)'
    <3>1. CASE pc[q] = "purge"
      <4>1. rec[q].hash = files[rec[q].file]
        BY <3>1, HashIsHome DEF Working, Mutating
      <4>2. \A r \in index' \ index : r.source = rec[q].file => r.hash = rec[q].hash
        BY <1>1, <1>3, <1>5, <4>1
      <4> QED BY <1>2, <4>2, OthersHold
    <3>2. CASE pc[q] # "purge"
      BY <1>2, <3>2 DEF ManyInv, HeldInv, Alone
    <3> QED BY <3>1, <3>2
  <2>2. HeldInv(p)'
    <3>1. CASE Settle(p, "processed")
      BY <3>1 DEF Settle, ManyInv, TypeInv, TypeOK, HeldInv, Working, Preparing, Mutating
    <3>2. CASE UNCHANGED <<pc, rec, doomed>>
      BY <1>2, <3>2 DEF ManyInv, HeldInv
    <3> QED BY <1>2, <3>1, <3>2
  <2> QED BY <2>1, <2>2
<1>8. ASSUME NEW h \in Contents, h # c PROVE PartInv(h)'
  <2>1. Rows(h)' = Rows(h)
    BY <1>1, <1>5, <1>8 DEF Rows
  <2>2. PartInv(h) /\ ~Completes(p, h)
    BY <1>0, <1>8 DEF ManyInv, Completes
  <2>3. rec'[p].hash # h
    BY <1>0, <1>2, <1>8, NoFileAssumption
       DEF Settle, NoRecord, NewRecord, ManyInv, TypeInv, TypeOK
  <2> QED BY <2>1, <2>2, <2>3, PartApart
<1>9. PartInv(c)'
  <2>1. Rows(c) \subseteq Rows(c)' /\ NewRows(rec[p], Batch(p), u) \subseteq Rows(c)'
    BY <1>1, <1>5 DEF Rows
  <2>2. CASE Whole(c)
    <3>1. Whole(c)'
      BY <2>1, <2>2 DEF Whole, Positions
    <3> QED BY <3>1 DEF PartInv
  <2>3. ASSUME NEW q \in Workers \ {p}, Completes(q, c) PROVE PartInv(c)'
    <3>1. Completes(q, c)'
      BY <2>1, <2>3 DEF Alone, Completes
    <3> QED BY <3>1 DEF PartInv
  <2>4. CASE Completes(p, c)
    <3>1. ASSUME NEW i \in Nat, i < BatchEnd(p)
          PROVE  \E r \in Rows(c)' : r.idx = i /\ r.text = c
      <4>1. CASE i < start[p]
        BY <1>2, <2>1, <2>4, <4>1 DEF Completes
      <4>2. CASE ~(i < start[p])
        <5>1. start[p] \in Nat
          BY DEF ManyInv, TypeInv, TypeOK
        <5>2. i \in Batch(p)
          BY <1>4, <3>1, <4>2, <5>1
        <5> QED BY <1>5, <2>1, <5>2
      <4> QED BY <4>1, <4>2
    <3>2. CASE Settle(p, "processed") /\ BatchEnd(p) = Chunks[rec[p].text]
      <4>1. \A i \in Positions(c) : i \in Nat /\ i < BatchEnd(p)
        BY <1>3, <1>4, <3>2 DEF Positions
      <4>2. Whole(c)'
        BY <3>1, <4>1 DEF Whole, Positions
      <4> QED BY <4>2 DEF PartInv
    <3>3. CASE start' = [start EXCEPT ![p] = BatchEnd(p)] /\ UNCHANGED <<pc, rec, doomed>>
      <4>1. start'[p] = BatchEnd(p)
        BY <3>3 DEF ManyInv, TypeInv, TypeOK
      <4>2. Completes(p, c)'
        BY <1>0, <1>2, <3>1, <3>3, <4>1 DEF Completes
      <4> QED BY <4>2 DEF PartInv
    <3> QED BY <1>2, <3>2, <3>3
  <2>5. Whole(c) \/ \E q \in Workers : Completes(q, c)
    BY <1>0, <1>2, <1>3 DEF ManyInv, PartInv
  <2> QED BY <2>2, <2>3, <2>4, <2>5
<1>10. \A h \in Contents : PartInv(h)'
  BY <1>8, <1>9
<1> QED BY <1>6, <1>7, <1>10 DEF ManyInv

LEMMA EditMany ==
  ASSUME ManyInv, FilesHoldStill, NEW f \in Paths, Edit(f), TypeInv'
  PROVE  ManyInv'
<1>1. /\ UNCHANGED <<index, pc, todo, rec, doomed, start>>
      /\ \A p \in Workers : pc[p] = "idle"
  BY DEF Edit, FilesHoldStill
<1>2. PICK v \in Versions[f] \cup {NoFile} : files' = [files EXCEPT ![f] = v]
  BY DEF Edit
<1>3. HomeInv'
  BY <1>1, <1>2 DEF ManyInv, HomeInv, TypeInv, TypeOK
<1>4. (\A r \in index : r \in CopiesOf(r.source))'
  BY <1>1 DEF ManyInv, CopiesOf
<1>5. \A p \in Workers : HeldInv(p)'
  BY <1>1 DEF ManyInv, HeldInv, Working, Preparing, Mutating
<1>6. \A h \in Contents : PartInv(h)'
  BY <1>1 DEF ManyInv, PartInv, Completes, Whole, Positions, Rows
<1> QED BY <1>3, <1>4, <1>5, <1>6 DEF ManyInv

LEMMA NextMany ==
  ASSUME CallsSucceed, FilesHoldStill, OwnVersions, CopiesFitAQuery
  PROVE  ManyInv /\ [Next]_vars => ManyInv'
<1> SUFFICES ASSUME ManyInv, [Next]_vars PROVE ManyInv'
  OBVIOUS
<1>1. TypeInv'
  BY NextTypeInv DEF ManyInv
<1>2. CASE UNCHANGED vars
  BY <1>1, <1>2 DEF vars, ManyInv, HomeInv, HeldInv, RowsOf, PartInv, Completes, Whole, Positions,
                    Rows, CopiesOf
<1>3. ASSUME NEW f \in Paths, Edit(f) PROVE ManyInv'
  BY <1>1, <1>3, EditMany
<1>4. ASSUME NEW p \in Workers, StartSync(p) \/ Step(p) \/ Fail(p) PROVE ManyInv'
  <2>1. Alone(p)
    BY <1>4, StepsAlone DEF ManyInv
  <2>2. ~WriteFails(p) /\ ~Abort(p) /\ ~Rollback(p)
    BY DEF CallsSucceed, WriteFails, Abort, Rollback, ManyInv, HeldInv
  <2>3. Quiet(p) \/ ClearPartial(p) \/ PurgeStale(p) \/ WriteBatch(p)
    BY <1>4, <2>2 DEF Step, Fail, Write, Quiet
  <2> QED BY <1>1, <2>1, <2>3, QuietMany, ClearMany, PurgeMany, BatchMany
<1> QED BY <1>2, <1>3, <1>4 DEF Next

LEMMA InitMany == Init => ManyInv
<1> SUFFICES ASSUME Init PROVE ManyInv
  OBVIOUS
<1>1. TypeInv
  BY InitTypeInv
<1>2. /\ index = {} /\ \A p \in Workers : pc[p] = "idle" /\ start[p] = 0
      /\ HomeInv
  BY DEF Init, HomeInv
<1>3. \A p \in Workers : HeldInv(p)
  BY <1>2 DEF HeldInv, Working, Preparing, Mutating
<1>4. \A h \in Contents : PartInv(h)
  BY <1>2 DEF PartInv, Rows
<1> QED BY <1>1, <1>2, <1>3, <1>4 DEF ManyInv

\* However many syncs clear, replace and write the same documents at once, a document of
\* which only a part is stored has a sync that is about to write all of it: the last one
\* that cleared it still has everything to send (ingestor.py:104-221).
THEOREM PartHasAWriter ==
  ASSUME CallsSucceed, FilesHoldStill, OwnVersions, CopiesFitAQuery
  PROVE  Spec => []NoOrphanedPart
<1>1. ManyInv /\ [Next]_vars => ManyInv'
  BY NextMany
<1>2. ManyInv => NoOrphanedPart
  BY DEF ManyInv, PartInv, Completes, NoOrphanedPart, Writing
<1> QED BY <1>1, <1>2, InitMany, PTL DEF Spec
=============================================================================
