------------------------------ MODULE Ingestor ------------------------------
(***************************************************************************)
(* Document ingestion: rag_core's Ingestor (ingestion/ingestor.py) driving *)
(* a PineconeStore (vectorstores/pinecone_store.py).                       *)
(*                                                                         *)
(* A worker is one call of Ingestor.sync: a Streamlit session's "Ingest /  *)
(* refresh docs" button or one run of the ingest command line.  All of     *)
(* them write to one Pinecone index, in which nothing is transactional:    *)
(* each remote call is a step of its own, and between two of them the      *)
(* other workers run, files change and the process may die.                *)
(*                                                                         *)
(* Covered: the hash / status / load / clear / replace / write / rollback  *)
(* sequence of one file, the order of files, failed calls that landed in   *)
(* part, failed rollbacks, killed runs, files edited at any moment, the    *)
(* cap on query results, and the random ids langchain-pinecone gives to    *)
(* chunks that are added without one.                                      *)
(* Left out: chunk text and embeddings (a chunk is its position in a       *)
(* document), extra metadata, the replaced and chunks_created totals, and  *)
(* the propagation delay of the index.                                     *)
(***************************************************************************)
EXTENDS Naturals, FiniteSets

CONSTANTS
  Workers,         \* processes or sessions that can run a sync
  NumPaths,        \* number of source paths
  Contents,        \* file contents; the SHA-256 of a file is its content
  NoFile,          \* a path that holds no file, a record field not yet set
  Chunks,          \* [Contents -> Nat], number of chunks a content splits into
  Versions,        \* [Paths -> SUBSET Contents], contents a path may hold
  BatchSize,       \* chunks per add_documents call
  TopK,            \* most matches one index query returns (10000 in the code)
  MaxCopies,       \* bound: ids told apart per chunk, 0 .. MaxCopies
  EditsDuringRun,  \* BOOLEAN, whether files may change while a sync runs
  Faults           \* subset of FaultKinds, the failures that may happen

\* Paths are numbered in the order the sources list them.
Paths == 1 .. NumPaths
FaultKinds == {"prepare", "write", "rollback", "abort"}

ASSUME NumPathsAssumption == NumPaths \in Nat
ASSUME NoFileAssumption == NoFile \notin Contents
ASSUME ChunksAssumption == Chunks \in [Contents -> Nat]
ASSUME VersionsAssumption == Versions \in [Paths -> SUBSET Contents]
ASSUME BatchSizeAssumption == BatchSize \in Nat \ {0}
ASSUME TopKAssumption == TopK \in Nat \ {0}
ASSUME MaxCopiesAssumption == MaxCopies \in Nat
ASSUME FaultsAssumption == EditsDuringRun \in BOOLEAN /\ Faults \subseteq FaultKinds

VARIABLES
  files,    \* [Paths -> Contents or NoFile], what the sources hold
  index,    \* the set of vectors in the Pinecone index
  pc,       \* where each worker's sync stands
  todo,     \* paths each worker has listed and not yet taken up
  rec,      \* the record _prepare_document builds for the current file
  doomed,   \* the stale vectors delete_by_source is about to delete by id
  start,    \* first chunk of the current file not yet sent
  outcome   \* what the run's stats say of each path

store == <<files, index>>
vars == <<files, index, pc, todo, rec, doomed, start, outcome>>

Row == [source : Paths, hash : Contents, idx : Nat, text : Contents, copy : Nat]
Record == [file : Paths \cup {0}, hash : Contents \cup {NoFile},
           text : Contents \cup {NoFile}, expected : Nat, was_partial : BOOLEAN]
Stages == {"idle", "next", "marker", "count", "load",
           "clear", "query", "purge", "write", "rollback"}
Outcomes == {"none", "skipped", "processed", "failed"}

NewRecord(f, h) == [file |-> f, hash |-> h, text |-> NoFile,
                    expected |-> 0, was_partial |-> FALSE]
NoRecord == NewRecord(0, NoFile)
NoOutcome == [f \in Paths |-> "none"]

TypeOK ==
  /\ files \in [Paths -> Contents \cup {NoFile}]
  /\ index \subseteq Row
  /\ pc \in [Workers -> Stages]
  /\ todo \in [Workers -> SUBSET Paths]
  /\ rec \in [Workers -> Record]
  /\ doomed \in [Workers -> SUBSET Row]
  /\ start \in [Workers -> Nat]
  /\ outcome \in [Workers -> [Paths -> Outcomes]]

Init ==
  /\ files \in [Paths -> Contents \cup {NoFile}]
  /\ \A f \in Paths : files[f] \in Versions[f] \cup {NoFile}
  /\ index = {}
  /\ pc = [p \in Workers |-> "idle"]
  /\ todo = [p \in Workers |-> {}]
  /\ rec = [p \in Workers |-> NoRecord]
  /\ doomed = [p \in Workers |-> {}]
  /\ start = [p \in Workers |-> 0]
  /\ outcome = [p \in Workers |-> NoOutcome]

-----------------------------------------------------------------------------
(* The store: what PineconeStore answers and does.                         *)

Rows(h) == {r \in index : r.hash = h}
RowsOf(f) == {r \in index : r.source = f}

\* total_chunks, stamped on every chunk by build_chunks.
Total(r) == Chunks[r.text]

\* A query under a metadata filter returns every match, or TopK of them.
QueryResults(S) ==
  IF Cardinality(S) <= TopK THEN {S} ELSE {Q \in SUBSET S : Cardinality(Q) = TopK}

CountByFileHash(h) ==
  IF Cardinality(Rows(h)) <= TopK THEN Cardinality(Rows(h)) ELSE TopK

\* Mutant: a document with any chunk stored counts as ingested.
PresenceIsComplete(stored, expected) ==
  IF stored = 0 THEN "absent" ELSE "complete"

\* expected = 0 stands for "no usable total_chunks".
IngestStatus(stored, expected) ==
  IF stored = 0 THEN "absent"
  ELSE IF expected = 0 \/ stored >= expected THEN "complete"
  ELSE "partial"

\* Chunks are added without ids: the u-th copy of a chunk is a new vector.
NewRows(r, I, u) ==
  {[source |-> r.file, hash |-> r.hash, idx |-> i, text |-> r.text, copy |-> u] :
     i \in I}

FreshCopy(h, I, u) == \A r \in Rows(h) : r.idx \in I => r.copy # u

IsNextCopy(h, I, u) ==
  /\ FreshCopy(h, I, u)
  /\ \A v \in 0 .. MaxCopies : v < u => ~FreshCopy(h, I, v)

-----------------------------------------------------------------------------
(* One sync: list the sources, then take up the files one by one.          *)

Listed == {f \in Paths : files[f] # NoFile}

\* The record of the current file is settled: the stats count it, the loop
\* of ingest_documents goes on with the next file.
Settle(p, o) ==
  /\ outcome' = [outcome EXCEPT ![p][rec[p].file] = o]
  /\ pc' = [pc EXCEPT ![p] = "next"]
  /\ rec' = [rec EXCEPT ![p] = NoRecord]
  /\ doomed' = [doomed EXCEPT ![p] = {}]
  /\ start' = [start EXCEPT ![p] = 0]
  /\ UNCHANGED todo

GoTo(p, stage) == pc' = [pc EXCEPT ![p] = stage]

StartSync(p) ==
  /\ pc[p] = "idle"
  /\ Listed # {}
  /\ GoTo(p, "next")
  /\ todo' = [todo EXCEPT ![p] = Listed]
  /\ UNCHANGED <<store, rec, doomed, start, outcome>>

\* The file is read to be hashed; one that is gone by now is an error.
HashFile(p) ==
  /\ pc[p] = "next"
  /\ \E f \in todo[p] :
       /\ \A g \in todo[p] : f <= g
       /\ todo' = [todo EXCEPT ![p] = @ \ {f}]
       /\ \/ /\ files[f] = NoFile
             /\ outcome' = [outcome EXCEPT ![p][f] = "failed"]
             /\ UNCHANGED <<pc, rec>>
          \/ /\ files[f] # NoFile
             /\ rec' = [rec EXCEPT ![p] = NewRecord(f, files[f])]
             /\ GoTo(p, "marker")
             /\ UNCHANGED outcome
  /\ UNCHANGED <<store, doomed, start>>

\* get_ingest_status, first query: one chunk's total_chunks.
ReadMarker(p) ==
  /\ pc[p] = "marker"
  /\ \E n \in IF Rows(rec[p].hash) = {} THEN {0}
              ELSE {Total(r) : r \in Rows(rec[p].hash)} :
       rec' = [rec EXCEPT ![p].expected = n]
  /\ GoTo(p, "count")
  /\ UNCHANGED <<store, todo, doomed, start, outcome>>

\* get_ingest_status, second query: the count, and the decision it leads to.
ReadCount(p) ==
  LET stored == CountByFileHash(rec[p].hash)
      status == IngestStatus(stored, rec[p].expected)
  IN  /\ pc[p] = "count"
      /\ \/ status = "complete" /\ Settle(p, "skipped")
         \/ /\ status # "complete"
            /\ rec' = [rec EXCEPT ![p].was_partial = (status = "partial")]
            /\ GoTo(p, "load")
            /\ UNCHANGED <<todo, doomed, start, outcome>>
      /\ UNCHANGED store

\* Scanned documents and empty files yield no chunk.
Extractable == {c \in Contents : Chunks[c] > 0}

\* Mutant: a partial ingest is written again without being cleared.
KeepPartial(p) ==
  /\ pc[p] = "load"
  /\ \/ /\ files[rec[p].file] \notin Extractable
        /\ Settle(p, "failed")
     \/ /\ files[rec[p].file] \in Extractable
        /\ rec' = [rec EXCEPT ![p].text = files[rec[p].file]]
        /\ GoTo(p, "query")
        /\ UNCHANGED <<todo, doomed, start, outcome>>
  /\ UNCHANGED store

\* The file is read a second time, to be loaded and split.
LoadFile(p) ==
  LET text == files[rec[p].file]
  IN  /\ pc[p] = "load"
      /\ \/ /\ text \notin Extractable
            /\ Settle(p, "failed")
         \/ /\ text \in Extractable
            /\ rec' = [rec EXCEPT ![p].text = text]
            /\ GoTo(p, IF rec[p].was_partial THEN "clear" ELSE "query")
            /\ UNCHANGED <<todo, doomed, start, outcome>>
      /\ UNCHANGED store

\* A query or the loader raises, or a chunk's metadata collides.
PrepareFails(p) ==
  /\ "prepare" \in Faults
  /\ pc[p] \in {"marker", "count", "load"}
  /\ Settle(p, "failed")
  /\ UNCHANGED store

\* Mutant: a partial ingest is cleared and left for the next run to write.
ClearAndLeave(p) ==
  /\ pc[p] = "clear"
  /\ index' = index \ Rows(rec[p].hash)
  /\ Settle(p, "failed")
  /\ UNCHANGED files

ClearPartial(p) ==
  /\ pc[p] = "clear"
  /\ index' = index \ Rows(rec[p].hash)
  /\ GoTo(p, "query")
  /\ UNCHANGED <<files, todo, rec, doomed, start, outcome>>

\* delete_by_source, the query: which vectors of this path are stale.
QueryStale(p) ==
  /\ pc[p] = "query"
  /\ \E Q \in QueryResults(RowsOf(rec[p].file)) :
       doomed' = [doomed EXCEPT ![p] = {r \in Q : r.hash # rec[p].hash}]
  /\ GoTo(p, "purge")
  /\ UNCHANGED <<store, todo, rec, start, outcome>>

\* Mutant: the ids to delete are collected but never deleted.
ForgetToPurge(p) ==
  /\ pc[p] = "purge"
  /\ doomed' = [doomed EXCEPT ![p] = {}]
  /\ GoTo(p, "write")
  /\ UNCHANGED <<store, todo, rec, start, outcome>>

\* delete_by_source, the delete by id.
PurgeStale(p) ==
  /\ pc[p] = "purge"
  /\ index' = index \ doomed[p]
  /\ doomed' = [doomed EXCEPT ![p] = {}]
  /\ GoTo(p, "write")
  /\ UNCHANGED <<files, todo, rec, start, outcome>>

BatchEnd(p) ==
  IF start[p] + BatchSize < Chunks[rec[p].text]
  THEN start[p] + BatchSize ELSE Chunks[rec[p].text]

Batch(p) == {i \in 0 .. Chunks[rec[p].text] : start[p] <= i /\ i < BatchEnd(p)}

\* Mutant: the number of batches is rounded down, a shorter last one is lost.
DropLastBatch(p) ==
  /\ pc[p] = "write"
  /\ \E u \in 0 .. MaxCopies :
       /\ IsNextCopy(rec[p].hash, Batch(p), u)
       /\ index' = index \cup NewRows(rec[p], Batch(p), u)
  /\ \/ /\ BatchEnd(p) + BatchSize > Chunks[rec[p].text]
        /\ Settle(p, "processed")
     \/ /\ BatchEnd(p) + BatchSize <= Chunks[rec[p].text]
        /\ start' = [start EXCEPT ![p] = BatchEnd(p)]
        /\ UNCHANGED <<pc, todo, rec, doomed, outcome>>
  /\ UNCHANGED files

WriteBatch(p) ==
  /\ pc[p] = "write"
  /\ \E u \in 0 .. MaxCopies :
       /\ IsNextCopy(rec[p].hash, Batch(p), u)
       /\ index' = index \cup NewRows(rec[p], Batch(p), u)
  /\ \/ /\ BatchEnd(p) = Chunks[rec[p].text]
        /\ Settle(p, "processed")
     \/ /\ BatchEnd(p) # Chunks[rec[p].text]
        /\ start' = [start EXCEPT ![p] = BatchEnd(p)]
        /\ UNCHANGED <<pc, todo, rec, doomed, outcome>>
  /\ UNCHANGED files

\* A call inside _write_prepared raises; any part of it may have landed.
WriteFails(p) ==
  /\ "write" \in Faults
  /\ \/ /\ pc[p] = "clear"
        /\ \E gone \in SUBSET Rows(rec[p].hash) : index' = index \ gone
     \/ /\ pc[p] = "query"
        /\ UNCHANGED index
     \/ /\ pc[p] = "purge"
        /\ \E gone \in SUBSET doomed[p] : index' = index \ gone
     \/ /\ pc[p] = "write"
        /\ \E landed \in SUBSET Batch(p), u \in 0 .. MaxCopies :
             /\ IsNextCopy(rec[p].hash, Batch(p), u)
             /\ index' = index \cup NewRows(rec[p], landed, u)
  /\ GoTo(p, "rollback")
  /\ doomed' = [doomed EXCEPT ![p] = {}]
  /\ UNCHANGED <<files, todo, rec, start, outcome>>

\* The except branch deletes what landed; its own failure is only logged.
Rollback(p) ==
  /\ pc[p] = "rollback"
  /\ \/ index' = index \ Rows(rec[p].hash)
     \/ /\ "rollback" \in Faults
        /\ \E gone \in SUBSET Rows(rec[p].hash) : index' = index \ gone
  /\ Settle(p, "failed")
  /\ UNCHANGED files

\* No file is left: sync returns its stats.
AtReturn(p) == pc[p] = "next" /\ todo[p] = {}

EndRun(p) ==
  /\ pc' = [pc EXCEPT ![p] = "idle"]
  /\ todo' = [todo EXCEPT ![p] = {}]
  /\ rec' = [rec EXCEPT ![p] = NoRecord]
  /\ doomed' = [doomed EXCEPT ![p] = {}]
  /\ start' = [start EXCEPT ![p] = 0]
  /\ outcome' = [outcome EXCEPT ![p] = NoOutcome]
  /\ UNCHANGED store

Return(p) == AtReturn(p) /\ EndRun(p)

\* The process is killed, or on_chunks_prepared raises outside the try: the
\* run is over, and what it stored stays.
Abort(p) == "abort" \in Faults /\ pc[p] # "idle" /\ EndRun(p)

\* The user's side: a file is created, edited or deleted.
Edit(f) ==
  /\ EditsDuringRun \/ \A p \in Workers : pc[p] = "idle"
  /\ \E c \in Versions[f] \cup {NoFile} :
       /\ c # files[f]
       /\ files' = [files EXCEPT ![f] = c]
  /\ UNCHANGED <<index, pc, todo, rec, doomed, start, outcome>>

Prepare(p) == HashFile(p) \/ ReadMarker(p) \/ ReadCount(p) \/ LoadFile(p)
Write(p) == ClearPartial(p) \/ QueryStale(p) \/ PurgeStale(p) \/ WriteBatch(p)
Fail(p) == PrepareFails(p) \/ WriteFails(p) \/ Abort(p)
Step(p) == Prepare(p) \/ Write(p) \/ Rollback(p) \/ Return(p)

Next ==
  \/ \E p \in Workers : StartSync(p) \/ Step(p) \/ Fail(p)
  \/ \E f \in Paths : Edit(f)

Spec == Init /\ [][Next]_vars

\* A run goes on until it ends; syncs are requested again and again.
FairSpec == Spec /\ \A p \in Workers : WF_vars(StartSync(p) \/ Step(p))
-----------------------------------------------------------------------------
(* Properties                                                              *)

Positions(c) == {i \in 0 .. Chunks[c] : i < Chunks[c]}

\* A document counted complete is all there: whatever chunk the marker query
\* answers with, if get_ingest_status (pinecone_store.py:297-340) says
\* "complete" then every chunk of one loaded text is stored, so skipping the
\* file does not leave it truncated.
CompleteMeansWhole ==
  \A h \in Contents : \A r \in Rows(h) :
    IngestStatus(CountByFileHash(h), Total(r)) = "complete"
      => \A i \in Positions(r.text) : \E s \in Rows(h) : s.idx = i /\ s.text = r.text

\* No chunk of a content is stored twice, through crashes, retries and failed
\* rollbacks (_prepare_document and _write_prepared, ingestor.py:104-221).
NoDuplicateChunks ==
  \A r, s \in index : r.hash = s.hash /\ r.idx = s.idx => r = s

\* At no moment are two versions of one source path searchable: the old one
\* is gone before the first chunk of the new one lands (ingestor.py:191-201).
OneVersionPerSource ==
  \A r, s \in index : r.source = s.source => r.hash = s.hash

Whole(h) == \A i \in Positions(h) : \E r \in Rows(h) : r.idx = i /\ r.text = h

\* The versions a search finds under a path, and the paths stored as they are.
Found(f) == {r.hash : r \in RowsOf(f)}
Stored(f) == files[f] \in Contents /\ Found(f) = {files[f]} /\ Whole(files[f])

\* What a returning sync reports is so: a file counted processed or skipped is
\* stored whole, and nothing else is stored under its path
\* (_write_prepared, ingestor.py:157-221).
ReportIsTrue ==
  \A p \in Workers : AtReturn(p) =>
    \A f \in Paths : outcome[p][f] \in {"skipped", "processed"} => Stored(f)

\* While no call fails, chunks of a half-written document always have a run
\* that is about to write all of it: two syncs that clear each other's
\* batches never leave a truncated document to nobody.
Writing(q, h) == rec[q].hash = h /\ pc[q] \in {"clear", "query", "purge", "write"}
NoOrphanedPart ==
  \A h \in Contents : Rows(h) = {} \/ Whole(h) \/ \E q \in Workers : Writing(q, h)

\* Once files stop changing and calls stop failing, repeated syncs bring every
\* file that has text into the index and keep it there alone, whatever the
\* crashes and failed rollbacks before left (sync, ingestor.py:323-354).  A file
\* emptied of its text fails before the replacement: its old version stays.
InSync == \A f \in Paths : files[f] \in Extractable => Stored(f)

Disturbance ==
  \/ files' # files
  \/ \E p \in Workers : Fail(p) /\ ~Step(p)
  \/ \E p \in Workers : pc[p] = "rollback" /\ index' # index \ Rows(rec[p].hash)

Converges == <>[][~Disturbance]_vars => <>[]InSync

\* What of the index and of a sync in progress the document store shows.
Mutating == {"clear", "query", "purge", "write", "rollback"}
Replaced(p) == IF pc[p] \in Mutating THEN rec[p].file ELSE 0
FoundWhole == {f \in Paths : \E c \in Contents : Found(f) = {c} /\ Whole(c)}

Documents == INSTANCE DocumentStore WITH
  Texts <- Extractable,
  found <- [f \in Paths |-> Found(f)],
  whole <- FoundWhole,
  busy <- [p \in Workers |-> Replaced(p)],
  report <- outcome

\* A sync is a replacement of one path at a time that leaves the others as they
\* are, never mixes two versions of a path, never takes up one that is stored
\* as it is, and says the truth of each (DocumentStore; ingestor.py:104-354).
ImplementsStore == Documents!Spec
=============================================================================
