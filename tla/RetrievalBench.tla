--------------------------- MODULE RetrievalBench ---------------------------
(***************************************************************************)
(* The retrieval benchmark: processes of rag-bench-eval that sweep over    *)
(* pipelines or write a report, next to each other over one disk.          *)
(*                                                                         *)
(* A sweep builds each pipeline's leaves (rag_bench_eval/retrievers.py)    *)
(* through two caches, the index cache of its process and the vectors on   *)
(* disk (embedding_cache.py), evaluates the pipeline and records the run.  *)
(* A report reads every run on disk and keeps the latest per experiment.   *)
(* A file is written in place: between opening and closing it is torn, and *)
(* so it stays when its writer is killed.                                  *)
(*                                                                         *)
(* Bounds: MaxClock; a data set is not published in another order while a   *)
(* process works with the old order (README, "Seen while modelling").      *)
(***************************************************************************)
EXTENDS BenchRetrievers

CONSTANTS
  Process,
  Dataset,
  Corpora,    \* [Dataset -> corpora], what each may be published with
  Pipeline,   \* [experiments of benchmark.yaml -> Node]
  Unknown,    \* a name benchmark.yaml has no pipeline for
  Sweeps,     \* what one command may be asked to run: sequences of names
  MaxClock,   \* bound on sweeps begun and runs made
  Null

\* A dict of contents: its keys in order, and the content of each.
Corpus == [ids : Seq(Doc), text : UNION {[D -> Text] : D \in SUBSET Doc}]
AllCorpora == UNION {Corpora[d] : d \in Dataset}
Experiment == DOMAIN Pipeline

ASSUME CorporaAssumption ==
  /\ \A d \in Dataset : Corpora[d] \subseteq Corpus
  /\ \A c \in AllCorpora :
       IsInjective(c.ids) /\ DOMAIN c.text = {c.ids[i] : i \in DOMAIN c.ids}
  /\ \A d, e \in Dataset : \A b \in Corpora[d], c \in Corpora[e] : d # e => b.text # c.text
ASSUME PipelineAssumption == \A e \in Experiment : Pipeline[e] \in Node
ASSUME SweepsAssumption == \A s \in Sweeps : s \in Seq(Experiment \cup {Unknown})
ASSUME KeyAssumption == \A m, n \in Node :
  /\ {Tree[m].type, Tree[n].type} \subseteq {"bm25", "dense"}
  /\ Tree[m].key = Tree[n].key
  => Tree[m].type = Tree[n].type
ASSUME MaxClockAssumption == MaxClock \in Nat
ASSUME NullAssumption == Null \notin AllCorpora /\ Null \notin Dataset /\ Null \notin Model

VARIABLES
  corpus,     \* what each data set is published with
  vectors,    \* [Model -> [Digest -> file]], the .npy files
  docIds,     \* [Model -> [Digest -> file]], the .json next to each
  runs,       \* results/runs
  torn,       \* timestamps of the runs whose file is not whole
  clock       \* the time: it ticks when a sweep begins or a run is made
cache == <<vectors, docIds>>
results == <<runs, torn, clock>>

VARIABLES
  pc, dataset, model,
  own,        \* the corpus a sweep has loaded
  todo,       \* the experiments it still has to run
  calls,      \* the build calls to make: a node, and whether its inner one is built
  index,      \* its index cache
  ids,        \* the doc ids it has read from the vector cache
  result,     \* the run it is about to record
  listed,     \* the runs a report has found (history)
  unread,     \* those it has still to read
  latest      \* those it keeps, one per experiment
world == <<corpus, cache, results>>
job == <<dataset, model, own>>
building == <<calls, index>>
reporter == <<listed, unread, latest>>
vars == <<world, pc, job, todo, building, ids, result, reporter>>

-----------------------------------------------------------------------------
(* Files                                                                   *)

NoFile == [state |-> "none", content |-> <<>>]
Torn == [state |-> "torn", content |-> <<>>]
Whole(s) == [state |-> "whole", content |-> s]
File(S) == [state : {"none", "torn", "whole"}, content : Seq(S)]

Digest == {c.text : c \in AllCorpora}

\* Mutant: only the ids are hashed.
DigestOfIds(c) == (CHOOSE e \in AllCorpora : DOMAIN e.text = DOMAIN c.text).text

\* corpus_hash: over the sorted pairs, so their order does not matter.
CorpusHash(c) == c.text

Vectors(p) == vectors[model[p]][CorpusHash(own[p])]
DocIds(p) == docIds[model[p]][CorpusHash(own[p])]
PutVectors(p, file) == vectors' = [vectors EXCEPT ![model[p]][CorpusHash(own[p])] = file]
PutDocIds(p, file) == docIds' = [docIds EXCEPT ![model[p]][CorpusHash(own[p])] = file]

-----------------------------------------------------------------------------
(* Processes                                                               *)

Nothing == [k \in {} |-> k]

Call(n) == [node |-> n, built |-> FALSE]

GoTo(p, label) == pc' = [pc EXCEPT ![p] = label]

\* The process ends, with an exception or without; what it held is gone.
Exit(p) ==
  /\ GoTo(p, "idle")
  /\ dataset' = [dataset EXCEPT ![p] = Null]
  /\ model' = [model EXCEPT ![p] = Null]
  /\ own' = [own EXCEPT ![p] = Null]
  /\ todo' = [todo EXCEPT ![p] = <<>>]
  /\ calls' = [calls EXCEPT ![p] = <<>>]
  /\ index' = [index EXCEPT ![p] = Nothing]
  /\ ids' = [ids EXCEPT ![p] = <<>>]
  /\ result' = [result EXCEPT ![p] = Null]
  /\ listed' = [listed EXCEPT ![p] = {}]
  /\ unread' = [unread EXCEPT ![p] = {}]
  /\ latest' = [latest EXCEPT ![p] = {}]

Raise(p) == Exit(p) /\ UNCHANGED world

Init ==
  /\ corpus \in {f \in [Dataset -> AllCorpora] : \A d \in Dataset : f[d] \in Corpora[d]}
  /\ vectors = [m \in Model |-> [d \in Digest |-> NoFile]]
  /\ docIds = [m \in Model |-> [d \in Digest |-> NoFile]]
  /\ runs = {} /\ torn = {} /\ clock = 0
  /\ pc = [p \in Process |-> "idle"]
  /\ dataset = [p \in Process |-> Null]
  /\ model = [p \in Process |-> Null]
  /\ own = [p \in Process |-> Null]
  /\ todo = [p \in Process |-> <<>>]
  /\ calls = [p \in Process |-> <<>>]
  /\ index = [p \in Process |-> Nothing]
  /\ ids = [p \in Process |-> <<>>]
  /\ result = [p \in Process |-> Null]
  /\ listed = [p \in Process |-> {}]
  /\ unread = [p \in Process |-> {}]
  /\ latest = [p \in Process |-> {}]

\* rag-bench-eval run: load_config, then the data set.
StartSweep(p) ==
  /\ pc[p] = "idle" /\ clock < MaxClock
  /\ clock' = clock + 1
  /\ \E d \in Dataset, m \in Model, experiments \in Sweeps :
       /\ dataset' = [dataset EXCEPT ![p] = d]
       /\ model' = [model EXCEPT ![p] = m]
       /\ own' = [own EXCEPT ![p] = corpus[d]]
       /\ todo' = [todo EXCEPT ![p] = experiments]
  /\ GoTo(p, "next")
  /\ UNCHANGED <<corpus, cache, runs, torn, building, ids, result, reporter>>

\* _cmd_run's loop and the look-up in _run_one.
NextExperiment(p) ==
  /\ pc[p] = "next"
  /\ \/ todo[p] = <<>> /\ Raise(p)
     \/ todo[p] # <<>> /\ Head(todo[p]) \notin Experiment /\ Raise(p)
     \/ /\ todo[p] # <<>> /\ Head(todo[p]) \in Experiment
        /\ calls' = [calls EXCEPT ![p] = <<Call(Pipeline[Head(todo[p])])>>]
        /\ GoTo(p, "build")
        /\ UNCHANGED <<world, job, todo, index, ids, result, reporter>>

-----------------------------------------------------------------------------
(* build_pipeline_retriever                                                *)

Called(p) == Tree[Head(calls[p]).node]
Building(p, type) == pc[p] = "build" /\ calls[p] # <<>> /\ Called(p).type = type
Cached(p) == Called(p).key \in DOMAIN index[p]

\* The leaf is built and enters the index cache; on with the next call.
KeepLeaf(p, rows) ==
  /\ index' = [index EXCEPT ![p] =
       [k \in DOMAIN index[p] \cup {Called(p).key} |->
          IF k = Called(p).key THEN Leaf(own[p], rows) ELSE index[p][k]]]
  /\ calls' = [calls EXCEPT ![p] = Tail(calls[p])]
  /\ GoTo(p, "build")

ReuseLeaf(p) ==
  /\ Building(p, "bm25") \/ Building(p, "dense")
  /\ Cached(p)
  /\ calls' = [calls EXCEPT ![p] = Tail(calls[p])]
  /\ UNCHANGED <<world, pc, job, todo, index, ids, result, reporter>>

BuildBM25(p) ==
  /\ Building(p, "bm25") /\ ~Cached(p)
  /\ KeepLeaf(p, <<>>)
  /\ UNCHANGED <<world, job, todo, ids, result, reporter>>

BuildFusion(p) ==
  /\ Building(p, "rrf")
  /\ calls' = [calls EXCEPT ![p] =
       [i \in DOMAIN Called(p).retrievers |-> Call(Called(p).retrievers[i])] \o Tail(calls[p])]
  /\ UNCHANGED <<world, pc, job, todo, index, ids, result, reporter>>

\* The inner retriever is built first; then RerankingRetriever refuses a pool
\* smaller than what it is to keep.
BuildReranker(p) ==
  /\ Building(p, "rerank")
  /\ \/ /\ ~Head(calls[p]).built
        /\ calls' = [calls EXCEPT ![p] =
             <<Call(Called(p).inner), [Head(calls[p]) EXCEPT !.built = TRUE]>> \o Tail(calls[p])]
        /\ UNCHANGED <<world, pc, job, todo, index, ids, result, reporter>>
     \/ /\ Head(calls[p]).built
        /\ Called(p).candidate_k >= Called(p).top_k
        /\ calls' = [calls EXCEPT ![p] = Tail(calls[p])]
        /\ UNCHANGED <<world, pc, job, todo, index, ids, result, reporter>>
     \/ /\ Head(calls[p]).built
        /\ Called(p).candidate_k < Called(p).top_k
        /\ Raise(p)

\* The vector cache: a hit only when both files are there.
BuildDense(p) ==
  /\ Building(p, "dense") /\ ~Cached(p)
  /\ GoTo(p, IF "none" \in {Vectors(p).state, DocIds(p).state} THEN "embed" ELSE "read ids")
  /\ UNCHANGED <<world, job, todo, building, ids, result, reporter>>

ReadIds(p) ==
  /\ pc[p] = "read ids"
  /\ \/ DocIds(p).state = "torn" /\ Raise(p)
     \/ /\ DocIds(p).state = "whole"
        /\ ids' = [ids EXCEPT ![p] = DocIds(p).content]
        /\ GoTo(p, "read rows")
        /\ UNCHANGED <<world, job, todo, building, result, reporter>>

\* Mutant: the order of the doc ids is taken on trust.
Unverified(p) == TRUE

Verified(p) == ids[p] = own[p].ids

ReadRows(p) ==
  /\ pc[p] = "read rows"
  /\ \/ Vectors(p).state = "torn" /\ Raise(p)
     \/ Vectors(p).state = "whole" /\ ~Verified(p) /\ Raise(p)
     \/ /\ Vectors(p).state = "whole" /\ Verified(p)
        /\ KeepLeaf(p, Vectors(p).content)
        /\ ids' = [ids EXCEPT ![p] = <<>>]
        /\ UNCHANGED <<world, job, todo, result, reporter>>

\* The embedding service may fail on any batch.
Embed(p) ==
  /\ pc[p] = "embed"
  /\ \/ Raise(p)
     \/ /\ GoTo(p, "open rows")
        /\ UNCHANGED <<world, job, todo, building, ids, result, reporter>>

\* embedding_cache.save: np.save, then write_text.
OpenRows(p) ==
  /\ pc[p] = "open rows"
  /\ PutVectors(p, Torn)
  /\ GoTo(p, "write rows")
  /\ UNCHANGED <<corpus, docIds, results, job, todo, building, ids, result, reporter>>

WriteRows(p) ==
  /\ pc[p] = "write rows"
  /\ PutVectors(p, Whole(Embedded(model[p], own[p])))
  /\ GoTo(p, "open ids")
  /\ UNCHANGED <<corpus, docIds, results, job, todo, building, ids, result, reporter>>

OpenIds(p) ==
  /\ pc[p] = "open ids"
  /\ PutDocIds(p, Torn)
  /\ GoTo(p, "write ids")
  /\ UNCHANGED <<corpus, vectors, results, job, todo, building, ids, result, reporter>>

WriteIds(p) ==
  /\ pc[p] = "write ids"
  /\ PutDocIds(p, Whole(own[p].ids))
  /\ KeepLeaf(p, Embedded(model[p], own[p]))
  /\ UNCHANGED <<corpus, vectors, results, job, todo, ids, result, reporter>>

-----------------------------------------------------------------------------
(* run_evaluation and write_run_json                                       *)

Run == [experiment : Experiment, dataset : Dataset, model : Model, corpus : AllCorpora,
        timestamp : 1 .. MaxClock, ranking : Seq(Doc)]

Ids(hits) == [i \in DOMAIN hits |-> hits[i].doc]

Built(p) == pc[p] = "build" /\ calls[p] = <<>>

\* The run is stamped when its evaluation ends.
Evaluate(p) ==
  LET root == Pipeline[Head(todo[p])]
  IN  /\ Built(p) /\ clock < MaxClock /\ ~LoneCandidate(index[p], root)
      /\ clock' = clock + 1
      /\ result' = [result EXCEPT ![p] =
           [experiment |-> Head(todo[p]), dataset |-> dataset[p], model |-> model[p],
            corpus |-> own[p], timestamp |-> clock',
            ranking |-> Ids(Search(index[p], root, FetchK))]]
      /\ GoTo(p, "open run")
      /\ UNCHANGED <<corpus, cache, runs, torn, job, todo, building, ids, reporter>>

EvaluateFails(p) ==
  /\ Built(p)
  /\ \/ AsksAModel(Pipeline[Head(todo[p])])
     \/ LoneCandidate(index[p], Pipeline[Head(todo[p])])
  /\ Raise(p)

OpenRun(p) ==
  /\ pc[p] = "open run"
  /\ runs' = runs \cup {result[p]}
  /\ torn' = torn \cup {result[p].timestamp}
  /\ GoTo(p, "write run")
  /\ UNCHANGED <<corpus, cache, clock, job, todo, building, ids, result, reporter>>

WriteRun(p) ==
  /\ pc[p] = "write run"
  /\ torn' = torn \ {result[p].timestamp}
  /\ result' = [result EXCEPT ![p] = Null]
  /\ todo' = [todo EXCEPT ![p] = Tail(todo[p])]
  /\ GoTo(p, "next")
  /\ UNCHANGED <<corpus, cache, runs, clock, job, building, ids, reporter>>

-----------------------------------------------------------------------------
(* write_report                                                            *)

\* glob lists the directory once.
StartReport(p) ==
  /\ pc[p] = "idle"
  /\ \E d \in Dataset : dataset' = [dataset EXCEPT ![p] = d]
  /\ listed' = [listed EXCEPT ![p] = runs]
  /\ unread' = [unread EXCEPT ![p] = runs]
  /\ GoTo(p, "read runs")
  /\ UNCHANGED <<world, model, own, todo, building, ids, result, latest>>

\* Mutant: the file read last wins.
ReadLast(p, run) == TRUE

\* run["timestamp"] > latest[experiment]["timestamp"]
Newer(p, run) ==
  \A kept \in latest[p] : kept.experiment = run.experiment => run.timestamp > kept.timestamp

\* The files come in the order the directory has them in.
ReadRun(p) ==
  /\ pc[p] = "read runs"
  /\ \E run \in unread[p] :
       \/ run.timestamp \in torn /\ Raise(p)
       \/ /\ run.timestamp \notin torn
          /\ unread' = [unread EXCEPT ![p] = @ \ {run}]
          /\ latest' = [latest EXCEPT ![p] =
               IF run.dataset = dataset[p] /\ Newer(p, run)
               THEN {kept \in @ : kept.experiment # run.experiment} \cup {run}
               ELSE @]
          /\ UNCHANGED <<world, pc, job, todo, building, ids, result, listed>>

\* results.md, which no code reads, holds what latest does now.
WriteReport(p) ==
  /\ pc[p] = "read runs" /\ unread[p] = {}
  /\ Exit(p) /\ UNCHANGED world

-----------------------------------------------------------------------------
(* The environment                                                         *)

Kill(p) == pc[p] # "idle" /\ Raise(p)

\* A data set is published anew.  Bound: not in another order than a process has it in.
Republish(d) ==
  /\ \E c \in Corpora[d] :
       /\ \A p \in Process : own[p] # Null /\ own[p].text = c.text => own[p].ids = c.ids
       /\ corpus' = [corpus EXCEPT ![d] = c]
  /\ UNCHANGED <<cache, results, pc, job, todo, building, ids, result, reporter>>

Step(p) ==
  \/ StartSweep(p) \/ NextExperiment(p)
  \/ ReuseLeaf(p) \/ BuildBM25(p) \/ BuildFusion(p) \/ BuildReranker(p)
  \/ BuildDense(p) \/ ReadIds(p) \/ ReadRows(p) \/ Embed(p)
  \/ OpenRows(p) \/ WriteRows(p) \/ OpenIds(p) \/ WriteIds(p)
  \/ Evaluate(p) \/ EvaluateFails(p) \/ OpenRun(p) \/ WriteRun(p)
  \/ StartReport(p) \/ ReadRun(p) \/ WriteReport(p)
  \/ Kill(p)

Next == (\E p \in Process : Step(p)) \/ (\E d \in Dataset : Republish(d))

Spec == Init /\ [][Next]_vars

-----------------------------------------------------------------------------
(* Properties                                                              *)

\* A dense leaf is being built.
Loading == {"read ids", "read rows", "embed", "open rows", "write rows", "open ids", "write ids"}
Stage == {"idle", "next", "build", "open run", "write run", "read runs"} \cup Loading

\* The type invariant: what a sweep works with, and the runs.
SweepTypeOK ==
  /\ corpus \in [Dataset -> AllCorpora] /\ \A d \in Dataset : corpus[d] \in Corpora[d]
  /\ vectors \in [Model -> [Digest -> File(Row)]]
  /\ docIds \in [Model -> [Digest -> File(Doc)]]
  /\ pc \in [Process -> Stage]
  /\ model \in [Process -> Model \cup {Null}]
  /\ own \in [Process -> AllCorpora \cup {Null}]
  /\ calls \in [Process -> Seq([node : Node, built : BOOLEAN])]
  /\ \A p \in Process : pc[p] \in Loading => calls[p] # <<>>
  /\ DOMAIN index = Process
  /\ ids \in [Process -> Seq(Doc)]
RunTypeOK ==
  /\ runs \subseteq Run /\ torn \subseteq 1 .. MaxClock /\ clock \in 0 .. MaxClock
  /\ dataset \in [Process -> Dataset \cup {Null}]
  /\ todo \in [Process -> Seq(Experiment \cup {Unknown})]
  /\ result \in [Process -> Run \cup {Null}]
  /\ listed \in [Process -> SUBSET Run]
  /\ unread \in [Process -> SUBSET Run]
  /\ latest \in [Process -> SUBSET Run]
TypeOK == SweepTypeOK /\ RunTypeOK

\* Every matrix a dense retriever searches belongs to the model and the corpus of its
\* own process, row by row, whether it was embedded or read from the cache another
\* process wrote, over whatever corpora and crashes came before
\* (embedding_cache.py:37, "aligned to each other").
VectorsAligned ==
  \A p \in Process, n \in Node :
    Tree[n].type = "dense" /\ Tree[n].key \in DOMAIN index[p]
      => index[p][Tree[n].key] = Leaf(own[p], Embedded(model[p], own[p]))

\* What a run records is what the pipeline finds over leaves built afresh: neither the
\* index cache nor the vectors on disk change a ranking (retrievers.py:3-15).
CachesAreTransparent ==
  \A run \in runs :
    LET fresh == [k \in Key |-> Leaf(run.corpus, Embedded(run.model, run.corpus))]
    IN  run.ranking = Ids(Search(fresh, Pipeline[run.experiment], FetchK))

\* How many documents of a corpus of that size a node can deliver at most.
Reach(size) ==
  LET reach[n \in Node] ==
        LET cfg == Tree[n]
        IN  CASE cfg.type = "rerank" -> Smaller(cfg.candidate_k, reach[cfg.inner])
              [] cfg.type = "rrf" ->
                   Max({0} \cup {reach[cfg.retrievers[i]] : i \in DOMAIN cfg.retrievers})
              [] OTHER -> size
  IN  reach

\* The depth rule (fusion.py:24-26): a parent asks its children for the depth it needs,
\* so a ranking is as deep as the metrics look, unless the corpus is smaller or a
\* reranker's pool is, whatever top_k the nodes are configured with; and no document is
\* in it twice.
DepthDelivered ==
  \A run \in runs :
    LET reach == Reach(Len(run.corpus.ids))[Pipeline[run.experiment]]
    IN  /\ Len(run.ranking) <= FetchK
        /\ Len(run.ranking) >= Smaller(FetchK, reach)
        /\ IsInjective(run.ranking)

\* A report that has read what it listed keeps exactly the newest run of each
\* experiment of its data set, in whatever order the files came
\* (report.py:3-4, "only the latest run (by timestamp) counts").
ReportIsLatest ==
  \A p \in Process :
    pc[p] = "read runs" /\ unread[p] = {}
      => latest[p] = {run \in listed[p] :
                        /\ run.dataset = dataset[p]
                        /\ \A other \in listed[p] :
                             /\ other.dataset = run.dataset
                             /\ other.experiment = run.experiment
                             => other.timestamp <= run.timestamp}
=============================================================================
