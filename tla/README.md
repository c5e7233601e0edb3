# Verification of the AWS MLOps support agent

TLA+ models of this repository, the TLC runs that check them and the TLAPS
proofs about them.  Paths are relative to the repository root; `rag_core/…`,
`agent/…` and `rag_bench_eval/…` stand for the source directories of the three
packages.

The repository is a support assistant over AWS documentation.  An ingestion
pipeline puts documents into a Pinecone index; a retrieval pipeline searches,
reranks and judges what it found; a LangGraph agent answers from it, asks the
user whether that helped, retries, or drafts a Jira ticket.  A command line and
a Streamlit page drive the agent.  A benchmark package measures retrieval.

## The parts of the system

| Part | State it keeps | Operations | Hard behaviour |
|---|---|---|---|
| Document sources (`rag_core/sources`, `sources/fetch.py`) | S3 cache directory, git clones, on disk | list files, download, clone, check out, strip anchors in place | crash in the middle of a clone, a download or a rewrite; stale cache entries |
| Ingestion (`ingestion/ingestor.py`) | none of its own: the index is its memory | `sync`: hash, status, load, clear, replace, write in batches, roll back | every remote call may fail in part; the process may die; two syncs at once; files edited meanwhile |
| Vector store (`vectorstores/pinecone_store.py`) | the Pinecone index | status by hash, delete by hash, delete by source, add | no transactions, capped queries, random ids |
| Retrieval (`rag_core/retriever`, `pipeline.py`) | BM25 index in memory | search, fuse, rerank, confidence | numeric edges: pool sizes, one candidate, missing scores |
| Generation (`rag_core/generation`) | none | context budget, prompt, citations | truncation, citation numbers out of range |
| Agent graph (`agent/graph.py`, `nodes.py`) | one checkpoint per thread, in memory | retrieve, answer, confirm_resolution, escalate | pauses and resumes, nodes that raise and are run again, two invokes of one thread |
| Jira tool (`agent/jira_tool.py`) | Jira's issues | create_issue | a POST that times out after it landed; a refused one |
| Command line (`app.py`) | the open question | ask, answer the prompts | crash and restart |
| Streamlit demo (`demo/streamlit_app.py`) | `session_state.pending`, the page | message, three buttons, rerun | a click while a script runs; a script that raised |
| Configuration and start-up (`rag_core/config`, `settings.py`, `ingest.py`, the factories) | none of its own; `config.yaml`, `.env`, the environments, the index's metric and dimension | load, validate, check readiness, construct, create the index | empty and missing values; errors one after the other; two processes creating one index |
| Benchmark (`rag_bench_eval`, `retriever/bm25.py`, `dense.py`, `fusion.py`) | embedding cache and run files on disk, index cache in memory | sweep pipelines over a data set, report | cache keys, two files saved one after the other, files read while they are written |
| Evaluation (`rag_core/evals`, `evals/`) | none | ranking metrics, routing eval | numeric edges only |
| Logging, observability | none | I/O | none a property could be about |

How they interact: `ingest.py` and the demo's sidebar button call
`Ingestor.sync`, any number of them at once, on one shared index.  `app.py` and
`streamlit_app.py` call `graph.invoke` with a question or with
`Command(resume=…)`; a node reads and updates the thread's state, which
LangGraph checkpoints after each node; `retrieve` calls the pipeline, `answer`
the language model, `escalate` Jira.  The two sides meet only in the index, and
in the `config.yaml` from which each process builds its own `RagCore`, together
with an environment of its own.  Benchmark processes meet on the disk.

What makes each part correct:

- ingestion: no chunk stored twice, no two versions of one file searchable
  together, a document that counts as ingested is whole, the stats of a run
  are true, what is stored stays until its file changes, repeated runs heal whatever a crash left;
- agent: a bounded number of attempts, no answer from a weak retrieval, no
  ticket without the user's word, at most one issue per question, what the
  user reads is what happened, every question ends;
- command line and demo: they keep the promise of `SupportRequest`, and the
  demo never reaches Jira;
- sources: a listed file holds what its origin holds; retrieval: the best
  candidates in the right order at every pool size; generation: a citation
  names a chunk that was in the prompt;
- start-up: an error names everything that is missing, what validation asks for
  is what the clients need, all processes work on the index the file names, and
  no index holds a vector that does not fit it;
- benchmark: what is read from a cache is what was saved for this corpus and this
  model, a ranking is as deep as the metrics look, a report keeps the newest runs;
  routing evaluation: it foretells what the agent does.

## Modules

| Module | Models | Runs or proofs |
|---|---|---|
| `Ingestor` | `ingestor.py`, `chunking.py`, the store calls of `pinecone_store.py` | through `MCIngestor` |
| `MCIngestor` | instances of `Ingestor` | `ingest_*` |
| `IngestorProofs` | | theorems about `Ingestor` |
| `DocumentStore` | what ingestion promises about the documents; abstract | refined by `Ingestor` |
| `AgentGraph` | `graph.py`, `nodes.py`, `state.py`, `jira_tool.py`, `settings.py`: the nodes, `invoke`, the checkpointer; no specification of its own | through its drivers |
| `CliApp` | `app.py`, on top of `AgentGraph` | `cli` |
| `StreamlitApp` | `streamlit_app.py`, on top of `AgentGraph` | through `MCStreamlitApp` |
| `MCStreamlitApp` | instances of `StreamlitApp` | `demo_*` |
| `AgentGraphProofs` | | lemmas about `AgentGraph`, for both drivers |
| `CliAppProofs`, `StreamlitAppProofs` | | theorems about the drivers |
| `SupportRequest` | what a user is promised about a question; abstract | refined by `CliApp` and `StreamlitApp` |
| `S3Cache` | what the calls of `sources/s3.py` share, and what a listing promises; no specification of its own | through `S3Source` |
| `S3Source` | the steps of `sources/s3.py`, on top of `S3Cache` | through `MCS3Source` |
| `MCS3Source` | instances of `S3Source` | `s3_cache` |
| `AwsDocsGitSource` | `agent/sources/fetch.py` | through `MCAwsDocsGitSource` |
| `MCAwsDocsGitSource` | instances of `AwsDocsGitSource` | `git_clone` |
| `SourceProofs` | | theorems about `AwsDocsGitSource` and `S3Source` |
| `AnswerPipeline` | `retrieve.py`, `rerank.py`, `confidence.py`, `generator.py`, as `nodes.py` and `pipeline.py` call them | through `MCAnswerPipeline` |
| `RoutingEval` | `evals/run.py`, `evals/runner.py`, on top of `AnswerPipeline` | through `MCAnswerPipeline` |
| `MCAnswerPipeline` | instances of `RoutingEval` and so of `AnswerPipeline` | `rag_answer` |
| `AnswerPipelineProofs` | | theorems about `AnswerPipeline` and `RoutingEval` |
| `BenchRetrievers` | `bm25.py`, `dense.py`, `fusion.py`, `RerankingRetriever`, and how `factory.py` nests them; pure operators | through `RetrievalBench` |
| `RetrievalBench` | `rag_bench_eval`: `cli.py`, `retrievers.py`, both caches, `evaluator.py`, `report.py`; `ir_runner.py` | through `MCRetrievalBench` |
| `MCRetrievalBench` | instances of `RetrievalBench` | `bench_sweep` |
| `RetrievalBenchProofs` | | theorems about `RetrievalBench` |
| `StartUp` | `rag_core/config`, `embeddings/factory.py`, `llm/factory.py`, `RagCore.__init__`, the store's `create_collection` and `get_store`, `ingest.py` | through `MCStartUp` |
| `MCStartUp` | instances of `StartUp` | `start_up` |
| `StartUpProofs` | | theorems about `StartUp` |

### Ingestor

A worker is one call of `sync`.  `pc[p]` says which remote call it makes next,
`todo[p]` the files it has listed and not taken up, `rec[p]` the record
`_prepare_document` builds, `outcome[p]` what its stats will say.  `index` is a
set of vectors, each with the path, the hash, the position and the text of its
chunk, and a `copy` number for the random id langchain-pinecone gives a document
added without one: writing a chunk again does not replace it.  `files` is the
user's side.

| Action | Code |
|---|---|
| `StartSync` | `sync`, `ingest_documents` up to the loop |
| `HashFile` | `_prepare_document`: the file is hashed; missing files count as failed |
| `ReadMarker`, `ReadCount` | the two queries of `get_ingest_status` and the decision to skip |
| `LoadFile`, `PrepareFails` | load and split, the file read a second time; the except branch |
| `ClearPartial` | `delete_by_file_hash` of a partial ingest |
| `QueryStale`, `PurgeStale` | `delete_by_source`: query, then delete by id |
| `WriteBatch` | one `add_documents` call of `_write_chunks` |
| `WriteFails`, `Rollback` | a call raises after part of it landed; the except branch, which may fail too |
| `Return`, `Abort` | `ingest_documents` returns its stats; the process is killed, or `on_chunks_prepared` raises |
| `Edit` | a file is created, edited or deleted |

A step is one remote call or one read of a file, the finest grain at which
others can be observed.  A content is a model value and is its own SHA-256; the
number of chunks it splits into is the constant function `Chunks`.

`DocumentStore` says what readers may count on, with no index, batches or calls: a
set of paths, the versions a search finds under each (`found`), those found from end
to end (`whole`), the path a run is replacing (`busy`) and what it says of each
(`report`).  A run skips a path only if it is stored as it is, and replaces it only
if it is not; under the path being replaced a search finds the old version, nothing
or the new one, and a path that is not being replaced keeps what it has, whatever
fails.  `Ingestor!ImplementsStore` is that specification under the mapping that reads
`found` and `whole` off the index and takes a path to be replaced while its worker
clears, purges, writes or rolls back.

### AgentGraph, CliApp, StreamlitApp

A thread is a question.  `ckpt[t]` is its latest checkpoint, with the node it is
about to execute; `run[r]` is a call of `graph.invoke`: its own copy of the
state, the resume value it carries, and how it stands (going, paused, ended,
raised).  Every node is an action, with the router behind it.  `interrupt()` is
`Pause`, a node that raises is `Raise`, which leaves the checkpoint before it, so
the next invoke runs the node again.  The two drivers extend the module and say
who calls `Invoke` and `Resume`, and under which configuration:
`CliApp` loads `.env` at each start, `StreamlitApp` forces the dry run.

`CliApp`: `Launch`, `Quit`, `AskQuestion`, `Work` (the graph executes), `Reply`
(a prompt is answered), `Finish`, `Fail` and `Crash` (an exception nobody
catches), `Kill`.  A new process starts with an empty checkpointer.
`StreamlitApp`: a click or a message starts a new script at once, while the one
before may still be inside `invoke`; that one goes on to the end of the call and
is dropped (`Drop`).  `handle_result` is two steps, because a script can be
stopped between its writes to the page and to the session: `ShowAnswer` then
`SetPending`, `ClearPending` then `ShowOutcome`.  Two history variables: `overlapped`
has the threads that a click resumed while an earlier invoke was still at work on them,
`retrieved` counts the retrievals of all others, to one more than the cap.  `MAX_ATTEMPTS` bounds a count that each
invoke keeps in its own copy of the state; that it bounds the retrievals themselves is
true, and stated (`AttemptsBounded`, the second part of `AsksAboutLatestAnswer`), of
threads that are not `overlapped`.

`SupportRequest` says what both owe a question: at most `MaxAttempts` searches,
the user is asked after an answer, one end that stays, one issue at most and
only while the question is being escalated, open questions lost when the
process dies.  `ImplementsRequest` in each driver is that specification under
the mapping from checkpoints to the question's status.

### S3Source, AwsDocsGitSource

A worker, or a caller, is one call of `list_files`; what the calls share is on disk
and outlives them.

`S3Source` extends `S3Cache`, which has its constants and variables: `cache` is the cache directory, each file with the object it was
downloaded from and the time it was written, `progress[w]` where a call stands, `listing[w]` what it got from
`_list_objects` and has still to look at, `objects` the bucket.  `ListObjects`,
then for each key in order `Skip` (`_needs_download` says no) or `Get` and
`Land`, the two ends of `download_file`; `Gone` when the object is there no more,
`Return`, `Fail`.  `Upload`, `Remove` and `Tick` are the bucket's side and the
clock.  S3 stamps an object with a whole second (`Stamp`), a file system with a
finer time: the clock has `Second` ticks a second.  `seen` is a history variable:
what each key has held since the oldest call at work took its listing.

`AwsDocsGitSource`: `repo`, `head`, `locked` and `doc` are the clone (its
directory, what HEAD names, git's index lock, the working tree).  A call starts
with `Start` (`repo_dir.exists()`), clones (`BeginClone`, `EndFetch`, `Populate`,
`EndTree`), reads HEAD (`ReadHead`), asks rev-list for the revision that deleted
the docs and takes its parent (`RevList`), checks it out (`BeginCheckout`,
`Populate`, `EndTree`), lists the files (`Glob`) and rewrites each in place
(`ReadFile`, `Truncate`, `WriteFile`).  `CloneFails` and `Kill` are the faults.
`killed` and `overlap` are history variables, for properties that hold only
while nothing was killed or no two calls overlapped.

### AnswerPipeline

One question, from search to cited answer, and again if the agent's user retries.
`cfg` is the configuration and who asks (the agent's nodes, or `rag-ask`),
`corpus` what the store finds and the reranker thinks of it, `kept` the scored
chunks of the last retrieval, `used` and `spent` the context while `build_context`
makes it, `citations` and `invalid` what `parse_citations` has read so far,
`answer` what the user sees; `before` is a history variable, the attempt before.

| Action | Code |
|---|---|
| `Retrieve` | `retrieve_scored` with the pool of `resolve_fetch_k`, `rerank`, `assess_confidence`, and what the caller does with the verdict |
| `RetrieveMMR` | `retrieve_scored` raises: MMR has no scores |
| `WholeChunk`, `CutChunk`, `EndContext` | one turn of `build_context`'s loop: a chunk that fits, one cut to what is left, the break or the end |
| `Refuse`, `Answer` | the model declines, or replies |
| `ReadMark`, `Finish` | one source number in `parse_citations`; unknown ones are removed from the text |
| `Retry` | the agent's user asks again: two chunks more |

`AgentGraph` takes the verdict as a choice of the environment and has no chunks;
here it is computed, and pauses and faults are left to `AgentGraph`.

`RoutingEval` has no step of its own: `EvaluateCase` is `evaluate_case` on the
corpus of the question at hand, so that `EvalPredictsAgent` compares it, case by
case, with what the agent's first attempt on the same corpus did.

### RetrievalBench, BenchRetrievers

A process is one call of `rag-bench-eval`, a sweep or a report; what they share
is on disk.  `corpus[d]` is what data set `d` is published with, `vectors` and
`docIds` the two files of each entry of the vector cache, `runs` the files of
`results/runs` and `torn` those not whole.  Of a sweep, `own` is the corpus it has
loaded, `index` its index cache, `calls` the recursion of
`build_pipeline_retriever`, unfolded into a stack.

| Action | Code |
|---|---|
| `StartSweep`, `NextExperiment` | `_cmd_run`: the data set, then one experiment after the other; an unknown name raises |
| `BuildBM25`, `BuildFusion`, `BuildReranker`, `ReuseLeaf` | the branches of `build_pipeline_retriever`, through `get_or_build` |
| `BuildDense`, `ReadIds`, `ReadRows` | `embedding_cache.load` and the assertion on the ids |
| `Embed`, `OpenRows`, `WriteRows`, `OpenIds`, `WriteIds` | a miss: embed, then `save`, each file opened and closed |
| `Evaluate`, `EvaluateFails`, `OpenRun`, `WriteRun` | `run_evaluation`, `write_run_json` |
| `StartReport`, `ReadRun`, `WriteReport` | `write_report`: glob, then file by file, in any order |
| `Kill`, `Republish` | the process is ended; a data set is published anew |

`BenchRetrievers` has the searches as functions of what a leaf holds: the sort of
each has a fixed order of ties (`sorted` keeps them; `argsort` reversed is taken to turn them
around, although `dense.py:65` asks for no stable kind: what is relied on is that equal
input is ranked equally), normalising rows a second time (`dense.py:47-49`) is taken to
leave them as they are, a fusion adds exact fractions on a common denominator, and
`Search` recurses over the tree with the depth each parent asks for.

### StartUp

A process builds a `RagCore` from `yaml` and its own `environ`, then syncs or
answers until it was served once.

| Action | Code |
|---|---|
| `Load` | `load_dotenv`, placeholders, `RagConfig.from_config`, `_validate` |
| `CheckEmbeddings`, `CheckLLM`, `CheckStore` | `check_readiness`, one live call after the other, one error at the end |
| `Construct` | the factories and `PineconeStore.__init__`, in their order |
| `ListSources` | `build_sources`, `list_files` |
| `HasIndex`, `EmbedTest`, `CreateIndex` | `create_collection`: other processes run between its calls |
| `OpenStore`, `WriteDocuments` | `get_store`, and the writing, which is module `Ingestor` |
| `Ask` | `retrieve_scored` and the model behind it |
| `Restart`, `TryAgain`, `Break` | the operator does what the error asks for and starts a new process, or tries again in the page that is still open; a service goes down |

`Empty` is what is absent or empty, since `or` makes them one; `"Unset"` is told
apart from it in environments, since `load_dotenv` does.  `Tagged` gives the name under
which Ollama lists a model (external: "nomic-embed-text" is listed with ":latest"), and
`pulled` holds such names.  `OllamaProblems`, the check, looks for the name as the file
has it; `OllamaTrouble`, a call that uses the model, for the completed one.  A key that is
`${VAR}` stays that text when the variable is not set, as `_resolve_env_vars` leaves
it.  What a client of a cloud model does without a key (it reads the environment
itself, and an empty value satisfies it until the first call) is external.
`rounds` counts failed attempts by what they failed for (history).

boto3 and git are not in the repository: that a download is renamed into place
when complete, that git locks the index, refuses to overwrite edited files,
replaces rather than rewrites a file, and removes the directory of a clone that
failed but not of one that was killed, is modelled as these programs do it.

LangGraph and Streamlit are not in the repository.  What `AgentGraph` takes from
LangGraph (a checkpoint after each node, a resume value consumed by the first
node, a paused thread returned to its caller, a finished one returned as it is)
and `StreamlitApp` from Streamlit (a new script per event, the old one stopped
at its next call) is modelled from how the code uses them and marked external.

## Runs

| Run | Shows | Bounds |
|---|---|---|
| `ingest_single` | one sync at a time, files edited at any moment, every fault: no chunk twice, one version per path, complete means whole | 2 paths that may hold the same content, 2 contents, of 3 chunks (two batches, the second shorter) and 1 |
| `ingest_report` | with a quiet directory: stats are true, syncs converge, and the index is the document store of `DocumentStore` | 2 paths with contents of their own, of 3, 2, 1 and 0 chunks, every fault |
| `ingest_two` | two syncs, no failures: a half-written document always has a sync that is about to write all of it | 2 workers, 2 paths, 3 contents, batches of 1 so that a document takes up to three |
| `cli` | the command line under every choice, fault, kill, restart and change of settings | 2 questions, MAX_ATTEMPTS as in the code, three DRY_RUN words (unset, a "no", a misspelt "no") |
| `demo_patient` | the demo with a user who waits: page and graph agree but after a retry that raised, questions end, `SupportRequest` is kept | 2 questions, 2 invokes, no Jira settings |
| `demo_impatient` | the demo with clicks at any moment, complete Jira settings and DRY_RUN=false: no issue, one outcome, no resolution without its click, however invokes overlap; the cap on retrievals and questions about the latest answer, on threads no two invokes shared | 2 questions, 2 invokes at once, symmetric; of the nodes only `retrieve` raises |
| `ingest_truncated` | violated: see below | 2 workers, 1 path, kills only |
| `s3_cache` | two calls, uploads, removals and failures at any moment: what is returned is no older than the listing, the cache converges | 2 callers, 1 key, 2 contents of different size, 2 ticks a second, 2 ticks |
| `git_clone` | two calls, archived or not, failing clones and kills: the whole guide, no anchor, no text cut off for good, repeated calls converge, each as far as it holds | 2 workers, 3 files of which 2 have anchors, 2 revisions with docs |
| `rag_answer` | a retrieval returns as many chunks as were asked for, and its verdict is about the best of all candidates; the context fits; an answer cites what the model saw; a retry loses nothing shown, or with a reranker has a best chunk judged no worse; the routing evaluation foretells the first attempt | 4 chunks, every order of them, top_k 1 and 2, with and without reranker, fetch_k and threshold, 3 budgets, 2 attempts |
| `bench_sweep` | sweeps and reports over one disk, killed at any moment, data sets published anew: no cache changes a ranking, a matrix belongs to its reader's corpus, rankings are deep enough, a report keeps the newest runs | 2 processes, 2 data sets over the same ids, 1 model, 3 documents, 4 pipelines and an unknown one, 4 sweeps and runs, symmetric |
| `start_up` | processes started from one file and environments of their own: what an error asks for suffices (of models, if named as Ollama lists them), validation asks for what clients need, an index holds only what fits it, everyone is served | 2 processes of which one is a page, 10 files, 3 environments, 2 states of the store, 1 service going down once |

Why the bounds are enough.  Files interact only through shared contents and
shared paths, so two paths and contents that move between them give every
pairing; a document of two batches has a first, a last and an intermediate
state; two workers give every pairwise race.  `MaxCopies` bounds the ids told
apart per chunk: a write takes the lowest copy number that is free, and is
disabled when none is left, which happens only after that many duplicates were
stored (`ingest_single` and `ingest_report` store no duplicate, so one is enough
there).  `TopK` is 10 in the runs, 12 in `ingest_two`, above all copies a path can hold, as
10000 is in the code for documents of ordinary size.  A question only meets another one in the order
they are asked, so two questions show all there is; the third invoke of one
thread would wait behind the same checkpoint as the second.  Keys of a bucket
share nothing but the order they are taken up in, and a call between two keys is
a call that is slow at the second, so one key is enough; three ticks let an
object be uploaded before, in and after the second of a download.  Four chunks are
what the first attempt keeps (at most two) and the two more of the second; of the
budgets one holds all four, one cuts the long one, one ends at the second chunk;
the three replies have a number twice and out of order, one too high and zero,
and none at all.  The two data sets
of the benchmark have the same ids and different texts, the one confusion a digest
must prevent, and one of them an order that can change; the tree has a fusion whose leaves
are configured less deep than the metrics look, a reranker over it, one with a pool
of one and one that is refused; four ticks are two sweeps and two runs, so that a
sweep reads what another one, or one that was killed, has left, and a report finds
two runs of an experiment.  The ten files of `start_up` are one of each kind:
cloud models, a hybrid index with a placeholder for a key, local models named with
their tags and a key in the file, the default local model, which has none, a local store, a provider in capitals, no index name, a misspelt provider, a store
the code does not have, and sources the registry has and has not.  The
environments have a variable exported empty, the readiness check switched off, and
another index name.  Two processes are
enough for a race to create an index; `MaxRounds` stops the counters above every
value the properties allow.  Three files
of a guide give one that both revisions edited, one without anchors and one that
a checkout has no need to touch.

### Deadlock

The Ingestor, S3, git and benchmark runs and `cli` check for it.  The demo's runs do not: a
session with both questions ended has nothing left to do; nor does `rag_answer`,
where a question ends, nor `start_up`, whose processes
end served or refused.  `cli` never stops, since a process
can be started again with no question left to ask.

### Fairness

- `Ingestor!FairSpec`: a worker that can go on does (`Step`), and syncs are
  requested again and again (`StartSync`).  Faults and edits have no fairness.
  `Converges` is conditional: *once* files stop changing and calls stop failing
  for good, the index reaches the state of the directory and stays there.
- `CliApp!FairSpec`: the graph executes its nodes, prompts are answered one way or
  another, the process prints its outcome or dies.  Nothing says which answer the
  user gives, or that a node ever succeeds.
- `StreamlitApp!FairSpec`: invokes and scripts go on, and a user who has buttons
  presses one of them.  `EveryQuestionEnds` is conditional on nodes raising no
  more, since every click on a failing node fails again.

- `S3Source!FairSpec`: a call goes on until it ends, and calls are requested again.
  `Converges` is conditional on the bucket coming to rest and calls no longer
  failing.
- `AwsDocsGitSource!FairSpec`: the same.  `Converges` is conditional on clones no
  longer failing, and stated for behaviours without kills and overlapping calls:
  the code repairs neither a killed clone nor what a second first call breaks.

- `StartUp!FairSpec`: a process takes its next step, and one that fails again and
  again is replaced by a new one some day (strong fairness of `Restart`: between two
  failures the page may be tried again in place).  The operator does what the
  error asks for and nothing else.  `EveryoneServed` is conditional on a file the
  code can serve: known providers and sources, an index that is named and, if it
  is there already, suits it.  It speaks of processes that can pass the readiness check
  (`Passes`): the file names its Ollama models with their tags, or the check is skipped.

`AnswerPipeline` and `RetrievalBench` have none: they state no liveness.  The code
justifies no more: it has no timeouts, background retries or schedulers.

## What the code does against its documentation

- **`ingest_truncated`**.  `pinecone_store.py:303-305` promises that a leftover
  of a failed ingest is not taken for a whole document.  The test is a count.
  Two syncs that each stored a first batch of two chunks before they were killed
  leave four vectors for a document of three: complete, and skipped forever.

Seen while modelling and not given a run of their own:

Agent and sources

- When `retrieve` or `answer` raises after "Ask again", `session_state.pending`
  stays (`streamlit_app.py:129`), although `streamlit_app.py:7-9` says the page
  re-renders from the state the graph left: it offers three buttons for a pause that is
  gone, and the next click, whichever it is, only runs the failed node again (why
  `PageShowsStateOrRetry` excepts that click).
- `graph.py:39-41` has "Max retrieve→answer cycles before a "retry" turns into an
  escalation".
  The count is each invoke's own (`nodes.py:90`, `graph.py:68-76`).  A user who clicks "Ask
  again" while an earlier click's invoke is still retrieving makes two invokes resume one
  checkpoint, and both retrieve: three times for one question.  With two invokes at a
  time and clicks at the worst moments a thread is retrieved four times, found
  with the counting of `Work` applied to all threads.  The slower of the two may then put
  its question over what the other's later attempt found.  Why `AttemptsBounded` and
  `AsksAboutLatestAnswer` leave `overlapped` threads out.
- `s3.py:142-144` says that only an edit preserving both size and modification time
  is missed.  What is compared is the time the cached copy was written: an object
  of the same size uploaded while the download runs, or later in the same second,
  has a newer modification time and is missed for good (why `FreshListing` is
  stated where sizes tell contents apart).
- Two syncs that both find a file absent store every chunk twice, and the second
  copy is never removed (why `NoDuplicateChunks` is stated for one sync at a time).
- Two files with one content share one stored copy, under the path of the first.
  Editing that file makes `delete_by_source` (`ingestor.py:194`) remove the copy,
  and the other file is not in the collection until the next sync.
- `sources/local.py:5-7` says a deleted file is removed from the collection.
  `sync` never deletes what its sources do not list.
- A file edited to a content that is already stored elsewhere is skipped before
  `delete_by_source`, so its old version stays searchable (why `ReportIsTrue` is
  checked where paths have contents of their own).
- A file emptied of its text fails to load before `delete_by_source` and keeps its
  old version too (why `Converges` speaks of files that have text).
- A file edited between hashing and loading is stored under the hash of its old
  text.
- A document of more chunks than one query returns never counts as complete and
  is written again by every sync.
- A response of Jira that is not ok is raised as the same `RuntimeError` as missing
  settings, and reported as "Jira not configured" (`nodes.py:176-180`).
- A clone killed half-way is never repaired: its directory exists, so later runs
  skip the clone and fail, or list the files that got written.  A file cut off by
  a kill inside `write_text` has no anchors left to strip and is taken for clean.
- `fetch.py:21-24` takes the revision rev-list names for the one that deleted the
  docs.  A call that read HEAD before another one checked the docs out, and runs
  rev-list after it, gets the last revision that edited them and checks out its
  parent.  Every later run takes that older revision for HEAD.
- `rerank.py:70-72` says each returned document carries its rerank score.  A single
  candidate is returned without one (`rerank.py:79`): `retrieve_scored` reads 0.0
  for it (`retrieve.py:115`), so that the agent escalates a good match or, under a
  negative threshold, answers from a bad one; `RerankingRetriever.search`
  (`rerank.py:299`) raises `KeyError`.  Why `VerdictIsTheBest` excepts a pool of one, and why
  `RetryNoWorse` compares what the reranker thinks of the best chunks rather than the
  scores beside them: with `fetch_k` 1 a first attempt has a lone candidate at 0.0, and
  the retry, which asks for more, can show a better judged one at a negative score.
- `mmr_search` asks for 20 candidates whatever `k` is (`hybrid.py:93`), so more
  than 20 chunks never come back; and the agent with `search_type: mmr` raises at
  its first question.

Start-up

- `readiness.py:22` says the check confirms that the model has been pulled.  It looks for
  the configured name among those `/api/tags` lists (`readiness.py:29-30`), and Ollama
  lists every model with a tag: "nomic-embed-text", the default (`providers.py:20`) and
  what `config.example.yaml` has, is pulled as "nomic-embed-text:latest", is reported
  missing after every `ollama pull` the error asks for, and would work if the check were
  skipped.  Why the bound on readiness in `RoundsOfFixes` is for files that name models as
  listed (`NamesListed`) and `EveryoneServed` for processes that `Passes` admits.
- A provider in capitals ("OpenAI") is in no key map, so it passes validation
  without a key and is not checked for readiness; the factory lowercases it and its
  client asks for the key then (why `KeysSuffice` speaks of names spelled as mapped).
- `${VAR}` for a variable that is not set stays that text, which counts as a key that
  is set; the first call fails.
- `vectorstore.provider` other than `pinecone` is not asked for a key, though
  `PineconeStore` is built whatever it says.
- "Copy .env.example to .env and fill them in" (`root.py:78`) does not help while the
  variable is exported empty, nor in a page that has already loaded an empty value:
  `load_dotenv` does not replace it.  A restart helps in the second case.
- `embeddings.model` is ignored for huggingface and fastembed, whose factory
  branches read `model_name`, which the configuration never passes.  Without a model,
  provider openai is handed `nomic-embed-text` or `llama3.1:8b`; the defaults in the
  factories are never reached.
- An index of the right length accepts vectors of another model, and a changed
  `embeddings.model` of the same length mixes them silently.  `EMBEDDING_DIMENSIONS`,
  which `pinecone_store.py:22-23` says makes this fail loudly, is not used.
- With no files listed no index is created, and every answer fails until there is one.
- `loader: {extensions: null}` raises `TypeError`.
- `ingest.py:11` says upserts use deterministic ids; `add_documents` draws random ones.

Benchmark

- A run file torn by a kill makes every later report raise, until someone removes it;
  a torn file of the vector cache does so to every pipeline with that entry, and
  after a corpus is reordered the assertion on the ids raises for good.
- Two sweeps that hold one corpus in different orders can pair one's vectors with the
  other's ids, which pass the assertion: `corpus_hash` sorts.  `Republish` excludes
  it: a data set is not reordered while a process works with the old order.
- Two reports at once may leave the older table in `results.md`.
- A second leaf with the same cache key gets the retriever, and so the `top_k`, of the
  first; no search asks without a depth, so nothing depends on it.
- A reranker delivers at most `candidate_k` documents, so recall at 100 is capped by it
  (`Reach` in `DepthDelivered`); with a pool of one its search raises `KeyError`.

## Proofs

`IngestorProofs` proves, for any number of paths, contents, workers, any batch
size, query cap and bound on copies:

| Theorem | States | Assumes |
|---|---|---|
| `TypeCorrect` | `Spec => []TypeOK` | nothing beyond the assumptions of `Ingestor` |
| `NoChunkTwice` | `Spec => []NoDuplicateChunks` | `OneSyncAtATime`, `DocumentsFitAQuery` |
| `OneVersion` | `Spec => []OneVersionPerSource` | the same |
| `CompleteIsWhole` | `Spec => []CompleteMeansWhole` | the same |
| `ReportHolds` | `Spec => []ReportIsTrue` | the same, `FilesHoldStill`, `OwnVersions` |
| `SyncIsAStore` | `Spec => ImplementsStore` | `OneSyncAtATime`, `DocumentsFitAQuery`, `FilesHoldStill`, `OwnVersions` |
| `NothingStoredIsLost` | `Spec => StoredStays`: no step unstores a file, unless it edits it or a run is replacing it | the same |
| `PartHasAWriter` | `Spec => []NoOrphanedPart`, for any number of workers | `CallsSucceed`, `FilesHoldStill`, `OwnVersions`, `CopiesFitAQuery` |

`OneSyncAtATime` says there is at most one worker; `DocumentsFitAQuery` that no
content has more chunks than a query returns, without which `delete_by_source`
leaves stale vectors behind and a count says less than it should.
`FilesHoldStill` says that nobody edits a file during a sync, `OwnVersions` that no two
paths share a content: the chunks of a copy are stored under the other path, and
replacing that path's file deletes them.

None of the safety properties is inductive.  The index alone does not say that the vectors
of the path being written were cleared, or that the text of a leftover is the
text about to be written.  The invariant `IInv` is `TypeInv` (types), `IndexInv`
(what holds of the index at any moment: one version per source, one text per
hash, positions within that text, no position twice) and `StageInv` (what the
worker's stage guarantees about the index: what `get_ingest_status` saw is still
so, the partial ingest is gone after `clear`, the stale versions after `purge`,
exactly the chunks before `start` are stored while it writes).  `SingleWriterInv`
proves `Spec => []IInv`, one step per action; the theorems follow,
`CompleteIsWhole` by counting: as many distinct positions as the text has, all below their number, are
all of them.

A report is about every file the sync has passed, not the one it is at.  `ReportInv` adds
that a chunk is stored under the one path its content can have and is a chunk of that
content's text (`HomeInv`), that the record of the file at hand is still what the file
says and what was sent of it has landed (`CurrentInv`), and that what the statistics
say by now is so, and nothing is said of files to come (`DoneInv`).  `OthersStay` is the
frame: a step on one file leaves the chunks of the others alone.

`SyncIsAStore` is the refinement.  `StoreInv` is the invariant of the report with one
fact more: a file that is about to be loaded is not stored as it is (`TakesUp`), for
`ReadCount` counts a stored one as complete (`StoredCounts`).  So the store's `Begin`
is enabled when `LoadFile` takes a file up.  Each action then maps: reading and hashing
to a stutter (`Stutters`), what is said of a file that is not being replaced to `Skip`
or `Fail` (`Says`, `PrepareStore`), the four stages that change the index to `Change`,
`Finish` or `GiveUp`.  For the last, `WriteMoves` says
what such a step does to the index: it takes away vectors of the file's hash or path,
or adds some of the current batch.  With `StageInv`, which leaves only the old version to
take away before the first batch and only the new one after it, that is a step of
`Touch`; `Touches` adds that every other path keeps what is found under it.  Each hypothesis is needed: with two
workers, contents that two paths share, edits during a run, or a query capped below
the size of a document, TLC finds a step the store does not allow.
`NothingStoredIsLost` is the part of it a user asks about first.  No run takes up a file
that is stored as it is, so such a document stays so through every later run, failed
and killed ones included, until somebody edits its file.

`PartHasAWriter` is about syncs that run at once.  `CallsSucceed` leaves only failures of
loading, as the property does; `CopiesFitAQuery` says that all that can be stored under a
path, duplicates included, fits one query, or a sync would purge less than it must.  While
a worker clears a document others write it, and one that has sent its last batch may have
had the first of them deleted: so `PartInv` says of every content that it is absent and
nobody is writing it, or whole, or there is a worker all of whose batches so far are
stored and who goes on (`Completes`).  It survives a `clear` since the one that cleared is
then such a worker, and a purge since what is purged is of no current version
(`HeldInv`).

`SourceProofs` proves, for any number of calls of either source, any files, anchors,
revisions and edits of a guide, any keys and contents of a bucket and any clock:

| Theorem | States | Assumes |
|---|---|---|
| `CloneInv` | `Spec => []IInv`, of the guide | nothing beyond the assumptions of `AwsDocsGitSource` |
| `NothingStaysCut` | `Spec => []CutHasWriter` | the same |
| `NoAnchorListed` | `Spec => []ListsNoAnchor` | the same |
| `WholeGuideListed` | `Spec => []ListsWholeGuide` | the same |
| `SharedCache` | `S3!Spec => []CacheInv`, of the bucket | the assumptions of `S3Cache`, `SizesTellApart` |
| `Freshness` | `S3!Spec => []FreshListing` | the same |

A file that is cut off belongs to the worker that is about to fill it, and git takes the
handle away from whoever has a file open that it replaces: but then it replaces the cut
text too.  With what the handles hold (`HandleInv`) this is inductive however calls
overlap.  What a call returns depends on all it found since it started, and only calls
that do not overlap can rely on that: then one is at work (`Solo`), HEAD is at the last
revision that has docs, at the one that deleted them, or nowhere, and every text is of
that last revision (`GuideInv`); `WorkInv` says what the call has made sure of at each of
its stages, which no earlier kill undoes.  Without kills `StageInv` adds how far the clone
is, and `AtRest` that between calls it is absent, whole, or without any file.

`FreshListing` speaks of a call that is about to return; the invariant says what a
call knows on the way there: of every entry still listed, some content seen since
has its size (`EntryInv`), the object it is downloading has been seen since its
listing (`PartInv`), and so has what the cache holds under every path collected
(`PathInv`), which other calls may overwrite at any moment, but only with
something seen too.  `SeenInv` links the history to the bucket.  `SizesTellApart`
says that no two contents have one length: without it a skipped entry may hold a
content of the listed size that the bucket has not held for long.  The module extends
`AwsDocsGitSource` and `S3Cache`, and has `S3Source` as an instance over the latter's
variables.

`AnswerPipelineProofs` proves, for any configurations, corpora, chunk and header
lengths, blanks before a cut, and replies:

| Theorem | States | Assumes |
|---|---|---|
| `TypeCorrect` | `Spec => []TypeOK` | nothing beyond the assumptions of `AnswerPipeline` |
| `ContextAlwaysFits` | `Spec => []ContextFits` | the same |
| `AlwaysTraceable` | `Spec => []AnswerIsTraceable` | the same |
| `BestDecides` | `Spec => []VerdictIsTheBest` | the same |
| `RetryHelps` | `Spec => []RetryNoWorse` | the same |
| `EvaluationPredicts` | `Spec => []EvalPredictsAgent` | nothing beyond the assumptions of `RoutingEval` |

`ContextFits` needs three facts more to be inductive: a context is only built for
chunks (`HasChunks`), an empty one is free (`EmptyIsFree`), and no more chunks are
kept than there are (`KeptBound`, from the size of the candidate pool).
`AnswerIsTraceable` is about the end of `parse_citations`; `ParseInv` says what is so
after each number: the numbers read so far are split between `invalid` and the
citations by whether the model saw such a source, and no number is cited twice.
`AddBlockStep` does the arithmetic of a block once for whole and cut chunks.

The last two compare a verdict with the whole pool and an attempt with the one before
it.  `RankingIsBest` says what any stable ranking has in front, and, without a reranker,
that it is the store's own order chunk by chunk (`InOrder`, by counting).  `RInv` carries
that from `Retrieve` on for both rankings a question holds (`FoundInv`).  It also keeps of both
contexts how `build_context` came by each block (`BuiltInv`), so that two contexts over the
same chunks agree block by block (`SameBlock`, `AgreeInv`), and the new one cannot end
before the old one did (`EndKeeps`).

`EvaluationPredicts` compares two computations on one corpus, the evaluation's, which is
made at once, and the agent's, which takes many steps.  A pool has one ranking only
(`OneRanking`), so that what the agent kept, some ranking of its pool (`KeptInv`), is
what the evaluation's own call returns; the context is an initial part of that, and
a citation is of a chunk in the context.

`CliAppProofs` and `StreamlitAppProofs` prove, for any questions, runs, faults,
environments and any `MaxAttempts`, of the user of the demo patient or not
but in the last two rows:

| Theorem | States | Assumes |
|---|---|---|
| `TypeCorrect` (both) | `Spec => []TypeOK` | nothing beyond the assumptions of the modules |
| `LoopBounded`, of the command line | `[](CountBounded /\ AsksOfOwnAttempt)`, about each state's own count | the same |
| `LoopBounded`, `AsksOfTheLatest`, of the demo | `AttemptsBounded`, `AsksAboutLatestAnswer` | the same |
| `OneIssue`, `TruthTold`, `OnlyConfirmed` | `AtMostOneIssue`, `ToldWhatHappened`, `NoIssueUnconfirmed` of the command line | the same |
| `Refinement` | `Spec => ImplementsRequest`, of the command line | the same |
| `StaysDry`, `EndsOnce`, `UserResolves` | `DemoNeverReachesJira`, `OneOutcome`, `ResolvedByUser` | the same |
| `PageIsTrue` | `PageShowsStateOrRetry` | `Patient` |
| `Refinement`, of the demo | `Spec => ImplementsRequest` | `Patient` |

A bound on attempts is not inductive where stale runs write old states back.
`AgentGraphProofs` therefore has `Sound`, which says of one state alone how its fields
fit the node it stands at (fewer than `MaxAttempts` retrievals before `retrieve`, an
answer of the last, confident one before `confirm_resolution`, an outcome at the end and
only there), and shows that every node makes a sound state of a sound one: so every
checkpoint and every copy of one is sound (`GraphInv`), whoever wrote it last.  The
lemmas say of each node what state it makes and what it does to Jira; the drivers' proofs
cite them.  What a state counts is not yet what was done: in the demo `LoopInv` adds, for
a thread that is not `overlapped`, that its checkpoint counts all its retrievals and
that one run at most is at work on it, with the checkpoint's own state.

On the command line `ProcessInv` adds that the process has one run, on the open question's
thread, with the checkpoint's own state; `PhaseInv` where it may stand when it waits for
the user; `ChoiceInv` that a "cancel" or "create" is known to the run that carries it;
`IssueInv` what Jira has by then.  The refinement maps each action: a retrieval to
`Search`, an answer to `Offer`, a reply's node to `SearchAgain`, `GiveUp` or a stutter,
a POST, lost or not, to `File`, the end of the loop and of the process to `Close`.
In the demo `PageInv` and `UserInv` split likewise: the session's promises (buttons only
under an answer that is shown and without an outcome) hold of the run the current script
waits for, those about clicks of every copy of a state.

A user who waits has one run at a time.  `PatientInv` says so, and what a script serves:
the run's copy is the checkpoint, the page is what the session says (`Serving`), and
between a click and its end the thread stands at the question that was clicked, at a
retry of the answer on the page, or past it (`Answering`).  At rest the page then shows
the state, or the answer whose retry raised; and each step of the demo, as on the command
line, is a step of `SupportRequest` or a stutter.

`RetrievalBenchProofs` proves, for any number of processes, any pipelines, models,
data sets and corpora:

| Theorem | States | Assumes |
|---|---|---|
| `TypeCorrect` | `Spec => []SweepTypeOK` | nothing beyond the assumptions of `RetrievalBench` |
| `Alignment` | `Spec => []VectorsAligned` | the same |
| `PairedFiles` | `Spec => []FilesInv` | the same |
| `LatestRuns` | `Spec => []ReportIsLatest` | the same |
| `CachesChangeNothing` | `Spec => []CachesAreTransparent` | the same |
| `RankingsAreDeep` | `Spec => []DepthDelivered` | the same |

A matrix read from disk was written by another process, perhaps one that is long
dead, so `VectorsAligned` alone says nothing of a reader.  `FilesInv` says what the
two files hold whenever both are whole; it holds although they are written one
after the other, since whoever writes the second knows what the first holds by then
(`WroteInv`) or that whoever replaced it has the same order (`OneOrder`,
the bound of `Republish`), and doc ids that appear after a miss were written by
somebody at work since (`MissInv`).  `HitInv` carries the fact from `ReadIds` to `ReadRows`,
between which others may rewrite both.

A report reads its runs one by one while others write: `ReportInv` says of those it has
read so far that it keeps the latest of each experiment (`Keeps`), and `StampInv` that no
two runs, made or about to be written, have one time stamp, without which "the latest"
could be two.

`CachesChangeNothing` compares a search over the leaves a sweep holds with one over leaves
built afresh.  A search is a function recursive over the pipeline's tree; that it is
defined at all follows from `NestingAssumption`, as nesting is well founded (`SearchEnds`,
`SearchIsFound`), and along the same order two indexes that agree on the leaves below a
node agree on its searches (`SameSearch`).  That every leaf below is in the index when the
pipeline is evaluated is the invariant of an unfolded recursion (`BuildInv`): some set of
nodes contains the root, and each node in it is still to be called, or has its children in
the set and, if it is a leaf, its key in the index.  When no call is left, the set is
closed.

`RankingsAreDeep` builds on both: a recorded ranking is that of a search over fresh
leaves, and `SearchDelivers` says how deep such a search is, for every node, depth and
corpus, along the nesting once more.  `NodeDelivers` is its step: what a node delivers if
those below it deliver what they can reach.  Underneath lie what the sorts and the fusion
keep: `Arranged` numbers each member of a finite, totally ordered set once
(`Arrangement`), so a sort neither loses nor doubles a hit (`SortedRanking`); a fusion sees
every document of its lists, each where it is met first (`FirstsCover`, `FirstsApart`), so
it has no fewer hits than any one list (`SeenRanking`).  That no document is in a ranking
twice needs that none is in the corpus twice; a corpus is a dict, and `CorporaAssumption`
says so.  The recursive functions (`Unit`, `Score`, `Reach`) are shown to be defined, the
scores to be integers; nothing is said of their values.

`StartUpProofs` proves, for any processes, files, environments, services, stores and
breakdowns:

| Theorem | States | Assumes |
|---|---|---|
| `TypeCorrect` | `Spec => []TypeOK` | nothing beyond the assumptions of `StartUp` |
| `VectorsFit` | `Spec => []VectorsFitIndex` | the same |
| `KeysAreEnough` | `Spec => []KeysSuffice` | the same |
| `FixesAreFew` | `Spec => []RoundsOfFixes` | the same |

For `VectorsFit` the invariant adds that the metric a process has asked for in
`OpenStore` is still the index's at `WriteDocuments` (`OpenInv`); that an index which
exists keeps its metric and length is a lemma about each step.
For `KeysAreEnough` it adds what a validated configuration is like from `Load` to the
next failure: built from the file and the environment of its process, with a key for
each block that needs one, none of them a placeholder, in a file that is plain.
`FixesAreFew` bounds three counters, each for a reason of its own.  Secrets: after a first
failure the process lacks none, or stands at the failure with all it lacks asked for
(`SecretsInv`), and values are only ever added to an environment (`Filled`).  The race: a
process that lost it finds the index from then on, under a name that nothing an operator
does changes (`RaceInv`, which needs `NameAssumption`).  Readiness: `Budget` adds to the
failures so far one for a service the attempt finds down, one for a service that went down
behind it, and one for a model that is not pulled; each failure uses up one of these, and
only a service going down, which `breaks` counts, brings one back.  A pull uses up the
last only if the model is listed under the name it was asked for, so this part supposes
`ModelsListed`, as the property does.

## Only model-checked

All liveness: `Converges` of `Ingestor`, `S3Source` and `AwsDocsGitSource`,
`EveryQuestionEnds` of both drivers, `EveryoneServed`.  It needs fairness and ENABLED,
which are beyond the prover.  Every other property the passing runs check is proved for
all values of the constants, under the hypotheses the tables name.  Of two syncs at once,
all but `NoOrphanedPart`; `QuietCompleteMeansWhole` is false of them, which
`ingest_truncated` shows.  The type invariant of `Ingestor` is proved and in no run.

## Not modelled, and why

Chunk text, embeddings, prompts and the wording of answers: no property tells
them apart.  An answer's confidence, which is only printed; a reply with brackets
inside brackets, where removing `[9]` from `[[9]1]` leaves a number nobody resolved.
Metadata filters, which are passed on as they are.  The search types `mmr` and
`hybrid` of `hybrid.py` beyond their missing scores, and `PineconeRetriever`: they
delegate to the store.  Ranking metrics, which are arithmetic over one list, and the
table and latencies of a report.  The Pinecone index is taken to show a write at
once; its propagation delay is left out, and so are `list_sources` and the deletion
of an index, which nothing calls on the way.  A reload of the demo's page or a
restart of its server leaves threads behind that nobody can reach.  `ValueError`
for an unknown resume value cannot occur: both drivers send only what the
interrupts offer.  The numbers of `pipeline_parts.py` are constants of the modules
that use them.  Conversion of files, splitting, logging and data set downloads are
third-party code or I/O.

## Plan

1. `Ingestor`, its runs and proofs, with that of a sync's report and that of syncs at
   once (`NoOrphanedPart`): done.
2. `AgentGraph`, `CliApp`, `StreamlitApp`, `SupportRequest`: done.
3. `S3Source`, `AwsDocsGitSource`, their runs, and the proofs of all their safety
   properties: done.
4. `AnswerPipeline`, its run, and the proofs of all its properties: done.
5. `RetrievalBench`, `BenchRetrievers`, their run, and the proofs of all its
   properties: done.
6. `StartUp` (configuration, factories, creation of the index), its run, and the
   proofs of its safety properties: done.
7. `RoutingEval`, next to the agent's first attempt, and its proof: done.
8. Proofs about the agent and its two drivers, with the refinement of
   both: done.
9. `DocumentStore`, which `Ingestor` implements with one sync at a time, and the proof
   of that refinement: done.
