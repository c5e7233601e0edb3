------------------------------ MODULE StartUp ------------------------------
(***************************************************************************)
(* From config.yaml to the first answer: every process builds a RagCore of *)
(* its own (pipeline.py:63) from the same file but from its own            *)
(* environment, then either syncs the sources (ingest.py, the demo's       *)
(* button) or answers questions (the agent, the evaluation).  What they    *)
(* share is the file, .env, the local services and the vector store.       *)
(*                                                                         *)
(* Each process reports what it lacks and stops; an operator does what the *)
(* report asks for and tries again, in the same process or in a new one.   *)
(* The difference matters: load_dotenv never replaces a variable that is   *)
(* in os.environ, not even by a value that was empty when it was loaded.   *)
(*                                                                         *)
(* Empty stands for what is absent or empty: `or` does not tell the two    *)
(* apart.  Unset is a variable os.environ does not hold.  The writing of   *)
(* documents, with all it may meet, is module Ingestor; here it is one     *)
(* step.  Cloud services answer, unless the key is a bad one.              *)
(***************************************************************************)
EXTENDS Naturals

CONSTANTS
  Procs,       \* the processes
  Jobs,        \* who of them syncs while the others answer: sets of processes
  Pages,       \* those that outlive an exception; the others end with it
  Yamls,       \* what config.yaml may say
  Exports,     \* [Procs -> set of environments a process may be given]
  DotEnvs,     \* what .env may say at first
  Lower,       \* [provider name -> its lower case]
  Registry,    \* the source types REGISTRY knows
  Refers,      \* [placeholder, "${VAR}" -> VAR]
  Indexes,     \* index names
  OldIndexes,  \* what earlier configurations may have left in the store
  Dimension,   \* [embedding model -> length of its vectors]
  Tagged,      \* [Ollama model -> the name it is listed under, tag and all]
  MaxBreaks,   \* bound: how often a service goes down
  MaxRounds    \* bound: where the count of failed attempts stops

Empty == ""   \* absent, or empty

Vars == {"OPENAI_API_KEY", "GOOGLE_API_KEY", "PINECONE_API_KEY",
         "PINECONE_INDEX_NAME", "RAG_SKIP_READINESS_CHECK"}
Services == {"ollama", "pinecone"}

(* The store's control plane: what an index was created with, and what     *)
(* vectors were written to it, by the embedding model and use_sparse.      *)
NoIndex == [metric |-> "none", dim |-> 0, written |-> {}]
Metrics == {"cosine", "dotproduct"}
Vectors == [model : DOMAIN Dimension, sparse : BOOLEAN]
IndexInfo == [metric : Metrics, dim : Nat, written : SUBSET Vectors]

FitsIndex(v, info) ==
  /\ Dimension[v.model] = info.dim
  /\ v.sparse => info.metric = "dotproduct"

ASSUME StartUpAssumption ==
  /\ Jobs \subseteq SUBSET Procs /\ Pages \subseteq Procs
  /\ MaxBreaks \in Nat /\ MaxRounds \in Nat
  /\ \A old \in OldIndexes : DOMAIN old = Indexes
  /\ \A old \in OldIndexes, n \in Indexes :
       \/ old[n] = NoIndex
       \/ old[n] \in IndexInfo /\ \A v \in old[n].written : FitsIndex(v, old[n])
  /\ Dimension \in [DOMAIN Dimension -> Nat]

\* What the environment holds is a value, and so is what an operator sets; the
\* variables the file refers to are among those of the model.
NoPlaceholder(env) == \A v \in Vars : env[v] \notin DOMAIN Refers
ASSUME ValueAssumption ==
  /\ \A env \in DotEnvs : DOMAIN env = Vars /\ NoPlaceholder(env)
  /\ \A p \in Procs : \A env \in Exports[p] : DOMAIN env = Vars /\ NoPlaceholder(env)
  /\ {Empty, "k"} \cap DOMAIN Refers = {}
  /\ \A s \in DOMAIN Refers : Refers[s] \in Vars

\* Indexes has every name a process may come to use.
ASSUME NameAssumption ==
  /\ "rag-docs" \in Indexes
  /\ \A file \in Yamls : file.store.name \in Indexes \cup {Empty}
  /\ \A env \in DotEnvs \cup UNION {Exports[p] : p \in Procs} :
       env["PINECONE_INDEX_NAME"] \in Indexes \cup {Empty, "Unset"}

VARIABLES
  syncers,   \* the processes that sync; the others answer questions
  yaml,      \* config.yaml
  dotenv,    \* .env
  exported,  \* [Procs -> the environment a process is started in]
  up,        \* the local services that run
  pulled,    \* the names the local Ollama lists: the models it holds
  files,     \* do the sources list a file? A path may even be missing
  indexes,   \* [Indexes -> IndexInfo or NoIndex]
  breaks,    \* how often a service went down
  pc,        \* [Procs -> where it is]
  environ,   \* [Procs -> os.environ]
  fresh,     \* [Procs -> has the process tried only once?]
  cfg,       \* [Procs -> its RagConfig]
  problems,  \* [Procs -> what it reports so far, as <<deed, thing>>]
  rounds     \* [Procs -> [kind -> failed attempts of that kind]]

world == <<syncers, yaml, dotenv, exported, up, pulled, files, indexes, breaks>>
local == <<pc, environ, fresh, cfg, problems, rounds>>
vars == <<world, local>>

-----------------------------------------------------------------------------
(* Configuration: config/env.py, config/loader.py, config/providers.py.    *)

Or(a, b) == IF a # Empty THEN a ELSE b

Get(env, var) == IF env[var] = "Unset" THEN Empty ELSE env[var]

\* load_dotenv(override=False): what is in os.environ stays, empty or not.
LoadDotEnv(env) ==
  [v \in Vars |-> IF env[v] = "Unset" THEN dotenv[v] ELSE env[v]]

\* _resolve_env_vars: a placeholder whose variable is not set stays as it is.
Resolve(value, env) ==
  IF value \in DOMAIN Refers /\ env[Refers[value]] # "Unset"
    THEN env[Refers[value]] ELSE value

\* Mutant: the maps miss a provider the factories know.
KeyEnvOpenAI(provider) == IF provider = "openai" THEN "OPENAI_API_KEY" ELSE Empty

\* _EMBEDDING_PROVIDER_KEY_ENV and _LLM_PROVIDER_KEY_ENV
KeyEnv(provider) ==
  CASE provider = "openai" -> "OPENAI_API_KEY"
    [] provider \in {"google", "gemini"} -> "GOOGLE_API_KEY"
    [] OTHER -> Empty

FromEnv(var, env) == IF var = Empty THEN Empty ELSE Get(env, var)

\* EmbeddingConfig.from_raw, LLMConfig.from_raw
Model(raw, default, env) ==
  LET provider == Or(raw.provider, "ollama")
  IN [provider |-> provider,
      model |-> Or(raw.model, default),
      key |-> Or(FromEnv(KeyEnv(provider), env), Resolve(raw.key, env))]

\* Mutant: the usual precedence, the environment before the file.
EnvFirst(raw, env) ==
  Or(Get(env, "PINECONE_INDEX_NAME"), Or(raw.name, "rag-docs"))

IndexName(raw, env) ==
  Or(raw.name, Or(Get(env, "PINECONE_INDEX_NAME"), "rag-docs"))

\* VectorStoreConfig.from_raw
Store(raw, env) ==
  [provider |-> Or(raw.provider, "pinecone"),
   index |-> IndexName(raw, env),
   sparse |-> raw.sparse,
   key |-> Or(Get(env, "PINECONE_API_KEY"), Resolve(raw.key, env)),
   host |-> raw.host]

\* RagConfig.from_config
FromConfig(file, env) ==
  [embeddings |-> Model(file.embeddings, "nomic-embed-text", env),
   llm |-> Model(file.llm, "llama3.1:8b", env),
   store |-> Store(file.store, env)]

NoConfig ==
  [embeddings |-> [provider |-> Empty, model |-> Empty, key |-> Empty],
   llm |-> [provider |-> Empty, model |-> Empty, key |-> Empty],
   store |-> [provider |-> Empty, index |-> Empty, sparse |-> FALSE, key |-> Empty,
              host |-> Empty]]

\* missing_secrets of the three blocks that have one.
ModelSecrets(block) ==
  IF KeyEnv(block.provider) # Empty /\ block.key = Empty
    THEN {KeyEnv(block.provider)} ELSE {}

StoreSecrets(block) ==
  IF block.provider = "pinecone" /\ block.host = Empty /\ block.key = Empty
    THEN {"PINECONE_API_KEY"} ELSE {}

\* Mutant: the first block with something missing raises.
FirstMissing(c) ==
  IF ModelSecrets(c.embeddings) # {} THEN ModelSecrets(c.embeddings)
  ELSE IF ModelSecrets(c.llm) # {} THEN ModelSecrets(c.llm)
  ELSE StoreSecrets(c.store)

\* RagConfig._validate
MissingSecrets(c) ==
  ModelSecrets(c.embeddings) \cup ModelSecrets(c.llm) \cup StoreSecrets(c.store)

-----------------------------------------------------------------------------
(* Control.                                                                *)

GoTo(p, label) == pc' = [pc EXCEPT ![p] = label]

Count(n) == IF n < MaxRounds THEN n + 1 ELSE n

(* Only what a new process meets counts, where the environment is at fault *)
Kinds == {"secrets", "readiness", "key", "race"}
Counts(p, kind) ==
  /\ kind \in Kinds
  /\ fresh[p] \/ kind \in {"readiness", "race"}

\* The attempt ends with an exception that names what to do.
Fail(p, label, kind, report) ==
  /\ GoTo(p, label)
  /\ problems' = [problems EXCEPT ![p] = report]
  /\ rounds' = IF Counts(p, kind)
                 THEN [rounds EXCEPT ![p][kind] = Count(@)] ELSE rounds

Raise(p, kind, report) == Fail(p, "failed", kind, report)

\* No report helps here: the file and the code, or the index, do not fit.
Refuse(p) == Fail(p, "refused", "none", {})

Proceed(p, label) == GoTo(p, label) /\ UNCHANGED <<problems, rounds>>

ToSet(names) == {<<"set", v>> : v \in names}

Init ==
  /\ syncers \in Jobs
  /\ yaml \in Yamls
  /\ dotenv \in DotEnvs
  /\ exported \in [Procs -> UNION {Exports[p] : p \in Procs}]
  /\ \A p \in Procs : exported[p] \in Exports[p]
  /\ up = {}
  /\ pulled = {}
  /\ files \in BOOLEAN
  /\ indexes \in OldIndexes
  /\ breaks = 0
  /\ pc = [p \in Procs |-> "off"]
  /\ environ = exported
  /\ fresh = [p \in Procs |-> TRUE]
  /\ cfg = [p \in Procs |-> NoConfig]
  /\ problems = [p \in Procs |-> {}]
  /\ rounds = [p \in Procs |-> [k \in Kinds |-> 0]]

-----------------------------------------------------------------------------
(* RagCore.__init__.                                                       *)

\* _skip_readiness_check; the word is "1", "true" or "yes", whatever its case.
Skips(env) == Get(env, "RAG_SKIP_READINESS_CHECK") # Empty

Load(p) ==
  /\ pc[p] = "off"
  /\ environ' = [environ EXCEPT ![p] = LoadDotEnv(@)]
  /\ cfg' = [cfg EXCEPT ![p] = FromConfig(yaml, environ'[p])]
  /\ IF MissingSecrets(cfg'[p]) # {}
       THEN Raise(p, "secrets", ToSet(MissingSecrets(cfg'[p])))
       ELSE /\ GoTo(p, IF Skips(environ'[p]) THEN "construct" ELSE "embeddings")
            /\ problems' = [problems EXCEPT ![p] = {}]
            /\ UNCHANGED rounds
  /\ UNCHANGED <<world, fresh>>

\* check_ollama_ready: one live call.  The name is looked up as it is written,
\* among names that all have a tag: a model named without one is reported
\* missing, pulled or not.
OllamaProblems(model) ==
  IF "ollama" \notin up THEN {<<"start", "ollama">>}
  ELSE IF model \notin pulled THEN {<<"pull", model>>}
  ELSE {}

\* missing_readiness of an embeddings or llm block
ModelReadiness(block) ==
  IF block.provider = "ollama" THEN OllamaProblems(block.model) ELSE {}

\* check_pinecone_local_ready
StoreReadiness(block) ==
  IF block.provider = "pinecone" /\ block.host # Empty /\ "pinecone" \notin up
    THEN {<<"start", "pinecone">>} ELSE {}

\* check_readiness asks one backend after the other and raises at the end.
Check(p, here, next, found) ==
  /\ pc[p] = here
  /\ LET all == problems[p] \cup found
     IN IF next = "construct" /\ all # {}
          THEN Raise(p, "readiness", all)
          ELSE /\ GoTo(p, next)
               /\ problems' = [problems EXCEPT ![p] = all]
               /\ UNCHANGED rounds
  /\ UNCHANGED <<world, environ, fresh, cfg>>

CheckEmbeddings(p) ==
  Check(p, "embeddings", "llm", ModelReadiness(cfg[p].embeddings))
CheckLLM(p) == Check(p, "llm", "store", ModelReadiness(cfg[p].llm))
CheckStore(p) == Check(p, "store", "construct", StoreReadiness(cfg[p].store))

EmbeddingProviders ==
  {"openai", "huggingface", "ollama", "google", "gemini", "fastembed"}
LLMProviders == {"openai", "ollama", "google", "gemini"}

\* The client of a cloud model falls back on os.environ by itself, where only
\* a variable that is not set at all stops it.
CloudKey(block) ==
  CASE Lower[block.provider] = "openai" -> "OPENAI_API_KEY"
    [] Lower[block.provider] \in {"google", "gemini"} -> "GOOGLE_API_KEY"
    [] OTHER -> Empty

NoKey(p, block) ==
  IF CloudKey(block) # Empty /\ block.key = Empty /\ environ[p][CloudKey(block)] = "Unset"
    THEN {CloudKey(block)} ELSE {}

\* PineconeStore.__init__ asks for a key whatever the provider's name.
NoStoreKey(block) ==
  IF block.host = Empty /\ block.key = Empty THEN {"PINECONE_API_KEY"} ELSE {}

\* The factories and PineconeStore, in order; nothing is called yet.
Construct(p) ==
  LET c == cfg[p]
      next == IF p \in syncers THEN "sync" ELSE "ask"
  IN /\ pc[p] = "construct"
     /\ IF Lower[c.embeddings.provider] \notin EmbeddingProviders THEN Refuse(p)
        ELSE IF NoKey(p, c.embeddings) # {}
          THEN Raise(p, "key", ToSet(NoKey(p, c.embeddings)))
        ELSE IF NoStoreKey(c.store) # {}
          THEN Raise(p, "key", ToSet(NoStoreKey(c.store)))
        ELSE IF Lower[c.llm.provider] \notin LLMProviders THEN Refuse(p)
        ELSE IF NoKey(p, c.llm) # {} THEN Raise(p, "key", ToSet(NoKey(p, c.llm)))
        ELSE Proceed(p, next)
     /\ UNCHANGED <<world, environ, fresh, cfg>>

-----------------------------------------------------------------------------
(* sync: Ingestor.sync, ingest_documents and what they ask of the store.   *)

\* Ollama itself completes the name of the model it is asked to run.
OllamaTrouble(model) ==
  IF "ollama" \notin up THEN {<<"start", "ollama">>}
  ELSE IF Tagged[model] \notin pulled THEN {<<"pull", model>>}
  ELSE {}

\* What a call to an embedding or chat model may complain about.
ModelTrouble(p, block) ==
  LET var == CloudKey(block)
      key == Or(block.key, FromEnv(var, environ[p]))
  IN IF Lower[block.provider] = "ollama" THEN OllamaTrouble(block.model)
     ELSE IF var # Empty /\ key \in {Empty} \cup DOMAIN Refers THEN {<<"set", var>>}
     ELSE {}

\* What a call to the vector store may complain about.
StoreTrouble(block) ==
  IF block.host # Empty
    THEN IF "pinecone" \notin up THEN {<<"start", "pinecone">>} ELSE {}
  ELSE IF block.key \in DOMAIN Refers THEN {<<"set", "PINECONE_API_KEY">>}
  ELSE {}

\* A late complaint about a key, or one about a service.
Trouble(p, label, report) ==
  Fail(p, label, IF \E t \in report : t[1] = "set" THEN "key" ELSE "service",
       report)

\* The factory reads model_name for two providers, which as_dict never has.
Embedder(block) ==
  CASE Lower[block.provider] = "huggingface" -> "all-MiniLM-L6-v2"
    [] Lower[block.provider] = "fastembed" -> "bge-small-en-v1.5"
    [] OTHER -> block.model

Index(p) == cfg[p].store.index
Found(p) == indexes[Index(p)] # NoIndex

\* build_sources, then list_files of each.  No path at all is an error, no
\* file an empty run, which does not reach the store.
ListSources(p) ==
  /\ pc[p] = "sync"
  /\ IF ~ (yaml.sources \subseteq Registry) THEN Refuse(p)
     ELSE IF ~files THEN Raise(p, "files", {<<"put", "files">>})
     ELSE Proceed(p, "has_index")
  /\ UNCHANGED <<world, environ, fresh, cfg>>

\* create_collection: three calls, and any process may run in between.
Exists(p) == Found(p)

HasIndex(p) ==
  /\ pc[p] = "has_index"
  /\ IF StoreTrouble(cfg[p].store) # {}
       THEN Trouble(p, "failed", StoreTrouble(cfg[p].store))
       ELSE Proceed(p, IF Exists(p) THEN "open" ELSE "embed")
  /\ UNCHANGED <<world, environ, fresh, cfg>>

EmbedTest(p) ==
  LET trouble == ModelTrouble(p, cfg[p].embeddings)
  IN /\ pc[p] = "embed"
     /\ IF trouble # {} THEN Trouble(p, "failed", trouble)
        ELSE Proceed(p, "create")
     /\ UNCHANGED <<world, environ, fresh, cfg>>

NewIndex(c) ==
  [metric |-> IF c.store.sparse THEN "dotproduct" ELSE "cosine",
   dim |-> Dimension[Embedder(c.embeddings)],
   written |-> {}]

CreateIndex(p) ==
  /\ pc[p] = "create"
  /\ IF StoreTrouble(cfg[p].store) # {}
       THEN /\ Trouble(p, "failed", StoreTrouble(cfg[p].store))
            /\ UNCHANGED indexes
     ELSE IF Found(p)
       THEN Raise(p, "race", {}) /\ UNCHANGED indexes
     ELSE /\ indexes' = [indexes EXCEPT ![Index(p)] = NewIndex(cfg[p])]
          /\ Proceed(p, "open")
  /\ UNCHANGED <<syncers, yaml, dotenv, exported, up, pulled, files, breaks,
                 environ, fresh, cfg>>

\* Mutant: an index that exists is good enough.
AnyMetric(c, info) == TRUE

\* get_store asks for the metric only when sparse vectors are wanted.
MetricFits(c, info) == c.store.sparse => info.metric = "dotproduct"

OpenStore(p) ==
  /\ pc[p] = "open"
  /\ IF StoreTrouble(cfg[p].store) # {}
       THEN Trouble(p, "failed", StoreTrouble(cfg[p].store))
     ELSE IF ~MetricFits(cfg[p], indexes[Index(p)]) THEN Refuse(p)
     ELSE Proceed(p, "write")
  /\ UNCHANGED <<world, environ, fresh, cfg>>

\* Vectors of another length than the index's are refused, file by file.
LengthFits(c, info) == info.dim = Dimension[Embedder(c.embeddings)]

WriteDocuments(p) ==
  LET trouble == ModelTrouble(p, cfg[p].embeddings)
                   \cup StoreTrouble(cfg[p].store)
      fits == LengthFits(cfg[p], indexes[Index(p)])
  IN /\ pc[p] = "write"
     /\ IF trouble # {} THEN Trouble(p, "failed", trouble)
        ELSE IF ~fits THEN Refuse(p)
        ELSE Proceed(p, "served")
     /\ indexes' = IF trouble = {} /\ fits
          THEN [indexes EXCEPT ![Index(p)].written =
                  @ \cup {[model |-> Embedder(cfg[p].embeddings),
                           sparse |-> cfg[p].store.sparse]}]
          ELSE indexes
     /\ UNCHANGED <<syncers, yaml, dotenv, exported, up, pulled, files, breaks,
                    environ, fresh, cfg>>

-----------------------------------------------------------------------------
(* An answer: RagCore.retrieve_scored opens the store anew each time, then *)
(* the generator calls the language model.                                 *)

AnswerTrouble(p) ==
  LET c == cfg[p]
  IN IF StoreTrouble(c.store) # {} THEN StoreTrouble(c.store)
     ELSE IF ModelTrouble(p, c.embeddings) # {} THEN ModelTrouble(p, c.embeddings)
     ELSE ModelTrouble(p, c.llm)

Answers(p) ==
  /\ AnswerTrouble(p) = {}
  /\ Found(p)
  /\ MetricFits(cfg[p], indexes[Index(p)])
  /\ LengthFits(cfg[p], indexes[Index(p)])

Ask(p) ==
  /\ pc[p] = "ask"
  /\ IF Answers(p) THEN Proceed(p, "served")
     ELSE Trouble(p, "unanswered", AnswerTrouble(p))
  /\ UNCHANGED <<world, environ, fresh, cfg>>

-----------------------------------------------------------------------------
(* The operator, who does what a report asks for, and the services.        *)

Asked(p, deed) == {t[2] : t \in {u \in problems[p] : u[1] = deed}}

\* A key goes to .env, as the message says, unless a variable that is exported
\* empty would hide it there.
DoWhatIsAsked(p) ==
  LET hidden == {v \in Asked(p, "set") : exported[p][v] # "Unset"}
      missing == Asked(p, "set") \ hidden
  IN /\ dotenv' = [v \in Vars |-> IF v \in missing THEN "k" ELSE dotenv[v]]
     /\ exported' = [exported EXCEPT ![p] =
                       [v \in Vars |-> IF v \in hidden THEN "k" ELSE @[v]]]
     /\ up' = up \cup Asked(p, "start")
     /\ pulled' = pulled \cup {Tagged[m] : m \in Asked(p, "pull")}
     /\ files' = (files \/ Asked(p, "put") # {})
     /\ problems' = [problems EXCEPT ![p] = {}]
     /\ UNCHANGED <<syncers, yaml, indexes, breaks, rounds>>

\* A new process.
Restart(p) ==
  /\ pc[p] \in {"failed", "unanswered"}
  /\ DoWhatIsAsked(p)
  /\ environ' = [environ EXCEPT ![p] = exported'[p]]
  /\ fresh' = [fresh EXCEPT ![p] = TRUE]
  /\ cfg' = [cfg EXCEPT ![p] = NoConfig]
  /\ GoTo(p, "off")

\* The same process: the demo's page builds its RagCore, or asks, once more.
TryAgain(p) ==
  /\ p \in Pages
  /\ pc[p] \in {"failed", "unanswered"}
  /\ DoWhatIsAsked(p)
  /\ fresh' = [fresh EXCEPT ![p] = FALSE]
  /\ GoTo(p, IF pc[p] = "failed" THEN "off" ELSE "ask")
  /\ UNCHANGED <<environ, cfg>>

Break(s) ==
  /\ s \in up
  /\ breaks < MaxBreaks
  /\ breaks' = breaks + 1
  /\ up' = up \ {s}
  /\ UNCHANGED <<syncers, yaml, dotenv, exported, pulled, files, indexes, local>>

Step(p) ==
  \/ Load(p) \/ CheckEmbeddings(p) \/ CheckLLM(p) \/ CheckStore(p) \/ Construct(p)
  \/ ListSources(p) \/ HasIndex(p) \/ EmbedTest(p) \/ CreateIndex(p)
  \/ OpenStore(p) \/ WriteDocuments(p) \/ Ask(p)

Next ==
  \/ \E p \in Procs : Step(p) \/ Restart(p) \/ TryAgain(p)
  \/ \E s \in Services : Break(s)

Spec == Init /\ [][Next]_vars

(* A process runs on, and one that fails again and again is replaced by a  *)
(* new one some day.                                                       *)
Fairness == \A p \in Procs : WF_vars(Step(p)) /\ SF_vars(Restart(p))

FairSpec == Spec /\ Fairness

-----------------------------------------------------------------------------
(* What start-up promises.                                                 *)

\* The labels of a process whose RagConfig is validated.
Configured ==
  {"embeddings", "llm", "store", "construct", "sync", "has_index", "embed",
   "create", "open", "write", "ask", "unanswered"}
Labels == Configured \cup {"off", "failed", "refused", "served"}

TypeOK ==
  /\ syncers \in Jobs
  /\ yaml \in Yamls
  /\ DOMAIN dotenv = Vars
  /\ files \in BOOLEAN
  /\ breaks \in 0..MaxBreaks
  /\ DOMAIN indexes = Indexes
  /\ pc \in [Procs -> Labels]
  /\ fresh \in [Procs -> BOOLEAN]
  /\ DOMAIN cfg = Procs
  /\ rounds \in [Procs -> [Kinds -> 0..MaxRounds]]

(* A file that names its Ollama models as Ollama lists them, with a tag.    *)
(* The default "nomic-embed-text" (providers.py:20) is not such a name.    *)
FromFile(file) == FromConfig(file, [v \in Vars |-> "Unset"])
Listed(block) == block.provider = "ollama" => Tagged[block.model] = block.model
NamesListed(file) ==
  LET c == FromFile(file) IN Listed(c.embeddings) /\ Listed(c.llm)

(* "Every missing required secret in one error" (config/root.py:60), and   *)
(* every unready backend in one (readiness.py:53): a process that is given *)
(* all it asked for does not ask for a secret again; it loses the creation *)
(* of the index to another process at most once; and, with a file that     *)
(* names its models as Ollama lists them, it asks for backends at most     *)
(* twice, as models are looked for only where Ollama runs, and once more   *)
(* for each service that went down.  With any other name nothing bounds    *)
(* it: every attempt asks for the model that the last one made pulled.     *)
RoundsOfFixes ==
  /\ \A p \in Procs : rounds[p].secrets <= 1 /\ rounds[p].race <= 1
  /\ NamesListed(yaml) => \A p \in Procs : rounds[p].readiness <= 2 + breaks

(* A file whose providers are spelled as the key maps spell them, with     *)
(* Pinecone as the store and no placeholder for a key.                     *)
SpelledAsMapped(provider) == Lower[provider] \in {"ollama", provider}
Plain(file) ==
  /\ SpelledAsMapped(Or(file.embeddings.provider, "ollama"))
  /\ SpelledAsMapped(Or(file.llm.provider, "ollama"))
  /\ Or(file.store.provider, "pinecone") = "pinecone"
  /\ {file.embeddings.key, file.llm.key, file.store.key}
       \cap DOMAIN Refers = {}

(* What validation demands is what the factories, PineconeStore and the    *)
(* services need: with a plain file nothing fails for a key once           *)
(* RagConfig._validate let it pass.                                        *)
KeysSuffice == Plain(yaml) => \A p \in Procs : rounds[p].key = 0

(* Whoever created an index, and whatever processes with other settings    *)
(* share it: every vector in it has its length, and vectors written with   *)
(* use_sparse are in a dotproduct index (pinecone_store.py:166).           *)
VectorsFitIndex ==
  \A n \in Indexes : \A v \in indexes[n].written : FitsIndex(v, indexes[n])

\* A process that the readiness check does not stop for the name of a model.
Passes(p) == NamesListed(yaml) \/ Skips(LoadDotEnv(exported[p]))

(* The file names its index, the factories know its providers and REGISTRY *)
(* its sources, an index that exists already suits it, and a process that  *)
(* syncs gets past the check.                                              *)
Serviceable ==
  LET c == FromFile(yaml)
      info == indexes[c.store.index]
  IN /\ yaml.store.name # Empty
     /\ Lower[c.embeddings.provider] \in EmbeddingProviders
     /\ Lower[c.llm.provider] \in LLMProviders
     /\ yaml.sources \subseteq Registry
     /\ info # NoIndex => MetricFits(c, info) /\ LengthFits(c, info)
     /\ \E p \in syncers : Passes(p)

(* From such a start every process is served in the end, whatever it finds *)
(* exported, although two may race to create the index, keys, models and   *)
(* services are missing at first and services go down: all work on the     *)
(* index the file names, which no environment overrides (providers.py:116) *)
(* Left out are the processes whose model has no tag in the file and that  *)
(* do not skip the readiness check, which stops them for ever.             *)
EveryoneServed ==
  Serviceable => <>(\A p \in Procs : Passes(p) => pc[p] = "served")
=============================================================================
