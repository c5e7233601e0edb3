--------------------------- MODULE StartUpProofs ---------------------------
(***************************************************************************)
(* Theorems about StartUp, for any processes, files and environments.      *)
(*                                                                         *)
(* VectorsFitIndex rests on what holds between the look at the metric and  *)
(* the upsert (OpenInv); KeysSuffice on what validation leaves in the      *)
(* configuration of a process until it is started again (KeyInv);          *)
(* RoundsOfFixes on what a process that reported something will find the   *)
(* next time: its secrets (SecretsInv), its index (RaceInv), its services  *)
(* and models (ReadyInv).                                                  *)
(***************************************************************************)
EXTENDS StartUp, TLAPS

\* The metric a process looked at is the one it writes under.
OpenInv ==
  \A p \in Procs :
    pc[p] = "write" /\ Index(p) \in Indexes /\ cfg[p].store.sparse
      => indexes[Index(p)].metric = "dotproduct"

IndexInv == VectorsFitIndex /\ OpenInv

\* How a process ends a step: elsewhere, and with its count of failures.
Moved(p) ==
  /\ pc' \in [Procs -> Labels]
  /\ rounds' \in [Procs -> [Kinds -> 0..MaxRounds]]
  /\ \A q \in Procs \ {p} : pc'[q] = pc[q]

LEMMA FailMoves ==
  ASSUME TypeOK, NEW p \in Procs, NEW label \in Labels, NEW kind, NEW report,
         Fail(p, label, kind, report)
  PROVE  /\ Moved(p)
         /\ pc'[p] = label
         /\ kind # "key" => \A q \in Procs : rounds'[q].key = rounds[q].key
<1>1. \A n \in 0..MaxRounds : Count(n) \in 0..MaxRounds
  BY StartUpAssumption DEF Count
<1>2. /\ pc' = [pc EXCEPT ![p] = label]
      /\ pc' \in [Procs -> Labels]
  BY DEF TypeOK, Fail, GoTo
<1>3. CASE Counts(p, kind)
  <2>1. kind \in Kinds /\ rounds' = [rounds EXCEPT ![p][kind] = Count(@)]
    BY <1>3 DEF Fail, Counts
  <2>2. rounds' \in [Procs -> [Kinds -> 0..MaxRounds]]
    BY <1>1, <2>1 DEF TypeOK
  <2>3. kind # "key" => \A q \in Procs : rounds'[q].key = rounds[q].key
    BY <2>1 DEF TypeOK, Kinds
  <2> QED
    BY <1>2, <2>2, <2>3 DEF TypeOK, Moved
<1>4. CASE ~Counts(p, kind)
  BY <1>2, <1>4 DEF TypeOK, Fail, Moved
<1> QED
  BY <1>3, <1>4

LEMMA ProceedMoves ==
  ASSUME TypeOK, NEW p \in Procs, NEW label \in Labels, Proceed(p, label)
  PROVE  Moved(p) /\ pc'[p] = label /\ UNCHANGED rounds
BY DEF TypeOK, Proceed, GoTo, Moved

\* Every step of a process moves it, and leaves the operator's things alone.
LEMMA StepMoves ==
  ASSUME TypeOK, NEW p \in Procs, Step(p)
  PROVE  /\ Moved(p)
         /\ UNCHANGED <<syncers, yaml, dotenv, exported, files, breaks, fresh>>
         /\ DOMAIN indexes' = DOMAIN indexes
         /\ DOMAIN cfg' = DOMAIN cfg
<1>0. Labels = {"embeddings", "llm", "store", "construct", "sync", "has_index",
                "embed", "create", "open", "write", "ask", "unanswered", "off",
                "failed", "refused", "served"}
  BY DEF Labels, Configured
<1>1. DOMAIN cfg' = DOMAIN cfg
  BY DEF Step, Load, CheckEmbeddings, CheckLLM, CheckStore, Check, Construct,
         ListSources, HasIndex, EmbedTest, CreateIndex, OpenStore, WriteDocuments,
         Ask
<1>2. CASE Load(p)
  <2>1. CASE MissingSecrets(cfg'[p]) # {}
    BY <1>0, <1>2, <1>1, <2>1, FailMoves DEF Load, Raise, world
  <2>2. CASE MissingSecrets(cfg'[p]) = {}
    BY <1>0, <1>2, <1>1, <2>2 DEF Load, GoTo, TypeOK, Moved, world
  <2> QED
    BY <2>1, <2>2
<1>3. ASSUME NEW here, NEW next \in Labels, NEW found, Check(p, here, next, found)
      PROVE  Moved(p) /\ UNCHANGED <<world, fresh>>
  <2>1. CASE next = "construct" /\ problems[p] \cup found # {}
    BY <1>0, <1>3, <2>1, FailMoves DEF Check, Raise
  <2>2. CASE ~ (next = "construct" /\ problems[p] \cup found # {})
    BY <1>0, <1>3, <2>2 DEF Check, GoTo, TypeOK, Moved
  <2> QED
    BY <2>1, <2>2
<1>4. CASE CheckEmbeddings(p) \/ CheckLLM(p) \/ CheckStore(p)
  BY <1>0, <1>3, <1>4, <1>1 DEF CheckEmbeddings, CheckLLM, CheckStore, world
<1>5. CASE Construct(p)
  <2>1. UNCHANGED <<world, fresh>>
    BY <1>5 DEF Construct
  <2>2. \/ \E kind, report : Fail(p, "failed", kind, report)
        \/ \E kind, report : Fail(p, "refused", kind, report)
        \/ Proceed(p, "sync") \/ Proceed(p, "ask")
    BY <1>5 DEF Construct, Raise, Refuse
  <2> QED
    BY <1>0, <1>1, <2>1, <2>2, FailMoves, ProceedMoves DEF world
<1>6. CASE ListSources(p) \/ HasIndex(p) \/ EmbedTest(p) \/ OpenStore(p) \/ Ask(p)
  <2>1. UNCHANGED <<world, fresh>>
    BY <1>6 DEF ListSources, HasIndex, EmbedTest, OpenStore, Ask
  <2>2. \/ \E label \in Labels : \E kind, report : Fail(p, label, kind, report)
        \/ \E label \in Labels : Proceed(p, label)
    BY <1>0, <1>6
    DEF ListSources, HasIndex, EmbedTest, OpenStore, Ask, Raise, Refuse, Trouble
  <2> QED
    BY <1>1, <2>1, <2>2, FailMoves, ProceedMoves DEF world
<1>7. CASE CreateIndex(p)
  <2>1. \/ \E kind, report : Fail(p, "failed", kind, report)
        \/ Proceed(p, "open")
    BY <1>7 DEF CreateIndex, Raise, Trouble
  <2>2. DOMAIN indexes' = DOMAIN indexes
    BY <1>7 DEF CreateIndex
  <2> QED
    BY <1>0, <1>7, <1>1, <2>1, <2>2, FailMoves, ProceedMoves DEF CreateIndex
<1>8. CASE WriteDocuments(p)
  <2>1. \/ \E label \in Labels : \E kind, report : Fail(p, label, kind, report)
        \/ Proceed(p, "served")
    BY <1>0, <1>8 DEF WriteDocuments, Refuse, Trouble
  <2>2. DOMAIN indexes' = DOMAIN indexes
    BY <1>8 DEF WriteDocuments
  <2> QED
    BY <1>0, <1>8, <1>1, <2>1, <2>2, FailMoves, ProceedMoves DEF WriteDocuments
<1> QED
  BY <1>2, <1>4, <1>5, <1>6, <1>7, <1>8 DEF Step

LEMMA OperatorMoves ==
  ASSUME TypeOK, NEW p \in Procs, Restart(p) \/ TryAgain(p)
  PROVE  /\ pc[p] \in {"failed", "unanswered"}
         /\ \/ pc' = [pc EXCEPT ![p] = "off"]
            \/ pc[p] = "unanswered" /\ pc' = [pc EXCEPT ![p] = "ask"] /\ UNCHANGED cfg
         /\ UNCHANGED <<syncers, yaml, indexes, breaks, rounds>>
         /\ fresh' \in [Procs -> BOOLEAN]
         /\ DOMAIN dotenv' = Vars /\ files' \in BOOLEAN
         /\ DOMAIN cfg' = DOMAIN cfg
<1>1. DoWhatIsAsked(p) /\ pc[p] \in {"failed", "unanswered"}
  BY DEF Restart, TryAgain
<1>2. /\ UNCHANGED <<syncers, yaml, indexes, breaks, rounds>>
      /\ DOMAIN dotenv' = Vars /\ files' \in BOOLEAN
  BY <1>1 DEF DoWhatIsAsked, TypeOK
<1>3. fresh' \in [Procs -> BOOLEAN]
  BY DEF Restart, TryAgain, TypeOK
<1>4. DOMAIN cfg' = DOMAIN cfg
  BY DEF Restart, TryAgain
<1> QED
  BY <1>1, <1>2, <1>3, <1>4 DEF Restart, TryAgain, GoTo, TypeOK

-----------------------------------------------------------------------------
(* Control state: labels, counters and domains keep their types.           *)
THEOREM TypeCorrect == Spec => []TypeOK
<1>1. Init => TypeOK
  <2> SUFFICES ASSUME Init PROVE TypeOK
    OBVIOUS
  <2>1. 0 \in 0..MaxBreaks /\ 0 \in 0..MaxRounds
    BY StartUpAssumption
  <2>2. DOMAIN indexes = Indexes
    BY StartUpAssumption DEF Init
  <2>3. DOMAIN dotenv = Vars
    BY ValueAssumption DEF Init
  <2> QED
    BY <2>1, <2>2, <2>3 DEF Init, TypeOK, Labels, Configured
<1>2. TypeOK /\ [Next]_vars => TypeOK'
  <2> SUFFICES ASSUME TypeOK, [Next]_vars PROVE TypeOK'
    OBVIOUS
  <2>1. ASSUME NEW p \in Procs, Step(p) PROVE TypeOK'
    <3>1. /\ Moved(p)
          /\ UNCHANGED <<syncers, yaml, dotenv, exported, files, breaks, fresh>>
          /\ DOMAIN indexes' = DOMAIN indexes
          /\ DOMAIN cfg' = DOMAIN cfg
      BY <2>1, StepMoves
    <3> QED
      BY <3>1 DEF TypeOK, Moved
  <2>2. ASSUME NEW p \in Procs, Restart(p) \/ TryAgain(p) PROVE TypeOK'
    <3>1. pc' \in [Procs -> Labels]
      BY <2>2, OperatorMoves DEF TypeOK, Labels, Configured
    <3> QED
      BY <2>2, <3>1, OperatorMoves DEF TypeOK
  <2>3. ASSUME NEW s \in Services, Break(s) PROVE TypeOK'
    BY <2>3, StartUpAssumption DEF Break, TypeOK, local
  <2>4. CASE UNCHANGED vars
    BY <2>4 DEF TypeOK, vars, world, local
  <2> QED
    BY <2>1, <2>2, <2>3, <2>4 DEF Next
<1> QED
  BY <1>1, <1>2, PTL DEF Spec

-----------------------------------------------------------------------------
(* The vectors in an index.                                                *)

\* Only OpenStore leads to a write.
LEMMA OnlyOpenStoreWrites ==
  ASSUME TypeOK, NEW p \in Procs, Step(p), pc'[p] = "write"
  PROVE  OpenStore(p)
<1>1. ASSUME NEW label, NEW kind, NEW report, Fail(p, label, kind, report)
      PROVE  pc'[p] = label
  BY <1>1 DEF Fail, GoTo, TypeOK
<1>2. ASSUME NEW label, Proceed(p, label) PROVE pc'[p] = label
  BY <1>2 DEF Proceed, GoTo, TypeOK
<1>3. ~Load(p)
  BY <1>1 DEF Load, Raise, GoTo, TypeOK
<1>4. ASSUME NEW here, NEW next, NEW found, Check(p, here, next, found)
      PROVE  pc'[p] \in {next, "failed"}
  BY <1>1, <1>4 DEF Check, Raise, GoTo, TypeOK
<1>5. ~CheckEmbeddings(p) /\ ~CheckLLM(p) /\ ~CheckStore(p)
  BY <1>4 DEF CheckEmbeddings, CheckLLM, CheckStore
<1>6. ~Construct(p)
  BY <1>1, <1>2 DEF Construct, Raise, Refuse
<1>7. ~ListSources(p) /\ ~HasIndex(p) /\ ~EmbedTest(p)
  BY <1>1, <1>2 DEF ListSources, HasIndex, EmbedTest, Raise, Refuse, Trouble
<1>8. ~CreateIndex(p) /\ ~WriteDocuments(p) /\ ~Ask(p)
  BY <1>1, <1>2 DEF CreateIndex, WriteDocuments, Ask, Raise, Refuse, Trouble
<1> QED
  BY <1>3, <1>5, <1>6, <1>7, <1>8 DEF Step

\* What a step of a process does to the indexes.
LEMMA IndexSteps ==
  ASSUME NEW p \in Procs, Step(p)
  PROVE  \/ UNCHANGED indexes
         \/ /\ pc[p] = "create" /\ UNCHANGED cfg
            /\ indexes[Index(p)] = NoIndex
            /\ indexes' = [indexes EXCEPT ![Index(p)] = NewIndex(cfg[p])]
         \/ /\ pc[p] = "write" /\ UNCHANGED cfg
            /\ LengthFits(cfg[p], indexes[Index(p)])
            /\ indexes' = [indexes EXCEPT ![Index(p)].written =
                 @ \cup {[model |-> Embedder(cfg[p].embeddings),
                          sparse |-> cfg[p].store.sparse]}]
<1>1. CASE CreateIndex(p)
  BY <1>1 DEF CreateIndex, Found
<1>2. CASE WriteDocuments(p)
  BY <1>2 DEF WriteDocuments
<1>3. CASE ~CreateIndex(p) /\ ~WriteDocuments(p)
  BY <1>3 DEF Step, Load, CheckEmbeddings, CheckLLM, CheckStore, Check, Construct,
              ListSources, HasIndex, EmbedTest, OpenStore, Ask, world
<1> QED
  BY <1>1, <1>2, <1>3

LEMMA ConfigSteps ==
  ASSUME TypeOK, NEW p \in Procs, Step(p), NEW q \in Procs, cfg'[q] # cfg[q]
  PROVE  q = p /\ Load(p)
<1>1. CASE Load(p)
  BY <1>1 DEF Load, TypeOK
<1>2. CASE ~Load(p)
  BY <1>2 DEF Step, CheckEmbeddings, CheckLLM, CheckStore, Check, Construct,
              ListSources, HasIndex, EmbedTest, CreateIndex, OpenStore,
              WriteDocuments, Ask
<1> QED
  BY <1>1, <1>2

(* A vector fits the index it is in, whoever created the index and whoever *)
(* wrote before.                                                           *)
THEOREM VectorsFit == Spec => []VectorsFitIndex
<1>1. Init => IndexInv
  <2> SUFFICES ASSUME Init PROVE IndexInv
    OBVIOUS
  <2>1. VectorsFitIndex
    <3> SUFFICES ASSUME NEW n \in Indexes, NEW v \in indexes[n].written
                 PROVE  FitsIndex(v, indexes[n])
      BY DEF VectorsFitIndex
    <3>1. indexes \in OldIndexes
      BY DEF Init
    <3>2. indexes[n] = NoIndex \/ \A w \in indexes[n].written : FitsIndex(w, indexes[n])
      BY <3>1, StartUpAssumption
    <3> QED
      BY <3>2 DEF NoIndex
  <2>2. OpenInv
    BY DEF Init, OpenInv
  <2> QED
    BY <2>1, <2>2 DEF IndexInv
<1>2. TypeOK /\ IndexInv /\ [Next]_vars => IndexInv'
  <2> SUFFICES ASSUME TypeOK, IndexInv, [Next]_vars PROVE IndexInv'
    OBVIOUS
  <2>1. ASSUME NEW p \in Procs, Step(p) PROVE VectorsFitIndex'
    <3> SUFFICES ASSUME NEW n \in Indexes, NEW v \in indexes'[n].written
                 PROVE  FitsIndex(v, indexes'[n])
      BY DEF VectorsFitIndex
    <3>1. CASE UNCHANGED indexes
      BY <3>1 DEF IndexInv, VectorsFitIndex
    <3>2. CASE /\ indexes[Index(p)] = NoIndex
               /\ indexes' = [indexes EXCEPT ![Index(p)] = NewIndex(cfg[p])]
      BY <3>2 DEF IndexInv, VectorsFitIndex, NewIndex, TypeOK
    <3>3. CASE /\ pc[p] = "write"
               /\ LengthFits(cfg[p], indexes[Index(p)])
               /\ indexes' = [indexes EXCEPT ![Index(p)].written =
                    @ \cup {[model |-> Embedder(cfg[p].embeddings),
                             sparse |-> cfg[p].store.sparse]}]
      <4> DEFINE new == [model |-> Embedder(cfg[p].embeddings),
                         sparse |-> cfg[p].store.sparse]
      <4>1. CASE n # Index(p)
        BY <3>3, <4>1 DEF IndexInv, VectorsFitIndex, TypeOK
      <4>2. CASE n = Index(p)
        <5>1. FitsIndex(new, indexes[n])
          BY <3>3, <4>2 DEF IndexInv, OpenInv, LengthFits, FitsIndex
        <5>2. /\ indexes'[n].metric = indexes[n].metric
              /\ indexes'[n].dim = indexes[n].dim
              /\ indexes'[n].written = indexes[n].written \cup {new}
          BY <3>3, <4>2 DEF TypeOK
        <5>3. FitsIndex(v, indexes[n])
          BY <5>1, <5>2 DEF IndexInv, VectorsFitIndex
        <5> QED
          BY <5>2, <5>3 DEF FitsIndex
      <4> QED
        BY <4>1, <4>2
    <3> QED
      BY <2>1, <3>1, <3>2, <3>3, IndexSteps
  <2>2. ASSUME NEW p \in Procs, Step(p) PROVE OpenInv'
    <3> SUFFICES ASSUME NEW q \in Procs, pc'[q] = "write",
                        cfg'[q].store.index \in Indexes, cfg'[q].store.sparse
                 PROVE  indexes'[cfg'[q].store.index].metric = "dotproduct"
      BY DEF OpenInv, Index
    <3>1. Moved(p)
      BY <2>2, StepMoves
    <3>2. cfg'[q] = cfg[q]
      <4>1. CASE q = p
        BY <2>2, <4>1, OnlyOpenStoreWrites DEF OpenStore
      <4>2. CASE q # p
        BY <2>2, <4>2, ConfigSteps
      <4> QED
        BY <4>1, <4>2
    <3>3. indexes[Index(q)].metric = "dotproduct"
      <4>1. CASE q = p
        <5>1. OpenStore(p)
          BY <2>2, <4>1, OnlyOpenStoreWrites
        <5>2. MetricFits(cfg[p], indexes[Index(p)])
          BY <4>1, <5>1 DEF OpenStore, Trouble, Refuse, Fail, GoTo, TypeOK
        <5> QED
          BY <3>2, <4>1, <5>2 DEF MetricFits
      <4>2. CASE q # p
        BY <3>1, <3>2, <4>2 DEF Moved, IndexInv, OpenInv, Index
      <4> QED
        BY <4>1, <4>2
    <3>4. indexes'[Index(q)].metric = indexes[Index(q)].metric
      <4>1. CASE UNCHANGED indexes
        BY <4>1
      <4>2. CASE /\ indexes[Index(p)] = NoIndex
                 /\ indexes' = [indexes EXCEPT ![Index(p)] = NewIndex(cfg[p])]
        <5>1. Index(q) # Index(p)
          BY <3>3, <4>2 DEF NoIndex
        <5> QED
          BY <3>2, <4>2, <5>1 DEF TypeOK, Index
      <4>3. CASE indexes' = [indexes EXCEPT ![Index(p)].written =
                   @ \cup {[model |-> Embedder(cfg[p].embeddings),
                            sparse |-> cfg[p].store.sparse]}]
        BY <3>2, <4>3 DEF TypeOK, Index
      <4> QED
        BY <2>2, <4>1, <4>2, <4>3, IndexSteps
    <3> QED
      BY <3>2, <3>3, <3>4 DEF Index
  <2>3. ASSUME NEW p \in Procs, Restart(p) \/ TryAgain(p) PROVE IndexInv'
    <3>1. /\ UNCHANGED indexes
          /\ \A q \in Procs : pc'[q] = "write" => pc[q] = "write" /\ cfg'[q] = cfg[q]
      BY <2>3, OperatorMoves DEF Restart, TryAgain, TypeOK
    <3> QED
      BY <3>1 DEF IndexInv, VectorsFitIndex, OpenInv, Index
  <2>4. ASSUME NEW s \in Services, Break(s) PROVE IndexInv'
    BY <2>4 DEF Break, local, IndexInv, VectorsFitIndex, OpenInv, Index
  <2>5. CASE UNCHANGED vars
    BY <2>5 DEF vars, world, local, IndexInv, VectorsFitIndex, OpenInv, Index
  <2> QED
    BY <2>1, <2>2, <2>3, <2>4, <2>5 DEF Next, IndexInv
<1>3. IndexInv => VectorsFitIndex
  BY DEF IndexInv
<1> QED
  BY <1>1, <1>2, <1>3, TypeCorrect, PTL DEF Spec

-----------------------------------------------------------------------------
(* The keys.                                                               *)

EnvInv ==
  /\ DOMAIN exported = Procs /\ DOMAIN environ = Procs
  /\ NoPlaceholder(dotenv)
  /\ \A p \in Procs : NoPlaceholder(exported[p]) /\ NoPlaceholder(environ[p])

\* What a block demands is there, and it is a value.
Keyed(block) ==
  /\ KeyEnv(block.provider) # Empty => block.key # Empty
  /\ block.key \notin DOMAIN Refers

Valid(c) ==
  /\ SpelledAsMapped(c.embeddings.provider) /\ Keyed(c.embeddings)
  /\ SpelledAsMapped(c.llm.provider) /\ Keyed(c.llm)
  /\ c.store.host = Empty => c.store.key # Empty
  /\ c.store.key \notin DOMAIN Refers

KeyInv ==
  /\ EnvInv
  /\ Plain(yaml) => \A p \in Procs : /\ pc[p] \in Configured => Valid(cfg[p])
                                     /\ rounds[p].key = 0

\* A block of a plain file keeps the spelling, and its key is a value.
LEMMA ModelOfPlainFile ==
  ASSUME NEW raw, NEW default, NEW env, NoPlaceholder(env),
         raw.key \notin DOMAIN Refers, ModelSecrets(Model(raw, default, env)) = {}
  PROVE  /\ Model(raw, default, env).provider = Or(raw.provider, "ollama")
         /\ Keyed(Model(raw, default, env))
<1> DEFINE block == Model(raw, default, env)
           var == KeyEnv(block.provider)
<1>1. block.provider = Or(raw.provider, "ollama")
  BY DEF Model
<1>2. block.key = Or(FromEnv(var, env), Resolve(raw.key, env))
  BY DEF Model
<1>3. var \in Vars \cup {Empty}
  BY DEF KeyEnv, Vars
<1>4. Empty \notin DOMAIN Refers
  BY ValueAssumption
<1>5. FromEnv(var, env) \notin DOMAIN Refers
  BY <1>3, <1>4 DEF FromEnv, Get, NoPlaceholder
<1>6. Resolve(raw.key, env) = raw.key
  BY DEF Resolve
<1>7. block.key \notin DOMAIN Refers
  BY <1>2, <1>5, <1>6 DEF Or
<1>8. KeyEnv(block.provider) # Empty => block.key # Empty
  BY DEF ModelSecrets
<1> QED
  BY <1>1, <1>7, <1>8 DEF Keyed

LEMMA ConfigOfPlainFile ==
  ASSUME NEW env, NoPlaceholder(env), Plain(yaml),
         MissingSecrets(FromConfig(yaml, env)) = {}
  PROVE  Valid(FromConfig(yaml, env))
<1> DEFINE c == FromConfig(yaml, env)
<1>1. /\ c.embeddings = Model(yaml.embeddings, "nomic-embed-text", env)
      /\ c.llm = Model(yaml.llm, "llama3.1:8b", env)
      /\ c.store = Store(yaml.store, env)
  BY DEF FromConfig
<1>2. ModelSecrets(c.embeddings) = {} /\ ModelSecrets(c.llm) = {} /\ StoreSecrets(c.store) = {}
  BY DEF MissingSecrets
<1>3. /\ yaml.embeddings.key \notin DOMAIN Refers
      /\ yaml.llm.key \notin DOMAIN Refers
      /\ yaml.store.key \notin DOMAIN Refers
  BY DEF Plain
<1>4. SpelledAsMapped(c.embeddings.provider) /\ Keyed(c.embeddings)
  BY <1>1, <1>2, <1>3, ModelOfPlainFile DEF Plain
<1>5. SpelledAsMapped(c.llm.provider) /\ Keyed(c.llm)
  BY <1>1, <1>2, <1>3, ModelOfPlainFile DEF Plain
<1>6. c.store.provider = "pinecone"
  BY <1>1 DEF Store, Plain
<1>7. c.store.host = Empty => c.store.key # Empty
  BY <1>2, <1>6 DEF StoreSecrets
<1>8. Get(env, "PINECONE_API_KEY") \notin DOMAIN Refers
  BY ValueAssumption DEF Get, NoPlaceholder, Vars
<1>9. c.store.key \notin DOMAIN Refers
  <2>1. c.store.key = Or(Get(env, "PINECONE_API_KEY"), Resolve(yaml.store.key, env))
    BY <1>1 DEF Store
  <2> QED
    BY <1>3, <1>8, <2>1 DEF Or, Resolve
<1> QED
  BY <1>4, <1>5, <1>7, <1>9 DEF Valid

\* A valid block neither stops its client nor lets a service ask for a key.
LEMMA KeyedModels ==
  ASSUME NEW p, NEW block, SpelledAsMapped(block.provider), Keyed(block)
  PROVE  /\ NoKey(p, block) = {}
         /\ \A t \in ModelTrouble(p, block) : t[1] # "set"
<1>1. CloudKey(block) # Empty => block.key # Empty
  <2>1. CloudKey(block) # Empty =>
          /\ Lower[block.provider] \in {"openai", "google", "gemini"}
          /\ Lower[block.provider] = block.provider
    BY DEF CloudKey, SpelledAsMapped
  <2>2. CloudKey(block) # Empty => KeyEnv(block.provider) = CloudKey(block)
    BY <2>1 DEF CloudKey, KeyEnv
  <2> QED
    BY <2>2 DEF Keyed
<1>2. NoKey(p, block) = {}
  BY <1>1 DEF NoKey
<1>3. CASE Lower[block.provider] = "ollama"
  BY <1>2, <1>3 DEF ModelTrouble, OllamaTrouble
<1>4. CASE Lower[block.provider] # "ollama"
  <2>1. CloudKey(block) # Empty =>
          Or(block.key, FromEnv(CloudKey(block), environ[p])) \notin {Empty} \cup DOMAIN Refers
    BY <1>1 DEF Or, Keyed
  <2> QED
    BY <1>2, <1>4, <2>1 DEF ModelTrouble
<1> QED
  BY <1>3, <1>4

LEMMA ValidConfig ==
  ASSUME NEW p, Valid(cfg[p])
  PROVE  /\ NoKey(p, cfg[p].embeddings) = {} /\ NoKey(p, cfg[p].llm) = {}
         /\ NoStoreKey(cfg[p].store) = {}
         /\ \A t \in ModelTrouble(p, cfg[p].embeddings) \cup ModelTrouble(p, cfg[p].llm)
                       \cup StoreTrouble(cfg[p].store) : t[1] # "set"
<1>1. \A t \in StoreTrouble(cfg[p].store) : t[1] # "set"
  BY DEF Valid, StoreTrouble
<1>2. NoStoreKey(cfg[p].store) = {}
  BY DEF Valid, NoStoreKey
<1> QED
  BY <1>1, <1>2, KeyedModels DEF Valid

\* What a step of a process means for the keys.
LEMMA KeySteps ==
  ASSUME TypeOK, KeyInv, Plain(yaml), NEW p \in Procs, Step(p)
  PROVE  /\ \A q \in Procs : rounds'[q].key = rounds[q].key
         /\ pc'[p] \in Configured => Valid(cfg'[p])
<1>0. /\ "failed" \in Labels \ Configured /\ "refused" \in Labels \ Configured
      /\ "unanswered" \in Labels
  BY DEF Labels, Configured
<1>1. ASSUME NEW label \in Labels, NEW report, \A t \in report : t[1] # "set",
             Trouble(p, label, report)
      PROVE  \A q \in Procs : rounds'[q].key = rounds[q].key
  <2>1. Fail(p, label, "service", report)
    BY <1>1 DEF Trouble
  <2> QED
    BY <2>1, FailMoves
<1>2. ASSUME Refuse(p) PROVE \A q \in Procs : rounds'[q].key = rounds[q].key
  BY <1>0, <1>2, FailMoves DEF Refuse
<1>3. ASSUME NEW label, Proceed(p, label)
      PROVE  \A q \in Procs : rounds'[q].key = rounds[q].key
  BY <1>3 DEF Proceed
<1>4. CASE Load(p)
  <2>1. NoPlaceholder(LoadDotEnv(environ[p]))
    BY DEF KeyInv, EnvInv, NoPlaceholder, LoadDotEnv
  <2>2. /\ environ'[p] = LoadDotEnv(environ[p])
        /\ cfg'[p] = FromConfig(yaml, environ'[p])
    BY <1>4 DEF Load, KeyInv, EnvInv, TypeOK
  <2>3. CASE MissingSecrets(cfg'[p]) # {}
    <3>1. Fail(p, "failed", "secrets", ToSet(MissingSecrets(cfg'[p])))
      BY <1>4, <2>3 DEF Load, Raise
    <3> QED
      BY <1>0, <3>1, FailMoves
  <2>4. CASE MissingSecrets(cfg'[p]) = {}
    BY <1>4, <2>1, <2>2, <2>4, ConfigOfPlainFile DEF Load
  <2> QED
    BY <2>3, <2>4
<1>5. CASE ~Load(p)
  <2>1. UNCHANGED cfg
    BY <1>5 DEF Step, CheckEmbeddings, CheckLLM, CheckStore, Check, Construct,
                ListSources, HasIndex, EmbedTest, CreateIndex, OpenStore,
                WriteDocuments, Ask
  <2>2. pc[p] \in Configured
    BY <1>5 DEF Step, CheckEmbeddings, CheckLLM, CheckStore, Check, Construct,
                ListSources, HasIndex, EmbedTest, CreateIndex, OpenStore,
                WriteDocuments, Ask, Configured
  <2>3. Valid(cfg[p])
    BY <2>2 DEF KeyInv
  <2>4. /\ NoKey(p, cfg[p].embeddings) = {} /\ NoKey(p, cfg[p].llm) = {}
        /\ NoStoreKey(cfg[p].store) = {}
        /\ \A t \in ModelTrouble(p, cfg[p].embeddings) : t[1] # "set"
        /\ \A t \in ModelTrouble(p, cfg[p].llm) : t[1] # "set"
        /\ \A t \in StoreTrouble(cfg[p].store) : t[1] # "set"
    BY <2>3, ValidConfig
  <2> SUFFICES \A q \in Procs : rounds'[q].key = rounds[q].key
    BY <2>1, <2>3
  <2>5. ASSUME NEW here, NEW next, NEW found, Check(p, here, next, found)
        PROVE  \A q \in Procs : rounds'[q].key = rounds[q].key
    <3>1. CASE next = "construct" /\ problems[p] \cup found # {}
      <4>1. Fail(p, "failed", "readiness", problems[p] \cup found)
        BY <2>5, <3>1 DEF Check, Raise
      <4> QED
        BY <1>0, <4>1, FailMoves
    <3>2. CASE ~ (next = "construct" /\ problems[p] \cup found # {})
      BY <2>5, <3>2 DEF Check
    <3> QED
      BY <3>1, <3>2
  <2>6. CASE CheckEmbeddings(p) \/ CheckLLM(p) \/ CheckStore(p)
    BY <2>5, <2>6 DEF CheckEmbeddings, CheckLLM, CheckStore
  <2>7. CASE Construct(p)
    BY <1>2, <1>3, <2>4, <2>7 DEF Construct
  <2>8. CASE ListSources(p)
    <3>1. \/ Fail(p, "failed", "files", {<<"put", "files">>})
          \/ Refuse(p) \/ Proceed(p, "has_index")
      BY <2>8 DEF ListSources, Raise
    <3> QED
      BY <1>0, <1>2, <1>3, <3>1, FailMoves
  <2>9. CASE HasIndex(p) \/ EmbedTest(p)
    BY <1>0, <1>1, <1>3, <2>4, <2>9 DEF HasIndex, EmbedTest
  <2>10. CASE CreateIndex(p)
    <3>1. \/ Fail(p, "failed", "race", {})
          \/ Trouble(p, "failed", StoreTrouble(cfg[p].store))
          \/ Proceed(p, "open")
      BY <2>10 DEF CreateIndex, Raise
    <3> QED
      BY <1>0, <1>1, <1>3, <2>4, <3>1, FailMoves
  <2>11. CASE OpenStore(p)
    BY <1>0, <1>1, <1>2, <1>3, <2>4, <2>11 DEF OpenStore
  <2>12. CASE WriteDocuments(p)
    <3>1. \A t \in ModelTrouble(p, cfg[p].embeddings) \cup StoreTrouble(cfg[p].store) :
            t[1] # "set"
      BY <2>4
    <3>2. \/ Trouble(p, "failed", ModelTrouble(p, cfg[p].embeddings)
                                    \cup StoreTrouble(cfg[p].store))
          \/ Refuse(p) \/ Proceed(p, "served")
      BY <2>12 DEF WriteDocuments
    <3> QED
      BY <1>0, <1>1, <1>2, <1>3, <3>1, <3>2
  <2>13. CASE Ask(p)
    <3>1. \A t \in AnswerTrouble(p) : t[1] # "set"
      BY <2>4 DEF AnswerTrouble
    <3>2. Trouble(p, "unanswered", AnswerTrouble(p)) \/ Proceed(p, "served")
      BY <2>13 DEF Ask
    <3> QED
      BY <1>0, <1>1, <1>3, <3>1, <3>2
  <2> QED
    BY <1>5, <2>6, <2>7, <2>8, <2>9, <2>10, <2>11, <2>12, <2>13 DEF Step
<1> QED
  BY <1>4, <1>5

\* What fills the environments is a value.
LEMMA EnvSteps == TypeOK /\ EnvInv /\ [Next]_vars => EnvInv'
<1> SUFFICES ASSUME TypeOK, EnvInv, [Next]_vars PROVE EnvInv'
  OBVIOUS
<1>1. ASSUME NEW p \in Procs, Step(p) PROVE EnvInv'
  <2>1. UNCHANGED <<dotenv, exported>>
    BY <1>1, StepMoves
  <2>2. NoPlaceholder(LoadDotEnv(environ[p]))
    BY DEF EnvInv, NoPlaceholder, LoadDotEnv
  <2>3. UNCHANGED environ \/ environ' = [environ EXCEPT ![p] = LoadDotEnv(@)]
    BY <1>1 DEF Step, Load, CheckEmbeddings, CheckLLM, CheckStore, Check, Construct,
                ListSources, HasIndex, EmbedTest, CreateIndex, OpenStore,
                WriteDocuments, Ask
  <2> QED
    BY <2>1, <2>2, <2>3 DEF EnvInv, NoPlaceholder
<1>2. ASSUME NEW p \in Procs, Restart(p) \/ TryAgain(p) PROVE EnvInv'
  <2>1. DoWhatIsAsked(p)
    BY <1>2 DEF Restart, TryAgain
  <2>2. "k" \notin DOMAIN Refers
    BY ValueAssumption
  <2>3. NoPlaceholder(dotenv)'
    BY <2>1, <2>2 DEF DoWhatIsAsked, EnvInv, NoPlaceholder
  <2>4. DOMAIN exported' = Procs /\ \A q \in Procs : NoPlaceholder(exported'[q])
    BY <2>1, <2>2 DEF DoWhatIsAsked, EnvInv, NoPlaceholder
  <2>5. UNCHANGED environ \/ environ' = [environ EXCEPT ![p] = exported'[p]]
    BY <1>2 DEF Restart, TryAgain
  <2> QED
    BY <2>3, <2>4, <2>5 DEF EnvInv, NoPlaceholder
<1>3. ASSUME NEW s \in Services, Break(s) PROVE EnvInv'
  BY <1>3 DEF Break, local, EnvInv, NoPlaceholder
<1>4. CASE UNCHANGED vars
  BY <1>4 DEF vars, world, local, EnvInv, NoPlaceholder
<1> QED
  BY <1>1, <1>2, <1>3, <1>4 DEF Next

(* Validation is complete: with a plain file no process fails for a key    *)
(* once RagConfig._validate let it pass.                                   *)
THEOREM KeysAreEnough == Spec => []KeysSuffice
<1>1. Init => KeyInv
  <2> SUFFICES ASSUME Init PROVE KeyInv
    OBVIOUS
  <2>1. NoPlaceholder(dotenv)
    BY ValueAssumption DEF Init
  <2>2. \A p \in Procs : NoPlaceholder(exported[p])
    BY ValueAssumption DEF Init
  <2>3. EnvInv
    BY <2>1, <2>2 DEF Init, EnvInv
  <2>4. \A p \in Procs : pc[p] \notin Configured /\ rounds[p].key = 0
    BY DEF Init, Configured, Kinds
  <2> QED
    BY <2>3, <2>4 DEF KeyInv
<1>2. TypeOK /\ KeyInv /\ [Next]_vars => KeyInv'
  <2> SUFFICES ASSUME TypeOK, KeyInv, [Next]_vars PROVE KeyInv'
    OBVIOUS
  <2>1. EnvInv'
    BY EnvSteps DEF KeyInv
  <2>2. ASSUME NEW p \in Procs, Step(p) PROVE KeyInv'
    <3>1. UNCHANGED yaml /\ Moved(p)
      BY <2>2, StepMoves
    <3>2. \A q \in Procs \ {p} : pc'[q] = pc[q] /\ cfg'[q] = cfg[q]
      BY <2>2, <3>1, ConfigSteps DEF Moved
    <3>3. CASE Plain(yaml)
      <4>1. /\ \A q \in Procs : rounds'[q].key = rounds[q].key
            /\ pc'[p] \in Configured => Valid(cfg'[p])
        BY <2>2, <3>3, KeySteps
      <4> QED
        BY <2>1, <3>2, <3>3, <4>1 DEF KeyInv
    <3>4. CASE ~Plain(yaml)
      BY <2>1, <3>1, <3>4 DEF KeyInv, Plain
    <3> QED
      BY <3>3, <3>4
  <2>3. ASSUME NEW p \in Procs, Restart(p) \/ TryAgain(p) PROVE KeyInv'
    <3>1. UNCHANGED <<yaml, rounds>>
      BY <2>3, OperatorMoves
    <3>2. \A q \in Procs : pc'[q] \in Configured => pc[q] \in Configured /\ cfg'[q] = cfg[q]
      BY <2>3, OperatorMoves DEF TypeOK, Configured, Restart, TryAgain
    <3> QED
      BY <2>1, <3>1, <3>2 DEF KeyInv, Plain
  <2>4. CASE (\E s \in Services : Break(s)) \/ UNCHANGED vars
    BY <2>1, <2>4 DEF Break, vars, world, local, KeyInv, Plain
  <2> QED
    BY <2>2, <2>3, <2>4 DEF Next
<1>3. KeyInv => KeysSuffice
  BY DEF KeyInv, KeysSuffice
<1> QED
  BY <1>1, <1>2, <1>3, TypeCorrect, PTL DEF Spec
-----------------------------------------------------------------------------
(* How often a process fails before what it asked for is enough.           *)

KeyVars == {"OPENAI_API_KEY", "GOOGLE_API_KEY", "PINECONE_API_KEY"}

\* Only keys are ever asked for.
KeysOnly(report) == \A t \in report : t[1] = "set" => t[2] \in KeyVars
AskInv == DOMAIN problems = Procs /\ \A p \in Procs : KeysOnly(problems[p])

\* A failed attempt is counted for one process, in one kind, at most once.
LEMMA FailCounts ==
  ASSUME TypeOK, NEW p \in Procs, NEW label, NEW kind, NEW report,
         Fail(p, label, kind, report)
  PROVE  /\ \A q \in Procs : \A k \in Kinds :
              q # p \/ k # kind => rounds'[q][k] = rounds[q][k]
         /\ kind \in Kinds => rounds'[p][kind] <= rounds[p][kind] + 1
         /\ ~Counts(p, kind) => rounds' = rounds
<1>1. \A n \in 0..MaxRounds : Count(n) <= n + 1
  BY StartUpAssumption DEF Count
<1>2. CASE Counts(p, kind)
  <2>1. kind \in Kinds /\ rounds' = [rounds EXCEPT ![p][kind] = Count(@)]
    BY <1>2 DEF Fail, Counts
  <2>2. rounds[p][kind] \in 0..MaxRounds
    BY <2>1 DEF TypeOK
  <2>3. rounds'[p][kind] = Count(rounds[p][kind])
    BY <2>1 DEF TypeOK
  <2>4. \A q \in Procs : \A k \in Kinds :
          q # p \/ k # kind => rounds'[q][k] = rounds[q][k]
    BY <2>1 DEF TypeOK
  <2> QED
    BY <1>1, <1>2, <2>2, <2>3, <2>4
<1>3. CASE ~Counts(p, kind)
  <2>1. rounds' = rounds
    BY <1>3 DEF Fail
  <2>2. kind \in Kinds => rounds[p][kind] \in 0..MaxRounds
    BY DEF TypeOK
  <2> QED
    BY <1>3, <2>1, <2>2, StartUpAssumption
<1> QED
  BY <1>2, <1>3

\* The labels past the checks, and what a step from one of them amounts to.
Late == {"construct", "sync", "has_index", "embed", "create", "open", "write", "ask"}

LateFailure(p) ==
  \E label \in {"failed", "refused", "unanswered"} : \E kind, report :
    /\ Fail(p, label, kind, report)
    /\ KeysOnly(report)
    /\ kind \notin {"secrets", "readiness"}
    /\ kind = "race" => pc[p] = "create" /\ Found(p)
LateProgress(p) ==
  \E label \in {"sync", "has_index", "embed", "create", "open", "write", "ask", "served"} :
    /\ Proceed(p, label)
    /\ label = "embed" => ~Found(p)
    /\ label = "create" => pc[p] = "embed"

LEMMA OnlyKeysAreAsked ==
  ASSUME NEW p
  PROVE  /\ \A block : NoKey(p, block) \subseteq KeyVars
         /\ \A block : NoStoreKey(block) \subseteq KeyVars
         /\ \A block : KeysOnly(ModelTrouble(p, block))
         /\ \A block : KeysOnly(StoreTrouble(block))
<1>1. \A block : CloudKey(block) \in KeyVars \cup {Empty}
  BY DEF CloudKey, KeyVars
<1>2. \A block : KeysOnly(ModelTrouble(p, block))
  <2> SUFFICES ASSUME NEW block, NEW t \in ModelTrouble(p, block), t[1] = "set"
               PROVE  t[2] \in KeyVars
    BY DEF KeysOnly
  <2>1. t = <<"set", CloudKey(block)>> /\ CloudKey(block) # Empty
    BY DEF ModelTrouble, OllamaTrouble
  <2> QED
    BY <1>1, <2>1
<1>3. \A block : KeysOnly(StoreTrouble(block))
  BY DEF KeysOnly, StoreTrouble, KeyVars
<1>4. \A block : NoStoreKey(block) \subseteq KeyVars
  BY DEF NoStoreKey, KeyVars
<1>5. \A block : NoKey(p, block) \subseteq KeyVars
  BY <1>1 DEF NoKey
<1> QED
  BY <1>2, <1>3, <1>4, <1>5

LEMMA LateSteps ==
  ASSUME NEW p \in Procs, Step(p), ~Load(p), pc[p] \notin {"embeddings", "llm", "store"}
  PROVE  /\ pc[p] \in Late
         /\ UNCHANGED <<syncers, yaml, dotenv, exported, up, pulled, files, breaks,
                        environ, fresh, cfg>>
         /\ LateFailure(p) \/ LateProgress(p)
<1>1. ~CheckEmbeddings(p) /\ ~CheckLLM(p) /\ ~CheckStore(p)
  BY DEF CheckEmbeddings, CheckLLM, CheckStore, Check
<1>2. /\ pc[p] \in Late
      /\ UNCHANGED <<syncers, yaml, dotenv, exported, up, pulled, files, breaks,
                     environ, fresh, cfg>>
  BY <1>1 DEF Step, Construct, ListSources, HasIndex, EmbedTest, CreateIndex, OpenStore,
              WriteDocuments, Ask, Late, world
<1> SUFFICES LateFailure(p) \/ LateProgress(p)
  BY <1>2
<1>3. ASSUME NEW names, names \subseteq KeyVars, Raise(p, "key", ToSet(names))
      PROVE  LateFailure(p)
  <2>1. KeysOnly(ToSet(names))
    BY <1>3 DEF KeysOnly, ToSet
  <2> QED
    BY <1>3, <2>1 DEF Raise, LateFailure
<1>4. Refuse(p) => LateFailure(p)
  BY DEF Refuse, LateFailure, KeysOnly
<1>5. ASSUME NEW label \in {"failed", "unanswered"}, NEW report, KeysOnly(report),
             Trouble(p, label, report)
      PROVE  LateFailure(p)
  <2> PICK kind \in {"key", "service"} : Fail(p, label, kind, report)
    BY <1>5 DEF Trouble
  <2> QED
    BY <1>5 DEF LateFailure
<1>6. ASSUME NEW label \in {"sync", "has_index", "open", "write", "ask", "served"},
             Proceed(p, label)
      PROVE  LateProgress(p)
  BY <1>6 DEF LateProgress
<1>7. CASE Construct(p)
  BY <1>3, <1>4, <1>6, <1>7, OnlyKeysAreAsked DEF Construct
<1>8. CASE ListSources(p)
  <2>1. KeysOnly({<<"put", "files">>})
    BY DEF KeysOnly
  <2>2. Raise(p, "files", {<<"put", "files">>}) => LateFailure(p)
    BY <2>1 DEF Raise, LateFailure
  <2> QED
    BY <1>4, <1>6, <1>8, <2>2 DEF ListSources
<1>9. CASE HasIndex(p)
  <2>1. Proceed(p, "embed") /\ ~Found(p) => LateProgress(p)
    BY DEF LateProgress
  <2> QED
    BY <1>5, <1>6, <1>9, <2>1, OnlyKeysAreAsked DEF HasIndex, Exists
<1>10. CASE EmbedTest(p)
  <2>1. Proceed(p, "create") => LateProgress(p)
    BY <1>10 DEF LateProgress, EmbedTest
  <2> QED
    BY <1>5, <1>10, <2>1, OnlyKeysAreAsked DEF EmbedTest
<1>11. CASE CreateIndex(p)
  <2>1. Raise(p, "race", {}) /\ Found(p) => LateFailure(p)
    BY <1>11 DEF CreateIndex, Raise, LateFailure, KeysOnly
  <2> QED
    BY <1>5, <1>6, <1>11, <2>1, OnlyKeysAreAsked DEF CreateIndex
<1>12. CASE OpenStore(p)
  BY <1>4, <1>5, <1>6, <1>12, OnlyKeysAreAsked DEF OpenStore
<1>13. CASE WriteDocuments(p)
  <2>1. KeysOnly(ModelTrouble(p, cfg[p].embeddings) \cup StoreTrouble(cfg[p].store))
    BY OnlyKeysAreAsked DEF KeysOnly
  <2> QED
    BY <1>4, <1>5, <1>6, <1>13, <2>1 DEF WriteDocuments
<1>14. CASE Ask(p)
  <2>1. KeysOnly(AnswerTrouble(p))
    BY OnlyKeysAreAsked DEF AnswerTrouble
  <2> QED
    BY <1>5, <1>6, <1>14, <2>1 DEF Ask
<1> QED
  BY <1>1, <1>2, <1>7, <1>8, <1>9, <1>10, <1>11, <1>12, <1>13, <1>14 DEF Step

\* What a new process would find in os.environ once .env is loaded, and which
\* secrets it would lack.
Env(p) == LoadDotEnv(exported[p])
Lacks(p) == MissingSecrets(FromConfig(yaml, Env(p)))

SecretsInv ==
  /\ \A p \in Procs : DOMAIN exported[p] = Vars
  /\ \A p \in Procs : fresh[p] /\ pc[p] = "off" => environ[p] = exported[p]
  /\ \A p \in Procs :
       /\ rounds[p].secrets <= 1
       /\ rounds[p].secrets # 0 =>
            \/ Lacks(p) = {}
            \/ pc[p] = "failed" /\ ToSet(Lacks(p)) \subseteq problems[p]

\* Values are added to an environment, none is taken out of it.
Filled(old, new) == \A v \in Vars : new[v] = old[v] \/ new[v] = "k"

LEMMA FilledValues ==
  ASSUME NEW old, NEW new, Filled(old, new)
  PROVE  /\ \A v \in Vars : Get(new, v) = Empty =>
              Get(old, v) = Empty /\ new[v] # "k"
         /\ \A value : Resolve(value, new) = Empty => Resolve(value, old) = Empty
<1>1. \A v \in Vars : Get(new, v) = Empty => Get(old, v) = Empty /\ new[v] # "k"
  BY DEF Filled, Get, Empty
<1>2. ASSUME NEW value, Resolve(value, new) = Empty PROVE Resolve(value, old) = Empty
  <2>1. CASE value \in DOMAIN Refers
    <3>1. value # Empty /\ Refers[value] \in Vars
      BY <2>1, ValueAssumption
    <3>2. new[Refers[value]] = Empty
      BY <1>2, <2>1, <3>1 DEF Resolve
    <3>3. old[Refers[value]] = Empty
      BY <3>1, <3>2 DEF Filled, Empty
    <3> QED
      BY <2>1, <3>3 DEF Resolve, Empty
  <2>2. CASE value \notin DOMAIN Refers
    BY <1>2, <2>2 DEF Resolve
  <2> QED
    BY <2>1, <2>2
<1> QED
  BY <1>1, <1>2

LEMMA FilledModel ==
  ASSUME NEW old, NEW new, Filled(old, new), NEW raw, NEW default,
         NEW v \in ModelSecrets(Model(raw, default, new))
  PROVE  /\ v \in ModelSecrets(Model(raw, default, old))
         /\ v \in Vars /\ new[v] # "k"
<1> DEFINE provider == Or(raw.provider, "ollama")
<1>1. /\ v = KeyEnv(provider) /\ v # Empty
      /\ Or(FromEnv(v, new), Resolve(raw.key, new)) = Empty
  BY DEF ModelSecrets, Model
<1>2. v \in Vars
  BY <1>1 DEF KeyEnv, Vars
<1>3. Get(new, v) = Empty /\ Resolve(raw.key, new) = Empty
  BY <1>1 DEF Or, FromEnv
<1>4. Get(old, v) = Empty /\ new[v] # "k" /\ Resolve(raw.key, old) = Empty
  BY <1>2, <1>3, FilledValues
<1>5. Or(FromEnv(v, old), Resolve(raw.key, old)) = Empty
  BY <1>1, <1>4 DEF Or, FromEnv
<1>6. v \in ModelSecrets(Model(raw, default, old))
  BY <1>1, <1>5 DEF ModelSecrets, Model
<1> QED
  BY <1>2, <1>4, <1>6

\* What was not missing is not missing later, and what is set is not missing.
LEMMA FilledSecrets ==
  ASSUME NEW old, NEW new, Filled(old, new), NEW file,
         NEW v \in MissingSecrets(FromConfig(file, new))
  PROVE  /\ v \in MissingSecrets(FromConfig(file, old))
         /\ v \in Vars /\ new[v] # "k"
<1>0. \A env : /\ FromConfig(file, env).embeddings
                     = Model(file.embeddings, "nomic-embed-text", env)
               /\ FromConfig(file, env).llm = Model(file.llm, "llama3.1:8b", env)
               /\ FromConfig(file, env).store = Store(file.store, env)
  BY DEF FromConfig
<1>1. CASE v \in ModelSecrets(FromConfig(file, new).embeddings)
  BY <1>0, <1>1, FilledModel DEF MissingSecrets
<1>2. CASE v \in ModelSecrets(FromConfig(file, new).llm)
  BY <1>0, <1>2, FilledModel DEF MissingSecrets
<1>3. CASE v \in StoreSecrets(FromConfig(file, new).store)
  <2> DEFINE raw == file.store
  <2>1. /\ v = "PINECONE_API_KEY"
        /\ Or(raw.provider, "pinecone") = "pinecone" /\ raw.host = Empty
        /\ Or(Get(new, v), Resolve(raw.key, new)) = Empty
    <3>1. v \in StoreSecrets(Store(raw, new))
      BY <1>0, <1>3
    <3>2. v = "PINECONE_API_KEY"
      BY <3>1 DEF StoreSecrets
    <3>3. /\ Store(raw, new).provider = "pinecone" /\ Store(raw, new).host = Empty
          /\ Store(raw, new).key = Empty
      BY <3>1 DEF StoreSecrets
    <3> QED
      BY <3>2, <3>3 DEF Store
  <2>2. v \in Vars
    BY <2>1 DEF Vars
  <2>3. Get(new, v) = Empty /\ Resolve(raw.key, new) = Empty
    BY <2>1 DEF Or
  <2>4. Get(old, v) = Empty /\ new[v] # "k" /\ Resolve(raw.key, old) = Empty
    BY <2>2, <2>3, FilledValues
  <2>5. v \in StoreSecrets(Store(raw, old))
    BY <2>1, <2>4 DEF StoreSecrets, Store, Or
  <2> QED
    BY <1>0, <2>2, <2>4, <2>5 DEF MissingSecrets
<1> QED
  BY <1>1, <1>2, <1>3 DEF MissingSecrets

\* What the operator does to the environments.
LEMMA OperatorFills ==
  ASSUME TypeOK, EnvInv, AskInv, SecretsInv, NEW p \in Procs, Restart(p) \/ TryAgain(p)
  PROVE  /\ \A q \in Procs : DOMAIN exported'[q] = Vars
         /\ \A q \in Procs : Filled(Env(q), Env(q)')
         /\ \A v \in Vars : <<"set", v>> \in problems[p] => Env(p)'[v] = "k"
         /\ \A v \in Vars \ KeyVars :
              /\ dotenv'[v] = dotenv[v]
              /\ \A q \in Procs : exported'[q][v] = exported[q][v]
<1> DEFINE hidden == {v \in Asked(p, "set") : exported[p][v] # "Unset"}
           missing == Asked(p, "set") \ hidden
<1>1. /\ dotenv' = [v \in Vars |-> IF v \in missing THEN "k" ELSE dotenv[v]]
      /\ exported' = [exported EXCEPT ![p] =
                        [v \in Vars |-> IF v \in hidden THEN "k" ELSE @[v]]]
  BY DEF Restart, TryAgain, DoWhatIsAsked
<1>2. \A q \in Procs : DOMAIN exported'[q] = Vars
  BY <1>1 DEF EnvInv, SecretsInv
<1>3. \A q \in Procs : \A v \in Vars :
        exported'[q][v] = IF q = p /\ v \in hidden THEN "k" ELSE exported[q][v]
  BY <1>1 DEF EnvInv
<1>4. \A v \in Vars : dotenv'[v] = IF v \in missing THEN "k" ELSE dotenv[v]
  BY <1>1
<1>5. \A q \in Procs : \A v \in Vars :
        /\ Env(q)[v] = IF exported[q][v] = "Unset" THEN dotenv[v] ELSE exported[q][v]
        /\ Env(q)'[v] = IF exported'[q][v] = "Unset" THEN dotenv'[v] ELSE exported'[q][v]
  BY DEF Env, LoadDotEnv
<1>6. \A q \in Procs : Filled(Env(q), Env(q)')
  <2> SUFFICES ASSUME NEW q \in Procs, NEW v \in Vars
               PROVE  Env(q)'[v] = Env(q)[v] \/ Env(q)'[v] = "k"
    BY DEF Filled
  <2>1. CASE q = p /\ v \in hidden
    BY <1>3, <1>5, <2>1
  <2>2. CASE ~ (q = p /\ v \in hidden)
    BY <1>3, <1>4, <1>5, <2>2
  <2> QED
    BY <2>1, <2>2
<1>7. ASSUME NEW v \in Vars, <<"set", v>> \in problems[p] PROVE Env(p)'[v] = "k"
  <2>1. v \in Asked(p, "set")
    BY <1>7 DEF Asked
  <2>2. CASE exported[p][v] # "Unset"
    BY <1>3, <1>5, <2>1, <2>2
  <2>3. CASE exported[p][v] = "Unset"
    BY <1>3, <1>4, <1>5, <2>1, <2>3
  <2> QED
    BY <2>2, <2>3
<1>8. \A v \in Vars \ KeyVars : v \notin Asked(p, "set")
  BY DEF Asked, AskInv, KeysOnly
<1> QED
  BY <1>2, <1>3, <1>4, <1>6, <1>7, <1>8

\* The attempt begins: it lacks secrets, or goes on with a configuration.
LEMMA LoadSteps ==
  ASSUME TypeOK, EnvInv, NEW p \in Procs, Load(p)
  PROVE  LET env == LoadDotEnv(environ[p])
             lacks == MissingSecrets(FromConfig(yaml, env))
         IN /\ pc[p] = "off" /\ UNCHANGED <<world, fresh>>
            /\ environ' = [environ EXCEPT ![p] = env]
            /\ environ'[p] = env /\ cfg'[p] = FromConfig(yaml, env)
            /\ \/ lacks # {} /\ Fail(p, "failed", "secrets", ToSet(lacks))
               \/ /\ lacks = {}
                  /\ \E label \in {"construct", "embeddings"} : GoTo(p, label)
                  /\ problems' = [problems EXCEPT ![p] = {}]
                  /\ UNCHANGED rounds
<1>1. /\ environ' = [environ EXCEPT ![p] = LoadDotEnv(environ[p])]
      /\ environ'[p] = LoadDotEnv(environ[p])
  BY DEF Load, EnvInv
<1>2. cfg'[p] = FromConfig(yaml, LoadDotEnv(environ[p]))
  BY <1>1 DEF Load, TypeOK
<1> QED
  BY <1>1, <1>2 DEF Load, Raise

LEMMA SecretsAreKeys == \A c : MissingSecrets(c) \subseteq KeyVars
BY DEF MissingSecrets, ModelSecrets, StoreSecrets, KeyEnv, KeyVars, Empty

\* A check adds services to start and models to pull.
Deeds == {"start", "pull"}
LEMMA ChecksFind ==
  /\ \A block : \A t \in ModelReadiness(block) : t[1] \in Deeds
  /\ \A block : \A t \in StoreReadiness(block) : t[1] \in Deeds
BY DEF ModelReadiness, OllamaProblems, StoreReadiness, Deeds

LEMMA CheckSteps ==
  ASSUME NEW p \in Procs, Step(p), pc[p] \in {"embeddings", "llm", "store"}
  PROVE  /\ UNCHANGED <<world, environ, fresh, cfg>>
         /\ \/ CheckEmbeddings(p) \/ CheckLLM(p) \/ CheckStore(p)
         /\ \E found :
              /\ \A t \in found : t[1] \in Deeds
              /\ \/ Fail(p, "failed", "readiness", problems[p] \cup found)
                 \/ /\ \E label \in {"llm", "store", "construct"} : GoTo(p, label)
                    /\ problems' = [problems EXCEPT ![p] = problems[p] \cup found]
                    /\ UNCHANGED rounds
<1>1. CheckEmbeddings(p) \/ CheckLLM(p) \/ CheckStore(p)
  BY DEF Step, Load, Construct, ListSources, HasIndex, EmbedTest, CreateIndex,
         OpenStore, WriteDocuments, Ask
<1>2. ASSUME NEW here, NEW next \in {"llm", "store", "construct"}, NEW found,
             \A t \in found : t[1] \in Deeds, Check(p, here, next, found)
      PROVE  /\ UNCHANGED <<world, environ, fresh, cfg>>
             /\ \/ Fail(p, "failed", "readiness", problems[p] \cup found)
                \/ /\ \E label \in {"llm", "store", "construct"} : GoTo(p, label)
                   /\ problems' = [problems EXCEPT ![p] = problems[p] \cup found]
                   /\ UNCHANGED rounds
  <2>1. UNCHANGED <<world, environ, fresh, cfg>>
    BY <1>2 DEF Check
  <2>2. CASE next = "construct" /\ problems[p] \cup found # {}
    BY <1>2, <2>1, <2>2 DEF Check, Raise
  <2>3. CASE ~ (next = "construct" /\ problems[p] \cup found # {})
    BY <1>2, <2>1, <2>3 DEF Check
  <2> QED
    BY <2>2, <2>3
<1>3. CASE CheckEmbeddings(p)
  BY <1>1, <1>2, <1>3, ChecksFind DEF CheckEmbeddings
<1>4. CASE CheckLLM(p)
  BY <1>1, <1>2, <1>4, ChecksFind DEF CheckLLM
<1>5. CASE CheckStore(p)
  BY <1>1, <1>2, <1>5, ChecksFind DEF CheckStore
<1> QED
  BY <1>1, <1>3, <1>4, <1>5

LEMMA FailReports ==
  ASSUME DOMAIN problems = Procs, NEW p \in Procs, NEW label, NEW kind, NEW report,
         Fail(p, label, kind, report)
  PROVE  /\ DOMAIN problems' = Procs
         /\ problems'[p] = report
         /\ \A q \in Procs \ {p} : problems'[q] = problems[q]
BY DEF Fail

LEMMA AskSteps == TypeOK /\ EnvInv /\ AskInv /\ [Next]_vars => AskInv'
<1> SUFFICES ASSUME TypeOK, EnvInv, AskInv, [Next]_vars PROVE AskInv'
  OBVIOUS
<1>1. ASSUME NEW p \in Procs, NEW label, NEW kind, NEW report, KeysOnly(report),
             Fail(p, label, kind, report)
      PROVE  AskInv'
  BY <1>1, FailReports DEF AskInv
<1>2. ASSUME NEW p \in Procs, NEW report, KeysOnly(report),
             problems' = [problems EXCEPT ![p] = report]
      PROVE  AskInv'
  BY <1>2 DEF AskInv
<1>3. KeysOnly({})
  BY DEF KeysOnly
<1>4. ASSUME NEW p \in Procs, Step(p) PROVE AskInv'
  <2>1. CASE Load(p)
    <3>1. KeysOnly(ToSet(MissingSecrets(FromConfig(yaml, LoadDotEnv(environ[p])))))
      BY SecretsAreKeys DEF KeysOnly, ToSet
    <3> QED
      BY <1>1, <1>2, <1>3, <2>1, <3>1, LoadSteps
  <2>2. CASE pc[p] \in {"embeddings", "llm", "store"}
    <3>1. PICK found :
            /\ \A t \in found : t[1] \in Deeds
            /\ \/ Fail(p, "failed", "readiness", problems[p] \cup found)
               \/ problems' = [problems EXCEPT ![p] = problems[p] \cup found]
      BY <1>4, <2>2, CheckSteps
    <3>2. KeysOnly(problems[p] \cup found)
      BY <3>1 DEF AskInv, KeysOnly, Deeds
    <3> QED
      BY <1>1, <1>2, <3>1, <3>2
  <2>3. CASE ~Load(p) /\ pc[p] \notin {"embeddings", "llm", "store"}
    <3>1. CASE LateFailure(p)
      BY <1>1, <3>1 DEF LateFailure
    <3>2. CASE LateProgress(p)
      BY <3>2 DEF LateProgress, Proceed, AskInv
    <3> QED
      BY <1>4, <2>3, <3>1, <3>2, LateSteps
  <2> QED
    BY <2>1, <2>2, <2>3
<1>5. ASSUME NEW p \in Procs, Restart(p) \/ TryAgain(p) PROVE AskInv'
  <2>1. problems' = [problems EXCEPT ![p] = {}]
    BY <1>5 DEF Restart, TryAgain, DoWhatIsAsked
  <2> QED
    BY <1>2, <1>3, <2>1
<1>6. ASSUME NEW s \in Services, Break(s) PROVE AskInv'
  BY <1>6 DEF Break, local, AskInv
<1>7. CASE UNCHANGED vars
  BY <1>7 DEF vars, local, AskInv
<1> QED
  BY <1>4, <1>5, <1>6, <1>7 DEF Next

\* A process is told of all it lacks at once, so that a new one lacks nothing.
LEMMA SecretsSteps == TypeOK /\ EnvInv /\ AskInv /\ SecretsInv /\ [Next]_vars => SecretsInv'
<1> SUFFICES ASSUME TypeOK, EnvInv, AskInv, SecretsInv, [Next]_vars PROVE SecretsInv'
  OBVIOUS
<1>0. "secrets" \in Kinds
  BY DEF Kinds
<1>1. ASSUME NEW p \in Procs, Step(p) PROVE SecretsInv'
  <2>1. /\ UNCHANGED <<yaml, dotenv, exported, fresh>> /\ Moved(p)
    BY <1>1, StepMoves
  <2>2. \A q \in Procs : Env(q)' = Env(q) /\ Lacks(q)' = Lacks(q)
    BY <2>1 DEF Env, Lacks, LoadDotEnv
  <2>3. CASE Load(p)
    <3> DEFINE env == LoadDotEnv(environ[p])
               lacks == MissingSecrets(FromConfig(yaml, env))
    <3>1. /\ pc[p] = "off" /\ environ' = [environ EXCEPT ![p] = env]
          /\ \/ lacks # {} /\ Fail(p, "failed", "secrets", ToSet(lacks))
             \/ /\ \E label \in {"construct", "embeddings"} : GoTo(p, label)
                /\ UNCHANGED rounds /\ problems' = [problems EXCEPT ![p] = {}]
      BY <2>3, LoadSteps
    <3>2. pc'[p] # "off"
      BY <3>1 DEF Fail, GoTo, TypeOK
    <3>3. fresh[p] => Lacks(p) = lacks
      BY <3>1 DEF SecretsInv, Lacks, Env
    <3>4. \A q \in Procs : fresh'[q] /\ pc'[q] = "off" => environ'[q] = exported'[q]
      BY <2>1, <3>1, <3>2 DEF SecretsInv, Moved, EnvInv
    <3>5. CASE lacks # {} /\ Fail(p, "failed", "secrets", ToSet(lacks))
      <4>1. pc'[p] = "failed" /\ problems'[p] = ToSet(lacks)
        BY <3>5, FailReports DEF Fail, GoTo, TypeOK, AskInv
      <4>2. \A q \in Procs \ {p} : rounds'[q].secrets = rounds[q].secrets
                                     /\ problems'[q] = problems[q]
        BY <1>0, <3>5, FailReports, FailCounts DEF AskInv
      <4>3. CASE fresh[p]
        <5>1. rounds[p].secrets = 0
          BY <1>0, <3>1, <3>3, <3>5, <4>3 DEF SecretsInv
        <5>2. rounds'[p].secrets <= 1
          BY <1>0, <3>5, <5>1, FailCounts
        <5> QED
          BY <2>1, <2>2, <3>3, <3>4, <4>1, <4>2, <4>3, <5>2 DEF SecretsInv, Moved
      <4>4. CASE ~fresh[p]
        <5>1. rounds' = rounds
          BY <3>5, <4>4, FailCounts DEF Counts
        <5> QED
          BY <2>1, <2>2, <3>1, <3>4, <4>1, <4>2, <5>1 DEF SecretsInv, Moved
      <4> QED
        BY <4>3, <4>4
    <3>6. CASE UNCHANGED rounds /\ problems' = [problems EXCEPT ![p] = {}]
      <4>1. \A q \in Procs \ {p} : problems'[q] = problems[q]
        BY <3>6
      <4> QED
        BY <2>1, <2>2, <3>1, <3>4, <3>6, <4>1 DEF SecretsInv, Moved
    <3> QED
      BY <3>1, <3>5, <3>6
  <2>4. CASE ~Load(p)
    <3>1. /\ pc[p] \in Late \cup {"embeddings", "llm", "store"}
          /\ UNCHANGED environ
          /\ \/ /\ UNCHANGED rounds
                /\ \A q \in Procs \ {p} : problems'[q] = problems[q]
                /\ pc'[p] # "off"
             \/ \E label, kind, report : /\ Fail(p, label, kind, report)
                                         /\ kind # "secrets" /\ label # "off"
      <4>1. CASE pc[p] \in {"embeddings", "llm", "store"}
        <5>1. PICK found :
                \/ Fail(p, "failed", "readiness", problems[p] \cup found)
                \/ /\ \E label \in {"llm", "store", "construct"} : GoTo(p, label)
                   /\ problems' = [problems EXCEPT ![p] = problems[p] \cup found]
                   /\ UNCHANGED rounds
          BY <1>1, <4>1, CheckSteps
        <5>2. UNCHANGED environ
          BY <1>1, <4>1, CheckSteps
        <5>3. CASE Fail(p, "failed", "readiness", problems[p] \cup found)
          BY <4>1, <5>2, <5>3
        <5>4. CASE /\ \E label \in {"llm", "store", "construct"} : GoTo(p, label)
                   /\ problems' = [problems EXCEPT ![p] = problems[p] \cup found]
                   /\ UNCHANGED rounds
          BY <4>1, <5>2, <5>4 DEF GoTo, TypeOK, AskInv
        <5> QED
          BY <5>1, <5>3, <5>4
      <4>2. CASE pc[p] \notin {"embeddings", "llm", "store"}
        <5>1. /\ pc[p] \in Late /\ UNCHANGED environ
              /\ LateFailure(p) \/ LateProgress(p)
          BY <1>1, <2>4, <4>2, LateSteps
        <5>2. CASE LateFailure(p)
          BY <5>1, <5>2 DEF LateFailure
        <5>3. CASE LateProgress(p)
          BY <5>1, <5>3 DEF LateProgress, Proceed, GoTo, TypeOK
        <5> QED
          BY <5>1, <5>2, <5>3
      <4> QED
        BY <4>1, <4>2
    <3>2. pc[p] \notin {"off", "failed"}
      BY <3>1 DEF Late
    <3>3. /\ pc'[p] # "off"
          /\ \A q \in Procs : rounds'[q].secrets = rounds[q].secrets
          /\ \A q \in Procs \ {p} : problems'[q] = problems[q]
      <4>1. ASSUME NEW label, NEW kind, NEW report, Fail(p, label, kind, report),
                   kind # "secrets", label # "off"
            PROVE  /\ pc'[p] # "off"
                   /\ \A q \in Procs : rounds'[q].secrets = rounds[q].secrets
                   /\ \A q \in Procs \ {p} : problems'[q] = problems[q]
        BY <1>0, <4>1, FailCounts, FailReports DEF Fail, GoTo, TypeOK, AskInv
      <4> QED
        BY <3>1, <4>1
    <3> QED
      BY <2>1, <2>2, <3>1, <3>2, <3>3 DEF SecretsInv, Moved
  <2> QED
    BY <2>3, <2>4
<1>2. ASSUME NEW p \in Procs, Restart(p) \/ TryAgain(p) PROVE SecretsInv'
  <2>1. /\ \A q \in Procs : DOMAIN exported'[q] = Vars
        /\ \A q \in Procs : Filled(Env(q), Env(q)')
        /\ \A v \in Vars : <<"set", v>> \in problems[p] => Env(p)'[v] = "k"
    BY <1>2, OperatorFills
  <2>2. /\ UNCHANGED <<yaml, rounds>>
        /\ \A q \in Procs \ {p} : /\ pc'[q] = pc[q] /\ environ'[q] = environ[q]
                                  /\ exported'[q] = exported[q] /\ fresh'[q] = fresh[q]
                                  /\ problems'[q] = problems[q]
    BY <1>2 DEF Restart, TryAgain, GoTo, DoWhatIsAsked, TypeOK, EnvInv, AskInv
  <2>3. fresh'[p] => environ'[p] = exported'[p]
    BY <1>2 DEF Restart, TryAgain, EnvInv, TypeOK
  <2>4. \A q \in Procs : Lacks(q)' \subseteq Lacks(q)
    BY <2>1, <2>2, FilledSecrets DEF Lacks
  <2>5. rounds[p].secrets # 0 => Lacks(p)' = {}
    <3> SUFFICES ASSUME rounds[p].secrets # 0, NEW v \in Lacks(p)' PROVE FALSE
      OBVIOUS
    <3>1. v \in Lacks(p) /\ v \in Vars /\ Env(p)'[v] # "k"
      BY <2>1, <2>2, FilledSecrets DEF Lacks
    <3>2. <<"set", v>> \in problems[p]
      BY <3>1 DEF SecretsInv, ToSet
    <3> QED
      BY <2>1, <3>1, <3>2
  <2>6. ASSUME NEW q \in Procs \ {p}, rounds'[q].secrets # 0
        PROVE  \/ Lacks(q)' = {}
               \/ pc'[q] = "failed" /\ ToSet(Lacks(q)') \subseteq problems'[q]
    BY <2>2, <2>4, <2>6 DEF SecretsInv, ToSet
  <2> QED
    BY <2>1, <2>2, <2>3, <2>5, <2>6 DEF SecretsInv
<1>3. CASE (\E s \in Services : Break(s)) \/ UNCHANGED vars
  <2>1. UNCHANGED <<yaml, dotenv, exported, local>>
    BY <1>3 DEF Break, vars, world
  <2>2. \A q \in Procs : Lacks(q)' = Lacks(q)
    BY <2>1 DEF Env, Lacks, LoadDotEnv
  <2> QED
    BY <2>1, <2>2 DEF local, SecretsInv
<1> QED
  BY <1>1, <1>2, <1>3 DEF Next

-----------------------------------------------------------------------------
(* The race for the index.                                                 *)

NameVar == "PINECONE_INDEX_NAME"

\* The index every attempt of a process works on: nobody is asked for its name.
Name(p) == IndexName(yaml.store, Env(p))

RaceInv ==
  /\ \A n \in Indexes : DOMAIN indexes[n] = {"metric", "dim", "written"}
  /\ \A p \in Procs :
       /\ Name(p) \in Indexes
       /\ LoadDotEnv(environ[p])[NameVar] = Env(p)[NameVar]
       /\ pc[p] \in Configured => Index(p) = Name(p)
       /\ rounds[p].race <= 1
       /\ rounds[p].race # 0 =>
            indexes[Name(p)] # NoIndex /\ pc[p] \notin {"embed", "create"}

LEMMA NameIsInEnv ==
  ASSUME NEW raw, NEW e1, NEW e2, e1[NameVar] = e2[NameVar]
  PROVE  IndexName(raw, e1) = IndexName(raw, e2)
BY DEF IndexName, Get, NameVar

\* An index, once created, stays.
LEMMA IndexesStay ==
  ASSUME TypeOK, RaceInv, NEW p \in Procs, Step(p), NEW n \in Indexes
  PROVE  /\ DOMAIN indexes'[n] = {"metric", "dim", "written"}
         /\ indexes[n] # NoIndex => indexes'[n] # NoIndex
<1>1. CASE UNCHANGED indexes
  BY <1>1 DEF RaceInv
<1>2. CASE /\ indexes[Index(p)] = NoIndex
           /\ indexes' = [indexes EXCEPT ![Index(p)] = NewIndex(cfg[p])]
  <2>1. CASE n = Index(p)
    <3>1. indexes'[n] = NewIndex(cfg[p])
      BY <1>2, <2>1 DEF TypeOK
    <3> QED
      BY <1>2, <2>1, <3>1 DEF NewIndex
  <2>2. CASE n # Index(p)
    BY <1>2, <2>2 DEF RaceInv, TypeOK
  <2> QED
    BY <2>1, <2>2
<1>3. ASSUME NEW v,
             indexes' = [indexes EXCEPT ![Index(p)].written = @ \cup {v}]
      PROVE  /\ DOMAIN indexes'[n] = {"metric", "dim", "written"}
             /\ indexes[n] # NoIndex => indexes'[n] # NoIndex
  <2>1. CASE n = Index(p)
    <3>1. indexes'[n] = [indexes[n] EXCEPT !.written = indexes[n].written \cup {v}]
      BY <1>3, <2>1 DEF TypeOK
    <3>2. DOMAIN indexes'[n] = {"metric", "dim", "written"} /\ v \in indexes'[n].written
      BY <3>1 DEF RaceInv
    <3> QED
      BY <3>2 DEF NoIndex
  <2>2. CASE n # Index(p)
    BY <1>3, <2>2 DEF RaceInv, TypeOK
  <2> QED
    BY <2>1, <2>2
<1> QED
  BY <1>1, <1>2, <1>3, IndexSteps

LEMMA RaceSteps ==
  TypeOK /\ EnvInv /\ AskInv /\ SecretsInv /\ RaceInv /\ [Next]_vars => RaceInv'
<1> SUFFICES ASSUME TypeOK, EnvInv, AskInv, SecretsInv, RaceInv, [Next]_vars
             PROVE  RaceInv'
  OBVIOUS
<1>0. "race" \in Kinds /\ NameVar \in Vars \ KeyVars
  BY DEF Kinds, NameVar, Vars, KeyVars
<1>1. ASSUME NEW p \in Procs, Step(p) PROVE RaceInv'
  <2>1. /\ UNCHANGED <<yaml, dotenv, exported, fresh>> /\ Moved(p)
    BY <1>1, StepMoves
  <2>2. \A q \in Procs : Env(q)' = Env(q) /\ Name(q)' = Name(q)
    BY <2>1 DEF Env, Name, LoadDotEnv
  <2>3. \A n \in Indexes :
          /\ DOMAIN indexes'[n] = {"metric", "dim", "written"}
          /\ indexes[n] # NoIndex => indexes'[n] # NoIndex
    BY <1>1, IndexesStay
  <2>4. ASSUME NEW q \in Procs \ {p}
        PROVE  /\ pc'[q] = pc[q] /\ environ'[q] = environ[q] /\ cfg'[q] = cfg[q]
    <3>1. cfg'[q] = cfg[q]
      BY <1>1, ConfigSteps
    <3>2. UNCHANGED environ \/ environ' = [environ EXCEPT ![p] = LoadDotEnv(@)]
      BY <1>1 DEF Step, Load, CheckEmbeddings, CheckLLM, CheckStore, Check, Construct,
                  ListSources, HasIndex, EmbedTest, CreateIndex, OpenStore,
                  WriteDocuments, Ask
    <3> QED
      BY <2>1, <3>1, <3>2 DEF EnvInv, Moved
  <2>5. \/ Load(p)
        \/ ~Load(p) /\ pc[p] \in {"embeddings", "llm", "store"}
        \/ ~Load(p) /\ pc[p] \notin {"embeddings", "llm", "store"}
    OBVIOUS
  <2>6. LoadDotEnv(environ[p])'[NameVar] = Env(p)'[NameVar]
    <3>1. CASE Load(p)
      <4>1. environ'[p] = LoadDotEnv(environ[p])
        BY <3>1, LoadSteps
      <4> QED
        BY <1>0, <2>1, <2>2, <4>1 DEF LoadDotEnv, RaceInv
    <3>2. CASE ~Load(p)
      <4>1. UNCHANGED environ
        BY <1>1, <3>2, CheckSteps, LateSteps
      <4> QED
        BY <2>1, <2>2, <4>1 DEF LoadDotEnv, RaceInv
    <3> QED
      BY <3>1, <3>2
  <2>7. pc'[p] \in Configured => Index(p)' = Name(p)
    <3>1. CASE Load(p)
      <4>1. cfg'[p] = FromConfig(yaml, LoadDotEnv(environ[p]))
        BY <3>1, LoadSteps
      <4>2. cfg'[p].store.index = IndexName(yaml.store, LoadDotEnv(environ[p]))
        BY <4>1 DEF FromConfig, Store
      <4> QED
        BY <4>2, NameIsInEnv DEF Index, Name, RaceInv
    <3>2. CASE ~Load(p)
      <4>1. UNCHANGED cfg /\ pc[p] \in Configured
        BY <1>1, <3>2, CheckSteps, LateSteps DEF Configured, Late
      <4> QED
        BY <4>1 DEF RaceInv, Index
    <3> QED
      BY <3>1, <3>2
  <2>8. \/ /\ \A q \in Procs : rounds'[q].race = rounds[q].race
           /\ rounds[p].race # 0 => pc'[p] \notin {"embed", "create"}
        \/ /\ \A q \in Procs \ {p} : rounds'[q].race = rounds[q].race
           /\ rounds'[p].race <= rounds[p].race + 1
           /\ pc[p] = "create" /\ Found(p) /\ pc'[p] \notin {"embed", "create"}
    <3>1. ASSUME NEW label \in {"failed", "refused", "unanswered"}, NEW kind, NEW report,
                 Fail(p, label, kind, report), kind # "race"
          PROVE  /\ \A q \in Procs : rounds'[q].race = rounds[q].race
                 /\ pc'[p] \notin {"embed", "create"}
      BY <1>0, <3>1, FailCounts DEF Fail, GoTo, TypeOK
    <3>2. CASE Load(p)
      <4>1. \/ \E report : Fail(p, "failed", "secrets", report)
            \/ /\ \E label \in {"construct", "embeddings"} : GoTo(p, label)
               /\ UNCHANGED rounds
        BY <3>2, LoadSteps
      <4> QED
        BY <3>1, <4>1 DEF GoTo, TypeOK
    <3>3. CASE ~Load(p) /\ pc[p] \in {"embeddings", "llm", "store"}
      <4>1. \/ \E report : Fail(p, "failed", "readiness", report)
            \/ /\ \E label \in {"llm", "store", "construct"} : GoTo(p, label)
               /\ UNCHANGED rounds
        BY <1>1, <3>3, CheckSteps
      <4> QED
        BY <3>1, <4>1 DEF GoTo, TypeOK
    <3>4. CASE ~Load(p) /\ pc[p] \notin {"embeddings", "llm", "store"}
      <4>1. LateFailure(p) \/ LateProgress(p)
        BY <1>1, <3>4, LateSteps
      <4>2. CASE LateFailure(p)
        <5>1. PICK label, kind, report :
                /\ label \in {"failed", "refused", "unanswered"}
                /\ Fail(p, label, kind, report)
                /\ kind = "race" => pc[p] = "create" /\ Found(p)
          BY <4>2 DEF LateFailure
        <5>2. CASE kind # "race"
          BY <3>1, <5>1, <5>2
        <5>3. CASE kind = "race"
          BY <1>0, <5>1, <5>3, FailCounts DEF Fail, GoTo, TypeOK
        <5> QED
          BY <5>2, <5>3
      <4>3. CASE LateProgress(p)
        <5>1. PICK label : /\ Proceed(p, label)
                           /\ label = "embed" => ~Found(p)
                           /\ label = "create" => pc[p] = "embed"
          BY <4>3 DEF LateProgress
        <5>2. UNCHANGED rounds /\ pc'[p] = label
          BY <5>1 DEF Proceed, GoTo, TypeOK
        <5>3. Index(p) = Name(p)
          <6>1. pc[p] \in Configured
            BY <1>1, <3>4, LateSteps DEF Late, Configured
          <6> QED
            BY <6>1 DEF RaceInv
        <5>4. rounds[p].race # 0 => Found(p) /\ pc[p] # "embed"
          BY <5>3 DEF Found, RaceInv
        <5> QED
          BY <5>1, <5>2, <5>4
      <4> QED
        BY <4>1, <4>2, <4>3
    <3> QED
      BY <2>5, <3>2, <3>3, <3>4
  <2>9. ASSUME NEW q \in Procs
        PROVE  /\ rounds'[q].race <= 1
               /\ rounds'[q].race # 0 =>
                    indexes'[Name(q)] # NoIndex /\ pc'[q] \notin {"embed", "create"}
    <3>1. CASE rounds'[q].race = rounds[q].race
               /\ (rounds[q].race # 0 => pc'[q] \notin {"embed", "create"})
      BY <2>3, <3>1 DEF RaceInv
    <3>2. CASE q = p /\ rounds'[p].race <= rounds[p].race + 1
               /\ pc[p] = "create" /\ Found(p) /\ pc'[p] \notin {"embed", "create"}
      <4>1. rounds[p].race = 0 /\ Index(p) = Name(p)
        BY <3>2 DEF RaceInv, Configured
      <4> QED
        BY <2>3, <3>2, <4>1 DEF RaceInv, Found
    <3> QED
      BY <2>4, <2>8, <3>1, <3>2 DEF RaceInv
  <2>10. \A q \in Procs : /\ LoadDotEnv(environ[q])'[NameVar] = Env(q)'[NameVar]
                          /\ pc'[q] \in Configured => Index(q)' = Name(q)
    <3> SUFFICES ASSUME NEW q \in Procs \ {p}
                 PROVE  /\ LoadDotEnv(environ[q])'[NameVar] = Env(q)'[NameVar]
                        /\ pc'[q] \in Configured => Index(q)' = Name(q)
      BY <2>6, <2>7
    <3> QED
      BY <2>1, <2>2, <2>4 DEF LoadDotEnv, RaceInv, Index
  <2> QED
    BY <2>2, <2>3, <2>9, <2>10 DEF RaceInv
<1>2. ASSUME NEW p \in Procs, Restart(p) \/ TryAgain(p) PROVE RaceInv'
  <2>1. /\ UNCHANGED <<yaml, indexes, rounds>>
        /\ \A q \in Procs : pc'[q] \in {"off", "ask", pc[q]}
        /\ \A q \in Procs : pc'[q] \in Configured =>
             pc[q] \in Configured /\ cfg'[q] = cfg[q]
    BY <1>2, OperatorMoves DEF TypeOK, Configured, Restart, TryAgain
  <2>2. /\ dotenv'[NameVar] = dotenv[NameVar]
        /\ \A q \in Procs : exported'[q][NameVar] = exported[q][NameVar]
    BY <1>0, <1>2, OperatorFills
  <2>3. \A q \in Procs : Env(q)'[NameVar] = Env(q)[NameVar]
    BY <1>0, <2>2 DEF Env, LoadDotEnv
  <2>4. \A q \in Procs : Name(q)' = Name(q)
    BY <2>1, <2>3, NameIsInEnv DEF Name
  <2>5. \A q \in Procs : environ'[q] = environ[q] \/ environ'[q] = exported'[q]
    BY <1>2 DEF Restart, TryAgain, EnvInv
  <2>6. \A q \in Procs : LoadDotEnv(environ[q])'[NameVar] = Env(q)'[NameVar]
    BY <1>0, <2>2, <2>3, <2>5 DEF LoadDotEnv, Env, RaceInv
  <2> QED
    BY <2>1, <2>4, <2>6 DEF RaceInv, Index
<1>3. CASE (\E s \in Services : Break(s)) \/ UNCHANGED vars
  <2>1. UNCHANGED <<yaml, dotenv, exported, indexes, local>>
    BY <1>3 DEF Break, vars, world
  <2>2. \A q \in Procs : Name(q)' = Name(q) /\ Env(q)' = Env(q)
                         /\ LoadDotEnv(environ[q])' = LoadDotEnv(environ[q])
    BY <2>1 DEF Env, Name, LoadDotEnv, local
  <2> QED
    BY <2>1, <2>2 DEF local, RaceInv, Index
<1> QED
  BY <1>1, <1>2, <1>3 DEF Next

-----------------------------------------------------------------------------
(* How often services and models are asked for.                            *)

Checks == {"embeddings", "llm", "store"}

\* What the checks look for, as the file has it: no environment has a say.
EmbedsLocally == Or(yaml.embeddings.provider, "ollama") = "ollama"
ChatsLocally == Or(yaml.llm.provider, "ollama") = "ollama"
StoresLocally == Or(yaml.store.provider, "pinecone") = "pinecone" /\ yaml.store.host # Empty
EmbeddingModel == Or(yaml.embeddings.model, "nomic-embed-text")
ChatModel == Or(yaml.llm.model, "llama3.1:8b")

AsInFile(c) ==
  /\ c.embeddings.provider = Or(yaml.embeddings.provider, "ollama")
  /\ c.embeddings.model = EmbeddingModel
  /\ c.llm.provider = Or(yaml.llm.provider, "ollama")
  /\ c.llm.model = ChatModel
  /\ c.store.provider = Or(yaml.store.provider, "pinecone")
  /\ c.store.host = yaml.store.host

\* Does an attempt still look for the service?
OllamaAhead(p) ==
  \/ pc[p] \in {"off", "embeddings"} /\ EmbedsLocally
  \/ pc[p] \in {"off", "embeddings", "llm"} /\ ChatsLocally
StoreAhead(p) == pc[p] \in {"off", "embeddings", "llm", "store"} /\ StoresLocally

Starts(p) == \E s : <<"start", s>> \in problems[p]
Pulls(p) == \E m : <<"pull", m>> \in problems[p]

(* Three things can still make an attempt of p fail for readiness, each of *)
(* them once: a service that the attempt finds down; one that goes down    *)
(* behind its back, for the next attempt to find; and a model.             *)
Down(p) ==
  \/ pc[p] \in Checks /\ Starts(p)
  \/ OllamaAhead(p) /\ "ollama" \notin up
  \/ StoreAhead(p) /\ "pinecone" \notin up

Missed(p) ==
  \/ /\ EmbedsLocally \/ ChatsLocally
     /\ ~OllamaAhead(p) /\ "ollama" \notin up /\ <<"start", "ollama">> \notin problems[p]
  \/ /\ StoresLocally
     /\ ~StoreAhead(p) /\ "pinecone" \notin up /\ <<"start", "pinecone">> \notin problems[p]

Unpulled(p) ==
  \/ pc[p] \in Checks /\ Pulls(p)
  \/ EmbedsLocally /\ EmbeddingModel \notin pulled
       /\ <<"pull", EmbeddingModel>> \notin problems[p]
  \/ ChatsLocally /\ ChatModel \notin pulled /\ <<"pull", ChatModel>> \notin problems[p]

Bit(b) == IF b THEN 1 ELSE 0
Budget(p) ==
  rounds[p].readiness + Bit(Down(p)) + Bit(Missed(p)) + Bit(Unpulled(p)) <= 2 + breaks

\* A model is passed over only where Ollama was found down.
OnlyServices(report) == \A t \in report : \E x : t = <<"start", x>> \/ t = <<"pull", x>>
LookedUp(p) ==
  pc[p] \in Checks =>
    /\ OnlyServices(problems[p])
    /\ pc[p] \in {"llm", "store"} /\ EmbedsLocally =>
         \/ Starts(p)
         \/ EmbeddingModel \in pulled \/ <<"pull", EmbeddingModel>> \in problems[p]
    /\ pc[p] = "store" /\ ChatsLocally =>
         \/ Starts(p)
         \/ ChatModel \in pulled \/ <<"pull", ChatModel>> \in problems[p]

Ready(p) ==
  /\ pc[p] \in Configured => AsInFile(cfg[p])
  /\ pc[p] \in Late \cup {"off", "embeddings"} => problems[p] = {}
  /\ LookedUp(p)
  /\ Budget(p)

\* The file names its models as Ollama lists them, so a pull ends the complaint.
ModelsListed ==
  /\ EmbedsLocally => Tagged[EmbeddingModel] = EmbeddingModel
  /\ ChatsLocally => Tagged[ChatModel] = ChatModel
ReadyInv == ModelsListed => \A p \in Procs : Ready(p)

LEMMA NamesAreModels == NamesListed(yaml) => ModelsListed
BY DEF NamesListed, FromFile, Listed, FromConfig, Model, ModelsListed, EmbedsLocally,
       ChatsLocally, EmbeddingModel, ChatModel

\* What the three checks find.
LEMMA ChecksLookFor ==
  ASSUME NEW p \in Procs, AsInFile(cfg[p])
  PROVE  /\ ModelReadiness(cfg[p].embeddings)
              = IF EmbedsLocally THEN OllamaProblems(EmbeddingModel) ELSE {}
         /\ ModelReadiness(cfg[p].llm)
              = IF ChatsLocally THEN OllamaProblems(ChatModel) ELSE {}
         /\ StoreReadiness(cfg[p].store)
              = IF StoresLocally /\ "pinecone" \notin up THEN {<<"start", "pinecone">>} ELSE {}
BY DEF AsInFile, ModelReadiness, StoreReadiness, EmbedsLocally, ChatsLocally, StoresLocally

LEMMA OllamaFinds ==
  ASSUME NEW model
  PROVE  /\ OnlyServices(OllamaProblems(model))
         /\ \A s : <<"start", s>> \in OllamaProblems(model)
                    <=> s = "ollama" /\ "ollama" \notin up
         /\ \A m : <<"pull", m>> \in OllamaProblems(model)
                    <=> m = model /\ "ollama" \in up /\ model \notin pulled
BY DEF OllamaProblems, OnlyServices

\* A check that is not the last.
LEMMA CheckOn ==
  ASSUME TypeOK, AskInv, NEW p \in Procs, NEW here, NEW next \in {"llm", "store"}, NEW found,
         Check(p, here, next, found)
  PROVE  /\ pc[p] = here /\ pc'[p] = next
         /\ problems'[p] = problems[p] \cup found
         /\ UNCHANGED <<world, environ, fresh, cfg, rounds>>
BY DEF Check, GoTo, TypeOK, AskInv


\* What the budget is made of is what the file, the services and the process say.
LEMMA ReadyIsLocal ==
  ASSUME NEW p, UNCHANGED <<yaml, breaks, pc[p], cfg[p], problems[p], rounds[p]>>,
         up \subseteq up', pulled \subseteq pulled',
         rounds[p].readiness \in Nat, breaks \in Nat, Ready(p)
  PROVE  Ready(p)'
<1>1. /\ Down(p)' => Down(p)
      /\ Missed(p)' => Missed(p)
      /\ Unpulled(p)' => Unpulled(p)
  BY DEF Down, Missed, Unpulled, OllamaAhead, StoreAhead, Starts, Pulls, EmbedsLocally,
         ChatsLocally, StoresLocally, EmbeddingModel, ChatModel
<1>2. Budget(p)'
  BY <1>1 DEF Ready, Budget, Bit
<1>3. LookedUp(p)'
  BY DEF Ready, LookedUp, Starts, EmbedsLocally, ChatsLocally, EmbeddingModel, ChatModel
<1>4. (pc[p] \in Configured => AsInFile(cfg[p]))'
  BY DEF Ready, AsInFile, EmbeddingModel, ChatModel
<1> QED
  BY <1>2, <1>3, <1>4 DEF Ready

LEMMA LoadReady ==
  ASSUME TypeOK, EnvInv, AskInv, NEW p \in Procs, Ready(p), Load(p)
  PROVE  Ready(p)'
<1> DEFINE env == LoadDotEnv(environ[p])
           lacks == MissingSecrets(FromConfig(yaml, env))
<1>1. /\ pc[p] = "off" /\ problems[p] = {}
      /\ UNCHANGED <<yaml, up, pulled, breaks>>
      /\ cfg'[p] = FromConfig(yaml, env)
  BY LoadSteps DEF Ready, world
<1>2. \/ lacks # {} /\ Fail(p, "failed", "secrets", ToSet(lacks))
      \/ /\ \E label \in {"construct", "embeddings"} : GoTo(p, label)
         /\ problems' = [problems EXCEPT ![p] = {}]
         /\ UNCHANGED rounds
  BY LoadSteps
<1>3. /\ \A t \in problems'[p] : t[1] = "set"
      /\ pc'[p] \in {"failed", "construct", "embeddings"}
      /\ pc'[p] # "failed" => problems'[p] = {}
      /\ rounds'[p].readiness = rounds[p].readiness
  <2>1. CASE lacks # {} /\ Fail(p, "failed", "secrets", ToSet(lacks))
    <3>1. pc'[p] = "failed" /\ problems'[p] = ToSet(lacks)
      BY <2>1, FailReports DEF Fail, GoTo, TypeOK, AskInv
    <3>2. rounds'[p].readiness = rounds[p].readiness
      BY <2>1, FailCounts DEF Kinds
    <3> QED
      BY <3>1, <3>2 DEF ToSet
  <2>2. CASE /\ \E label \in {"construct", "embeddings"} : GoTo(p, label)
             /\ problems' = [problems EXCEPT ![p] = {}]
             /\ UNCHANGED rounds
    BY <2>2 DEF GoTo, TypeOK, AskInv
  <2> QED
    BY <1>2, <2>1, <2>2
<1>4. rounds[p].readiness \in Nat /\ breaks \in Nat
  BY DEF TypeOK, Kinds
<1>5. ~Missed(p)
  BY <1>1 DEF Missed, OllamaAhead, StoreAhead
<1>6. Unpulled(p)' => Unpulled(p)
  BY <1>1, <1>3 DEF Unpulled, Pulls, Checks, EmbedsLocally, ChatsLocally,
                    EmbeddingModel, ChatModel
<1>7. Budget(p)'
  <2>1. CASE pc'[p] = "embeddings"
    <3>1. Down(p)' => Down(p)
      BY <1>1, <1>3, <2>1 DEF Down, OllamaAhead, StoreAhead, Starts, Checks,
                              EmbedsLocally, ChatsLocally, StoresLocally
    <3>2. ~Missed(p)'
      BY <1>1, <1>3, <2>1 DEF Missed, OllamaAhead, StoreAhead, EmbedsLocally,
                              ChatsLocally, StoresLocally
    <3> QED
      BY <1>1, <1>3, <1>4, <1>6, <3>1, <3>2 DEF Ready, Budget, Bit
  <2>2. CASE pc'[p] # "embeddings"
    <3>1. ~Down(p)'
      BY <1>1, <1>3, <2>2 DEF Down, OllamaAhead, StoreAhead, Checks
    <3>2. Missed(p)' => Down(p)
      BY <1>1, <1>3 DEF Missed, Down, OllamaAhead, StoreAhead, EmbedsLocally,
                        ChatsLocally, StoresLocally
    <3> QED
      BY <1>1, <1>3, <1>4, <1>5, <1>6, <3>1, <3>2 DEF Ready, Budget, Bit
  <2> QED
    BY <2>1, <2>2
<1>8. AsInFile(cfg[p])'
  BY <1>1 DEF AsInFile, FromConfig, Model, Store, EmbeddingModel, ChatModel
<1>9. LookedUp(p)'
  BY <1>3 DEF LookedUp, OnlyServices, Checks
<1> QED
  BY <1>3, <1>7, <1>8, <1>9 DEF Ready, Late

LEMMA EmbeddingsReady ==
  ASSUME TypeOK, AskInv, NEW p \in Procs, Ready(p), CheckEmbeddings(p)
  PROVE  Ready(p)'
<1> DEFINE found == IF EmbedsLocally THEN OllamaProblems(EmbeddingModel) ELSE {}
<1>1. pc[p] = "embeddings" /\ problems[p] = {} /\ AsInFile(cfg[p])
  BY DEF CheckEmbeddings, Check, Ready, Configured
<1>2. /\ pc'[p] = "llm" /\ problems'[p] = found
      /\ UNCHANGED <<world, cfg, rounds>>
  BY <1>1, CheckOn, ChecksLookFor DEF CheckEmbeddings
<1>3. UNCHANGED <<yaml, up, pulled, breaks>>
  BY <1>2 DEF world
<1>4. rounds[p].readiness \in Nat /\ breaks \in Nat
  BY DEF TypeOK, Kinds
<1>0. /\ OnlyServices(found)
      /\ \A s : <<"start", s>> \in found <=> EmbedsLocally /\ s = "ollama" /\ "ollama" \notin up
      /\ \A m : <<"pull", m>> \in found
                 <=> EmbedsLocally /\ m = EmbeddingModel /\ "ollama" \in up /\ m \notin pulled
  <2>1. CASE EmbedsLocally
    BY <2>1, OllamaFinds
  <2>2. CASE ~EmbedsLocally
    BY <2>2 DEF OnlyServices
  <2> QED
    BY <2>1, <2>2
<1> HIDE DEF found
<1>5. Down(p)' => Down(p)
  BY <1>0, <1>1, <1>2, <1>3
  DEF Down, OllamaAhead, StoreAhead, Starts, Checks, EmbedsLocally,
      ChatsLocally, StoresLocally
<1>6. Missed(p)' => Missed(p)
  BY <1>0, <1>1, <1>2, <1>3
  DEF Missed, OllamaAhead, StoreAhead, EmbedsLocally, ChatsLocally,
      StoresLocally
<1>7. Unpulled(p)' => Unpulled(p)
  BY <1>0, <1>1, <1>2, <1>3
  DEF Unpulled, Pulls, Checks, EmbedsLocally, ChatsLocally,
      EmbeddingModel, ChatModel
<1>8. Budget(p)'
  BY <1>2, <1>3, <1>4, <1>5, <1>6, <1>7 DEF Ready, Budget, Bit
<1>9. LookedUp(p)'
  BY <1>0, <1>1, <1>2, <1>3
  DEF LookedUp, OnlyServices, Starts, EmbedsLocally, EmbeddingModel
<1>10. AsInFile(cfg[p])'
  BY <1>1, <1>2, <1>3 DEF AsInFile, EmbeddingModel, ChatModel
<1> QED
  BY <1>2, <1>8, <1>9, <1>10 DEF Ready, Late

LEMMA LLMReady ==
  ASSUME TypeOK, AskInv, NEW p \in Procs, Ready(p), CheckLLM(p)
  PROVE  Ready(p)'
<1> DEFINE found == IF ChatsLocally THEN OllamaProblems(ChatModel) ELSE {}
<1>1. pc[p] = "llm" /\ AsInFile(cfg[p]) /\ LookedUp(p)
  BY DEF CheckLLM, Check, Ready, Configured
<1>2. /\ pc'[p] = "store" /\ problems'[p] = problems[p] \cup found
      /\ UNCHANGED <<world, cfg, rounds>>
  <2>1. Check(p, "llm", "store", ModelReadiness(cfg[p].llm))
    BY DEF CheckLLM
  <2>2. ModelReadiness(cfg[p].llm) = found
    BY <1>1, ChecksLookFor
  <2> QED
    BY <2>1, <2>2, CheckOn
<1>3. UNCHANGED <<yaml, up, pulled, breaks>>
  BY <1>2 DEF world
<1>4. rounds[p].readiness \in Nat /\ breaks \in Nat
  BY DEF TypeOK, Kinds
<1>0. /\ OnlyServices(found)
      /\ \A s : <<"start", s>> \in found <=> ChatsLocally /\ s = "ollama" /\ "ollama" \notin up
      /\ \A m : <<"pull", m>> \in found
                 <=> ChatsLocally /\ m = ChatModel /\ "ollama" \in up /\ m \notin pulled
  <2>1. CASE ChatsLocally
    BY <2>1, OllamaFinds
  <2>2. CASE ~ChatsLocally
    BY <2>2 DEF OnlyServices
  <2> QED
    BY <2>1, <2>2
<1> HIDE DEF found
<1>5. Down(p)' => Down(p)
  BY <1>0, <1>1, <1>2, <1>3
  DEF Down, OllamaAhead, StoreAhead, Starts, Checks, EmbedsLocally,
      ChatsLocally, StoresLocally
<1>6. Missed(p)' => Missed(p)
  BY <1>0, <1>1, <1>2, <1>3
  DEF Missed, OllamaAhead, StoreAhead, EmbedsLocally, ChatsLocally,
      StoresLocally
<1>7. Unpulled(p)' => Unpulled(p)
  BY <1>0, <1>1, <1>2, <1>3
  DEF Unpulled, Pulls, Checks, EmbedsLocally, ChatsLocally,
      EmbeddingModel, ChatModel
<1>8. Budget(p)'
  BY <1>2, <1>3, <1>4, <1>5, <1>6, <1>7 DEF Ready, Budget, Bit
<1>9. LookedUp(p)'
  BY <1>0, <1>1, <1>2, <1>3
  DEF LookedUp, OnlyServices, Starts, EmbedsLocally, EmbeddingModel,
      ChatsLocally, ChatModel, Checks
<1>10. AsInFile(cfg[p])'
  BY <1>1, <1>2, <1>3 DEF AsInFile, EmbeddingModel, ChatModel
<1> QED
  BY <1>2, <1>8, <1>9, <1>10 DEF Ready, Late

\* The last check raises, with what all of them found.
LEMMA StoreReady ==
  ASSUME TypeOK, AskInv, NEW p \in Procs, Ready(p), CheckStore(p)
  PROVE  Ready(p)'
<1> DEFINE found == IF StoresLocally /\ "pinecone" \notin up
                      THEN {<<"start", "pinecone">>} ELSE {}
           all == problems[p] \cup found
<1>1. pc[p] = "store" /\ AsInFile(cfg[p]) /\ LookedUp(p)
  BY DEF CheckStore, Check, Ready, Configured
<1>2. /\ UNCHANGED <<world, cfg>>
      /\ \/ all # {} /\ Fail(p, "failed", "readiness", all)
         \/ /\ all = {} /\ GoTo(p, "construct") /\ UNCHANGED rounds
            /\ problems' = [problems EXCEPT ![p] = all]
  BY <1>1, ChecksLookFor DEF CheckStore, Check, Raise
<1>3. UNCHANGED <<yaml, up, pulled, breaks>>
  BY <1>2 DEF world
<1>4. /\ rounds[p].readiness \in Nat /\ breaks \in Nat
      /\ rounds'[p].readiness \in Nat
  <2>1. rounds' \in [Procs -> [Kinds -> 0..MaxRounds]]
    BY StepMoves DEF Step, Moved
  <2> QED
    BY <2>1 DEF TypeOK, Kinds
<1>5. problems'[p] = all /\ pc'[p] \in {"failed", "construct"}
  BY <1>2, FailReports DEF Fail, GoTo, TypeOK, AskInv
<1>6. ~Down(p)'
  BY <1>5 DEF Down, OllamaAhead, StoreAhead, Checks
<1>7. Missed(p)' => Missed(p)
  BY <1>1, <1>3, <1>5
  DEF Missed, OllamaAhead, StoreAhead, EmbedsLocally, ChatsLocally, StoresLocally
<1>8. Unpulled(p)' => Unpulled(p)
  BY <1>1, <1>3, <1>5
  DEF Unpulled, Checks, EmbedsLocally, ChatsLocally, EmbeddingModel, ChatModel
<1>9. all # {} => Down(p) \/ (Unpulled(p) /\ ~Unpulled(p)')
  <2> SUFFICES ASSUME all # {}, ~Down(p) PROVE  Unpulled(p) /\ ~Unpulled(p)'
    OBVIOUS
  <2>1. ~Starts(p) /\ found = {}
    BY <1>1 DEF Down, StoreAhead, Checks
  <2>2. Pulls(p)
    BY <1>1, <2>1 DEF LookedUp, OnlyServices, Starts, Pulls, Checks
  <2>3. Unpulled(p)
    BY <1>1, <2>2 DEF Unpulled, Checks
  <2>4. ~Unpulled(p)'
    BY <1>1, <1>3, <1>5, <2>1
    DEF Unpulled, LookedUp, Checks, EmbedsLocally, ChatsLocally, EmbeddingModel, ChatModel
  <2> QED
    BY <2>3, <2>4
<1>10. Budget(p)'
  <2>1. CASE all # {} /\ Fail(p, "failed", "readiness", all)
    <3>1. rounds'[p].readiness <= rounds[p].readiness + 1
      BY <2>1, FailCounts DEF Kinds
    <3>2. CASE Down(p)
      BY <1>3, <1>4, <1>6, <1>7, <1>8, <3>1, <3>2 DEF Ready, Budget, Bit
    <3>3. CASE ~Down(p)
      BY <1>3, <1>4, <1>6, <1>7, <1>9, <2>1, <3>1, <3>3 DEF Ready, Budget, Bit
    <3> QED
      BY <3>2, <3>3
  <2>2. CASE all = {} /\ UNCHANGED rounds
    BY <1>3, <1>4, <1>6, <1>7, <1>8, <2>2 DEF Ready, Budget, Bit
  <2> QED
    BY <1>2, <2>1, <2>2
<1>11. LookedUp(p)'
  BY <1>5 DEF LookedUp, Checks
<1>12. AsInFile(cfg[p])'
  BY <1>1, <1>2, <1>3 DEF AsInFile, EmbeddingModel, ChatModel
<1>13. pc'[p] = "construct" => problems'[p] = {}
  BY <1>2, <1>5 DEF Fail, GoTo, TypeOK
<1> QED
  BY <1>5, <1>10, <1>11, <1>12, <1>13 DEF Ready, Late, Configured

LEMMA LateReady ==
  ASSUME TypeOK, AskInv, NEW p \in Procs, Ready(p), Step(p), ~Load(p),
         pc[p] \notin {"embeddings", "llm", "store"}
  PROVE  Ready(p)'
<1>1. pc[p] \in Late /\ UNCHANGED <<yaml, up, pulled, breaks, cfg>>
  BY LateSteps
<1>2. problems[p] = {} /\ AsInFile(cfg[p])
  BY <1>1 DEF Ready, Late, Configured
<1>3. /\ rounds'[p].readiness = rounds[p].readiness
      /\ pc'[p] \in (Late \ {"construct"}) \cup {"served", "failed", "refused", "unanswered"}
      /\ pc'[p] \in Late => problems'[p] = problems[p]
  <2>1. CASE LateFailure(p)
    <3>1. PICK label, kind, report : /\ Fail(p, label, kind, report)
                                     /\ label \in {"failed", "refused", "unanswered"}
                                     /\ kind # "readiness"
      BY <2>1 DEF LateFailure
    <3> QED
      BY <3>1, FailCounts DEF Fail, GoTo, TypeOK, Kinds, Late
  <2>2. CASE LateProgress(p)
    BY <2>2 DEF LateProgress, Proceed, GoTo, TypeOK, Late
  <2> QED
    BY <2>1, <2>2, LateSteps
<1>4. rounds[p].readiness \in Nat /\ breaks \in Nat
  BY DEF TypeOK, Kinds
<1>5. ~Down(p)'
  BY <1>3 DEF Down, OllamaAhead, StoreAhead, Checks, Late
<1>6. Missed(p)' => Missed(p)
  BY <1>1, <1>2, <1>3 DEF Missed, OllamaAhead, StoreAhead, EmbedsLocally, ChatsLocally,
                          StoresLocally, Late
<1>7. Unpulled(p)' => Unpulled(p)
  BY <1>1, <1>2, <1>3 DEF Unpulled, EmbedsLocally, ChatsLocally, EmbeddingModel,
                          ChatModel, Checks, Late
<1>8. Budget(p)'
  BY <1>1, <1>3, <1>4, <1>5, <1>6, <1>7 DEF Ready, Budget, Bit
<1>9. LookedUp(p)'
  BY <1>3 DEF LookedUp, Checks, Late
<1>10. AsInFile(cfg[p])'
  BY <1>1, <1>2 DEF AsInFile, EmbeddingModel, ChatModel
<1> QED
  BY <1>2, <1>3, <1>8, <1>9, <1>10 DEF Ready, Late

\* A new attempt looks for what the one before did not ask for.
LEMMA OperatorReady ==
  ASSUME TypeOK, AskInv, NEW p \in Procs, Ready(p), Restart(p) \/ TryAgain(p),
         ModelsListed
  PROVE  Ready(p)'
<1>1. /\ pc[p] \in {"failed", "unanswered"} /\ UNCHANGED <<yaml, breaks, rounds>>
      /\ \/ pc'[p] = "off"
         \/ pc'[p] = "ask" /\ pc[p] = "unanswered" /\ UNCHANGED cfg
  BY OperatorMoves DEF TypeOK
<1>2. /\ problems'[p] = {}
      /\ \A s : <<"start", s>> \in problems[p] => s \in up'
      /\ \A m : <<"pull", m>> \in problems[p] => Tagged[m] \in pulled'
      /\ up \subseteq up' /\ pulled \subseteq pulled'
  <2>1. DoWhatIsAsked(p)
    BY DEF Restart, TryAgain
  <2> QED
    BY <2>1 DEF DoWhatIsAsked, Asked, AskInv
<1>3. rounds[p].readiness \in Nat /\ breaks \in Nat
  BY DEF TypeOK, Kinds
<1>4. Unpulled(p)' => Unpulled(p)
  <2>1. pc'[p] \notin Checks
    BY <1>1 DEF Checks
  <2>2. UNCHANGED <<EmbedsLocally, ChatsLocally, EmbeddingModel, ChatModel>>
    BY <1>1 DEF EmbedsLocally, ChatsLocally, EmbeddingModel, ChatModel
  <2>3. ASSUME NEW m, Tagged[m] = m, m \notin pulled', <<"pull", m>> \notin problems'[p]
        PROVE  m \notin pulled /\ <<"pull", m>> \notin problems[p]
    BY <1>2, <2>3
  <2> QED
    BY <2>1, <2>2, <2>3 DEF Unpulled, ModelsListed
<1>5. Down(p)' => Missed(p)
  BY <1>1, <1>2 DEF Down, Missed, Starts, OllamaAhead, StoreAhead, EmbedsLocally,
                    ChatsLocally, StoresLocally, Checks
<1>6. pc'[p] = "ask" => ~Down(p)' /\ (Missed(p)' => Missed(p))
  BY <1>1, <1>2 DEF Down, Missed, Starts, OllamaAhead, StoreAhead, EmbedsLocally,
                    ChatsLocally, StoresLocally, Checks
<1>7. pc'[p] = "off" => ~Missed(p)'
  BY DEF Missed, OllamaAhead, StoreAhead
<1>8. Budget(p)'
  BY <1>1, <1>3, <1>4, <1>5, <1>6, <1>7 DEF Ready, Budget, Bit
<1>9. LookedUp(p)'
  BY <1>1 DEF LookedUp, Checks
<1>10. pc'[p] = "ask" => AsInFile(cfg[p])'
  BY <1>1 DEF Ready, AsInFile, EmbeddingModel, ChatModel, Configured
<1> QED
  BY <1>1, <1>2, <1>8, <1>9, <1>10 DEF Ready, Configured

\* A service that goes down is a service to start once more.
LEMMA BreakReady ==
  ASSUME TypeOK, NEW p \in Procs, Ready(p), NEW s \in Services, Break(s)
  PROVE  Ready(p)'
<1>1. /\ UNCHANGED <<yaml, pulled, pc, cfg, problems, rounds>>
      /\ breaks' = breaks + 1 /\ up' = up \ {s} /\ s \in {"ollama", "pinecone"}
  BY DEF Break, local, Services
<1>2. rounds[p].readiness \in Nat /\ breaks \in Nat
  BY DEF TypeOK, Kinds
<1>3. Unpulled(p)' => Unpulled(p)
  BY <1>1 DEF Unpulled, Pulls, EmbedsLocally, ChatsLocally, EmbeddingModel, ChatModel
<1>4. Budget(p)' => Ready(p)'
  BY <1>1 DEF Ready, LookedUp, AsInFile, Starts, EmbedsLocally, ChatsLocally,
              EmbeddingModel, ChatModel
<1>5. Budget(p)'
  <2>1. CASE (s = "ollama" /\ OllamaAhead(p)) \/ (s = "pinecone" /\ StoreAhead(p))
    <3>1. Missed(p)' => Missed(p)
      BY <1>1, <2>1 DEF Missed, OllamaAhead, StoreAhead, EmbedsLocally, ChatsLocally,
                        StoresLocally
    <3> QED
      BY <1>1, <1>2, <1>3, <3>1 DEF Ready, Budget, Bit
  <2>2. CASE ~ ((s = "ollama" /\ OllamaAhead(p)) \/ (s = "pinecone" /\ StoreAhead(p)))
    <3>1. Down(p)' => Down(p)
      BY <1>1, <2>2 DEF Down, Starts, OllamaAhead, StoreAhead, EmbedsLocally,
                        ChatsLocally, StoresLocally
    <3> QED
      BY <1>1, <1>2, <1>3, <3>1 DEF Ready, Budget, Bit
  <2> QED
    BY <2>1, <2>2
<1> QED
  BY <1>4, <1>5

LEMMA ReadySteps == TypeOK /\ EnvInv /\ AskInv /\ ReadyInv /\ [Next]_vars => ReadyInv'
<1>a. TypeOK /\ [Next]_vars => UNCHANGED yaml
  BY StepMoves, OperatorMoves DEF Next, Break, vars, world
<1> SUFFICES ASSUME TypeOK, EnvInv, AskInv, ReadyInv, [Next]_vars, ModelsListed,
                    NEW q \in Procs
             PROVE  Ready(q)'
  BY <1>a DEF ReadyInv, ModelsListed, EmbedsLocally, ChatsLocally, EmbeddingModel, ChatModel
<1>0. Ready(q) /\ rounds[q].readiness \in Nat /\ breaks \in Nat
  BY DEF ReadyInv, TypeOK, Kinds
<1>1. ASSUME NEW p \in Procs, Step(p) PROVE Ready(q)'
  <2>1. CASE q = p
    <3>1. CASE Load(p)
      BY <1>0, <2>1, <3>1, LoadReady
    <3>2. CASE ~Load(p) /\ pc[p] \in {"embeddings", "llm", "store"}
      BY <1>0, <1>1, <2>1, <3>2, CheckSteps, EmbeddingsReady, LLMReady, StoreReady
    <3>3. CASE ~Load(p) /\ pc[p] \notin {"embeddings", "llm", "store"}
      BY <1>0, <1>1, <2>1, <3>3, LateReady
    <3> QED
      BY <3>1, <3>2, <3>3
  <2>2. CASE q # p
    <3>1. UNCHANGED <<yaml, breaks, pc[q], cfg[q]>>
      BY <1>1, <2>2, StepMoves, ConfigSteps DEF Moved
    <3>2. UNCHANGED <<up, pulled, problems[q], rounds[q]>>
      <4>1. ASSUME NEW label, NEW kind, NEW report, Fail(p, label, kind, report)
            PROVE  UNCHANGED <<problems[q], rounds[q]>>
        <5>1. problems'[q] = problems[q]
          BY <2>2, <4>1, FailReports DEF AskInv
        <5>2. rounds'[q] = rounds[q]
          BY <2>2, <4>1 DEF Fail, TypeOK
        <5> QED
          BY <5>1, <5>2
      <4>2. ASSUME NEW report, problems' = [problems EXCEPT ![p] = report]
            PROVE  problems'[q] = problems[q]
        BY <2>2, <4>2 DEF AskInv
      <4>3. CASE Load(p)
        BY <4>1, <4>2, <4>3, LoadSteps DEF world
      <4>4. CASE ~Load(p) /\ pc[p] \in {"embeddings", "llm", "store"}
        BY <1>1, <4>1, <4>2, <4>4, CheckSteps DEF world
      <4>5. CASE ~Load(p) /\ pc[p] \notin {"embeddings", "llm", "store"}
        BY <1>1, <4>1, <4>5, LateSteps DEF LateFailure, LateProgress, Proceed
      <4> QED
        BY <4>3, <4>4, <4>5
    <3> QED
      BY <1>0, <3>1, <3>2, ReadyIsLocal
  <2> QED
    BY <2>1, <2>2
<1>2. ASSUME NEW p \in Procs, Restart(p) \/ TryAgain(p) PROVE Ready(q)'
  <2>1. CASE q = p
    BY <1>0, <1>2, <2>1, OperatorReady
  <2>2. CASE q # p
    <3>1. DoWhatIsAsked(p)
      BY <1>2 DEF Restart, TryAgain
    <3>2. UNCHANGED <<yaml, breaks, rounds, problems[q]>> /\ up \subseteq up' /\ pulled \subseteq pulled'
      BY <2>2, <3>1 DEF DoWhatIsAsked, AskInv
    <3>3. UNCHANGED <<pc[q], cfg[q]>>
      BY <1>2, <2>2 DEF Restart, TryAgain, GoTo, TypeOK
    <3> QED
      BY <1>0, <3>2, <3>3, ReadyIsLocal
  <2> QED
    BY <2>1, <2>2
<1>3. ASSUME NEW s \in Services, Break(s) PROVE Ready(q)'
  BY <1>0, <1>3, BreakReady
<1>4. CASE UNCHANGED vars
  BY <1>0, <1>4, ReadyIsLocal DEF vars, world, local
<1> QED
  BY <1>1, <1>2, <1>3, <1>4 DEF Next

(* Fixes come in few rounds: with all the environments, files and services *)
(* there may be, a new process is told of missing secrets once, it loses   *)
(* the creation of its index at most once, and if the file names its local *)
(* models as Ollama lists them, it is told of services and models at most  *)
(* twice and once more for each service that went down                     *)
(* (config/root.py:60, readiness.py:53, pinecone_store.py:196).            *)
THEOREM FixesAreFew == Spec => []RoundsOfFixes
<1> DEFINE Inv == EnvInv /\ AskInv /\ SecretsInv /\ RaceInv /\ ReadyInv
<1>1. Init => Inv
  <2> SUFFICES ASSUME Init PROVE Inv
    OBVIOUS
  <2>0. /\ \A p \in Procs : pc[p] = "off" /\ problems[p] = {} /\ fresh[p]
        /\ \A p \in Procs : \A k \in Kinds : rounds[p][k] = 0
        /\ environ = exported /\ breaks = 0
        /\ DOMAIN problems = Procs /\ DOMAIN exported = Procs
    BY DEF Init
  <2>1. /\ \A p \in Procs : exported[p] \in Exports[p]
        /\ dotenv \in DotEnvs /\ yaml \in Yamls
    BY DEF Init
  <2>2. EnvInv
    BY <2>0, <2>1, ValueAssumption DEF EnvInv
  <2>3. AskInv
    BY <2>0 DEF AskInv, KeysOnly
  <2>4. SecretsInv
    BY <2>0, <2>1, ValueAssumption DEF SecretsInv, Kinds
  <2>5. RaceInv
    <3>1. \A n \in Indexes : DOMAIN indexes[n] = {"metric", "dim", "written"}
      <4> SUFFICES ASSUME NEW n \in Indexes
                   PROVE  DOMAIN indexes[n] = {"metric", "dim", "written"}
        OBVIOUS
      <4>1. indexes[n] = NoIndex \/ indexes[n] \in IndexInfo
        BY StartUpAssumption DEF Init
      <4> QED
        BY <4>1 DEF NoIndex, IndexInfo
    <3>2. ASSUME NEW p \in Procs PROVE Name(p) \in Indexes
      <4>1. NameVar \in Vars
        BY DEF NameVar, Vars
      <4>2. Env(p)[NameVar] \in {dotenv[NameVar], exported[p][NameVar]}
        BY <4>1 DEF Env, LoadDotEnv
      <4>3. Env(p)[NameVar] \in Indexes \cup {Empty, "Unset"}
        BY <2>1, <4>2, NameAssumption DEF NameVar
      <4> QED
        BY <2>1, <4>3, NameAssumption DEF Name, IndexName, Get, Or, NameVar
    <3> QED
      BY <2>0, <3>1, <3>2 DEF RaceInv, Configured, Kinds, Env
  <2>6. ReadyInv
    <3> SUFFICES ASSUME NEW p \in Procs PROVE Ready(p)
      BY DEF ReadyInv
    <3>1. ~Missed(p)
      BY <2>0 DEF Missed, OllamaAhead, StoreAhead
    <3>2. Budget(p)
      BY <2>0, <3>1 DEF Budget, Bit, Kinds
    <3> QED
      BY <2>0, <3>2 DEF Ready, Configured, LookedUp, Checks
  <2> QED
    BY <2>2, <2>3, <2>4, <2>5, <2>6
<1>2. TypeOK /\ Inv /\ [Next]_vars => Inv'
  BY EnvSteps, AskSteps, SecretsSteps, RaceSteps, ReadySteps
<1>3. TypeOK /\ Inv => RoundsOfFixes
  <2> SUFFICES ASSUME TypeOK, Inv, NEW p \in Procs
               PROVE  /\ rounds[p].secrets <= 1 /\ rounds[p].race <= 1
                      /\ NamesListed(yaml) => rounds[p].readiness <= 2 + breaks
    BY DEF RoundsOfFixes
  <2>1. rounds[p].readiness \in Nat /\ breaks \in Nat
    BY DEF TypeOK, Kinds
  <2>2. NamesListed(yaml) => Budget(p)
    BY NamesAreModels DEF ReadyInv, Ready
  <2>3. NamesListed(yaml) => rounds[p].readiness <= 2 + breaks
    BY <2>1, <2>2 DEF Budget, Bit
  <2> QED
    BY <2>3 DEF SecretsInv, RaceInv
<1> QED
  BY <1>1, <1>2, <1>3, TypeCorrect, PTL DEF Spec
=============================================================================
