------------------------ MODULE RetrievalBenchProofs ------------------------
(***************************************************************************)
(* Theorems about RetrievalBench, for any number of sweeps and reports over*)
(* one cache, any pipelines, models and corpora.                           *)
(*                                                                         *)
(* That a matrix read from the disk belongs to the reader's corpus rests   *)
(* on what both files hold whenever both are whole (FilesInv), on what a   *)
(* process knows of them between its own steps (MissInv, WroteInv, HitInv),*)
(* and on one order per text among those at work (OneOrder), which is the  *)
(* bound of Republish.  A report keeps the latest of what it has read so   *)
(* far, and time stamps are of one run each (ReportInv, StampInv).         *)
(*                                                                         *)
(* That caches change no ranking rests on two facts: whatever of a         *)
(* pipeline is not built is still to be called (BuildInv), and searches    *)
(* over indexes with the same leaves below a node are the same, by         *)
(* induction over the nesting (SameSearch).  Along the nesting, too, a     *)
(* search delivers what it is asked for or all it can reach                *)
(* (SearchDelivers), as sorts lose nothing (SortedRanking) and a fusion    *)
(* sees all that one of its lists has (SeenRanking).                       *)
(***************************************************************************)
EXTENDS RetrievalBench, FiniteSetTheorems, SequenceTheorems, TLAPS

Calls == Seq([node : Node, built : BOOLEAN])

Works(p) == pc[p] \notin {"idle", "read runs"}

\* Who is at work has a corpus and a model; who is not has no leaves.
StageInv(p) ==
  /\ Works(p) => own[p] \in AllCorpora /\ model[p] \in Model
  /\ ~Works(p) => own[p] = Null /\ DOMAIN index[p] = {}

OneOrder ==
  /\ \A p, q \in Process :
       own[p] # Null /\ own[q] # Null /\ own[p].text = own[q].text => own[p].ids = own[q].ids
  /\ \A p \in Process, d \in Dataset :
       own[p] # Null /\ own[p].text = corpus[d].text => own[p].ids = corpus[d].ids

FilesInv ==
  \A m \in Model, t \in Digest :
    /\ docIds[m][t].state # "none" => vectors[m][t].state # "none"
    /\ docIds[m][t].state = "whole" /\ vectors[m][t].state = "whole"
         => vectors[m][t].content = Embedded(m, [ids |-> docIds[m][t].content, text |-> t])

Missed == {"embed", "open rows", "write rows", "open ids", "write ids"}
Wrote == {"open ids", "write ids"}

\* Doc ids that appear after a miss were written by somebody at work since.
MissInv(p) ==
  pc[p] \in Missed /\ DocIds(p).state = "whole" => DocIds(p).content = own[p].ids

WroteInv(p) ==
  pc[p] \in Wrote =>
    /\ Vectors(p).state # "none"
    /\ Vectors(p).state = "whole" => Vectors(p).content = Embedded(model[p], own[p])

HitInv(p) ==
  pc[p] = "read rows" /\ Verified(p) /\ Vectors(p).state = "whole"
    => Vectors(p).content = Embedded(model[p], own[p])

AlignedInv(p) ==
  \A n \in Node :
    Tree[n].type = "dense" /\ Tree[n].key \in DOMAIN index[p]
      => index[p][Tree[n].key] = Leaf(own[p], Embedded(model[p], own[p]))

ProcessInv(p) ==
  StageInv(p) /\ MissInv(p) /\ WroteInv(p) /\ HitInv(p) /\ AlignedInv(p)

CacheInv == OneOrder /\ FilesInv /\ \A p \in Process : ProcessInv(p)

IInv == SweepTypeOK /\ CacheInv

-----------------------------------------------------------------------------
(* Corpora                                                                 *)

LEMMA CorpusRecord ==
  ASSUME NEW c \in AllCorpora
  PROVE  /\ c.ids \in Seq(Doc) /\ DOMAIN c.ids = 1 .. Len(c.ids)
         /\ c = [ids |-> c.ids, text |-> c.text]
         /\ \A i \in DOMAIN c.ids : c.text[c.ids[i]] \in Text
         /\ c.text \in Digest
<1>1. c \in Corpus /\ DOMAIN c.text = {c.ids[i] : i \in DOMAIN c.ids}
  BY CorporaAssumption DEF AllCorpora
<1>2. PICK D \in SUBSET Doc : c.text \in [D -> Text]
  BY <1>1 DEF Corpus
<1>3. \A i \in DOMAIN c.ids : c.ids[i] \in D
  BY <1>1, <1>2
<1> QED BY <1>1, <1>2, <1>3 DEF Corpus, Digest

LEMMA SameCorpus ==
  ASSUME NEW b \in AllCorpora, NEW c \in AllCorpora, b.text = c.text, b.ids = c.ids
  PROVE  b = c
  BY CorpusRecord

LEMMA EmbeddedType ==
  ASSUME NEW m \in Model, NEW c \in AllCorpora
  PROVE  /\ Embedded(m, c) \in Seq(Row)
         /\ Embedded(m, c) = Embedded(m, [ids |-> c.ids, text |-> c.text])
<1>1. \A i \in DOMAIN c.ids : [model |-> m, text |-> c.text[c.ids[i]]] \in Row
  BY CorpusRecord DEF Row
<1>2. Embedded(m, c) \in [1 .. Len(c.ids) -> Row] /\ Len(c.ids) \in Nat
  BY <1>1, CorpusRecord DEF Embedded
<1>3. Embedded(m, c) \in Seq(Row)
  BY <1>2
<1>4. Embedded(m, c) = Embedded(m, [ids |-> c.ids, text |-> c.text])
  BY CorpusRecord
<1> QED BY <1>3, <1>4

LEMMA FileTypes ==
  /\ \A S : NoFile \in File(S) /\ Torn \in File(S)
  /\ \A S : \A s \in Seq(S) : Whole(s) \in File(S)
  BY DEF File, NoFile, Torn, Whole

LEMMA FileCases ==
  ASSUME NEW s, NEW file, file = Torn \/ file = Whole(s)
  PROVE  file.state # "none" /\ (file.state = "whole" => file.content = s)
  BY DEF Torn, Whole

LEMMA CallTypes ==
  /\ \A n \in Node : Call(n) \in [node : Node, built : BOOLEAN]
  /\ \A n \in Node : <<Call(n)>> \in Calls
  BY DEF Call, Calls

LEMMA EntryTypes ==
  ASSUME NEW n \in Node
  PROVE  /\ Tree[n].type \in {"bm25", "dense", "rrf", "rerank"}
         /\ Tree[n].type = "rrf" => Tree[n].retrievers \in Seq(Node)
         /\ Tree[n].type = "rerank" => Tree[n].inner \in Node
  BY TreeAssumption DEF Entry

LEMMA CalledType ==
  ASSUME SweepTypeOK, NEW p \in Process, calls[p] # <<>>
  PROVE  /\ Head(calls[p]) \in [node : Node, built : BOOLEAN]
         /\ Head(calls[p]).node \in Node
         /\ Tail(calls[p]) \in Calls
<1> DEFINE R == [node : Node, built : BOOLEAN]
<1>1. calls[p] \in Seq(R)
  BY DEF SweepTypeOK
<1>2. Head(calls[p]) \in R => Head(calls[p]).node \in Node
  OBVIOUS
<1> HIDE DEF R
<1>3. Head(calls[p]) \in R /\ Tail(calls[p]) \in Seq(R)
  BY <1>1
<1> QED BY <1>2, <1>3 DEF R, Calls

-----------------------------------------------------------------------------
(* Types                                                                   *)

LEMMA InitType == Init => SweepTypeOK
<1> SUFFICES ASSUME Init PROVE SweepTypeOK
  OBVIOUS
<1>1. corpus \in [Dataset -> AllCorpora] /\ \A d \in Dataset : corpus[d] \in Corpora[d]
  BY DEF Init
<1>2. /\ vectors \in [Model -> [Digest -> File(Row)]]
      /\ docIds \in [Model -> [Digest -> File(Doc)]]
  BY FileTypes DEF Init
<1> QED BY <1>1, <1>2 DEF Init, SweepTypeOK, Stage, Loading

LEMMA ExitType ==
  ASSUME SweepTypeOK, NEW p \in Process, Exit(p), UNCHANGED world
  PROVE  SweepTypeOK'
<1>1. UNCHANGED <<corpus, vectors, docIds>>
  BY DEF world, cache
<1>2. /\ pc' \in [Process -> Stage]
      /\ model' \in [Process -> Model \cup {Null}]
      /\ own' \in [Process -> AllCorpora \cup {Null}]
  BY DEF SweepTypeOK, Exit, GoTo, Stage
<1>3. \A S : <<>> \in Seq(S)
  OBVIOUS
<1>5. /\ ids' = [ids EXCEPT ![p] = <<>>]
      /\ calls' = [calls EXCEPT ![p] = <<>>]
  BY DEF Exit
<1>6. ids' \in [Process -> Seq(Doc)]
  BY <1>3, <1>5 DEF SweepTypeOK
<1>8. calls' \in [Process -> Calls]
  BY <1>3, <1>5 DEF SweepTypeOK, Calls
<1>4. DOMAIN index' = Process
  BY DEF SweepTypeOK, Exit
<1>9. \A q \in Process : pc'[q] \in Loading => calls'[q] # <<>>
  BY <1>5 DEF SweepTypeOK, Exit, GoTo, Loading
<1> QED BY <1>1, <1>2, <1>4, <1>6, <1>8, <1>9 DEF SweepTypeOK, Calls

LEMMA KeepLeafType ==
  ASSUME SweepTypeOK, NEW p \in Process, calls[p] # <<>>, NEW rows, KeepLeaf(p, rows)
  PROVE  /\ pc' \in [Process -> Stage]
         /\ calls' \in [Process -> Calls]
         /\ DOMAIN index' = Process
         /\ \A q \in Process : pc'[q] \in Loading => calls'[q] # <<>>
  BY CalledType DEF SweepTypeOK, KeepLeaf, GoTo, Stage, Loading, Calls

LEMMA PushCalls ==
  ASSUME SweepTypeOK, NEW p \in Process, NEW s \in Calls, calls' = [calls EXCEPT ![p] = s]
  PROVE  /\ calls' \in [Process -> Calls]
         /\ pc[p] = "build" /\ UNCHANGED pc
              => \A q \in Process : pc'[q] \in Loading => calls'[q] # <<>>
  BY DEF SweepTypeOK, Calls, Loading

LEMMA NextExperimentType ==
  ASSUME SweepTypeOK, NEW p \in Process, NextExperiment(p)
  PROVE  SweepTypeOK'
<1>1. CASE Raise(p)
  BY <1>1, ExitType DEF Raise
<1>2. CASE /\ Head(todo[p]) \in Experiment
           /\ calls' = [calls EXCEPT ![p] = <<Call(Pipeline[Head(todo[p])])>>]
           /\ GoTo(p, "build")
           /\ UNCHANGED <<world, job, index, ids>>
  <2>1. calls' \in [Process -> Calls]
    BY <1>2, PushCalls, CallTypes, PipelineAssumption
  <2>2. UNCHANGED <<corpus, vectors, docIds, model, own, index, ids>>
    BY <1>2 DEF world, cache, job
  <2>3. pc' \in [Process -> Stage]
    BY <1>2 DEF SweepTypeOK, GoTo, Stage
  <2>4. \A q \in Process : pc'[q] \in Loading => calls'[q] # <<>>
    BY <1>2 DEF SweepTypeOK, GoTo, Loading
  <2> QED BY <2>1, <2>2, <2>3, <2>4 DEF SweepTypeOK, Calls
<1> QED BY <1>1, <1>2 DEF NextExperiment

LEMMA BuildFusionType ==
  ASSUME SweepTypeOK, NEW p \in Process, BuildFusion(p)
  PROVE  SweepTypeOK'
<1> DEFINE children == [i \in DOMAIN Called(p).retrievers |-> Call(Called(p).retrievers[i])]
<1>1. Tail(calls[p]) \in Calls /\ Called(p).retrievers \in Seq(Node)
  BY CalledType, EntryTypes DEF BuildFusion, Building, Called
<1>2. children \in Calls
  <2>1. \A i \in DOMAIN Called(p).retrievers :
          Call(Called(p).retrievers[i]) \in [node : Node, built : BOOLEAN]
    BY <1>1, CallTypes
  <2>2. DOMAIN Called(p).retrievers = 1 .. Len(Called(p).retrievers)
        /\ Len(Called(p).retrievers) \in Nat
    BY <1>1
  <2> DEFINE R == [node : Node, built : BOOLEAN]
  <2> HIDE DEF R
  <2>3. \A n \in Nat : \A f \in [1 .. n -> R] : f \in Seq(R)
    OBVIOUS
  <2>4. children \in [1 .. Len(Called(p).retrievers) -> R]
    BY <2>1, <2>2 DEF R
  <2> QED BY <2>2, <2>3, <2>4 DEF R, Calls
<1> HIDE DEF children
<1>3. children \o Tail(calls[p]) \in Calls
  BY <1>1, <1>2 DEF Calls
<1>4. calls' = [calls EXCEPT ![p] = children \o Tail(calls[p])]
  BY DEF BuildFusion, children
<1>5. UNCHANGED <<corpus, vectors, docIds, pc, model, own, index, ids>>
  BY DEF BuildFusion, world, cache, job
<1>6. pc[p] = "build"
  BY DEF BuildFusion, Building
<1> QED BY <1>3, <1>4, <1>5, <1>6, PushCalls DEF SweepTypeOK, Calls

LEMMA BuildRerankerType ==
  ASSUME SweepTypeOK, NEW p \in Process, BuildReranker(p)
  PROVE  SweepTypeOK'
<1> DEFINE top == Head(calls[p])
<1>1. /\ top \in [node : Node, built : BOOLEAN] /\ Tail(calls[p]) \in Calls
      /\ Called(p).inner \in Node /\ pc[p] = "build"
  BY CalledType, EntryTypes DEF BuildReranker, Building, Called
<1>2. CASE Raise(p)
  BY <1>2, ExitType DEF Raise
<1>3. CASE /\ calls' = [calls EXCEPT ![p] =
                <<Call(Called(p).inner), [top EXCEPT !.built = TRUE]>> \o Tail(calls[p])]
           /\ UNCHANGED <<world, pc, job, index, ids>>
  <2>1. <<Call(Called(p).inner), [top EXCEPT !.built = TRUE]>> \in Calls
    <3> DEFINE R == [node : Node, built : BOOLEAN]
    <3>1. [top EXCEPT !.built = TRUE] \in R /\ Call(Called(p).inner) \in R
      BY <1>1, CallTypes
    <3> HIDE DEF R
    <3> QED BY <3>1 DEF R, Calls
  <2>2. <<Call(Called(p).inner), [top EXCEPT !.built = TRUE]>> \o Tail(calls[p]) \in Calls
    BY <1>1, <2>1 DEF Calls
  <2>3. UNCHANGED <<corpus, vectors, docIds, pc, model, own, index, ids>>
    BY <1>3 DEF world, cache, job
  <2> QED BY <1>1, <1>3, <2>2, <2>3, PushCalls DEF SweepTypeOK, Calls
<1>4. CASE /\ calls' = [calls EXCEPT ![p] = Tail(calls[p])]
           /\ UNCHANGED <<world, pc, job, index, ids>>
  <2>1. UNCHANGED <<corpus, vectors, docIds, pc, model, own, index, ids>>
    BY <1>4 DEF world, cache, job
  <2> QED BY <1>1, <1>4, <2>1, PushCalls DEF SweepTypeOK, Calls
<1> QED BY <1>2, <1>3, <1>4 DEF BuildReranker

\* A step that only moves p.
LEMMA MoveType ==
  ASSUME SweepTypeOK, NEW p \in Process, NEW s \in Stage, GoTo(p, s),
         UNCHANGED <<corpus, cache, job, calls, index, ids>>,
         s \in Loading => calls[p] # <<>>
  PROVE  SweepTypeOK'
<1>1. UNCHANGED <<corpus, vectors, docIds, model, own, calls, index, ids>>
  BY DEF cache, job
<1>2. pc' \in [Process -> Stage]
      /\ \A q \in Process : pc'[q] \in Loading => calls'[q] # <<>>
  BY <1>1 DEF SweepTypeOK, GoTo
<1> QED BY <1>1, <1>2 DEF SweepTypeOK

LEMMA StartType ==
  ASSUME SweepTypeOK, NEW p \in Process, StartSweep(p) \/ StartReport(p)
  PROVE  SweepTypeOK'
<1>1. CASE StartSweep(p)
  <2>1. PICK d \in Dataset, m \in Model, experiments \in Sweeps :
          /\ model' = [model EXCEPT ![p] = m]
          /\ own' = [own EXCEPT ![p] = corpus[d]]
    BY <1>1 DEF StartSweep
  <2>2. /\ model' \in [Process -> Model \cup {Null}]
        /\ own' \in [Process -> AllCorpora \cup {Null}]
    BY <2>1 DEF SweepTypeOK
  <2>3. UNCHANGED <<corpus, vectors, docIds, calls, index, ids>>
    BY <1>1 DEF StartSweep, cache, building
  <2>4. pc' \in [Process -> Stage]
        /\ \A q \in Process : pc'[q] \in Loading => calls'[q] # <<>>
    BY <1>1, <2>3 DEF SweepTypeOK, StartSweep, GoTo, Stage, Loading
  <2> QED BY <2>2, <2>3, <2>4 DEF SweepTypeOK
<1>2. CASE StartReport(p)
  <2>1. UNCHANGED <<corpus, vectors, docIds, model, own, calls, index, ids>>
    BY <1>2 DEF StartReport, world, cache, building
  <2>2. pc' \in [Process -> Stage]
        /\ \A q \in Process : pc'[q] \in Loading => calls'[q] # <<>>
    BY <1>2, <2>1 DEF SweepTypeOK, StartReport, GoTo, Stage, Loading
  <2> QED BY <2>1, <2>2 DEF SweepTypeOK
<1> QED BY <1>1, <1>2

LEMMA LeafType ==
  ASSUME SweepTypeOK, NEW p \in Process, ReuseLeaf(p) \/ BuildBM25(p) \/ BuildDense(p)
  PROVE  SweepTypeOK'
<1>1. calls[p] # <<>> /\ pc[p] = "build"
  BY DEF ReuseLeaf, BuildBM25, BuildDense, Building
<1>2. Tail(calls[p]) \in Calls
  BY <1>1, CalledType
<1>3. CASE ReuseLeaf(p)
  <2>1. UNCHANGED <<corpus, vectors, docIds, pc, model, own, index, ids>>
    BY <1>3 DEF ReuseLeaf, world, cache, job
  <2>2. calls' = [calls EXCEPT ![p] = Tail(calls[p])]
    BY <1>3 DEF ReuseLeaf
  <2> QED BY <1>1, <1>2, <2>1, <2>2, PushCalls DEF SweepTypeOK, Calls
<1>4. CASE BuildBM25(p)
  <2>1. UNCHANGED <<corpus, vectors, docIds, model, own, ids>>
    BY <1>4 DEF BuildBM25, world, cache, job
  <2> QED BY <1>1, <1>4, <2>1, KeepLeafType DEF BuildBM25, SweepTypeOK, Calls
<1>5. CASE BuildDense(p)
  <2>1. UNCHANGED <<corpus, cache, job, calls, index, ids>>
    BY <1>5 DEF BuildDense, world, building
  <2>2. GoTo(p, "embed") \/ GoTo(p, "read ids")
    BY <1>5 DEF BuildDense
  <2> QED BY <1>1, <2>1, <2>2, MoveType DEF Stage, Loading
<1> QED BY <1>3, <1>4, <1>5

LEMMA ReadType ==
  ASSUME SweepTypeOK, NEW p \in Process, own[p] \in AllCorpora, model[p] \in Model,
         ReadIds(p) \/ ReadRows(p) \/ Embed(p)
  PROVE  SweepTypeOK'
<1>1. CASE Raise(p)
  BY <1>1, ExitType DEF Raise
<1>2. CASE ReadIds(p) /\ ~Raise(p)
  <2>1. UNCHANGED <<corpus, vectors, docIds, model, own, calls, index>>
    BY <1>2 DEF ReadIds, world, cache, job, building
  <2>2. DocIds(p).content \in Seq(Doc)
    BY CorpusRecord DEF SweepTypeOK, DocIds, CorpusHash, File
  <2>3. ids' \in [Process -> Seq(Doc)]
    BY <1>2, <2>2 DEF ReadIds, SweepTypeOK
  <2>4. pc' \in [Process -> Stage]
        /\ \A q \in Process : pc'[q] \in Loading => calls'[q] # <<>>
    BY <1>2, <2>1 DEF ReadIds, SweepTypeOK, GoTo, Stage, Loading
  <2> QED BY <2>1, <2>3, <2>4 DEF SweepTypeOK
<1>3. CASE ReadRows(p) /\ ~Raise(p)
  <2>1. calls[p] # <<>> /\ KeepLeaf(p, Vectors(p).content)
    BY <1>3 DEF ReadRows, SweepTypeOK, Loading
  <2>2. UNCHANGED <<corpus, vectors, docIds, model, own>>
    BY <1>3 DEF ReadRows, world, cache, job
  <2>3. ids' = [ids EXCEPT ![p] = <<>>]
    BY <1>3 DEF ReadRows
  <2>5. <<>> \in Seq(Doc)
    OBVIOUS
  <2>4. ids' \in [Process -> Seq(Doc)]
    BY <2>3, <2>5 DEF SweepTypeOK
  <2> QED BY <2>1, <2>2, <2>4, KeepLeafType DEF SweepTypeOK, Calls
<1>4. CASE Embed(p) /\ ~Raise(p)
  <2>1. UNCHANGED <<corpus, cache, job, calls, index, ids>> /\ calls[p] # <<>>
    BY <1>4 DEF Embed, world, building, SweepTypeOK, Loading
  <2> QED BY <1>4, <2>1, MoveType DEF Embed, Stage, Loading
<1> QED BY <1>1, <1>2, <1>3, <1>4

LEMMA SaveType ==
  ASSUME SweepTypeOK, NEW p \in Process, own[p] \in AllCorpora, model[p] \in Model,
         OpenRows(p) \/ WriteRows(p) \/ OpenIds(p) \/ WriteIds(p)
  PROVE  SweepTypeOK'
<1>1. CorpusHash(own[p]) \in Digest
  BY CorpusRecord DEF CorpusHash
<1>2. /\ Torn \in File(Row) /\ Torn \in File(Doc)
      /\ Whole(Embedded(model[p], own[p])) \in File(Row) /\ Whole(own[p].ids) \in File(Doc)
  BY FileTypes, EmbeddedType, CorpusRecord
<1>3. \A file \in File(Row) :
        PutVectors(p, file) => vectors' \in [Model -> [Digest -> File(Row)]]
  BY <1>1 DEF SweepTypeOK, PutVectors
<1>4. \A file \in File(Doc) :
        PutDocIds(p, file) => docIds' \in [Model -> [Digest -> File(Doc)]]
  BY <1>1 DEF SweepTypeOK, PutDocIds
<1>5. calls[p] # <<>>
  BY DEF SweepTypeOK, OpenRows, WriteRows, OpenIds, WriteIds, Loading
<1>6. CASE OpenRows(p) \/ WriteRows(p)
  <2>1. vectors' \in [Model -> [Digest -> File(Row)]]
    BY <1>2, <1>3, <1>6 DEF OpenRows, WriteRows
  <2>2. UNCHANGED <<corpus, docIds, model, own, calls, index, ids>>
    BY <1>6 DEF OpenRows, WriteRows, job, building
  <2>3. pc' \in [Process -> Stage]
        /\ \A q \in Process : pc'[q] \in Loading => calls'[q] # <<>>
    BY <1>5, <1>6, <2>2 DEF OpenRows, WriteRows, SweepTypeOK, GoTo, Stage, Loading
  <2> QED BY <2>1, <2>2, <2>3 DEF SweepTypeOK
<1>7. CASE OpenIds(p)
  <2>1. docIds' \in [Model -> [Digest -> File(Doc)]]
    BY <1>2, <1>4, <1>7 DEF OpenIds
  <2>2. UNCHANGED <<corpus, vectors, model, own, calls, index, ids>>
    BY <1>7 DEF OpenIds, job, building
  <2>3. pc' \in [Process -> Stage]
        /\ \A q \in Process : pc'[q] \in Loading => calls'[q] # <<>>
    BY <1>5, <1>7, <2>2 DEF OpenIds, SweepTypeOK, GoTo, Stage, Loading
  <2> QED BY <2>1, <2>2, <2>3 DEF SweepTypeOK
<1>8. CASE WriteIds(p)
  <2>1. docIds' \in [Model -> [Digest -> File(Doc)]]
    BY <1>2, <1>4, <1>8 DEF WriteIds
  <2>2. UNCHANGED <<corpus, vectors, model, own, ids>>
    BY <1>8 DEF WriteIds, job
  <2> QED BY <1>5, <1>8, <2>1, <2>2, KeepLeafType DEF WriteIds, SweepTypeOK, Calls
<1> QED BY <1>6, <1>7, <1>8

LEMMA RecordType ==
  ASSUME SweepTypeOK, NEW p \in Process,
         Evaluate(p) \/ EvaluateFails(p) \/ OpenRun(p) \/ WriteRun(p)
  PROVE  SweepTypeOK'
<1>1. CASE Evaluate(p) \/ OpenRun(p)
  <2>1. UNCHANGED <<corpus, cache, job, calls, index, ids>>
    BY <1>1 DEF Evaluate, OpenRun, building
  <2>2. GoTo(p, "open run") \/ GoTo(p, "write run")
    BY <1>1 DEF Evaluate, OpenRun
  <2> QED BY <2>1, <2>2, MoveType DEF Stage, Loading
<1>2. CASE EvaluateFails(p)
  BY <1>2, ExitType DEF EvaluateFails, Raise
<1>3. CASE WriteRun(p)
  <2>1. UNCHANGED <<corpus, cache, job, calls, index, ids>>
    BY <1>3 DEF WriteRun, building
  <2>2. GoTo(p, "next")
    BY <1>3 DEF WriteRun
  <2> QED BY <2>1, <2>2, MoveType DEF Stage, Loading
<1> QED BY <1>1, <1>2, <1>3

LEMMA OtherType ==
  ASSUME SweepTypeOK,
         \/ \E p \in Process : ReadRun(p) \/ WriteReport(p) \/ Kill(p)
         \/ \E d \in Dataset : Republish(d)
  PROVE  SweepTypeOK'
<1>1. ASSUME NEW p \in Process, Raise(p) \/ WriteReport(p) \/ Kill(p)
      PROVE  SweepTypeOK'
  BY <1>1, ExitType DEF Raise, WriteReport, Kill
<1>2. ASSUME NEW p \in Process, ReadRun(p), ~Raise(p)
      PROVE  SweepTypeOK'
  <2>1. UNCHANGED <<corpus, vectors, docIds, pc, model, own, calls, index, ids>>
    BY <1>2 DEF ReadRun, world, cache, job, building
  <2> QED BY <2>1 DEF SweepTypeOK
<1>3. ASSUME NEW d \in Dataset, Republish(d)
      PROVE  SweepTypeOK'
  <2>1. UNCHANGED <<vectors, docIds, pc, model, own, calls, index, ids>>
    BY <1>3 DEF Republish, cache, job, building
  <2>2. corpus' \in [Dataset -> AllCorpora] /\ \A e \in Dataset : corpus'[e] \in Corpora[e]
    BY <1>3 DEF Republish, SweepTypeOK, AllCorpora
  <2> QED BY <2>1, <2>2 DEF SweepTypeOK
<1> QED BY <1>1, <1>2, <1>3

LEMMA TypeStep ==
  ASSUME SweepTypeOK, \A p \in Process : StageInv(p), [Next]_vars
  PROVE  SweepTypeOK'
<1>1. CASE UNCHANGED vars
  BY <1>1 DEF vars, world, cache, job, building, SweepTypeOK
<1>2. ASSUME NEW p \in Process, Step(p) PROVE SweepTypeOK'
  <2>1. pc[p] \in Loading => own[p] \in AllCorpora /\ model[p] \in Model
    BY DEF StageInv, Works, Loading
  <2>2. CASE ReadIds(p) \/ ReadRows(p) \/ Embed(p)
    BY <2>1, <2>2, ReadType DEF ReadIds, ReadRows, Embed, Loading
  <2>3. CASE OpenRows(p) \/ WriteRows(p) \/ OpenIds(p) \/ WriteIds(p)
    BY <2>1, <2>3, SaveType DEF OpenRows, WriteRows, OpenIds, WriteIds, Loading
  <2> QED BY <1>2, <2>2, <2>3, StartType, NextExperimentType, LeafType, BuildFusionType,
             BuildRerankerType, RecordType, OtherType DEF Step
<1> QED BY <1>1, <1>2, OtherType DEF Next

-----------------------------------------------------------------------------
(* The cache                                                               *)

LEMMA InitCache == Init => CacheInv
<1> SUFFICES ASSUME Init PROVE CacheInv
  OBVIOUS
<1>1. OneOrder
  BY DEF Init, OneOrder
<1>2. FilesInv
  BY DEF Init, FilesInv, NoFile
<1>3. ASSUME NEW p \in Process PROVE ProcessInv(p)
  <2>1. pc[p] = "idle" /\ own[p] = Null /\ index[p] = Nothing
    BY DEF Init
  <2>2. DOMAIN Nothing = {}
    BY DEF Nothing
  <2> QED BY <2>1, <2>2 DEF ProcessInv, StageInv, Works, MissInv, WroteInv, HitInv, AlignedInv,
                            Missed, Wrote
<1> QED BY <1>1, <1>2, <1>3 DEF CacheInv

\* A step of p alone that touches neither the files nor the published corpora leaves
\* the others their invariants.
Alone(p) ==
  /\ UNCHANGED <<vectors, docIds>>
  /\ \A q \in Process \ {p} :
       /\ pc'[q] = pc[q] /\ model'[q] = model[q] /\ own'[q] = own[q]
       /\ index'[q] = index[q] /\ ids'[q] = ids[q]

LEMMA OthersKeep ==
  ASSUME IInv, NEW p \in Process, Alone(p)
  PROVE  FilesInv' /\ \A q \in Process \ {p} : ProcessInv(q)'
<1>1. FilesInv'
  BY DEF IInv, CacheInv, FilesInv, Alone
<1>2. ASSUME NEW q \in Process \ {p} PROVE ProcessInv(q)'
  <2>1. ProcessInv(q)
    BY DEF IInv, CacheInv
  <2>2. UNCHANGED <<pc[q], model[q], own[q], index[q], ids[q], vectors, docIds>>
    BY DEF Alone
  <2>3. StageInv(q)'
    BY <2>1, <2>2 DEF ProcessInv, StageInv, Works
  <2>4. MissInv(q)' /\ WroteInv(q)' /\ HitInv(q)'
    BY <2>1, <2>2 DEF ProcessInv, MissInv, WroteInv, HitInv, Missed, Wrote, Vectors, DocIds,
                      CorpusHash, Verified
  <2>5. AlignedInv(q)'
    BY <2>1, <2>2 DEF ProcessInv, AlignedInv
  <2> QED BY <2>3, <2>4, <2>5 DEF ProcessInv
<1> QED BY <1>1, <1>2

\* p ends.
LEMMA ExitCache ==
  ASSUME IInv, NEW p \in Process, Raise(p)
  PROVE  CacheInv'
<1>1. UNCHANGED <<corpus, vectors, docIds>>
  BY DEF Raise, world, cache
<1>2. /\ pc'[p] = "idle" /\ own'[p] = Null /\ index'[p] = Nothing
      /\ \A q \in Process \ {p} :
           /\ pc'[q] = pc[q] /\ model'[q] = model[q] /\ own'[q] = own[q]
           /\ index'[q] = index[q] /\ ids'[q] = ids[q]
  BY DEF Raise, Exit, GoTo, IInv, SweepTypeOK
<1>3. Alone(p)
  BY <1>1, <1>2 DEF Alone
<1>4. OneOrder'
  BY <1>1, <1>2 DEF IInv, CacheInv, OneOrder
<1>5. ProcessInv(p)'
  <2>1. DOMAIN Nothing = {}
    BY DEF Nothing
  <2> QED BY <1>2, <2>1 DEF ProcessInv, StageInv, Works, MissInv, WroteInv, HitInv, AlignedInv,
                            Missed, Wrote
<1> QED BY <1>3, <1>4, <1>5, OthersKeep DEF CacheInv

\* p goes where it knows nothing of the files.
LEMMA QuietCache ==
  ASSUME IInv, NEW p \in Process, Alone(p), UNCHANGED <<corpus, own>>, model'[p] = model[p],
         pc'[p] \notin Missed \cup {"read rows"}, Works(p) <=> Works(p)',
         AlignedInv(p)', ~Works(p) => index'[p] = index[p]
  PROVE  CacheInv'
<1>1. OneOrder'
  BY DEF IInv, CacheInv, OneOrder
<1>2. StageInv(p)'
  BY DEF IInv, CacheInv, ProcessInv, StageInv, Works
<1>3. MissInv(p)' /\ WroteInv(p)' /\ HitInv(p)'
  BY DEF MissInv, WroteInv, HitInv, Missed, Wrote
<1> QED BY <1>1, <1>2, <1>3, OthersKeep DEF CacheInv, ProcessInv

LEMMA StartCache ==
  ASSUME IInv, NEW p \in Process, StartSweep(p)
  PROVE  CacheInv'
<1>1. PICK d \in Dataset, m \in Model :
        /\ model' = [model EXCEPT ![p] = m]
        /\ own' = [own EXCEPT ![p] = corpus[d]]
  BY DEF StartSweep
<1>2. UNCHANGED <<corpus, vectors, docIds, index, ids>> /\ pc[p] = "idle"
      /\ pc' = [pc EXCEPT ![p] = "next"]
  BY DEF StartSweep, GoTo, cache, building
<1>3. Alone(p) /\ pc'[p] = "next" /\ own'[p] = corpus[d] /\ model'[p] = m
      /\ \A q \in Process \ {p} : own'[q] = own[q]
  BY <1>1, <1>2 DEF Alone, IInv, SweepTypeOK
<1>4. corpus[d] \in AllCorpora /\ corpus[d] # Null
  BY NullAssumption DEF IInv, SweepTypeOK
<1>5. \A e \in Dataset : corpus[d].text = corpus[e].text => d = e
  BY CorporaAssumption DEF IInv, SweepTypeOK
<1>6. OneOrder'
  BY <1>2, <1>3, <1>5 DEF IInv, CacheInv, OneOrder
<1>7. DOMAIN index'[p] = {}
  BY <1>2 DEF IInv, CacheInv, ProcessInv, StageInv, Works
<1>8. ProcessInv(p)'
  BY <1>3, <1>4, <1>7 DEF ProcessInv, StageInv, Works, MissInv, WroteInv, HitInv, AlignedInv,
                          Missed, Wrote
<1> QED BY <1>3, <1>6, <1>8, OthersKeep DEF CacheInv

LEMMA RepublishCache ==
  ASSUME IInv, NEW d \in Dataset, Republish(d)
  PROVE  CacheInv'
<1>1. PICK c \in Corpora[d] :
        /\ \A p \in Process : own[p] # Null /\ own[p].text = c.text => own[p].ids = c.ids
        /\ corpus' = [corpus EXCEPT ![d] = c]
  BY DEF Republish
<1>2. UNCHANGED <<vectors, docIds, pc, model, own, index, ids>>
  BY DEF Republish, cache, job, building
<1>3. OneOrder'
  BY <1>1, <1>2 DEF IInv, SweepTypeOK, CacheInv, OneOrder
<1>4. FilesInv'
  BY <1>2 DEF IInv, CacheInv, FilesInv
<1>5. ASSUME NEW p \in Process PROVE ProcessInv(p)'
  BY <1>2 DEF IInv, CacheInv, ProcessInv, StageInv, Works, MissInv, WroteInv, HitInv,
              AlignedInv, Missed, Wrote, Vectors, DocIds, CorpusHash, Verified
<1> QED BY <1>3, <1>4, <1>5 DEF CacheInv

\* Keeping an aligned leaf under the key of the node being built.
LEMMA KeepLeafAligned ==
  ASSUME IInv, NEW p \in Process, NEW rows, KeepLeaf(p, rows), model' = model, own' = own,
         \/ rows = Embedded(model[p], own[p])
         \/ calls[p] # <<>> /\ Called(p).type = "bm25"
  PROVE  AlignedInv(p)'
<1> DEFINE key == Called(p).key
<1>1. /\ DOMAIN index'[p] = DOMAIN index[p] \cup {key}
      /\ index'[p][key] = Leaf(own[p], rows)
      /\ \A k \in DOMAIN index[p] \ {key} : index'[p][k] = index[p][k]
  BY DEF KeepLeaf, IInv, SweepTypeOK
<1> SUFFICES ASSUME NEW n \in Node, Tree[n].type = "dense", Tree[n].key \in DOMAIN index'[p]
             PROVE  index'[p][Tree[n].key] = Leaf(own[p], Embedded(model[p], own[p]))
  BY DEF AlignedInv
<1>2. CASE Tree[n].key # key
  BY <1>1, <1>2 DEF IInv, CacheInv, ProcessInv, AlignedInv
<1>3. CASE Tree[n].key = key /\ rows = Embedded(model[p], own[p])
  BY <1>1, <1>3
<1>4. CASE Tree[n].key = key /\ calls[p] # <<>> /\ Called(p).type = "bm25"
  BY <1>4, CalledType, KeyAssumption DEF IInv, Called
<1> QED BY <1>2, <1>3, <1>4

LEMMA BuildBM25Cache ==
  ASSUME IInv, NEW p \in Process, BuildBM25(p)
  PROVE  CacheInv'
<1>1. pc[p] = "build" /\ calls[p] # <<>> /\ Called(p).type = "bm25" /\ KeepLeaf(p, <<>>)
  BY DEF BuildBM25, Building
<1>2. UNCHANGED <<corpus, vectors, docIds, model, own, ids>>
  BY DEF BuildBM25, world, cache, job
<1>3. AlignedInv(p)'
  BY <1>1, <1>2, KeepLeafAligned
<1>4. Alone(p) /\ pc'[p] = "build"
  BY <1>1, <1>2 DEF Alone, KeepLeaf, GoTo, IInv, SweepTypeOK
<1> QED BY <1>1, <1>2, <1>3, <1>4, QuietCache DEF Missed, Works

\* p stays at work with what it had, and the files do not change.
LEMMA MovedCache ==
  ASSUME IInv, NEW p \in Process, Alone(p), UNCHANGED <<corpus, own, model, index>>,
         Works(p) <=> Works(p)', MissInv(p)', WroteInv(p)', HitInv(p)'
  PROVE  CacheInv'
<1>1. OneOrder'
  BY DEF IInv, CacheInv, OneOrder
<1>2. StageInv(p)' /\ AlignedInv(p)'
  BY DEF IInv, CacheInv, ProcessInv, StageInv, AlignedInv, Works
<1> QED BY <1>1, <1>2, OthersKeep DEF CacheInv, ProcessInv

\* Where p's files are.
LEMMA Files ==
  ASSUME IInv, NEW p \in Process, Works(p)
  PROVE  /\ own[p] \in AllCorpora /\ own[p] # Null
         /\ model[p] \in Model /\ CorpusHash(own[p]) \in Digest
         /\ CorpusHash(own[p]) = own[p].text
  BY CorpusRecord, NullAssumption DEF IInv, CacheInv, ProcessInv, StageInv, CorpusHash

LEMMA BuildDenseCache ==
  ASSUME IInv, NEW p \in Process, BuildDense(p)
  PROVE  CacheInv'
<1>1. UNCHANGED <<corpus, vectors, docIds, model, own, index, ids>> /\ pc[p] = "build"
  BY DEF BuildDense, Building, world, cache, job, building
<1>2. Works(p)
  BY <1>1 DEF Works
<1>3. CASE "none" \in {Vectors(p).state, DocIds(p).state}
  <2>1. DocIds(p).state = "none"
    BY <1>2, <1>3, Files DEF IInv, CacheInv, FilesInv, Vectors, DocIds
  <2>2. Alone(p) /\ pc'[p] = "embed"
    BY <1>1, <1>3 DEF BuildDense, GoTo, Alone, IInv, SweepTypeOK
  <2>3. MissInv(p)' /\ WroteInv(p)' /\ HitInv(p)'
    BY <1>1, <2>1, <2>2 DEF MissInv, WroteInv, HitInv, Wrote, DocIds
  <2> QED BY <1>1, <1>2, <2>2, <2>3, MovedCache DEF Works
<1>4. CASE "none" \notin {Vectors(p).state, DocIds(p).state}
  <2>1. Alone(p) /\ pc'[p] = "read ids"
    BY <1>1, <1>4 DEF BuildDense, GoTo, Alone, IInv, SweepTypeOK
  <2>2. MissInv(p)' /\ WroteInv(p)' /\ HitInv(p)'
    BY <2>1 DEF MissInv, WroteInv, HitInv, Missed, Wrote
  <2> QED BY <1>1, <1>2, <2>1, <2>2, MovedCache DEF Works
<1> QED BY <1>3, <1>4

\* Whole files whose ids are in p's order hold what p would have embedded.
LEMMA WholeFiles ==
  ASSUME IInv, NEW p \in Process, Works(p), DocIds(p).state = "whole",
         Vectors(p).state = "whole", DocIds(p).content = own[p].ids
  PROVE  Vectors(p).content = Embedded(model[p], own[p])
<1>1. Vectors(p).content = Embedded(model[p], [ids |-> own[p].ids, text |-> own[p].text])
  BY Files DEF IInv, CacheInv, FilesInv, Vectors, DocIds
<1> QED BY <1>1, Files, EmbeddedType

LEMMA ReadIdsCache ==
  ASSUME IInv, NEW p \in Process, ReadIds(p)
  PROVE  CacheInv'
<1>1. CASE Raise(p)
  BY <1>1, ExitCache
<1>2. CASE ~Raise(p)
  <2>1. /\ DocIds(p).state = "whole" /\ pc[p] = "read ids"
        /\ ids' = [ids EXCEPT ![p] = DocIds(p).content] /\ GoTo(p, "read rows")
        /\ UNCHANGED <<corpus, vectors, docIds, model, own, index>>
    BY <1>2 DEF ReadIds, world, cache, job, building
  <2>2. Works(p)
    BY <2>1 DEF Works
  <2>3. Alone(p) /\ pc'[p] = "read rows" /\ ids'[p] = DocIds(p).content
    BY <2>1 DEF GoTo, Alone, IInv, SweepTypeOK
  <2>4. MissInv(p)' /\ WroteInv(p)'
    BY <2>3 DEF MissInv, WroteInv, Missed, Wrote
  <2>5. HitInv(p)'
    <3>1. Vectors(p)' = Vectors(p)
      BY <2>1 DEF Vectors
    <3> QED BY <2>1, <2>2, <2>3, <3>1, WholeFiles DEF HitInv, Verified
  <2> QED BY <2>1, <2>2, <2>3, <2>4, <2>5, MovedCache DEF Works
<1> QED BY <1>1, <1>2

LEMMA ReadRowsCache ==
  ASSUME IInv, NEW p \in Process, ReadRows(p)
  PROVE  CacheInv'
<1>1. CASE Raise(p)
  BY <1>1, ExitCache
<1>2. CASE ~Raise(p)
  <2>1. /\ pc[p] = "read rows" /\ Vectors(p).state = "whole" /\ Verified(p)
        /\ KeepLeaf(p, Vectors(p).content) /\ ids' = [ids EXCEPT ![p] = <<>>]
        /\ UNCHANGED <<corpus, vectors, docIds, model, own>>
    BY <1>2 DEF ReadRows, world, cache, job
  <2>2. Vectors(p).content = Embedded(model[p], own[p])
    BY <2>1 DEF IInv, CacheInv, ProcessInv, HitInv
  <2>3. AlignedInv(p)'
    BY <2>1, <2>2, KeepLeafAligned
  <2>4. Alone(p) /\ pc'[p] = "build"
    BY <2>1 DEF KeepLeaf, GoTo, Alone, IInv, SweepTypeOK
  <2> QED BY <2>1, <2>3, <2>4, QuietCache DEF Missed, Works
<1> QED BY <1>1, <1>2

LEMMA EmbedCache ==
  ASSUME IInv, NEW p \in Process, Embed(p)
  PROVE  CacheInv'
<1>1. CASE Raise(p)
  BY <1>1, ExitCache
<1>2. CASE ~Raise(p)
  <2>1. /\ pc[p] = "embed" /\ GoTo(p, "open rows")
        /\ UNCHANGED <<corpus, vectors, docIds, model, own, index, ids>>
    BY <1>2 DEF Embed, world, cache, job, building
  <2>2. Alone(p) /\ pc'[p] = "open rows"
    BY <2>1 DEF GoTo, Alone, IInv, SweepTypeOK
  <2>3. MissInv(p)'
    BY <2>1 DEF IInv, CacheInv, ProcessInv, MissInv, Missed, DocIds, CorpusHash
  <2>4. WroteInv(p)' /\ HitInv(p)'
    BY <2>2 DEF WroteInv, HitInv, Wrote
  <2> QED BY <2>1, <2>2, <2>3, <2>4, MovedCache DEF Works
<1> QED BY <1>1, <1>2

\* Two at work on one text are at work on one corpus.
LEMMA Contemporaries ==
  ASSUME IInv, NEW p \in Process, NEW q \in Process, Works(p), Works(q),
         own[p].text = own[q].text
  PROVE  own[p] = own[q]
<1>1. own[p].ids = own[q].ids
  BY Files DEF IInv, CacheInv, OneOrder
<1> QED BY <1>1, Files, SameCorpus

LEMMA VectorsPut ==
  ASSUME IInv, NEW p \in Process, Works(p), NEW file, PutVectors(p, file)
  PROVE  \A m \in Model, t \in Digest :
           vectors'[m][t] = IF m = model[p] /\ t = own[p].text THEN file ELSE vectors[m][t]
  BY Files DEF PutVectors, IInv, SweepTypeOK

LEMMA DocIdsPut ==
  ASSUME IInv, NEW p \in Process, Works(p), NEW file, PutDocIds(p, file)
  PROVE  \A m \in Model, t \in Digest :
           docIds'[m][t] = IF m = model[p] /\ t = own[p].text THEN file ELSE docIds[m][t]
  BY Files DEF PutDocIds, IInv, SweepTypeOK

\* What a writer p of vectors leaves alone.
Writes(p) ==
  /\ Works(p) /\ Works(p)'
  /\ UNCHANGED <<corpus, model, own, ids>>
  /\ \A q \in Process \ {p} : pc'[q] = pc[q] /\ index'[q] = index[q]

LEMMA WriterKeeps ==
  ASSUME IInv, NEW p \in Process, Writes(p), AlignedInv(p)'
  PROVE  OneOrder' /\ \A q \in Process : StageInv(q)' /\ AlignedInv(q)'
<1>1. OneOrder'
  BY DEF Writes, IInv, CacheInv, OneOrder
<1>2. ASSUME NEW q \in Process PROVE StageInv(q)' /\ AlignedInv(q)'
  <2>1. CASE q = p
    BY <2>1 DEF Writes, IInv, CacheInv, ProcessInv, StageInv, Works
  <2>2. CASE q # p
    BY <2>2 DEF Writes, IInv, CacheInv, ProcessInv, StageInv, AlignedInv, Works
  <2> QED BY <2>1, <2>2
<1> QED BY <1>1, <1>2

LEMMA RowsCache ==
  ASSUME IInv, NEW p \in Process, Writes(p), NEW file, PutVectors(p, file), docIds' = docIds,
         index' = index, pc[p] \in Missed, pc'[p] \in Missed,
         \/ file = Torn /\ pc'[p] \notin Wrote
         \/ file = Whole(Embedded(model[p], own[p]))
  PROVE  CacheInv'
<1> DEFINE Same(q) == model[q] = model[p] /\ own[q].text = own[p].text
<1>1. AlignedInv(p)'
  BY DEF IInv, CacheInv, ProcessInv, AlignedInv, Writes
<1>2. Works(p) /\ UNCHANGED <<model, own, ids>>
  BY DEF Writes
<1>3. FilesInv'
  <2> SUFFICES ASSUME NEW m \in Model, NEW t \in Digest
               PROVE  /\ docIds'[m][t].state # "none" => vectors'[m][t].state # "none"
                      /\ docIds'[m][t].state = "whole" /\ vectors'[m][t].state = "whole"
                           => vectors'[m][t].content =
                                Embedded(m, [ids |-> docIds'[m][t].content, text |-> t])
    BY DEF FilesInv
  <2>1. CASE ~(m = model[p] /\ t = own[p].text)
    BY <1>2, <2>1, VectorsPut DEF IInv, CacheInv, FilesInv
  <2>2. CASE m = model[p] /\ t = own[p].text
    <3>1. vectors'[m][t] = file /\ docIds'[m][t] = DocIds(p)
      BY <1>2, <2>2, VectorsPut, Files DEF DocIds
    <3>2. file.state # "none"
      BY DEF Torn, Whole
    <3>3. DocIds(p).state = "whole" => DocIds(p).content = own[p].ids
      BY DEF IInv, CacheInv, ProcessInv, MissInv
    <3>4. file.state = "whole" => file.content = Embedded(m, [ids |-> own[p].ids, text |-> t])
      BY <1>2, <2>2, Files, EmbeddedType DEF Torn, Whole
    <3> QED BY <3>1, <3>2, <3>3, <3>4
  <2> QED BY <2>1, <2>2
<1>4. ASSUME NEW q \in Process PROVE MissInv(q)' /\ WroteInv(q)' /\ HitInv(q)'
  <2>1. MissInv(q)'
    BY <1>2 DEF IInv, CacheInv, ProcessInv, MissInv, Writes, DocIds, CorpusHash
  <2>2. (Works(q)' => Works(q)) /\ (pc'[q] \in Wrote \cup {"read rows"} => Works(q)')
    BY DEF Writes, Works, Wrote
  <2>3. CASE Works(q) /\ Same(q)
    <3>1. Vectors(q)' = file
      BY <1>2, <2>3, VectorsPut, Files DEF Vectors, CorpusHash
    <3>2. own[q] = own[p]
      BY <1>2, <2>3, Contemporaries
    <3>3. file.state # "none" /\ (file.state = "whole" => file.content = Embedded(model[q], own[q]))
      BY <2>3, <3>2 DEF Torn, Whole
    <3> QED BY <1>2, <2>1, <3>1, <3>3 DEF WroteInv, HitInv
  <2>4. CASE Works(q) /\ ~Same(q)
    <3>1. Vectors(q)' = Vectors(q) /\ q # p
      BY <1>2, <2>4, VectorsPut, Files DEF Vectors, CorpusHash
    <3>2. pc'[q] = pc[q]
      BY <3>1 DEF Writes
    <3> QED BY <1>2, <2>1, <3>1, <3>2
            DEF IInv, CacheInv, ProcessInv, WroteInv, HitInv, Verified
  <2> QED BY <2>1, <2>2, <2>3, <2>4 DEF WroteInv, HitInv
<1> QED BY <1>1, <1>3, <1>4, WriterKeeps DEF CacheInv, ProcessInv

LEMMA IdsCache ==
  ASSUME IInv, NEW p \in Process, Writes(p), NEW file, PutDocIds(p, file), vectors' = vectors,
         pc[p] \in Wrote, pc'[p] \in Wrote \cup {"build"},
         file \in {Torn, Whole(own[p].ids)}, AlignedInv(p)'
  PROVE  CacheInv'
<1>1. Works(p) /\ UNCHANGED <<model, own, ids>>
  BY DEF Writes
<1>4. \A m \in Model, t \in Digest :
        docIds'[m][t] = IF m = model[p] /\ t = own[p].text THEN file ELSE docIds[m][t]
  BY <1>1, DocIdsPut
<1>5. file.state = "whole" => file.content = own[p].ids
  BY FileCases
<1>6. FilesInv
  BY DEF IInv, CacheInv
<1>2. FilesInv'
  <2> SUFFICES ASSUME NEW m \in Model, NEW t \in Digest
               PROVE  /\ docIds'[m][t].state # "none" => vectors'[m][t].state # "none"
                      /\ docIds'[m][t].state = "whole" /\ vectors'[m][t].state = "whole"
                           => vectors'[m][t].content =
                                Embedded(m, [ids |-> docIds'[m][t].content, text |-> t])
    BY DEF FilesInv
  <2>1. CASE ~(m = model[p] /\ t = own[p].text)
    BY <1>4, <1>6, <2>1 DEF FilesInv
  <2>2. CASE m = model[p] /\ t = own[p].text
    <3>1. docIds'[m][t] = file /\ vectors'[m][t] = Vectors(p)
      BY <1>1, <1>4, <2>2, Files DEF Vectors
    <3>2. /\ Vectors(p).state # "none"
          /\ Vectors(p).state = "whole" => Vectors(p).content = Embedded(model[p], own[p])
      BY DEF IInv, CacheInv, ProcessInv, WroteInv
    <3>3. Embedded(m, own[p]) = Embedded(m, [ids |-> own[p].ids, text |-> t])
      BY <1>1, <2>2, Files, EmbeddedType
    <3> QED BY <1>5, <2>2, <3>1, <3>2, <3>3
  <2> QED BY <2>1, <2>2
<1>3. ASSUME NEW q \in Process PROVE MissInv(q)' /\ WroteInv(q)' /\ HitInv(q)'
  <2>1. pc'[q] # pc[q] => q = p
    BY DEF Writes
  <2>2. WroteInv(q)' /\ HitInv(q)'
    BY <1>1, <2>1 DEF IInv, CacheInv, ProcessInv, WroteInv, HitInv, Vectors, CorpusHash, Verified,
                      Missed, Wrote
  <2>3. MissInv(q)'
    <3>1. CASE ~Works(q)
      BY <3>1, <1>1, <2>1 DEF MissInv, Missed, Works
    <3>2. CASE Works(q) /\ model[q] = model[p] /\ own[q].text = own[p].text
      <4>1. DocIds(q)' = file
        BY <1>1, <1>4, <3>2, Files DEF DocIds, CorpusHash
      <4>2. own[q] = own[p]
        BY <1>1, <3>2, Contemporaries
      <4> QED BY <1>1, <1>5, <4>1, <4>2 DEF MissInv
    <3>3. CASE Works(q) /\ ~(model[q] = model[p] /\ own[q].text = own[p].text)
      <4>1. DocIds(q)' = DocIds(q) /\ q # p
        BY <1>1, <1>4, <3>3, Files DEF DocIds, CorpusHash
      <4> QED BY <1>1, <2>1, <4>1 DEF IInv, CacheInv, ProcessInv, MissInv
    <3> QED BY <3>1, <3>2, <3>3
  <2> QED BY <2>2, <2>3
<1> QED BY <1>2, <1>3, WriterKeeps DEF CacheInv, ProcessInv

LEMMA SaveCache ==
  ASSUME IInv, NEW p \in Process,
         OpenRows(p) \/ WriteRows(p) \/ OpenIds(p) \/ WriteIds(p)
  PROVE  CacheInv'
<1>1. CASE OpenRows(p)
  <2>1. /\ pc[p] = "open rows" /\ PutVectors(p, Torn) /\ GoTo(p, "write rows")
        /\ UNCHANGED <<corpus, docIds, model, own, index, ids>>
    BY <1>1 DEF OpenRows, job, building
  <2>2. Writes(p) /\ pc'[p] = "write rows"
    BY <2>1 DEF Writes, Works, GoTo, IInv, SweepTypeOK
  <2> QED BY <2>1, <2>2, RowsCache DEF Missed, Wrote
<1>2. CASE WriteRows(p)
  <2>1. /\ pc[p] = "write rows" /\ PutVectors(p, Whole(Embedded(model[p], own[p])))
        /\ GoTo(p, "open ids") /\ UNCHANGED <<corpus, docIds, model, own, index, ids>>
    BY <1>2 DEF WriteRows, job, building
  <2>2. Writes(p) /\ pc'[p] = "open ids"
    BY <2>1 DEF Writes, Works, GoTo, IInv, SweepTypeOK
  <2> QED BY <2>1, <2>2, RowsCache DEF Missed
<1>3. CASE OpenIds(p)
  <2>1. /\ pc[p] = "open ids" /\ PutDocIds(p, Torn) /\ GoTo(p, "write ids")
        /\ UNCHANGED <<corpus, vectors, model, own, index, ids>>
    BY <1>3 DEF OpenIds, job, building
  <2>2. Writes(p) /\ pc'[p] = "write ids"
    BY <2>1 DEF Writes, Works, GoTo, IInv, SweepTypeOK
  <2>3. AlignedInv(p)'
    BY <2>1 DEF IInv, CacheInv, ProcessInv, AlignedInv
  <2> QED BY <2>1, <2>2, <2>3, IdsCache DEF Wrote
<1>4. CASE WriteIds(p)
  <2>1. /\ pc[p] = "write ids" /\ PutDocIds(p, Whole(own[p].ids))
        /\ KeepLeaf(p, Embedded(model[p], own[p]))
        /\ UNCHANGED <<corpus, vectors, model, own, ids>>
    BY <1>4 DEF WriteIds, job
  <2>2. Writes(p) /\ pc'[p] = "build"
    BY <2>1 DEF Writes, Works, KeepLeaf, GoTo, IInv, SweepTypeOK
  <2>3. AlignedInv(p)'
    BY <2>1, KeepLeafAligned
  <2> QED BY <2>1, <2>2, <2>3, IdsCache DEF Wrote
<1> QED BY <1>1, <1>2, <1>3, <1>4

\* The steps that concern neither the files nor the leaves.
LEMMA OtherCache ==
  ASSUME IInv, NEW p \in Process,
         \/ NextExperiment(p) \/ ReuseLeaf(p) \/ BuildFusion(p) \/ BuildReranker(p)
         \/ Evaluate(p) \/ EvaluateFails(p) \/ OpenRun(p) \/ WriteRun(p)
         \/ StartReport(p) \/ ReadRun(p) \/ WriteReport(p) \/ Kill(p)
  PROVE  CacheInv'
<1>1. CASE Raise(p) \/ WriteReport(p) \/ Kill(p) \/ EvaluateFails(p)
  BY <1>1, ExitCache DEF WriteReport, Kill, EvaluateFails, Raise
<1>2. CASE /\ \/ pc[p] = "idle" /\ pc' = [pc EXCEPT ![p] = "read runs"]
              \/ pc' = pc /\ pc[p] \in {"build", "read runs"}
              \/ /\ Works(p)
                 /\ \E s \in {"next", "build", "open run", "write run"} :
                      pc' = [pc EXCEPT ![p] = s]
           /\ UNCHANGED <<corpus, vectors, docIds, model, own, index, ids>>
  <2>1. Alone(p) /\ AlignedInv(p)'
    BY <1>2 DEF Alone, IInv, SweepTypeOK, CacheInv, ProcessInv, AlignedInv
  <2>2. pc'[p] \notin Missed \cup {"read rows"} /\ (Works(p) <=> Works(p)')
    BY <1>2 DEF IInv, SweepTypeOK, Works, Missed
  <2> QED BY <1>2, <2>1, <2>2, QuietCache
<1>3. CASE NextExperiment(p) /\ ~Raise(p)
  <2>1. pc[p] = "next" /\ pc' = [pc EXCEPT ![p] = "build"]
        /\ UNCHANGED <<corpus, vectors, docIds, model, own, index, ids>>
    BY <1>3 DEF NextExperiment, GoTo, world, cache, job
  <2> QED BY <1>2, <2>1 DEF Works
<1>4. CASE (ReuseLeaf(p) \/ BuildFusion(p) \/ BuildReranker(p)) /\ ~Raise(p)
  <2>1. pc' = pc /\ pc[p] = "build"
        /\ UNCHANGED <<corpus, vectors, docIds, model, own, index, ids>>
    BY <1>4 DEF ReuseLeaf, BuildFusion, BuildReranker, Building, world, cache, job
  <2> QED BY <1>2, <2>1
<1>5. CASE Evaluate(p)
  <2>1. pc[p] = "build" /\ pc' = [pc EXCEPT ![p] = "open run"]
        /\ UNCHANGED <<corpus, vectors, docIds, model, own, index, ids>>
    BY <1>5 DEF Evaluate, Built, GoTo, cache, job, building
  <2> QED BY <1>2, <2>1 DEF Works
<1>6. CASE OpenRun(p) \/ WriteRun(p)
  <2>1. /\ pc[p] \in {"open run", "write run"}
        /\ \E s \in {"write run", "next"} : pc' = [pc EXCEPT ![p] = s]
        /\ UNCHANGED <<corpus, vectors, docIds, model, own, index, ids>>
    BY <1>6 DEF OpenRun, WriteRun, GoTo, cache, job, building
  <2> QED BY <1>2, <2>1 DEF Works
<1>7. CASE StartReport(p) \/ (ReadRun(p) /\ ~Raise(p))
  <2>1. /\ \/ pc[p] = "idle" /\ pc' = [pc EXCEPT ![p] = "read runs"]
           \/ pc' = pc /\ pc[p] = "read runs"
        /\ UNCHANGED <<corpus, vectors, docIds, model, own, index, ids>>
    BY <1>7 DEF StartReport, ReadRun, GoTo, world, cache, job, building
  <2> QED BY <1>2, <2>1
<1> QED BY <1>1, <1>3, <1>4, <1>5, <1>6, <1>7

LEMMA CacheStep == IInv /\ [Next]_vars => CacheInv'
<1> SUFFICES ASSUME IInv, [Next]_vars PROVE CacheInv'
  OBVIOUS
<1>1. CASE UNCHANGED vars
  <2>1. UNCHANGED <<corpus, vectors, docIds, pc, model, own, index, ids>>
    BY <1>1 DEF vars, world, cache, job, building
  <2> QED BY <2>1 DEF IInv, CacheInv, OneOrder, FilesInv, ProcessInv, StageInv, Works, MissInv,
                      WroteInv, HitInv, AlignedInv, Vectors, DocIds, CorpusHash, Verified
<1>2. ASSUME NEW p \in Process, Step(p) PROVE CacheInv'
  BY <1>2, StartCache, BuildBM25Cache, BuildDenseCache, ReadIdsCache, ReadRowsCache, EmbedCache,
     SaveCache, OtherCache DEF Step
<1> QED BY <1>1, <1>2, RepublishCache DEF Next

-----------------------------------------------------------------------------
(* The theorems                                                            *)

LEMMA Invariance == Spec => []IInv
<1>1. Init => IInv
  BY InitType, InitCache DEF IInv
<1>2. IInv /\ [Next]_vars => IInv'
  BY TypeStep, CacheStep DEF IInv, CacheInv, ProcessInv
<1> QED BY <1>1, <1>2, PTL DEF Spec

\* The types of what a sweep works with, and a call to return to for every leaf that is
\* being built.
THEOREM TypeCorrect == Spec => []SweepTypeOK
<1>1. IInv => SweepTypeOK
  BY DEF IInv
<1> QED BY <1>1, Invariance, PTL

\* No dense retriever ever searches a matrix of another corpus, another model or
\* another order of the documents, however sweeps, reports, crashes and new editions of
\* a data set interleave.
THEOREM Alignment == Spec => []VectorsAligned
<1>1. IInv => VectorsAligned
  BY DEF IInv, CacheInv, ProcessInv, AlignedInv, VectorsAligned
<1> QED BY <1>1, Invariance, PTL

\* Whenever both files of a cache entry are whole, each vector stands beside the id of
\* the document it was made from.
THEOREM PairedFiles == Spec => []FilesInv
<1>1. IInv => FilesInv
  BY DEF IInv, CacheInv
<1> QED BY <1>1, Invariance, PTL

-----------------------------------------------------------------------------
(* Runs and reports                                                        *)

RunTypes ==
  /\ clock \in Nat
  /\ DOMAIN pc = Process /\ DOMAIN dataset = Process /\ DOMAIN result = Process
  /\ DOMAIN listed = Process /\ DOMAIN unread = Process /\ DOMAIN latest = Process

\* A time stamp belongs to one run.
Stamped(run) == run.timestamp \in Nat /\ run.timestamp <= clock
StampInv ==
  /\ \A run \in runs : Stamped(run)
  /\ \A run, other \in runs : run.timestamp = other.timestamp => run = other
  /\ \A p \in Process : pc[p] = "open run" =>
       /\ Stamped(result[p])
       /\ \A run \in runs : run.timestamp # result[p].timestamp
       /\ \A q \in Process \ {p} :
            pc[q] = "open run" => result[q].timestamp # result[p].timestamp

\* What a report keeps of those it has read, R, of its data set d.
Keeps(kept, R, d) ==
  /\ \A run \in kept : run \in R /\ run.dataset = d
  /\ \A run, other \in kept : run.experiment = other.experiment => run = other
  /\ \A run \in R : run.dataset = d =>
       \E other \in kept : /\ other.experiment = run.experiment
                           /\ run.timestamp <= other.timestamp

ReportInv(p) ==
  /\ pc[p] # "read runs" => latest[p] = {}
  /\ pc[p] = "read runs" =>
       /\ unread[p] \subseteq listed[p] /\ listed[p] \subseteq runs
       /\ Keeps(latest[p], listed[p] \ unread[p], dataset[p])

RunInv == RunTypes /\ StampInv /\ \A p \in Process : ReportInv(p)

\* Every step but those named concerns no run.
NoRun(p) ==
  /\ UNCHANGED <<runs, clock, result, listed, unread, latest>>
  /\ DOMAIN pc' = Process /\ DOMAIN dataset' = Process
  /\ pc[p] # "read runs" /\ pc'[p] \notin {"open run", "read runs"}
  /\ \A q \in Process \ {p} : pc'[q] = pc[q] /\ dataset'[q] = dataset[q]

LEMMA RunSteps ==
  ASSUME RunTypes, NEW p \in Process, Step(p)
  PROVE  \/ Exit(p) /\ UNCHANGED <<runs, clock>>
         \/ StartSweep(p) \/ Evaluate(p) \/ OpenRun(p) \/ StartReport(p)
         \/ WriteRun(p)
         \/ ReadRun(p) /\ ~Raise(p)
         \/ NoRun(p)
<1>1. CASE Raise(p) \/ WriteReport(p) \/ Kill(p) \/ EvaluateFails(p)
  BY <1>1 DEF Raise, WriteReport, Kill, EvaluateFails, world, results
<1> SUFFICES ASSUME ~Raise(p) PROVE NoRun(p)
               \/ StartSweep(p) \/ Evaluate(p) \/ OpenRun(p) \/ StartReport(p)
               \/ WriteRun(p) \/ ReadRun(p) \/ WriteReport(p) \/ Kill(p) \/ EvaluateFails(p)
  BY <1>1
<1>2. ASSUME UNCHANGED <<results, job, result, reporter>>,
             pc[p] \notin {"read runs"},
             \/ pc' = pc /\ pc[p] # "open run"
             \/ \E s \in Stage \ {"open run", "read runs"} : GoTo(p, s)
      PROVE  NoRun(p)
  BY <1>2 DEF RunTypes, NoRun, results, job, reporter, GoTo
<1>3. CASE NextExperiment(p)
  BY <1>2, <1>3 DEF NextExperiment, world, Stage
<1>4. CASE ReuseLeaf(p) \/ BuildFusion(p) \/ BuildReranker(p)
  BY <1>2, <1>4 DEF ReuseLeaf, BuildFusion, BuildReranker, Building, world
<1>5. CASE BuildBM25(p) \/ BuildDense(p)
  BY <1>2, <1>5 DEF BuildBM25, BuildDense, Building, KeepLeaf, world, Stage, Loading
<1>6. CASE ReadIds(p) \/ ReadRows(p) \/ Embed(p)
  BY <1>2, <1>6 DEF ReadIds, ReadRows, Embed, KeepLeaf, world, Stage, Loading
<1>7. CASE OpenRows(p) \/ WriteRows(p) \/ OpenIds(p) \/ WriteIds(p)
  BY <1>2, <1>7 DEF OpenRows, WriteRows, OpenIds, WriteIds, KeepLeaf, Stage, Loading
<1> QED BY <1>3, <1>4, <1>5, <1>6, <1>7 DEF Step

\* What a report has kept when it reads one more run.
LEMMA KeepsNewest ==
  ASSUME NEW kept, NEW R, NEW d, NEW run, Keeps(kept, R, d),
         \A r \in R \cup {run} : r.timestamp \in Nat,
         NEW new,
         new = IF /\ run.dataset = d
                  /\ \A k \in kept : k.experiment = run.experiment => run.timestamp > k.timestamp
                 THEN {k \in kept : k.experiment # run.experiment} \cup {run} ELSE kept
  PROVE  Keeps(new, R \cup {run}, d)
<1>1. CASE /\ run.dataset = d
           /\ \A k \in kept : k.experiment = run.experiment => run.timestamp > k.timestamp
  <2>1. new = {k \in kept : k.experiment # run.experiment} \cup {run}
    BY <1>1
  <2>2. ASSUME NEW r \in R \cup {run}, r.dataset = d
        PROVE  \E k \in new : k.experiment = r.experiment /\ r.timestamp <= k.timestamp
    <3>1. CASE r.experiment = run.experiment
      <4>1. r.timestamp <= run.timestamp
        <5>1. CASE r = run
          BY <5>1
        <5>2. CASE r # run
          <6>1. PICK k \in kept : k.experiment = r.experiment /\ r.timestamp <= k.timestamp
            BY <2>2, <5>2 DEF Keeps
          <6>2. run.timestamp > k.timestamp /\ k \in R
            BY <1>1, <3>1, <6>1 DEF Keeps
          <6> QED BY <6>1, <6>2
        <5> QED BY <5>1, <5>2
      <4> QED BY <2>1, <3>1, <4>1
    <3>2. CASE r.experiment # run.experiment
      BY <2>1, <2>2, <3>2 DEF Keeps
    <3> QED BY <3>1, <3>2
  <2>3. \A k \in new : k \in R \cup {run} /\ k.dataset = d
    BY <1>1, <2>1 DEF Keeps
  <2>4. \A k, l \in new : k.experiment = l.experiment => k = l
    BY <2>1 DEF Keeps
  <2> QED BY <2>2, <2>3, <2>4 DEF Keeps
<1>2. CASE ~ (/\ run.dataset = d
              /\ \A k \in kept : k.experiment = run.experiment => run.timestamp > k.timestamp)
  <2>1. new = kept
    BY <1>2
  <2>2. ASSUME run.dataset = d
        PROVE  \E k \in kept : k.experiment = run.experiment /\ run.timestamp <= k.timestamp
    <3>1. PICK k \in kept : k.experiment = run.experiment /\ ~(run.timestamp > k.timestamp)
      BY <1>2, <2>2
    <3>2. k.timestamp \in Nat /\ run.timestamp \in Nat
      BY <3>1 DEF Keeps
    <3> QED BY <3>1, <3>2
  <2> QED BY <2>1, <2>2 DEF Keeps
<1> QED BY <1>1, <1>2

LEMMA SameTime == ASSUME NEW t \in Nat, NEW u \in Nat, t <= u, u <= t PROVE t = u
  OBVIOUS

LEMMA InitRun == Init => RunInv
  BY DEF Init, RunInv, RunTypes, StampInv, ReportInv

LEMMA RunTypesStep ==
  ASSUME RunTypes, NEW p \in Process, Step(p)
  PROVE  RunTypes'
<1>1. CASE NoRun(p)
  BY <1>1 DEF NoRun, RunTypes
<1>2. CASE Exit(p) /\ UNCHANGED <<runs, clock>>
  BY <1>2 DEF RunTypes, Exit, GoTo
<1>3. CASE StartSweep(p)
  <2>1. PICK d \in Dataset : dataset' = [dataset EXCEPT ![p] = d]
    BY <1>3 DEF StartSweep
  <2>2. clock' = clock + 1
    BY <1>3 DEF StartSweep
  <2>3. clock' \in Nat
    BY <2>2 DEF RunTypes
  <2> QED BY <1>3, <2>1, <2>3 DEF RunTypes, StartSweep, GoTo, reporter
<1>7. CASE StartReport(p)
  BY <1>7 DEF RunTypes, StartReport, GoTo, world, results
<1>4. CASE Evaluate(p)
  <2>1. clock' = clock + 1
    BY <1>4 DEF Evaluate
  <2>2. clock' \in Nat
    BY <2>1 DEF RunTypes
  <2>3. DOMAIN result' = Process
    BY <1>4 DEF RunTypes, Evaluate
  <2> QED BY <1>4, <2>2, <2>3 DEF RunTypes, Evaluate, GoTo, job, reporter
<1>5. CASE OpenRun(p) \/ WriteRun(p)
  BY <1>5 DEF RunTypes, OpenRun, WriteRun, GoTo, job, reporter
<1>6. CASE ReadRun(p) /\ ~Raise(p)
  BY <1>6 DEF RunTypes, ReadRun, world, results, job
<1> QED BY <1>1, <1>2, <1>3, <1>4, <1>5, <1>6, <1>7, RunSteps

\* The other processes see no more of a step than a run that is added.
LEMMA RunFrame ==
  ASSUME RunTypes, NEW p \in Process, Step(p), NEW q \in Process \ {p}
  PROVE  /\ pc'[q] = pc[q] /\ dataset'[q] = dataset[q] /\ result'[q] = result[q]
         /\ listed'[q] = listed[q] /\ unread'[q] = unread[q] /\ latest'[q] = latest[q]
         /\ runs \subseteq runs'
<1>1. CASE NoRun(p)
  BY <1>1 DEF NoRun, RunTypes
<1>2. CASE Exit(p) /\ UNCHANGED <<runs, clock>>
  BY <1>2 DEF RunTypes, Exit, GoTo
<1>3. CASE StartSweep(p)
  <2>1. PICK d \in Dataset : dataset' = [dataset EXCEPT ![p] = d]
    BY <1>3 DEF StartSweep
  <2> QED BY <1>3, <2>1 DEF RunTypes, StartSweep, GoTo, reporter
<1>7. CASE StartReport(p)
  BY <1>7 DEF RunTypes, StartReport, GoTo, world, results
<1>4. CASE Evaluate(p)
  BY <1>4 DEF RunTypes, Evaluate, GoTo, job, reporter
<1>5. CASE OpenRun(p) \/ WriteRun(p)
  BY <1>5 DEF RunTypes, OpenRun, WriteRun, GoTo, job, reporter
<1>6. CASE ReadRun(p) /\ ~Raise(p)
  BY <1>6 DEF RunTypes, ReadRun, world, results, job
<1> QED BY <1>1, <1>2, <1>3, <1>4, <1>5, <1>6, <1>7, RunSteps

LEMMA StampStep ==
  ASSUME RunInv, NEW p \in Process, Step(p)
  PROVE  StampInv'
<1>1. RunTypes /\ StampInv
  BY DEF RunInv
<1>2. \A q \in Process \ {p} : pc'[q] = pc[q] /\ result'[q] = result[q]
  BY <1>1, RunFrame
<1>3. CASE UNCHANGED <<runs, clock>> /\ pc'[p] # "open run"
  BY <1>1, <1>2, <1>3 DEF StampInv, Stamped
<1>4. CASE Evaluate(p)
  <2>1. /\ clock' = clock + 1 /\ UNCHANGED runs
        /\ result'[p].timestamp = clock + 1
    BY <1>1, <1>4 DEF Evaluate, RunTypes
  <2>2. PICK now : now = clock
    OBVIOUS
  <2>3. /\ now \in Nat /\ now + 1 \in Nat
        /\ \A t \in Nat : t <= now => t <= now + 1 /\ t # now + 1
    BY <1>1, <2>2 DEF RunTypes
  <2>4. \A run : Stamped(run) => Stamped(run)' /\ run.timestamp # now + 1
    BY <2>1, <2>2, <2>3 DEF Stamped
  <2>5. Stamped(result[p])'
    BY <2>1, <2>2, <2>3 DEF Stamped
  <2>6. \A q \in Process \ {p} : pc'[q] = "open run" =>
          /\ Stamped(result[q])'
          /\ result'[q].timestamp # now + 1
          /\ \A run \in runs : run.timestamp # result'[q].timestamp
    BY <1>1, <1>2, <2>1, <2>4 DEF StampInv, Stamped
  <2>7. /\ \A run \in runs' : Stamped(run)' /\ run.timestamp # now + 1
        /\ \A run, other \in runs' : run.timestamp = other.timestamp => run = other
    BY <1>1, <2>1, <2>4 DEF StampInv
  <2>8. \A q, s \in Process : q # s /\ pc'[q] = "open run" /\ pc'[s] = "open run"
          => result'[s].timestamp # result'[q].timestamp
    BY <1>1, <1>2, <2>1, <2>2, <2>6 DEF StampInv
  <2> QED BY <2>1, <2>2, <2>5, <2>6, <2>7, <2>8 DEF StampInv
<1>5. CASE OpenRun(p)
  <2>1. /\ runs' = runs \cup {result[p]} /\ UNCHANGED <<clock, result>>
        /\ pc[p] = "open run" /\ pc'[p] # "open run"
    BY <1>1, <1>5 DEF OpenRun, GoTo, RunTypes
  <2>2. \A run : Stamped(run)' = Stamped(run)
    BY <2>1 DEF Stamped
  <2>3. /\ Stamped(result[p])
        /\ \A run \in runs : run.timestamp # result[p].timestamp
        /\ \A q \in Process \ {p} :
             pc[q] = "open run" => result[q].timestamp # result[p].timestamp
    BY <1>1, <2>1 DEF StampInv
  <2>4. /\ \A run \in runs' : Stamped(run)'
        /\ \A run, other \in runs' : run.timestamp = other.timestamp => run = other
    BY <1>1, <2>1, <2>2, <2>3 DEF StampInv
  <2>5. \A q \in Process : pc'[q] = "open run" =>
          /\ q # p /\ pc[q] = "open run" /\ Stamped(result[q])'
          /\ \A run \in runs' : run.timestamp # result'[q].timestamp
    BY <1>1, <1>2, <2>1, <2>2, <2>3 DEF StampInv, Stamped
  <2> QED BY <1>1, <1>2, <2>1, <2>4, <2>5 DEF StampInv
<1>6. CASE StartSweep(p)
  <2>1. /\ clock' = clock + 1 /\ UNCHANGED runs /\ pc'[p] # "open run"
    BY <1>1, <1>6 DEF StartSweep, GoTo, RunTypes
  <2>2. PICK now : now = clock
    OBVIOUS
  <2>3. \A t \in Nat : t <= now => t <= now + 1
    BY <1>1, <2>2 DEF RunTypes
  <2>4. \A run : Stamped(run) => Stamped(run)'
    BY <2>1, <2>2, <2>3 DEF Stamped
  <2>5. \A q \in Process : pc'[q] = "open run" =>
          pc[q] = "open run" /\ Stamped(result[q])' /\ result'[q] = result[q]
    BY <1>1, <1>2, <2>1, <2>4 DEF StampInv, Stamped
  <2> QED BY <1>1, <2>1, <2>4, <2>5 DEF StampInv
<1>7. CASE (Exit(p) /\ UNCHANGED <<runs, clock>>) \/ StartReport(p) \/ WriteRun(p)
           \/ (ReadRun(p) /\ ~Raise(p)) \/ NoRun(p)
  <2>1. UNCHANGED <<runs, clock>> /\ pc'[p] # "open run"
    BY <1>1, <1>7 DEF Exit, StartReport, WriteRun, ReadRun, NoRun, GoTo, RunTypes, world, results
  <2> QED BY <1>3, <2>1
<1> QED BY <1>1, <1>4, <1>5, <1>6, <1>7, RunSteps

LEMMA ReportStep ==
  ASSUME RunInv, NEW p \in Process, Step(p), NEW q \in Process
  PROVE  ReportInv(q)'
<1>1. RunTypes /\ StampInv /\ ReportInv(q)
  BY DEF RunInv
<1>2. CASE q # p
  <2>1. /\ pc'[q] = pc[q] /\ dataset'[q] = dataset[q] /\ runs \subseteq runs'
        /\ listed'[q] = listed[q] /\ unread'[q] = unread[q] /\ latest'[q] = latest[q]
    BY <1>1, <1>2, RunFrame
  <2>2. Keeps(latest[q], listed[q] \ unread[q], dataset[q])'
          = Keeps(latest[q], listed[q] \ unread[q], dataset[q])
    BY <2>1 DEF Keeps
  <2> QED BY <1>1, <2>1, <2>2 DEF ReportInv
<1>3. CASE q = p
  <2>1. CASE Exit(p)
    BY <1>1, <1>3, <2>1 DEF Exit, GoTo, ReportInv, RunTypes
  <2>2. CASE StartReport(p)
    <3>1. /\ pc[p] = "idle" /\ listed'[p] = runs /\ unread'[p] = runs
          /\ UNCHANGED <<runs, latest>> /\ pc'[p] = "read runs"
      BY <1>1, <2>2 DEF StartReport, GoTo, RunTypes, world, results
    <3> QED BY <1>1, <1>3, <3>1 DEF ReportInv, Keeps
  <2>3. CASE ReadRun(p) /\ ~Raise(p)
    <3>1. PICK run \in unread[p] :
            /\ unread' = [unread EXCEPT ![p] = @ \ {run}]
            /\ latest' = [latest EXCEPT ![p] =
                 IF run.dataset = dataset[p] /\ Newer(p, run)
                 THEN {kept \in @ : kept.experiment # run.experiment} \cup {run}
                 ELSE @]
            /\ UNCHANGED <<world, pc, job, listed>>
      BY <2>3 DEF ReadRun
    <3>2. UNCHANGED <<runs, pc, dataset, listed>> /\ pc[p] = "read runs"
      BY <2>3, <3>1 DEF ReadRun, world, results, job
    <3> DEFINE R == listed[p] \ unread[p]
               new == IF run.dataset = dataset[p] /\ Newer(p, run)
                      THEN {kept \in latest[p] : kept.experiment # run.experiment} \cup {run}
                      ELSE latest[p]
    <3>3. /\ unread[p] \subseteq listed[p] /\ listed[p] \subseteq runs
          /\ Keeps(latest[p], R, dataset[p])
      BY <1>1, <1>3, <3>2 DEF ReportInv
    <3>4. \A r \in R \cup {run} : r.timestamp \in Nat
      BY <1>1, <3>3 DEF StampInv, Stamped
    <3>5. Keeps(new, R \cup {run}, dataset[p])
      <4>1. PICK kept, S, d, u : kept = latest[p] /\ S = R /\ d = dataset[p] /\ u = new
        OBVIOUS
      <4>2. u = IF /\ run.dataset = d
                   /\ \A k \in kept : k.experiment = run.experiment
                                        => run.timestamp > k.timestamp
                  THEN {k \in kept : k.experiment # run.experiment} \cup {run} ELSE kept
        BY <4>1 DEF Newer
      <4>3. Keeps(u, S \cup {run}, d)
        BY <3>3, <3>4, <4>1, <4>2, KeepsNewest
      <4> QED BY <4>1, <4>3
    <3>6. /\ latest'[p] = new
          /\ listed'[p] \ unread'[p] = R \cup {run}
          /\ unread'[p] \subseteq listed'[p]
      BY <1>1, <3>1, <3>2, <3>3 DEF RunTypes
    <3>7. Keeps(latest[p], listed[p] \ unread[p], dataset[p])'
      <4>1. PICK d, S, u : d = dataset[p] /\ S = R \cup {run} /\ u = new
        OBVIOUS
      <4>2. Keeps(u, S, d) /\ d = dataset'[p] /\ S = listed'[p] \ unread'[p] /\ u = latest'[p]
        BY <3>2, <3>5, <3>6, <4>1
      <4> QED BY <4>2 DEF Keeps
    <3> QED BY <1>3, <3>2, <3>3, <3>6, <3>7 DEF ReportInv
  <2>4. CASE StartSweep(p) \/ Evaluate(p) \/ OpenRun(p) \/ WriteRun(p) \/ NoRun(p)
    <3>1. pc[p] # "read runs" /\ pc'[p] # "read runs" /\ UNCHANGED latest
      BY <1>1, <2>4 DEF StartSweep, Evaluate, Built, OpenRun, WriteRun, NoRun, GoTo, RunTypes,
         reporter
    <3> QED BY <1>1, <1>3, <3>1 DEF ReportInv
  <2> QED BY <1>1, <2>1, <2>2, <2>3, <2>4, RunSteps
<1> QED BY <1>2, <1>3

LEMMA RunInvariance == Spec => []RunInv
<1>1. RunInv /\ [Next]_vars => RunInv'
  <2> SUFFICES ASSUME RunInv, [Next]_vars PROVE RunInv'
    OBVIOUS
  <2>1. ASSUME NEW p \in Process, Step(p) PROVE RunInv'
    BY <2>1, RunTypesStep, StampStep, ReportStep DEF RunInv
  <2>2. CASE (\E d \in Dataset : Republish(d)) \/ UNCHANGED vars
    <3>1. UNCHANGED <<runs, clock, pc, dataset, result, listed, unread, latest>>
      BY <2>2 DEF Republish, vars, world, results, job, reporter
    <3> QED BY <3>1 DEF RunInv, RunTypes, StampInv, Stamped, ReportInv, Keeps
  <2> QED BY <2>1, <2>2 DEF Next
<1> QED BY <1>1, InitRun, PTL DEF Spec

\* When a report has read what it listed, it holds the newest run of each experiment of
\* its data set, whatever runs appear, are torn or are written while it reads
\* (report.py:3-4).
THEOREM LatestRuns == Spec => []ReportIsLatest
<1>1. RunInv => ReportIsLatest
  <2> SUFFICES ASSUME RunInv, NEW p \in Process, pc[p] = "read runs", unread[p] = {}
               PROVE  latest[p] = {run \in listed[p] :
                        /\ run.dataset = dataset[p]
                        /\ \A other \in listed[p] :
                             /\ other.dataset = run.dataset
                             /\ other.experiment = run.experiment
                             => other.timestamp <= run.timestamp}
    BY DEF ReportIsLatest
  <2>1. /\ listed[p] \subseteq runs
        /\ Keeps(latest[p], listed[p], dataset[p])
    BY DEF RunInv, ReportInv
  <2>2. ASSUME NEW run \in latest[p], NEW other \in listed[p],
               other.dataset = run.dataset, other.experiment = run.experiment
        PROVE  other.timestamp <= run.timestamp
    BY <2>1, <2>2 DEF Keeps
  <2>3. ASSUME NEW run \in listed[p], run.dataset = dataset[p],
               \A other \in listed[p] :
                 /\ other.dataset = run.dataset
                 /\ other.experiment = run.experiment
                 => other.timestamp <= run.timestamp
        PROVE  run \in latest[p]
    <3>1. PICK kept \in latest[p] : /\ kept.experiment = run.experiment
                                    /\ run.timestamp <= kept.timestamp
      BY <2>1, <2>3 DEF Keeps
    <3>2. kept \in listed[p] /\ kept.timestamp <= run.timestamp
      BY <2>1, <2>3, <3>1 DEF Keeps
    <3>3. kept.timestamp \in Nat /\ run.timestamp \in Nat
      BY <2>1, <3>2 DEF RunInv, StampInv, Stamped
    <3>4. kept.timestamp = run.timestamp
      BY <3>1, <3>2, <3>3, SameTime
    <3>5. kept = run
      BY <2>1, <3>2, <3>4 DEF RunInv, StampInv
    <3> QED BY <3>1, <3>5
  <2> QED BY <2>1, <2>2, <2>3 DEF Keeps
<1> QED BY <1>1, RunInvariance, PTL

-----------------------------------------------------------------------------
(* What a search finds                                                     *)

\* A set of numbers has a least one.
LEMMA LeastNumber ==
  ASSUME NEW S \in SUBSET Nat, S # {}
  PROVE  \E n \in S : \A m \in S : n <= m
<1> DEFINE R == {ss \in Nat \X Nat : ss[1] < ss[2]}
<1>1. IsWellFoundedOn(R, Nat)
  BY NatLessThanWellFounded DEF OpToRel
<1>2. \A m, n \in Nat : m < n => <<m, n>> \in R
  OBVIOUS
<1> HIDE DEF R
<1>3. PICK n \in S : \A m \in S : <<m, n>> \notin R
  BY <1>1, WFMin
<1>4. \A m \in S : ~(m < n)
  BY <1>2, <1>3
<1>5. \A m \in S : n <= m
  BY <1>4
<1> QED BY <1>5

\* Nodes have heights, and children are lower.
LEMMA Heights ==
  \E limit \in Nat, height \in [Node -> Nat] :
    /\ \A n \in Node : height[n] < limit
    /\ \A n \in Node : \A child \in Children(n) : child \in Node /\ height[child] < height[n]
<1>1. Cardinality(Node) \in Nat
  BY NestingAssumption, FS_CardinalityType
<1>2. PICK height \in [Node -> 0 .. Cardinality(Node)] :
        \A n \in Node : \A child \in Children(n) : height[child] < height[n]
  BY NestingAssumption
<1>3. ASSUME NEW n \in Node PROVE Children(n) \subseteq Node
  <2>1. Tree[n] \in Entry
    BY TreeAssumption
  <2>2. CASE Tree[n].type = "rrf"
    <3>1. Tree[n].retrievers \in Seq(Node)
      BY <2>1, <2>2 DEF Entry
    <3> QED BY <2>2, <3>1 DEF Children
  <2>3. CASE Tree[n].type = "rerank"
    BY <2>1, <2>3 DEF Entry, Children
  <2> QED BY <2>2, <2>3 DEF Children
<1>4. height \in [Node -> Nat] /\ \A n \in Node : height[n] < Cardinality(Node) + 1
  BY <1>1, <1>2
<1> QED BY <1>1, <1>2, <1>3, <1>4

\* The leaf a node is, if it is one, is the same for a search in two indexes.
Alike(i, j, n) ==
  /\ Tree[n].type = "bm25" => i[Tree[n].key].corpus = j[Tree[n].key].corpus
  /\ Tree[n].type = "dense" => i[Tree[n].key] = j[Tree[n].key]

\* What a node finds depends on what its children find and on the leaf it is.
LEMMA SameNode ==
  ASSUME NEW i, NEW j, NEW f, NEW g, NEW n \in Node, NEW depth,
         \A child \in Children(n) : f[child] = g[child], Alike(i, j, n)
  PROVE  SearchNode(i, f, n, depth) = SearchNode(j, g, n, depth)
<1> DEFINE cfg == Tree[n]
<1>1. cfg.type \in {"bm25", "dense", "rrf", "rerank"}
  BY TreeAssumption DEF Entry
<1>2. CASE cfg.type = "bm25"
  BY <1>2 DEF Alike, SearchNode, SearchBM25
<1>3. CASE cfg.type = "dense"
  BY <1>3 DEF Alike, SearchNode
<1>4. CASE cfg.type = "rrf"
  <2>1. \A r \in DOMAIN cfg.retrievers : f[cfg.retrievers[r]] = g[cfg.retrievers[r]]
    BY <1>4 DEF Children
  <2> QED BY <1>4, <2>1 DEF SearchNode
<1>5. CASE cfg.type = "rerank"
  <2>1. f[cfg.inner] = g[cfg.inner]
    BY <1>5 DEF Children
  <2> QED BY <1>5, <2>1 DEF SearchNode
<1> QED BY <1>1, <1>2, <1>3, <1>4, <1>5

\* The recursion of a search ends: there is a function that says what each node finds.
Finds(i, f) == f = [n \in Node |-> [depth \in Nat |-> SearchNode(i, f, n, depth)]]

LEMMA SearchEnds ==
  ASSUME NEW i
  PROVE  \E f : Finds(i, f)
<1>1. PICK limit \in Nat, height \in [Node -> Nat] :
        /\ \A n \in Node : height[n] < limit
        /\ \A n \in Node : \A child \in Children(n) : child \in Node /\ height[child] < height[n]
  BY Heights
<1> DEFINE Below(h) == {n \in Node : height[n] < h}
           Partly(h, f) == f = [n \in Below(h) |->
                                  [depth \in Nat |-> SearchNode(i, f, n, depth)]]
           Bad == {h \in Nat : ~ \E f : Partly(h, f)}
<1>2. Bad = {}
  <2> SUFFICES ASSUME Bad # {} PROVE FALSE
    OBVIOUS
  <2>1. PICK h \in Bad : \A g \in Bad : h <= g
    <3>1. Bad \in SUBSET Nat
      OBVIOUS
    <3> HIDE DEF Bad
    <3> QED BY <3>1, LeastNumber
  <2>2. h # 0
    <3> SUFFICES ASSUME h = 0 PROVE FALSE
      OBVIOUS
    <3>1. Below(0) = {}
      OBVIOUS
    <3> DEFINE none == [n \in {} |-> 0]
    <3>2. Partly(0, none)
      BY <3>1
    <3> QED BY <2>1, <3>2
  <2>3. h - 1 \in Nat /\ h - 1 \notin Bad
    <3>1. h \in Nat
      BY <2>1
    <3> HIDE DEF Bad
    <3> QED BY <2>1, <2>2, <3>1
  <2>4. PICK f : Partly(h - 1, f)
    BY <2>3
  <2> DEFINE g == [n \in Below(h) |-> [depth \in Nat |-> SearchNode(i, f, n, depth)]]
  <2>5. \A n \in Below(h - 1) : g[n] = f[n]
    <3>1. \A n \in Below(h - 1) : n \in Below(h)
      BY <2>1, <2>3
    <3>2. \A n \in Below(h - 1) : f[n] = [depth \in Nat |-> SearchNode(i, f, n, depth)]
      BY <2>4
    <3> QED BY <3>1, <3>2
  <2>6. ASSUME NEW n \in Below(h), NEW depth \in Nat
        PROVE  SearchNode(i, f, n, depth) = SearchNode(i, g, n, depth)
    <3>1. \A child \in Children(n) : child \in Below(h - 1)
      BY <1>1, <2>1, <2>3
    <3>2. \A child \in Children(n) : f[child] = g[child]
      BY <2>5, <3>1
    <3>3. n \in Node /\ Alike(i, i, n)
      BY DEF Alike
    <3> HIDE DEF g
    <3> QED BY <3>2, <3>3, SameNode
  <2>7. Partly(h, g)
    BY <2>6
  <2> QED BY <2>1, <2>7
<1>3. PICK f : Partly(limit, f)
  BY <1>2
<1>4. Below(limit) = Node
  BY <1>1
<1> QED BY <1>3, <1>4 DEF Finds

\* A search is the recursion at its node.
LEMMA SearchIsFound ==
  ASSUME NEW i
  PROVE  \E f : Finds(i, f) /\ \A n \in Node, k \in Nat : Search(i, n, k) = f[n][k]
<1> DEFINE found[m \in Node] == [depth \in Nat |-> SearchNode(i, found, m, depth)]
<1>1. found = [m \in Node |-> [depth \in Nat |-> SearchNode(i, found, m, depth)]]
  BY SearchEnds DEF Finds
<1>2. ASSUME NEW n, NEW k PROVE Search(i, n, k) = found[n][k]
  BY DEF Search
<1>3. Finds(i, found)
  BY <1>1 DEF Finds
<1> HIDE DEF found
<1> QED BY <1>2, <1>3

\* Two indexes whose leaves are alike, as far as a search comes, are searched alike.
LEMMA SameSearch ==
  ASSUME NEW i, NEW j, NEW D \in SUBSET Node,
         \A n \in D : Children(n) \subseteq D /\ Alike(i, j, n),
         NEW n \in D, NEW k \in Nat
  PROVE  Search(i, n, k) = Search(j, n, k)
<1>1. PICK limit \in Nat, height \in [Node -> Nat] :
        /\ \A m \in Node : height[m] < limit
        /\ \A m \in Node : \A child \in Children(m) : child \in Node /\ height[child] < height[m]
  BY Heights
<1>2. PICK f : Finds(i, f) /\ \A m \in Node, d \in Nat : Search(i, m, d) = f[m][d]
  BY SearchIsFound
<1>3. PICK g : Finds(j, g) /\ \A m \in Node, d \in Nat : Search(j, m, d) = g[m][d]
  BY SearchIsFound
<1> DEFINE Bad == {h \in Nat : \E m \in D : height[m] = h /\ f[m] # g[m]}
<1>4. Bad = {}
  <2> SUFFICES ASSUME Bad # {} PROVE FALSE
    OBVIOUS
  <2>1. PICK h \in Bad : \A l \in Bad : h <= l
    <3>1. Bad \in SUBSET Nat
      OBVIOUS
    <3> HIDE DEF Bad
    <3> QED BY <3>1, LeastNumber
  <2>2. PICK m \in D : height[m] = h /\ f[m] # g[m]
    BY <2>1
  <2>3. \A child \in Children(m) : f[child] = g[child]
    <3> SUFFICES ASSUME NEW child \in Children(m), f[child] # g[child] PROVE FALSE
      OBVIOUS
    <3>1. child \in D /\ height[child] \in Nat /\ height[child] < h
      BY <1>1, <2>2
    <3>2. height[child] \in Bad
      BY <3>1
    <3>3. h \in Nat
      BY <2>1
    <3> HIDE DEF Bad
    <3> QED BY <2>1, <3>1, <3>2, <3>3
  <2>4. \A depth \in Nat : SearchNode(i, f, m, depth) = SearchNode(j, g, m, depth)
    <3>1. m \in Node /\ Alike(i, j, m)
      BY <2>2
    <3> QED BY <2>3, <3>1, SameNode
  <2>5. f[m] = g[m]
    <3>1. /\ f[m] = [depth \in Nat |-> SearchNode(i, f, m, depth)]
          /\ g[m] = [depth \in Nat |-> SearchNode(j, g, m, depth)]
      BY <1>2, <1>3, <2>2 DEF Finds
    <3> QED BY <2>4, <3>1
  <2> QED BY <2>2, <2>5
<1>5. f[n] = g[n]
  BY <1>1, <1>4
<1> QED BY <1>2, <1>3, <1>5

-----------------------------------------------------------------------------
(* How deep a search looks                                                 *)

\* What arranges a set: of two members one is before the other.
Orders(R, S) ==
  /\ \A x \in S : <<x, x>> \notin R
  /\ \A x, y, z \in S : <<x, y>> \in R /\ <<y, z>> \in R => <<x, z>> \in R
  /\ \A x, y \in S : x # y => <<x, y>> \in R \/ <<y, x>> \in R

\* The number of members before a member tells it apart.
LEMMA Places ==
  ASSUME NEW S, IsFiniteSet(S), NEW R, Orders(R, S)
  PROVE  /\ \A x \in S : Cardinality({y \in S : <<y, x>> \in R}) \in 0 .. Cardinality(S) - 1
         /\ \A x, z \in S : x # z =>
              Cardinality({y \in S : <<y, x>> \in R}) # Cardinality({y \in S : <<y, z>> \in R})
<1> DEFINE Before(x) == {y \in S : <<y, x>> \in R}
<1>1. Cardinality(S) \in Nat
  BY FS_CardinalityType
<1>2. ASSUME NEW x \in S
      PROVE  /\ IsFiniteSet(Before(x)) /\ Cardinality(Before(x)) \in Nat
             /\ Cardinality(Before(x)) < Cardinality(S)
  <2>1. Before(x) \in SUBSET S /\ Before(x) # S
    BY DEF Orders
  <2> HIDE DEF Before
  <2>2. /\ IsFiniteSet(Before(x)) /\ Cardinality(Before(x)) <= Cardinality(S)
        /\ Cardinality(S) # Cardinality(Before(x))
    BY <2>1, FS_Subset
  <2>3. Cardinality(Before(x)) \in Nat
    BY <2>2, FS_CardinalityType
  <2> QED BY <1>1, <2>2, <2>3
<1>3. ASSUME NEW x \in S, NEW z \in S, <<x, z>> \in R
      PROVE  Cardinality(Before(x)) # Cardinality(Before(z))
  <2>1. Before(x) \in SUBSET Before(z) /\ Before(x) # Before(z)
    BY <1>3 DEF Orders
  <2>2. IsFiniteSet(Before(z))
    BY <1>2
  <2> HIDE DEF Before
  <2> QED BY <2>1, <2>2, FS_Subset
<1>4. ASSUME NEW x \in S, NEW z \in S, x # z
      PROVE  Cardinality(Before(x)) # Cardinality(Before(z))
  <2>1. CASE <<x, z>> \in R
    BY <1>3, <2>1
  <2>2. CASE <<z, x>> \in R
    BY <1>3, <2>2
  <2> QED BY <1>4, <2>1, <2>2 DEF Orders
<1>5. \A x \in S : Cardinality(Before(x)) \in 0 .. Cardinality(S) - 1
  <2> HIDE DEF Before
  <2> QED BY <1>1, <1>2
<1> QED BY <1>4, <1>5

\* Arranged numbers the members of a set, each once.
LEMMA Arrangement ==
  ASSUME NEW S, IsFiniteSet(S), NEW R, Orders(R, S)
  PROVE  /\ Cardinality(S) \in Nat
         /\ Arranged(S, R) \in [1 .. Cardinality(S) -> S]
         /\ \A m, n \in 1 .. Cardinality(S) :
              Arranged(S, R)[m] = Arranged(S, R)[n] => m = n
<1> DEFINE Before(x) == {y \in S : <<y, x>> \in R}
           rank == [x \in S |-> Cardinality(Before(x))]
           places == 0 .. Cardinality(S) - 1
<1>1. Cardinality(S) \in Nat
  BY FS_CardinalityType
<1>2. rank \in Injection(S, places)
  <2>1. rank \in [S -> places]
    BY Places
  <2>2. \A x, z \in S : rank[x] = rank[z] => x = z
    BY Places
  <2> HIDE DEF rank, places
  <2> QED BY <2>1, <2>2 DEF Injection, IsInjective
<1>3. IsFiniteSet(places) /\ Cardinality(places) = Cardinality(S)
  <2>1. 0 \in Int /\ Cardinality(S) - 1 \in Int
    BY <1>1
  <2>2. /\ IsFiniteSet(places)
        /\ Cardinality(places) = IF 0 > Cardinality(S) - 1 THEN 0 ELSE Cardinality(S) - 1 - 0 + 1
    BY <2>1, FS_Interval
  <2> HIDE DEF places
  <2> QED BY <1>1, <2>2
<1>4. rank \in Surjection(S, places)
  <2> HIDE DEF rank, places
  <2> QED BY <1>2, <1>3, FS_Injection
<1>5. ASSUME NEW n \in 1 .. Cardinality(S)
      PROVE  Arranged(S, R)[n] \in S /\ rank[Arranged(S, R)[n]] = n - 1
  <2>1. n - 1 \in places
    BY <1>1
  <2>2. \E x \in S : rank[x] = n - 1
    <3> HIDE DEF rank, places
    <3> QED BY <1>4, <2>1 DEF Surjection
  <2>3. \E x \in S : Cardinality({y \in S : <<y, x>> \in R}) = n - 1
    BY <2>2
  <2>4. Arranged(S, R)[n] = CHOOSE x \in S : Cardinality({y \in S : <<y, x>> \in R}) = n - 1
    BY DEF Arranged
  <2> QED BY <2>3, <2>4
<1>6. Arranged(S, R) \in [1 .. Cardinality(S) -> S]
  BY <1>5 DEF Arranged
<1>7. ASSUME NEW m \in 1 .. Cardinality(S), NEW n \in 1 .. Cardinality(S),
             Arranged(S, R)[m] = Arranged(S, R)[n]
      PROVE  m = n
  <2>1. m - 1 = n - 1
    BY <1>5, <1>7
  <2> QED BY <1>1, <2>1
<1> QED BY <1>1, <1>6, <1>7

\* A list of hits, of distinct documents.
HitType == [doc : Doc, text : Text]
Ranking(s) ==
  /\ s \in Seq(HitType)
  /\ \A i, j \in DOMAIN s : s[i].doc = s[j].doc => i = j

LEMMA SmallerIs ==
  ASSUME NEW m \in Nat, NEW n \in Nat
  PROVE  Smaller(m, n) \in Nat /\ Smaller(m, n) <= m /\ Smaller(m, n) <= n
  BY DEF Smaller

LEMMA FirstRanking ==
  ASSUME NEW s, Ranking(s), NEW k \in Nat
  PROVE  Ranking(First(s, k)) /\ Len(First(s, k)) = Smaller(k, Len(s))
<1> DEFINE l == Smaller(k, Len(s))
<1>1. s \in Seq(HitType) /\ Len(s) \in Nat /\ DOMAIN s = 1 .. Len(s)
  BY DEF Ranking
<1>2. l \in Nat /\ l <= Len(s)
  BY <1>1, SmallerIs
<1>3. First(s, k) = [i \in 1 .. l |-> s[i]]
  <2> HIDE DEF l
  <2>1. SubSeq(s, 1, l) = [i \in 1 .. l |-> s[i]]
    BY <1>1, <1>2
  <2> QED BY <2>1 DEF First, l
<1> DEFINE t == [i \in 1 .. l |-> s[i]]
<1> HIDE DEF l
<1>4. \A i \in 1 .. l : i \in DOMAIN s /\ s[i] \in HitType
  BY <1>1, <1>2
<1>5. t \in [1 .. l -> HitType]
  BY <1>4
<1>6. t \in Seq(HitType) /\ Len(t) = l
  BY <1>2, <1>5
<1>7. \A i, j \in DOMAIN t : t[i].doc = t[j].doc => i = j
  BY <1>4 DEF Ranking
<1>8. Ranking(t)
  BY <1>6, <1>7 DEF Ranking
<1>9. First(s, k) = t /\ l = Smaller(k, Len(s))
  BY <1>3 DEF l
<1> HIDE DEF t
<1> QED BY <1>6, <1>8, <1>9

\* Sorting loses nothing and doubles nothing.
LEMMA SortedRanking ==
  ASSUME NEW s, Ranking(s), NEW score \in [DOMAIN s -> Int], NEW stable \in BOOLEAN
  PROVE  Ranking(Sorted(s, score, stable)) /\ Len(Sorted(s, score, stable)) = Len(s)
<1> DEFINE D == 1 .. Len(s)
           before == {p \in D \X D :
                        \/ score[p[1]] > score[p[2]]
                        \/ /\ score[p[1]] = score[p[2]]
                           /\ IF stable THEN p[1] < p[2] ELSE p[1] > p[2]}
           places == Arranged(D, before)
<1>1. s \in Seq(HitType) /\ Len(s) \in Nat /\ DOMAIN s = D
  BY DEF Ranking
<1>2. Sorted(s, score, stable) = [r \in DOMAIN places |-> s[places[r]]]
  BY <1>1 DEF Sorted
<1>3. IsFiniteSet(D) /\ Cardinality(D) = Len(s)
  <2>1. 1 \in Int /\ Len(s) \in Int
    BY <1>1
  <2>2. /\ IsFiniteSet(D)
        /\ Cardinality(D) = IF 1 > Len(s) THEN 0 ELSE Len(s) - 1 + 1
    BY <2>1, FS_Interval
  <2> HIDE DEF D
  <2> QED BY <1>1, <2>2
<1>4. Orders(before, D)
  <2>1. \A x, y \in D : <<x, y>> \in before <=>
          \/ score[x] > score[y]
          \/ score[x] = score[y] /\ IF stable THEN x < y ELSE x > y
    OBVIOUS
  <2>2. \A x \in D : x \in Int /\ score[x] \in Int
    BY <1>1
  <2> HIDE DEF before, D
  <2>3. \A x \in D : <<x, x>> \notin before
    BY <2>1, <2>2
  <2>4. \A x, y, z \in D : <<x, y>> \in before /\ <<y, z>> \in before => <<x, z>> \in before
    BY <2>1, <2>2
  <2>5. \A x, y \in D : x # y => <<x, y>> \in before \/ <<y, x>> \in before
    BY <2>1, <2>2
  <2> QED BY <2>3, <2>4, <2>5 DEF Orders
<1> HIDE DEF before
<1>5. /\ places \in [1 .. Len(s) -> D]
      /\ \A m, n \in 1 .. Len(s) : places[m] = places[n] => m = n
  BY <1>3, <1>4, Arrangement
<1> HIDE DEF places
<1> DEFINE t == [r \in 1 .. Len(s) |-> s[places[r]]]
<1>6. Sorted(s, score, stable) = t
  BY <1>2, <1>5
<1>7. \A r \in 1 .. Len(s) : places[r] \in DOMAIN s /\ s[places[r]] \in HitType
  BY <1>1, <1>5
<1>8. t \in [1 .. Len(s) -> HitType]
  BY <1>7
<1>9. t \in Seq(HitType) /\ Len(t) = Len(s)
  BY <1>1, <1>8
<1>10. \A i, j \in DOMAIN t : t[i].doc = t[j].doc => i = j
  BY <1>5, <1>7 DEF Ranking
<1> QED BY <1>6, <1>9, <1>10 DEF Ranking

\* The hits of several lists: the list, and the place in it.
PlacesOf(lists) == UNION {{l} \X (DOMAIN lists[l]) : l \in DOMAIN lists}
Earlier(lists) ==
  {p \in PlacesOf(lists) \X PlacesOf(lists) :
     p[1][1] < p[2][1] \/ (p[1][1] = p[2][1] /\ p[1][2] < p[2][2])}
At(lists, p) == lists[p[1]][p[2]]
Firsts(lists) ==
  {p \in PlacesOf(lists) : \A q \in PlacesOf(lists) :
     <<q, p>> \in Earlier(lists) => At(lists, q).doc # At(lists, p).doc}

Lists(lists) == lists \in Seq(Seq(HitType)) /\ \A l \in DOMAIN lists : Ranking(lists[l])

LEMMA PlaceTypes ==
  ASSUME NEW lists, Lists(lists)
  PROVE  /\ \A l \in DOMAIN lists : \A r \in DOMAIN lists[l] :
              <<l, r>> \in PlacesOf(lists) /\ At(lists, <<l, r>>) = lists[l][r]
         /\ \A p \in PlacesOf(lists) :
              /\ p = <<p[1], p[2]>> /\ p[1] \in Nat /\ p[2] \in Nat
              /\ p[1] \in DOMAIN lists /\ p[2] \in DOMAIN lists[p[1]]
              /\ At(lists, p) \in HitType
<1>1. ASSUME NEW l \in DOMAIN lists
      PROVE  l \in Nat /\ lists[l] \in Seq(HitType) /\ DOMAIN lists[l] = 1 .. Len(lists[l])
  <2>1. l \in Nat
    BY DEF Lists
  <2>2. lists[l] \in Seq(HitType)
    BY DEF Lists
  <2> QED BY <2>1, <2>2
<1>2. ASSUME NEW l \in DOMAIN lists, NEW r \in DOMAIN lists[l]
      PROVE  <<l, r>> \in PlacesOf(lists) /\ At(lists, <<l, r>>) = lists[l][r]
  BY DEF PlacesOf, At
<1>3. ASSUME NEW p \in PlacesOf(lists)
      PROVE  /\ p = <<p[1], p[2]>> /\ p[1] \in Nat /\ p[2] \in Nat
             /\ p[1] \in DOMAIN lists /\ p[2] \in DOMAIN lists[p[1]]
             /\ At(lists, p) \in HitType
  <2>1. PICK l \in DOMAIN lists : p \in {l} \X (DOMAIN lists[l])
    BY DEF PlacesOf
  <2>2. p = <<p[1], p[2]>> /\ p[1] = l /\ p[2] \in DOMAIN lists[l]
    BY <2>1
  <2>3. p[2] \in Nat /\ lists[l][p[2]] \in HitType
    BY <1>1, <2>2
  <2> QED BY <1>1, <2>2, <2>3 DEF At
<1> QED BY <1>2, <1>3

LEMMA FinitePlaces ==
  ASSUME NEW lists, Lists(lists)
  PROVE  IsFiniteSet(PlacesOf(lists))
<1> DEFINE part == [l \in DOMAIN lists |-> {l} \X (DOMAIN lists[l])]
           parts == {{l} \X (DOMAIN lists[l]) : l \in DOMAIN lists}
<1>1. Len(lists) \in Nat /\ DOMAIN lists = 1 .. Len(lists)
  BY DEF Lists
<1>2. IsFiniteSet(DOMAIN lists)
  BY <1>1, FS_Interval
<1>3. part \in Surjection(DOMAIN lists, parts)
  <2>1. part \in [DOMAIN lists -> parts]
    OBVIOUS
  <2>2. \A t \in parts : \E l \in DOMAIN lists : part[l] = t
    OBVIOUS
  <2> QED BY <2>1, <2>2 DEF Surjection
<1>4. IsFiniteSet(parts)
  <2> HIDE DEF part, parts
  <2> QED BY <1>2, <1>3, FS_Surjection
<1>5. ASSUME NEW l \in DOMAIN lists PROVE IsFiniteSet({l} \X (DOMAIN lists[l]))
  <2>1. lists[l] \in Seq(HitType)
    BY DEF Lists
  <2>2. Len(lists[l]) \in Int /\ 1 \in Int /\ DOMAIN lists[l] = 1 .. Len(lists[l])
    BY <2>1
  <2>3. IsFiniteSet(DOMAIN lists[l])
    BY <2>2, FS_Interval
  <2>4. IsFiniteSet({l})
    BY FS_Singleton
  <2> QED BY <2>3, <2>4, FS_Product
<1>6. \A t \in parts : IsFiniteSet(t)
  BY <1>5
<1>7. PlacesOf(lists) = UNION parts
  BY DEF PlacesOf
<1> HIDE DEF parts
<1> QED BY <1>4, <1>6, <1>7, FS_UNION

LEMMA EarlierOrders ==
  ASSUME NEW lists, Lists(lists)
  PROVE  /\ Orders(Earlier(lists), PlacesOf(lists))
         /\ \A p, q \in PlacesOf(lists) :
              p # q /\ <<p, q>> \notin Earlier(lists) => <<q, p>> \in Earlier(lists)
<1> DEFINE P == PlacesOf(lists)
<1>1. \A p, q \in P : <<p, q>> \in Earlier(lists) <=>
        p[1] < q[1] \/ (p[1] = q[1] /\ p[2] < q[2])
  BY DEF Earlier
<1>2. \A p \in P : p[1] \in Nat /\ p[2] \in Nat /\ p = <<p[1], p[2]>>
  BY PlaceTypes
<1> HIDE DEF P
<1>3. \A p \in P : <<p, p>> \notin Earlier(lists)
  BY <1>1, <1>2
<1>4. \A p, q, r \in P : <<p, q>> \in Earlier(lists) /\ <<q, r>> \in Earlier(lists)
                         => <<p, r>> \in Earlier(lists)
  BY <1>1, <1>2
<1>5. ASSUME NEW p \in P, NEW q \in P, p # q
      PROVE  <<p, q>> \in Earlier(lists) \/ <<q, p>> \in Earlier(lists)
  <2>1. p[1] # q[1] \/ p[2] # q[2]
    BY <1>2, <1>5
  <2> QED BY <1>1, <1>2, <2>1
<1> QED BY <1>3, <1>4, <1>5 DEF Orders, P

\* Every document in the lists is met for a first time, once.
LEMMA FirstsApart ==
  ASSUME NEW lists, Lists(lists), NEW p \in Firsts(lists), NEW q \in Firsts(lists),
         At(lists, p).doc = At(lists, q).doc
  PROVE  p = q
<1>1. p \in PlacesOf(lists) /\ q \in PlacesOf(lists)
  BY DEF Firsts
<1>2. <<p, q>> \notin Earlier(lists) /\ <<q, p>> \notin Earlier(lists)
  BY <1>1 DEF Firsts
<1> QED BY <1>1, <1>2, EarlierOrders

LEMMA FirstsCover ==
  ASSUME NEW lists, Lists(lists), NEW p \in PlacesOf(lists)
  PROVE  \E q \in Firsts(lists) : At(lists, q).doc = At(lists, p).doc
<1> DEFINE Same == {q \in PlacesOf(lists) : At(lists, q).doc = At(lists, p).doc}
           rows == {q[1] : q \in Same}
<1>1. \A q \in Same : q[1] \in Nat /\ q[2] \in Nat
  BY PlaceTypes
<1>2. PICK l \in rows : \A m \in rows : l <= m
  <2>1. rows \in SUBSET Nat /\ rows # {}
    BY <1>1
  <2> HIDE DEF rows
  <2> QED BY <2>1, LeastNumber
<1> DEFINE ranks == {q[2] : q \in {r \in Same : r[1] = l}}
<1>3. PICK i \in ranks : \A j \in ranks : i <= j
  <2>1. ranks \in SUBSET Nat /\ ranks # {}
    BY <1>1, <1>2
  <2> HIDE DEF ranks
  <2> QED BY <2>1, LeastNumber
<1>4. PICK q \in Same : q[1] = l /\ q[2] = i
  BY <1>3
<1>5. ASSUME NEW o \in Same PROVE <<o, q>> \notin Earlier(lists)
  <2>1. l <= o[1] /\ (o[1] = l => i <= o[2])
    BY <1>2, <1>3, <1>5
  <2>2. o[1] \in Nat /\ o[2] \in Nat /\ q[1] \in Nat /\ q[2] \in Nat
    BY <1>1, <1>4, <1>5
  <2>3. ~(o[1] < q[1]) /\ ~(o[1] = q[1] /\ o[2] < q[2])
    BY <1>4, <2>1, <2>2
  <2>4. \A x, y : <<x, y>> \in Earlier(lists) => x[1] < y[1] \/ (x[1] = y[1] /\ x[2] < y[2])
    BY DEF Earlier
  <2> QED BY <2>3, <2>4
<1>6. q \in Firsts(lists)
  BY <1>4, <1>5 DEF Firsts
<1> QED BY <1>4, <1>6

LEMMA SeenRanking ==
  ASSUME NEW lists, Lists(lists)
  PROVE  /\ Ranking(Seen(lists))
         /\ \A l \in DOMAIN lists : Len(lists[l]) <= Len(Seen(lists))
<1> DEFINE F == Firsts(lists)
           first == Arranged(F, Earlier(lists))
<1>1. Seen(lists) = [n \in DOMAIN first |-> At(lists, first[n])]
  BY DEF Seen, Firsts, Earlier, PlacesOf, At
<1>2. F \in SUBSET PlacesOf(lists)
  BY DEF Firsts
<1>3. IsFiniteSet(F)
  <2> HIDE DEF F
  <2> QED BY <1>2, FinitePlaces, FS_Subset
<1>4. Orders(Earlier(lists), F)
  BY <1>2, EarlierOrders DEF Orders
<1> DEFINE N == Cardinality(F)
<1>5. /\ N \in Nat /\ first \in [1 .. N -> F]
      /\ \A m, n \in 1 .. N : first[m] = first[n] => m = n
  <2> HIDE DEF F
  <2> QED BY <1>3, <1>4, Arrangement
<1> DEFINE t == [n \in 1 .. N |-> At(lists, first[n])]
<1> HIDE DEF N, first
<1>6. Seen(lists) = t
  BY <1>1, <1>5
<1>7. \A n \in 1 .. N : first[n] \in F /\ At(lists, first[n]) \in HitType
  BY <1>2, <1>5, PlaceTypes
<1>8. t \in Seq(HitType) /\ Len(t) = N
  <2>1. t \in [1 .. N -> HitType]
    BY <1>7
  <2> QED BY <1>5, <2>1
<1>9. \A i, j \in DOMAIN t : t[i].doc = t[j].doc => i = j
  BY <1>5, <1>7, FirstsApart
<1>10. Ranking(t)
  BY <1>8, <1>9 DEF Ranking
<1>11. ASSUME NEW l \in DOMAIN lists PROVE Len(lists[l]) <= N
  <2> DEFINE D == 1 .. Len(lists[l])
             where == [i \in D |-> CHOOSE q \in F : At(lists, q).doc = lists[l][i].doc]
  <2>1. Len(lists[l]) \in Nat /\ DOMAIN lists[l] = D
    <3>1. lists[l] \in Seq(HitType)
      BY DEF Lists
    <3> QED BY <3>1
  <2>2. ASSUME NEW i \in D
        PROVE  where[i] \in F /\ At(lists, where[i]).doc = lists[l][i].doc
    <3>1. <<l, i>> \in PlacesOf(lists) /\ At(lists, <<l, i>>) = lists[l][i]
      BY <2>1, PlaceTypes
    <3>2. \E q \in F : At(lists, q).doc = lists[l][i].doc
      BY <3>1, FirstsCover
    <3> QED BY <3>2
  <2>3. where \in [D -> F]
    BY <2>2
  <2> HIDE DEF where
  <2>4. \A i, j \in D : where[i] = where[j] => i = j
    <3>1. \A i, j \in D : lists[l][i].doc = lists[l][j].doc => i = j
      BY <2>1 DEF Lists, Ranking
    <3>2. \A i \in D : At(lists, where[i]).doc = lists[l][i].doc
      BY <2>2
    <3> HIDE DEF D
    <3> QED BY <3>1, <3>2
  <2>5. where \in Injection(D, F)
    <3> HIDE DEF D, F
    <3> QED BY <2>3, <2>4 DEF Injection, IsInjective
  <2>6. Cardinality(D) <= N
    <3> HIDE DEF D, F
    <3> QED BY <1>3, <2>5, FS_Injection DEF N
  <2>7. Cardinality(D) = Len(lists[l])
    <3>1. 1 \in Int /\ Len(lists[l]) \in Int
      BY <2>1
    <3>2. Cardinality(D) = IF 1 > Len(lists[l]) THEN 0 ELSE Len(lists[l]) - 1 + 1
      BY <3>1, FS_Interval
    <3> HIDE DEF D
    <3> QED BY <2>1, <3>2
  <2> QED BY <2>6, <2>7
<1> QED BY <1>6, <1>8, <1>10, <1>11

\* A recursion over numbers whose steps stay among the integers does.
LEMMA StaysInteger ==
  ASSUME NEW N \in Nat, NEW g, g[0] \in Int, \A n \in 1 .. N : g[n - 1] \in Int => g[n] \in Int
  PROVE  \A n \in 0 .. N : g[n] \in Int
<1> DEFINE Bad == {n \in 0 .. N : g[n] \notin Int}
<1> SUFFICES ASSUME Bad # {} PROVE FALSE
  OBVIOUS
<1>1. PICK n \in Bad : \A m \in Bad : n <= m
  <2>1. Bad \in SUBSET Nat
    OBVIOUS
  <2> HIDE DEF Bad
  <2> QED BY <2>1, LeastNumber
<1>2. n \in 1 .. N /\ n - 1 \in 0 .. N
  BY <1>1
<1>3. n - 1 \notin Bad
  <2> HIDE DEF Bad
  <2> QED BY <1>1, <1>2
<1>4. g[n - 1] \in Int
  BY <1>2, <1>3
<1> QED BY <1>1, <1>2, <1>4

\* Such a recursion ends.
LEMMA Recursion ==
  ASSUME NEW N \in Nat, NEW a \in Int, NEW step \in [1 .. N -> [Int -> Int]]
  PROVE  \E g \in [0 .. N -> Int] :
           g = [n \in 0 .. N |-> IF n = 0 THEN a ELSE step[n][g[n - 1]]]
<1> DEFINE Partly(m, g) == /\ g \in [0 .. m -> Int]
                           /\ g = [n \in 0 .. m |-> IF n = 0 THEN a ELSE step[n][g[n - 1]]]
           Bad == {m \in 0 .. N : ~ \E g : Partly(m, g)}
<1>1. Bad = {}
  <2> SUFFICES ASSUME Bad # {} PROVE FALSE
    OBVIOUS
  <2>1. PICK h \in Bad : \A m \in Bad : h <= m
    <3>1. Bad \in SUBSET Nat
      OBVIOUS
    <3> HIDE DEF Bad
    <3> QED BY <3>1, LeastNumber
  <2>2. h \in 0 .. N
    BY <2>1
  <2>3. h # 0
    <3> SUFFICES ASSUME h = 0 PROVE FALSE
      OBVIOUS
    <3> DEFINE g == [n \in 0 .. 0 |-> a]
    <3>1. Partly(0, g)
      OBVIOUS
    <3> QED BY <2>1, <3>1
  <2>4. h - 1 \in 0 .. N /\ h - 1 \notin Bad
    <3> HIDE DEF Bad
    <3> QED BY <2>1, <2>2, <2>3
  <2>5. PICK f : Partly(h - 1, f)
    BY <2>4
  <2> DEFINE next == step[h][f[h - 1]]
             g == [n \in 0 .. h |-> IF n = h THEN next ELSE f[n]]
  <2>6. next \in Int
    <3>1. f \in [0 .. h - 1 -> Int]
      BY <2>5
    <3>2. h - 1 \in 0 .. h - 1 /\ h \in 1 .. N
      BY <2>2, <2>3
    <3>3. f[h - 1] \in Int /\ step[h] \in [Int -> Int]
      BY <3>1, <3>2
    <3> QED BY <3>3
  <2>7. \A n \in 0 .. h - 1 : g[n] = f[n] /\ f[n] \in Int
    <3>1. \A n \in 0 .. h - 1 : n \in 0 .. h /\ n # h
      BY <2>2
    <3>2. \A n \in 0 .. h - 1 : f[n] \in Int
      BY <2>5
    <3> QED BY <3>1, <3>2
  <2>8. g \in [0 .. h -> Int]
    <3>1. \A n \in 0 .. h : n = h \/ n \in 0 .. h - 1
      BY <2>2
    <3> QED BY <2>6, <2>7, <3>1
  <2>9. ASSUME NEW n \in 0 .. h
        PROVE  g[n] = IF n = 0 THEN a ELSE step[n][g[n - 1]]
    <3>1. CASE n = h
      <4>1. g[n] = next /\ n # 0 /\ g[n - 1] = f[h - 1]
        BY <2>2, <2>3, <2>7, <3>1
      <4> QED BY <3>1, <4>1
    <3>2. CASE n # h
      <4>1. n \in 0 .. h - 1 /\ (n # 0 => n - 1 \in 0 .. h - 1)
        BY <2>2, <3>2
      <4>2. f[n] = IF n = 0 THEN a ELSE step[n][f[n - 1]]
        BY <2>5, <4>1
      <4>3. g[n] = f[n] /\ (n # 0 => g[n - 1] = f[n - 1])
        BY <2>7, <4>1
      <4> HIDE DEF g
      <4> QED BY <4>2, <4>3
    <3> QED BY <3>1, <3>2
  <2>10. Partly(h, g)
    <3>1. g = [n \in 0 .. h |-> g[n]]
      OBVIOUS
    <3> HIDE DEF g
    <3> QED BY <2>8, <2>9, <3>1
  <2> QED BY <2>1, <2>10
<1>2. N \in 0 .. N
  OBVIOUS
<1> QED BY <1>1, <1>2

LEMMA UnitType ==
  ASSUME NEW rrf_k \in Nat, NEW depth \in Nat
  PROVE  Unit(rrf_k, depth) \in Int
<1> DEFINE product[i \in 0 .. depth] == IF i = 0 THEN 1 ELSE product[i - 1] * (rrf_k + i)
           step == [i \in 1 .. depth |-> [x \in Int |-> x * (rrf_k + i)]]
           Ends(g) == g = [i \in 0 .. depth |-> IF i = 0 THEN 1 ELSE g[i - 1] * (rrf_k + i)]
<1>1. \E g : Ends(g)
  <2>1. step \in [1 .. depth -> [Int -> Int]]
    OBVIOUS
  <2>2. PICK g \in [0 .. depth -> Int] :
          g = [i \in 0 .. depth |-> IF i = 0 THEN 1 ELSE step[i][g[i - 1]]]
    <3>1. 1 \in Int
      OBVIOUS
    <3> HIDE DEF step
    <3> QED BY <2>1, <3>1, Recursion
  <2>3. ASSUME NEW i \in 0 .. depth
        PROVE  g[i] = IF i = 0 THEN 1 ELSE g[i - 1] * (rrf_k + i)
    <3>1. CASE i = 0
      BY <2>2, <3>1
    <3>2. CASE i # 0
      <4>1. i \in 1 .. depth /\ i - 1 \in 0 .. depth
        BY <3>2
      <4>2. g[i - 1] \in Int
        BY <4>1
      <4>3. step[i][g[i - 1]] = g[i - 1] * (rrf_k + i)
        BY <4>1, <4>2
      <4>4. g[i] = step[i][g[i - 1]]
        <5> HIDE DEF step
        <5> QED BY <2>2, <3>2
      <4> QED BY <3>2, <4>3, <4>4
    <3> QED BY <3>1, <3>2
  <2>4. g = [i \in 0 .. depth |-> g[i]]
    OBVIOUS
  <2> QED BY <2>3, <2>4
<1>2. product = [i \in 0 .. depth |-> IF i = 0 THEN 1 ELSE product[i - 1] * (rrf_k + i)]
  BY <1>1
<1>3. Unit(rrf_k, depth) = product[depth]
  BY DEF Unit
<1> HIDE DEF product
<1>4. product[0] \in Int
  BY <1>2
<1>5. ASSUME NEW n \in 1 .. depth, product[n - 1] \in Int PROVE product[n] \in Int
  <2>1. product[n] = product[n - 1] * (rrf_k + n)
    BY <1>2
  <2> QED BY <1>5, <2>1
<1>6. \A n \in 0 .. depth : product[n] \in Int
  BY <1>4, <1>5, StaysInteger
<1> QED BY <1>3, <1>6

LEMMA ScoreType ==
  ASSUME NEW doc, NEW lists, Lists(lists), NEW rrf_k \in Nat, NEW unit \in Int
  PROVE  Score(doc, lists, rrf_k, unit) \in Int
<1> DEFINE Ranks(list) == {r \in DOMAIN list : list[r].doc = doc}
           Share(list) == IF Ranks(list) = {} THEN 0
                          ELSE unit \div (rrf_k + CHOOSE r \in Ranks(list) : TRUE)
           N == Len(lists)
           sum[n \in 0 .. N] == IF n = 0 THEN 0 ELSE sum[n - 1] + Share(lists[n])
           step == [n \in 1 .. N |-> [x \in Int |-> x + Share(lists[n])]]
           Ends(g) == g = [n \in 0 .. N |-> IF n = 0 THEN 0 ELSE g[n - 1] + Share(lists[n])]
<1>1. N \in Nat /\ DOMAIN lists = 1 .. N
  BY DEF Lists
<1>2. ASSUME NEW n \in 1 .. N PROVE Share(lists[n]) \in Int
  <2>1. CASE Ranks(lists[n]) = {}
    BY <2>1
  <2>2. CASE Ranks(lists[n]) # {}
    <3>1. PICK r \in Ranks(lists[n]) : r = CHOOSE q \in Ranks(lists[n]) : TRUE
      BY <2>2
    <3>2. lists[n] \in Seq(HitType)
      BY <1>1 DEF Lists
    <3>3. r \in Nat /\ r > 0
      BY <3>1, <3>2
    <3>4. rrf_k + r \in Nat /\ rrf_k + r > 0
      BY <3>3
    <3>5. Share(lists[n]) = unit \div (rrf_k + r)
      BY <2>2, <3>1
    <3> QED BY <3>4, <3>5
  <2> QED BY <2>1, <2>2
<1>3. Score(doc, lists, rrf_k, unit) = sum[N]
  BY DEF Score
<1> HIDE DEF Share, N
<1>4. \E g : Ends(g)
  <2>1. step \in [1 .. N -> [Int -> Int]]
    BY <1>2
  <2>2. PICK g \in [0 .. N -> Int] :
          g = [n \in 0 .. N |-> IF n = 0 THEN 0 ELSE step[n][g[n - 1]]]
    <3>1. 0 \in Int
      OBVIOUS
    <3> HIDE DEF step
    <3> QED BY <1>1, <2>1, <3>1, Recursion
  <2>3. ASSUME NEW i \in 0 .. N
        PROVE  g[i] = IF i = 0 THEN 0 ELSE g[i - 1] + Share(lists[i])
    <3>1. CASE i = 0
      BY <2>2, <3>1
    <3>2. CASE i # 0
      <4>1. i \in 1 .. N /\ i - 1 \in 0 .. N
        BY <1>1, <3>2
      <4>2. g[i - 1] \in Int
        BY <4>1
      <4>3. step[i][g[i - 1]] = g[i - 1] + Share(lists[i])
        BY <4>1, <4>2
      <4>4. g[i] = step[i][g[i - 1]]
        <5> HIDE DEF step
        <5> QED BY <2>2, <3>2
      <4> QED BY <3>2, <4>3, <4>4
    <3> QED BY <3>1, <3>2
  <2>4. g = [n \in 0 .. N |-> g[n]]
    OBVIOUS
  <2> QED BY <2>3, <2>4
<1>5. sum = [n \in 0 .. N |-> IF n = 0 THEN 0 ELSE sum[n - 1] + Share(lists[n])]
  BY <1>4
<1> HIDE DEF sum
<1>6. sum[0] \in Int
  BY <1>1, <1>5
<1>7. ASSUME NEW n \in 1 .. N, sum[n - 1] \in Int PROVE sum[n] \in Int
  <2>1. sum[n] = sum[n - 1] + Share(lists[n])
    BY <1>1, <1>5
  <2> QED BY <1>2, <1>7, <2>1
<1>8. \A n \in 0 .. N : sum[n] \in Int
  BY <1>1, <1>6, <1>7, StaysInteger
<1> QED BY <1>1, <1>3, <1>8

LEMMA FuseRanking ==
  ASSUME NEW lists, Lists(lists), NEW rrf_k \in Nat, NEW k \in Nat
  PROVE  /\ Ranking(Fuse(lists, rrf_k, k))
         /\ Len(Fuse(lists, rrf_k, k)) = Smaller(k, Len(Seen(lists)))
<1> DEFINE seen == Seen(lists)
           unit == Unit(rrf_k, Len(seen))
           score == [i \in DOMAIN seen |-> Score(seen[i].doc, lists, rrf_k, unit)]
<1>1. Ranking(seen)
  BY SeenRanking
<1>2. unit \in Int
  <2>1. Len(seen) \in Nat
    BY <1>1 DEF Ranking
  <2> QED BY <2>1, UnitType
<1>3. Fuse(lists, rrf_k, k) = First(Sorted(seen, score, TRUE), k)
  BY DEF Fuse
<1> HIDE DEF seen, unit
<1>4. score \in [DOMAIN seen -> Int]
  BY <1>2, ScoreType
<1> HIDE DEF score
<1>5. Ranking(Sorted(seen, score, TRUE)) /\ Len(Sorted(seen, score, TRUE)) = Len(seen)
  BY <1>1, <1>4, SortedRanking
<1> QED BY <1>3, <1>5, FirstRanking DEF seen

LEMMA RerankRanking ==
  ASSUME NEW s, Ranking(s), NEW k \in Nat
  PROVE  Ranking(Rerank(s, k)) /\ Len(Rerank(s, k)) = Smaller(k, Len(s))
<1> DEFINE score == [i \in DOMAIN s |-> Judged[s[i].text]]
<1>1. ASSUME NEW i \in DOMAIN s PROVE Judged[s[i].text] \in Int
  <2>1. s[i] \in HitType
    BY DEF Ranking
  <2>2. s[i].text \in Text
    BY <2>1 DEF HitType
  <2> QED BY <2>2, ScoresAssumption
<1>2. score \in [DOMAIN s -> Int]
  BY <1>1
<1>3. Rerank(s, k) = First(Sorted(s, score, TRUE), k)
  BY DEF Rerank
<1> HIDE DEF score
<1>4. Ranking(Sorted(s, score, TRUE)) /\ Len(Sorted(s, score, TRUE)) = Len(s)
  BY <1>2, SortedRanking
<1> QED BY <1>3, <1>4, FirstRanking

LEMMA HitsRanking ==
  ASSUME NEW c \in AllCorpora
  PROVE  Ranking(Hits(c)) /\ Len(Hits(c)) = Len(c.ids) /\ DOMAIN Hits(c) = DOMAIN c.ids
<1>1. /\ c.ids \in Seq(Doc) /\ DOMAIN c.ids = 1 .. Len(c.ids)
      /\ \A i \in DOMAIN c.ids : c.text[c.ids[i]] \in Text
  BY CorpusRecord
<1>2. \A i, j \in DOMAIN c.ids : c.ids[i] = c.ids[j] => i = j
  BY CorporaAssumption DEF IsInjective
<1> DEFINE h == [i \in 1 .. Len(c.ids) |-> [doc |-> c.ids[i], text |-> c.text[c.ids[i]]]]
<1>3. Hits(c) = h
  BY <1>1 DEF Hits
<1>4. h \in [1 .. Len(c.ids) -> HitType] /\ Len(c.ids) \in Nat
  BY <1>1 DEF HitType
<1>5. h \in Seq(HitType) /\ Len(h) = Len(c.ids)
  BY <1>4
<1>6. \A i, j \in DOMAIN h : h[i].doc = h[j].doc => i = j
  BY <1>1, <1>2
<1>7. Ranking(h)
  BY <1>5, <1>6 DEF Ranking
<1>8. DOMAIN h = DOMAIN c.ids
  BY <1>1
<1> HIDE DEF h
<1> QED BY <1>3, <1>5, <1>7, <1>8

LEMMA LeafRanking ==
  ASSUME NEW c \in AllCorpora, NEW k \in Nat
  PROVE  /\ \A rows : /\ Ranking(SearchBM25(Leaf(c, rows), k))
                      /\ Len(SearchBM25(Leaf(c, rows), k)) = Smaller(k, Len(c.ids))
         /\ \A m \in Model :
              /\ Ranking(SearchDense(Leaf(c, Embedded(m, c)), k))
              /\ Len(SearchDense(Leaf(c, Embedded(m, c)), k)) = Smaller(k, Len(c.ids))
<1> DEFINE hits == Hits(c)
<1>1. /\ Ranking(hits) /\ Len(hits) = Len(c.ids) /\ DOMAIN hits = DOMAIN c.ids
      /\ \A i \in DOMAIN hits : hits[i].text \in Text
  <2>1. Ranking(hits) /\ Len(hits) = Len(c.ids) /\ DOMAIN hits = DOMAIN c.ids
    BY HitsRanking
  <2>2. ASSUME NEW i \in DOMAIN hits PROVE hits[i].text \in Text
    <3>1. hits[i] \in HitType
      BY <2>1, <2>2 DEF Ranking
    <3> QED BY <3>1 DEF HitType
  <2> QED BY <2>1, <2>2
<1>2. ASSUME NEW rows
      PROVE  /\ Ranking(SearchBM25(Leaf(c, rows), k))
             /\ Len(SearchBM25(Leaf(c, rows), k)) = Smaller(k, Len(c.ids))
  <2> DEFINE score == [i \in DOMAIN hits |-> Lexical[hits[i].text]]
  <2>1. SearchBM25(Leaf(c, rows), k) = First(Sorted(hits, score, TRUE), k)
    BY DEF SearchBM25, Leaf
  <2> HIDE DEF hits
  <2>2. score \in [DOMAIN hits -> Int]
    BY <1>1, ScoresAssumption
  <2> HIDE DEF score
  <2>3. Ranking(Sorted(hits, score, TRUE)) /\ Len(Sorted(hits, score, TRUE)) = Len(hits)
    BY <1>1, <2>2, SortedRanking
  <2> QED BY <1>1, <2>1, <2>3, FirstRanking
<1>3. ASSUME NEW m \in Model
      PROVE  /\ Ranking(SearchDense(Leaf(c, Embedded(m, c)), k))
             /\ Len(SearchDense(Leaf(c, Embedded(m, c)), k)) = Smaller(k, Len(c.ids))
  <2> DEFINE score == [i \in DOMAIN c.ids |-> Cosine[m][c.text[c.ids[i]]]]
  <2>1. SearchDense(Leaf(c, Embedded(m, c)), k) = First(Sorted(hits, score, FALSE), k)
    <3>1. \A i \in DOMAIN c.ids :
            Cosine[Embedded(m, c)[i].model][Embedded(m, c)[i].text] = Cosine[m][c.text[c.ids[i]]]
      BY DEF Embedded
    <3>2. DOMAIN Embedded(m, c) = DOMAIN c.ids
      BY DEF Embedded
    <3>3. score = [i \in DOMAIN Embedded(m, c) |->
                     Cosine[Embedded(m, c)[i].model][Embedded(m, c)[i].text]]
      BY <3>1, <3>2
    <3> HIDE DEF score
    <3> QED BY <3>3 DEF SearchDense, Leaf
  <2> HIDE DEF hits
  <2>2. score \in [DOMAIN hits -> Int]
    <3>1. \A i \in DOMAIN c.ids : c.text[c.ids[i]] \in Text
      BY CorpusRecord
    <3> QED BY <1>1, <3>1, ScoresAssumption
  <2> HIDE DEF score
  <2>3. Ranking(Sorted(hits, score, FALSE)) /\ Len(Sorted(hits, score, FALSE)) = Len(hits)
    BY <1>1, <2>2, SortedRanking
  <2> QED BY <1>1, <2>1, <2>3, FirstRanking
<1> QED BY <1>2, <1>3

LEMMA Greatest ==
  ASSUME NEW b \in Nat, NEW S \in SUBSET (0 .. b), S # {}
  PROVE  Max(S) \in S /\ \A y \in S : y <= Max(S)
<1> DEFINE room == {b - x : x \in S}
<1>1. PICK n \in room : \A m \in room : n <= m
  <2>1. \A x \in S : b - x \in Nat
    OBVIOUS
  <2>2. room \in SUBSET Nat /\ room # {}
    BY <2>1
  <2> HIDE DEF room
  <2> QED BY <2>2, LeastNumber
<1>2. PICK x \in S : n = b - x
  BY <1>1
<1>3. ASSUME NEW y \in S PROVE x >= y
  <2>1. b - x <= b - y
    BY <1>1, <1>2
  <2>2. x \in Nat /\ y \in Nat
    OBVIOUS
  <2> QED BY <2>1, <2>2
<1>4. Max(S) \in S /\ \A y \in S : Max(S) >= y
  BY <1>3 DEF Max
<1>5. \A y \in S : y \in Nat
  OBVIOUS
<1> QED BY <1>4, <1>5

\* What a node can deliver, from what the retrievers below it can.
ReachNode(size, f, n) ==
  LET cfg == Tree[n]
  IN  CASE cfg.type = "rerank" -> Smaller(cfg.candidate_k, f[cfg.inner])
        [] cfg.type = "rrf" -> Max({0} \cup {f[cfg.retrievers[i]] : i \in DOMAIN cfg.retrievers})
        [] OTHER -> size
Reaches(size, f) == f = [n \in Node |-> ReachNode(size, f, n)]

LEMMA SameReach ==
  ASSUME NEW size, NEW f, NEW g, NEW n \in Node, \A child \in Children(n) : f[child] = g[child]
  PROVE  ReachNode(size, f, n) = ReachNode(size, g, n)
<1> DEFINE cfg == Tree[n]
<1>1. CASE cfg.type = "rrf"
  <2>1. \A i \in DOMAIN cfg.retrievers : f[cfg.retrievers[i]] = g[cfg.retrievers[i]]
    BY <1>1 DEF Children
  <2>2. {f[cfg.retrievers[i]] : i \in DOMAIN cfg.retrievers}
          = {g[cfg.retrievers[i]] : i \in DOMAIN cfg.retrievers}
    BY <2>1
  <2> QED BY <1>1, <2>2 DEF ReachNode
<1>2. CASE cfg.type = "rerank"
  <2>1. f[cfg.inner] = g[cfg.inner]
    BY <1>2 DEF Children
  <2> QED BY <1>2, <2>1 DEF ReachNode
<1>3. CASE cfg.type \notin {"rrf", "rerank"}
  BY <1>3 DEF ReachNode
<1> QED BY <1>1, <1>2, <1>3

\* The recursion of Reach ends.
LEMMA ReachEnds ==
  ASSUME NEW size
  PROVE  \E f : Reaches(size, f)
<1>1. PICK limit \in Nat, height \in [Node -> Nat] :
        /\ \A n \in Node : height[n] < limit
        /\ \A n \in Node : \A child \in Children(n) : child \in Node /\ height[child] < height[n]
  BY Heights
<1> DEFINE Below(h) == {n \in Node : height[n] < h}
           Partly(h, f) == f = [n \in Below(h) |-> ReachNode(size, f, n)]
           Bad == {h \in Nat : ~ \E f : Partly(h, f)}
<1>2. Bad = {}
  <2> SUFFICES ASSUME Bad # {} PROVE FALSE
    OBVIOUS
  <2>1. PICK h \in Bad : \A g \in Bad : h <= g
    <3>1. Bad \in SUBSET Nat
      OBVIOUS
    <3> HIDE DEF Bad
    <3> QED BY <3>1, LeastNumber
  <2>2. h # 0
    <3> SUFFICES ASSUME h = 0 PROVE FALSE
      OBVIOUS
    <3>1. Below(0) = {}
      OBVIOUS
    <3> DEFINE none == [n \in {} |-> 0]
    <3>2. Partly(0, none)
      BY <3>1
    <3> QED BY <2>1, <3>2
  <2>3. h - 1 \in Nat /\ h - 1 \notin Bad
    <3>1. h \in Nat
      BY <2>1
    <3> HIDE DEF Bad
    <3> QED BY <2>1, <2>2, <3>1
  <2>4. PICK f : Partly(h - 1, f)
    BY <2>3
  <2> DEFINE g == [n \in Below(h) |-> ReachNode(size, f, n)]
  <2>5. \A n \in Below(h - 1) : g[n] = f[n]
    <3>1. \A n \in Below(h - 1) : n \in Below(h)
      BY <2>1, <2>3
    <3>2. \A n \in Below(h - 1) : f[n] = ReachNode(size, f, n)
      BY <2>4
    <3> QED BY <3>1, <3>2
  <2>6. ASSUME NEW n \in Below(h)
        PROVE  ReachNode(size, f, n) = ReachNode(size, g, n)
    <3>1. \A child \in Children(n) : child \in Below(h - 1)
      BY <1>1, <2>1, <2>3
    <3>2. \A child \in Children(n) : f[child] = g[child]
      BY <2>5, <3>1
    <3>3. n \in Node
      OBVIOUS
    <3> HIDE DEF g
    <3> QED BY <3>2, <3>3, SameReach
  <2>7. Partly(h, g)
    BY <2>6
  <2> QED BY <2>1, <2>7
<1>3. PICK f : Partly(limit, f)
  BY <1>2
<1>4. Below(limit) = Node
  BY <1>1
<1> QED BY <1>3, <1>4 DEF Reaches

LEMMA ReachIsIt ==
  ASSUME NEW size
  PROVE  Reaches(size, Reach(size))
<1> DEFINE reach[n \in Node] ==
             LET cfg == Tree[n]
             IN  CASE cfg.type = "rerank" -> Smaller(cfg.candidate_k, reach[cfg.inner])
                   [] cfg.type = "rrf" ->
                        Max({0} \cup {reach[cfg.retrievers[i]] : i \in DOMAIN cfg.retrievers})
                   [] OTHER -> size
<1>1. reach = [n \in Node |-> ReachNode(size, reach, n)]
  BY ReachEnds DEF Reaches, ReachNode
<1>2. Reach(size) = reach
  BY DEF Reach
<1> HIDE DEF reach
<1> QED BY <1>1, <1>2 DEF Reaches

\* What a composite asks for, and from whom.
LEMMA CompositeTypes ==
  ASSUME NEW n \in Node
  PROVE  /\ Tree[n].type \in {"bm25", "dense", "rrf", "rerank"}
         /\ Tree[n].type \in {"bm25", "dense"} => Tree[n].key \in Key
         /\ Tree[n].type = "rerank" =>
              Tree[n].candidate_k \in Nat /\ Tree[n].inner \in Children(n)
         /\ Tree[n].type = "rrf" =>
              /\ Tree[n].rrf_k \in Nat /\ Tree[n].retrievers \in Seq(Node)
              /\ \A i \in DOMAIN Tree[n].retrievers : Tree[n].retrievers[i] \in Children(n)
  BY TreeAssumption DEF Entry, Children

LEMMA ReachNodeType ==
  ASSUME NEW size \in Nat, NEW f, NEW n \in Node, \A child \in Children(n) : f[child] \in 0 .. size
  PROVE  ReachNode(size, f, n) \in 0 .. size
<1> DEFINE cfg == Tree[n]
<1>1. CASE cfg.type = "rrf"
  <2> DEFINE S == {0} \cup {f[cfg.retrievers[i]] : i \in DOMAIN cfg.retrievers}
  <2>1. S \in SUBSET (0 .. size) /\ S # {}
    BY <1>1, CompositeTypes
  <2>2. ReachNode(size, f, n) = Max(S)
    BY <1>1 DEF ReachNode
  <2> HIDE DEF S
  <2> QED BY <2>1, <2>2, Greatest
<1>2. CASE cfg.type = "rerank"
  <2>1. cfg.candidate_k \in Nat /\ f[cfg.inner] \in 0 .. size
    BY <1>2, CompositeTypes
  <2>2. ReachNode(size, f, n) = Smaller(cfg.candidate_k, f[cfg.inner])
    BY <1>2 DEF ReachNode
  <2> QED BY <2>1, <2>2 DEF Smaller
<1>3. CASE cfg.type \notin {"rrf", "rerank"}
  BY <1>3 DEF ReachNode
<1> QED BY <1>1, <1>2, <1>3

\* A node searched to depth k delivers that much, or all it can reach, and nothing twice.
Delivers(s, k, reach) ==
  Ranking(s) /\ Len(s) <= k /\ Smaller(k, reach) <= Len(s)
DeliversIn(f, r, n) == \A k \in Nat : Delivers(f[n][k], k, r[n])

LEMMA NodeDelivers ==
  ASSUME NEW c \in AllCorpora, NEW m \in Model, NEW leaves, NEW size,
         leaves = [k \in Key |-> Leaf(c, Embedded(m, c))], size = Len(c.ids),
         NEW f, NEW r, NEW n \in Node, NEW k \in Nat,
         \A child \in Children(n) : r[child] \in 0 .. size /\ DeliversIn(f, r, child)
  PROVE  Delivers(SearchNode(leaves, f, n, k), k, ReachNode(size, r, n))
<1> DEFINE cfg == Tree[n]
<1>0. size \in Nat
  BY CorpusRecord
<1>1. CASE cfg.type \in {"bm25", "dense"}
  <2>1. leaves[cfg.key] = Leaf(c, Embedded(m, c))
    BY <1>1, CompositeTypes
  <2>2. ReachNode(size, r, n) = size
    BY <1>1 DEF ReachNode
  <2>3. PICK s : s = SearchNode(leaves, f, n, k)
    OBVIOUS
  <2>4. Ranking(s) /\ Len(s) = Smaller(k, size)
    <3>1. CASE cfg.type = "bm25"
      <4>1. s = SearchBM25(Leaf(c, Embedded(m, c)), k)
        BY <2>1, <2>3, <3>1 DEF SearchNode
      <4> QED BY <4>1, LeafRanking
    <3>2. CASE cfg.type = "dense"
      <4>1. s = SearchDense(Leaf(c, Embedded(m, c)), k)
        BY <2>1, <2>3, <3>2 DEF SearchNode
      <4> QED BY <4>1, LeafRanking
    <3> QED BY <1>1, <3>1, <3>2
  <2>5. Len(s) <= k /\ Smaller(k, size) <= Len(s)
    <3>1. Smaller(k, size) \in Nat /\ Smaller(k, size) <= k
      BY <1>0, SmallerIs
    <3> QED BY <2>4, <3>1
  <2>6. Delivers(s, k, size)
    BY <2>4, <2>5 DEF Delivers
  <2> QED BY <2>2, <2>3, <2>6
<1>2. CASE cfg.type = "rerank"
  <2> DEFINE pool == f[cfg.inner][cfg.candidate_k]
             s == Rerank(pool, k)
  <2>1. /\ cfg.candidate_k \in Nat /\ r[cfg.inner] \in 0 .. size
        /\ Delivers(pool, cfg.candidate_k, r[cfg.inner])
    BY <1>2, CompositeTypes DEF DeliversIn
  <2>2. SearchNode(leaves, f, n, k) = s
    BY <1>2 DEF SearchNode, ChildDepth
  <2>3. ReachNode(size, r, n) = Smaller(cfg.candidate_k, r[cfg.inner])
    BY <1>2 DEF ReachNode
  <2> HIDE DEF pool
  <2>4. Ranking(pool) /\ Len(pool) \in Nat
    BY <2>1 DEF Delivers, Ranking
  <2>5. Ranking(s) /\ Len(s) = Smaller(k, Len(pool))
    BY <2>4, RerankRanking
  <2>6. Smaller(cfg.candidate_k, r[cfg.inner]) \in Nat
        /\ Smaller(cfg.candidate_k, r[cfg.inner]) <= Len(pool)
    <3>1. r[cfg.inner] \in Nat
      BY <1>0, <2>1
    <3> HIDE DEF cfg
    <3> QED BY <2>1, <3>1, SmallerIs DEF Delivers
  <2> HIDE DEF s
  <2>7. Len(s) <= k /\ Smaller(k, Smaller(cfg.candidate_k, r[cfg.inner])) <= Len(s)
    <3>1. ASSUME NEW a \in Nat, NEW b \in Nat, a <= b
          PROVE  Smaller(k, b) <= k /\ Smaller(k, a) <= Smaller(k, b)
      BY <3>1 DEF Smaller
    <3> QED BY <2>4, <2>5, <2>6, <3>1
  <2> QED BY <2>2, <2>3, <2>5, <2>7 DEF Delivers
<1>3. CASE cfg.type = "rrf"
  <2> DEFINE lists == [i \in DOMAIN cfg.retrievers |-> f[cfg.retrievers[i]][k]]
             s == Fuse(lists, cfg.rrf_k, k)
             S == {0} \cup {r[cfg.retrievers[i]] : i \in DOMAIN cfg.retrievers}
  <2>1. /\ cfg.rrf_k \in Nat /\ Len(cfg.retrievers) \in Nat
        /\ DOMAIN cfg.retrievers = 1 .. Len(cfg.retrievers)
    BY <1>3, CompositeTypes
  <2>2. ASSUME NEW i \in DOMAIN cfg.retrievers
        PROVE  /\ r[cfg.retrievers[i]] \in 0 .. size
               /\ Delivers(f[cfg.retrievers[i]][k], k, r[cfg.retrievers[i]])
    BY <1>3, CompositeTypes DEF DeliversIn
  <2>3. SearchNode(leaves, f, n, k) = s
    BY <1>3 DEF SearchNode, ChildDepth
  <2>4. ReachNode(size, r, n) = Max(S)
    BY <1>3 DEF ReachNode
  <2>5. Lists(lists)
    <3>1. \A i \in DOMAIN cfg.retrievers : Ranking(lists[i]) /\ lists[i] \in Seq(HitType)
      BY <2>2 DEF Delivers, Ranking
    <3>2. lists \in [1 .. Len(cfg.retrievers) -> Seq(HitType)]
      BY <2>1, <3>1
    <3>3. lists \in Seq(Seq(HitType))
      BY <2>1, <3>2
    <3> QED BY <3>1, <3>3 DEF Lists
  <2>6. S \in SUBSET (0 .. size) /\ S # {}
    BY <1>0, <2>2
  <2>7. Max(S) \in S
    <3> HIDE DEF S
    <3> QED BY <1>0, <2>6, Greatest
  <2>8. PICK top : top = Max(S)
    OBVIOUS
  <2>9. top = 0 \/ \E i \in DOMAIN cfg.retrievers : top = r[cfg.retrievers[i]]
    BY <2>7, <2>8
  <2>10. \A i \in DOMAIN cfg.retrievers :
           Smaller(k, r[cfg.retrievers[i]]) <= Len(lists[i]) /\ Len(lists[i]) \in Nat
    <3>1. \A i \in DOMAIN cfg.retrievers : lists[i] \in Seq(HitType)
      BY <2>2 DEF Delivers, Ranking
    <3>2. \A i \in DOMAIN cfg.retrievers : Smaller(k, r[cfg.retrievers[i]]) <= Len(lists[i])
      BY <2>2 DEF Delivers
    <3> HIDE DEF lists
    <3> QED BY <3>1, <3>2
  <2>11. DOMAIN lists = DOMAIN cfg.retrievers
    OBVIOUS
  <2> HIDE DEF lists
  <2>12. PICK L : L = Len(Seen(lists))
    OBVIOUS
  <2>13. L \in Nat /\ \A i \in DOMAIN cfg.retrievers : Len(lists[i]) <= L
    <3>1. Ranking(Seen(lists)) /\ \A i \in DOMAIN lists : Len(lists[i]) <= Len(Seen(lists))
      BY <2>5, SeenRanking
    <3> QED BY <2>11, <2>12, <3>1 DEF Ranking
  <2>14. Ranking(s) /\ Len(s) = Smaller(k, L)
    BY <2>1, <2>5, <2>12, FuseRanking
  <2>15. top \in Nat /\ Smaller(k, top) <= L
    <3>1. CASE top = 0
      BY <2>13, <3>1 DEF Smaller
    <3>2. ASSUME NEW i \in DOMAIN cfg.retrievers, top = r[cfg.retrievers[i]]
          PROVE  top \in Nat /\ Smaller(k, top) <= L
      <4>1. top \in Nat
        BY <1>0, <2>2, <3>2
      <4>2. Smaller(k, top) \in Nat
        BY <4>1, SmallerIs
      <4>3. Smaller(k, top) <= Len(lists[i]) /\ Len(lists[i]) \in Nat /\ Len(lists[i]) <= L
        BY <2>10, <2>13, <3>2
      <4> QED BY <2>13, <4>1, <4>2, <4>3
    <3> QED BY <2>9, <3>1, <3>2
  <2>16. Len(s) <= k /\ Smaller(k, top) <= Len(s)
    <3>1. Smaller(k, L) <= k /\ Smaller(k, top) <= Smaller(k, L)
      BY <2>13, <2>15 DEF Smaller
    <3> HIDE DEF s
    <3> QED BY <2>14, <3>1
  <2> QED BY <2>3, <2>4, <2>8, <2>14, <2>16 DEF Delivers
<1> QED BY <1>1, <1>2, <1>3, CompositeTypes

\* The depth rule, for a search over leaves built afresh.
LEMMA SearchDelivers ==
  ASSUME NEW c \in AllCorpora, NEW m \in Model, NEW leaves,
         leaves = [k \in Key |-> Leaf(c, Embedded(m, c))],
         NEW n \in Node, NEW k \in Nat
  PROVE  /\ Delivers(Search(leaves, n, k), k, Reach(Len(c.ids))[n])
         /\ Reach(Len(c.ids))[n] \in Nat
<1> DEFINE size == Len(c.ids)
           r == Reach(size)
<1>1. PICK limit \in Nat, height \in [Node -> Nat] :
        /\ \A l \in Node : height[l] < limit
        /\ \A l \in Node : \A child \in Children(l) : child \in Node /\ height[child] < height[l]
  BY Heights
<1>2. PICK f : Finds(leaves, f) /\ \A l \in Node, d \in Nat : Search(leaves, l, d) = f[l][d]
  BY SearchIsFound
<1>3. size \in Nat
  BY CorpusRecord
<1>4. \A l \in Node : r[l] = ReachNode(size, r, l)
  <2>1. Reaches(size, r)
    BY ReachIsIt
  <2> HIDE DEF r, size
  <2> QED BY <2>1 DEF Reaches
<1>5. ASSUME NEW l \in Node, NEW d \in Nat PROVE f[l][d] = SearchNode(leaves, f, l, d)
  <2>1. f = [h \in Node |-> [depth \in Nat |-> SearchNode(leaves, f, h, depth)]]
    BY <1>2 DEF Finds
  <2>2. f[l] = [depth \in Nat |-> SearchNode(leaves, f, l, depth)]
    BY <2>1
  <2> QED BY <2>2
<1> HIDE DEF r
<1> DEFINE Good(l) == r[l] \in 0 .. size /\ DeliversIn(f, r, l)
           Bad == {h \in Nat : \E l \in Node : height[l] = h /\ ~Good(l)}
<1>6. Bad = {}
  <2> SUFFICES ASSUME Bad # {} PROVE FALSE
    OBVIOUS
  <2>1. PICK h \in Bad : \A g \in Bad : h <= g
    <3>1. Bad \in SUBSET Nat
      OBVIOUS
    <3> HIDE DEF Bad
    <3> QED BY <3>1, LeastNumber
  <2>2. PICK l \in Node : height[l] = h /\ ~Good(l)
    BY <2>1
  <2>3. \A child \in Children(l) : Good(child)
    <3> SUFFICES ASSUME NEW child \in Children(l), ~Good(child) PROVE FALSE
      OBVIOUS
    <3>1. child \in Node /\ height[child] \in Nat /\ height[child] < h
      BY <1>1, <2>2
    <3>2. height[child] \in Bad
      BY <3>1
    <3>3. h \in Nat
      BY <2>1
    <3> HIDE DEF Bad
    <3> QED BY <2>1, <3>1, <3>2, <3>3
  <2>4. r[l] \in 0 .. size
    <3> HIDE DEF size
    <3> QED BY <1>3, <1>4, <2>3, ReachNodeType
  <2>5. ASSUME NEW d \in Nat PROVE Delivers(f[l][d], d, r[l])
    <3>1. Delivers(SearchNode(leaves, f, l, d), d, ReachNode(size, r, l))
      BY <2>3, NodeDelivers
    <3> HIDE DEF size
    <3> QED BY <1>4, <1>5, <3>1
  <2> QED BY <2>2, <2>4, <2>5 DEF DeliversIn
<1>7. Good(n)
  BY <1>1, <1>6
<1>8. Delivers(f[n][k], k, r[n])
  BY <1>7 DEF DeliversIn
<1> QED BY <1>2, <1>3, <1>7, <1>8 DEF r

-----------------------------------------------------------------------------
(* What a sweep has built when it searches                                 *)

Fresh(run) == [k \in Key |-> Leaf(run.corpus, Embedded(run.model, run.corpus))]
Transparent(run) ==
  /\ run.corpus \in AllCorpora /\ run.model \in Model /\ Pipeline[run.experiment] \in Node
  /\ run.ranking = Ids(Search(Fresh(run), Pipeline[run.experiment], FetchK))

Preparing == {"build"} \cup Loading

\* The nodes of calls, and those whose inner one has been asked for.
Nodes(s) == {s[i].node : i \in DOMAIN s}
Begun(s) == {s[i].node : i \in {j \in DOMAIN s : s[j].built}}

\* Nothing of node n is missing but what is missing in D.
Ready(n, keys, D) ==
  /\ Children(n) \subseteq D
  /\ Tree[n].type \in {"bm25", "dense"} => Tree[n].key \in keys

\* All of the pipeline at root that is not built, with the keys, is still to be called.
Covered(root, s, keys, D) ==
  /\ root \in D
  /\ \A n \in D : n \in Nodes(s) \/ Ready(n, keys, D)
  /\ \A n \in Begun(s) : Children(n) \subseteq D
BuildInv(p) ==
  pc[p] \in Preparing =>
    \E D \in SUBSET Node : Covered(Pipeline[Head(todo[p])], calls[p], DOMAIN index[p], D)

LoadInv(p) == pc[p] \in Loading => Called(p).type = "dense"
KeepInv(p) == \A k \in DOMAIN index[p] : index[p][k].corpus = own[p]
RankInv(p) == pc[p] = "open run" => Transparent(result[p])
SweepInv(p) == BuildInv(p) /\ LoadInv(p) /\ KeepInv(p) /\ RankInv(p)

SearchInv ==
  /\ DOMAIN todo = Process
  /\ \A run \in runs : Transparent(run)
  /\ \A p \in Process : SweepInv(p)

SInv == IInv /\ RunInv /\ SearchInv

LEMMA Domains ==
  ASSUME SInv
  PROVE  /\ DOMAIN pc = Process /\ DOMAIN own = Process /\ DOMAIN todo = Process
         /\ DOMAIN calls = Process /\ DOMAIN index = Process /\ DOMAIN result = Process
         /\ DOMAIN model = Process
  BY DEF SInv, IInv, SweepTypeOK, RunInv, RunTypes, SearchInv

\* What another process sees of a step of p.
Apart(p) ==
  /\ DOMAIN todo' = Process
  /\ \A q \in Process \ {p} :
       /\ pc'[q] = pc[q] /\ own'[q] = own[q] /\ todo'[q] = todo[q]
       /\ calls'[q] = calls[q] /\ index'[q] = index[q] /\ result'[q] = result[q]

LEMMA SweepApart ==
  ASSUME SInv, NEW p \in Process, Step(p)
  PROVE  Apart(p)
<1>1. CASE Exit(p)
  BY <1>1, Domains DEF Exit, GoTo, Apart
<1>2. CASE StartSweep(p)
  <2>1. PICK d \in Dataset, s \in Sweeps : /\ own' = [own EXCEPT ![p] = corpus[d]]
                                           /\ todo' = [todo EXCEPT ![p] = s]
    BY <1>2 DEF StartSweep
  <2> QED BY <1>2, <2>1, Domains DEF StartSweep, GoTo, building, Apart
<1>3. CASE NextExperiment(p) /\ ~Raise(p)
  BY <1>3, Domains DEF NextExperiment, GoTo, job, Apart
<1>4. CASE ReuseLeaf(p) \/ BuildFusion(p)
  BY <1>4, Domains DEF ReuseLeaf, BuildFusion, job, Apart
<1>5. CASE BuildReranker(p) /\ ~Raise(p)
  BY <1>5, Domains DEF BuildReranker, job, Apart
<1>6. CASE BuildBM25(p) \/ BuildDense(p)
  BY <1>6, Domains DEF BuildBM25, BuildDense, KeepLeaf, GoTo, job, building, Apart
<1>7. CASE (ReadIds(p) \/ ReadRows(p) \/ Embed(p)) /\ ~Raise(p)
  BY <1>7, Domains DEF ReadIds, ReadRows, Embed, KeepLeaf, GoTo, job, building, Apart
<1>8. CASE OpenRows(p) \/ WriteRows(p) \/ OpenIds(p) \/ WriteIds(p)
  BY <1>8, Domains DEF OpenRows, WriteRows, OpenIds, WriteIds, KeepLeaf, GoTo, job, building, Apart
<1>9. CASE Evaluate(p) \/ OpenRun(p) \/ WriteRun(p)
  BY <1>9, Domains DEF Evaluate, OpenRun, WriteRun, GoTo, job, building, Apart
<1>10. CASE StartReport(p) \/ (ReadRun(p) /\ ~Raise(p))
  BY <1>10, Domains DEF StartReport, ReadRun, GoTo, job, building, Apart
<1>11. CASE Raise(p) \/ EvaluateFails(p) \/ WriteReport(p) \/ Kill(p)
  BY <1>1, <1>11 DEF Raise, EvaluateFails, WriteReport, Kill
<1> QED BY <1>2, <1>3, <1>4, <1>5, <1>6, <1>7, <1>8, <1>9, <1>10, <1>11 DEF Step

LEMMA ApartKeeps ==
  ASSUME SInv, NEW p \in Process, Apart(p), NEW q \in Process \ {p}
  PROVE  SweepInv(q)'
<1>1. /\ pc'[q] = pc[q] /\ own'[q] = own[q] /\ todo'[q] = todo[q]
      /\ calls'[q] = calls[q] /\ index'[q] = index[q] /\ result'[q] = result[q]
  BY DEF Apart
<1>2. SweepInv(q)
  BY DEF SInv, SearchInv
<1>3. BuildInv(q)'
  BY <1>1, <1>2 DEF SweepInv, BuildInv
<1>4. LoadInv(q)' /\ KeepInv(q)'
  BY <1>1, <1>2 DEF SweepInv, LoadInv, KeepInv, Called
<1>5. RankInv(q)'
  BY <1>1, <1>2 DEF SweepInv, RankInv, Transparent, Fresh
<1> QED BY <1>3, <1>4, <1>5 DEF SweepInv

-----------------------------------------------------------------------------
(* The calls of a build                                                    *)

\* The call on top and those below it.
LEMMA TopCall ==
  ASSUME NEW s \in Calls, s # <<>>
  PROVE  \A i \in DOMAIN s : s[i] = Head(s) \/ \E j \in DOMAIN Tail(s) : s[i] = Tail(s)[j]
<1> DEFINE R == [node : Node, built : BOOLEAN]
<1>1. s \in Seq(R)
  BY DEF Calls
<1> HIDE DEF R
<1> SUFFICES ASSUME NEW i \in DOMAIN s, i # 1
             PROVE  \E j \in DOMAIN Tail(s) : s[i] = Tail(s)[j]
  BY <1>1
<1>2. i - 1 \in DOMAIN Tail(s) /\ s[i] = Tail(s)[i - 1]
  BY <1>1
<1> QED BY <1>2

LEMMA RestCalls ==
  ASSUME NEW s \in Calls, s # <<>>
  PROVE  \A j \in DOMAIN Tail(s) : \E i \in DOMAIN s : s[i] = Tail(s)[j]
<1> DEFINE R == [node : Node, built : BOOLEAN]
<1>1. s \in Seq(R)
  BY DEF Calls
<1> HIDE DEF R
<1> SUFFICES ASSUME NEW j \in DOMAIN Tail(s) PROVE \E i \in DOMAIN s : s[i] = Tail(s)[j]
  OBVIOUS
<1>2. j + 1 \in DOMAIN s /\ s[j + 1] = Tail(s)[j]
  BY <1>1
<1> QED BY <1>2

LEMMA PushedCalls ==
  ASSUME NEW s \in Calls, NEW t \in Calls
  PROVE  /\ \A i \in DOMAIN (s \o t) :
              \/ \E j \in DOMAIN s : (s \o t)[i] = s[j]
              \/ \E j \in DOMAIN t : (s \o t)[i] = t[j]
         /\ \A j \in DOMAIN s : \E i \in DOMAIN (s \o t) : (s \o t)[i] = s[j]
         /\ \A j \in DOMAIN t : \E i \in DOMAIN (s \o t) : (s \o t)[i] = t[j]
<1> DEFINE R == [node : Node, built : BOOLEAN]
<1>1. s \in Seq(R) /\ t \in Seq(R)
  BY DEF Calls
<1> HIDE DEF R
<1>2. /\ Range(s \o t) = Range(s) \cup Range(t)
  BY <1>1, RangeConcatenation
<1> QED BY <1>2 DEF Range

\* A call that is done with leaves its node ready.
LEMMA CallDone ==
  ASSUME NEW s \in Calls, s # <<>>, NEW root, NEW K, NEW L, NEW D, Covered(root, s, K, D),
         K \subseteq L, Ready(Head(s).node, L, D)
  PROVE  Covered(root, Tail(s), L, D)
<1>1. \A n \in Nodes(s) : n = Head(s).node \/ n \in Nodes(Tail(s))
  BY TopCall DEF Nodes
<1>2. Begun(Tail(s)) \subseteq Begun(s)
  BY RestCalls DEF Begun
<1>3. ASSUME NEW n, Ready(n, K, D) PROVE Ready(n, L, D)
  BY <1>3 DEF Ready
<1> QED BY <1>1, <1>2, <1>3 DEF Covered

\* The calls a composite adds stand for its children.
LEMMA CallsAdded ==
  ASSUME NEW s \in Calls, s # <<>>, NEW root, NEW K, NEW D, Covered(root, s, K, D),
         NEW t \in Calls, NEW n, n = Head(s).node, Tree[n].type \notin {"bm25", "dense"},
         \A i \in DOMAIN t : t[i].built => t[i].node = n,
         Children(n) \subseteq Nodes(t)
  PROVE  Covered(root, t \o Tail(s), K, D \cup Children(n))
<1> DEFINE r == Tail(s)
           E == D \cup Children(n)
<1>1. r \in Calls
  BY DEF Calls
<1>2. /\ \A m \in Nodes(s) : m = n \/ m \in Nodes(r)
      /\ Begun(r) \subseteq Begun(s)
  BY TopCall, RestCalls DEF Nodes, Begun
<1> HIDE DEF r
<1>3. Nodes(t) \subseteq Nodes(t \o r) /\ Nodes(r) \subseteq Nodes(t \o r)
  <2>1. ASSUME NEW j \in DOMAIN t PROVE t[j].node \in Nodes(t \o r)
    <3>1. PICK i \in DOMAIN (t \o r) : (t \o r)[i] = t[j]
      BY <1>1, PushedCalls
    <3> QED BY <3>1 DEF Nodes
  <2>2. ASSUME NEW j \in DOMAIN r PROVE r[j].node \in Nodes(t \o r)
    <3>1. PICK i \in DOMAIN (t \o r) : (t \o r)[i] = r[j]
      BY <1>1, PushedCalls
    <3> QED BY <3>1 DEF Nodes
  <2> HIDE DEF r
  <2> QED BY <2>1, <2>2 DEF Nodes
<1>4. \A m \in Begun(t \o r) : m = n \/ m \in Begun(r)
  <2> SUFFICES ASSUME NEW m \in Begun(t \o r) PROVE m = n \/ m \in Begun(r)
    OBVIOUS
  <2>1. PICK i \in DOMAIN (t \o r) : (t \o r)[i].built /\ m = (t \o r)[i].node
    BY DEF Begun
  <2>2. CASE \E j \in DOMAIN t : (t \o r)[i] = t[j]
    BY <2>1, <2>2
  <2>3. CASE \E j \in DOMAIN r : (t \o r)[i] = r[j]
    BY <2>1, <2>3 DEF Begun
  <2>4. \A k \in DOMAIN (t \o r) : \/ \E j \in DOMAIN t : (t \o r)[k] = t[j]
                                  \/ \E j \in DOMAIN r : (t \o r)[k] = r[j]
    BY <1>1, PushedCalls
  <2> QED BY <2>2, <2>3, <2>4
<1>5. ASSUME NEW m, Ready(m, K, D) PROVE Ready(m, K, E)
  BY <1>5 DEF Ready
<1>6. Ready(n, K, E)
  BY DEF Ready
<1>7. ASSUME NEW m \in E PROVE m \in Nodes(t \o r) \/ Ready(m, K, E)
  <2>1. CASE m \in D
    BY <1>2, <1>3, <1>5, <1>6, <2>1 DEF Covered
  <2>2. CASE m \in Children(n)
    BY <1>3, <2>2
  <2> QED BY <2>1, <2>2
<1>8. ASSUME NEW m \in Begun(t \o r) PROVE Children(m) \subseteq E
  BY <1>2, <1>4 DEF Covered
<1>9. root \in E
  BY DEF Covered
<1> HIDE DEF E
<1>10. Covered(root, t \o r, K, E)
  BY <1>7, <1>8, <1>9 DEF Covered
<1> QED BY <1>10 DEF E, r

\* A step of a build that leaves what is built alone.
Still(p) == UNCHANGED <<pc, own, todo, index, result>>

LEMMA LeafReady ==
  ASSUME SInv, NEW p \in Process, calls[p] # <<>>, pc[p] \in Preparing,
         Called(p).type \in {"bm25", "dense"},
         calls'[p] = Tail(calls[p]), todo'[p] = todo[p],
         DOMAIN index[p] \subseteq DOMAIN index'[p], Called(p).key \in DOMAIN index'[p]
  PROVE  BuildInv(p)'
<1> DEFINE root == Pipeline[Head(todo[p])]
<1>1. PICK D \in SUBSET Node : Covered(root, calls[p], DOMAIN index[p], D)
  BY DEF SInv, SearchInv, SweepInv, BuildInv
<1>2. PICK L : L = DOMAIN index'[p]
  OBVIOUS
<1>3. PICK s : s = calls[p]
  OBVIOUS
<1>4. s \in Calls
  BY <1>3 DEF SInv, IInv, SweepTypeOK, Calls
<1>5. Ready(Head(s).node, L, D)
  BY <1>2, <1>3 DEF Ready, Called, Children
<1>6. Covered(root, Tail(s), L, D)
  BY <1>1, <1>2, <1>3, <1>4, <1>5, CallDone
<1>7. Covered(Pipeline[Head(todo'[p])], calls'[p], DOMAIN index'[p], D)
  BY <1>2, <1>3, <1>6
<1> QED BY <1>7 DEF BuildInv

LEMMA ReuseBuilds ==
  ASSUME SInv, NEW p \in Process, ReuseLeaf(p)
  PROVE  SweepInv(p)'
<1>1. /\ pc[p] = "build" /\ calls[p] # <<>> /\ Called(p).type \in {"bm25", "dense"}
      /\ Called(p).key \in DOMAIN index[p]
      /\ calls'[p] = Tail(calls[p]) /\ UNCHANGED <<pc, own, todo, index, result>>
  BY Domains DEF ReuseLeaf, Building, Cached, job
<1>2. BuildInv(p)'
  BY <1>1, LeafReady DEF Preparing
<1> QED BY <1>1, <1>2 DEF SInv, SearchInv, SweepInv, LoadInv, KeepInv, RankInv, Loading

LEMMA KeepLeafBuilds ==
  ASSUME SInv, NEW p \in Process, pc[p] \in Preparing, calls[p] # <<>>,
         Called(p).type \in {"bm25", "dense"}, NEW rows, KeepLeaf(p, rows),
         UNCHANGED <<own, todo>>
  PROVE  SweepInv(p)'
<1>1. /\ DOMAIN index'[p] = DOMAIN index[p] \cup {Called(p).key}
      /\ \A k \in DOMAIN index'[p] :
           index'[p][k] = IF k = Called(p).key THEN Leaf(own[p], rows) ELSE index[p][k]
      /\ calls'[p] = Tail(calls[p]) /\ pc'[p] = "build"
  BY Domains DEF KeepLeaf, GoTo
<1>2. BuildInv(p)'
  BY <1>1, LeafReady
<1>3. KeepInv(p)'
  BY <1>1 DEF SInv, SearchInv, SweepInv, KeepInv, Leaf
<1> QED BY <1>1, <1>2, <1>3 DEF SweepInv, LoadInv, RankInv, Loading

\* Steps within the loading of a leaf.
LEMMA LoadingBuilds ==
  ASSUME SInv, NEW p \in Process, pc[p] \in Preparing, pc'[p] \in Loading,
         Called(p).type = "dense", UNCHANGED <<own, todo, calls, index>>
  PROVE  SweepInv(p)'
<1>1. BuildInv(p)
  BY DEF SInv, SearchInv, SweepInv
<1>2. BuildInv(p)'
  BY <1>1 DEF BuildInv
<1>3. LoadInv(p)' /\ KeepInv(p)'
  BY DEF SInv, SearchInv, SweepInv, LoadInv, KeepInv, Called
<1> QED BY <1>2, <1>3 DEF SweepInv, RankInv, Loading

LEMMA NextExperimentBuilds ==
  ASSUME SInv, NEW p \in Process, NextExperiment(p), ~Raise(p)
  PROVE  SweepInv(p)'
<1>1. PICK root : root = Pipeline[Head(todo[p])]
  OBVIOUS
<1>2. /\ Head(todo[p]) \in Experiment /\ pc'[p] = "build"
      /\ calls'[p] = <<Call(root)>> /\ UNCHANGED <<own, todo, index, result>>
  BY <1>1, Domains DEF NextExperiment, GoTo, job
<1>3. root \in Node
  BY <1>1, <1>2, PipelineAssumption
<1>4. Nodes(<<Call(root)>>) = {root} /\ Begun(<<Call(root)>>) = {}
  BY DEF Call, Nodes, Begun
<1>5. ASSUME NEW K PROVE Covered(root, <<Call(root)>>, K, {root})
  BY <1>4 DEF Covered
<1>6. BuildInv(p)'
  BY <1>1, <1>2, <1>3, <1>5 DEF BuildInv
<1> QED BY <1>2, <1>6 DEF SInv, SearchInv, SweepInv, LoadInv, KeepInv, RankInv, Loading

LEMMA StillBuilds ==
  ASSUME SInv, NEW p \in Process, pc[p] = "build", Still(p), BuildInv(p)'
  PROVE  SweepInv(p)'
BY DEF Still, SInv, SearchInv, SweepInv, LoadInv, KeepInv, RankInv, Loading

LEMMA AddedBuilds ==
  ASSUME SInv, NEW p \in Process, pc[p] = "build", calls[p] # <<>>, NEW t \in Calls,
         calls'[p] = t \o Tail(calls[p]), Still(p),
         Called(p).type \notin {"bm25", "dense"},
         \A i \in DOMAIN t : t[i].built => t[i].node = Head(calls[p]).node,
         Children(Head(calls[p]).node) \subseteq Nodes(t)
  PROVE  SweepInv(p)'
<1> DEFINE root == Pipeline[Head(todo[p])]
<1>1. PICK D \in SUBSET Node : Covered(root, calls[p], DOMAIN index[p], D)
  BY DEF SInv, SearchInv, SweepInv, BuildInv, Preparing
<1>2. PICK s : s = calls[p]
  OBVIOUS
<1>3. PICK n : n = Head(s).node
  OBVIOUS
<1>4. s \in Calls /\ n \in Node /\ Children(n) \subseteq Node
  <2>1. s \in Calls /\ n \in Node
    BY <1>2, <1>3, CalledType DEF SInv, IInv, SweepTypeOK, Calls
  <2> QED BY <2>1, Heights
<1>5. Tree[n].type \notin {"bm25", "dense"}
  BY <1>2, <1>3 DEF Called
<1>6. Covered(root, t \o Tail(s), DOMAIN index[p], D \cup Children(n))
  BY <1>1, <1>2, <1>3, <1>4, <1>5, CallsAdded
<1>7. BuildInv(p)'
  BY <1>2, <1>4, <1>6 DEF BuildInv, Still
<1> QED BY <1>7, StillBuilds

LEMMA CallsOfNodes ==
  ASSUME NEW r \in Seq(Node)
  PROVE  [i \in DOMAIN r |-> Call(r[i])] \in Calls
<1> DEFINE R == [node : Node, built : BOOLEAN]
           t == [i \in DOMAIN r |-> Call(r[i])]
<1>1. \A i \in DOMAIN r : Call(r[i]) \in R
  BY CallTypes
<1> HIDE DEF R
<1>2. DOMAIN r = 1 .. Len(r) /\ Len(r) \in Nat
  OBVIOUS
<1>3. \A n \in Nat : \A f \in [1 .. n -> R] : f \in Seq(R)
  OBVIOUS
<1>4. t \in [1 .. Len(r) -> R]
  BY <1>1, <1>2
<1> QED BY <1>2, <1>3, <1>4 DEF R, Calls

LEMMA TwoCalls ==
  ASSUME NEW a \in [node : Node, built : BOOLEAN], NEW b \in [node : Node, built : BOOLEAN]
  PROVE  <<a, b>> \in Calls
<1> DEFINE R == [node : Node, built : BOOLEAN]
<1>1. a \in R /\ b \in R
  OBVIOUS
<1> HIDE DEF R
<1>2. <<a, b>> \in Seq(R)
  BY <1>1
<1> QED BY <1>2 DEF R, Calls

LEMMA BuildFusionBuilds ==
  ASSUME SInv, NEW p \in Process, BuildFusion(p)
  PROVE  SweepInv(p)'
<1>1. PICK n : n = Head(calls[p]).node
  OBVIOUS
<1> DEFINE cfg == Tree[n]
           t == [i \in DOMAIN cfg.retrievers |-> Call(cfg.retrievers[i])]
<1>2. /\ pc[p] = "build" /\ calls[p] # <<>> /\ cfg.type = "rrf" /\ Still(p)
      /\ calls'[p] = t \o Tail(calls[p])
  BY <1>1, Domains DEF BuildFusion, Building, Called, Still, job
<1>3. n \in Node
  BY <1>1, <1>2, CalledType DEF SInv, IInv, SweepTypeOK, Calls
<1>4. cfg.retrievers \in Seq(Node)
  BY <1>2, <1>3, TreeAssumption DEF Entry
<1>5. t \in Calls
  BY <1>4, CallsOfNodes
<1>6. /\ DOMAIN t = DOMAIN cfg.retrievers
      /\ \A i \in DOMAIN t : t[i].node = cfg.retrievers[i] /\ t[i].built = FALSE
  BY DEF Call
<1>7. Children(n) = {cfg.retrievers[i] : i \in DOMAIN cfg.retrievers}
  BY <1>2 DEF Children
<1>8. Called(p).type \notin {"bm25", "dense"}
  BY <1>1, <1>2 DEF Called
<1> HIDE DEF t
<1>9. Children(n) \subseteq Nodes(t)
  BY <1>6, <1>7 DEF Nodes
<1> QED BY <1>1, <1>2, <1>5, <1>6, <1>8, <1>9, AddedBuilds

LEMMA BuildRerankerBuilds ==
  ASSUME SInv, NEW p \in Process, BuildReranker(p), ~Raise(p)
  PROVE  SweepInv(p)'
<1>1. PICK s : s = calls[p]
  OBVIOUS
<1>2. PICK n : n = Head(s).node
  OBVIOUS
<1> DEFINE t == <<Call(Tree[n].inner), [Head(s) EXCEPT !.built = TRUE]>>
<1>3. /\ pc[p] = "build" /\ s # <<>> /\ Tree[n].type = "rerank" /\ Still(p)
      /\ \/ ~Head(s).built /\ calls'[p] = t \o Tail(s)
         \/ Head(s).built /\ calls'[p] = Tail(s)
  BY <1>1, <1>2, Domains DEF BuildReranker, Building, Called, Still, job
<1>4. s \in Calls /\ Head(s) \in [node : Node, built : BOOLEAN] /\ n \in Node
  BY <1>1, <1>2, <1>3, CalledType DEF SInv, IInv, SweepTypeOK, Calls
<1>5. Tree[n].inner \in Node
  BY <1>3, <1>4, TreeAssumption DEF Entry
<1>6. Children(n) = {Tree[n].inner}
  BY <1>3 DEF Children
<1>7. CASE ~Head(s).built
  <2>1. t \in Calls
    <3>1. Call(Tree[n].inner) \in [node : Node, built : BOOLEAN]
      BY <1>5, CallTypes
    <3>2. [Head(s) EXCEPT !.built = TRUE] \in [node : Node, built : BOOLEAN]
      BY <1>4
    <3> QED BY <3>1, <3>2, TwoCalls
  <2>2. /\ DOMAIN t = {1, 2} /\ t[1].node = Tree[n].inner /\ t[2].node = n
        /\ ~t[1].built
    BY <1>2, <1>4 DEF Call
  <2> HIDE DEF t
  <2>3. Children(n) \subseteq Nodes(t)
    BY <1>6, <2>2 DEF Nodes
  <2>4. calls'[p] = t \o Tail(s)
    BY <1>3, <1>7
  <2>5. Called(p).type \notin {"bm25", "dense"}
    BY <1>1, <1>2, <1>3 DEF Called
  <2>6. \A i \in DOMAIN t : t[i].built => t[i].node = n
    BY <2>2
  <2> QED BY <1>1, <1>2, <1>3, <2>1, <2>3, <2>4, <2>5, <2>6, AddedBuilds
<1>8. CASE Head(s).built
  <2> DEFINE root == Pipeline[Head(todo[p])]
  <2>1. PICK D \in SUBSET Node : Covered(root, s, DOMAIN index[p], D)
    BY <1>1, <1>3 DEF SInv, SearchInv, SweepInv, BuildInv, Preparing
  <2>2. 1 \in DOMAIN s /\ s[1] = Head(s)
    BY <1>3, <1>4 DEF Calls
  <2>3. n \in Begun(s)
    BY <1>2, <1>8, <2>2 DEF Begun
  <2>4. Ready(n, DOMAIN index[p], D)
    BY <1>3, <2>1, <2>3 DEF Ready, Covered
  <2>5. Covered(root, Tail(s), DOMAIN index[p], D)
    BY <1>2, <1>3, <1>4, <2>1, <2>4, CallDone
  <2>6. BuildInv(p)'
    BY <1>3, <1>8, <2>5 DEF BuildInv, Still
  <2> QED BY <1>3, <2>6, StillBuilds
<1> QED BY <1>7, <1>8


-----------------------------------------------------------------------------
(* What a run records                                                      *)

\* When no call is left everything below the root is built, from the process's own
\* corpus and model.
LEMMA AllBuilt ==
  ASSUME SInv, NEW p \in Process, Built(p)
  PROVE  \E D \in SUBSET Node :
           /\ Pipeline[Head(todo[p])] \in D
           /\ \A n \in D :
                /\ Children(n) \subseteq D
                /\ Alike(index[p], [k \in Key |-> Leaf(own[p], Embedded(model[p], own[p]))], n)
<1> DEFINE root == Pipeline[Head(todo[p])]
           fresh == [k \in Key |-> Leaf(own[p], Embedded(model[p], own[p]))]
<1>1. calls[p] = <<>> /\ pc[p] = "build"
  BY DEF Built
<1>2. PICK D \in SUBSET Node : Covered(root, calls[p], DOMAIN index[p], D)
  BY <1>1 DEF SInv, SearchInv, SweepInv, BuildInv, Preparing
<1>3. Nodes(calls[p]) = {}
  BY <1>1 DEF Nodes
<1>4. root \in D /\ \A n \in D : Ready(n, DOMAIN index[p], D)
  BY <1>2, <1>3 DEF Covered
<1>5. ASSUME NEW n \in D PROVE Alike(index[p], fresh, n)
  <2>1. CASE Tree[n].type \in {"bm25", "dense"}
    <3>1. Tree[n].key \in DOMAIN index[p] /\ Tree[n].key \in Key
      BY <1>4, <2>1, TreeAssumption DEF Ready, Entry
    <3>2. index[p][Tree[n].key].corpus = own[p]
      BY <3>1 DEF SInv, SearchInv, SweepInv, KeepInv
    <3>3. Tree[n].type = "dense"
            => index[p][Tree[n].key] = Leaf(own[p], Embedded(model[p], own[p]))
      BY <3>1 DEF SInv, IInv, CacheInv, ProcessInv, AlignedInv
    <3>4. fresh[Tree[n].key] = Leaf(own[p], Embedded(model[p], own[p]))
      BY <3>1
    <3> QED BY <3>2, <3>3, <3>4 DEF Alike, Leaf
  <2> QED BY <2>1 DEF Alike
<1>6. \A n \in D : Children(n) \subseteq D
  BY <1>4 DEF Ready
<1> QED BY <1>4, <1>5, <1>6

LEMMA EvaluateRanks ==
  ASSUME SInv, NEW p \in Process, Evaluate(p)
  PROVE  SweepInv(p)'
<1> DEFINE root == Pipeline[Head(todo[p])]
           fresh == [k \in Key |-> Leaf(own[p], Embedded(model[p], own[p]))]
<1>1. /\ Built(p) /\ pc'[p] = "open run" /\ UNCHANGED <<own, todo, calls, index>>
      /\ result'[p] = [experiment |-> Head(todo[p]), dataset |-> dataset[p],
                       model |-> model[p], corpus |-> own[p], timestamp |-> clock',
                       ranking |-> Ids(Search(index[p], root, FetchK))]
  BY Domains DEF Evaluate, GoTo, job, building
<1>2. PICK D \in SUBSET Node :
        /\ root \in D
        /\ \A n \in D : Children(n) \subseteq D /\ Alike(index[p], fresh, n)
  BY <1>1, AllBuilt
<1> HIDE DEF fresh
<1>3. FetchK \in Nat
  BY FetchKAssumption
<1>4. Search(index[p], root, FetchK) = Search(fresh, root, FetchK)
  BY <1>2, <1>3, SameSearch
<1>5. PICK run : run = result'[p]
  OBVIOUS
<1>6. /\ run.corpus = own[p] /\ run.model = model[p] /\ run.experiment = Head(todo[p])
      /\ run.ranking = Ids(Search(index[p], root, FetchK))
  <2> DEFINE found == Ids(Search(index[p], root, FetchK))
  <2>1. run = [experiment |-> Head(todo[p]), dataset |-> dataset[p], model |-> model[p],
               corpus |-> own[p], timestamp |-> clock', ranking |-> found]
    BY <1>1, <1>5
  <2> HIDE DEF found, root
  <2>2. /\ run.corpus = own[p] /\ run.model = model[p] /\ run.experiment = Head(todo[p])
        /\ run.ranking = found
    BY <2>1
  <2> QED BY <2>2 DEF found
<1>7. Fresh(run) = fresh
  BY <1>6 DEF Fresh, fresh
<1>8. Transparent(run)
  <2>1. own[p] \in AllCorpora /\ model[p] \in Model
    BY <1>1 DEF SInv, IInv, CacheInv, ProcessInv, StageInv, Works, Built
  <2>2. root \in Node
    BY <1>2
  <2> QED BY <1>4, <1>6, <1>7, <2>1, <2>2 DEF Transparent
<1>9. RankInv(p)'
  BY <1>5, <1>8 DEF RankInv
<1>10. KeepInv(p)'
  BY <1>1 DEF SInv, SearchInv, SweepInv, KeepInv
<1> QED BY <1>1, <1>9, <1>10 DEF SweepInv, BuildInv, LoadInv, Preparing, Loading

\* Steps after which p neither builds nor has a run to record.
LEMMA IdleSweep ==
  ASSUME NEW p \in Process, pc'[p] \in {"idle", "next", "write run", "read runs"}, KeepInv(p)'
  PROVE  SweepInv(p)'
BY DEF SweepInv, BuildInv, LoadInv, RankInv, Preparing, Loading

LEMMA ExitSweep ==
  ASSUME SInv, NEW p \in Process, Exit(p)
  PROVE  SweepInv(p)'
<1>1. pc'[p] = "idle" /\ index'[p] = Nothing
  BY Domains DEF Exit, GoTo
<1>2. KeepInv(p)'
  BY <1>1 DEF KeepInv, Nothing
<1> QED BY <1>1, <1>2, IdleSweep

LEMMA OtherSweep ==
  ASSUME SInv, NEW p \in Process,
         StartSweep(p) \/ StartReport(p) \/ ReadRun(p) \/ OpenRun(p) \/ WriteRun(p)
  PROVE  SweepInv(p)'
<1>1. CASE StartSweep(p) \/ StartReport(p)
  <2>1. pc[p] = "idle" /\ pc'[p] \in {"next", "read runs"} /\ index'[p] = index[p]
    BY <1>1, Domains DEF StartSweep, StartReport, GoTo, building
  <2>2. DOMAIN index[p] = {}
    BY <2>1 DEF SInv, IInv, CacheInv, ProcessInv, StageInv, Works
  <2>3. KeepInv(p)'
    BY <2>1, <2>2 DEF KeepInv
  <2> QED BY <2>1, <2>3, IdleSweep
<1>2. CASE (ReadRun(p) /\ ~Raise(p)) \/ OpenRun(p) \/ WriteRun(p)
  <2>1. pc'[p] \in {"next", "write run", "read runs"} /\ UNCHANGED <<own, index>>
    BY <1>2, Domains DEF ReadRun, OpenRun, WriteRun, GoTo, job, building
  <2>2. KeepInv(p)'
    BY <2>1 DEF SInv, SearchInv, SweepInv, KeepInv
  <2> QED BY <2>1, <2>2, IdleSweep
<1>3. CASE Raise(p)
  BY <1>3, ExitSweep DEF Raise
<1> QED BY <1>1, <1>2, <1>3

LEMMA LeafSweep ==
  ASSUME SInv, NEW p \in Process,
         BuildBM25(p) \/ (ReadRows(p) /\ ~Raise(p)) \/ WriteIds(p)
  PROVE  SweepInv(p)'
<1>1. /\ pc[p] \in Preparing /\ calls[p] # <<>> /\ Called(p).type \in {"bm25", "dense"}
      /\ UNCHANGED <<own, todo>>
  <2>1. CASE BuildBM25(p)
    BY <2>1 DEF BuildBM25, Building, Preparing, job
  <2>2. CASE ReadRows(p) \/ WriteIds(p)
    <3>1. pc[p] \in Loading
      BY <2>2 DEF ReadRows, WriteIds, Loading
    <3>2. calls[p] # <<>> /\ Called(p).type = "dense"
      BY <3>1 DEF SInv, IInv, SweepTypeOK, SearchInv, SweepInv, LoadInv
    <3>3. (ReadRows(p) /\ ~Raise(p)) \/ WriteIds(p) => UNCHANGED <<own, todo>>
      BY DEF ReadRows, WriteIds, job
    <3> QED BY <2>1, <2>2, <3>1, <3>2, <3>3 DEF Preparing, BuildBM25, job
  <2> QED BY <2>1, <2>2
<1>2. \E rows : KeepLeaf(p, rows)
  BY DEF BuildBM25, ReadRows, WriteIds
<1> QED BY <1>1, <1>2, KeepLeafBuilds

LEMMA LoadingSweep ==
  ASSUME SInv, NEW p \in Process,
         \/ BuildDense(p)
         \/ (ReadIds(p) \/ Embed(p)) /\ ~Raise(p)
         \/ OpenRows(p) \/ WriteRows(p) \/ OpenIds(p)
  PROVE  SweepInv(p)'
<1>1. CASE BuildDense(p)
  <2>1. /\ pc[p] = "build" /\ pc'[p] \in Loading /\ Called(p).type = "dense"
        /\ UNCHANGED <<own, todo, calls, index>>
    BY <1>1, Domains DEF BuildDense, Building, GoTo, Loading, job, building
  <2> QED BY <2>1, LoadingBuilds DEF Preparing
<1>2. CASE \/ (ReadIds(p) \/ Embed(p)) /\ ~Raise(p)
           \/ OpenRows(p) \/ WriteRows(p) \/ OpenIds(p)
  <2>1. /\ pc[p] \in Loading /\ pc'[p] \in Loading
        /\ UNCHANGED <<own, todo, calls, index>>
    BY <1>2, Domains DEF ReadIds, Embed, OpenRows, WriteRows, OpenIds, GoTo, Loading, job, building
  <2>2. Called(p).type = "dense"
    BY <2>1 DEF SInv, SearchInv, SweepInv, LoadInv
  <2> QED BY <2>1, <2>2, LoadingBuilds DEF Preparing
<1> QED BY <1>1, <1>2

LEMMA SweepStep ==
  ASSUME SInv, NEW p \in Process, Step(p)
  PROVE  SweepInv(p)'
<1>1. CASE Raise(p) \/ WriteReport(p)
  BY <1>1, ExitSweep DEF Raise, WriteReport
<1>2. CASE EvaluateFails(p) \/ Kill(p)
  BY <1>1, <1>2 DEF EvaluateFails, Kill
<1> QED BY <1>1, <1>2, NextExperimentBuilds, ReuseBuilds, BuildFusionBuilds,
           BuildRerankerBuilds, EvaluateRanks, OtherSweep, LeafSweep, LoadingSweep DEF Step

LEMMA RunsStep ==
  ASSUME SInv, NEW p \in Process, Step(p)
  PROVE  \A run \in runs' : Transparent(run)
<1>1. \A run \in runs : Transparent(run)
  BY DEF SInv, SearchInv
<1>2. CASE OpenRun(p)
  <2>1. runs' = runs \cup {result[p]} /\ pc[p] = "open run"
    BY <1>2 DEF OpenRun
  <2>2. Transparent(result[p])
    BY <2>1 DEF SInv, SearchInv, SweepInv, RankInv
  <2> QED BY <1>1, <2>1, <2>2
<1>3. CASE StartSweep(p) \/ Evaluate(p) \/ WriteRun(p) \/ StartReport(p) \/ ReadRun(p) \/ WriteReport(p)
  BY <1>1, <1>3 DEF StartSweep, Evaluate, WriteRun, StartReport, ReadRun, WriteReport, Raise,
     world, results
<1>4. CASE NoRun(p) \/ (Exit(p) /\ UNCHANGED <<runs, clock>>)
  BY <1>1, <1>4 DEF NoRun
<1>5. RunTypes
  BY DEF SInv, RunInv
<1> QED BY <1>2, <1>3, <1>4, <1>5, RunSteps

LEMMA SearchStep == SInv /\ [Next]_vars => SearchInv'
<1> SUFFICES ASSUME SInv, [Next]_vars PROVE SearchInv'
  OBVIOUS
<1>1. ASSUME NEW p \in Process, Step(p) PROVE SearchInv'
  <2>1. Apart(p)
    BY <1>1, SweepApart
  <2>2. \A q \in Process : SweepInv(q)'
    BY <1>1, <2>1, ApartKeeps, SweepStep
  <2>3. (\A run \in runs : Transparent(run))'
    BY <1>1, RunsStep DEF Transparent, Fresh
  <2> QED BY <2>1, <2>2, <2>3 DEF SearchInv, Apart
<1>2. CASE (\E d \in Dataset : Republish(d)) \/ UNCHANGED vars
  <2>1. UNCHANGED <<runs, pc, own, todo, calls, index, result>>
    BY <1>2 DEF Republish, vars, world, results, job, building
  <2>2. SearchInv
    BY DEF SInv
  <2> QED BY <2>1, <2>2 DEF SearchInv, SweepInv, BuildInv, LoadInv, KeepInv, RankInv, Transparent,
                           Fresh, Called
<1> QED BY <1>1, <1>2 DEF Next

LEMMA InitSearch == Init => SearchInv
<1> SUFFICES ASSUME Init PROVE SearchInv
  OBVIOUS
<1>1. /\ runs = {} /\ DOMAIN todo = Process
      /\ \A p \in Process : pc[p] = "idle" /\ index[p] = Nothing
  BY DEF Init
<1>2. ASSUME NEW p \in Process PROVE SweepInv(p)
  BY <1>1 DEF SweepInv, BuildInv, LoadInv, KeepInv, RankInv, Preparing, Loading, Nothing
<1> QED BY <1>1, <1>2 DEF SearchInv

\* Every recorded ranking is the one its pipeline finds over leaves built afresh from the
\* run's corpus and model, whatever the two caches held and however pipelines share
\* their leaves (retrievers.py:3-15).
THEOREM CachesChangeNothing == Spec => []CachesAreTransparent
<1>1. SearchInv => CachesAreTransparent
  BY DEF SearchInv, Transparent, Fresh, CachesAreTransparent
<1>2. IInv /\ RunInv /\ SearchInv /\ [Next]_vars => SearchInv'
  BY SearchStep DEF SInv
<1> QED BY <1>1, <1>2, InitSearch, Invariance, RunInvariance, PTL DEF Spec

\* The depth rule: a ranking is as deep as the metrics look, unless all that its
\* pipeline can reach is less, and holds no document twice, whatever the corpus, the
\* scores, the nesting of the pipeline and the depths it is configured with
\* (fusion.py:24-26).
THEOREM RankingsAreDeep == Spec => []DepthDelivered
<1>1. ASSUME NEW run, Transparent(run)
      PROVE  LET reach == Reach(Len(run.corpus.ids))[Pipeline[run.experiment]]
             IN  /\ Len(run.ranking) <= FetchK
                 /\ Len(run.ranking) >= Smaller(FetchK, reach)
                 /\ IsInjective(run.ranking)
  <2>1. PICK s : s = Search(Fresh(run), Pipeline[run.experiment], FetchK)
    OBVIOUS
  <2>2. PICK reach : reach = Reach(Len(run.corpus.ids))[Pipeline[run.experiment]]
    OBVIOUS
  <2>3. Delivers(s, FetchK, reach) /\ reach \in Nat
    <3>1. FetchK \in Nat
      BY FetchKAssumption
    <3>2. /\ run.corpus \in AllCorpora /\ run.model \in Model
          /\ Pipeline[run.experiment] \in Node
      BY <1>1 DEF Transparent
    <3>3. Fresh(run) = [k \in Key |-> Leaf(run.corpus, Embedded(run.model, run.corpus))]
      BY DEF Fresh
    <3>4. PICK c, m, leaves, n :
            c = run.corpus /\ m = run.model /\ leaves = Fresh(run) /\ n = Pipeline[run.experiment]
      OBVIOUS
    <3>5. Delivers(Search(leaves, n, FetchK), FetchK, Reach(Len(c.ids))[n])
          /\ Reach(Len(c.ids))[n] \in Nat
      BY <3>1, <3>2, <3>3, <3>4, SearchDelivers
    <3> QED BY <2>1, <2>2, <3>4, <3>5
  <2>4. run.ranking = Ids(s)
    BY <1>1, <2>1 DEF Transparent
  <2>5. s \in Seq(HitType) /\ \A i, j \in DOMAIN s : s[i].doc = s[j].doc => i = j
    BY <2>3 DEF Delivers, Ranking
  <2>6. Len(Ids(s)) = Len(s) /\ IsInjective(Ids(s))
    <3> DEFINE t == [i \in 1 .. Len(s) |-> s[i].doc]
    <3>1. DOMAIN s = 1 .. Len(s) /\ Len(s) \in Nat
      BY <2>5
    <3>2. Ids(s) = t
      BY <3>1 DEF Ids
    <3>3. Len(t) = Len(s)
      BY <3>1
    <3>4. \A i, j \in DOMAIN t : t[i] = t[j] => i = j
      BY <2>5, <3>1
    <3>5. IsInjective(t)
      <4> HIDE DEF t
      <4> QED BY <3>4 DEF IsInjective
    <3> HIDE DEF t
    <3> QED BY <3>2, <3>3, <3>5
  <2>7. Len(s) \in Nat /\ Smaller(FetchK, reach) \in Nat
    <3>1. FetchK \in Nat
      BY FetchKAssumption
    <3> QED BY <2>3, <2>5, <3>1, SmallerIs
  <2>8. /\ Len(run.ranking) <= FetchK /\ Len(run.ranking) >= Smaller(FetchK, reach)
        /\ IsInjective(run.ranking)
    <3>1. Len(s) <= FetchK /\ Smaller(FetchK, reach) <= Len(s)
      BY <2>3 DEF Delivers
    <3> QED BY <2>4, <2>6, <2>7, <3>1
  <2> QED BY <2>2, <2>8
<1>2. SearchInv => DepthDelivered
  <2> SUFFICES ASSUME SearchInv PROVE DepthDelivered
    OBVIOUS
  <2>1. \A run \in runs : Transparent(run)
    BY DEF SearchInv
  <2> QED BY <1>1, <2>1 DEF DepthDelivered
<1>3. IInv /\ RunInv /\ SearchInv /\ [Next]_vars => SearchInv'
  BY SearchStep DEF SInv
<1> QED BY <1>2, <1>3, InitSearch, Invariance, RunInvariance, PTL DEF Spec
=============================================================================
