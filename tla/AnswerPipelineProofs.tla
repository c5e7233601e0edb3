------------------------ MODULE AnswerPipelineProofs ------------------------
(***************************************************************************)
(* Theorems about AnswerPipeline and RoutingEval, for any configuration,   *)
(* corpus, lengths and replies: the best candidate decides the verdict,    *)
(* the context fits its budget, an answer cites what the model saw, a      *)
(* retry takes nothing away, and the routing evaluation reports what the   *)
(* agent does.                                                             *)
(***************************************************************************)
EXTENDS RoutingEval, FiniteSetTheorems, SequenceTheorems, WellFoundedInduction, TLAPS

\* Nothing is asked about without a chunk, and an empty context is free.
KeptBound == Len(kept) <= MaxDocs
HasChunks == stage = "context" => kept # <<>>
EmptyIsFree == used = <<>> => spent = 0

\* What parse_citations knows after the numbers read so far.
Read == {reply[i] : i \in 1 .. read}
CitesUsed ==
  \A i \in DOMAIN citations :
    /\ citations[i].index \in DOMAIN used
    /\ citations[i].doc = used[citations[i].index].doc
CitesOnce ==
  \A i, j \in DOMAIN citations : citations[i].index = citations[j].index => i = j
ParseInv ==
  /\ stage \in {"context", "ask"} => read = 0 /\ citations = <<>> /\ invalid = {}
  /\ stage = "parse" =>
       /\ CitesUsed /\ CitesOnce
       /\ invalid = Read \ DOMAIN used
       /\ Cited = Read \cap DOMAIN used

IInv == TypeOK /\ ContextFits /\ KeptBound /\ HasChunks /\ EmptyIsFree /\ ParseInv
        /\ AnswerIsTraceable

-----------------------------------------------------------------------------
(* The steps outside build_context and parse_citations                     *)

LEMMA PoolType ==
  ASSUME TypeOK, NEW k \in Nat
  PROVE  /\ Candidates(k) \subseteq Docs
         /\ Smaller(k, Cardinality(Candidates(k))) \in 0 .. MaxDocs
<1>1. cfg \in Setting /\ corpus \in Corpus
  BY SettingsAssumption, CorporaAssumption DEF TypeOK
<1>2. ResolveFetchK(k) \in Nat
  <2>1. cfg.fetch_k = Null \/ cfg.fetch_k \in Nat
    BY <1>1 DEF Setting
  <2> QED BY <2>1, CountsAssumption DEF ResolveFetchK, Larger
<1>3. corpus.hits \in 0 .. MaxDocs
  BY <1>1 DEF Corpus
<1> DEFINE n == Smaller(IF cfg.rerank THEN ResolveFetchK(k) ELSE k, corpus.hits)
<1>4. n \in Nat /\ n <= MaxDocs
  BY <1>2, <1>3, MaxDocsAssumption DEF Smaller
<1>5. Candidates(k) = 1 .. n
  BY DEF Candidates
<1> HIDE DEF n
<1>6. Cardinality(1 .. n) \in 0 .. MaxDocs
  <2>1. 1 \in Int /\ n \in Int
    BY <1>4
  <2>2. Cardinality(1 .. n) = IF 1 > n THEN 0 ELSE n - 1 + 1
    BY <2>1, FS_Interval
  <2> QED BY <1>4, <2>2, MaxDocsAssumption
<1> QED BY <1>4, <1>5, <1>6, MaxDocsAssumption DEF Docs, Smaller

\* What Retrieve may return.
LEMMA ScoredType ==
  ASSUME TypeOK, NEW k \in Nat, NEW s \in Rankings(k)
  PROVE  /\ [i \in 1 .. Len(s) |->
                [doc |-> s[i], score |-> Score(s[i], Candidates(k))]] \in Scored
         /\ Len(s) \in 0 .. MaxDocs
<1> DEFINE pool == Candidates(k)
<1>1. pool \subseteq Docs /\ Smaller(k, Cardinality(pool)) \in 0 .. MaxDocs
  BY PoolType
<1>2. s \in [1 .. Smaller(k, Cardinality(pool)) -> pool]
  BY DEF Rankings
<1>3. s \in Seq(pool) /\ Len(s) \in 0 .. MaxDocs
  BY <1>1, <1>2, MaxDocsAssumption
<1>4. corpus \in Corpus
  BY CorporaAssumption DEF TypeOK
<1>5. ASSUME NEW d \in Docs PROVE Score(d, pool) \in Scores
  <2>1. corpus.relevance[d] \in Scores /\ corpus.judged[d] \in Scores
    BY <1>4 DEF Corpus
  <2>2. cfg \in Setting
    BY SettingsAssumption DEF TypeOK
  <2>3. cfg.rerank \in BOOLEAN
    BY <2>2 DEF Setting
  <2> HIDE DEF pool
  <2> QED BY <2>1, <2>3, ScoresAssumption DEF Score
<1> HIDE DEF pool
<1>6. Len(s) \in Nat /\ \A i \in 1 .. Len(s) : s[i] \in Docs
  BY <1>1, <1>3
<1>7. \A i \in 1 .. Len(s) : [doc |-> s[i], score |-> Score(s[i], pool)] \in [doc : Docs, score : Scores]
  BY <1>5, <1>6
<1>8. [i \in 1 .. Len(s) |-> [doc |-> s[i], score |-> Score(s[i], pool)]]
        \in [1 .. Len(s) -> [doc : Docs, score : Scores]]
  BY <1>7
<1>9. [i \in 1 .. Len(s) |-> [doc |-> s[i], score |-> Score(s[i], pool)]]
        \in Seq([doc : Docs, score : Scores])
  BY <1>6, <1>8
<1> QED BY <1>3, <1>9 DEF Scored, pool

LEMMA RetrieveStep ==
  ASSUME IInv, Retrieve
  PROVE  IInv'
<1>1. Depth(attempts) \in Nat
  BY SettingsAssumption DEF Depth, IInv, TypeOK, Setting
<1>2. PICK s \in Rankings(Depth(attempts)) :
        LET scored == [i \in 1 .. Len(s) |->
                         [doc |-> s[i], score |-> Score(s[i], Candidates(Depth(attempts)))]]
        IN  kept' = scored /\ stage' = AfterRetrieve(scored)
  BY DEF Retrieve
<1>3. kept' \in Scored /\ stage' = AfterRetrieve(kept') /\ Len(kept') \in 0 .. MaxDocs
  BY <1>1, <1>2, ScoredType DEF IInv
<1>4. stage' \in {"context", "escalated", "empty"} /\ (stage' = "context" => kept' # <<>>)
  <2>1. cfg.driver \in {"agent", "ask"}
    BY SettingsAssumption DEF IInv, TypeOK, Setting
  <2> QED BY <1>3, <2>1 DEF AfterRetrieve, AssessConfidence
<1>5. TypeOK'
  BY <1>3, <1>4 DEF Retrieve, IInv, TypeOK, inputs, Stages, Blocks, Citations
<1>6. Len(kept') \in Nat
  BY <1>3 DEF Scored
<1>7. ContextFits'
  <2>1. cfg' = cfg /\ cfg.budget \in Nat
    BY SettingsAssumption, CountsAssumption DEF Retrieve, inputs, IInv, TypeOK, Setting, Budgets
  <2>2. used' = <<>> /\ spent' = 0
    BY DEF Retrieve
  <2>3. WithinBudget'
    BY <2>1, <2>2 DEF WithinBudget
  <2>4. NothingSkipped'
    BY <1>6, <2>2 DEF NothingSkipped
  <2>5. AlwaysASource'
    BY <1>4 DEF AlwaysASource
  <2> QED BY <2>3, <2>4, <2>5 DEF ContextFits
<1> QED BY <1>3, <1>4, <1>5, <1>7, MaxDocsAssumption
        DEF Retrieve, IInv, KeptBound, HasChunks, EmptyIsFree, ParseInv, AnswerIsTraceable

LEMMA RetrieveMMRStep ==
  ASSUME IInv, RetrieveMMR
  PROVE  IInv'
<1>1. TypeOK'
  BY DEF RetrieveMMR, IInv, TypeOK, Stages, inputs, found, context, parsed
<1>2. ContextFits'
  BY DEF RetrieveMMR, IInv, inputs, found, context,
         ContextFits, WithinBudget, NothingSkipped, AlwaysASource
<1> QED BY <1>1, <1>2 DEF RetrieveMMR, IInv, KeptBound, HasChunks, EmptyIsFree, ParseInv,
           AnswerIsTraceable, found, context

LEMMA RetryStep ==
  ASSUME IInv, Retry
  PROVE  IInv'
<1>1. TypeOK'
  BY DEF Retry, IInv, TypeOK, Stages, inputs, found, context, parsed
<1>2. ContextFits'
  BY DEF Retry, IInv, inputs, found, context,
         ContextFits, WithinBudget, NothingSkipped, AlwaysASource
<1> QED BY <1>1, <1>2 DEF Retry, IInv, KeptBound, HasChunks, EmptyIsFree, ParseInv,
           AnswerIsTraceable, found, context

LEMMA RefuseStep ==
  ASSUME IInv, Refuse
  PROVE  IInv'
<1>1. [numbers |-> {}, citations |-> <<>>] \in Shown
  BY DEF Shown, Citations
<1>2. TypeOK'
  BY <1>1 DEF Refuse, IInv, TypeOK, Stages, inputs, found, context, parsed
<1>3. ContextFits'
  BY DEF Refuse, IInv, inputs, found, context,
         ContextFits, WithinBudget, NothingSkipped, AlwaysASource
<1> QED BY <1>2, <1>3 DEF Refuse, IInv, KeptBound, HasChunks, EmptyIsFree, ParseInv,
           AnswerIsTraceable, found, context

LEMMA AnswerStep ==
  ASSUME IInv, Answer
  PROVE  IInv'
<1>1. TypeOK'
  <2>1. reply' \in Seq(Nat)
    BY RepliesAssumption DEF Answer
  <2>2. read' = 0 /\ Len(reply') \in Nat
    BY <2>1 DEF Answer, IInv, ParseInv
  <2> QED BY <2>1, <2>2 DEF Answer, IInv, TypeOK, Stages, inputs, found, context
<1>2. ContextFits'
  BY DEF Answer, IInv, inputs, found, context,
         ContextFits, WithinBudget, NothingSkipped, AlwaysASource
<1>3. ParseInv'
  <2>1. read' = 0 /\ citations' = <<>> /\ invalid' = {}
    BY DEF Answer, IInv, ParseInv
  <2>2. Read' = {}
    BY <2>1 DEF Read
  <2> QED BY <2>1, <2>2 DEF Answer, ParseInv, CitesUsed, CitesOnce, Cited
<1> QED BY <1>1, <1>2, <1>3 DEF Answer, IInv, KeptBound, HasChunks, EmptyIsFree,
           AnswerIsTraceable, found, context

LEMMA FinishStep ==
  ASSUME IInv, Finish
  PROVE  IInv'
<1>1. reply \in Seq(Nat) /\ read = Len(reply)
  BY DEF Finish, IInv, TypeOK
<1>2. Read = {reply[i] : i \in DOMAIN reply}
  BY <1>1 DEF Read
<1>3. answer' = [numbers |-> Read \ invalid, citations |-> citations]
  BY <1>2 DEF Finish
<1>4. Read \subseteq Nat
  BY <1>1, <1>2
<1>5. TypeOK'
  BY <1>3, <1>4 DEF Finish, Shown, IInv, TypeOK, Stages, inputs, found, context, parsed
<1>6. ContextFits'
  BY DEF Finish, IInv, inputs, found, context,
         ContextFits, WithinBudget, NothingSkipped, AlwaysASource
<1>7. AnswerIsTraceable'
  <2>1. used' = used
    BY DEF Finish, context
  <2>2. CitesUsed /\ CitesOnce /\ Read \ invalid = Cited
    BY DEF Finish, IInv, ParseInv
  <2> QED BY <1>3, <2>1, <2>2 DEF AnswerIsTraceable, CitesUsed, CitesOnce, Cited
<1> QED BY <1>5, <1>6, <1>7 DEF Finish, IInv, KeptBound, HasChunks, EmptyIsFree, ParseInv, found, context

LEMMA EndContextStep ==
  ASSUME IInv, EndContext
  PROVE  IInv'
<1>1. TypeOK'
  BY DEF EndContext, IInv, TypeOK, Stages, inputs, found, context, parsed
<1>2. WithinBudget' /\ NothingSkipped'
  BY DEF EndContext, IInv, inputs, found, context, ContextFits, WithinBudget, NothingSkipped
<1>3. AlwaysASource'
  <2>1. SUFFICES ASSUME used = <<>>
                 PROVE  cfg.budget < HeaderLength[kept[1].doc][1] + Marker + MinChunk
    BY DEF EndContext, inputs, found, context, AlwaysASource
  <2>2. kept \in Scored /\ kept # <<>> /\ Len(used) = 0
    BY <2>1 DEF EndContext, IInv, TypeOK, HasChunks
  <2>3. Len(used) # Len(kept)
    BY <2>2 DEF Scored
  <2>4. Room < MinChunk
    BY <2>3 DEF EndContext
  <2>5. NextDoc = kept[1].doc /\ spent = 0 /\ Gap = 0 /\ Header = HeaderLength[kept[1].doc][1]
    BY <2>1, <2>2 DEF IInv, EmptyIsFree, NextDoc, Gap, Header
  <2>6. kept[1].doc \in Docs /\ 1 \in Docs
    <3> DEFINE R == [doc : Docs, score : Scores]
    <3>1. kept \in Seq(R)
      BY <2>2 DEF Scored
    <3>2. kept[1] \in R
      <4> HIDE DEF R
      <4>1. Len(kept) \in Nat /\ Len(kept) # 0
        BY <2>2, <3>1
      <4> QED BY <3>1, <4>1
    <3>3. kept[1].doc \in Docs
      BY <3>2
    <3> QED BY <3>3, MaxDocsAssumption DEF Docs
  <2>7. HeaderLength[kept[1].doc][1] \in Nat
    BY <2>6, LengthsAssumption
  <2>8. cfg.budget \in Nat
    BY SettingsAssumption, CountsAssumption DEF IInv, TypeOK, Setting, Budgets
  <2>9. cfg.budget - 0 - HeaderLength[kept[1].doc][1] - 0 - Marker < MinChunk
    BY <2>4, <2>5 DEF Room, Remaining
  <2> QED BY <2>7, <2>8, <2>9, LengthsAssumption
<1> QED BY <1>1, <1>2, <1>3 DEF EndContext, IInv, ContextFits, KeptBound, HasChunks, EmptyIsFree,
           ParseInv, AnswerIsTraceable, found, context, parsed

-----------------------------------------------------------------------------
(* build_context                                                           *)

LEMMA NextDocType ==
  ASSUME IInv, More
  PROVE  /\ NextDoc = kept[Len(used) + 1].doc /\ NextDoc \in Docs
         /\ Len(used) \in Nat /\ Len(kept) \in Nat
         /\ Gap \in Nat /\ Header \in Nat /\ cfg.budget \in Budgets
<1> DEFINE R == [doc : Docs, score : Scores]
           B == [doc : Docs, chars : Nat, end : Nat]
<1>1. kept \in Seq(R) /\ used \in Seq(B) /\ Len(used) < Len(kept)
  BY DEF IInv, TypeOK, Scored, Blocks, More
<1>2. kept[Len(used) + 1] \in R /\ Len(used) \in Nat /\ Len(kept) \in Nat
  <2> HIDE DEF R, B
  <2>1. Len(used) \in Nat /\ Len(kept) \in Nat
    BY <1>1
  <2> QED BY <1>1, <2>1
<1>3. NextDoc = kept[Len(used) + 1].doc /\ NextDoc \in Docs
  BY <1>2 DEF NextDoc
<1>4. Len(used) + 1 \in Docs
  BY <1>1, <1>2, MaxDocsAssumption DEF IInv, KeptBound, Docs
<1>5. Header \in Nat
  BY <1>3, <1>4, LengthsAssumption DEF Header
<1>6. Gap \in Nat
  BY LengthsAssumption DEF Gap
<1>7. cfg.budget \in Budgets
  BY SettingsAssumption DEF IInv, TypeOK, Setting
<1> QED BY <1>2, <1>3, <1>5, <1>6, <1>7

\* A block that fits what remains of the budget keeps the context in order.
LEMMA AddBlockStep ==
  ASSUME IInv, More, NEW chars \in Nat, chars <= Remaining, AddBlock(chars)
  PROVE  IInv'
<1> DEFINE B == [doc : Docs, chars : Nat, end : Nat]
           block == [doc |-> NextDoc, chars |-> chars, end |-> spent']
           n == Len(used) + 1
<1>1. /\ NextDoc = kept[n].doc /\ NextDoc \in Docs
      /\ Len(used) \in Nat /\ Len(kept) \in Nat
      /\ Gap \in Nat /\ Header \in Nat /\ cfg.budget \in Budgets
  BY NextDocType
<1>2. spent \in Nat /\ used \in Seq(B)
  BY DEF IInv, TypeOK, Blocks
<1>3. spent' = spent + Gap + Header + chars /\ spent' \in Nat /\ spent' <= cfg.budget
  <2>1. chars <= cfg.budget - spent - Header - Gap
    BY DEF Remaining
  <2>2. spent' = spent + Gap + Header + chars
    BY DEF AddBlock
  <2>3. cfg.budget \in Nat
    BY <1>1, CountsAssumption DEF Budgets
  <2> QED BY <1>1, <1>2, <2>1, <2>2, <2>3
<1>4. block \in B /\ used' = Append(used, block)
  BY <1>1, <1>3 DEF AddBlock
<1>5. /\ used' \in Seq(B) /\ used' # <<>> /\ Len(used') = n
      /\ \A i \in 1 .. Len(used) : used'[i] = used[i]
      /\ used'[n] = block
  <2> HIDE DEF B, block
  <2> QED BY <1>2, <1>4, AppendProperties
<1>6. DOMAIN used' = 1 .. n /\ DOMAIN used = 1 .. Len(used)
  <2> HIDE DEF B
  <2> QED BY <1>2, <1>5
<1>7. TypeOK'
  BY <1>3, <1>5 DEF AddBlock, IInv, TypeOK, Blocks, Stages, inputs, found, parsed
<1>8. WithinBudget'
  <2>1. ASSUME NEW i \in 1 .. n
        PROVE  used'[i].end = (IF i = 1 THEN 0 ELSE used'[i - 1].end + Separator)
                                + HeaderLength[used'[i].doc][i] + used'[i].chars
    <3>1. CASE i \in 1 .. Len(used)
      <4>1. used'[i] = used[i] /\ (i # 1 => used'[i - 1] = used[i - 1])
        <5>1. i \in Nat /\ (i # 1 => i - 1 \in 1 .. Len(used))
          BY <1>1, <3>1
        <5> QED BY <1>5, <3>1, <5>1
      <4> QED BY <1>6, <3>1, <4>1 DEF IInv, ContextFits, WithinBudget
    <3>2. CASE i = n
      <4>1. used'[i].end = spent + Gap + HeaderLength[used'[i].doc][i] + used'[i].chars
        BY <1>3, <1>5, <3>2 DEF Header
      <4>2. CASE used = <<>>
        BY <4>1, <4>2, <3>2, <1>2, <1>1 DEF Gap, IInv, EmptyIsFree
      <4>3. CASE used # <<>>
        <5>1. Len(used) # 0
          <6> HIDE DEF B
          <6> QED BY <4>3, <1>2
        <5>2. used'[i - 1] = used[Len(used)] /\ i # 1
          BY <1>1, <1>5, <3>2, <5>1
        <5>3. spent = used[Len(used)].end
          BY <4>3 DEF IInv, ContextFits, WithinBudget
        <5> QED BY <4>1, <4>3, <5>2, <5>3 DEF Gap
      <4> QED BY <4>2, <4>3
    <3> QED BY <1>1, <3>1, <3>2
  <2>2. spent' = used'[Len(used')].end
    BY <1>5
  <2> QED BY <1>3, <1>6, <2>1, <2>2 DEF WithinBudget, AddBlock, inputs
<1>9. NothingSkipped'
  <2>1. n <= Len(kept)
    BY <1>1 DEF More
  <2>2. \A i \in 1 .. Len(used) : used'[i].doc = kept[i].doc
    BY <1>5, <1>6 DEF IInv, ContextFits, NothingSkipped
  <2>3. used'[n].doc = kept[n].doc
    BY <1>1, <1>5
  <2>4. \A i \in 1 .. n : i = n \/ i \in 1 .. Len(used)
    BY <1>1
  <2>5. \A i \in 1 .. n : used'[i].doc = kept[i].doc
    <3> HIDE DEF n, block
    <3> QED BY <2>2, <2>3, <2>4
  <2> QED BY <1>5, <1>6, <2>1, <2>5 DEF NothingSkipped, AddBlock, found
<1>10. AlwaysASource' /\ HasChunks' /\ EmptyIsFree' /\ KeptBound'
  BY <1>5 DEF More, AddBlock, found, IInv, AlwaysASource, HasChunks, EmptyIsFree, KeptBound
<1>11. ParseInv' /\ AnswerIsTraceable'
  BY DEF More, AddBlock, parsed, IInv, ParseInv, AnswerIsTraceable
<1> QED BY <1>7, <1>8, <1>9, <1>10, <1>11 DEF IInv, ContextFits

LEMMA WholeChunkStep ==
  ASSUME IInv, WholeChunk
  PROVE  IInv'
<1>1. Length[NextDoc] \in Nat
  BY NextDocType, LengthsAssumption DEF WholeChunk
<1> QED BY <1>1, AddBlockStep DEF WholeChunk

\* What is kept of a cut chunk, and the marker, fit as well.
LEMMA CutChunkStep ==
  ASSUME IInv, CutChunk
  PROVE  IInv'
<1>1. /\ NextDoc \in Docs /\ Gap \in Nat /\ Header \in Nat /\ cfg.budget \in Budgets
      /\ spent \in Nat
  BY NextDocType DEF CutChunk, IInv, TypeOK
<1>2. Marker \in Nat /\ MinChunk \in Nat /\ MaxBudget \in Nat
  BY CountsAssumption, LengthsAssumption
<1>3. cfg.budget \in Nat /\ cfg.budget <= MaxBudget
  BY <1>1, <1>2 DEF Budgets
<1>4. /\ Remaining \in Int /\ Remaining <= MaxBudget
      /\ Room = Remaining - Marker /\ Room >= MinChunk
  BY <1>1, <1>2, <1>3 DEF CutChunk, Room, Remaining
<1>5. Room \in Budgets
  BY <1>2, <1>4 DEF Budgets
<1>6. Trailing[NextDoc][Room] \in Nat /\ Trailing[NextDoc][Room] <= Room
  <2>1. Trailing[NextDoc] \in [Budgets -> Budgets]
    BY <1>1, LengthsAssumption
  <2>2. Trailing[NextDoc][Room] \in Budgets
    BY <1>5, <2>1
  <2>3. Trailing[NextDoc][Room] <= Room
    BY <1>1, <1>5, LengthsAssumption
  <2> QED BY <1>2, <2>2, <2>3 DEF Budgets
<1> DEFINE chars == Room - Trailing[NextDoc][Room] + Marker
<1>7. chars \in Nat /\ chars <= Remaining
  <2> DEFINE t == Trailing[NextDoc][Room]
  <2>1. t \in Nat /\ t <= Room /\ Room \in Nat /\ Room = Remaining - Marker
    BY <1>2, <1>4, <1>5, <1>6 DEF Budgets
  <2>2. chars = Room - t + Marker
    OBVIOUS
  <2> HIDE DEF t, chars
  <2> QED BY <1>2, <1>4, <2>1, <2>2
<1> HIDE DEF chars
<1>8. AddBlock(chars)
  BY DEF CutChunk, chars
<1> QED BY <1>7, <1>8, AddBlockStep DEF CutChunk

-----------------------------------------------------------------------------
(* parse_citations                                                         *)

\* The next number of the reply, and what is read with it.
LEMMA NextNumber ==
  ASSUME IInv, ReadMark
  PROVE  /\ reply[read + 1] \in Nat /\ read' = read + 1 /\ read' \in 0 .. Len(reply')
         /\ Read' = Read \cup {reply[read + 1]}
<1>1. reply \in Seq(Nat) /\ read \in 0 .. Len(reply) /\ read < Len(reply)
  BY DEF IInv, TypeOK, ReadMark
<1>2. reply' = reply /\ read' = read + 1
  BY DEF ReadMark
<1>3. 1 .. (read + 1) = (1 .. read) \cup {read + 1}
  BY <1>1
<1>4. Read' = {reply[i] : i \in (1 .. read) \cup {read + 1}}
  BY <1>2, <1>3 DEF Read
<1> QED BY <1>1, <1>2, <1>4 DEF Read

\* A number that has a source and no citation yet gets one.
LEMMA CiteStep ==
  ASSUME IInv, ReadMark, NEW n \in DOMAIN used \ Cited,
         citations' = Append(citations, [index |-> n, doc |-> used[n].doc])
  PROVE  citations' \in Citations /\ CitesUsed' /\ CitesOnce' /\ Cited' = Cited \cup {n}
<1> DEFINE C == [index : Docs, doc : Docs]
           B == [doc : Docs, chars : Nat, end : Nat]
           cite == [index |-> n, doc |-> used[n].doc]
           l == Len(citations)
<1>1. used \in Seq(B) /\ citations \in Seq(C) /\ kept \in Scored /\ Len(used) <= Len(kept)
  BY DEF IInv, TypeOK, Blocks, Citations, ContextFits, NothingSkipped
<1>2. n \in 1 .. Len(used) /\ used[n] \in B /\ Len(used) \in Nat
  <2> HIDE DEF B
  <2> QED BY <1>1
<1>3. n \in Docs /\ used[n].doc \in Docs
  <2>1. Len(kept) \in Nat
    BY <1>1 DEF Scored
  <2> QED BY <1>1, <1>2, <2>1, MaxDocsAssumption DEF IInv, KeptBound, Docs
<1>4. cite \in C
  BY <1>3
<1>5. /\ citations' \in Seq(C) /\ Len(citations') = l + 1 /\ l \in Nat
      /\ \A i \in 1 .. l : citations'[i] = citations[i]
      /\ citations'[l + 1] = cite
  <2> HIDE DEF C, cite
  <2>1. citations' = Append(citations, cite)
    BY DEF cite
  <2> QED BY <1>1, <1>4, <2>1, AppendProperties
<1>6. DOMAIN citations = 1 .. l /\ DOMAIN citations' = (1 .. l) \cup {l + 1}
  <2>1. DOMAIN citations = 1 .. l /\ DOMAIN citations' = 1 .. (l + 1)
    <3> HIDE DEF C
    <3> QED BY <1>1, <1>5
  <2> QED BY <1>5, <2>1
<1>7. used' = used
  BY DEF ReadMark, context
<1>8. CitesUsed /\ CitesOnce
  BY DEF IInv, ParseInv, ReadMark
<1>9. cite.index = n /\ cite.doc = used[n].doc
  OBVIOUS
<1>10. \A i \in 1 .. l : citations[i].index # n
  BY <1>6 DEF Cited
<1>11. CitesUsed'
  BY <1>5, <1>6, <1>7, <1>8, <1>9 DEF CitesUsed
<1> HIDE DEF cite, l
<1>12. CitesOnce'
  BY <1>5, <1>6, <1>8, <1>9, <1>10 DEF CitesOnce
<1>13. Cited' = Cited \cup {n}
  BY <1>5, <1>6, <1>9 DEF Cited
<1> QED BY <1>5, <1>11, <1>12, <1>13 DEF Citations

LEMMA ReadMarkStep ==
  ASSUME IInv, ReadMark
  PROVE  IInv'
<1> DEFINE n == reply[read + 1]
<1>1. /\ n \in Nat /\ read' \in 0 .. Len(reply')
      /\ Read' = Read \cup {n}
  BY NextNumber
<1>2. /\ stage = "parse" /\ stage' = stage /\ reply' = reply
      /\ cfg' = cfg /\ corpus' = corpus /\ attempts' = attempts /\ kept' = kept
      /\ before' = before /\ used' = used /\ spent' = spent /\ answer' = answer
  BY DEF ReadMark, inputs, found, context
<1>3. CitesUsed /\ CitesOnce /\ invalid = Read \ DOMAIN used /\ Cited = Read \cap DOMAIN used
  BY <1>2 DEF IInv, ParseInv
<1>4. DOMAIN Sources = DOMAIN used /\ \A i \in DOMAIN used : Sources[i] = used[i].doc
  <2>1. used \in Seq([doc : Docs, chars : Nat, end : Nat])
    BY DEF IInv, TypeOK, Blocks
  <2>2. DOMAIN used = 1 .. Len(used)
    <3> DEFINE B == [doc : Docs, chars : Nat, end : Nat]
    <3> HIDE DEF B
    <3>1. used \in Seq(B)
      BY <2>1 DEF B
    <3> QED BY <3>1
  <2> QED BY <2>2 DEF Sources
<1>5. \/ n \notin DOMAIN used /\ invalid' = invalid \cup {n} /\ citations' = citations
      \/ n \in DOMAIN used \ Cited /\ invalid' = invalid
         /\ citations' = Append(citations, [index |-> n, doc |-> used[n].doc])
      \/ n \in Cited /\ invalid' = invalid /\ citations' = citations
  BY <1>4 DEF ReadMark
<1> HIDE DEF n
<1>6. /\ citations' \in Citations /\ CitesUsed' /\ CitesOnce'
      /\ invalid' = Read' \ DOMAIN used /\ Cited' = Read' \cap DOMAIN used
  <2>1. CASE n \notin DOMAIN used /\ invalid' = invalid \cup {n} /\ citations' = citations
    BY <1>1, <1>2, <1>3, <2>1 DEF IInv, TypeOK, CitesUsed, CitesOnce, Cited
  <2>2. CASE n \in DOMAIN used \ Cited /\ invalid' = invalid
             /\ citations' = Append(citations, [index |-> n, doc |-> used[n].doc])
    BY <1>1, <1>3, <2>2, CiteStep
  <2>3. CASE n \in Cited /\ invalid' = invalid /\ citations' = citations
    BY <1>1, <1>2, <1>3, <2>3 DEF IInv, TypeOK, CitesUsed, CitesOnce, Cited
  <2> QED BY <1>5, <2>1, <2>2, <2>3
<1>7. invalid' \subseteq Nat
  BY <1>1, <1>5 DEF IInv, TypeOK
<1>8. TypeOK'
  BY <1>1, <1>2, <1>6, <1>7 DEF IInv, TypeOK
<1>9. ContextFits' /\ KeptBound' /\ HasChunks' /\ EmptyIsFree' /\ AnswerIsTraceable'
  BY <1>2 DEF IInv, ContextFits, WithinBudget, NothingSkipped, AlwaysASource, KeptBound,
              HasChunks, EmptyIsFree, AnswerIsTraceable
<1> QED BY <1>2, <1>6, <1>8, <1>9 DEF IInv, ParseInv

-----------------------------------------------------------------------------
LEMMA InitIInv == Init => IInv
<1> SUFFICES ASSUME Init PROVE IInv
  OBVIOUS
<1>1. cfg.budget \in Nat
  BY SettingsAssumption, CountsAssumption DEF Init, Setting, Budgets
<1>2. TypeOK
  BY DEF Init, TypeOK, Stages, Scored, Blocks, Citations
<1>3. ContextFits
  BY <1>1 DEF Init, ContextFits, WithinBudget, NothingSkipped, AlwaysASource
<1> QED BY <1>2, <1>3, MaxDocsAssumption
        DEF Init, IInv, KeptBound, HasChunks, EmptyIsFree, ParseInv, AnswerIsTraceable

LEMMA NextIInv == IInv /\ [Next]_vars => IInv'
<1> SUFFICES ASSUME IInv, [Next]_vars PROVE IInv'
  OBVIOUS
<1>1. CASE Retrieve
  BY <1>1, RetrieveStep
<1>2. CASE RetrieveMMR
  BY <1>2, RetrieveMMRStep
<1>3. CASE BuildContext
  BY <1>3, WholeChunkStep, CutChunkStep, EndContextStep DEF BuildContext
<1>4. CASE Generate
  BY <1>4, RefuseStep, AnswerStep, ReadMarkStep, FinishStep DEF Generate
<1>5. CASE Retry
  BY <1>5, RetryStep
<1>6. CASE UNCHANGED vars
  <2>1. TypeOK'
    BY <1>6 DEF vars, inputs, found, context, parsed, IInv, TypeOK
  <2>2. ContextFits' /\ KeptBound' /\ HasChunks' /\ EmptyIsFree' /\ AnswerIsTraceable'
    BY <1>6 DEF vars, inputs, found, context, IInv, ContextFits, WithinBudget, NothingSkipped,
       AlwaysASource, KeptBound, HasChunks, EmptyIsFree, AnswerIsTraceable
  <2>3. ParseInv'
    BY <1>6 DEF vars, context, parsed, IInv, ParseInv, Read, CitesUsed, CitesOnce, Cited
  <2> QED BY <2>1, <2>2, <2>3 DEF IInv
<1> QED BY <1>1, <1>2, <1>3, <1>4, <1>5, <1>6 DEF Next

LEMMA Invariant == Spec => []IInv
BY InitIInv, NextIInv, PTL DEF Spec

\* Every variable keeps its type, whatever is retrieved and replied.
THEOREM TypeCorrect == Spec => []TypeOK
<1>1. IInv => TypeOK
  BY DEF IInv
<1> QED BY <1>1, Invariant, PTL

\* build_context stays within max_context_chars for any chunk and header lengths
\* and any blanks at a cut, passes over no chunk, and leaves the model without a
\* source only if a header and a sliver do not fit.
THEOREM ContextAlwaysFits == Spec => []ContextFits
<1>1. IInv => ContextFits
  BY DEF IInv
<1> QED BY <1>1, Invariant, PTL

\* Whatever numbers the model puts into its reply, in whatever order, those left
\* in the answer are those cited, once each, with the chunk the model saw there.
THEOREM AlwaysTraceable == Spec => []AnswerIsTraceable
<1>1. IInv => AnswerIsTraceable
  BY DEF IInv
<1> QED BY <1>1, Invariant, PTL

-----------------------------------------------------------------------------
(* What a ranking of the candidates is like                                *)

\* The first k of what was found, the best of all candidates in front.
Best(scored, k) ==
  /\ Len(scored) = Smaller(k, corpus.hits)
  /\ ~cfg.rerank => \A i \in 1 .. Len(scored) : scored[i].doc = i
  /\ scored # <<>> =>
       /\ scored[1].doc \in Candidates(k)
       /\ scored[1].score = Score(scored[1].doc, Candidates(k))
       /\ \A d \in Candidates(k) : scored[1].score >= Score(d, Candidates(k))

PoolSize(k) == Smaller(IF cfg.rerank THEN ResolveFetchK(k) ELSE k, corpus.hits)

LEMMA UpTo ==
  ASSUME NEW n \in Nat
  PROVE  IsFiniteSet(1 .. n) /\ Cardinality(1 .. n) = n
<1>1. 1 \in Int /\ n \in Int
  OBVIOUS
<1>2. IsFiniteSet(1 .. n) /\ Cardinality(1 .. n) = IF 1 > n THEN 0 ELSE n - 1 + 1
  BY <1>1, FS_Interval
<1> QED BY <1>2

LEMMA PoolSizes ==
  ASSUME TypeOK, NEW k \in Nat
  PROVE  /\ PoolSize(k) \in Nat /\ PoolSize(k) <= MaxDocs /\ corpus.hits \in Nat
         /\ Candidates(k) = 1 .. PoolSize(k) /\ Cardinality(Candidates(k)) = PoolSize(k)
         /\ Smaller(k, PoolSize(k)) = Smaller(k, corpus.hits)
         /\ PoolSize(k) <= PoolSize(k + 2)
<1>1. /\ cfg.fetch_k = Null \/ cfg.fetch_k \in Nat
      /\ corpus.hits \in 0 .. MaxDocs
  BY SettingsAssumption, CorporaAssumption DEF TypeOK, Setting, Corpus
<1>2. /\ ResolveFetchK(k) \in Nat /\ ResolveFetchK(k) >= k
      /\ ResolveFetchK(k + 2) \in Nat /\ ResolveFetchK(k + 2) >= ResolveFetchK(k)
  BY <1>1, CountsAssumption DEF ResolveFetchK, Larger
<1>3. /\ PoolSize(k) \in Nat /\ PoolSize(k) <= MaxDocs
      /\ Smaller(k, PoolSize(k)) = Smaller(k, corpus.hits)
      /\ PoolSize(k) <= PoolSize(k + 2)
  BY <1>1, <1>2, MaxDocsAssumption DEF PoolSize, Smaller
<1>4. Candidates(k) = 1 .. PoolSize(k)
  BY DEF Candidates, PoolSize
<1>5. Cardinality(1 .. PoolSize(k)) = PoolSize(k)
  BY <1>3, UpTo
<1> QED BY <1>1, <1>3, <1>4, <1>5

\* The store's own order is rank by rank: nothing can be left out in between.
LEMMA InOrder ==
  ASSUME NEW n \in Nat, NEW m \in Nat, NEW s \in [1 .. m -> 1 .. n],
         \A i, j \in 1 .. m : i < j => s[i] < s[j],
         \A d \in 1 .. n : (\A i \in 1 .. m : s[i] # d) => \A i \in 1 .. m : s[i] < d
  PROVE  \A i \in 1 .. m : s[i] = i
<1> SUFFICES ASSUME NEW i \in 1 .. m PROVE s[i] = i
  OBVIOUS
<1> DEFINE e == s[i]
           f == [j \in 1 .. i |-> s[j]]
<1>1. e \in 1 .. n /\ i \in Nat /\ e \in Nat
  OBVIOUS
<1>2. IsFiniteSet(1 .. i) /\ Cardinality(1 .. i) = i
  BY <1>1, UpTo
<1>3. IsFiniteSet(1 .. e) /\ Cardinality(1 .. e) = e
  <2> HIDE DEF e
  <2> QED BY <1>1, UpTo
<1>4. \A j \in 1 .. m : s[j] <= e <=> j <= i
  OBVIOUS
<1>5. f \in Injection(1 .. i, 1 .. e)
  <2>1. \A j \in 1 .. i : s[j] \in 1 .. e
    BY <1>1, <1>4
  <2>2. \A j, k \in 1 .. i : s[j] = s[k] => j = k
    OBVIOUS
  <2> QED BY <2>1, <2>2 DEF Injection, IsInjective
<1>6. f \in Surjection(1 .. i, 1 .. e)
  <2>1. f \in [1 .. i -> 1 .. e]
    BY <1>5 DEF Injection
  <2>2. ASSUME NEW d \in 1 .. e PROVE \E j \in 1 .. i : f[j] = d
    <3>1. PICK j \in 1 .. m : s[j] = d
      BY <1>1
    <3> QED BY <1>1, <1>4, <3>1
  <2> QED BY <2>1, <2>2 DEF Surjection
<1> HIDE DEF f, e
<1>7. i <= e
  BY <1>2, <1>3, <1>5, FS_Injection
<1>8. e <= i
  BY <1>2, <1>3, <1>6, FS_Surjection
<1> QED BY <1>1, <1>7, <1>8 DEF e

\* What retrieve_scored returns of a ranking.
Ranked(s, k) == [i \in 1 .. Len(s) |-> [doc |-> s[i], score |-> Score(s[i], Candidates(k))]]

LEMMA RankingIsBest ==
  ASSUME TypeOK, NEW k \in Nat, NEW s \in Rankings(k)
  PROVE  Best(Ranked(s, k), k)
<1> DEFINE n == PoolSize(k)
           m == Smaller(k, corpus.hits)
           pool == Candidates(k)
<1>1. /\ n \in Nat /\ n <= MaxDocs /\ m \in Nat /\ m <= n /\ pool = 1 .. n
      /\ Smaller(k, Cardinality(pool)) = m
  <2>1. /\ n \in Nat /\ n <= MaxDocs /\ corpus.hits \in Nat /\ pool = 1 .. n
        /\ Cardinality(pool) = n /\ Smaller(k, n) = m
    BY PoolSizes
  <2> HIDE DEF n, pool
  <2>2. m \in Nat
    BY <2>1 DEF Smaller
  <2>3. m <= n
    BY <2>1, <2>2 DEF Smaller
  <2> QED BY <2>1, <2>2, <2>3
<1>2. s \in [1 .. m -> pool] /\ Ranking(s, pool) /\ Len(s) = m
  BY <1>1 DEF Rankings
<1>3. corpus \in Corpus /\ BestFirst(corpus.relevance) /\ cfg.rerank \in BOOLEAN
  BY CorporaAssumption, SettingsAssumption DEF TypeOK, Setting
<1>4. \A d \in pool : corpus.judged[d] \in Int /\ corpus.relevance[d] \in Int /\ d \in Docs
  <2> SUFFICES ASSUME NEW d \in pool
               PROVE  corpus.judged[d] \in Int /\ corpus.relevance[d] \in Int /\ d \in Docs
    OBVIOUS
  <2>1. d \in Docs
    <3> HIDE DEF pool, n
    <3> QED BY <1>1, MaxDocsAssumption DEF Docs
  <2>2. corpus.judged \in [Docs -> Scores] /\ corpus.relevance \in [Docs -> Scores]
    BY <1>3 DEF Corpus
  <2> QED BY <2>1, <2>2, ScoresAssumption
<1>5. /\ Ranked(s, k) = [i \in 1 .. m |-> [doc |-> s[i], score |-> Score(s[i], pool)]]
      /\ Len(Ranked(s, k)) = m /\ (Ranked(s, k) # <<>> => m > 0)
  BY <1>1, <1>2 DEF Ranked
<1>6. \A i \in 1 .. m : /\ Ranked(s, k)[i].doc = s[i]
                        /\ Ranked(s, k)[i].score = Score(s[i], pool)
  BY <1>5
<1> HIDE DEF n, m, pool
<1>7. \A i, j \in 1 .. m : i < j => Precedes(s[i], s[j])
  BY <1>2 DEF Ranking
<1>8. \A d \in pool : (\A i \in 1 .. m : s[i] # d) => \A i \in 1 .. m : Precedes(s[i], d)
  BY <1>2 DEF Ranking
<1>9. ~cfg.rerank => \A i \in 1 .. m : s[i] = i
  <2> SUFFICES ASSUME ~cfg.rerank PROVE \A i \in 1 .. m : s[i] = i
    OBVIOUS
  <2>1. \A i, j \in 1 .. m : i < j => s[i] < s[j]
    BY <1>7 DEF Precedes
  <2>2. \A d \in 1 .. n : (\A i \in 1 .. m : s[i] # d) => \A i \in 1 .. m : s[i] < d
    BY <1>1, <1>8 DEF Precedes
  <2>3. s \in [1 .. m -> 1 .. n]
    BY <1>1, <1>2
  <2>4. n \in Nat /\ m \in Nat
    BY <1>1
  <2> QED BY <2>1, <2>2, <2>3, <2>4, InOrder
<1>10. ASSUME m > 0, NEW d \in pool
       PROVE  Score(s[1], pool) >= Score(d, pool) /\ s[1] \in pool
  <2>1. s[1] \in pool
    BY <1>1, <1>2, <1>10
  <2>2. s[1] = d \/ Precedes(s[1], d)
    BY <1>1, <1>7, <1>8, <1>10
  <2>3. CASE s[1] = d
    <3>1. Score(d, pool) \in Int
      BY <1>3, <1>4, ScoresAssumption DEF Score
    <3> QED BY <2>1, <2>3, <3>1
  <2>4. CASE s[1] # d /\ ~cfg.rerank
    <3>1. s[1] < d
      BY <2>2, <2>4 DEF Precedes
    <3>2. corpus.relevance[s[1]] >= corpus.relevance[d]
      BY <1>3, <1>4, <2>1, <3>1 DEF BestFirst
    <3> QED BY <2>1, <2>4, <3>2 DEF Score
  <2>5. CASE s[1] # d /\ cfg.rerank
    <3>1. pool # {s[1]} /\ pool # {d}
      BY <2>1, <2>5
    <3>2. corpus.judged[s[1]] >= corpus.judged[d]
      BY <1>4, <2>1, <2>2, <2>5 DEF Precedes
    <3> QED BY <2>1, <2>5, <3>1, <3>2 DEF Score
  <2> QED BY <1>3, <2>3, <2>4, <2>5
<1>11. Ranked(s, k) # <<>> =>
         /\ Ranked(s, k)[1].doc \in pool
         /\ Ranked(s, k)[1].score = Score(Ranked(s, k)[1].doc, pool)
         /\ \A d \in pool : Ranked(s, k)[1].score >= Score(d, pool)
  <2> SUFFICES ASSUME Ranked(s, k) # <<>>
               PROVE  /\ Ranked(s, k)[1].doc \in pool
                      /\ Ranked(s, k)[1].score = Score(Ranked(s, k)[1].doc, pool)
                      /\ \A d \in pool : Ranked(s, k)[1].score >= Score(d, pool)
    OBVIOUS
  <2>1. m > 0 /\ 1 \in 1 .. m
    BY <1>1, <1>5
  <2>2. Ranked(s, k)[1].doc = s[1] /\ Ranked(s, k)[1].score = Score(s[1], pool)
    BY <1>6, <2>1
  <2>3. s[1] \in pool
    BY <1>2, <2>1
  <2> QED BY <1>10, <2>1, <2>2, <2>3
<1>12. ~cfg.rerank => \A i \in 1 .. Len(Ranked(s, k)) : Ranked(s, k)[i].doc = i
  BY <1>5, <1>6, <1>9
<1> QED BY <1>5, <1>11, <1>12 DEF Best, m, pool

-----------------------------------------------------------------------------
(* The verdict, and one attempt next to the one before it                  *)

\* The rankings a question holds: the last one, and that of the attempt before.
Holds(q, k) ==
  \/ attempts > 0 /\ q = kept /\ k = Depth(attempts - 1)
  \/ attempts > 1 /\ q = before.kept /\ k = Depth(attempts - 2)

\* What block i of a context is, when build_context made it.
End(u, i) == IF i = 0 THEN 0 ELSE u[i].end
Joint(i) == IF i = 1 THEN 0 ELSE Separator
Left(u, i) == cfg.budget - End(u, i - 1) - HeaderLength[u[i].doc][i] - Joint(i)
Fitting(u, i) ==
  \/ Length[u[i].doc] <= Left(u, i) /\ u[i].chars = Length[u[i].doc]
  \/ /\ Length[u[i].doc] > Left(u, i) /\ Left(u, i) - Marker >= MinChunk
     /\ u[i].chars = Left(u, i) - Marker - Trailing[u[i].doc][Left(u, i) - Marker] + Marker
Chained(u, i) ==
  u[i].end = End(u, i - 1) + Joint(i) + HeaderLength[u[i].doc][i] + u[i].chars
Built(u) == \A i \in 1 .. Len(u) : Fitting(u, i) /\ Chained(u, i)

OrderInv ==
  /\ attempts = 0 => stage \in {"retrieve", "raised"}
  /\ attempts > 0 => cfg.search_type = "similarity"
  /\ attempts > 1 \/ (attempts > 0 /\ stage = "retrieve") => cfg.driver = "agent"
FoundInv == \A q, k : Holds(q, k) => Best(q, k)
VerdictInv ==
  /\ Judging /\ cfg.driver = "agent" => (stage # "escalated" <=> AssessConfidence(kept))
  /\ attempts > 0 /\ stage = "retrieve" => kept # <<>>
  /\ attempts > 1 => before.kept # <<>>
BuiltInv ==
  /\ \A u : u \in {used, before.used} => Built(u)
  /\ Len(before.used) <= Len(before.kept)
  /\ \A i \in 1 .. Len(before.used) : before.used[i].doc = before.kept[i].doc
AgreeInv ==
  attempts > 1 /\ stage # "retrieve" /\ ~cfg.rerank =>
    /\ \A i \in 1 .. Len(used) : i <= Len(before.used) => used[i] = before.used[i]
    /\ stage \notin {"context", "escalated"} => Len(before.used) <= Len(used)

RInv == OrderInv /\ FoundInv /\ VerdictInv /\ BuiltInv /\ AgreeInv

LEMMA BestStays ==
  ASSUME UNCHANGED inputs, NEW q, NEW k
  PROVE  Best(q, k)' <=> Best(q, k)
<1>1. Candidates(k)' = Candidates(k)
  BY DEF Candidates, ResolveFetchK, inputs
<1>2. ASSUME NEW d PROVE Score(d, Candidates(k))' = Score(d, Candidates(k))
  BY <1>1 DEF Score, inputs
<1>3. q # <<>> => Score(q[1].doc, Candidates(k))' = Score(q[1].doc, Candidates(k))
  BY <1>2
<1> QED BY <1>1, <1>2, <1>3 DEF Best, inputs

LEMMA BuiltStays ==
  ASSUME UNCHANGED inputs, NEW u
  PROVE  Built(u)' <=> Built(u)
BY DEF Built, Fitting, Chained, Left, inputs

LEMMA RetrieveKeeps ==
  ASSUME IInv, RInv, Retrieve
  PROVE  RInv'
<1> DEFINE d == Depth(attempts)
<1>1. /\ TypeOK /\ attempts \in Nat /\ cfg \in Setting /\ corpus \in Corpus
      /\ OrderInv /\ FoundInv /\ VerdictInv /\ BuiltInv
  BY SettingsAssumption, CorporaAssumption DEF IInv, TypeOK, RInv
<1>2. d \in Nat /\ d > 0 /\ cfg.driver \in {"agent", "ask"}
  BY <1>1 DEF Depth, Setting
<1>3. /\ attempts' = attempts + 1 /\ cfg' = cfg /\ UNCHANGED inputs
      /\ before' = [kept |-> kept, used |-> used] /\ used' = <<>>
      /\ cfg.search_type = "similarity" /\ stage = "retrieve"
  BY DEF Retrieve, inputs
<1>4. PICK s \in Rankings(d) : kept' = Ranked(s, d) /\ stage' = AfterRetrieve(Ranked(s, d))
  BY DEF Retrieve, Ranked
<1>5. stage' = AfterRetrieve(kept')
  BY <1>4
<1>6. stage' \in {"context", "escalated", "empty"}
      /\ (stage' = "empty" => cfg.driver = "ask")
  BY <1>2, <1>5 DEF AfterRetrieve
<1>7. OrderInv'
  BY <1>1, <1>3, <1>6 DEF OrderInv
<1>8. FoundInv'
  <2> SUFFICES ASSUME NEW q, NEW k, Holds(q, k)' PROVE Best(q, k)
    BY <1>3, BestStays DEF FoundInv
  <2>1. CASE q = kept' /\ k = Depth(attempts - 1)'
    <3>1. q = Ranked(s, d) /\ k = d
      BY <1>1, <1>3, <1>4, <2>1 DEF Depth, Setting
    <3> QED BY <1>1, <1>2, <3>1, RankingIsBest
  <2>2. CASE attempts' > 1 /\ q = before'.kept /\ k = Depth(attempts - 2)'
    <3>1. attempts > 0 /\ q = kept /\ k = Depth(attempts - 1)
      BY <1>1, <1>3, <2>2 DEF Depth, Setting
    <3> QED BY <1>1, <3>1 DEF FoundInv, Holds
  <2> QED BY <2>1, <2>2 DEF Holds
<1>9. VerdictInv'
  <2>1. stage' # "retrieve"
    BY <1>6
  <2>2. attempts' > 1 => before'.kept # <<>>
    <3>1. before'.kept = kept /\ (attempts' > 1 => attempts > 0)
      BY <1>1, <1>3
    <3> QED BY <1>1, <1>3, <3>1 DEF VerdictInv
  <2>3. (Judging /\ cfg.driver = "agent" => (stage # "escalated" <=> AssessConfidence(kept)))'
    BY <1>3, <1>5, <1>6 DEF AfterRetrieve, AssessConfidence
  <2> QED BY <2>1, <2>2, <2>3 DEF VerdictInv
<1>10. BuiltInv'
  <2>1. NothingSkipped /\ used \in Blocks
    BY DEF IInv, ContextFits, TypeOK
  <2>2. Len(used) <= Len(kept) /\ \A i \in 1 .. Len(used) : used[i].doc = kept[i].doc
    BY <2>1 DEF NothingSkipped, Blocks
  <2>3. Built(<<>>)
    BY DEF Built
  <2> QED BY <1>1, <1>3, <2>2, <2>3, BuiltStays DEF BuiltInv
<1>11. AgreeInv'
  <2>1. Len(used') = 0
    BY <1>3
  <2> QED BY <1>3, <1>6, <1>7, <2>1 DEF AgreeInv, OrderInv
<1> QED BY <1>7, <1>8, <1>9, <1>10, <1>11 DEF RInv

\* The steps after the context is built, and the failed retrieval.
LEMMA LaterKeeps ==
  ASSUME IInv, RInv, Refuse \/ Answer \/ ReadMark \/ Finish \/ Retry \/ RetrieveMMR
  PROVE  RInv'
<1>1. UNCHANGED <<inputs, found, context>>
  BY DEF Refuse, Answer, ReadMark, Finish, Retry, RetrieveMMR
<1>2. UNCHANGED <<cfg, corpus, attempts, kept, before, used>>
  BY <1>1 DEF inputs, found, context
<1>3. OrderInv /\ FoundInv /\ VerdictInv /\ BuiltInv /\ AgreeInv /\ attempts \in Nat
  BY DEF RInv, IInv, TypeOK
<1>4. \/ /\ stage \in {"ask", "parse"}
         /\ stage' \in {"ask", "parse", "answered", "refused"}
      \/ stage' = "retrieve" /\ cfg.driver = "agent" /\ stage \in {"answered", "refused"}
      \/ stage' = "raised" /\ cfg.search_type = "mmr"
  BY DEF Refuse, Answer, ReadMark, Finish, Retry, RetrieveMMR
<1>5. OrderInv'
  BY <1>2, <1>3, <1>4 DEF OrderInv, RetrieveMMR
<1>6. FoundInv'
  <2>1. \A q, k : Holds(q, k)' <=> Holds(q, k)
    BY <1>2 DEF Holds, Depth
  <2> QED BY <1>1, <1>3, <2>1, BestStays DEF FoundInv
<1>7. VerdictInv'
  BY <1>2, <1>3, <1>4 DEF VerdictInv, Judging, AssessConfidence
<1>8. BuiltInv'
  BY <1>1, <1>2, <1>3, BuiltStays DEF BuiltInv
<1>9. AgreeInv'
  BY <1>2, <1>3, <1>4 DEF AgreeInv, OrderInv
<1> QED BY <1>5, <1>6, <1>7, <1>8, <1>9 DEF RInv

LEMMA BlockType ==
  ASSUME NEW u \in Blocks, NEW i \in 1 .. Len(u)
  PROVE  u[i] \in [doc : Docs, chars : Nat, end : Nat]
<1> DEFINE B == [doc : Docs, chars : Nat, end : Nat]
<1>1. u \in Seq(B)
  BY DEF Blocks
<1> HIDE DEF B
<1>2. u[i] \in B
  BY <1>1
<1> QED BY <1>2 DEF B

\* Two contexts that agree up to a block have the same next one.
LEMMA SameBlock ==
  ASSUME NEW u \in Blocks, NEW v \in Blocks, NEW i \in 1 .. Len(u), i <= Len(v),
         Built(u), Built(v), u[i].doc = v[i].doc, End(u, i - 1) = End(v, i - 1),
         Left(u, i) \in Int
  PROVE  u[i] = v[i]
<1>1. i \in 1 .. Len(v)
  BY DEF Blocks
<1>2. Left(u, i) = Left(v, i)
  BY DEF Left
<1>3. u[i].chars = v[i].chars
  <2>1. Fitting(u, i) /\ Fitting(v, i)
    BY <1>1 DEF Built
  <2>2. u[i].doc \in Docs
    BY BlockType
  <2>3. Length[u[i].doc] \in Nat
    BY <2>2, LengthsAssumption
  <2> QED BY <1>2, <2>1, <2>3 DEF Fitting
<1>4. u[i].end = v[i].end
  BY <1>1, <1>3 DEF Built, Chained
<1>5. /\ u[i] \in [doc : Docs, chars : Nat, end : Nat]
      /\ v[i] \in [doc : Docs, chars : Nat, end : Nat]
  BY <1>1, BlockType
<1> QED BY <1>3, <1>4, <1>5

\* Without a reranker every attempt finds the store's first chunks.
LEMMA SameDocs ==
  ASSUME IInv, RInv, ~cfg.rerank, attempts > 1
  PROVE  /\ Len(before.kept) <= Len(kept)
         /\ \A i \in 1 .. Len(kept) : kept[i].doc = i
         /\ \A i \in 1 .. Len(before.kept) : before.kept[i].doc = i
<1>1. /\ Best(kept, Depth(attempts - 1)) /\ Best(before.kept, Depth(attempts - 2))
      /\ attempts \in Nat /\ cfg \in Setting /\ corpus \in Corpus
  BY SettingsAssumption, CorporaAssumption DEF RInv, FoundInv, Holds, IInv, TypeOK
<1>2. /\ Len(kept) = Smaller(Depth(attempts - 1), corpus.hits)
      /\ Len(before.kept) = Smaller(Depth(attempts - 2), corpus.hits)
  BY <1>1 DEF Best
<1>3. /\ Depth(attempts - 1) \in Nat /\ Depth(attempts - 2) \in Nat
      /\ Depth(attempts - 2) <= Depth(attempts - 1) /\ corpus.hits \in Nat
  BY <1>1 DEF Depth, Setting, Corpus
<1>4. Len(before.kept) <= Len(kept)
  BY <1>2, <1>3 DEF Smaller
<1> QED BY <1>1, <1>4 DEF Best

LEMMA BlockKeeps ==
  ASSUME IInv, RInv, WholeChunk \/ CutChunk
  PROVE  RInv'
<1> DEFINE n == Len(used) + 1
<1>1. PICK chars : /\ AddBlock(chars)
                   /\ \/ Length[NextDoc] <= Remaining /\ chars = Length[NextDoc]
                      \/ /\ Length[NextDoc] > Remaining /\ Room >= MinChunk
                         /\ chars = Room - Trailing[NextDoc][Room] + Marker
  BY DEF WholeChunk, CutChunk
<1>2. /\ IInv' /\ More /\ stage = "context"
      /\ UNCHANGED <<cfg, corpus, inputs, attempts, kept, before, stage>>
  BY WholeChunkStep, CutChunkStep DEF WholeChunk, CutChunk, AddBlock, More, inputs, found
<1>3. /\ NextDoc = kept[n].doc /\ Len(used) \in Nat /\ Len(kept) \in Nat /\ n <= Len(kept)
      /\ used \in Blocks /\ used' \in Blocks /\ spent \in Nat
  BY <1>2, NextDocType DEF More, IInv, TypeOK
<1>4. /\ Len(used') = n /\ \A i \in 1 .. Len(used) : used'[i] = used[i]
      /\ used'[n] = [doc |-> NextDoc, chars |-> chars, end |-> spent']
      /\ spent' = spent + Gap + Header + chars
  <2> DEFINE block == [doc |-> NextDoc, chars |-> chars, end |-> spent']
  <2>1. used' = Append(used, block) /\ spent' = spent + Gap + Header + chars
    BY <1>1 DEF AddBlock
  <2> HIDE DEF block
  <2>2. used \in Seq([doc : Docs, chars : Nat, end : Nat])
    BY <1>3 DEF Blocks
  <2>3. /\ Len(used') = n /\ \A i \in 1 .. Len(used) : used'[i] = used[i]
        /\ used'[n] = block
    BY <2>1, <2>2
  <2> QED BY <2>1, <2>3 DEF block
<1>5. spent = End(used, Len(used)) /\ Gap = Joint(n)
  <2>1. used = <<>> <=> Len(used) = 0
    BY <1>3 DEF Blocks
  <2> QED BY <1>3, <2>1 DEF IInv, ContextFits, WithinBudget, EmptyIsFree, End, Joint, Gap
<1>6. \A i \in 1 .. n : End(used', i - 1) = End(used, i - 1)
  BY <1>3, <1>4 DEF End
<1>7. Built(used')
  <2>1. ASSUME NEW i \in 1 .. Len(used) PROVE Fitting(used', i) /\ Chained(used', i)
    <3>1. Fitting(used, i) /\ Chained(used, i)
      BY DEF RInv, BuiltInv, Built
    <3>2. used'[i] = used[i] /\ End(used', i - 1) = End(used, i - 1)
      BY <1>3, <1>4, <1>6
    <3> QED BY <3>1, <3>2 DEF Fitting, Chained, Left
  <2>2. Fitting(used', n) /\ Chained(used', n)
    <3>1. End(used', n - 1) = spent
      BY <1>3, <1>5, <1>6
    <3>2. Left(used', n) = Remaining
      BY <1>4, <1>5, <3>1 DEF Left, Remaining, Header
    <3>3. Chained(used', n)
      BY <1>4, <1>5, <3>1 DEF Chained, Header
    <3>4. Fitting(used', n)
      BY <1>1, <1>4, <3>2 DEF Fitting, Room
    <3> QED BY <3>3, <3>4
  <2> QED BY <1>3, <1>4, <2>1, <2>2 DEF Built
<1>8. BuiltInv'
  BY <1>2, <1>7, BuiltStays DEF BuiltInv, RInv
<1>9. AgreeInv'
  <2> SUFFICES ASSUME attempts > 1, ~cfg.rerank, NEW i \in 1 .. n, i <= Len(before.used)
               PROVE  used'[i] = before.used[i]
    BY <1>2, <1>4 DEF AgreeInv
  <2>1. \A j \in 1 .. Len(used) : j <= Len(before.used) => used[j] = before.used[j]
    BY <1>2 DEF RInv, AgreeInv
  <2>2. CASE i # n
    BY <1>3, <1>4, <2>1, <2>2
  <2>3. CASE i = n
    <3>1. before.used \in Blocks /\ Built(before.used) /\ n \in 1 .. Len(before.used)
      BY <1>3, <2>3 DEF IInv, TypeOK, RInv, BuiltInv, Blocks
    <3>2. End(used', n - 1) = End(before.used, n - 1)
      <4>1. CASE Len(used) = 0
        BY <4>1 DEF End
      <4>2. CASE Len(used) > 0
        <5> DEFINE m == Len(used)
        <5>1. m \in 1 .. m /\ m <= Len(before.used) /\ n - 1 = m /\ m # 0
          BY <1>3, <3>1, <4>2
        <5> HIDE DEF m, n
        <5>2. used'[m] = before.used[m]
          BY <1>4, <2>1, <5>1 DEF m
        <5> QED BY <5>1, <5>2 DEF End
      <4> QED BY <1>3, <4>1, <4>2
    <3>3. used'[n].doc = n /\ before.used[n].doc = n
      <4>1. before.used[n].doc = before.kept[n].doc /\ n \in 1 .. Len(before.kept)
        <5>1. Len(before.kept) \in Nat /\ Len(before.used) \in Nat
          BY DEF IInv, TypeOK, Scored, Blocks
        <5> QED BY <1>3, <3>1, <5>1 DEF RInv, BuiltInv
      <4>2. kept[n].doc = n /\ before.kept[n].doc = n
        BY <1>3, <4>1, SameDocs
      <4> QED BY <1>3, <1>4, <4>1, <4>2
    <3>4. n \in 1 .. Len(used') /\ n <= Len(before.used)
      BY <1>3, <1>4, <2>3
    <3>5. Left(used', n) \in Int
      <4>1. /\ Header \in Nat /\ Gap \in Nat /\ cfg.budget \in Nat
        BY <1>2, NextDocType, CountsAssumption DEF Budgets
      <4>2. End(used', n - 1) = spent /\ HeaderLength[used'[n].doc][n] = Header
        BY <1>3, <1>4, <1>5, <1>6 DEF Header
      <4> QED BY <1>3, <1>5, <4>1, <4>2 DEF Left
    <3> QED BY <1>3, <1>7, <2>3, <3>1, <3>2, <3>3, <3>4, <3>5, SameBlock
  <2> QED BY <2>2, <2>3
<1>10. FoundInv'
  <2>1. \A q, k : Holds(q, k)' <=> Holds(q, k)
    BY <1>2 DEF Holds, Depth
  <2> QED BY <1>2, <2>1, BestStays DEF FoundInv, RInv
<1>11. OrderInv' /\ VerdictInv'
  BY <1>2 DEF RInv, OrderInv, VerdictInv, Judging, AssessConfidence
<1> QED BY <1>8, <1>9, <1>10, <1>11 DEF RInv

\* No chunk of the attempt before is given up for want of room.
LEMMA EndKeeps ==
  ASSUME IInv, RInv, EndContext
  PROVE  RInv'
<1>1. /\ stage = "context" /\ stage' = "ask"
      /\ UNCHANGED <<cfg, corpus, inputs, attempts, kept, before, used>>
  BY DEF EndContext, inputs, found, context
<1>2. ASSUME attempts > 1, ~cfg.rerank PROVE Len(before.used) <= Len(used)
  <2> DEFINE n == Len(used) + 1
             b == before.used
  <2>1. /\ used \in Blocks /\ b \in Blocks /\ kept \in Scored /\ before.kept \in Scored
        /\ Built(used) /\ Built(b) /\ Len(b) <= Len(before.kept)
        /\ \A i \in 1 .. Len(b) : b[i].doc = before.kept[i].doc
        /\ \A i \in 1 .. Len(used) : i <= Len(b) => used[i] = b[i]
    BY <1>1, <1>2 DEF IInv, TypeOK, RInv, BuiltInv, AgreeInv
  <2>2. /\ Len(used) \in Nat /\ Len(b) \in Nat /\ Len(kept) \in Nat
        /\ Len(before.kept) \in Nat /\ Len(before.kept) <= Len(kept)
    BY <1>2, <2>1, SameDocs DEF Blocks, Scored
  <2>3. CASE Len(used) = Len(kept)
    BY <2>1, <2>2, <2>3
  <2>4. CASE More /\ Length[NextDoc] > Remaining /\ Room < MinChunk
    <3> SUFFICES ASSUME Len(b) > Len(used) PROVE FALSE
      BY <2>2
    <3>1. n \in 1 .. Len(b) /\ n \in 1 .. Len(before.kept) /\ n \in 1 .. Len(kept)
      BY <2>1, <2>2
    <3>2. b[n].doc = NextDoc
      BY <1>2, <2>1, <3>1, SameDocs DEF NextDoc
    <3>3. spent = End(b, n - 1) /\ Gap = Joint(n)
      <4>1. used = <<>> <=> Len(used) = 0
        BY <2>1 DEF Blocks
      <4>2. CASE Len(used) = 0
        BY <4>1, <4>2 DEF IInv, EmptyIsFree, End, Joint, Gap
      <4>3. CASE Len(used) > 0
        BY <2>1, <2>2, <3>1, <4>1, <4>3 DEF IInv, ContextFits, WithinBudget, End, Joint, Gap
      <4> QED BY <2>2, <4>2, <4>3
    <3>4. Left(b, n) = Remaining
      BY <3>2, <3>3 DEF Left, Remaining, Header
    <3>5. Fitting(b, n)
      BY <2>1, <3>1 DEF Built
    <3>6. Length[NextDoc] \in Nat /\ Remaining \in Int /\ Room \in Int /\ MinChunk \in Nat
      <4>1. /\ NextDoc \in Docs /\ Header \in Nat /\ Gap \in Nat /\ cfg.budget \in Nat
            /\ spent \in Nat
        BY <2>4, NextDocType, CountsAssumption DEF Budgets, IInv, TypeOK
      <4> QED BY <4>1, LengthsAssumption DEF Remaining, Room
    <3> QED BY <2>4, <3>2, <3>4, <3>5, <3>6 DEF Fitting, Room
  <2> QED BY <2>3, <2>4 DEF EndContext
<1>3. AgreeInv'
  BY <1>1, <1>2 DEF RInv, AgreeInv
<1>4. BuiltInv'
  BY <1>1, BuiltStays DEF BuiltInv, RInv
<1>5. FoundInv'
  <2>1. \A q, k : Holds(q, k)' <=> Holds(q, k)
    BY <1>1 DEF Holds, Depth
  <2> QED BY <1>1, <2>1, BestStays DEF FoundInv, RInv
<1>6. OrderInv' /\ VerdictInv'
  BY <1>1 DEF RInv, OrderInv, VerdictInv, Judging, AssessConfidence
<1> QED BY <1>3, <1>4, <1>5, <1>6 DEF RInv

LEMMA InitRInv == Init => RInv
<1> SUFFICES ASSUME Init PROVE RInv
  OBVIOUS
<1>1. attempts = 0 /\ stage = "retrieve" /\ used = <<>> /\ before = [kept |-> <<>>, used |-> <<>>]
  BY DEF Init
<1>2. Built(<<>>)
  BY DEF Built
<1> QED BY <1>1, <1>2
        DEF RInv, OrderInv, FoundInv, Holds, VerdictInv, Judging, BuiltInv, AgreeInv

LEMMA NextRInv == IInv /\ RInv /\ [Next]_vars => RInv'
<1> SUFFICES ASSUME IInv, RInv, [Next]_vars PROVE RInv'
  OBVIOUS
<1>1. CASE Retrieve
  BY <1>1, RetrieveKeeps
<1>2. CASE WholeChunk \/ CutChunk
  BY <1>2, BlockKeeps
<1>3. CASE EndContext
  BY <1>3, EndKeeps
<1>4. CASE Refuse \/ Answer \/ ReadMark \/ Finish \/ Retry \/ RetrieveMMR
  BY <1>4, LaterKeeps
<1>5. CASE UNCHANGED vars
  <2>1. UNCHANGED <<cfg, corpus, inputs, attempts, kept, before, used, stage>>
    BY <1>5 DEF vars, inputs, found, context
  <2>2. FoundInv'
    <3>1. \A q, k : Holds(q, k)' <=> Holds(q, k)
      BY <2>1 DEF Holds, Depth
    <3> QED BY <2>1, <3>1, BestStays DEF FoundInv, RInv
  <2>3. BuiltInv'
    BY <2>1, BuiltStays DEF BuiltInv, RInv
  <2>4. OrderInv' /\ VerdictInv' /\ AgreeInv'
    BY <2>1 DEF RInv, OrderInv, VerdictInv, Judging, AssessConfidence, AgreeInv
  <2> QED BY <2>2, <2>3, <2>4 DEF RInv
<1> QED BY <1>1, <1>2, <1>3, <1>4, <1>5 DEF Next, BuildContext, Generate

LEMMA RetrievalInvariant == Spec => []RInv
<1>1. IInv /\ RInv /\ [Next]_vars => RInv'
  BY NextRInv
<1> QED BY <1>1, InitRInv, Invariant, PTL DEF Spec

\* retrieve_scored returns as many chunks as there are, up to what was asked for,
\* and the agent answers just when the best of all candidates passes the
\* threshold, for any scores, pool sizes and number of attempts.
THEOREM BestDecides == Spec => []VerdictIsTheBest
<1>1. IInv /\ RInv => VerdictIsTheBest
  <2> SUFFICES ASSUME IInv, RInv, Judging PROVE VerdictIsTheBest
    BY DEF VerdictIsTheBest
  <2> DEFINE k == Depth(attempts - 1)
             t == cfg.threshold
  <2>1. attempts \in Nat /\ attempts > 0
    BY DEF IInv, TypeOK, RInv, OrderInv, Judging
  <2>2. Best(kept, k)
    BY <2>1 DEF RInv, FoundInv, Holds
  <2>3. Len(kept) = Smaller(k, corpus.hits)
    BY <2>2 DEF Best
  <2>4. cfg \in Setting /\ TypeOK
    BY SettingsAssumption DEF IInv, TypeOK
  <2>5. k \in Nat /\ k > 0
    BY <2>1, <2>4 DEF Depth, Setting
  <2>6. t = Null \/ t \in Int
    BY <2>4, ScoresAssumption DEF Setting
  <2>7. /\ PoolSize(k) \in Nat /\ corpus.hits \in Nat /\ Pool = 1 .. PoolSize(k)
        /\ Smaller(k, PoolSize(k)) = Smaller(k, corpus.hits) /\ Pool = Candidates(k)
        /\ PoolSize(k) <= MaxDocs
    BY <2>4, <2>5, PoolSizes DEF Pool
  <2>8. \A d \in Pool : Score(d, Pool) \in Int
    <3> SUFFICES ASSUME NEW d \in Pool PROVE Score(d, Pool) \in Int
      OBVIOUS
    <3>1. d \in Docs
      BY <2>7, MaxDocsAssumption DEF Docs
    <3>2. corpus \in Corpus /\ cfg.rerank \in BOOLEAN
      BY <2>4, CorporaAssumption DEF TypeOK, Setting
    <3>3. corpus.relevance[d] \in Scores /\ corpus.judged[d] \in Scores
      BY <3>1, <3>2 DEF Corpus
    <3> QED BY <3>2, <3>3, ScoresAssumption DEF Score
  <2>9. kept = <<>> <=> Pool = {}
    <3>1. kept = <<>> <=> Len(kept) = 0
      BY DEF IInv, TypeOK, Scored
    <3> HIDE DEF k
    <3>2. Len(kept) = 0 <=> PoolSize(k) = 0
      BY <2>3, <2>5, <2>7 DEF Smaller
    <3>3. PoolSize(k) = 0 <=> Pool = {}
      BY <2>7
    <3> QED BY <3>1, <3>2, <3>3
  <2>10. AssessConfidence(kept) <=> \E d \in Pool : t = Null \/ Score(d, Pool) >= t
    <3> HIDE DEF k
    <3>1. CASE kept = <<>>
      BY <2>9, <3>1 DEF AssessConfidence
    <3>2. CASE kept # <<>>
      <4> DEFINE b == kept[1].doc
      <4>1. /\ b \in Pool /\ kept[1].score = Score(b, Pool)
            /\ \A d \in Pool : Score(b, Pool) >= Score(d, Pool)
        BY <2>2, <2>7, <3>2 DEF Best
      <4>2. kept[1].score \in Int
        BY <2>8, <4>1
      <4> HIDE DEF b
      <4>3. CASE t = Null
        BY <3>2, <4>1, <4>3 DEF AssessConfidence
      <4>4. CASE t # Null
        <5>1. AssessConfidence(kept) <=> kept[1].score >= t
          BY <3>2, <4>4 DEF AssessConfidence
        <5> HIDE DEF t
        <5> QED BY <2>6, <2>8, <4>1, <4>2, <4>4, <5>1
      <4> QED BY <4>3, <4>4
    <3> QED BY <3>1, <3>2
  <2>11. cfg.driver = "agent" => (stage # "escalated" <=> AssessConfidence(kept))
    BY DEF RInv, VerdictInv
  <2> QED BY <2>3, <2>10, <2>11 DEF VerdictIsTheBest
<1> QED BY <1>1, Invariant, RetrievalInvariant, PTL

\* A wider second attempt takes nothing away, for any lengths and scores: without
\* a reranker the context before is a prefix of the new one, with one the best
\* chunk is judged no worse, whatever score it is shown with.
THEOREM RetryHelps == Spec => []RetryNoWorse
<1>1. IInv /\ RInv => RetryNoWorse
  <2> SUFFICES ASSUME IInv, RInv, attempts > 1, stage # "retrieve" PROVE RetryNoWorse
    BY DEF RetryNoWorse
  <2> DEFINE k == Depth(attempts - 2)
  <2>1. /\ attempts \in Nat /\ cfg \in Setting /\ corpus \in Corpus /\ TypeOK
        /\ Best(kept, Depth(attempts - 1)) /\ Best(before.kept, k)
    BY SettingsAssumption, CorporaAssumption DEF RInv, FoundInv, Holds, IInv, TypeOK
  <2>2. k \in Nat /\ k > 0 /\ Depth(attempts - 1) = k + 2
    BY <2>1 DEF Depth, Setting
  <2>3. ASSUME ~cfg.rerank, stage \notin {"context", "escalated"}
        PROVE  /\ Len(before.used) <= Len(used)
               /\ \A i \in DOMAIN before.used : used[i] = before.used[i]
    <3>1. /\ Len(before.used) <= Len(used)
          /\ \A i \in 1 .. Len(used) : i <= Len(before.used) => used[i] = before.used[i]
      BY <2>3 DEF RInv, AgreeInv
    <3>2. /\ DOMAIN before.used = 1 .. Len(before.used)
          /\ Len(before.used) \in Nat /\ Len(used) \in Nat
      BY DEF IInv, TypeOK, Blocks
    <3> QED BY <3>1, <3>2
  <2>4. ASSUME cfg.rerank
        PROVE  corpus.judged[kept[1].doc] >= corpus.judged[before.kept[1].doc]
    <3> DEFINE m == PoolSize(k)
               n == PoolSize(k + 2)
               a == before.kept[1].doc
               b == kept[1].doc
    <3>1. /\ m \in Nat /\ Candidates(k) = 1 .. m /\ corpus.hits \in Nat
          /\ Smaller(k, m) = Smaller(k, corpus.hits) /\ m <= n
      BY <2>1, <2>2, PoolSizes
    <3>2. n \in Nat /\ n <= MaxDocs /\ Candidates(k + 2) = 1 .. n
      <4>1. k + 2 \in Nat
        BY <2>2
      <4> HIDE DEF k
      <4> QED BY <2>1, <4>1, PoolSizes
    <3>3. before.kept # <<>> /\ kept # <<>>
      <4> HIDE DEF k, m, n
      <4>1. before.kept # <<>>
        BY DEF RInv, VerdictInv
      <4>2. Len(before.kept) # 0
        BY <2>1, <4>1 DEF TypeOK, Scored
      <4>3. corpus.hits > 0
        BY <2>1, <2>2, <3>1, <4>2 DEF Best, Smaller
      <4>4. Len(kept) > 0
        BY <2>1, <2>2, <3>1, <4>3 DEF Best, Smaller
      <4> QED BY <4>1, <4>4
    <3>4. /\ a \in Candidates(k) /\ b \in Candidates(k + 2)
          /\ kept[1].score = Score(b, Candidates(k + 2))
          /\ \A d \in Candidates(k + 2) : kept[1].score >= Score(d, Candidates(k + 2))
      <4> HIDE DEF k
      <4> QED BY <2>1, <2>2, <3>3 DEF Best
    <3>5. a \in Candidates(k + 2)
      <4> HIDE DEF k, m, n, a
      <4> QED BY <3>1, <3>2, <3>4
    <3>6. corpus.judged[a] \in Int
      <4> HIDE DEF k, m, n, a
      <4>1. a \in Docs
        BY <3>2, <3>5, MaxDocsAssumption DEF Docs
      <4> QED BY <2>1, <4>1, ScoresAssumption DEF Corpus
    <3>7. CASE Candidates(k + 2) = {a}
      <4>1. b = a
        <5> HIDE DEF k, a, b
        <5> QED BY <3>4, <3>7
      <4> HIDE DEF a, b
      <4> QED BY <3>6, <4>1 DEF a, b
    <3>8. CASE Candidates(k + 2) # {a}
      <4> HIDE DEF k, m, n, a, b
      <4>1. Candidates(k + 2) # {b}
        BY <3>5, <3>8
      <4>2. /\ Score(a, Candidates(k + 2)) = corpus.judged[a]
            /\ Score(b, Candidates(k + 2)) = corpus.judged[b]
        BY <2>4, <3>8, <4>1 DEF Score
      <4> QED BY <3>4, <3>5, <4>2 DEF a, b
    <3> QED BY <3>7, <3>8
  <2> QED BY <2>3, <2>4 DEF RetryNoWorse
<1> QED BY <1>1, Invariant, RetrievalInvariant, PTL

-----------------------------------------------------------------------------
(* What the evaluation retrieves                                           *)

\* What is kept is a ranking of the candidates, and only what was read is cited.
KeptInv ==
  /\ attempts > 0 =>
       \E s \in Rankings(Depth(attempts - 1)) : kept = Ranked(s, Depth(attempts - 1))
  /\ CitesUsed

\* A ranking's places are filled, in order, with the best of the pool.
LEMMA RankingShape ==
  ASSUME TypeOK, NEW k \in Nat
  PROVE  \E m \in Nat : \A s \in Rankings(k) :
           /\ s \in [1 .. m -> Candidates(k)] /\ Len(s) = m
           /\ \A i, j \in 1 .. m : i < j => Precedes(s[i], s[j])
           /\ \A d \in Candidates(k) :
                (\A i \in 1 .. m : s[i] # d) => \A i \in 1 .. m : Precedes(s[i], d)
<1> DEFINE m == Smaller(k, Cardinality(Candidates(k)))
<1>1. m \in Nat
  BY PoolType, MaxDocsAssumption
<1> HIDE DEF m
<1>2. ASSUME NEW s \in Rankings(k)
      PROVE  s \in [1 .. m -> Candidates(k)] /\ DOMAIN s = 1 .. m /\ Len(s) = m
  BY <1>1, <1>2 DEF Rankings, m
<1> QED BY <1>1, <1>2 DEF Rankings, Ranking

\* Precedes orders the candidates strictly.
LEMMA PrecedesOnce ==
  ASSUME TypeOK, NEW k \in Nat, NEW d \in Candidates(k), NEW e \in Candidates(k)
  PROVE  /\ ~(Precedes(d, e) /\ Precedes(e, d))
         /\ d # e => Precedes(d, e) \/ Precedes(e, d)
<1>1. d \in Docs /\ e \in Docs
  BY PoolType
<1>2. d \in Int /\ e \in Int
  BY <1>1, MaxDocsAssumption DEF Docs
<1>3. corpus \in Corpus
  BY CorporaAssumption DEF TypeOK
<1>4. corpus.judged[d] \in Int /\ corpus.judged[e] \in Int
  BY <1>1, <1>3, ScoresAssumption DEF Corpus
<1> QED BY <1>2, <1>4 DEF Precedes

\* A set of numbers has a least one.
LEMMA LeastNumber ==
  ASSUME NEW S \in SUBSET Nat, S # {}
  PROVE  \E n \in S : \A m \in S : n <= m
<1> DEFINE R == {ss \in Nat \X Nat : ss[1] < ss[2]}
<1>1. IsWellFoundedOn(R, Nat)
  BY NatLessThanWellFounded DEF OpToRel
<1>2. \A m, n \in Nat : m < n => <<m, n>> \in R
  OBVIOUS
<1> HIDE DEF R
<1>3. PICK n \in S : \A m \in S : <<m, n>> \notin R
  BY <1>1, WFMin
<1>4. \A m \in S : ~(m < n)
  BY <1>2, <1>3
<1> HIDE DEF R
<1>5. \A m \in S : n <= m
  BY <1>4
<1> QED BY <1>5

\* There is one ranking only: the reranker's sort is stable.
LEMMA OneRanking ==
  ASSUME TypeOK, NEW k \in Nat, NEW s \in Rankings(k), NEW t \in Rankings(k)
  PROVE  s = t
<1>1. PICK m \in Nat : \A r \in Rankings(k) :
           /\ r \in [1 .. m -> Candidates(k)] /\ Len(r) = m
           /\ \A i, j \in 1 .. m : i < j => Precedes(r[i], r[j])
           /\ \A d \in Candidates(k) :
                (\A i \in 1 .. m : r[i] # d) => \A i \in 1 .. m : Precedes(r[i], d)
  BY RankingShape
<1> DEFINE Wrong == {i \in 1 .. m : s[i] # t[i]}
<1>2. CASE Wrong = {}
  <2>1. \A i \in 1 .. m : s[i] = t[i]
    BY <1>2
  <2> QED BY <1>1, <2>1
<1>3. CASE Wrong # {}
  <2>1. PICK i \in Wrong : \A j \in Wrong : i <= j
    <3>1. Wrong \in SUBSET Nat
      OBVIOUS
    <3> HIDE DEF Wrong
    <3> QED BY <1>3, <3>1, LeastNumber
  <2>2. /\ i \in 1 .. m /\ s[i] # t[i]
        /\ \A j \in 1 .. m : j < i => s[j] = t[j]
    BY <2>1
  <2>3. ASSUME NEW a \in Rankings(k), NEW b \in Rankings(k), a[i] # b[i],
               \A j \in 1 .. m : j < i => a[j] = b[j]
        PROVE  ~Precedes(a[i], b[i])
    <3>1. a[i] \in Candidates(k) /\ b[i] \in Candidates(k)
      BY <1>1, <2>2
    <3>2. Precedes(b[i], a[i])
      <4>1. CASE \A j \in 1 .. m : b[j] # a[i]
        BY <1>1, <2>2, <3>1, <4>1
      <4>2. CASE \E j \in 1 .. m : b[j] = a[i]
        <5>1. PICK j \in 1 .. m : b[j] = a[i]
          BY <4>2
        <5>2. j # i
          BY <2>3, <5>1
        <5>3. ~(j < i)
          <6>1. SUFFICES ASSUME j < i PROVE FALSE
            OBVIOUS
          <6>2. a[j] = a[i] /\ Precedes(a[j], a[i])
            BY <1>1, <2>2, <2>3, <5>1, <6>1
          <6> QED BY <3>1, <6>2, PrecedesOnce
        <5>4. i < j
          BY <2>2, <5>2, <5>3
        <5> QED BY <1>1, <2>2, <5>1, <5>4
      <4> QED BY <4>1, <4>2
    <3> QED BY <3>1, <3>2, PrecedesOnce
  <2>4. ~Precedes(s[i], t[i]) /\ ~Precedes(t[i], s[i])
    BY <2>2, <2>3
  <2>5. s[i] \in Candidates(k) /\ t[i] \in Candidates(k)
    BY <1>1, <2>2
  <2> QED BY <2>2, <2>4, <2>5, PrecedesOnce
<1> QED BY <1>2, <1>3

LEMMA RankedStays ==
  ASSUME UNCHANGED inputs, NEW k
  PROVE  Rankings(k)' = Rankings(k) /\ \A s : Ranked(s, k)' = Ranked(s, k)
<1>1. Candidates(k)' = Candidates(k)
  BY DEF Candidates, ResolveFetchK, inputs
<1>2. \A d, pool : Score(d, pool)' = Score(d, pool)
  BY DEF Score, inputs
<1>3. \A s, pool : Ranking(s, pool)' <=> Ranking(s, pool)
  BY DEF Ranking, Precedes, inputs
<1>4. Rankings(k)' = Rankings(k)
  BY <1>1, <1>3 DEF Rankings
<1>5. \A s : Ranked(s, k)' = Ranked(s, k)
  BY <1>1, <1>2 DEF Ranked
<1> QED BY <1>4, <1>5

LEMMA InitKept == Init => KeptInv
  BY DEF Init, KeptInv, CitesUsed

LEMMA NextKept == IInv /\ KeptInv /\ [Next]_vars => KeptInv'
<1> SUFFICES ASSUME IInv, KeptInv, [Next]_vars PROVE KeptInv'
  OBVIOUS
<1>1. attempts \in Nat /\ cfg \in Setting
  BY SettingsAssumption DEF IInv, TypeOK
<1>2. CASE Retrieve
  <2>1. PICK s \in Rankings(Depth(attempts)) : kept' = Ranked(s, Depth(attempts))
    BY <1>2 DEF Retrieve, Ranked
  <2>2. UNCHANGED inputs /\ attempts' = attempts + 1 /\ used' = <<>> /\ citations' = <<>>
    BY <1>2 DEF Retrieve
  <2>3. Depth(attempts - 1)' = Depth(attempts)
    BY <1>1, <2>2 DEF Depth, inputs
  <2>4. PICK k : k = Depth(attempts)
    OBVIOUS
  <2>5. s \in Rankings(k)' /\ kept' = Ranked(s, k)'
    BY <2>1, <2>2, <2>4, RankedStays
  <2> QED BY <2>2, <2>3, <2>4, <2>5 DEF KeptInv, CitesUsed
<1>3. CASE UNCHANGED <<inputs, attempts, kept>>
  <2>1. CitesUsed'
    <3>1. CASE WholeChunk \/ CutChunk
      BY <3>1 DEF WholeChunk, CutChunk, AddBlock, More, parsed, IInv, ParseInv, CitesUsed
    <3>2. CASE ReadMark
      <4>1. IInv' /\ stage' = "parse"
        BY <3>2, ReadMarkStep DEF ReadMark
      <4> QED BY <4>1 DEF IInv, ParseInv
    <3>3. CASE UNCHANGED <<used, citations>>
      BY <3>3 DEF KeptInv, CitesUsed
    <3>4. CASE Retrieve
      BY <3>4 DEF Retrieve, CitesUsed
    <3> QED BY <3>1, <3>2, <3>3, <3>4 DEF Next, BuildContext, Generate, RetrieveMMR, EndContext,
            Refuse, Answer, Finish, Retry, vars, context, parsed
  <2>2. PICK k : k = Depth(attempts - 1)
    OBVIOUS
  <2>3. Depth(attempts - 1)' = k
    BY <1>3, <2>2 DEF Depth, inputs
  <2>4. \A s : (s \in Rankings(k) <=> s \in Rankings(k)') /\ Ranked(s, k)' = Ranked(s, k)
    BY <1>3, RankedStays
  <2> QED BY <1>3, <2>1, <2>2, <2>3, <2>4 DEF KeptInv
<1> QED BY <1>2, <1>3 DEF Next, BuildContext, Generate, WholeChunk, CutChunk, AddBlock, RetrieveMMR,
        EndContext, Refuse, Answer, ReadMark, Finish, Retry, vars, inputs, found

LEMMA KeptInvariant == Spec => []KeptInv
<1>1. IInv /\ KeptInv /\ [Next]_vars => KeptInv'
  BY NextKept
<1> QED BY <1>1, InitKept, Invariant, PTL DEF Spec

\* The routing evaluation is true of the agent, for any cases, scores, lengths and
\* replies: an escalated case is one the agent escalates at its first attempt, a miss
\* is never cited, and a hit reaches the model unless the context is full.
THEOREM EvaluationPredicts == Spec => []EvalPredictsAgent
<1>1. IInv /\ RInv /\ KeptInv => EvalPredictsAgent
  <2> SUFFICES ASSUME IInv, RInv, KeptInv, FirstAttempt,
                      NEW expected \in SUBSET {File[d] : d \in Docs}
               PROVE  LET case == EvaluateCase(expected)
                          cited == {File[c.doc] : c \in {citations[i] : i \in DOMAIN citations}}
                          seen == {File[used[i].doc] : i \in DOMAIN used}
                      IN /\ stage = "escalated" <=> case.escalated
                         /\ case.hit = FALSE => cited \cap expected = {}
                         /\ case.hit = TRUE /\ stage \in {"ask", "parse", "answered", "refused"} =>
                              seen \cap expected # {} \/ Len(used) < Len(kept)
    BY DEF EvalPredictsAgent
  <2> DEFINE case == EvaluateCase(expected)
             cited == {File[c.doc] : c \in {citations[i] : i \in DOMAIN citations}}
             seen == {File[used[i].doc] : i \in DOMAIN used}
  <2>1. cfg.driver = "agent" /\ attempts = 1 /\ Judging /\ TypeOK /\ cfg \in Setting
    BY SettingsAssumption DEF FirstAttempt, IInv, TypeOK
  <2>2. Depth(attempts - 1) = EvalDepth /\ EvalDepth \in Nat
    BY <2>1 DEF Depth, EvalDepth, Setting
  <2>3. kept = RetrieveScored(EvalDepth)
    <3>1. PICK k \in Nat : k = EvalDepth
      BY <2>2
    <3>2. PICK s \in Rankings(k) : kept = Ranked(s, k)
      BY <2>1, <2>2, <3>1 DEF KeptInv
    <3>3. (CHOOSE r \in Rankings(k) : TRUE) = s
      BY <2>1, OneRanking
    <3>4. DOMAIN s = 1 .. Len(s)
      BY <2>1, RankingShape
    <3> QED BY <3>1, <3>2, <3>3, <3>4 DEF RetrieveScored, Ranked
  <2>4. /\ case.escalated = ~AssessConfidence(kept)
        /\ case.hit = IF expected = {} THEN Null ELSE Labels(kept) \cap expected # {}
    BY <2>3 DEF EvaluateCase, Escalates
  <2>5. stage = "escalated" <=> case.escalated
    BY <2>1, <2>4 DEF RInv, VerdictInv
  <2>6. /\ kept \in Scored /\ used \in Blocks /\ Len(kept) \in Nat /\ Len(used) \in Nat
        /\ DOMAIN kept = 1 .. Len(kept) /\ DOMAIN used = 1 .. Len(used)
        /\ Len(used) <= Len(kept) /\ \A i \in DOMAIN used : used[i].doc = kept[i].doc
    BY DEF IInv, TypeOK, ContextFits, NothingSkipped, Scored, Blocks
  <2>7. ASSUME case.hit = FALSE PROVE cited \cap expected = {}
    <3>1. CASE expected = {}
      BY <3>1
    <3>2. CASE expected # {}
      <4>1. Labels(kept) \cap expected = {}
        BY <2>4, <2>7, <3>2
      <4>2. \A i \in DOMAIN citations : File[citations[i].doc] \in Labels(kept)
        <5> SUFFICES ASSUME NEW i \in DOMAIN citations
                     PROVE  File[citations[i].doc] \in Labels(kept)
          OBVIOUS
        <5>1. PICK j \in DOMAIN used : citations[i].doc = used[j].doc
          BY DEF KeptInv, CitesUsed
        <5>2. j \in DOMAIN kept /\ used[j].doc = kept[j].doc
          BY <2>6
        <5> QED BY <5>1, <5>2 DEF Labels
      <4> QED BY <4>1, <4>2
    <3> QED BY <3>1, <3>2
  <2>8. ASSUME case.hit = TRUE PROVE seen \cap expected # {} \/ Len(used) < Len(kept)
    <3> SUFFICES ASSUME ~(Len(used) < Len(kept)) PROVE seen \cap expected # {}
      OBVIOUS
    <3>1. Labels(kept) \cap expected # {}
      BY <2>4, <2>8, NoneAssumption
    <3>2. PICK i \in DOMAIN kept : File[kept[i].doc] \in expected
      BY <3>1 DEF Labels
    <3>3. i \in DOMAIN used /\ used[i].doc = kept[i].doc
      BY <2>6
    <3> QED BY <3>2, <3>3
  <2> QED BY <2>5, <2>7, <2>8
<1> QED BY <1>1, Invariant, RetrievalInvariant, KeptInvariant, PTL
=============================================================================
