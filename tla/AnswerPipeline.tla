--------------------------- MODULE AnswerPipeline ---------------------------
(***************************************************************************)
(* A question's way through rag_core: retrieve, rerank and judge what was  *)
(* found (retriever/retrieve.py, rerank.py, confidence.py), render the     *)
(* chunks into a bounded context, have the model answer and resolve the    *)
(* source numbers it cites (generation/generator.py).                      *)
(*                                                                         *)
(* The agent's nodes retrieve and answer go this way once per attempt,     *)
(* and only with a confident retrieval; rag-ask goes it once, whatever the *)
(* verdict (RagCore.query).  Nothing here is concurrent: each step is one  *)
(* call, or one turn of a loop.                                            *)
(*                                                                         *)
(* A chunk is its rank in the store's answer to the question, which does   *)
(* not change between attempts.  Scores are integers, 0 is 0.0; lengths    *)
(* count characters.  A reply is the source numbers in it.  Left out: the  *)
(* scorers' check on the number of scores, since all three return one per  *)
(* document, and the answer's confidence, which is only printed.           *)
(***************************************************************************)
EXTENDS Integers, Sequences, FiniteSets

CONSTANTS
  MaxDocs,      \* chunks a search can find
  Scores,       \* what a chunk may score
  Null,         \* None
  Settings,     \* configurations, see Setting
  Corpora,      \* what the store and the reranker make of a question
  Length,       \* [Docs -> Nat], characters of a chunk
  HeaderLength, \* [Docs -> [Docs -> Nat]], of '[n] (source: ...)' above a chunk
  MaxBudget,    \* bound: max_context_chars at most
  Trailing,     \* [Docs -> [Budgets -> Budgets]], blanks before a cut there
  Separator,    \* len(BLOCK_SEPARATOR)
  Marker,       \* len(TRUNCATION_MARKER)
  MinChunk,     \* MIN_CHUNK_CHARS
  MinFetch,     \* 20, the least pool for a reranker
  Replies,      \* source numbers the model may cite, in order of appearance
  MaxAttempts   \* MAX_ATTEMPTS of the agent

Docs == 1 .. MaxDocs
Budgets == 0 .. MaxBudget

\* Who asks, and what config.yaml says; fetch_k and threshold may be None.
Setting == [driver : {"agent", "ask"}, search_type : {"similarity", "mmr"},
            top_k : Nat \ {0}, rerank : BOOLEAN, fetch_k : Nat \cup {Null},
            threshold : Scores \cup {Null}, budget : Budgets]

\* How many chunks the store finds, what it scores them, best first, and what
\* the reranker does.
Corpus == [hits : 0 .. MaxDocs, relevance : [Docs -> Scores], judged : [Docs -> Scores]]
BestFirst(relevance) == \A d, e \in Docs : d < e => relevance[d] >= relevance[e]

ASSUME MaxDocsAssumption == MaxDocs \in Nat
ASSUME ScoresAssumption == Scores \subseteq Int /\ 0 \in Scores
ASSUME NullAssumption == Null \notin Int
ASSUME SettingsAssumption == Settings \subseteq Setting
ASSUME CorporaAssumption ==
  Corpora \subseteq Corpus /\ \A c \in Corpora : BestFirst(c.relevance)
ASSUME LengthsAssumption ==
  /\ Length \in [Docs -> Nat]
  /\ HeaderLength \in [Docs -> [Docs -> Nat]]
  /\ Trailing \in [Docs -> [Budgets -> Budgets]]
  /\ \A d \in Docs, n \in Budgets : Trailing[d][n] <= n
  /\ Separator \in Nat /\ Marker \in Nat /\ MinChunk \in Nat
ASSUME CountsAssumption == MaxBudget \in Nat /\ MinFetch \in Nat /\ MaxAttempts \in Nat
ASSUME RepliesAssumption == Replies \subseteq Seq(Nat)

VARIABLES
  cfg,        \* the setting in force
  corpus,     \* what the question finds
  stage,      \* where the question is
  attempts,   \* retrievals so far
  kept,       \* (chunk, score) pairs the last one returned, best first
  used,       \* chunks rendered so far: which, how long, where each ends
  spent,      \* characters of the context so far
  reply,      \* source numbers in the model's reply
  read,       \* source numbers of it looked at so far
  citations,  \* those resolved, in order of appearance
  invalid,    \* those that name no source
  answer,     \* the last answer shown to the user, None before
  before      \* history: kept and used of the attempt before

inputs == <<cfg, corpus>>
found == <<attempts, kept, before>>
context == <<used, spent>>
parsed == <<reply, read, citations, invalid>>
vars == <<inputs, stage, found, context, parsed, answer>>

Stages == {"retrieve", "context", "ask", "parse",
           "answered", "refused", "empty", "escalated", "raised"}
Scored == Seq([doc : Docs, score : Scores])
Blocks == Seq([doc : Docs, chars : Nat, end : Nat])
Citations == Seq([index : Docs, doc : Docs])
Shown == [numbers : SUBSET Nat, citations : Citations]

TypeOK ==
  /\ cfg \in Settings /\ corpus \in Corpora
  /\ stage \in Stages
  /\ attempts \in Nat
  /\ kept \in Scored
  /\ used \in Blocks /\ spent \in Nat
  /\ reply \in Seq(Nat) /\ read \in 0 .. Len(reply)
  /\ citations \in Citations
  /\ invalid \subseteq Nat
  /\ answer \in Shown \cup {Null}
  /\ before \in [kept : Scored, used : Blocks]

Init ==
  /\ cfg \in Settings /\ corpus \in Corpora
  /\ stage = "retrieve" /\ attempts = 0
  /\ kept = <<>> /\ used = <<>> /\ spent = 0
  /\ reply = <<>> /\ read = 0 /\ citations = <<>> /\ invalid = {}
  /\ answer = Null
  /\ before = [kept |-> <<>>, used |-> <<>>]

-----------------------------------------------------------------------------
(* retrieve_scored and assess_confidence                                   *)

Larger(m, n) == IF m >= n THEN m ELSE n
Smaller(m, n) == IF m <= n THEN m ELSE n

\* Mutant: every attempt after the first forgets top_k.
DepthOfRetry(n) == IF n = 0 THEN cfg.top_k ELSE n

\* The agent widens the net with every attempt.
Depth(n) == cfg.top_k + 2 * n

\* Mutant: fetch_k is taken as it is.
FetchAsTold(k) == IF cfg.fetch_k = Null THEN Larger(4 * k, MinFetch) ELSE cfg.fetch_k

ResolveFetchK(k) ==
  Larger(IF cfg.fetch_k = Null THEN Larger(4 * k, MinFetch) ELSE cfg.fetch_k, k)

\* similarity_search_with_relevance_scores
Candidates(k) == 1 .. Smaller(IF cfg.rerank THEN ResolveFetchK(k) ELSE k, corpus.hits)

\* rerank: by score, stably.  A single candidate is not scored at all, and
\* retrieve_scored reads 0.0 for it.
Precedes(d, e) ==
  IF cfg.rerank
  THEN corpus.judged[d] > corpus.judged[e] \/ (corpus.judged[d] = corpus.judged[e] /\ d < e)
  ELSE d < e

Score(d, pool) ==
  CASE ~cfg.rerank -> corpus.relevance[d]
    [] cfg.rerank /\ pool = {d} -> 0
    [] OTHER -> corpus.judged[d]

\* The first k of the pool, in order.
Ranking(s, pool) ==
  /\ \A i, j \in DOMAIN s : i < j => Precedes(s[i], s[j])
  /\ \A d \in pool : (\A i \in DOMAIN s : s[i] # d) => \A i \in DOMAIN s : Precedes(s[i], d)

Rankings(k) ==
  LET pool == Candidates(k)
  IN  {s \in [1 .. Smaller(k, Cardinality(pool)) -> pool] : Ranking(s, pool)}

AssessConfidence(scored) ==
  /\ scored # <<>>
  /\ cfg.threshold = Null \/ scored[1].score >= cfg.threshold

AfterRetrieve(scored) ==
  CASE cfg.driver = "agent" -> IF AssessConfidence(scored) THEN "context" ELSE "escalated"
    [] cfg.driver = "ask" -> IF scored = <<>> THEN "empty" ELSE "context"

Retrieve ==
  /\ stage = "retrieve"
  /\ cfg.search_type = "similarity"
  /\ \E s \in Rankings(Depth(attempts)) :
       LET scored == [i \in 1 .. Len(s) |->
                        [doc |-> s[i], score |-> Score(s[i], Candidates(Depth(attempts)))]]
       IN  kept' = scored /\ stage' = AfterRetrieve(scored)
  /\ attempts' = attempts + 1
  /\ before' = [kept |-> kept, used |-> used]
  /\ used' = <<>> /\ spent' = 0
  /\ reply' = <<>> /\ read' = 0 /\ citations' = <<>> /\ invalid' = {}
  /\ UNCHANGED <<inputs, answer>>

\* MMR has no scores: retrieve_scored raises.
RetrieveMMR ==
  /\ stage = "retrieve"
  /\ cfg.search_type = "mmr"
  /\ stage' = "raised"
  /\ UNCHANGED <<inputs, found, context, parsed, answer>>

-----------------------------------------------------------------------------
(* build_context                                                           *)

NextDoc == kept[Len(used) + 1].doc
Gap == IF used = <<>> THEN 0 ELSE Separator
Header == HeaderLength[NextDoc][Len(used) + 1]

\* Mutant: blocks are taken to stand next to each other.
RemainingWithoutGap == cfg.budget - spent - Header

Remaining == cfg.budget - spent - Header - Gap

Room == Remaining - Marker

More == stage = "context" /\ Len(used) < Len(kept)

AddBlock(chars) ==
  /\ spent' = spent + Gap + Header + chars
  /\ used' = Append(used, [doc |-> NextDoc, chars |-> chars, end |-> spent'])
  /\ UNCHANGED <<inputs, stage, found, parsed, answer>>

WholeChunk ==
  /\ More
  /\ Length[NextDoc] <= Remaining
  /\ AddBlock(Length[NextDoc])

\* Mutant: however little is left of the chunk.
CutToNothing ==
  /\ More
  /\ Length[NextDoc] > Remaining
  /\ AddBlock(Room - (IF Room >= 0 THEN Trailing[NextDoc][Room] ELSE 0) + Marker)

\* The head of the chunk, unless it would be a sliver.
CutChunk ==
  /\ More
  /\ Length[NextDoc] > Remaining
  /\ Room >= MinChunk
  /\ AddBlock(Room - Trailing[NextDoc][Room] + Marker)

EndContext ==
  /\ stage = "context"
  /\ \/ Len(used) = Len(kept)
     \/ More /\ Length[NextDoc] > Remaining /\ Room < MinChunk
  /\ stage' = "ask"
  /\ UNCHANGED <<inputs, found, context, parsed, answer>>

-----------------------------------------------------------------------------
(* The model's reply, parse_citations, citation_coverage                   *)

\* The model says INSUFFICIENT_CONTEXT, or nothing: the refusal is shown.
Refuse ==
  /\ stage = "ask"
  /\ stage' = "refused"
  /\ answer' = [numbers |-> {}, citations |-> <<>>]
  /\ UNCHANGED <<inputs, found, context, parsed>>

Answer ==
  /\ stage = "ask"
  /\ reply' \in Replies
  /\ stage' = "parse"
  /\ UNCHANGED <<inputs, found, context, read, citations, invalid, answer>>

\* Mutant: the sources are all chunks that were retrieved.
KeptSources == [n \in 1 .. Len(kept) |-> kept[n].doc]

\* The documents parse_citations is given.
Sources == [n \in 1 .. Len(used) |-> used[n].doc]

Cited == {citations[i].index : i \in DOMAIN citations}

ReadMark ==
  /\ stage = "parse"
  /\ read < Len(reply)
  /\ LET n == reply[read + 1]
     IN  \/ /\ n \notin DOMAIN Sources
            /\ invalid' = invalid \cup {n}
            /\ UNCHANGED citations
         \/ /\ n \in DOMAIN Sources \ Cited
            /\ citations' = Append(citations, [index |-> n, doc |-> Sources[n]])
            /\ UNCHANGED invalid
         \/ /\ n \in Cited
            /\ UNCHANGED <<citations, invalid>>
  /\ read' = read + 1
  /\ UNCHANGED <<inputs, stage, found, context, reply, answer>>

\* Numbers without a source are dropped from the text.
Finish ==
  /\ stage = "parse"
  /\ read = Len(reply)
  /\ answer' = [numbers |-> {reply[i] : i \in DOMAIN reply} \ invalid,
                citations |-> citations]
  /\ stage' = "answered"
  /\ UNCHANGED <<inputs, found, context, parsed>>

\* The agent's user asks again.
Retry ==
  /\ stage \in {"answered", "refused"}
  /\ cfg.driver = "agent" /\ attempts < MaxAttempts
  /\ stage' = "retrieve"
  /\ UNCHANGED <<inputs, found, context, parsed, answer>>

BuildContext == WholeChunk \/ CutChunk \/ EndContext
Generate == Refuse \/ Answer \/ ReadMark \/ Finish

Next == Retrieve \/ RetrieveMMR \/ BuildContext \/ Generate \/ Retry

Spec == Init /\ [][Next]_vars
-----------------------------------------------------------------------------
(* Properties                                                              *)

Judging == stage \in {"context", "ask", "parse", "answered", "refused", "escalated"}
Pool == Candidates(Depth(attempts - 1))

\* Neither the reranker nor a small fetch_k costs results: as many chunks come
\* back as were asked for, or as there are (retrieve_scored, retrieve.py:105-126;
\* resolve_fetch_k, rerank.py:381-389).  The agent answers just when the best of
\* all candidates passes the threshold, on the scale in use, a reranked pool of
\* one excepted (assess_confidence, confidence.py:64-96).
VerdictIsTheBest ==
  Judging =>
    /\ Len(kept) = Smaller(Depth(attempts - 1), corpus.hits)
    /\ cfg.driver = "agent" /\ ~(cfg.rerank /\ Cardinality(Pool) = 1) =>
         (stage # "escalated" <=>
            \E d \in Pool : cfg.threshold = Null \/ Score(d, Pool) >= cfg.threshold)

\* The context is what fits: rendered chunks and separators stay within
\* max_context_chars, however chunks are cut; no chunk is passed over for a worse
\* one; and if a header and a sliver fit at all, the model is never asked without
\* a source (build_context, generator.py:47-99).
WithinBudget ==
  /\ spent <= cfg.budget
  /\ used # <<>> => spent = used[Len(used)].end
  /\ \A i \in DOMAIN used :
       used[i].end = (IF i = 1 THEN 0 ELSE used[i - 1].end + Separator)
                       + HeaderLength[used[i].doc][i] + used[i].chars
NothingSkipped ==
  Len(used) <= Len(kept) /\ \A i \in DOMAIN used : used[i].doc = kept[i].doc
AlwaysASource ==
  stage \in {"ask", "parse", "answered"} /\ used = <<>> =>
    cfg.budget < HeaderLength[kept[1].doc][1] + Marker + MinChunk
ContextFits == WithinBudget /\ NothingSkipped /\ AlwaysASource

\* A reader can trace what is cited: every number left in the answer has one
\* citation, which names the chunk the model saw under that number, and every
\* citation is still in the answer (parse_citations, generator.py:105-154).
AnswerIsTraceable ==
  stage = "answered" =>
    /\ \A i \in DOMAIN answer.citations :
         LET c == answer.citations[i]
         IN  c.index \in DOMAIN used /\ c.doc = used[c.index].doc
    /\ \A i, j \in DOMAIN answer.citations :
         answer.citations[i].index = answer.citations[j].index => i = j
    /\ answer.numbers = {answer.citations[i].index : i \in DOMAIN answer.citations}

\* A retry is never worse than what the user had: without a reranker it keeps
\* every chunk shown before, in its place and at its length; with one its best
\* chunk is no worse than the best one before, as the reranker judges chunks
\* (retrieve, nodes.py:88-91: "so a second attempt can actually differ").
\* The score it comes with may still fall: a pool of one is not judged but gets
\* 0.0 (rerank.py:77-79, retrieve.py:115), and the retry's pool may have more.
RetryNoWorse ==
  attempts > 1 /\ stage # "retrieve" =>
    /\ ~cfg.rerank /\ stage \notin {"context", "escalated"} =>
         Len(before.used) <= Len(used) /\ \A i \in DOMAIN before.used : used[i] = before.used[i]
    /\ cfg.rerank => corpus.judged[kept[1].doc] >= corpus.judged[before.kept[1].doc]
=============================================================================
