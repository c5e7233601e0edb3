--------------------------- MODULE BenchRetrievers ---------------------------
(***************************************************************************)
(* The retrievers of the benchmark (retriever/bm25.py, dense.py, fusion.py,*)
(* RerankingRetriever of rerank.py) and how a pipeline of benchmark.yaml   *)
(* nests them (retriever/factory.py).                                      *)
(*                                                                         *)
(* A pipeline is a tree: Tree[n] is the entry of node n, whose retrievers  *)
(* or inner name further nodes.  A leaf holds what its search uses: the    *)
(* corpus, and the matrix of a dense one.  A search returns hits, each a   *)
(* document's id and text.  One query stands for all: nothing a search     *)
(* does depends on another one.  Scores are integers, ordered as the real  *)
(* ones.                                                                   *)
(***************************************************************************)
EXTENDS Integers, Sequences, FiniteSets, FiniteSetsExt

CONSTANTS
  Node,     \* nodes of the pipelines
  Tree,     \* [Node -> Entry]
  Key,      \* what the index cache keys a leaf on: its type and settings
  Model,    \* embedding models
  Doc,      \* document ids
  Text,     \* contents of documents
  Lexical,  \* BM25's score of a text
  Cosine,   \* similarity of a text's vector under a model
  Judged,   \* what the reranker thinks of a text
  FetchK    \* the deepest cut any metric looks at

Entry ==
  [type : {"bm25", "dense"}, key : Key, top_k : Nat]
    \cup [type : {"rrf"}, rrf_k : Nat, top_k : Nat, retrievers : Seq(Node)]
    \cup [type : {"rerank"}, candidate_k : Nat, top_k : Nat, inner : Node]

ASSUME TreeAssumption == \A n \in Node : Tree[n] \in Entry
ASSUME ScoresAssumption ==
  /\ Lexical \in [Text -> Int] /\ Judged \in [Text -> Int]
  /\ Cosine \in [Model -> [Text -> Int]]
ASSUME FetchKAssumption == FetchK \in Nat \ {0}

\* The nodes a composite searches.
Children(n) ==
  LET cfg == Tree[n]
  IN  CASE cfg.type = "rrf" -> {cfg.retrievers[i] : i \in DOMAIN cfg.retrievers}
        [] cfg.type = "rerank" -> {cfg.inner}
        [] OTHER -> {}

\* benchmark.yaml nests its entries, finitely many, and no entry in itself.
ASSUME NestingAssumption ==
  /\ IsFiniteSet(Node)
  /\ \E height \in [Node -> 0 .. Cardinality(Node)] :
       \A n \in Node : \A child \in Children(n) : height[child] < height[n]

Smaller(m, n) == IF m <= n THEN m ELSE n

\* s[:k]
First(s, k) == SubSeq(s, 1, Smaller(k, Len(s)))

\* The elements of S in the order R, a set of pairs.
Arranged(S, R) ==
  [n \in 1 .. Cardinality(S) |->
     CHOOSE x \in S : Cardinality({y \in S : <<y, x>> \in R}) = n - 1]

\* The items of s by descending score; of two with one score the earlier place wins if
\* the sort is stable, otherwise the later one.
Sorted(s, score, stable) ==
  LET before == {p \in (DOMAIN s) \X (DOMAIN s) :
                   \/ score[p[1]] > score[p[2]]
                   \/ /\ score[p[1]] = score[p[2]]
                      /\ IF stable THEN p[1] < p[2] ELSE p[1] > p[2]}
      places == Arranged(DOMAIN s, before)
  IN  [r \in DOMAIN places |-> s[places[r]]]

-----------------------------------------------------------------------------
(* Leaves                                                                  *)

\* The vector of a text under a model.
Row == [model : Model, text : Text]

\* DenseRetriever's matrix, in the corpus's key order.
Embedded(m, c) == [i \in DOMAIN c.ids |-> [model |-> m, text |-> c.text[c.ids[i]]]]

Leaf(c, rows) == [corpus |-> c, rows |-> rows]

Hits(c) == [i \in DOMAIN c.ids |-> [doc |-> c.ids[i], text |-> c.text[c.ids[i]]]]

\* sorted() is stable.
SearchBM25(leaf, k) ==
  LET hits == Hits(leaf.corpus)
      score == [i \in DOMAIN hits |-> Lexical[hits[i].text]]
  IN  First(Sorted(hits, score, TRUE), k)

\* argsort, reversed: of two rows with one score the later comes first here; the
\* code asks argsort for no kind that promises it (dense.py:65), only for the same
\* order each time.  Rows that were normalised when they were cached are once more
\* (dense.py:47-49), which is taken to leave them as they are.
SearchDense(leaf, k) ==
  LET score == [i \in DOMAIN leaf.rows |-> Cosine[leaf.rows[i].model][leaf.rows[i].text]]
  IN  First(Sorted(Hits(leaf.corpus), score, FALSE), k)

-----------------------------------------------------------------------------
(* Composites                                                              *)

\* A common multiple of all rrf_k + rank, so that shares are integers.
Unit(rrf_k, depth) ==
  LET product[i \in 0 .. depth] == IF i = 0 THEN 1 ELSE product[i - 1] * (rrf_k + i)
  IN  product[depth]

\* scores, a dict: a hit of each document, by the place it is first met at.
Seen(lists) ==
  LET places == UNION {{l} \X (DOMAIN lists[l]) : l \in DOMAIN lists}
      Hit(p) == lists[p[1]][p[2]]
      earlier == {p \in places \X places :
                    p[1][1] < p[2][1] \/ (p[1][1] = p[2][1] /\ p[1][2] < p[2][2])}
      first == Arranged({p \in places : \A q \in places :
                           <<q, p>> \in earlier => Hit(q).doc # Hit(p).doc}, earlier)
  IN  [n \in DOMAIN first |-> Hit(first[n])]

\* 1 / (rrf_k + rank) for every list the document is in.
Score(doc, lists, rrf_k, unit) ==
  LET Share(list) == LET ranks == {r \in DOMAIN list : list[r].doc = doc}
                     IN  IF ranks = {} THEN 0
                         ELSE unit \div (rrf_k + CHOOSE r \in ranks : TRUE)
      sum[n \in 0 .. Len(lists)] == IF n = 0 THEN 0 ELSE sum[n - 1] + Share(lists[n])
  IN  sum[Len(lists)]

\* Reciprocal rank fusion; of documents with the same score the one seen first comes first.
Fuse(lists, rrf_k, k) ==
  LET seen == Seen(lists)
      unit == Unit(rrf_k, Len(seen))
      score == [i \in DOMAIN seen |-> Score(seen[i].doc, lists, rrf_k, unit)]
  IN  First(Sorted(seen, score, TRUE), k)

\* RelevanceScorer.rerank: sorted() by the model's score.
Rerank(candidates, k) ==
  LET score == [i \in DOMAIN candidates |-> Judged[candidates[i].text]]
  IN  First(Sorted(candidates, score, TRUE), k)

\* Mutant: a composite's children search as deep as they are configured to.
DepthOfChildren(cfg, child, k) == Tree[child].top_k

\* What a composite asks a child for: a fusion the depth it is asked for itself, a
\* reranker candidate_k whatever it is asked for.
ChildDepth(cfg, child, k) == IF cfg.type = "rerank" THEN cfg.candidate_k ELSE k

\* search(query, depth) of node n, from what the retrievers below it find at any depth.
SearchNode(index, found, n, depth) ==
  LET cfg == Tree[n]
      Ask(child) == found[child][ChildDepth(cfg, child, depth)]
  IN  CASE cfg.type = "bm25" -> SearchBM25(index[cfg.key], depth)
        [] cfg.type = "dense" -> SearchDense(index[cfg.key], depth)
        [] cfg.type = "rrf" ->
             Fuse([i \in DOMAIN cfg.retrievers |-> Ask(cfg.retrievers[i])], cfg.rrf_k, depth)
        [] cfg.type = "rerank" -> Rerank(Ask(cfg.inner), depth)

\* search(query, k) of node n's retriever, over the leaves the index cache holds.
Search(index, n, k) ==
  LET found[m \in Node] == [depth \in Nat |-> SearchNode(index, found, m, depth)]
  IN  found[n][k]

\* The node and everything below it.
Under[n \in Node] == {n} \cup UNION {Under[child] : child \in Children(n)}

\* rerank() leaves one candidate as it is, without the score
\* RerankingRetriever.search then looks for: KeyError.
LoneCandidate(index, n) ==
  \E m \in Under[n] :
    /\ Tree[m].type = "rerank"
    /\ Len(Search(index, Tree[m].inner, Tree[m].candidate_k)) = 1

\* Embeds the query or has a model score: a call that may fail.
AsksAModel(n) == \E m \in Under[n] : Tree[m].type \in {"dense", "rerank"}
=============================================================================
