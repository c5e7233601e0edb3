-------------------------- MODULE MCRetrievalBench --------------------------
(***************************************************************************)
(* RetrievalBench on small instances: three documents, one of which may be *)
(* edited or come first; a fusion whose leaves are configured less deep    *)
(* than the metrics look; rerankers over it, whose pool is smaller than    *)
(* that, a single candidate, or smaller than what it is to keep.           *)
(***************************************************************************)
EXTENDS RetrievalBench, TLC

MCTree ==
  [bm25   |-> [type |-> "bm25", key |-> "lexical", top_k |-> 1],
   dense  |-> [type |-> "dense", key |-> "cosine", top_k |-> 1],
   hybrid |-> [type |-> "rrf", rrf_k |-> 2, top_k |-> 1, retrievers |-> <<"bm25", "dense">>],
   rerank |-> [type |-> "rerank", candidate_k |-> 2, top_k |-> 1, inner |-> "hybrid"],
   lone   |-> [type |-> "rerank", candidate_k |-> 1, top_k |-> 1, inner |-> "bm25"],
   narrow |-> [type |-> "rerank", candidate_k |-> 1, top_k |-> 2, inner |-> "dense"]]
MCNode == DOMAIN MCTree
MCPipeline == [e \in {"hybrid", "rerank", "lone", "narrow"} |-> e]
MCSweeps == {<<"hybrid", "rerank">>, <<"lone">>, <<"narrow">>, <<"gone">>}

Symmetry == Permutations(Process)

MCModel == {"m"}
MCDoc == {"a", "b", "c"}
MCText == {"new", "old", "long", "short"}
MCLexical == [new |-> 3, old |-> 1, long |-> 2, short |-> 2]
MCCosine == [m \in MCModel |-> [new |-> 1, old |-> 3, long |-> 2, short |-> 2]]
MCJudged == [new |-> 2, old |-> 1, long |-> 3, short |-> 0]

Holding(order, a) == [ids |-> order, text |-> [a |-> a, b |-> "long", c |-> "short"]]
MCCorpora ==
  [nfcorpus |-> {Holding(<<"a", "b", "c">>, "old"), Holding(<<"b", "a", "c">>, "old")},
   programmers |-> {Holding(<<"a", "b", "c">>, "new")}]
=============================================================================
