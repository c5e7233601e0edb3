-------------------------- MODULE MCAnswerPipeline --------------------------
(***************************************************************************)
(* AnswerPipeline on small instances: four chunks, of which the third is   *)
(* long, cut chunks that end in blanks, and a budget that is generous,     *)
(* tight or too small for the second chunk.                                *)
(***************************************************************************)
EXTENDS RoutingEval

\* -1 also stands for the -inf of a document Cohere does not rank.
MCScores == {-1, 0, 1}

MCLength == [d \in Docs |-> IF d = 3 THEN 9 ELSE 3]
MCHeaderLength == [d \in Docs |-> [n \in Docs |-> IF d = 2 THEN 3 ELSE 2]]
MCTrailing == [d \in Docs |-> [n \in Budgets |-> IF d = 3 /\ n >= 5 THEN 4 ELSE 0]]

Tuned(driver, top_k, rerank, fetch_k, threshold, budget) ==
  [driver |-> driver, search_type |-> "similarity", top_k |-> top_k, rerank |-> rerank,
   fetch_k |-> fetch_k, threshold |-> threshold, budget |-> budget]
MCSettings ==
  LET tunings == [driver : {"agent", "ask"}, search_type : {"similarity"}, top_k : {1, 2},
                  rerank : BOOLEAN, fetch_k : {1, Null}, threshold : {1, Null},
                  budget : {6, 13, 40}]
      mmr == [Tuned("agent", 1, FALSE, Null, Null, 40) EXCEPT !.search_type = "mmr"]
  IN  {s \in tunings : s.rerank \/ s.fetch_k = Null} \cup {mmr}

MCCorpora == {c \in [hits : 0 .. MaxDocs, relevance : [Docs -> {0, 1}],
                     judged : [Docs -> {-1, 1}]] :
  /\ BestFirst(c.relevance)
  /\ \A d \in Docs : d > c.hits => c.relevance[d] = 0 /\ c.judged[d] = -1}

\* The first two chunks are from one file.
MCFile == [d \in Docs |-> IF d <= 2 THEN "a" ELSE IF d = 3 THEN "b" ELSE "c"]

\* A number twice, a number too high, zero, and none.
MCReplies == {<<2, 1, 2>>, <<1, 4, 0>>, <<>>}
=============================================================================
