---------------------------- MODULE RoutingEval ----------------------------
(***************************************************************************)
(* The routing evaluation (evals/run.py, evals/runner.py): each case's     *)
(* question is retrieved as the agent retrieves it first, judged with its  *)
(* threshold and routed by its own edge.  Nothing is generated.            *)
(*                                                                         *)
(* A case is a question, which is a corpus of AnswerPipeline, and the      *)
(* files that count as relevant, none for a question off the corpus.       *)
(***************************************************************************)
EXTENDS AnswerPipeline

CONSTANT File   \* [Docs -> the file a chunk is from, by its bare name]

ASSUME FileAssumption == DOMAIN File = Docs
\* A hit that is None is neither a hit nor a miss.
ASSUME NoneAssumption == Null \notin BOOLEAN

\* retrieve_scored(question, k): the pairs of one call.
RetrieveScored(k) ==
  LET ranking == CHOOSE s \in Rankings(k) : TRUE
  IN [i \in DOMAIN ranking |->
        [doc |-> ranking[i], score |-> Score(ranking[i], Candidates(k))]]

\* Mutant: the depth of the agent's second attempt.
SecondDepth == Depth(1)

\* evals/run.py: "Same k as the agent's first retrieve attempt".
EvalDepth == cfg.top_k

\* route_after_retrieve, asked with nothing but the confidence
Escalates(scored) == ~AssessConfidence(scored)

\* The files of a list of chunks, without repetitions.
Labels(scored) == {File[scored[i].doc] : i \in DOMAIN scored}

(* evaluate_case; hit is None for a case that expects no file.             *)
EvaluateCase(expected) ==
  LET scored == RetrieveScored(EvalDepth)
  IN [escalated |-> Escalates(scored),
      hit |-> IF expected = {} THEN Null ELSE Labels(scored) \cap expected # {}]

-----------------------------------------------------------------------------
FirstAttempt == cfg.driver = "agent" /\ attempts = 1 /\ Judging

(* What the evaluation reports is what the agent's user meets: the agent   *)
(* escalates at its first attempt just when the case says so, and where    *)
(* the case is a miss none of its first answer's citations is from an      *)
(* expected file; where it is a hit the context had room for such a file,  *)
(* or was full (run.py:28-31).                                             *)
EvalPredictsAgent ==
  FirstAttempt /\ cfg.search_type = "similarity" =>
    \A expected \in SUBSET {File[d] : d \in Docs} :
      LET case == EvaluateCase(expected)
          cited == {File[c.doc] : c \in {citations[i] : i \in DOMAIN citations}}
          seen == {File[used[i].doc] : i \in DOMAIN used}
      IN /\ stage = "escalated" <=> case.escalated
         /\ case.hit = FALSE => cited \cap expected = {}
         /\ case.hit = TRUE /\ stage \in {"ask", "parse", "answered", "refused"} =>
              seen \cap expected # {} \/ Len(used) < Len(kept)
=============================================================================
