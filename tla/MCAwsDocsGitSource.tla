------------------------- MODULE MCAwsDocsGitSource -------------------------
(***************************************************************************)
(* AwsDocsGitSource on small instances: two revisions with docs, the second*)
(* of which edited the first file only.                                    *)
(***************************************************************************)
EXTENDS AwsDocsGitSource

MCEdited == [r \in Revs |-> IF r = 1 THEN Files ELSE {1}]
=============================================================================
