----------------------------- MODULE MCIngestor -----------------------------
(***************************************************************************)
(* Instances of Ingestor for TLC.  Four contents: one of three chunks, sent*)
(* in two batches of at most two, one of two chunks, one of a single chunk *)
(* and one without extractable text.                                       *)
(***************************************************************************)
EXTENDS Ingestor

CONSTANTS long, mid, short, empty

MCChunks == [c \in Contents |->
  CASE c = long -> 3 [] c = mid -> 2 [] c = short -> 1 [] c = empty -> 0]

\* Any path may hold any content: copies, renames and reverts.
MCShared == [f \in Paths |-> Contents]

\* No two paths ever hold the same content.
MCDistinct == [f \in Paths |-> IF f = 1 THEN Contents \ {mid} ELSE {mid} \cap Contents]

\* With no sync running, a document the status check calls complete is whole:
\* otherwise every later sync skips it and it stays truncated.
QuietCompleteMeansWhole ==
  (\A p \in Workers : pc[p] = "idle") => CompleteMeansWhole
=============================================================================
