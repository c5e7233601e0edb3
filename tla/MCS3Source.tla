----------------------------- MODULE MCS3Source -----------------------------
(* S3Source on small instances: two contents of an object.                 *)
EXTENDS S3Source

CONSTANTS old, new

\* The replacement is longer.
MCDistinct == [c \in Contents |-> IF c = old THEN 1 ELSE 2]
=============================================================================
