------------------------------ MODULE S3Cache -------------------------------
(***************************************************************************)
(* The bucket, the cache directory of the S3 source (sources/s3.py) and the*)
(* calls that share it: the parameters and the state of S3Source, which has*)
(* the steps, and what a listing promises.                                 *)
(***************************************************************************)
EXTENDS Naturals

CONSTANTS
  Callers,    \* calls of list_files that can be in progress at once
  NumKeys,    \* keys under the prefix, numbered in their order
  Contents,   \* what an object may hold
  Size,       \* [Contents -> Nat], its length
  NoObject,   \* a key without object, a path without file
  Second,     \* ticks of the clock in a second
  MaxTime,    \* bound: the clock stops here
  Failing     \* subset of {"fail"}: calls to S3 may fail, callers be killed

Keys == 1 .. NumKeys
Object == [content : Contents, modified : Nat]
Copy == [object : Object, mtime : Nat]
Entry == [key : Keys, size : Nat, modified : Nat]

ASSUME NumKeysAssumption == NumKeys \in Nat
ASSUME SizeAssumption == Size \in [Contents -> Nat]
ASSUME NoObjectAssumption == NoObject \notin Object \cup Copy
ASSUME SecondAssumption == Second \in Nat \ {0}
ASSUME MaxTimeAssumption == MaxTime \in Nat
ASSUME FailingAssumption == Failing \subseteq {"fail"}

VARIABLES
  objects,   \* [Keys -> Object or NoObject], the bucket
  cache,     \* [Keys -> Copy or NoObject], the cache directory
  now,       \* the clock, in ticks
  progress,  \* where each call stands
  listing,   \* entries each call has listed and not yet dealt with
  part,      \* the object whose download each call is about to complete
  listed,    \* paths each call is going to return
  seen       \* history: contents of each key since the oldest call at work
             \* listed the bucket

Stored == {k \in Keys : objects[k] # NoObject}
Cached == {k \in Keys : cache[k] # NoObject}

\* Every entry a call has listed is dealt with: list_files returns.
AllDone(w) == progress[w] = "keys" /\ listing[w] = {}

-----------------------------------------------------------------------------
(* Properties                                                              *)

\* Two contents an object may have are never of one length.
SizesTellApart == \A c, d \in Contents : Size[c] = Size[d] => c = d

\* What list_files returns is no older than its listing, or than that of a
\* call it overlapped: every cached file holds what its object held at some
\* moment since, however downloads, uploads and other calls interleave, as
\* long as sizes tell contents apart (list_files, s3.py:83-118).
FreshListing ==
  \A w \in Callers : AllDone(w) =>
    \A k \in listed[w] : k \in Cached /\ cache[k].object.content \in seen[k]
=============================================================================
