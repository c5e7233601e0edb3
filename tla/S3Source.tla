------------------------------ MODULE S3Source ------------------------------
(***************************************************************************)
(* The S3 source (sources/s3.py): list_files lists a bucket, downloads the *)
(* objects whose cached copy looks stale, and returns the cached paths.    *)
(*                                                                         *)
(* A caller is one call of list_files; all of them share the cache         *)
(* directory.  Between the listing and a download, and while a download    *)
(* runs, objects are uploaded, replaced and removed and other callers go   *)
(* on.  The cache outlives a caller that fails or is killed.               *)
(*                                                                         *)
(* boto3's download_file reads the object as it is when the request is     *)
(* answered, into a temporary file that it renames when complete: a cached *)
(* file is never half an object, and its mtime is the time of its last     *)
(* write.  S3 stamps an object with the second it was uploaded in; one     *)
(* clock serves both sides.  Folders, extensions and the pages of a        *)
(* listing are left out: they only make the set of keys.                   *)
(***************************************************************************)
EXTENDS S3Cache

bucket == <<objects, now>>
vars == <<objects, cache, now, progress, listing, part, listed, seen>>

Stages == {"idle", "keys", "land"}

TypeOK ==
  /\ objects \in [Keys -> Object \cup {NoObject}]
  /\ cache \in [Keys -> Copy \cup {NoObject}]
  /\ now \in Nat
  /\ progress \in [Callers -> Stages]
  /\ listing \in [Callers -> SUBSET Entry]
  /\ part \in [Callers -> Object \cup {NoObject}]
  /\ listed \in [Callers -> SUBSET Keys]
  /\ seen \in [Keys -> SUBSET Contents]

Init ==
  /\ objects = [k \in Keys |-> NoObject]
  /\ cache = [k \in Keys |-> NoObject]
  /\ now = 0
  /\ progress = [w \in Callers |-> "idle"]
  /\ listing = [w \in Callers |-> {}]
  /\ part = [w \in Callers |-> NoObject]
  /\ listed = [w \in Callers |-> {}]
  /\ seen = [k \in Keys |-> {}]

-----------------------------------------------------------------------------
(* list_files                                                              *)

Current(k) == IF objects[k] = NoObject THEN {} ELSE {objects[k].content}

\* _list_objects
ListObjects(w) ==
  /\ progress[w] = "idle"
  /\ progress' = [progress EXCEPT ![w] = "keys"]
  /\ listing' = [listing EXCEPT ![w] =
       {[key |-> k, size |-> Size[objects[k].content],
         modified |-> objects[k].modified] : k \in Stored}]
  /\ seen' = IF \A v \in Callers : progress[v] = "idle"
             THEN [k \in Keys |-> Current(k)] ELSE seen
  /\ UNCHANGED <<bucket, cache, part, listed>>

\* Mutant: the modification time alone decides.
OlderThan(k, size, modified) ==
  IF k \notin Cached THEN TRUE ELSE cache[k].mtime < modified

\* Mutant: a cached file is never downloaded again.
NotThere(k, size, modified) == k \notin Cached

\* _needs_download
NeedsDownload(k, size, modified) ==
  IF k \notin Cached THEN TRUE
  ELSE Size[cache[k].object.content] # size \/ cache[k].mtime < modified

\* The loop of list_files takes up the entries in the order of their keys.
IsNext(w, e) ==
  /\ progress[w] = "keys"
  /\ e \in listing[w]
  /\ \A d \in listing[w] : e.key <= d.key

Done(w, e) ==
  /\ listing' = [listing EXCEPT ![w] = @ \ {e}]
  /\ listed' = [listed EXCEPT ![w] = @ \cup {e.key}]
  /\ progress' = [progress EXCEPT ![w] = "keys"]
  /\ part' = [part EXCEPT ![w] = NoObject]

\* The cached copy will do.
Skip(w) ==
  /\ \E e \in listing[w] :
       IsNext(w, e) /\ ~NeedsDownload(e.key, e.size, e.modified) /\ Done(w, e)
  /\ UNCHANGED <<bucket, cache, seen>>

\* download_file: the object is read as it is now, newer than listed perhaps.
Get(w) ==
  /\ \E e \in listing[w] :
       /\ IsNext(w, e)
       /\ NeedsDownload(e.key, e.size, e.modified)
       /\ objects[e.key] # NoObject
       /\ part' = [part EXCEPT ![w] = objects[e.key]]
  /\ progress' = [progress EXCEPT ![w] = "land"]
  /\ UNCHANGED <<bucket, cache, listing, listed, seen>>

\* The temporary file is complete and takes its place.
Land(w) ==
  /\ progress[w] = "land"
  /\ \E e \in listing[w] :
       /\ \A d \in listing[w] : e.key <= d.key
       /\ cache' = [cache EXCEPT ![e.key] = [object |-> part[w], mtime |-> now]]
       /\ Done(w, e)
  /\ UNCHANGED <<bucket, seen>>

\* list_files raises, or its process is killed: what it has cached stays.
GiveUp(w) ==
  /\ progress' = [progress EXCEPT ![w] = "idle"]
  /\ listing' = [listing EXCEPT ![w] = {}]
  /\ listed' = [listed EXCEPT ![w] = {}]
  /\ part' = [part EXCEPT ![w] = NoObject]
  /\ UNCHANGED <<bucket, cache, seen>>

\* An object that was listed is gone when it is downloaded.
Gone(w) ==
  /\ \E e \in listing[w] :
       /\ IsNext(w, e)
       /\ NeedsDownload(e.key, e.size, e.modified)
       /\ objects[e.key] = NoObject
  /\ GiveUp(w)

Fail(w) == "fail" \in Failing /\ progress[w] # "idle" /\ GiveUp(w)

Return(w) == AllDone(w) /\ GiveUp(w)

-----------------------------------------------------------------------------
(* The bucket's side                                                       *)

\* Last-Modified is a whole second.
Stamp(t) == t - (t % Second)

Upload(k, c) ==
  /\ objects' = [objects EXCEPT ![k] = [content |-> c, modified |-> Stamp(now)]]
  /\ seen' = [seen EXCEPT ![k] = @ \cup {c}]
  /\ UNCHANGED <<cache, now, progress, listing, part, listed>>

Remove(k) ==
  /\ objects[k] # NoObject
  /\ objects' = [objects EXCEPT ![k] = NoObject]
  /\ UNCHANGED <<cache, now, progress, listing, part, listed, seen>>

Tick ==
  /\ now < MaxTime
  /\ now' = now + 1
  /\ UNCHANGED <<objects, cache, progress, listing, part, listed, seen>>

Work(w) == ListObjects(w) \/ Skip(w) \/ Get(w) \/ Land(w) \/ Gone(w) \/ Return(w)

Next ==
  \/ \E w \in Callers : Work(w) \/ Fail(w)
  \/ \E k \in Keys : Remove(k) \/ \E c \in Contents : Upload(k, c)
  \/ Tick

Spec == Init /\ [][Next]_vars

\* A call of list_files goes on until it ends; syncs are requested again.
FairSpec == Spec /\ \A w \in Callers : WF_vars(Work(w))
-----------------------------------------------------------------------------
(* Properties                                                              *)

\* Once the bucket rests and calls stop failing, the cache comes to hold what
\* the bucket holds and stays so, whatever late downloads and failed calls left
\* behind (list_files, s3.py:106-112).
InSync ==
  \A k \in Stored : k \in Cached /\ cache[k].object.content = objects[k].content

Disturbance == objects' # objects \/ \E w \in Callers : Fail(w) /\ ~Work(w)

Converges == <>[][~Disturbance]_vars => <>[]InSync
=============================================================================
