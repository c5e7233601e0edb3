--------------------------- MODULE DocumentStore ----------------------------
(***************************************************************************)
(* What document ingestion promises its readers, with no index, no batches *)
(* and no remote calls: a set of paths, what a search finds under each, and*)
(* runs that replace one path at a time and say what became of it.  A path *)
(* stored whole stays so until its file changes, whatever fails meanwhile; *)
(* under the path being replaced a search finds the old version, nothing or*)
(* the new one, never both.  Ingestor implements it as long as one sync    *)
(* runs at a time, files hold still under it and no two paths share a      *)
(* content.                                                                *)
(***************************************************************************)
EXTENDS Naturals

CONSTANTS Workers, Paths, Contents, NoFile,
          Texts      \* the contents that have text to store

VARIABLES
  files,    \* [Paths -> Contents or NoFile], what the sources hold
  found,    \* [Paths -> SUBSET Contents], versions a search finds under a path
  whole,    \* the paths of which the version found is found from end to end
  busy,     \* the path each run is replacing, 0 if none
  report    \* what each run says of each path

vars == <<files, found, whole, busy, report>>

NoReport == [f \in Paths |-> "none"]
Stored(f) == f \in whole /\ found[f] = {files[f]}

Init ==
  /\ files \in [Paths -> Contents \cup {NoFile}]
  /\ found = [f \in Paths |-> {}]
  /\ whole = {}
  /\ busy = [p \in Workers |-> 0]
  /\ report = [p \in Workers |-> NoReport]

\* A run says what became of a path, once, and is done with it.
Say(p, f, o) ==
  /\ report[p][f] = "none"
  /\ report' = [report EXCEPT ![p][f] = o]
  /\ busy' = [busy EXCEPT ![p] = 0]

Skip(p, f) ==
  busy[p] = 0 /\ Stored(f) /\ Say(p, f, "skipped") /\ UNCHANGED <<files, found, whole>>

\* The file cannot be read or has no text: what was stored of it stays.
Fail(p, f) ==
  busy[p] = 0 /\ Say(p, f, "failed") /\ UNCHANGED <<files, found, whole>>

\* Only a path that is not stored as it is gets replaced.
Begin(p, f) ==
  /\ \A q \in Workers : busy[q] = 0
  /\ report[p][f] = "none"
  /\ files[f] \in Texts
  /\ ~Stored(f)
  /\ busy' = [busy EXCEPT ![p] = f]
  /\ UNCHANGED <<files, found, whole, report>>

\* The path being replaced loses its old version or gains the new one.
Touch(f) ==
  /\ \E now \in {found[f], {}, {files[f]}} : found' = [found EXCEPT ![f] = now]
  /\ \/ whole' \in {whole, whole \ {f}}
     \/ whole' = whole \cup {f} /\ found'[f] = {files[f]}
  /\ UNCHANGED files

Change(p, f) == busy[p] = f /\ Touch(f) /\ UNCHANGED <<busy, report>>
Finish(p, f) == busy[p] = f /\ Touch(f) /\ Stored(f)' /\ Say(p, f, "processed")
GiveUp(p, f) == busy[p] = f /\ Touch(f) /\ Say(p, f, "failed")

\* The run returns or is killed, at any point.
Stop(p) ==
  /\ busy' = [busy EXCEPT ![p] = 0]
  /\ report' = [report EXCEPT ![p] = NoReport]
  /\ UNCHANGED <<files, found, whole>>

Edit(f) ==
  /\ \A p \in Workers : busy[p] = 0 /\ report[p] = NoReport
  /\ \E c \in Contents \cup {NoFile} : files' = [files EXCEPT ![f] = c]
  /\ UNCHANGED <<found, whole, busy, report>>

Next ==
  \/ \E p \in Workers, f \in Paths :
       \/ Skip(p, f) \/ Fail(p, f) \/ Begin(p, f)
       \/ Change(p, f) \/ Finish(p, f) \/ GiveUp(p, f)
  \/ \E p \in Workers : Stop(p)
  \/ \E f \in Paths : Edit(f)

Spec == Init /\ [][Next]_vars
=============================================================================
