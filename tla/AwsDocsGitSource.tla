-------------------------- MODULE AwsDocsGitSource --------------------------
(***************************************************************************)
(* The archived AWS guides as a source (sources/fetch.py): list_files      *)
(* clones a guide's repository once, checks out the last revision that has *)
(* the docs, strips anchors from its files in place and returns them.      *)
(*                                                                         *)
(* A worker is one call of list_files.  The clone is on disk and shared;   *)
(* the code takes no lock and keeps no note of how far a call got: what is *)
(* there is what the next call goes by.  git locks the index while it      *)
(* writes the working tree, refuses to overwrite edited files, replaces    *)
(* files by new ones, removes the directory of a clone that failed, and    *)
(* leaves directory and lock behind when it is killed.                     *)
(*                                                                         *)
(* Revisions 1 .. NumRevs have docs; revision r edited the files in        *)
(* Edited[r].  An archived repository has one more, which deleted them.    *)
(* Left out: a history that never had docs, which raises at once for good. *)
(***************************************************************************)
EXTENDS Naturals

CONSTANTS
  Workers,    \* calls of list_files that can be in progress at once
  NumFiles,   \* markdown files of the guide, numbered in their order
  Anchored,   \* those with anchors to strip
  NumRevs,    \* revisions that have docs
  Edited,     \* [Revs -> SUBSET Files], files a revision changed
  NoText,     \* no file, nothing to write
  FreshHeads, \* revisions HEAD of a fresh clone may name: NumRevs, or in an
              \* archived repository the one after it
  Faults      \* subset of FaultKinds

Files == 1 .. NumFiles
Revs == 1 .. NumRevs
NoRev == 0
FaultKinds == {"clone", "kill"}

ASSUME SizesAssumption == NumFiles \in Nat /\ NumRevs \in Nat \ {0}
ASSUME AnchoredAssumption == Anchored \subseteq Files
ASSUME EditedAssumption == Edited \in [Revs -> SUBSET Files] /\ Edited[1] = Files
ASSUME FreshHeadsAssumption == FreshHeads \subseteq {NumRevs, NumRevs + 1}
ASSUME FaultsAssumption == Faults \subseteq FaultKinds

VARIABLES
  repo,     \* repo_dir: "absent" or "present"
  head,     \* the revision HEAD names, NoRev in a clone without one
  locked,   \* whether .git/index.lock is there
  doc,      \* [Files -> Text or NoText], doc_source in the working tree
  pc,       \* where each worker stands
  at,       \* the revision each worker's git is writing
  todo,     \* files each worker has still to write or to look at
  handle,   \* the text each worker is about to write to an open file
  paths,    \* the files each worker is going to return
  killed,   \* history: whether a worker was ever killed
  overlap   \* history: whether two workers were ever at work at once

clone == <<repo, head, locked, doc>>
work == <<at, todo, handle, paths>>
history == <<killed, overlap>>
vars == <<clone, pc, work, history>>

\* A file as the revision that last edited it has it, without its anchors, or
\* cut off by a rewrite.
Text == [rev : Revs, form : {"committed", "stripped", "cut"}]
ASSUME NoTextAssumption == NoText \notin Text

Stages == {"idle", "clone", "cloning", "populating", "head", "revlist",
           "checkout", "checkingout", "glob", "read", "truncate", "write"}

TypeOK ==
  /\ repo \in {"absent", "present"}
  /\ head \in 0 .. NumRevs + 1
  /\ locked \in BOOLEAN
  /\ doc \in [Files -> Text \cup {NoText}]
  /\ pc \in [Workers -> Stages]
  /\ at \in [Workers -> 0 .. NumRevs + 1]
  /\ todo \in [Workers -> SUBSET Files]
  /\ handle \in [Workers -> Text \cup {NoText}]
  /\ paths \in [Workers -> SUBSET Files]
  /\ killed \in BOOLEAN /\ overlap \in BOOLEAN

Init ==
  /\ repo = "absent" /\ head = NoRev /\ locked = FALSE
  /\ doc = [f \in Files |-> NoText]
  /\ pc = [w \in Workers |-> "idle"]
  /\ at = [w \in Workers |-> NoRev]
  /\ todo = [w \in Workers |-> {}]
  /\ handle = [w \in Workers |-> NoText]
  /\ paths = [w \in Workers |-> {}]
  /\ killed = FALSE /\ overlap = FALSE

GoTo(w, stage) == pc' = [pc EXCEPT ![w] = stage]

\* The worker is gone: list_files raised or returned, or was killed.
Leave(w) ==
  /\ GoTo(w, "idle")
  /\ at' = [at EXCEPT ![w] = NoRev]
  /\ todo' = [todo EXCEPT ![w] = {}]
  /\ handle' = [handle EXCEPT ![w] = NoText]
  /\ paths' = [paths EXCEPT ![w] = {}]

Raise(w) == Leave(w) /\ UNCHANGED <<clone, history>>

\* The next file of a worker that goes through its files in order.
IsNext(w, f) == f \in todo[w] /\ \A g \in todo[w] : f <= g

-----------------------------------------------------------------------------
(* git                                                                     *)

DocsAt(r) == r \in Revs

LastEdit(f, r) ==
  CHOOSE e \in 1 .. r : f \in Edited[e] /\ \A d \in e + 1 .. r : f \notin Edited[d]

Committed(f, r) ==
  IF DocsAt(r) THEN [rev |-> LastEdit(f, r), form |-> "committed"] ELSE NoText

\* Replacing or removing a file takes it away from whoever has it open.
Writing(w, f) == pc[w] = "write" /\ IsNext(w, f)
Orphan(F) ==
  handle' = [w \in Workers |->
    IF \E f \in F : Writing(w, f) THEN NoText ELSE handle[w]]

\* Edited files the checkout of r would have to replace.
InTheWay(r) ==
  {f \in Files : doc[f] # Committed(f, head) /\ Committed(f, head) # Committed(f, r)}

\* git writes the working tree file by file.
WriteTree(w) ==
  \E f \in todo[w] :
    /\ IsNext(w, f)
    /\ doc' = [doc EXCEPT ![f] = Committed(f, at[w])]
    /\ Orphan({f})
    /\ todo' = [todo EXCEPT ![w] = @ \ {f}]
    /\ UNCHANGED <<repo, head, locked, pc, at, paths, history>>

-----------------------------------------------------------------------------
(* _clone_and_checkout                                                     *)

\* self.repo_dir.exists()
Start(w) ==
  /\ pc[w] = "idle"
  /\ GoTo(w, IF repo = "absent" THEN "clone" ELSE "head")
  /\ overlap' = (overlap \/ \E v \in Workers : pc[v] # "idle")
  /\ UNCHANGED <<clone, work, killed>>

\* git clone creates the directory, or fails because another one just has.
BeginClone(w) ==
  /\ pc[w] = "clone"
  /\ \/ repo = "present" /\ Raise(w)
     \/ /\ repo = "absent"
        /\ repo' = "present"
        /\ GoTo(w, "cloning")
        /\ UNCHANGED <<head, locked, doc, work, history>>

\* The history is there; HEAD's tree comes next.
EndFetch(w) ==
  /\ pc[w] = "cloning"
  /\ \E h \in FreshHeads :
       /\ head' = h
       /\ at' = [at EXCEPT ![w] = h]
       /\ todo' = [todo EXCEPT ![w] = IF DocsAt(h) THEN Files ELSE {}]
  /\ locked' = TRUE
  /\ GoTo(w, "populating")
  /\ UNCHANGED <<repo, doc, handle, paths, history>>

CloneFails(w) ==
  /\ "clone" \in Faults
  /\ pc[w] \in {"cloning", "populating"}
  /\ repo' = "absent" /\ head' = NoRev /\ locked' = FALSE
  /\ doc' = [f \in Files |-> NoText]
  /\ GoTo(w, "idle")
  /\ at' = [at EXCEPT ![w] = NoRev]
  /\ todo' = [todo EXCEPT ![w] = {}]
  /\ Orphan(Files)
  /\ UNCHANGED <<paths, history>>

\* Of a clone or a checkout: the tree is written, the lock goes.
EndTree(w) ==
  /\ pc[w] \in {"populating", "checkingout"}
  /\ todo[w] = {}
  /\ head' = at[w]
  /\ locked' = FALSE
  /\ at' = [at EXCEPT ![w] = NoRev]
  /\ GoTo(w, IF pc[w] = "populating" THEN "head" ELSE "glob")
  /\ UNCHANGED <<repo, doc, todo, handle, paths, history>>

Populate(w) == pc[w] \in {"populating", "checkingout"} /\ WriteTree(w)

\* Docs at HEAD?  Without a HEAD, or without a directory, git fails.
ReadHead(w) ==
  /\ pc[w] = "head"
  /\ \/ head = NoRev /\ Raise(w)
     \/ /\ head # NoRev
        /\ GoTo(w, IF DocsAt(head) THEN "glob" ELSE "revlist")
        /\ UNCHANGED <<clone, work, history>>

\* Mutant: the parent of its parent.
RevListGrandparent(w) ==
  /\ pc[w] = "revlist"
  /\ head > 1 /\ DocsAt(head - 2)
  /\ at' = [at EXCEPT ![w] = head - 2]
  /\ GoTo(w, "checkout")
  /\ UNCHANGED <<clone, todo, handle, paths, history>>

\* Mutant: the revision that touched the docs last is checked out itself.
RevListItself(w) ==
  /\ pc[w] = "revlist"
  /\ at' = [at EXCEPT ![w] = head]
  /\ GoTo(w, "checkout")
  /\ UNCHANGED <<clone, todo, handle, paths, history>>

\* rev-list -1 HEAD -- doc_source names the revision that touched the docs
\* last, which is HEAD in this history; its parent is what is checked out.
RevList(w) ==
  /\ pc[w] = "revlist"
  /\ \/ ~(head > 0 /\ DocsAt(head - 1)) /\ Raise(w)
     \/ /\ head > 0 /\ DocsAt(head - 1)
        /\ at' = [at EXCEPT ![w] = head - 1]
        /\ GoTo(w, "checkout")
        /\ UNCHANGED <<clone, todo, handle, paths, history>>

CanCheckout(r) == ~locked /\ head # NoRev /\ InTheWay(r) = {}

BeginCheckout(w) ==
  /\ pc[w] = "checkout"
  /\ \/ ~CanCheckout(at[w]) /\ Raise(w)
     \/ /\ CanCheckout(at[w])
        /\ locked' = TRUE
        /\ todo' = [todo EXCEPT ![w] =
             {f \in Files : Committed(f, head) # Committed(f, at[w])}]
        /\ GoTo(w, "checkingout")
        /\ UNCHANGED <<repo, head, doc, at, handle, paths, history>>

-----------------------------------------------------------------------------
(* list_files, after the checkout                                          *)

Present == {f \in Files : doc[f] # NoText}

Glob(w) ==
  /\ pc[w] = "glob"
  /\ \/ Present = {} /\ Raise(w)
     \/ /\ Present # {}
        /\ todo' = [todo EXCEPT ![w] = Present]
        /\ paths' = [paths EXCEPT ![w] = Present]
        /\ GoTo(w, "read")
        /\ UNCHANGED <<clone, at, handle, history>>

\* _strip_anchors changes a text that has anchors, and no other.
HasAnchors(f, text) == f \in Anchored /\ text.form = "committed"

\* Mutant: the pattern matches nothing.
StripNothing(text) == text

StripAnchors(text) == [text EXCEPT !.form = "stripped"]

\* read_text; a text that stripping leaves alone is not written.
ReadFile(w) ==
  /\ pc[w] = "read"
  /\ \E f \in todo[w] :
       /\ IsNext(w, f)
       /\ \/ doc[f] = NoText /\ Raise(w)
          \/ /\ doc[f] # NoText /\ ~HasAnchors(f, doc[f])
             /\ todo' = [todo EXCEPT ![w] = @ \ {f}]
             /\ UNCHANGED <<clone, pc, at, handle, paths, history>>
          \/ /\ doc[f] # NoText /\ HasAnchors(f, doc[f])
             /\ handle' = [handle EXCEPT ![w] = StripAnchors(doc[f])]
             /\ GoTo(w, "truncate")
             /\ UNCHANGED <<clone, at, todo, paths, history>>

\* Mutant: the file is opened for writing before it is read.
TruncateBeforeRead(w) ==
  /\ pc[w] = "truncate"
  /\ \E f \in todo[w] :
       /\ IsNext(w, f)
       /\ doc[f] # NoText
       /\ doc' = [doc EXCEPT ![f].form = "cut"]
       /\ handle' = [handle EXCEPT ![w] = doc'[f]]
       /\ GoTo(w, "write")
       /\ UNCHANGED <<repo, head, locked, at, todo, paths, history>>

\* write_text opens the file, which empties it.
Truncate(w) ==
  /\ pc[w] = "truncate"
  /\ \E f \in todo[w] :
       /\ IsNext(w, f)
       /\ \/ doc[f] = NoText /\ Raise(w)
          \/ /\ doc[f] # NoText
             /\ doc' = [doc EXCEPT ![f].form = "cut"]
             /\ GoTo(w, "write")
             /\ UNCHANGED <<repo, head, locked, work, history>>

\* The text is there when the file is closed.
WriteFile(w) ==
  /\ pc[w] = "write"
  /\ \E f \in todo[w] :
       /\ IsNext(w, f)
       /\ doc' = IF handle[w] = NoText THEN doc ELSE [doc EXCEPT ![f] = handle[w]]
       /\ todo' = [todo EXCEPT ![w] = @ \ {f}]
  /\ handle' = [handle EXCEPT ![w] = NoText]
  /\ GoTo(w, "read")
  /\ UNCHANGED <<repo, head, locked, at, paths, history>>

AtReturn(w) == pc[w] = "read" /\ todo[w] = {}
Return(w) == AtReturn(w) /\ Raise(w)

\* The process dies, git with it.
Kill(w) ==
  /\ "kill" \in Faults
  /\ pc[w] # "idle"
  /\ Leave(w)
  /\ killed' = TRUE
  /\ UNCHANGED <<clone, overlap>>

Clone(w) == Start(w) \/ BeginClone(w) \/ EndFetch(w) \/ Populate(w) \/ EndTree(w)
Checkout(w) == ReadHead(w) \/ RevList(w) \/ BeginCheckout(w)
Strip(w) == Glob(w) \/ ReadFile(w) \/ Truncate(w) \/ WriteFile(w)
Step(w) == Clone(w) \/ Checkout(w) \/ Strip(w) \/ Return(w)

Next == \E w \in Workers : Step(w) \/ CloneFails(w) \/ Kill(w)

Spec == Init /\ [][Next]_vars

\* A call goes on until it ends; syncs are requested again.
FairSpec == Spec /\ \A w \in Workers : WF_vars(Step(w))
-----------------------------------------------------------------------------
(* Properties                                                              *)

\* A file is the guide's: of the last revision that has docs, without anchors.
Clean(f) ==
  /\ doc[f] # NoText
  /\ doc[f].rev = LastEdit(f, NumRevs)
  /\ doc[f].form # "cut"
  /\ ~HasAnchors(f, doc[f])

\* Unless a process was killed, calls that never overlapped return the whole
\* guide: every file, of the last revision that had docs, whole and without
\* anchors, however often cloning failed before (list_files, fetch.py:155-188).
ListsWholeGuide ==
  \A w \in Workers : AtReturn(w) /\ ~killed /\ ~overlap =>
    paths[w] = Files /\ \A f \in Files : Clean(f)

\* Kills may cost text, nothing else: as long as calls never overlapped, no file is
\* returned with an anchor or from another revision (list_files, fetch.py:170-182).
ListsNoAnchor ==
  \A w \in Workers : AtReturn(w) /\ ~overlap =>
    \A f \in paths[w] : doc[f].rev = LastEdit(f, NumRevs) /\ ~HasAnchors(f, doc[f])

\* Without kills no text is lost for good: a file that is cut off has a worker
\* about to write it whole, whichever others rewrite it, check it out again or
\* remove it meanwhile (list_files, fetch.py:175-182).
CutHasWriter ==
  ~killed => \A f \in Files : doc[f] # NoText /\ doc[f].form = "cut" =>
    \E w \in Workers : Writing(w, f) /\ handle[w] # NoText

\* Without kills and overlapping calls, once cloning stops failing the clone comes
\* to hold the whole guide and keeps it (list_files, fetch.py:122-188).
Converges ==
  [](~killed /\ ~overlap) /\ <>[][\A w \in Workers : ~CloneFails(w)]_vars
    => <>[](\A f \in Files : Clean(f))
=============================================================================
