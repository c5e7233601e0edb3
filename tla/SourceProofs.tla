---------------------------- MODULE SourceProofs ----------------------------
(***************************************************************************)
(* Theorems about the two sources that share files between calls, for any  *)
(* number of calls: AwsDocsGitSource, with any files, anchors, revisions   *)
(* and edits, and S3Source, with any keys, contents and clock.  The module *)
(* extends the first and has an instance of the second over the parameters *)
(* and the state of S3Cache, which it extends too.                         *)
(*                                                                         *)
(* The guide: a file that is cut off has a writer (CutHasWriter is         *)
(* inductive with what handles hold); as long as calls do not overlap,     *)
(* only one is at work and what it relies on stays true until it goes on   *)
(* (GuideInv, WorkInv); without kills the clone is, between calls, not     *)
(* there, bare or whole (StageInv, AtRest).  The bucket: a call at work    *)
(* has seen what it listed, downloads and returns.  Freshness assumes that *)
(* sizes tell contents apart: without it TLC shows a stale copy that stays.*)
(***************************************************************************)
EXTENDS AwsDocsGitSource, S3Cache, NaturalsInduction, WellFoundedInduction, TLAPS

S3 == INSTANCE S3Source

-----------------------------------------------------------------------------
(* What a revision has                                                     *)

\* A set of numbers has a least one.
LEMMA LeastNumber ==
  ASSUME NEW S \in SUBSET Nat, S # {}
  PROVE  \E n \in S : \A m \in S : n <= m
<1> DEFINE R == {ss \in Nat \X Nat : ss[1] < ss[2]}
<1>1. IsWellFoundedOn(R, Nat)
  BY NatLessThanWellFounded DEF OpToRel
<1>2. \A m, n \in Nat : m < n => <<m, n>> \in R
  OBVIOUS
<1> HIDE DEF R
<1>3. PICK n \in S : \A m \in S : <<m, n>> \notin R
  BY <1>1, WFMin
<1>4. \A m \in S : ~(m < n)
  BY <1>2, <1>3
<1>5. \A m \in S : n <= m
  BY <1>4
<1> QED BY <1>5

\* Every file has a last edit, since the first revision brought it.
LEMMA LastEditType ==
  ASSUME NEW f \in Files, NEW r \in Revs
  PROVE  LastEdit(f, r) \in Revs
<1>1. NumRevs \in Nat /\ r \in Nat /\ 1 <= r /\ r <= NumRevs
  BY SizesAssumption DEF Revs
<1> DEFINE S == {e \in 1 .. r : f \in Edited[e]}
           Left == {r - e : e \in S}
<1>2. 1 \in S /\ \A e \in S : e \in Nat /\ e <= r
  BY <1>1, EditedAssumption
<1>3. PICK e \in S : \A d \in S : d <= e
  <2>1. Left \in SUBSET Nat /\ Left # {}
    BY <1>1, <1>2
  <2>2. PICK m \in Left : \A n \in Left : m <= n
    <3> HIDE DEF Left
    <3> QED BY <2>1, LeastNumber
  <2>3. PICK e \in S : m = r - e
    BY <2>2
  <2>4. ASSUME NEW d \in S PROVE d <= e
    <3>1. m <= r - d
      BY <2>2
    <3> QED BY <1>1, <1>2, <2>3, <3>1
  <2> QED BY <2>4
<1>4. e \in 1 .. r /\ f \in Edited[e] /\ \A d \in e + 1 .. r : f \notin Edited[d]
  BY <1>1, <1>2, <1>3
<1>5. LastEdit(f, r) \in 1 .. r
  BY <1>4 DEF LastEdit
<1> QED BY <1>1, <1>5 DEF Revs

\* The latest revision that has the docs, and the one that deleted them.
Latest == NumRevs
Deleted == NumRevs + 1

LEMMA Revisions ==
  /\ Latest \in Nat /\ Latest # NoRev /\ Latest \in Revs /\ DocsAt(Latest)
  /\ Deleted \in Nat /\ Deleted # NoRev /\ Deleted # Latest /\ ~DocsAt(Deleted)
  /\ Deleted - 1 = Latest /\ Deleted > 0
  BY SizesAssumption DEF Latest, Deleted, Revs, DocsAt, NoRev

LEMMA CommittedType ==
  ASSUME NEW f \in Files, NEW r \in 0 .. NumRevs + 1
  PROVE  /\ Committed(f, r) \in Text \cup {NoText}
         /\ DocsAt(r) => Committed(f, r) \in Text /\ Committed(f, r).form = "committed"
<1>1. CASE DocsAt(r)
  BY <1>1, LastEditType DEF DocsAt, Committed, Text
<1>2. CASE ~DocsAt(r)
  BY <1>2 DEF Committed
<1> QED BY <1>1, <1>2

LEMMA CommittedLatest ==
  ASSUME NEW f \in Files
  PROVE  /\ Committed(f, Latest) \in Text /\ Committed(f, Latest) # NoText
         /\ Committed(f, Latest).rev = LastEdit(f, Latest)
         /\ Committed(f, Latest).form = "committed"
         /\ Committed(f, Deleted) = NoText
<1>1. Latest \in 0 .. NumRevs + 1
  BY SizesAssumption DEF Latest
<1> QED BY <1>1, Revisions, CommittedType, NoTextAssumption DEF Committed

-----------------------------------------------------------------------------
(* Types                                                                   *)

LEMMA LeaveType ==
  ASSUME TypeOK, NEW w \in Workers, Leave(w), UNCHANGED <<repo, head, locked, doc>>,
         killed' \in BOOLEAN, overlap' \in BOOLEAN
  PROVE  TypeOK'
<1>1. 0 \in 0 .. NumRevs + 1
  BY SizesAssumption
<1> QED BY <1>1 DEF TypeOK, Leave, GoTo, Stages, NoRev

LEMMA OrphanType ==
  ASSUME TypeOK, NEW F, Orphan(F)
  PROVE  handle' \in [Workers -> Text \cup {NoText}]
  BY DEF TypeOK, Orphan

LEMMA CloneType ==
  ASSUME TypeOK, NEW w \in Workers, Clone(w) \/ CloneFails(w)
  PROVE  TypeOK'
<1> USE DEF TypeOK
<1>0. NumRevs \in Nat
  BY SizesAssumption
<1>1. CASE Start(w)
  BY <1>1 DEF Start, GoTo, Stages, clone, work
<1>2. CASE BeginClone(w)
  <2>1. CASE Raise(w)
    BY <2>1, LeaveType DEF Raise, clone, history
  <2>2. CASE ~Raise(w)
    BY <1>2, <2>2 DEF BeginClone, GoTo, Stages, work, history
  <2> QED BY <2>1, <2>2
<1>3. CASE EndFetch(w)
  <2>1. FreshHeads \subseteq 0 .. NumRevs + 1
    BY <1>0, FreshHeadsAssumption
  <2> QED BY <1>3, <2>1 DEF EndFetch, GoTo, Stages, history
<1>4. CASE CloneFails(w)
  <2>1. 0 \in 0 .. NumRevs + 1
    BY <1>0
  <2> QED BY <1>4, <2>1, OrphanType DEF CloneFails, GoTo, Stages, history, NoRev
<1>5. CASE EndTree(w)
  <2>1. 0 \in 0 .. NumRevs + 1
    BY <1>0
  <2> QED BY <1>5, <2>1 DEF EndTree, GoTo, Stages, history, NoRev
<1>6. CASE Populate(w)
  <2>1. PICK f \in todo[w] : /\ doc' = [doc EXCEPT ![f] = Committed(f, at[w])]
                             /\ Orphan({f})
                             /\ todo' = [todo EXCEPT ![w] = @ \ {f}]
    BY <1>6 DEF Populate, WriteTree
  <2>2. f \in Files
    OBVIOUS
  <2>3. Committed(f, at[w]) \in Text \cup {NoText}
    BY <2>2, CommittedType
  <2>4. handle' \in [Workers -> Text \cup {NoText}]
    BY <2>1, OrphanType
  <2> QED BY <1>6, <2>1, <2>3, <2>4 DEF Populate, WriteTree, history
<1> QED BY <1>1, <1>2, <1>3, <1>4, <1>5, <1>6 DEF Clone

LEMMA CheckoutType ==
  ASSUME TypeOK, NEW w \in Workers, Checkout(w)
  PROVE  TypeOK'
<1> USE DEF TypeOK
<1>0. NumRevs \in Nat
  BY SizesAssumption
<1>1. CASE Raise(w)
  BY <1>1, LeaveType DEF Raise, clone, history
<1>2. CASE ReadHead(w) /\ ~Raise(w)
  BY <1>2 DEF ReadHead, GoTo, Stages, clone, work, history
<1>3. CASE RevList(w) /\ ~Raise(w)
  <2>1. head - 1 \in 0 .. NumRevs + 1
    BY <1>0, <1>3 DEF RevList
  <2> QED BY <1>3, <2>1 DEF RevList, GoTo, Stages, clone, history
<1>4. CASE BeginCheckout(w) /\ ~Raise(w)
  BY <1>4 DEF BeginCheckout, GoTo, Stages, history
<1> QED BY <1>1, <1>2, <1>3, <1>4 DEF Checkout

LEMMA TextForms ==
  ASSUME NEW text \in Text
  PROVE  /\ StripAnchors(text) \in Text /\ StripAnchors(text).form = "stripped"
         /\ StripAnchors(text).rev = text.rev
         /\ [text EXCEPT !.form = "cut"] \in Text
  BY DEF Text, StripAnchors

LEMMA StripType ==
  ASSUME TypeOK, NEW w \in Workers, Strip(w)
  PROVE  TypeOK'
<1> USE DEF TypeOK
<1>1. CASE Raise(w)
  BY <1>1, LeaveType DEF Raise, clone, history
<1>2. CASE Glob(w) /\ ~Raise(w)
  BY <1>2 DEF Glob, GoTo, Stages, clone, history, Present
<1>3. CASE ReadFile(w) /\ ~Raise(w)
  <2>1. PICK f \in todo[w] :
          \/ /\ todo' = [todo EXCEPT ![w] = @ \ {f}]
             /\ UNCHANGED <<clone, pc, at, handle, paths, history>>
          \/ /\ doc[f] # NoText
             /\ handle' = [handle EXCEPT ![w] = StripAnchors(doc[f])]
             /\ GoTo(w, "truncate")
             /\ UNCHANGED <<clone, at, todo, paths, history>>
    BY <1>3 DEF ReadFile
  <2>2. doc[f] # NoText => StripAnchors(doc[f]) \in Text
    BY TextForms
  <2> QED BY <2>1, <2>2 DEF GoTo, Stages, clone, history
<1>4. CASE Truncate(w) /\ ~Raise(w)
  <2>1. PICK f \in todo[w] : doc[f] # NoText /\ doc' = [doc EXCEPT ![f].form = "cut"]
    BY <1>4 DEF Truncate
  <2>2. [doc[f] EXCEPT !.form = "cut"] \in Text
    BY <2>1, TextForms
  <2>3. doc' = [doc EXCEPT ![f] = [doc[f] EXCEPT !.form = "cut"]]
    BY <2>1
  <2>4. UNCHANGED <<repo, head, locked, work, history>> /\ GoTo(w, "write")
    BY <1>4 DEF Truncate
  <2> HIDE DEF TypeOK
  <2>5. doc' \in [Files -> Text \cup {NoText}]
    BY <2>2, <2>3 DEF TypeOK
  <2> QED BY <2>4, <2>5 DEF TypeOK, GoTo, Stages, work, history
<1>5. CASE WriteFile(w)
  <2>1. PICK f \in todo[w] :
          /\ doc' = IF handle[w] = NoText THEN doc ELSE [doc EXCEPT ![f] = handle[w]]
          /\ todo' = [todo EXCEPT ![w] = @ \ {f}]
    BY <1>5 DEF WriteFile
  <2>2. doc' \in [Files -> Text \cup {NoText}]
    BY <2>1
  <2> QED BY <1>5, <2>1, <2>2 DEF WriteFile, GoTo, Stages, history
<1> QED BY <1>1, <1>2, <1>3, <1>4, <1>5 DEF Strip

LEMMA NextType == TypeOK /\ [Next]_vars => TypeOK'
<1> SUFFICES ASSUME TypeOK, [Next]_vars PROVE TypeOK'
  OBVIOUS
<1>1. CASE UNCHANGED vars
  BY <1>1 DEF vars, clone, work, history, TypeOK
<1>2. ASSUME NEW w \in Workers, Return(w) \/ Kill(w) PROVE TypeOK'
  BY <1>2, LeaveType DEF Return, Kill, Raise, clone, history, TypeOK
<1>3. ASSUME NEW w \in Workers, Step(w) \/ CloneFails(w) \/ Kill(w) PROVE TypeOK'
  BY <1>2, <1>3, CloneType, CheckoutType, StripType DEF Step
<1> QED BY <1>1, <1>3 DEF Next

LEMMA InitType == Init => TypeOK
<1> SUFFICES ASSUME Init PROVE TypeOK
  OBVIOUS
<1>1. 0 \in 0 .. NumRevs + 1
  BY SizesAssumption
<1>2. /\ repo \in {"absent", "present"} /\ head \in 0 .. NumRevs + 1
      /\ locked \in BOOLEAN /\ killed \in BOOLEAN /\ overlap \in BOOLEAN
  BY <1>1 DEF Init, NoRev
<1>3. /\ doc \in [Files -> Text \cup {NoText}]
      /\ handle \in [Workers -> Text \cup {NoText}]
  BY DEF Init
<1>4. /\ pc \in [Workers -> Stages] /\ at \in [Workers -> 0 .. NumRevs + 1]
      /\ todo \in [Workers -> SUBSET Files] /\ paths \in [Workers -> SUBSET Files]
  BY <1>1 DEF Init, NoRev, Stages
<1> QED BY <1>2, <1>3, <1>4 DEF TypeOK

-----------------------------------------------------------------------------
(* The invariant                                                           *)

\* What a worker is about to write is whole and without anchors.
Stripped(text) == text \in Text /\ text.form = "stripped"

HandleInv ==
  \A w \in Workers :
    /\ pc[w] = "truncate" => Stripped(handle[w])
    /\ pc[w] = "write" => handle[w] = NoText \/ Stripped(handle[w])

Solo == \A v, w \in Workers : pc[v] # "idle" /\ pc[w] # "idle" => v = w

\* Files come from the latest revision with docs, wherever HEAD is.
GuideInv ==
  /\ head \in {NoRev, Latest, Deleted}
  /\ \A f \in Files : doc[f] # NoText => doc[f].rev = LastEdit(f, Latest)

\* What the only call at work relies on, after kills too.
WorkInv(w) ==
  /\ pc[w] = "populating" => at[w] \in {Latest, Deleted}
  /\ pc[w] = "revlist" => head = Deleted
  /\ pc[w] \in {"checkout", "checkingout"} => at[w] = Latest
  /\ pc[w] \in {"truncate", "write"} =>
       /\ Stripped(handle[w])
       /\ \A f \in todo[w] : IsNext(w, f) => handle[w].rev = LastEdit(f, Latest)
  /\ pc[w] \in {"read", "truncate", "write"} =>
       /\ todo[w] \subseteq paths[w]
       /\ \A f \in paths[w] : doc[f] # NoText
       /\ \A f \in paths[w] \ todo[w] : ~HasAnchors(f, doc[f])

SoloInv == ~overlap => Solo /\ GuideInv /\ \A w \in Workers : WorkInv(w)

Empty == \A f \in Files : doc[f] = NoText
Whole(F) == \A f \in F : doc[f] # NoText /\ doc[f].form # "cut"
Fresh == repo = "absent" /\ head = NoRev /\ ~locked /\ Empty
Full == repo = "present" /\ ~locked /\ head = Latest /\ Whole(Files)
Bare == repo = "present" /\ ~locked /\ head = Deleted /\ Empty

\* How far the only call at work has brought the clone, when none was killed.
StageInv(w) ==
  /\ pc[w] = "clone" => Fresh
  /\ pc[w] = "cloning" => repo = "present" /\ ~locked /\ Empty
  /\ pc[w] = "populating" =>
       /\ repo = "present"
       /\ at[w] = Deleted => todo[w] = {} /\ Empty
       /\ at[w] = Latest => Whole(Files \ todo[w])
  /\ pc[w] = "head" => Full \/ Bare
  /\ pc[w] \in {"revlist", "checkout"} => Bare
  /\ pc[w] = "checkingout" => repo = "present" /\ Whole(Files \ todo[w])
  /\ pc[w] = "glob" => Full
  /\ pc[w] \in {"read", "truncate"} => Full /\ paths[w] = Files
  /\ pc[w] = "write" =>
       /\ repo = "present" /\ ~locked /\ head = Latest /\ paths[w] = Files
       /\ \A f \in Files : doc[f] # NoText
       /\ \A f \in Files : doc[f].form = "cut" => IsNext(w, f)

AtRest == (\A w \in Workers : pc[w] = "idle") => Fresh \/ Full \/ Bare

FullInv == ~overlap /\ ~killed => AtRest /\ \A w \in Workers : StageInv(w)

IInv == TypeOK /\ HandleInv /\ CutHasWriter /\ SoloInv /\ FullInv


\* A worker's step leaves the others where they are; git may only take away
\* the file another one is writing.
LEMMA Bystanders ==
  ASSUME TypeOK, NEW w \in Workers, Step(w) \/ CloneFails(w) \/ Kill(w)
  PROVE  \A v \in Workers \ {w} :
           /\ pc'[v] = pc[v] /\ at'[v] = at[v]
           /\ todo'[v] = todo[v] /\ paths'[v] = paths[v]
           /\ handle'[v] = handle[v] \/ (pc[v] = "write" /\ handle'[v] = NoText)
<1> SUFFICES ASSUME NEW v \in Workers \ {w}
             PROVE  /\ pc'[v] = pc[v] /\ at'[v] = at[v]
                    /\ todo'[v] = todo[v] /\ paths'[v] = paths[v]
                    /\ handle'[v] = handle[v] \/ (pc[v] = "write" /\ handle'[v] = NoText)
  OBVIOUS
<1> USE DEF TypeOK
<1>1. ASSUME NEW F, Orphan(F)
      PROVE  handle'[v] = handle[v] \/ (pc[v] = "write" /\ handle'[v] = NoText)
  BY <1>1 DEF Orphan, Writing
<1>2. CASE CloneFails(w)
  BY <1>1, <1>2 DEF CloneFails, GoTo
<1>3. CASE Populate(w)
  BY <1>1, <1>3 DEF Populate, WriteTree
<1>4. CASE Leave(w)
  BY <1>4 DEF Leave, GoTo
<1>5. CASE Start(w) \/ EndFetch(w) \/ EndTree(w) \/ (BeginClone(w) /\ ~Leave(w))
  BY <1>5 DEF Start, BeginClone, EndFetch, EndTree, Raise, GoTo, work
<1>6. CASE Checkout(w) /\ ~Leave(w)
  BY <1>6 DEF Checkout, ReadHead, RevList, BeginCheckout, Raise, GoTo, work
<1>7. CASE Strip(w) /\ ~Leave(w)
  BY <1>7 DEF Strip, Glob, ReadFile, Truncate, WriteFile, Raise, GoTo, work
<1> QED BY <1>2, <1>3, <1>4, <1>5, <1>6, <1>7 DEF Step, Clone, Return, Raise, Kill

\* The first file of a worker is one.
LEMMA OneNext ==
  ASSUME TypeOK, NEW w \in Workers, NEW f, NEW g, IsNext(w, f), IsNext(w, g)
  PROVE  f = g
<1>1. f \in Files /\ g \in Files /\ f <= g /\ g <= f
  BY DEF TypeOK, IsNext
<1> QED BY <1>1 DEF Files

-----------------------------------------------------------------------------
(* Whoever empties a file fills it.                                        *)

LEMMA HandleStep ==
  ASSUME TypeOK, HandleInv, NEW w \in Workers, Step(w) \/ CloneFails(w) \/ Kill(w)
  PROVE  HandleInv'
<1>1. ASSUME NEW v \in Workers \ {w}
      PROVE  /\ pc'[v] = "truncate" => Stripped(handle'[v])
             /\ pc'[v] = "write" => handle'[v] = NoText \/ Stripped(handle'[v])
  BY <1>1, Bystanders DEF HandleInv
<1>2. /\ pc'[w] = "truncate" => Stripped(handle'[w])
      /\ pc'[w] = "write" => handle'[w] = NoText \/ Stripped(handle'[w])
  <2> USE DEF TypeOK, GoTo
  <2>1. CASE Leave(w)
    BY <2>1 DEF Leave
  <2>2. CASE CloneFails(w) \/ (Clone(w) /\ ~Leave(w))
    BY <2>2 DEF CloneFails, Clone, Start, BeginClone, EndFetch, Populate, WriteTree,
                EndTree, Raise
  <2>3. CASE Checkout(w) /\ ~Leave(w)
    BY <2>3 DEF Checkout, ReadHead, RevList, BeginCheckout, Raise
  <2>4. CASE (Glob(w) \/ WriteFile(w)) /\ ~Leave(w)
    BY <2>4 DEF Glob, WriteFile, Raise
  <2>5. CASE ReadFile(w) /\ ~Leave(w)
    <3>1. CASE pc' = pc
      BY <2>5, <3>1 DEF ReadFile
    <3>2. CASE pc' # pc
      <4>1. PICK f \in todo[w] : /\ doc[f] # NoText
                                 /\ handle' = [handle EXCEPT ![w] = StripAnchors(doc[f])]
                                 /\ GoTo(w, "truncate")
        BY <2>5, <3>2 DEF ReadFile, Raise
      <4>2. Stripped(StripAnchors(doc[f]))
        BY <4>1, TextForms DEF Stripped
      <4> QED BY <4>1, <4>2
    <3> QED BY <3>1, <3>2
  <2>6. CASE Truncate(w) /\ ~Leave(w)
    <3>1. pc[w] = "truncate" /\ handle' = handle /\ pc'[w] = "write"
      BY <2>6 DEF Truncate, Raise, work
    <3> QED BY <3>1 DEF HandleInv
  <2> QED BY <2>1, <2>2, <2>3, <2>4, <2>5, <2>6
          DEF Step, Strip, Return, Raise, Kill
<1> QED BY <1>1, <1>2 DEF HandleInv, Stripped

\* A step that leaves the files alone, of a worker that writes none, and that
\* takes no file away.
LEMMA CutKept ==
  ASSUME CutHasWriter, NEW w \in Workers, pc[w] # "write", doc' = doc,
         ~killed' => ~killed,
         \A v \in Workers \ {w} :
           pc'[v] = pc[v] /\ todo'[v] = todo[v] /\ handle'[v] = handle[v]
  PROVE  CutHasWriter'
<1> SUFFICES ASSUME ~killed', NEW f \in Files, doc[f] # NoText, doc[f].form = "cut"
             PROVE  \E v \in Workers : Writing(v, f)' /\ handle'[v] # NoText
  BY DEF CutHasWriter
<1>1. PICK v \in Workers : Writing(v, f) /\ handle[v] # NoText
  BY DEF CutHasWriter
<1>2. v # w
  BY <1>1 DEF Writing
<1> QED BY <1>1, <1>2 DEF Writing, IsNext

LEMMA CutStep ==
  ASSUME TypeOK, HandleInv, CutHasWriter,
         NEW w \in Workers, Step(w) \/ CloneFails(w) \/ Kill(w)
  PROVE  CutHasWriter'
<1>1. CASE Kill(w)
  BY <1>1 DEF Kill, CutHasWriter
<1>2. CASE CloneFails(w)
  BY <1>2 DEF CloneFails, CutHasWriter
<1>3. CASE \/ Start(w) \/ BeginClone(w) \/ EndFetch(w) \/ EndTree(w) \/ Checkout(w)
           \/ Glob(w) \/ ReadFile(w) \/ Return(w)
  <2>1. /\ pc[w] # "write" /\ doc' = doc /\ killed' = killed
        /\ handle' = handle \/ Leave(w) \/ \E h : handle' = [handle EXCEPT ![w] = h]
    <3>1. CASE Raise(w)
      BY <1>3, <3>1 DEF Start, BeginClone, EndFetch, EndTree, Checkout, ReadHead,
             RevList, BeginCheckout, Glob, ReadFile, Return, AtReturn, Raise, clone, history
    <3>2. CASE ~Raise(w)
      BY <1>3, <3>2 DEF Start, BeginClone, EndFetch, EndTree, Checkout, ReadHead,
             RevList, BeginCheckout, Glob, ReadFile, Return, clone, history, work
    <3> QED BY <3>1, <3>2
  <2>2. \A v \in Workers \ {w} : handle'[v] = handle[v]
    BY <2>1 DEF Leave, TypeOK
  <2>3. \A v \in Workers \ {w} : pc'[v] = pc[v] /\ todo'[v] = todo[v]
    BY Bystanders
  <2> QED BY <2>1, <2>2, <2>3, CutKept
<1>4. CASE Populate(w)
  <2>1. PICK f \in todo[w] : /\ doc' = [doc EXCEPT ![f] = Committed(f, at[w])]
                             /\ Orphan({f})
    BY <1>4 DEF Populate, WriteTree
  <2>2. f \in Files /\ at[w] \in 0 .. NumRevs + 1 /\ pc[w] # "write"
    BY <1>4 DEF TypeOK, Populate
  <2>3. Committed(f, at[w]) # NoText => Committed(f, at[w]).form = "committed"
    BY <2>2, CommittedType DEF Committed
  <2> SUFFICES ASSUME ~killed', NEW g \in Files, doc'[g] # NoText, doc'[g].form = "cut"
               PROVE  \E v \in Workers : Writing(v, g)' /\ handle'[v] # NoText
    BY DEF CutHasWriter
  <2>4. g # f /\ doc[g] = doc'[g]
    BY <2>1, <2>2, <2>3 DEF TypeOK
  <2>5. PICK v \in Workers : Writing(v, g) /\ handle[v] # NoText
    BY <1>4, <2>4 DEF CutHasWriter, Populate, WriteTree, history
  <2>6. v # w /\ ~Writing(v, f)
    BY <2>2, <2>4, <2>5, OneNext DEF Writing
  <2>7. handle'[v] = handle[v]
    BY <2>1, <2>6 DEF Orphan
  <2>8. Writing(v, g)'
    BY <2>5, <2>6, Bystanders DEF Writing, IsNext
  <2> QED BY <2>5, <2>7, <2>8
<1>5. CASE Truncate(w)
  <2>0. pc[w] = "truncate"
    BY <1>5 DEF Truncate
  <2>1. CASE Raise(w)
    <3>1. /\ doc' = doc /\ killed' = killed
          /\ \A v \in Workers \ {w} : handle'[v] = handle[v]
      BY <2>1 DEF Raise, Leave, clone, history, TypeOK
    <3>2. \A v \in Workers \ {w} : pc'[v] = pc[v] /\ todo'[v] = todo[v]
      BY Bystanders
    <3> QED BY <2>0, <3>1, <3>2, CutKept
  <2>2. CASE ~Raise(w)
    <3>1. PICK f \in todo[w] : /\ IsNext(w, f)
                               /\ doc' = [doc EXCEPT ![f].form = "cut"]
                               /\ GoTo(w, "write")
                               /\ UNCHANGED <<work, history>>
      BY <1>5, <2>2 DEF Truncate
    <3>2. Stripped(handle[w])
      BY <2>0 DEF HandleInv
    <3>3. handle[w] # NoText
      BY <3>2, NoTextAssumption DEF Stripped
    <3> SUFFICES ASSUME ~killed', NEW g \in Files, doc'[g] # NoText, doc'[g].form = "cut"
                 PROVE  \E v \in Workers : Writing(v, g)' /\ handle'[v] # NoText
      BY DEF CutHasWriter
    <3>4. CASE g = f
      <4>1. Writing(w, g)'
        BY <3>1, <3>4 DEF GoTo, Writing, IsNext, work, TypeOK
      <4> QED BY <3>1, <3>3, <4>1 DEF work
    <3>5. CASE g # f
      <4>1. doc'[g] = doc[g]
        BY <3>1, <3>5 DEF TypeOK
      <4>2. PICK v \in Workers : Writing(v, g) /\ handle[v] # NoText
        BY <3>1, <4>1 DEF CutHasWriter, history
      <4>3. v # w
        BY <2>0, <4>2 DEF Writing
      <4>4. Writing(v, g)'
        BY <4>2, <4>3, Bystanders DEF Writing, IsNext
      <4> QED BY <3>1, <4>2, <4>4 DEF work
    <3> QED BY <3>4, <3>5
  <2> QED BY <2>1, <2>2
<1>6. CASE WriteFile(w)
  <2>1. PICK f \in todo[w] :
          /\ IsNext(w, f)
          /\ doc' = IF handle[w] = NoText THEN doc ELSE [doc EXCEPT ![f] = handle[w]]
    BY <1>6 DEF WriteFile
  <2>2. pc[w] = "write" /\ handle' = [handle EXCEPT ![w] = NoText] /\ killed' = killed
    BY <1>6 DEF WriteFile, history
  <2>3. handle[w] # NoText => handle[w].form = "stripped"
    BY <2>2 DEF HandleInv, Stripped
  <2> SUFFICES ASSUME ~killed', NEW g \in Files, doc'[g] # NoText, doc'[g].form = "cut"
               PROVE  \E v \in Workers : Writing(v, g)' /\ handle'[v] # NoText
    BY DEF CutHasWriter
  <2>4. doc[g] = doc'[g] /\ (g = f => handle[w] = NoText)
    BY <2>1, <2>3 DEF TypeOK
  <2>5. PICK v \in Workers : Writing(v, g) /\ handle[v] # NoText
    BY <2>2, <2>4 DEF CutHasWriter
  <2>6. v # w
    BY <2>1, <2>4, <2>5, OneNext DEF Writing
  <2>7. Writing(v, g)'
    BY <2>5, <2>6, Bystanders DEF Writing, IsNext
  <2>8. handle'[v] = handle[v]
    BY <2>2, <2>6 DEF TypeOK
  <2> QED BY <2>5, <2>7, <2>8
<1> QED BY <1>1, <1>2, <1>3, <1>4, <1>5, <1>6 DEF Step, Clone, Strip


-----------------------------------------------------------------------------
(* Calls that do not overlap                                               *)

\* Then whoever takes a step is the only one at work.
LEMMA Alone ==
  ASSUME TypeOK, SoloInv, NEW w \in Workers, Step(w) \/ CloneFails(w) \/ Kill(w),
         ~overlap'
  PROVE  /\ ~overlap
         /\ \A v \in Workers \ {w} : pc[v] = "idle" /\ pc'[v] = "idle"
<1>1. CASE Start(w)
  BY <1>1, Bystanders DEF Start
<1>2. CASE ~Start(w)
  <2>1. pc[w] # "idle"
    BY <1>2 DEF Step, Clone, BeginClone, EndFetch, Populate, EndTree, Checkout, ReadHead,
                RevList, BeginCheckout, Strip, Glob, ReadFile, Truncate, WriteFile,
                Return, AtReturn, CloneFails, Kill
  <2>2. overlap' = overlap
    <3>1. CASE Raise(w)
      BY <3>1 DEF Raise, history
    <3>2. CASE ~Raise(w)
      BY <1>2, <3>2
         DEF Step, Clone, BeginClone, EndFetch, Populate, WriteTree, EndTree, Checkout,
             ReadHead, RevList, BeginCheckout, Strip, Glob, ReadFile, Truncate, WriteFile,
             Return, CloneFails, Kill, history
    <3> QED BY <3>1, <3>2
  <2> QED BY <2>1, <2>2, Bystanders DEF SoloInv, Solo
<1> QED BY <1>1, <1>2

\* It is enough to look at the one that took the step.
LEMMA SoloRest ==
  ASSUME TypeOK, SoloInv, NEW w \in Workers, Step(w) \/ CloneFails(w) \/ Kill(w),
         ~overlap', GuideInv', WorkInv(w)'
  PROVE  SoloInv'
<1>1. \A v \in Workers \ {w} : pc'[v] = "idle"
  BY Alone
<1>2. \A v \in Workers \ {w} : WorkInv(v)'
  BY <1>1 DEF WorkInv
<1> QED BY <1>1, <1>2 DEF SoloInv, Solo

LEMMA SoloStep ==
  ASSUME TypeOK, SoloInv, NEW w \in Workers, Step(w) \/ CloneFails(w) \/ Kill(w)
  PROVE  SoloInv'
<1> SUFFICES ASSUME ~overlap' PROVE SoloInv'
  BY DEF SoloInv
<1> SUFFICES GuideInv' /\ WorkInv(w)'
  BY SoloRest
<1>0. GuideInv /\ WorkInv(w)
  BY Alone DEF SoloInv
<1>t. /\ head \in 0 .. NumRevs + 1 /\ doc \in [Files -> Text \cup {NoText}]
      /\ pc \in [Workers -> Stages] /\ at \in [Workers -> 0 .. NumRevs + 1]
      /\ todo \in [Workers -> SUBSET Files] /\ handle \in [Workers -> Text \cup {NoText}]
      /\ paths \in [Workers -> SUBSET Files]
  BY DEF TypeOK
<1>1. CASE Leave(w) /\ UNCHANGED clone
  <2>1. pc'[w] = "idle" /\ head' = head /\ doc' = doc
    BY <1>1, <1>t DEF Leave, GoTo, clone
  <2> QED BY <1>0, <2>1 DEF GuideInv, WorkInv
<1>2. CASE CloneFails(w)
  <2>1. pc'[w] = "idle" /\ head' = NoRev /\ \A f \in Files : doc'[f] = NoText
    BY <1>2, <1>t DEF CloneFails, GoTo
  <2> QED BY <2>1 DEF GuideInv, WorkInv
<1>3. CASE Start(w) \/ (BeginClone(w) /\ ~Raise(w))
  <2>1. pc'[w] \in {"clone", "head", "cloning"} /\ head' = head /\ doc' = doc
    BY <1>3, <1>t DEF Start, BeginClone, GoTo, clone
  <2> QED BY <1>0, <2>1 DEF GuideInv, WorkInv
<1>4. CASE EndFetch(w)
  <2>1. /\ pc'[w] = "populating" /\ doc' = doc
        /\ head' \in FreshHeads /\ at'[w] = head'
    BY <1>4, <1>t DEF EndFetch, GoTo
  <2> QED BY <1>0, <2>1, FreshHeadsAssumption DEF GuideInv, WorkInv, Latest, Deleted
<1>5. CASE Populate(w)
  <2>1. PICK f \in todo[w] : doc' = [doc EXCEPT ![f] = Committed(f, at[w])]
    BY <1>5 DEF Populate, WriteTree
  <2>2. pc' = pc /\ at' = at /\ head' = head /\ pc[w] \in {"populating", "checkingout"}
    BY <1>5 DEF Populate, WriteTree
  <2>3. at[w] \in {Latest, Deleted}
    BY <1>0, <2>2 DEF WorkInv
  <2>4. Committed(f, at[w]) # NoText => Committed(f, at[w]).rev = LastEdit(f, Latest)
    BY <1>t, <2>3, CommittedLatest
  <2>5. \A g \in Files : doc'[g] # NoText => doc'[g].rev = LastEdit(g, Latest)
    BY <1>0, <1>t, <2>1, <2>4 DEF GuideInv
  <2> QED BY <1>0, <2>2, <2>5 DEF GuideInv, WorkInv
<1>6. CASE EndTree(w)
  <2>1. /\ pc'[w] \in {"head", "glob"} /\ doc' = doc /\ head' = at[w]
        /\ at[w] \in {Latest, Deleted}
    BY <1>0, <1>6, <1>t DEF EndTree, GoTo, WorkInv
  <2> QED BY <1>0, <2>1 DEF GuideInv, WorkInv
<1>7. CASE ReadHead(w) /\ ~Raise(w)
  <2>1. /\ head # NoRev /\ head' = head /\ doc' = doc
        /\ pc'[w] = IF DocsAt(head) THEN "glob" ELSE "revlist"
    BY <1>7, <1>t DEF ReadHead, GoTo, clone
  <2>2. ~DocsAt(head) => head = Deleted
    BY <1>0, <2>1, Revisions DEF GuideInv
  <2> QED BY <1>0, <2>1, <2>2 DEF GuideInv, WorkInv
<1>8. CASE RevList(w) /\ ~Raise(w)
  <2>1. /\ head' = head /\ doc' = doc /\ pc'[w] = "checkout"
        /\ at'[w] = head - 1 /\ head = Deleted
    BY <1>0, <1>8, <1>t DEF RevList, GoTo, clone, WorkInv
  <2> QED BY <1>0, <2>1, Revisions DEF GuideInv, WorkInv
<1>9. CASE BeginCheckout(w) /\ ~Raise(w)
  <2>1. /\ head' = head /\ doc' = doc /\ pc'[w] = "checkingout"
        /\ at' = at /\ pc[w] = "checkout"
    BY <1>9, <1>t DEF BeginCheckout, GoTo
  <2> QED BY <1>0, <2>1 DEF GuideInv, WorkInv
<1>10. CASE Glob(w) /\ ~Raise(w)
  <2>1. /\ head' = head /\ doc' = doc /\ pc'[w] = "read"
        /\ todo'[w] = Present /\ paths'[w] = Present
    BY <1>10, <1>t DEF Glob, GoTo, clone
  <2> QED BY <1>0, <2>1 DEF GuideInv, WorkInv, Present
<1>11. CASE ReadFile(w) /\ ~Raise(w)
  <2>0. pc[w] = "read" /\ head' = head /\ doc' = doc /\ paths' = paths
    BY <1>11 DEF ReadFile, clone
  <2>1. PICK f \in todo[w] :
          /\ IsNext(w, f)
          /\ doc[f] # NoText
          /\ \/ /\ ~HasAnchors(f, doc[f])
                /\ todo' = [todo EXCEPT ![w] = @ \ {f}]
                /\ pc' = pc
             \/ /\ handle' = [handle EXCEPT ![w] = StripAnchors(doc[f])]
                /\ todo' = todo
                /\ GoTo(w, "truncate")
    BY <1>11 DEF ReadFile
  <2>2. GuideInv'
    BY <1>0, <2>0 DEF GuideInv
  <2>3. CASE todo' = [todo EXCEPT ![w] = @ \ {f}] /\ pc' = pc /\ ~HasAnchors(f, doc[f])
    <3>1. todo'[w] = todo[w] \ {f} /\ pc'[w] = "read"
      BY <1>t, <2>0, <2>3
    <3> QED BY <1>0, <2>0, <2>2, <2>3, <3>1 DEF WorkInv, HasAnchors
  <2>4. CASE /\ handle' = [handle EXCEPT ![w] = StripAnchors(doc[f])]
             /\ todo' = todo /\ GoTo(w, "truncate")
    <3>1. handle'[w] = StripAnchors(doc[f]) /\ pc'[w] = "truncate"
      BY <1>t, <2>4 DEF GoTo
    <3>2. doc[f] \in Text /\ f \in Files
      BY <1>t, <2>1
    <3>3. Stripped(handle'[w]) /\ handle'[w].rev = LastEdit(f, Latest)
      BY <1>0, <2>1, <3>1, <3>2, TextForms DEF Stripped, GuideInv
    <3>4. \A g \in todo'[w] : IsNext(w, g)' => g = f
      BY <2>1, <2>4, OneNext DEF IsNext
    <3>5. /\ Stripped(handle[w])'
          /\ \A g \in todo'[w] : IsNext(w, g)' => handle'[w].rev = LastEdit(g, Latest)
      BY <3>3, <3>4 DEF Stripped
    <3>6. /\ todo'[w] \subseteq paths'[w]
          /\ \A g \in paths'[w] : doc'[g] # NoText
          /\ \A g \in paths'[w] \ todo'[w] : ~HasAnchors(g, doc[g])'
      BY <1>0, <2>0, <2>4 DEF WorkInv, HasAnchors
    <3> QED BY <2>2, <3>1, <3>5, <3>6 DEF WorkInv
  <2> QED BY <2>1, <2>3, <2>4
<1>12. CASE Truncate(w) /\ ~Raise(w)
  <2>1. PICK f \in todo[w] : doc[f] # NoText /\ doc' = [doc EXCEPT ![f].form = "cut"]
    BY <1>12 DEF Truncate
  <2>2. /\ pc[w] = "truncate" /\ pc'[w] = "write" /\ head' = head
        /\ todo' = todo /\ handle' = handle /\ paths' = paths
    BY <1>12, <1>t DEF Truncate, GoTo, work
  <2>3. doc[f] \in Text /\ f \in Files
    BY <1>t, <2>1
  <2>4. /\ doc'[f] \in Text /\ doc'[f].rev = doc[f].rev
        /\ \A g \in Files \ {f} : doc'[g] = doc[g]
    BY <1>t, <2>1, <2>3 DEF Text
  <2>5. GuideInv'
    BY <1>0, <2>1, <2>2, <2>3, <2>4 DEF GuideInv
  <2>6. /\ Stripped(handle[w])'
        /\ \A g \in todo'[w] : IsNext(w, g)' => handle'[w].rev = LastEdit(g, Latest)
    BY <1>0, <2>2 DEF WorkInv, Stripped, IsNext
  <2>7. /\ todo'[w] \subseteq paths'[w]
        /\ \A g \in paths'[w] : doc'[g] # NoText
        /\ \A g \in paths'[w] \ todo'[w] : ~HasAnchors(g, doc[g])'
    BY <1>0, <1>t, <2>2, <2>4, NoTextAssumption DEF WorkInv, HasAnchors
  <2> QED BY <2>2, <2>5, <2>6, <2>7 DEF WorkInv
<1>13. CASE WriteFile(w)
  <2>1. PICK f \in todo[w] :
          /\ IsNext(w, f)
          /\ doc' = IF handle[w] = NoText THEN doc ELSE [doc EXCEPT ![f] = handle[w]]
          /\ todo' = [todo EXCEPT ![w] = @ \ {f}]
    BY <1>13 DEF WriteFile
  <2>2. /\ pc[w] = "write" /\ pc'[w] = "read" /\ head' = head /\ paths' = paths
    BY <1>13, <1>t DEF WriteFile, GoTo
  <2>3. /\ Stripped(handle[w]) /\ handle[w].rev = LastEdit(f, Latest)
        /\ handle[w] # NoText
    BY <1>0, <2>1, <2>2, NoTextAssumption DEF WorkInv, Stripped
  <2>4. f \in Files /\ doc'[f] = handle[w] /\ \A g \in Files \ {f} : doc'[g] = doc[g]
    BY <1>t, <2>1, <2>3
  <2>5. GuideInv'
    BY <1>0, <2>2, <2>3, <2>4 DEF GuideInv
  <2>6. todo'[w] = todo[w] \ {f}
    BY <1>t, <2>1
  <2>7. ~HasAnchors(f, doc[f])'
    BY <2>3, <2>4 DEF HasAnchors, Stripped
  <2>8. /\ todo'[w] \subseteq paths'[w]
        /\ \A g \in paths'[w] : doc'[g] # NoText
        /\ \A g \in paths'[w] \ todo'[w] : ~HasAnchors(g, doc[g])'
    BY <1>0, <1>t, <2>2, <2>3, <2>4, <2>6, <2>7 DEF WorkInv, HasAnchors
  <2> QED BY <2>2, <2>5, <2>8 DEF WorkInv
<1> QED BY <1>1, <1>2, <1>3, <1>4, <1>5, <1>6, <1>7, <1>8, <1>9, <1>10, <1>11, <1>12, <1>13
        DEF Step, Clone, Checkout, Strip, Return, Raise, Kill


-----------------------------------------------------------------------------
(* Calls that neither overlap nor are killed                               *)

LEMMA FullRest ==
  ASSUME TypeOK, SoloInv, NEW w \in Workers, Step(w) \/ CloneFails(w) \/ Kill(w),
         ~overlap', StageInv(w)', pc'[w] = "idle" => Fresh' \/ Full' \/ Bare'
  PROVE  FullInv'
<1>1. \A v \in Workers \ {w} : pc'[v] = "idle"
  BY Alone
<1>2. \A v \in Workers \ {w} : StageInv(v)'
  BY <1>1 DEF StageInv
<1> QED BY <1>1, <1>2 DEF FullInv, AtRest

LEMMA FullStep ==
  ASSUME TypeOK, SoloInv, FullInv, NEW w \in Workers, Step(w) \/ CloneFails(w) \/ Kill(w)
  PROVE  FullInv'
<1> SUFFICES ASSUME ~overlap', ~killed' PROVE FullInv'
  BY DEF FullInv
<1> SUFFICES StageInv(w)' /\ (pc'[w] = "idle" => Fresh' \/ Full' \/ Bare')
  BY FullRest
<1>0. /\ ~Kill(w) /\ ~killed
  <2>1. ASSUME Kill(w) PROVE FALSE
    <3>1. killed' = TRUE
      BY <2>1 DEF Kill
    <3> QED BY <3>1
  <2>2. killed' = killed
    <3>1. CASE Raise(w)
      BY <3>1 DEF Raise, history
    <3>2. CASE ~Raise(w)
      BY <2>1, <3>2
         DEF Step, Clone, Start, BeginClone, EndFetch, Populate, WriteTree, EndTree,
             Checkout, ReadHead, RevList, BeginCheckout, Strip, Glob, ReadFile, Truncate,
             WriteFile, Return, CloneFails, history
    <3> QED BY <3>1, <3>2
  <2>3. ~killed
    BY <2>2
  <2> QED BY <2>1, <2>3
<1>i. /\ GuideInv /\ WorkInv(w) /\ StageInv(w) /\ AtRest
      /\ \A v \in Workers \ {w} : pc[v] = "idle"
  BY <1>0, Alone DEF SoloInv, FullInv
<1>t. /\ head \in 0 .. NumRevs + 1 /\ doc \in [Files -> Text \cup {NoText}]
      /\ pc \in [Workers -> Stages] /\ at \in [Workers -> 0 .. NumRevs + 1]
      /\ todo \in [Workers -> SUBSET Files] /\ handle \in [Workers -> Text \cup {NoText}]
      /\ paths \in [Workers -> SUBSET Files]
  BY DEF TypeOK
<1>1. CASE Raise(w)
  <2>1. /\ pc'[w] = "idle"
        /\ repo' = repo /\ head' = head /\ locked' = locked /\ doc' = doc
    BY <1>1, <1>t DEF Raise, Leave, GoTo, clone
  <2>2. pc[w] \in {"clone", "head", "revlist", "checkout", "glob", "read", "truncate"}
    <3>1. pc[w] \notin {"idle", "cloning", "populating", "checkingout", "write"}
      <4>1. ~Start(w) /\ ~WriteFile(w)
        BY <1>t, <2>1 DEF Start, WriteFile, GoTo
      <4>2. ~EndFetch(w) /\ ~EndTree(w)
        BY <1>t, <2>1 DEF EndFetch, EndTree, GoTo
      <4>3. ~Populate(w)
        BY <1>t, <2>1 DEF Populate, WriteTree
      <4>4. ~CloneFails(w)
        <5>1. CASE pc[w] = "cloning"
          BY <1>i, <2>1, <5>1 DEF CloneFails, StageInv
        <5>2. CASE pc[w] = "populating"
          BY <1>i, <2>1, <5>2 DEF CloneFails, StageInv
        <5> QED BY <5>1, <5>2 DEF CloneFails
      <4> QED BY <1>0, <4>1, <4>2, <4>3, <4>4
              DEF Step, Clone, BeginClone, Checkout, ReadHead, RevList, BeginCheckout,
                  Strip, Glob, ReadFile, Truncate, Return, AtReturn
    <3> QED BY <1>t, <3>1 DEF Stages
  <2>3. Fresh \/ Full \/ Bare
    BY <1>i, <2>2 DEF StageInv
  <2> QED BY <2>1, <2>3 DEF StageInv, Fresh, Full, Bare, Empty, Whole
<1>2. CASE CloneFails(w)
  <2>1. pc'[w] = "idle" /\ repo' = "absent" /\ head' = NoRev /\ ~locked'
        /\ \A f \in Files : doc'[f] = NoText
    BY <1>2, <1>t DEF CloneFails, GoTo
  <2> QED BY <2>1 DEF StageInv, Fresh, Empty
<1>3. CASE Start(w)
  <2>1. /\ pc'[w] = IF repo = "absent" THEN "clone" ELSE "head"
        /\ repo' = repo /\ head' = head /\ locked' = locked /\ doc' = doc
        /\ pc[w] = "idle"
    BY <1>3, <1>t DEF Start, GoTo, clone
  <2>2. Fresh \/ Full \/ Bare
    BY <1>i, <2>1 DEF AtRest
  <2> QED BY <2>1, <2>2 DEF StageInv, Fresh, Full, Bare, Empty, Whole
<1>4. CASE BeginClone(w) /\ ~Raise(w)
  <2>1. /\ pc[w] = "clone" /\ pc'[w] = "cloning" /\ repo' = "present"
        /\ locked' = locked /\ doc' = doc
    BY <1>4, <1>t DEF BeginClone, GoTo
  <2> QED BY <1>i, <2>1 DEF StageInv, Fresh, Empty
<1>5. CASE EndFetch(w)
  <2>1. /\ pc[w] = "cloning" /\ pc'[w] = "populating" /\ repo' = repo /\ doc' = doc
    BY <1>5, <1>t DEF EndFetch, GoTo
  <2>2. /\ at'[w] = Deleted => todo'[w] = {}
        /\ at'[w] = Latest => todo'[w] = Files
    BY <1>5, <1>t, Revisions DEF EndFetch
  <2> QED BY <1>i, <2>1, <2>2 DEF StageInv, Empty, Whole
<1>6. CASE Populate(w)
  <2>1. PICK f \in todo[w] : /\ doc' = [doc EXCEPT ![f] = Committed(f, at[w])]
                             /\ todo' = [todo EXCEPT ![w] = @ \ {f}]
    BY <1>6 DEF Populate, WriteTree
  <2>2. pc' = pc /\ at' = at /\ repo' = repo /\ pc[w] \in {"populating", "checkingout"}
    BY <1>6 DEF Populate, WriteTree
  <2>3. at[w] = Latest /\ repo = "present" /\ Whole(Files \ todo[w])
    BY <1>i, <2>1, <2>2 DEF WorkInv, StageInv
  <2>4. doc'[f] # NoText /\ doc'[f].form # "cut"
    BY <1>t, <2>1, <2>3, CommittedLatest
  <2>5. Whole(Files \ todo[w])'
    BY <1>t, <2>1, <2>3, <2>4 DEF Whole
  <2> QED BY <2>2, <2>3, <2>5, Revisions DEF StageInv
<1>7. CASE EndTree(w)
  <2>1. /\ pc[w] \in {"populating", "checkingout"} /\ todo[w] = {}
        /\ pc'[w] = IF pc[w] = "populating" THEN "head" ELSE "glob"
        /\ head' = at[w] /\ ~locked' /\ doc' = doc /\ repo' = repo
    BY <1>7, <1>t DEF EndTree, GoTo
  <2>2. repo = "present"
    BY <1>i, <2>1 DEF StageInv
  <2>3. CASE at[w] = Latest
    <3>1. Full'
      BY <1>i, <2>1, <2>2, <2>3 DEF StageInv, Full, Whole
    <3> QED BY <2>1, <3>1 DEF StageInv
  <2>4. CASE at[w] # Latest
    <3>1. pc[w] = "populating" /\ at[w] = Deleted
      BY <1>i, <2>1, <2>4 DEF WorkInv
    <3>2. Bare'
      BY <1>i, <2>1, <2>2, <3>1 DEF StageInv, Bare, Empty
    <3> QED BY <2>1, <3>1, <3>2 DEF StageInv
  <2> QED BY <2>3, <2>4
<1>8. CASE ReadHead(w) /\ ~Raise(w)
  <2>1. /\ pc[w] = "head"
        /\ repo' = repo /\ head' = head /\ locked' = locked /\ doc' = doc
        /\ pc'[w] = IF DocsAt(head) THEN "glob" ELSE "revlist"
    BY <1>8, <1>t DEF ReadHead, GoTo, clone
  <2>2. Full \/ Bare
    BY <1>i, <2>1 DEF StageInv
  <2>3. CASE DocsAt(head)
    <3>1. Full'
      BY <2>1, <2>2, <2>3, Revisions DEF Full, Bare, Whole
    <3> QED BY <2>1, <2>3, <3>1 DEF StageInv
  <2>4. CASE ~DocsAt(head)
    <3>1. Bare'
      BY <2>1, <2>2, <2>4, Revisions DEF Full, Bare, Empty
    <3> QED BY <2>1, <2>4, <3>1 DEF StageInv
  <2> QED BY <2>3, <2>4
<1>9. CASE RevList(w) /\ ~Raise(w)
  <2>1. /\ pc[w] = "revlist" /\ pc'[w] = "checkout"
        /\ repo' = repo /\ head' = head /\ locked' = locked /\ doc' = doc
    BY <1>9, <1>t DEF RevList, GoTo, clone
  <2> QED BY <1>i, <2>1 DEF StageInv, Bare, Empty
<1>10. CASE BeginCheckout(w) /\ ~Raise(w)
  <2>1. /\ pc[w] = "checkout" /\ pc'[w] = "checkingout" /\ repo' = repo /\ doc' = doc
        /\ todo'[w] = {f \in Files : Committed(f, head) # Committed(f, at[w])}
    BY <1>10, <1>t DEF BeginCheckout, GoTo
  <2>2. at[w] = Latest /\ head = Deleted /\ repo = "present"
    BY <1>i, <2>1 DEF WorkInv, StageInv, Bare
  <2>3. todo'[w] = Files
    BY <2>1, <2>2, CommittedLatest
  <2> QED BY <2>1, <2>2, <2>3 DEF StageInv, Whole
<1>11. CASE Glob(w) /\ ~Raise(w)
  <2>1. /\ pc[w] = "glob" /\ pc'[w] = "read" /\ paths'[w] = Present
        /\ repo' = repo /\ head' = head /\ locked' = locked /\ doc' = doc
    BY <1>11, <1>t DEF Glob, GoTo, clone
  <2>2. Full /\ Present = Files
    BY <1>i, <2>1 DEF StageInv, Full, Whole, Present
  <2> QED BY <2>1, <2>2 DEF StageInv, Full, Whole
<1>12. CASE ReadFile(w) /\ ~Raise(w)
  <2>1. /\ pc[w] = "read" /\ pc'[w] \in {"read", "truncate"} /\ paths' = paths
        /\ repo' = repo /\ head' = head /\ locked' = locked /\ doc' = doc
    BY <1>12, <1>t DEF ReadFile, GoTo, clone
  <2> QED BY <1>i, <2>1 DEF StageInv, Full, Whole
<1>13. CASE Truncate(w) /\ ~Raise(w)
  <2>1. PICK f \in todo[w] : /\ IsNext(w, f)
                             /\ doc[f] # NoText /\ doc' = [doc EXCEPT ![f].form = "cut"]
    BY <1>13 DEF Truncate
  <2>2. /\ pc[w] = "truncate" /\ pc'[w] = "write" /\ todo' = todo /\ paths' = paths
        /\ repo' = repo /\ head' = head /\ locked' = locked
    BY <1>13, <1>t DEF Truncate, GoTo, work
  <2>3. doc[f] \in Text /\ f \in Files
    BY <1>t, <2>1
  <2>4. doc'[f] # NoText /\ \A g \in Files \ {f} : doc'[g] = doc[g]
    BY <1>t, <2>1, <2>3, NoTextAssumption DEF Text
  <2>5. IsNext(w, f)'
    BY <2>1, <2>2 DEF IsNext
  <2>6. Full /\ paths[w] = Files
    BY <1>i, <2>2 DEF StageInv
  <2>7. \A g \in Files : doc'[g] # NoText
    BY <2>4, <2>6 DEF Full, Whole
  <2>8. \A g \in Files : doc'[g].form = "cut" => IsNext(w, g)'
    BY <2>4, <2>5, <2>6 DEF Full, Whole
  <2> QED BY <2>2, <2>6, <2>7, <2>8 DEF StageInv, Full
<1>14. CASE WriteFile(w)
  <2>1. PICK f \in todo[w] :
          /\ IsNext(w, f)
          /\ doc' = IF handle[w] = NoText THEN doc ELSE [doc EXCEPT ![f] = handle[w]]
    BY <1>14 DEF WriteFile
  <2>2. /\ pc[w] = "write" /\ pc'[w] = "read" /\ paths' = paths
        /\ repo' = repo /\ head' = head /\ locked' = locked
    BY <1>14, <1>t DEF WriteFile, GoTo
  <2>3. handle[w] \in Text /\ handle[w].form = "stripped" /\ handle[w] # NoText
    BY <1>i, <2>2, NoTextAssumption DEF WorkInv, Stripped
  <2>4. f \in Files /\ doc'[f] = handle[w] /\ \A g \in Files \ {f} : doc'[g] = doc[g]
    BY <1>t, <2>1, <2>3
  <2>5. \A g \in Files : doc[g].form = "cut" => g = f
    BY <1>i, <2>1, <2>2, OneNext DEF StageInv
  <2>6. Whole(Files)'
    BY <1>i, <2>2, <2>3, <2>4, <2>5 DEF StageInv, Whole
  <2> QED BY <1>i, <2>2, <2>6 DEF StageInv, Full
<1> QED BY <1>0, <1>1, <1>2, <1>3, <1>4, <1>5, <1>6, <1>7, <1>8, <1>9, <1>10, <1>11,
           <1>12, <1>13, <1>14
        DEF Step, Clone, Checkout, Strip, Return

-----------------------------------------------------------------------------
(* The theorems                                                            *)

LEMMA InitIInv == Init => IInv
<1> SUFFICES ASSUME Init PROVE IInv
  OBVIOUS
<1>1. \A w \in Workers : pc[w] = "idle"
  BY DEF Init
<1>2. (\A f \in Files : doc[f] = NoText) /\ repo = "absent" /\ head = NoRev /\ ~locked
  BY DEF Init
<1>3. HandleInv /\ CutHasWriter
  BY <1>1, <1>2 DEF HandleInv, CutHasWriter
<1>4. SoloInv
  BY <1>1, <1>2 DEF SoloInv, Solo, GuideInv, WorkInv
<1>5. FullInv
  BY <1>1, <1>2 DEF FullInv, AtRest, StageInv, Fresh, Empty
<1> QED BY <1>3, <1>4, <1>5, InitType DEF IInv

LEMMA NextIInv == IInv /\ [Next]_vars => IInv'
<1> SUFFICES ASSUME IInv, [Next]_vars PROVE IInv'
  OBVIOUS
<1>1. TypeOK'
  BY NextType DEF IInv
<1>2. CASE UNCHANGED vars
  BY <1>1, <1>2
     DEF IInv, HandleInv, CutHasWriter, SoloInv, FullInv, Solo, GuideInv, WorkInv, Stripped,
         HasAnchors, StageInv, AtRest, Fresh, Full, Bare, Empty, Whole, Writing, IsNext,
         vars, clone, work, history
<1>3. ASSUME NEW w \in Workers, Step(w) \/ CloneFails(w) \/ Kill(w) PROVE IInv'
  BY <1>1, <1>3, HandleStep, CutStep, SoloStep, FullStep DEF IInv
<1> QED BY <1>2, <1>3 DEF Next

\* The invariant: what is not whole is being written, and a call alone at work
\* knows how far it has brought the clone.
THEOREM CloneInv == Spec => []IInv
<1>1. Init => IInv
  BY InitIInv
<1>2. IInv /\ [Next]_vars => IInv'
  BY NextIInv
<1> QED BY <1>1, <1>2, PTL DEF Spec

\* Without kills a file that is cut off has a worker about to write it whole,
\* however many calls write, check out and remove files (list_files,
\* fetch.py:175-182).
THEOREM NothingStaysCut == Spec => []CutHasWriter
<1>1. IInv => CutHasWriter
  BY DEF IInv
<1> QED BY <1>1, CloneInv, PTL

\* Calls that never overlap return no anchor and no other revision's file,
\* whichever of them were killed (list_files, fetch.py:170-182).
THEOREM NoAnchorListed == Spec => []ListsNoAnchor
<1>1. IInv => ListsNoAnchor
  <2> SUFFICES ASSUME IInv, NEW w \in Workers, AtReturn(w), ~overlap, NEW f \in paths[w]
               PROVE  doc[f].rev = LastEdit(f, NumRevs) /\ ~HasAnchors(f, doc[f])
    BY DEF ListsNoAnchor
  <2>1. GuideInv /\ WorkInv(w) /\ f \in Files
    BY DEF IInv, SoloInv, TypeOK
  <2> QED BY <2>1 DEF GuideInv, WorkInv, AtReturn, Latest
<1> QED BY <1>1, CloneInv, PTL

\* Calls that neither overlap nor are killed return the whole guide, however
\* often cloning failed before (list_files, fetch.py:155-188).
THEOREM WholeGuideListed == Spec => []ListsWholeGuide
<1>1. IInv => ListsWholeGuide
  <2> SUFFICES ASSUME IInv, NEW w \in Workers, AtReturn(w), ~killed, ~overlap
               PROVE  paths[w] = Files /\ \A f \in Files : Clean(f)
    BY DEF ListsWholeGuide
  <2>1. GuideInv /\ WorkInv(w) /\ StageInv(w)
    BY DEF IInv, SoloInv, FullInv
  <2>2. paths[w] = Files /\ Whole(Files) /\ todo[w] = {}
    BY <2>1 DEF AtReturn, StageInv, Full
  <2> QED BY <2>1, <2>2 DEF GuideInv, WorkInv, AtReturn, Whole, Clean, Latest
<1> QED BY <1>1, CloneInv, PTL

-----------------------------------------------------------------------------
(* The S3 source                                                           *)

\* A worker at work knows of every entry it has listed what the bucket held at
\* some moment since; so of the download it is about to complete.
EntryInv(w) ==
  \A e \in listing[w] : \E c \in seen[e.key] : Size[c] = e.size

PartInv(w) ==
  progress[w] = "land" =>
    /\ part[w] \in S3!Object
    /\ \E e \in listing[w] : \A d \in listing[w] : e.key <= d.key
    /\ \A e \in listing[w] :
         (\A d \in listing[w] : e.key <= d.key) => part[w].content \in seen[e.key]

PathInv(w) ==
  \A k \in listed[w] : cache[k] # NoObject /\ cache[k].object.content \in seen[k]

WorkerInv(w) ==
  /\ progress[w] = "idle" => listing[w] = {} /\ listed[w] = {}
  /\ EntryInv(w) /\ PartInv(w) /\ PathInv(w)

\* While anybody is at work, what the bucket holds now has been seen.
SeenInv ==
  (\E w \in Callers : progress[w] # "idle") =>
    \A k \in S3!Keys : objects[k] # NoObject => objects[k].content \in seen[k]

CacheInv == S3!TypeOK /\ SeenInv /\ \A w \in Callers : WorkerInv(w)

-----------------------------------------------------------------------------
(* Types                                                                   *)

LEMMA StampType ==
  ASSUME NEW t \in Nat
  PROVE  S3!Stamp(t) \in Nat
<1>1. t % Second \in Nat /\ t % Second <= t
  BY SecondAssumption
<1> QED BY <1>1 DEF S3!Stamp

LEMMA DoneType ==
  ASSUME S3!TypeOK, NEW w \in Callers, NEW e \in listing[w], S3!Done(w, e)
  PROVE  /\ progress' \in [Callers -> S3!Stages]
         /\ listing' \in [Callers -> SUBSET S3!Entry]
         /\ part' \in [Callers -> S3!Object \cup {NoObject}]
         /\ listed' \in [Callers -> SUBSET S3!Keys]
<1>1. e.key \in S3!Keys
  BY DEF S3!TypeOK, S3!Entry
<1> QED BY <1>1 DEF S3!TypeOK, S3!Done, S3!Stages

-----------------------------------------------------------------------------
(* Each action keeps the invariant.                                        *)

\* A step of w that leaves the cache and the history alone leaves the others
\* their invariants.
LEMMA OthersKeep ==
  ASSUME CacheInv, NEW w \in Callers, cache' = cache, seen' = seen,
         \A v \in Callers \ {w} :
           progress'[v] = progress[v] /\ listing'[v] = listing[v] /\ part'[v] = part[v]
           /\ listed'[v] = listed[v]
  PROVE  \A v \in Callers \ {w} : WorkerInv(v)'
  BY DEF CacheInv, WorkerInv, EntryInv, PartInv, PathInv

LEMMA ListObjectsStep ==
  ASSUME CacheInv, NEW w \in Callers, S3!ListObjects(w)
  PROVE  CacheInv'
<1> DEFINE entries == {[key |-> k, size |-> Size[objects[k].content],
                        modified |-> objects[k].modified] : k \in S3!Stored}
<1>1. \A k \in S3!Stored : k \in S3!Keys /\ objects[k] \in S3!Object
  BY DEF S3!Stored, CacheInv, S3!TypeOK
<1>2. entries \subseteq S3!Entry
  <2> SUFFICES ASSUME NEW k \in S3!Stored
               PROVE  [key |-> k, size |-> Size[objects[k].content],
                       modified |-> objects[k].modified] \in S3!Entry
    OBVIOUS
  <2>1. objects[k].content \in Contents /\ objects[k].modified \in Nat
    BY <1>1 DEF S3!Object
  <2> QED BY <1>1, <2>1, SizeAssumption DEF S3!Entry
<1>3. listing' = [listing EXCEPT ![w] = entries]
  BY DEF S3!ListObjects
<1>4. \A k \in S3!Keys : S3!Current(k) \in SUBSET Contents
  BY DEF CacheInv, S3!TypeOK, S3!Current, S3!Object
<1>5. S3!TypeOK'
  <2>1. listing' \in [Callers -> SUBSET S3!Entry]
    BY <1>2, <1>3 DEF CacheInv, S3!TypeOK
  <2>2. seen' \in [S3!Keys -> SUBSET Contents]
    BY <1>4 DEF S3!ListObjects, CacheInv, S3!TypeOK
  <2> QED BY <2>1, <2>2 DEF S3!ListObjects, CacheInv, S3!TypeOK, S3!bucket, S3!Stages
<1>6. \A k \in S3!Stored : objects[k].content \in seen'[k]
  <2>1. CASE \A v \in Callers : progress[v] = "idle"
    BY <1>1, <2>1 DEF S3!ListObjects, S3!Current, S3!Stored
  <2>2. CASE ~(\A v \in Callers : progress[v] = "idle")
    BY <2>2 DEF S3!ListObjects, CacheInv, SeenInv, S3!Stored
  <2> QED BY <2>1, <2>2
<1>7. SeenInv'
  BY <1>6 DEF SeenInv, S3!ListObjects, S3!bucket, S3!Stored
<1>8. WorkerInv(w)'
  <2>1. progress'[w] = "keys" /\ listed'[w] = {} /\ listing'[w] = entries
    BY <1>3 DEF S3!ListObjects, CacheInv, S3!TypeOK, WorkerInv
  <2>2. \A e \in entries : \E c \in seen'[e.key] : Size[c] = e.size
    <3> SUFFICES ASSUME NEW k \in S3!Stored
                 PROVE  \E c \in seen'[k] : Size[c] = Size[objects[k].content]
      OBVIOUS
    <3> QED BY <1>6
  <2> QED BY <2>1, <2>2 DEF WorkerInv, EntryInv, PartInv, PathInv
<1>9. \A v \in Callers \ {w} : WorkerInv(v)'
  <2>1. \A v \in Callers \ {w} :
          progress'[v] = progress[v] /\ listing'[v] = listing[v] /\ part'[v] = part[v]
          /\ listed'[v] = listed[v]
    BY DEF S3!ListObjects, CacheInv, S3!TypeOK
  <2>2. CASE \A v \in Callers : progress[v] = "idle"
    BY <2>1, <2>2 DEF CacheInv, WorkerInv, EntryInv, PartInv, PathInv
  <2>3. CASE ~(\A v \in Callers : progress[v] = "idle")
    BY <2>1, <2>3, OthersKeep DEF S3!ListObjects
  <2> QED BY <2>2, <2>3
<1> QED BY <1>5, <1>7, <1>8, <1>9 DEF CacheInv

LEMMA SkipStep ==
  ASSUME SizesTellApart, CacheInv, NEW w \in Callers, S3!Skip(w)
  PROVE  CacheInv'
<1>1. PICK e \in listing[w] :
        /\ S3!IsNext(w, e)
        /\ ~S3!NeedsDownload(e.key, e.size, e.modified)
        /\ S3!Done(w, e)
  BY DEF S3!Skip
<1>2. S3!TypeOK'
  BY <1>1, DoneType DEF S3!Skip, CacheInv, S3!TypeOK, S3!bucket
<1>3. e.key \in S3!Keys
  BY DEF CacheInv, S3!TypeOK, S3!Entry
<1>4. cache[e.key] # NoObject /\ Size[cache[e.key].object.content] = e.size
  BY <1>1, <1>3 DEF S3!NeedsDownload, S3!Cached
<1>5. cache[e.key].object.content \in Contents
  BY <1>3, <1>4 DEF CacheInv, S3!TypeOK, S3!Copy, S3!Object
<1>6. PICK c \in seen[e.key] : Size[c] = e.size
  BY DEF CacheInv, WorkerInv, EntryInv
<1>7. c \in Contents
  BY <1>3 DEF CacheInv, S3!TypeOK
<1>8. cache[e.key].object.content \in seen[e.key]
  BY <1>4, <1>5, <1>6, <1>7 DEF SizesTellApart
<1>9. progress[w] = "keys"
  BY <1>1 DEF S3!IsNext
<1>10. SeenInv'
  BY <1>9 DEF S3!Skip, CacheInv, SeenInv, S3!bucket
<1>11. WorkerInv(w)'
  <2>1. /\ progress'[w] = "keys"
        /\ listing'[w] = listing[w] \ {e}
        /\ listed'[w] = listed[w] \cup {e.key}
    BY <1>1 DEF S3!Done, CacheInv, S3!TypeOK
  <2>2. cache' = cache /\ seen' = seen
    BY DEF S3!Skip
  <2> QED BY <1>4, <1>8, <2>1, <2>2 DEF CacheInv, WorkerInv, EntryInv, PartInv, PathInv
<1>12. \A v \in Callers \ {w} : WorkerInv(v)'
  <2>1. \A v \in Callers \ {w} :
          progress'[v] = progress[v] /\ listing'[v] = listing[v] /\ part'[v] = part[v]
          /\ listed'[v] = listed[v]
    BY <1>1 DEF S3!Done, CacheInv, S3!TypeOK
  <2> QED BY <2>1, OthersKeep DEF S3!Skip
<1> QED BY <1>2, <1>10, <1>11, <1>12 DEF CacheInv

LEMMA GetStep ==
  ASSUME CacheInv, NEW w \in Callers, S3!Get(w)
  PROVE  CacheInv'
<1>1. PICK e \in listing[w] :
        /\ S3!IsNext(w, e)
        /\ objects[e.key] # NoObject
        /\ part' = [part EXCEPT ![w] = objects[e.key]]
  BY DEF S3!Get
<1>2. e.key \in S3!Keys /\ listing[w] \subseteq S3!Entry
  BY DEF CacheInv, S3!TypeOK, S3!Entry
<1>3. objects[e.key] \in S3!Object
  BY <1>1, <1>2 DEF CacheInv, S3!TypeOK
<1>4. S3!TypeOK'
  BY <1>1, <1>3 DEF S3!Get, CacheInv, S3!TypeOK, S3!bucket, S3!Stages
<1>5. progress[w] = "keys" /\ \A d \in listing[w] : e.key <= d.key
  BY <1>1 DEF S3!IsNext
<1>6. objects[e.key].content \in seen[e.key]
  BY <1>1, <1>2, <1>5 DEF CacheInv, SeenInv
<1>7. SeenInv'
  BY <1>5 DEF S3!Get, CacheInv, SeenInv, S3!bucket
<1>8. WorkerInv(w)'
  <2>1. progress'[w] = "land" /\ part'[w] = objects[e.key] /\ listing' = listing
        /\ listed' = listed /\ cache' = cache /\ seen' = seen
    BY <1>1 DEF S3!Get, CacheInv, S3!TypeOK
  <2>2. \A f \in listing[w] : (\A d \in listing[w] : f.key <= d.key) => f.key = e.key
    BY <1>2, <1>5, NumKeysAssumption DEF S3!Entry, S3!Keys
  <2>3. PartInv(w)'
    BY <1>3, <1>5, <1>6, <2>1, <2>2 DEF PartInv
  <2> QED BY <2>1, <2>3 DEF CacheInv, WorkerInv, EntryInv, PathInv
<1>9. \A v \in Callers \ {w} : WorkerInv(v)'
  <2>1. \A v \in Callers \ {w} :
          progress'[v] = progress[v] /\ listing'[v] = listing[v] /\ part'[v] = part[v]
          /\ listed'[v] = listed[v]
    BY <1>1 DEF S3!Get, CacheInv, S3!TypeOK
  <2> QED BY <2>1, OthersKeep DEF S3!Get
<1> QED BY <1>4, <1>7, <1>8, <1>9 DEF CacheInv

LEMMA LandStep ==
  ASSUME CacheInv, NEW w \in Callers, S3!Land(w)
  PROVE  CacheInv'
<1>1. PICK e \in listing[w] :
        /\ \A d \in listing[w] : e.key <= d.key
        /\ cache' = [cache EXCEPT ![e.key] = [object |-> part[w], mtime |-> now]]
        /\ S3!Done(w, e)
  BY DEF S3!Land
<1>2. progress[w] = "land" /\ seen' = seen
  BY DEF S3!Land
<1>3. part[w] \in S3!Object /\ part[w].content \in seen[e.key]
  BY <1>1, <1>2 DEF CacheInv, WorkerInv, PartInv
<1>4. e.key \in S3!Keys
  BY DEF CacheInv, S3!TypeOK, S3!Entry
<1>5. [object |-> part[w], mtime |-> now] \in S3!Copy
  BY <1>3 DEF S3!Copy, CacheInv, S3!TypeOK
<1>6. S3!TypeOK'
  BY <1>1, <1>5, DoneType DEF S3!Land, CacheInv, S3!TypeOK, S3!bucket
<1>7. SeenInv'
  BY <1>2 DEF S3!Land, CacheInv, SeenInv, S3!bucket
<1>8. \A k \in S3!Keys :
        \/ k # e.key /\ cache'[k] = cache[k]
        \/ k = e.key /\ cache'[k] # NoObject /\ cache'[k].object.content \in seen[k]
  <2>1. [object |-> part[w], mtime |-> now] # NoObject
    BY <1>5, NoObjectAssumption DEF S3!Copy, S3!Object, Copy, Object
  <2> QED BY <1>1, <1>3, <1>4, <2>1 DEF CacheInv, S3!TypeOK
<1>9. \A v \in Callers : WorkerInv(v)'
  <2> SUFFICES ASSUME NEW v \in Callers PROVE WorkerInv(v)'
    OBVIOUS
  <2>1. PathInv(v)'
    <3>1. listed'[v] \subseteq listed[v] \cup {e.key} /\ listed'[v] \subseteq S3!Keys
      BY <1>1, <1>6 DEF S3!Done, CacheInv, S3!TypeOK
    <3>2. PathInv(v)
      BY DEF CacheInv, WorkerInv
    <3>3. ASSUME NEW k \in listed'[v]
          PROVE  cache'[k] # NoObject /\ cache'[k].object.content \in seen[k]
      BY <1>8, <3>1, <3>2 DEF PathInv
    <3> QED BY <1>2, <3>3 DEF PathInv
  <2>2. CASE v = w
    <3>1. progress'[w] = "keys" /\ listing'[w] = listing[w] \ {e}
      BY <1>1 DEF S3!Done, CacheInv, S3!TypeOK
    <3> QED BY <1>2, <2>1, <2>2, <3>1 DEF CacheInv, WorkerInv, EntryInv, PartInv
  <2>3. CASE v # w
    <3>1. progress'[v] = progress[v] /\ listing'[v] = listing[v] /\ part'[v] = part[v]
          /\ listed'[v] = listed[v]
      BY <1>1, <2>3 DEF S3!Done, CacheInv, S3!TypeOK
    <3> QED BY <1>2, <2>1, <3>1 DEF CacheInv, WorkerInv, EntryInv, PartInv
  <2> QED BY <2>2, <2>3
<1> QED BY <1>6, <1>7, <1>9 DEF CacheInv

LEMMA GiveUpStep ==
  ASSUME CacheInv, NEW w \in Callers, S3!GiveUp(w)
  PROVE  CacheInv'
<1>1. S3!TypeOK'
  BY DEF S3!GiveUp, CacheInv, S3!TypeOK, S3!bucket, S3!Stages
<1>2. progress'[w] = "idle" /\ listing'[w] = {} /\ listed'[w] = {}
  BY DEF S3!GiveUp, CacheInv, S3!TypeOK
<1>3. \A v \in Callers \ {w} :
        progress'[v] = progress[v] /\ listing'[v] = listing[v] /\ part'[v] = part[v]
        /\ listed'[v] = listed[v]
  BY DEF S3!GiveUp, CacheInv, S3!TypeOK
<1>4. SeenInv'
  BY <1>2, <1>3 DEF S3!GiveUp, CacheInv, SeenInv, S3!bucket
<1>5. WorkerInv(w)'
  BY <1>2 DEF WorkerInv, EntryInv, PartInv, PathInv
<1>6. \A v \in Callers \ {w} : WorkerInv(v)'
  BY <1>3, OthersKeep DEF S3!GiveUp
<1> QED BY <1>1, <1>4, <1>5, <1>6 DEF CacheInv

LEMMA UploadStep ==
  ASSUME CacheInv, NEW k \in S3!Keys, NEW c \in Contents, S3!Upload(k, c)
  PROVE  CacheInv'
<1>1. S3!Stamp(now) \in Nat
  BY StampType DEF CacheInv, S3!TypeOK
<1>2. [content |-> c, modified |-> S3!Stamp(now)] \in S3!Object
  BY <1>1 DEF S3!Object
<1>3. S3!TypeOK'
  BY <1>2 DEF S3!Upload, CacheInv, S3!TypeOK
<1>4. \A j \in S3!Keys : seen[j] \subseteq seen'[j]
  BY DEF S3!Upload, CacheInv, S3!TypeOK
<1>5. SeenInv'
  <2> SUFFICES ASSUME \E w \in Callers : progress[w] # "idle", NEW j \in S3!Keys,
                      objects'[j] # NoObject
               PROVE  objects'[j].content \in seen'[j]
    BY DEF SeenInv, S3!Upload
  <2>1. CASE j = k
    BY <2>1 DEF S3!Upload, CacheInv, S3!TypeOK
  <2>2. CASE j # k
    BY <1>4, <2>2 DEF S3!Upload, CacheInv, S3!TypeOK, SeenInv
  <2> QED BY <2>1, <2>2
<1>6. \A w \in Callers : WorkerInv(w)'
  <2> SUFFICES ASSUME NEW w \in Callers PROVE WorkerInv(w)'
    OBVIOUS
  <2>1. listing[w] \subseteq S3!Entry /\ listed[w] \subseteq S3!Keys
    BY DEF CacheInv, S3!TypeOK
  <2>2. \A e \in listing[w] : e.key \in S3!Keys
    BY <2>1 DEF S3!Entry
  <2>3. WorkerInv(w)
    BY DEF CacheInv
  <2>4. EntryInv(w)'
    BY <1>4, <2>2, <2>3 DEF S3!Upload, WorkerInv, EntryInv
  <2>5. PartInv(w)'
    BY <1>4, <2>2, <2>3 DEF S3!Upload, WorkerInv, PartInv
  <2>6. PathInv(w)'
    BY <1>4, <2>1, <2>3 DEF S3!Upload, WorkerInv, PathInv
  <2> QED BY <2>3, <2>4, <2>5, <2>6 DEF S3!Upload, WorkerInv
<1> QED BY <1>3, <1>5, <1>6 DEF CacheInv

LEMMA BucketStep ==
  ASSUME CacheInv, (\E k \in S3!Keys : S3!Remove(k)) \/ S3!Tick \/ UNCHANGED S3!vars
  PROVE  CacheInv'
<1> USE DEF CacheInv, S3!TypeOK, SeenInv, WorkerInv, EntryInv, PartInv, PathInv
<1>1. CASE \E k \in S3!Keys : S3!Remove(k)
  BY <1>1 DEF S3!Remove
<1>2. CASE S3!Tick
  BY <1>2 DEF S3!Tick
<1>3. CASE UNCHANGED S3!vars
  BY <1>3 DEF S3!vars, S3!bucket
<1> QED BY <1>1, <1>2, <1>3

LEMMA InitCacheInv == S3!Init => CacheInv
  BY DEF S3!Init, CacheInv, S3!TypeOK, SeenInv, WorkerInv, EntryInv, PartInv, PathInv, S3!Stages

LEMMA NextCacheInv ==
  ASSUME SizesTellApart, CacheInv, [S3!Next]_(S3!vars)
  PROVE  CacheInv'
<1>1. ASSUME NEW w \in Callers, S3!Work(w) \/ S3!Fail(w) PROVE CacheInv'
  BY <1>1, ListObjectsStep, SkipStep, GetStep, LandStep, GiveUpStep
     DEF S3!Work, S3!Fail, S3!Gone, S3!Return
<1>2. ASSUME NEW k \in S3!Keys, NEW c \in Contents, S3!Upload(k, c) PROVE CacheInv'
  BY <1>2, UploadStep
<1> QED BY <1>1, <1>2, BucketStep DEF S3!Next

-----------------------------------------------------------------------------
(* The theorems                                                            *)

\* The invariant: a call at work has seen what it listed, what it downloads
\* and what it returns.
THEOREM SharedCache == SizesTellApart /\ S3!Spec => []CacheInv
<1> SUFFICES ASSUME SizesTellApart PROVE S3!Spec => []CacheInv
  OBVIOUS
<1>1. S3!Init => CacheInv
  BY InitCacheInv
<1>2. CacheInv /\ [S3!Next]_(S3!vars) => CacheInv'
  BY NextCacheInv
<1> QED BY <1>1, <1>2, PTL DEF S3!Spec

\* Whatever calls, downloads and uploads overlap, the paths list_files returns
\* hold nothing older than its listing or that of a call it overlapped
\* (S3Source.list_files, s3.py:83-118).
THEOREM Freshness == SizesTellApart /\ S3!Spec => []FreshListing
<1>1. CacheInv => FreshListing
  BY DEF CacheInv, S3!TypeOK, S3!Keys, WorkerInv, PathInv, FreshListing, Cached, Keys
<1> QED BY <1>1, SharedCache, PTL
=============================================================================
