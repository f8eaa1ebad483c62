-------------------------- MODULE DocIndexesProofs --------------------------
(***************************************************************************)
(* The document indexes, for every set of documents, every heading, every  *)
(* way git's answer splits into paths and any number of disturbances.      *)
(***************************************************************************)
EXTENDS DocIndexes, FiniteSetTheorems, SequenceTheorems, TLAPS

RootText == root_index(Listed)
DocsText == docs_index(Listed)

RootRight == disk[RootPath] = RootText
DocsRight == disk[DocsPath] = DocsText

RootTarget == [path |-> RootPath, text |-> RootText]
DocsTarget == [path |-> DocsPath, text |-> DocsText]

(* What a text says, except for the title of docs/INDEX.md.                *)
Others(text) == {e \in text.entries : e[1] # DocsPath}
Keys(text)   == {e[1] : e \in text.entries}

RootAlmost ==
  /\ "groups" \in DOMAIN disk[RootPath]
  /\ disk[RootPath].groups = RootText.groups
  /\ Others(disk[RootPath]) = Others(RootText)
  /\ Keys(disk[RootPath]) = Keys(RootText)

-----------------------------------------------------------------------------
(* What TypeOK says, with the part of a run's memory in use at each step.  *)
DiskOK ==
  /\ disk = [f \in Files |-> disk[f]]
  /\ \A f \in Files : disk[f] \in Contents(f)

TargetSet == [path : Indexes, text : IndexText]

InMemory ==
  /\ pc \in Resting \cup {"tracked", "root", "docs", "compare", "open", "write"}
  /\ pc \in Resting \cup {"tracked", "root"} => targets = <<>> /\ changed = 0
  /\ pc = "docs" => Len(targets) = 1 /\ changed = 0
  /\ pc = "compare" => changed + Len(targets) <= 2
  /\ pc \in {"open", "write"} =>
       ~check /\ targets # <<>> /\ changed + Len(targets) <= 3

Shape ==
  /\ DiskOK
  /\ tracked \subseteq Files
  /\ known \subseteq Paths
  /\ targets \in Seq(TargetSet)
  /\ changed \in Nat
  /\ disturbances \in 0 .. MaxDisturbances
  /\ calm \in 0 .. 2
  /\ InMemory

(* A run nobody interferes with works on the documents as they are.        *)
RunIsCurrent ==
  clean =>
    /\ pc \in {"root", "docs", "compare", "open", "write"} => known = Listed
    /\ pc = "docs" => targets = <<RootTarget>>
    /\ pc \in {"compare", "open", "write"} =>
         targets \in {<<RootTarget, DocsTarget>>, <<DocsTarget>>, <<>>}
    /\ pc \in {"open", "write"} => Differs

(* What --check has counted, and what its exit code says of it.            *)
CheckCounts ==
  clean /\ check =>
    /\ pc = "compare" /\ targets = <<DocsTarget>> => (changed = 0 <=> RootRight)
    /\ pc = "compare" /\ targets = <<>> => (changed = 0 <=> Settled)
    /\ pc \in Resting => (pc = "exit 0" <=> Settled)

(* What a rebuild has put right so far: INDEX.md is right until the title  *)
(* it was given for docs/INDEX.md is overwritten.                          *)
RebuildWrote ==
  clean /\ ~check =>
    /\ pc \in {"compare", "open"} /\ targets = <<DocsTarget>> => RootRight
    /\ pc = "write" /\ targets = <<DocsTarget>> => RootAlmost
    /\ pc \in Resting \/ (pc = "compare" /\ targets = <<>>) => RootAlmost /\ DocsRight

(* What whole rebuilds have left behind for the next ones.                 *)
CalmSettles ==
  /\ ~clean => calm = 0
  /\ calm >= 1 => DocsRight /\ (RootAlmost \/ pc = "write")
  /\ calm >= 1 /\ ~check /\ pc = "compare" /\ targets \in {<<DocsTarget>>, <<>>} => RootRight
  /\ calm = 2 => RootRight

IInv == RunIsCurrent /\ CheckCounts /\ RebuildWrote /\ CalmSettles

-----------------------------------------------------------------------------
(* The two indexes are different files.                                    *)
LEMMA TwoIndexes ==
  /\ RootPath # DocsPath /\ RootPath \in Files /\ DocsPath \in Files
  /\ Cardinality(Indexes) = 2
<1>1. Len(RootPath) = 1 /\ Len(DocsPath) = 2
  BY DEF RootPath, DocsPath
<1>2. RootPath # DocsPath
  BY <1>1
<1>3. /\ IsFiniteSet({RootPath}) /\ Cardinality({RootPath}) = 1
  BY FS_Singleton
<1>4. Indexes = {RootPath} \cup {DocsPath} /\ DocsPath \notin {RootPath}
  BY <1>2 DEF Indexes
<1>5. Cardinality(Indexes) = 2
  BY <1>3, <1>4, FS_AddElement
<1> QED BY <1>2, <1>5 DEF Files, Indexes

(* A run works on pieces of what git lists.                                *)
LEMMA ListedType == tracked \subseteq Files => Listed \subseteq Paths
BY DEF Listed, Paths

(* Whatever a file contains, its title is a heading, an index's or a name. *)
LEMMA TitleType ==
  ASSUME \A f \in Files : disk[f] \in Contents(f), NEW p \in Paths
  PROVE  title(p) \in Titles
<1>1. CASE p \in Files /\ "title" \in DOMAIN disk[p]
  <2>1. disk[p] \in Contents(p) /\ title(p) = disk[p].title
    BY <1>1 DEF title
  <2>2. CASE disk[p] \in [state : {"missing", "empty"}]
    BY <1>1, <2>2
  <2>3. CASE disk[p] \in [title : Headings]
    BY <2>1, <2>3 DEF Titles
  <2>4. CASE disk[p] \in IndexText
    BY <2>1, <2>4 DEF IndexText, Titles
  <2> QED BY <2>1, <2>2, <2>3, <2>4 DEF Contents
<1>2. CASE ~(p \in Files /\ "title" \in DOMAIN disk[p])
  BY <1>2 DEF title, Titles
<1> QED BY <1>1, <1>2

(* Both texts are texts.                                                   *)
LEMMA TextTypes ==
  ASSUME \A f \in Files : disk[f] \in Contents(f), NEW paths \in SUBSET Paths
  PROVE  root_index(paths) \in IndexText /\ docs_index(paths) \in IndexText
<1>1. \A ks \in SUBSET paths : Titled(ks) \in Listings
  BY TitleType DEF Titled, Listings
<1>2. root_index(paths) \in IndexText
  <2> DEFINE G == {Group(k) : k \in paths}
             E == Titled(paths \ {RootPath})
  <2>1. G \in SUBSET {Group(k) : k \in Paths} /\ E \in Listings
    BY <1>1
  <2>2. root_index(paths) = [title |-> RootTitle, groups |-> G, entries |-> E]
    BY DEF root_index
  <2> HIDE DEF G, E
  <2> QED BY <2>1, <2>2 DEF IndexText
<1>3. docs_index(paths) \in IndexText
  <2> DEFINE F == FolderReadmes(paths)
             below == Direct(paths) \cup (Nested(paths) \ FolderReadmes(paths))
             E == Titled(below)
  <2>1. F \in SUBSET Paths /\ below \in SUBSET paths
    BY DEF Direct, FolderReadmes, Nested
  <2>2. E \in Listings
    <3> HIDE DEF below
    <3> QED BY <1>1, <2>1
  <2>3. docs_index(paths) = [title |-> DocsTitle, folders |-> F, entries |-> E]
    BY DEF docs_index
  <2> HIDE DEF F, E
  <2> QED BY <2>1, <2>2, <2>3 DEF IndexText
<1> QED BY <1>2, <1>3

(* Shape is the type invariant of DocIndexes and more.                     *)
LEMMA ShapeIsTypeOK == Shape => TypeOK
<1> SUFFICES ASSUME Shape PROVE TypeOK
  OBVIOUS
<1>1. Len(targets) \in Nat /\ (targets # <<>> => Len(targets) >= 1)
  BY EmptySeq DEF Shape
<1>2. changed \in 0 .. 2
  <2>1. changed \in Nat
    BY DEF Shape
  <2>2. \/ pc \in Resting \cup {"tracked", "root"} \/ pc = "docs"
        \/ pc = "compare" \/ pc \in {"open", "write"}
    BY DEF Shape, InMemory
  <2>3. changed <= 2
    BY <1>1, <2>1, <2>2 DEF Shape, InMemory
  <2> QED BY <2>1, <2>3
<1>3. \A k \in DOMAIN targets : targets[k] \in TargetSet
  BY LenProperties, ElementOfSeq DEF Shape
<1>4. \A k \in DOMAIN targets : targets[k].path \in Indexes /\ targets[k].text \in IndexText
  BY <1>3 DEF TargetSet
<1> QED BY <1>2, <1>4, TwoIndexes DEF Shape, DiskOK, InMemory, TypeOK

(* A file gets contents it can have.                                       *)
LEMMA DiskWrite ==
  ASSUME DiskOK, NEW f \in Files, NEW c \in Contents(f), disk' = [disk EXCEPT ![f] = c]
  PROVE  DiskOK'
BY DEF DiskOK

(* Files that are not touched keep contents they can have.                 *)
LEMMA DiskKept == DiskOK /\ disk' = disk => DiskOK'
BY DEF DiskOK

(* The first text that waits, and the others.                              *)
LEMMA TargetShape ==
  ASSUME targets \in Seq(TargetSet), targets # <<>>
  PROVE  /\ target.path \in Indexes /\ target.path \in Files
         /\ target.text \in Contents(target.path) /\ Empty \in Contents(target.path)
         /\ Tail(targets) \in Seq(TargetSet)
         /\ Len(targets) \in Nat \ {0} /\ Len(Tail(targets)) = Len(targets) - 1
<1>1. /\ target \in TargetSet /\ Tail(targets) \in Seq(TargetSet)
      /\ Len(Tail(targets)) = Len(targets) - 1
  BY HeadTailProperties DEF target
<1>2. Len(targets) \in Nat \ {0}
  BY EmptySeq
<1>3. target.path \in Indexes /\ target.text \in IndexText
  BY <1>1 DEF TargetSet
<1>4. Empty \in [state : {"missing", "empty"}]
  BY DEF Empty
<1> QED BY <1>1, <1>2, <1>3, <1>4 DEF Files, Contents

(* What an interference changes besides the thing interfered with.         *)
LEMMA InterfereShape ==
  ASSUME disturbances \in 0 .. MaxDisturbances, Interfere
  PROVE  disturbances' \in 0 .. MaxDisturbances /\ calm' = 0 /\ clean' = FALSE
<1>1. MaxDisturbances \in Nat
  BY DocIndexesAssumption
<1> QED BY <1>1 DEF Interfere

-----------------------------------------------------------------------------
(* The script has not run yet, the documents have headings.                *)
LEMMA InitShape == Init => Shape
<1> SUFFICES ASSUME Init PROVE Shape
  OBVIOUS
<1>1. PICK h \in Headings :
        disk = [f \in Files |-> IF f \in Documents THEN Document(h) ELSE Missing]
  BY DEF Init
<1>2. Document(h) \in [title : Headings] /\ Missing \in [state : {"missing", "empty"}]
  BY DEF Document, Missing
<1>3. DiskOK
  BY <1>1, <1>2 DEF DiskOK, Contents
<1>4. MaxDisturbances \in Nat
  BY DocIndexesAssumption
<1>5. tracked \subseteq Files /\ known \subseteq Paths
  BY DEF Init, Files
<1>6. targets \in Seq(TargetSet)
  BY EmptySeq DEF Init
<1>7. InMemory
  BY DEF Init, InMemory, Resting
<1>8. changed = 0 /\ disturbances = 0 /\ calm = 0
  BY DEF Init
<1>9. changed \in Nat /\ disturbances \in 0 .. MaxDisturbances /\ calm \in 0 .. 2
  BY <1>4, <1>8
<1> QED BY <1>3, <1>5, <1>6, <1>7, <1>9 DEF Shape

(* No step of the script, of an author or of git breaks the shape.         *)
LEMMA NextShape == Shape /\ [Next]_vars => Shape'
<1> SUFFICES ASSUME Shape, [Next]_vars PROVE Shape'
  OBVIOUS
<1>1. CASE Start
  <2>1. UNCHANGED <<disk, tracked, known, targets, changed, disturbances, calm>>
        /\ pc \in Resting /\ pc' = "tracked"
    BY <1>1 DEF Start
  <2>2. InMemory'
    BY <2>1 DEF Shape, InMemory, Resting
  <2> QED BY <2>1, <2>2, DiskKept DEF Shape
<1>2. CASE ListTracked
  <2>1. UNCHANGED <<disk, tracked, check, targets, changed>> /\ pc = "tracked" /\ pc' = "root"
    BY <1>2 DEF ListTracked
  <2>2. known' \subseteq Paths
    <3>1. known' = Listed \/ known' = {}
      BY <1>2 DEF ListTracked
    <3> QED BY <3>1, ListedType DEF Shape
  <2>3. disturbances' \in 0 .. MaxDisturbances /\ calm' \in 0 .. 2
    <3>1. UNCHANGED ghosts \/ Interfere
      BY <1>2 DEF ListTracked
    <3>2. disturbances \in 0 .. MaxDisturbances /\ calm \in 0 .. 2
      BY DEF Shape
    <3>3. CASE UNCHANGED ghosts
      BY <3>2, <3>3 DEF ghosts
    <3>4. CASE Interfere
      BY <3>2, <3>4, InterfereShape
    <3> QED BY <3>1, <3>3, <3>4
  <2>4. InMemory'
    BY <2>1, <2>2, <2>3 DEF Shape, InMemory, Resting
  <2> QED BY <2>1, <2>2, <2>3, <2>4, DiskKept DEF Shape
<1>3. CASE BuildRoot
  <2>1. /\ UNCHANGED <<disk, tracked, check, known, changed, disturbances, calm>>
        /\ pc = "root" /\ pc' = "docs"
        /\ targets' = <<[path |-> RootPath, text |-> root_index(known)]>>
    BY <1>3 DEF BuildRoot, ghosts
  <2>2. [path |-> RootPath, text |-> root_index(known)] \in TargetSet
    BY TextTypes DEF Shape, DiskOK, TargetSet, Indexes
  <2>3. targets' \in Seq(TargetSet) /\ Len(targets') = 1
    BY <2>1, <2>2
  <2>4. InMemory'
    BY <2>1, <2>3 DEF Shape, InMemory, Resting
  <2> QED BY <2>1, <2>3, <2>4, DiskKept DEF Shape
<1>4. CASE BuildDocs
  <2> DEFINE t == [path |-> DocsPath, text |-> docs_index(known)]
  <2>1. /\ UNCHANGED <<disk, tracked, check, known, changed, disturbances, calm>>
        /\ pc = "docs" /\ pc' = "compare"
        /\ targets' = Append(targets, t)
    BY <1>4 DEF BuildDocs, ghosts
  <2>2. t \in TargetSet
    BY TextTypes DEF Shape, DiskOK, TargetSet, Indexes
  <2> HIDE DEF t
  <2>3. targets' \in Seq(TargetSet) /\ Len(targets') = Len(targets) + 1
    BY <2>1, <2>2 DEF Shape
  <2>4. changed = 0 /\ Len(targets) = 1
    BY <2>1 DEF Shape, InMemory
  <2>5. changed' + Len(targets') <= 2 /\ pc' = "compare"
    BY <2>1, <2>3, <2>4
  <2>6. InMemory'
    BY <2>5 DEF InMemory, Resting
  <2> QED BY <2>1, <2>3, <2>6, DiskKept DEF Shape
<1>5. CASE Compare
  <2>1. /\ UNCHANGED <<disk, tracked, check, known, disturbances, calm>>
        /\ pc = "compare" /\ targets # <<>>
        /\ changed' = IF Differs THEN changed + 1 ELSE changed
        /\ \/ ~check /\ pc' = "open" /\ targets' = targets
           \/ pc' = "compare" /\ targets' = Tail(targets)
    BY <1>5 DEF Compare, ghosts
  <2>2. changed' \in Nat /\ changed' <= changed + 1
    BY <2>1 DEF Shape
  <2>3. changed + Len(targets) <= 2 /\ changed \in Nat
        /\ Len(targets) \in Nat /\ Len(Tail(targets)) = Len(targets) - 1
        /\ targets \in Seq(TargetSet) /\ Tail(targets) \in Seq(TargetSet)
    BY <2>1, TargetShape DEF Shape, InMemory
  <2>4. InMemory'
    <3>1. CASE ~check /\ pc' = "open" /\ targets' = targets
      BY <2>1, <2>2, <2>3, <3>1 DEF InMemory, Resting
    <3>2. CASE pc' = "compare" /\ targets' = Tail(targets)
      <4>1. changed' + Len(targets') <= 2
        BY <2>2, <2>3, <3>2
      <4> QED BY <3>2, <4>1 DEF InMemory, Resting
    <3> QED BY <2>1, <3>1, <3>2
  <2> QED BY <2>1, <2>2, <2>3, <2>4, DiskKept DEF Shape
<1>6. CASE Open
  <2>1. /\ UNCHANGED <<tracked, check, known, targets, changed, disturbances, calm>>
        /\ disk' = [disk EXCEPT ![target.path] = Empty]
        /\ pc = "open" /\ pc' = "write"
    BY <1>6 DEF Open, ghosts
  <2>2. targets # <<>> /\ targets \in Seq(TargetSet) /\ DiskOK
    BY <2>1 DEF Shape, InMemory
  <2>3. DiskOK'
    BY <2>1, <2>2, TargetShape, DiskWrite
  <2>4. InMemory'
    BY <2>1, <2>2, <2>3 DEF Shape, InMemory, Resting
  <2> QED BY <2>1, <2>2, <2>3, <2>4 DEF Shape
<1>7. CASE Write
  <2>1. /\ UNCHANGED <<tracked, check, known, changed, disturbances, calm>>
        /\ disk' = [disk EXCEPT ![target.path] = target.text]
        /\ pc = "write" /\ pc' = "compare" /\ targets' = Tail(targets)
    BY <1>7 DEF Write, ghosts
  <2>2. targets # <<>> /\ targets \in Seq(TargetSet) /\ DiskOK /\ changed + Len(targets) <= 3
    BY <2>1 DEF Shape, InMemory
  <2>3. DiskOK'
    BY <2>1, <2>2, TargetShape, DiskWrite
  <2>4. targets' \in Seq(TargetSet) /\ changed' + Len(targets') <= 2
    BY <2>1, <2>2, TargetShape DEF Shape
  <2>5. InMemory'
    BY <2>1, <2>3, <2>4 DEF Shape, InMemory, Resting
  <2> QED BY <2>1, <2>3, <2>4, <2>5 DEF Shape
<1>8. CASE Finish
  <2>1. /\ UNCHANGED <<disk, tracked, disturbances>>
        /\ pc' \in Resting /\ known' = {} /\ targets' = <<>> /\ changed' = 0
        /\ calm' = IF ~check /\ clean /\ calm < 2 THEN calm + 1 ELSE calm
    BY <1>8 DEF Finish, Forget, ExitCode, Resting
  <2>2. calm' \in 0 .. 2
    BY <2>1 DEF Shape
  <2>3. targets' \in Seq(TargetSet)
    BY <2>1
  <2>4. InMemory'
    BY <2>1, <2>2, <2>3 DEF Shape, InMemory, Resting
  <2> QED BY <2>1, <2>2, <2>3, <2>4, DiskKept DEF Shape
<1>9. CASE Kill
  <2>1. /\ UNCHANGED <<disk, tracked>> /\ Interfere
        /\ pc' \in Resting /\ known' = {} /\ targets' = <<>> /\ changed' = 0
    BY <1>9 DEF Kill, Forget, Resting
  <2>2. targets' \in Seq(TargetSet)
    BY <2>1
  <2>3. InMemory'
    BY <2>1, <2>2 DEF Shape, InMemory, Resting
  <2>4. disturbances' \in 0 .. MaxDisturbances /\ calm' \in 0 .. 2
    BY <2>1, InterfereShape DEF Shape
  <2> QED BY <2>1, <2>2, <2>3, DiskKept, <2>4 DEF Shape
<1>10. CASE Edit
  <2>1. /\ UNCHANGED <<tracked, pc, check, known, targets, changed>> /\ Interfere
    BY <1>10 DEF Edit, script
  <2>2. PICK f \in Files, c \in {Document(h) : h \in Headings} \cup {Empty, Missing} :
          disk' = [disk EXCEPT ![f] = c]
    BY <1>10 DEF Edit
  <2>3. c \in Contents(f)
    <3>1. \A h \in Headings : Document(h) \in [title : Headings]
      BY DEF Document
    <3>2. Empty \in [state : {"missing", "empty"}] /\ Missing \in [state : {"missing", "empty"}]
      BY DEF Empty, Missing
    <3> QED BY <3>1, <3>2 DEF Contents
  <2>4. DiskOK'
    BY <2>2, <2>3, DiskWrite DEF Shape
  <2>5. InMemory'
    BY <2>1, <2>4 DEF Shape, InMemory, Resting
  <2>6. disturbances' \in 0 .. MaxDisturbances /\ calm' \in 0 .. 2
    BY <2>1, InterfereShape DEF Shape
  <2> QED BY <2>1, <2>4, <2>5, <2>6 DEF Shape
<1>11. CASE Track
  <2>1. UNCHANGED <<disk, pc, check, known, targets, changed>> /\ Interfere
    BY <1>11 DEF Track, script
  <2>2. tracked' \subseteq Files
    BY <1>11 DEF Track, Shape
  <2>3. InMemory'
    BY <2>1, <2>2 DEF Shape, InMemory, Resting
  <2>4. disturbances' \in 0 .. MaxDisturbances /\ calm' \in 0 .. 2
    BY <2>1, InterfereShape DEF Shape
  <2> QED BY <2>1, <2>2, <2>3, DiskKept, <2>4 DEF Shape
<1>12. CASE UNCHANGED vars
  BY <1>12 DEF vars, Shape, DiskOK, InMemory, Resting
<1> QED BY <1>1, <1>2, <1>3, <1>4, <1>5, <1>6, <1>7, <1>8, <1>9, <1>10, <1>11, <1>12
        DEF Next, Run

(***************************************************************************)
(* Type correctness: among it that a run never counts more changes than    *)
(* there are indexes (build_doc_indexes.py, 119-128).                      *)
(***************************************************************************)
THEOREM DocIndexesTypeCorrect == Spec => []TypeOK
<1>1. Spec => []Shape
  BY InitShape, NextShape, PTL DEF Spec
<1> QED BY <1>1, ShapeIsTypeOK, PTL

-----------------------------------------------------------------------------
(* What the two texts are made of: INDEX.md is not read for either, and    *)
(* docs/INDEX.md only for its title in INDEX.md.                           *)
LEMMA TitleReads ==
  ASSUME \A f \in Documents : disk'[f] = disk[f], NEW p, p \notin Indexes
  PROVE  title(p)' = title(p)
BY DEF title, Files

(* Neither index is listed with a title in docs/INDEX.md.                  *)
LEMMA DocsReads ==
  ASSUME NEW paths PROVE Direct(paths) \cup Nested(paths) \subseteq paths \ Indexes
<1>1. Len(RootPath) = 1 /\ Len(DocsPath) = 2 /\ DocsPath[2] = "INDEX.md"
  BY DEF RootPath, DocsPath
<1>2. ASSUME NEW k \in Direct(paths) PROVE k \in paths \ Indexes
  <2>1. k \in paths /\ Len(k) = 2 /\ k[2] # "INDEX.md"
    BY <1>2 DEF Direct
  <2>2. k # RootPath
    BY <1>1, <2>1
  <2>3. k # DocsPath
    BY <1>1, <2>1
  <2> QED BY <2>1, <2>2, <2>3 DEF Indexes
<1>3. ASSUME NEW k \in Nested(paths) PROVE k \in paths \ Indexes
  <2>1. k \in paths /\ Len(k) > 2
    BY <1>3 DEF Nested
  <2>2. ~(1 > 2) /\ ~(2 > 2)
    OBVIOUS
  <2>3. k # RootPath /\ k # DocsPath
    BY ONLY <1>1, <2>1, <2>2, Zenon
  <2> QED BY <2>1, <2>3 DEF Indexes
<1> QED BY <1>2, <1>3

(* The documents and git's list determine the texts up to that title.      *)
LEMMA TextsRead ==
  ASSUME tracked' = tracked, \A f \in Documents : disk'[f] = disk[f]
  PROVE  /\ Listed' = Listed
         /\ DocsText' = DocsText
         /\ RootText'.groups = RootText.groups
         /\ Others(RootText)' = Others(RootText)
         /\ Keys(RootText)' = Keys(RootText)
         /\ disk'[DocsPath] = disk[DocsPath] => RootText' = RootText
<1>1. Listed' = Listed
  BY DEF Listed
<1>2. \A p : p \notin Indexes => title(p)' = title(p)
  BY TitleReads
<1>3. DocsText' = DocsText
  <2> DEFINE below == Direct(Listed) \cup (Nested(Listed) \ FolderReadmes(Listed))
  <2>1. \A k \in below : k \notin Indexes
    BY DocsReads
  <2>2. {<<k, title(k)'>> : k \in below} = {<<k, title(k)>> : k \in below}
    BY <1>2, <2>1
  <2>3. DocsText = [title |-> DocsTitle, folders |-> FolderReadmes(Listed),
                    entries |-> {<<k, title(k)>> : k \in below}]
    BY DEF DocsText, docs_index, Titled
  <2>4. DocsText' = [title |-> DocsTitle, folders |-> FolderReadmes(Listed),
                     entries |-> {<<k, title(k)'>> : k \in below}]
    BY <1>1 DEF DocsText, docs_index, Titled
  <2> QED BY <2>2, <2>3, <2>4
<1> DEFINE listed == Listed \ {RootPath}
<1>4. /\ RootText  = [title |-> RootTitle, groups |-> {Group(k) : k \in Listed},
                      entries |-> {<<k, title(k)>> : k \in listed}]
      /\ RootText' = [title |-> RootTitle, groups |-> {Group(k) : k \in Listed},
                      entries |-> {<<k, title(k)'>> : k \in listed}]
  BY <1>1 DEF RootText, root_index, Titled
<1>5. RootText'.groups = RootText.groups
  BY <1>4
<1>6. /\ Others(RootText) = {<<k, title(k)>> : k \in listed \ {DocsPath}}
      /\ Others(RootText)' = {<<k, title(k)'>> : k \in listed \ {DocsPath}}
  BY <1>4 DEF Others
<1>7. Others(RootText)' = Others(RootText)
  <2>1. \A k \in listed \ {DocsPath} : k \notin Indexes
    BY DEF Indexes
  <2> QED BY <1>2, <1>6, <2>1
<1>8. Keys(RootText)' = Keys(RootText)
  <2>1. \A x : x \in Keys(RootText) <=> \E k \in listed : x = <<k, title(k)>>[1]
    BY <1>4 DEF Keys
  <2>2. \A x : x \in Keys(RootText)' <=> \E k \in listed : x = <<k, title(k)'>>[1]
    BY <1>4 DEF Keys
  <2>3. \A k \in listed : <<k, title(k)>>[1] = k /\ <<k, title(k)'>>[1] = k
    OBVIOUS
  <2> QED BY <2>1, <2>2, <2>3
<1>9. ASSUME disk'[DocsPath] = disk[DocsPath] PROVE RootText' = RootText
  <2>1. title(DocsPath)' = title(DocsPath)
    BY <1>9 DEF title
  <2>2. \A k \in listed : title(k)' = title(k)
    BY <1>2, <2>1 DEF Indexes
  <2>3. {<<k, title(k)'>> : k \in listed} = {<<k, title(k)>> : k \in listed}
    BY <2>2
  <2> QED BY <1>4, <2>3
<1> QED BY <1>1, <1>3, <1>5, <1>7, <1>8, <1>9

(* Settled, index by index.                                                *)
LEMMA SettledIsBoth == Settled <=> RootRight /\ DocsRight
BY DEF Settled, RootRight, DocsRight, RootText, DocsText

(* A step that touches no file and no name leaves every text as it was.    *)
LEMMA TextsKept ==
  ASSUME disk' = disk, tracked' = tracked
  PROVE  /\ Listed' = Listed /\ RootText' = RootText /\ DocsText' = DocsText
         /\ RootTarget' = RootTarget /\ DocsTarget' = DocsTarget
         /\ RootRight' <=> RootRight
         /\ DocsRight' <=> DocsRight
         /\ RootAlmost' <=> RootAlmost
         /\ Settled' <=> Settled
<1>1. Listed' = Listed /\ RootText' = RootText /\ DocsText' = DocsText
  BY TextsRead
<1>2. Others(RootText)' = Others(RootText) /\ Keys(RootText)' = Keys(RootText)
      /\ Others(disk[RootPath])' = Others(disk[RootPath])
      /\ Keys(disk[RootPath])' = Keys(disk[RootPath])
  BY <1>1 DEF Others, Keys
<1>3. (RootRight' <=> RootRight) /\ (DocsRight' <=> DocsRight)
  BY <1>1 DEF RootRight, DocsRight
<1>4. RootAlmost' <=> RootAlmost
  BY <1>1, <1>2 DEF RootAlmost
<1>5. Settled' <=> Settled
  BY <1>3, SettledIsBoth, PTL
<1> QED BY <1>1, <1>3, <1>4, <1>5 DEF RootTarget, DocsTarget

(* INDEX.md that is right is right up to the one title.                    *)
LEMMA RightIsAlmost == RootRight => RootAlmost
<1>1. "groups" \in DOMAIN RootText
  BY DEF RootText, root_index
<1> QED BY <1>1 DEF RootRight, RootAlmost

(* A file that is being written has none of the two texts.                 *)
LEMMA EmptyIsNoText == Empty # RootText /\ Empty # DocsText
<1>1. "state" \in DOMAIN Empty
  BY DEF Empty
<1>2. "state" \notin DOMAIN RootText /\ "state" \notin DOMAIN DocsText
  BY DEF RootText, DocsText, root_index, docs_index
<1> QED BY <1>1, <1>2

(* Two texts wait, or the second, or none.                                 *)
LEMMA WaitingTargets ==
  /\ Head(<<RootTarget, DocsTarget>>) = RootTarget
  /\ Tail(<<RootTarget, DocsTarget>>) = <<DocsTarget>>
  /\ Head(<<DocsTarget>>) = DocsTarget /\ Tail(<<DocsTarget>>) = <<>>
  /\ <<RootTarget, DocsTarget>> # <<DocsTarget>>
  /\ <<RootTarget, DocsTarget>> # <<>> /\ <<DocsTarget>> # <<>>
  /\ RootTarget.path = RootPath /\ RootTarget.text = RootText
  /\ DocsTarget.path = DocsPath /\ DocsTarget.text = DocsText
<1>1. /\ RootTarget.path = RootPath /\ RootTarget.text = RootText
      /\ DocsTarget.path = DocsPath /\ DocsTarget.text = DocsText
  BY DEF RootTarget, DocsTarget
<1>2. \A a, b : /\ Head(<<a, b>>) = a /\ Tail(<<a, b>>) = <<b>>
                /\ Head(<<b>>) = b /\ Tail(<<b>>) = <<>>
                /\ Len(<<a, b>>) = 2 /\ Len(<<b>>) = 1 /\ Len(<<>>) = 0
  OBVIOUS
<1>3. Len(<<RootTarget, DocsTarget>>) = 2 /\ Len(<<DocsTarget>>) = 1 /\ Len(<<>>) = 0
  BY <1>2
<1> QED BY <1>1, <1>2, <1>3

(* A write to INDEX.md changes neither text.                               *)
LEMMA RootWritten ==
  ASSUME DiskOK, NEW c, disk' = [disk EXCEPT ![RootPath] = c], tracked' = tracked
  PROVE  /\ disk'[RootPath] = c /\ disk'[DocsPath] = disk[DocsPath]
         /\ Listed' = Listed /\ RootText' = RootText /\ DocsText' = DocsText
         /\ RootTarget' = RootTarget /\ DocsTarget' = DocsTarget
         /\ RootRight' <=> c = RootText
         /\ DocsRight' <=> DocsRight
<1>1. disk'[RootPath] = c /\ \A f \in Files \ {RootPath} : disk'[f] = disk[f]
  BY TwoIndexes DEF DiskOK
<1>2. \A f \in Documents : disk'[f] = disk[f]
  BY <1>1, DocIndexesAssumption DEF Files, Indexes
<1>3. disk'[DocsPath] = disk[DocsPath]
  BY <1>1, TwoIndexes
<1>4. Listed' = Listed /\ RootText' = RootText /\ DocsText' = DocsText
  BY <1>2, <1>3, TextsRead
<1> QED BY <1>1, <1>3, <1>4 DEF RootTarget, DocsTarget, RootRight, DocsRight

(* A write to docs/INDEX.md changes its title in the text of INDEX.md.     *)
LEMMA DocsWritten ==
  ASSUME DiskOK, NEW c, disk' = [disk EXCEPT ![DocsPath] = c], tracked' = tracked
  PROVE  /\ disk'[DocsPath] = c /\ disk'[RootPath] = disk[RootPath]
         /\ Listed' = Listed /\ DocsText' = DocsText /\ DocsTarget' = DocsTarget
         /\ DocsRight' <=> c = DocsText
         /\ RootAlmost' <=> RootAlmost
<1>1. disk'[DocsPath] = c /\ \A f \in Files \ {DocsPath} : disk'[f] = disk[f]
  BY TwoIndexes DEF DiskOK
<1>2. \A f \in Documents : disk'[f] = disk[f]
  BY <1>1, DocIndexesAssumption DEF Files, Indexes
<1>3. disk'[RootPath] = disk[RootPath]
  BY <1>1, TwoIndexes
<1>4. /\ Listed' = Listed /\ DocsText' = DocsText /\ RootText'.groups = RootText.groups
      /\ Others(RootText)' = Others(RootText) /\ Keys(RootText)' = Keys(RootText)
  BY <1>2, TextsRead
<1>5. Others(disk[RootPath])' = Others(disk[RootPath]) /\ Keys(disk[RootPath])' = Keys(disk[RootPath])
  BY <1>3 DEF Others, Keys
<1> QED BY <1>1, <1>3, <1>4, <1>5 DEF DocsTarget, DocsRight, RootAlmost

-----------------------------------------------------------------------------
(* Before the first run nothing is claimed.                                *)
LEMMA InitIInv == Init => IInv
<1> SUFFICES ASSUME Init PROVE IInv
  OBVIOUS
<1>1. ~clean /\ calm = 0
  BY DEF Init
<1>2. ~(calm >= 1) /\ calm # 2
  BY <1>1
<1> QED BY ONLY <1>1, <1>2, Zenon DEF IInv, RunIsCurrent, CheckCounts, RebuildWrote, CalmSettles

(* After an interference nothing is claimed until the next run.            *)
LEMMA InterferenceForgets ==
  ASSUME ~clean', calm' = 0
  PROVE  IInv'
<1>1. ~clean' /\ calm' = 0
  OBVIOUS
<1>2. ~(calm' >= 1) /\ calm' # 2
  BY <1>1
<1> QED BY ONLY <1>1, <1>2, Zenon DEF IInv, RunIsCurrent, CheckCounts, RebuildWrote, CalmSettles

(* The second text joins the first.                                        *)
LEMMA AppendToOne ==
  ASSUME NEW a, NEW b PROVE Append(<<a>>, b) = <<a, b>>
<1> DEFINE s == <<a>>  t == Append(s, b)
<1>1. s \in Seq({a, b}) /\ Len(s) = 1 /\ s[1] = a
  OBVIOUS
<1>2. t \in Seq({a, b}) /\ Len(t) = 2 /\ t[1] = a /\ t[2] = b
  <2>1. t \in Seq({a, b}) /\ Len(t) = Len(s) + 1
    OBVIOUS
  <2>2. t[Len(s) + 1] = b /\ \A k \in 1 .. Len(s) : t[k] = s[k]
    OBVIOUS
  <2> HIDE DEF s, t
  <2> QED BY <1>1, <2>1, <2>2
<1>3. <<a, b>> \in Seq({a, b}) /\ Len(<<a, b>>) = 2 /\ <<a, b>>[1] = a /\ <<a, b>>[2] = b
  OBVIOUS
<1> HIDE DEF t
<1>4. \A k \in 1 .. Len(t) : t[k] = <<a, b>>[k]
  BY <1>2, <1>3
<1>5. t = <<a, b>>
  BY <1>2, <1>3, <1>4, SeqEqual
<1> QED BY <1>5 DEF t

(* The steps that touch no file.                                           *)
LEMMA QuietSteps ==
  ASSUME Shape, IInv, Start \/ ListTracked \/ BuildRoot \/ BuildDocs
  PROVE  IInv'
<1>1. CASE Start
  <2>1. /\ UNCHANGED <<disk, tracked, targets, changed, calm>>
        /\ pc \in Resting /\ pc' = "tracked" /\ targets = <<>>
    BY <1>1 DEF Start, Shape, InMemory
  <2>2. (~clean => calm = 0) /\ (calm >= 1 => DocsRight /\ RootAlmost)
        /\ (calm = 2 => RootRight)
    BY <2>1 DEF IInv, CalmSettles, Resting
  <2>3. CalmSettles'
    BY <1>1, <2>1, <2>2, TextsKept DEF CalmSettles, Start
  <2> QED BY <2>1, <2>3 DEF IInv, RunIsCurrent, CheckCounts, RebuildWrote, Resting
<1>2. CASE ListTracked
  <2>1. /\ UNCHANGED <<disk, tracked, check, targets, changed>>
        /\ pc = "tracked" /\ pc' = "root"
        /\ (known' = Listed /\ UNCHANGED ghosts) \/ Interfere
    BY <1>2 DEF ListTracked
  <2>2. CASE Interfere
    BY <2>2, InterferenceForgets DEF Interfere
  <2>3. CASE known' = Listed /\ UNCHANGED ghosts
    <3>1. CalmSettles'
      BY <2>1, <2>3, TextsKept DEF IInv, CalmSettles, ghosts
    <3>2. RunIsCurrent'
      BY <2>1, <2>3, TextsKept DEF RunIsCurrent
    <3> QED BY <2>1, <3>1, <3>2 DEF IInv, CheckCounts, RebuildWrote, Resting
  <2> QED BY <2>1, <2>2, <2>3
<1>3. CASE BuildRoot
  <2>1. /\ UNCHANGED <<disk, tracked, check, known, clean, calm>>
        /\ pc = "root" /\ pc' = "docs"
        /\ targets' = <<[path |-> RootPath, text |-> root_index(known)]>>
    BY <1>3 DEF BuildRoot, ghosts
  <2>2. CalmSettles'
    BY <2>1, TextsKept DEF IInv, CalmSettles
  <2>3. clean => known = Listed /\ targets' = <<RootTarget>>
    BY <2>1 DEF IInv, RunIsCurrent, RootTarget, RootText
  <2>4. RunIsCurrent'
    BY <2>1, <2>3, TextsKept DEF RunIsCurrent
  <2> QED BY <2>1, <2>2, <2>4 DEF IInv, CheckCounts, RebuildWrote, Resting
<1>4. CASE BuildDocs
  <2>1. /\ UNCHANGED <<disk, tracked, check, known, clean, calm>>
        /\ pc = "docs" /\ pc' = "compare"
        /\ targets' = Append(targets, [path |-> DocsPath, text |-> docs_index(known)])
    BY <1>4 DEF BuildDocs, ghosts
  <2>2. clean => known = Listed /\ targets' = <<RootTarget, DocsTarget>>
    <3>1. \A a, b : Append(<<a>>, b) = <<a, b>>
      BY AppendToOne
    <3> QED BY <2>1, <3>1 DEF IInv, RunIsCurrent, DocsTarget, DocsText
  <2>3. /\ clean => targets' # <<DocsTarget>> /\ targets' # <<>>
    BY <2>2, WaitingTargets
  <2>4. RunIsCurrent'
    BY <2>1, <2>2, TextsKept DEF RunIsCurrent
  <2>5. CalmSettles'
    BY <2>1, <2>3, TextsKept DEF IInv, CalmSettles
  <2>6. CheckCounts' /\ RebuildWrote'
    BY <2>1, <2>3, TextsKept DEF CheckCounts, RebuildWrote, Resting
  <2> QED BY <2>4, <2>5, <2>6 DEF IInv
<1> QED BY <1>1, <1>2, <1>3, <1>4

(* The comparison counts a difference and, in a rebuild, begins to mend it. *)
LEMMA CompareStep ==
  ASSUME Shape, IInv, Compare
  PROVE  IInv'
<1>1. /\ UNCHANGED <<disk, tracked, check, known, clean, calm>>
      /\ pc = "compare" /\ targets # <<>>
      /\ changed' = IF Differs THEN changed + 1 ELSE changed
      /\ IF Differs /\ ~check
         THEN pc' = "open" /\ targets' = targets
         ELSE targets' = Tail(targets) /\ pc' = "compare"
  BY DEF Compare, ghosts
<1>2. CASE ~clean
  <2>1. ~clean' /\ calm' = 0
    BY <1>1, <1>2 DEF IInv, CalmSettles
  <2> QED BY <2>1, InterferenceForgets
<1>3. CASE clean
  <2>1. targets \in {<<RootTarget, DocsTarget>>, <<DocsTarget>>} /\ known = Listed
    BY <1>1, <1>3 DEF IInv, RunIsCurrent
  <2>2. changed \in Nat /\ changed + Len(targets) <= 2
    BY <1>1 DEF Shape, InMemory
  <2>3. CASE targets = <<RootTarget, DocsTarget>>
    <3>1. (Differs <=> ~RootRight) /\ Tail(targets) = <<DocsTarget>>
      BY <2>3, WaitingTargets DEF Differs, target, RootRight
    <3>2. changed = 0
      <4>1. Len(targets) = 2
        BY <2>3
      <4> QED BY <2>2, <4>1
    <3>3. changed' = 0 <=> RootRight
      BY <1>1, <3>1, <3>2
    <3>4. CASE Differs /\ ~check
      <4>1. pc' = "open" /\ targets' = <<RootTarget, DocsTarget>>
        BY <1>1, <2>3, <3>4
      <4>2. Differs'
        BY <1>1, <2>3, <3>4, <4>1 DEF Differs, target
      <4>3. RunIsCurrent'
        BY <1>1, <2>1, <4>1, <4>2, TextsKept DEF RunIsCurrent
      <4>4. CheckCounts' /\ RebuildWrote'
        BY <4>1, <1>1, <3>4, WaitingTargets, TextsKept DEF CheckCounts, RebuildWrote, Resting
      <4>5. CalmSettles'
        BY <4>1, <1>1, TextsKept DEF IInv, CalmSettles
      <4> QED BY <4>3, <4>4, <4>5 DEF IInv
    <3>5. CASE ~(Differs /\ ~check)
      <4>1. pc' = "compare" /\ targets' = <<DocsTarget>>
        BY <1>1, <3>1, <3>5
      <4>2. RunIsCurrent'
        BY <1>1, <2>1, <4>1, TextsKept DEF RunIsCurrent
      <4>3. CheckCounts'
        BY <1>1, <3>3, <4>1, WaitingTargets, TextsKept DEF CheckCounts, Resting
      <4>4. ~check => RootRight
        BY <3>1, <3>5
      <4>5. RebuildWrote'
        BY <1>1, <4>1, <4>4, WaitingTargets, TextsKept DEF RebuildWrote, Resting
      <4>6. CalmSettles'
        BY <1>1, <4>1, <4>4, TextsKept DEF IInv, CalmSettles
      <4> QED BY <4>2, <4>3, <4>5, <4>6 DEF IInv
    <3> QED BY <3>4, <3>5
  <2>4. CASE targets = <<DocsTarget>>
    <3>1. (Differs <=> ~DocsRight) /\ Tail(targets) = <<>>
      BY <2>4, WaitingTargets DEF Differs, target, DocsRight
    <3>2. check => (changed = 0 <=> RootRight)
      BY <1>1, <1>3, <2>4 DEF IInv, CheckCounts
    <3>3. ~check => RootRight
      BY <1>1, <1>3, <2>4 DEF IInv, RebuildWrote
    <3>4. check => (changed' = 0 <=> Settled)
      BY <1>1, <2>2, <3>1, <3>2, SettledIsBoth
    <3>5. CASE Differs /\ ~check
      <4>1. pc' = "open" /\ targets' = <<DocsTarget>> /\ calm = 0
        <5>1. calm \in 0 .. 2 /\ ~(calm >= 1)
          BY <3>1, <3>5 DEF IInv, CalmSettles, Shape
        <5> QED BY <1>1, <2>4, <3>5, <5>1
      <4>2. Differs'
        BY <1>1, <2>4, <3>5, <4>1 DEF Differs, target
      <4>3. RunIsCurrent'
        BY <1>1, <2>1, <4>1, <4>2, TextsKept DEF RunIsCurrent
      <4>4. CheckCounts' /\ RebuildWrote'
        BY <4>1, <1>1, <3>3, <3>5, WaitingTargets, TextsKept DEF CheckCounts, RebuildWrote, Resting
      <4>5. CalmSettles'
        BY <4>1, <1>1, TextsKept DEF IInv, CalmSettles
      <4> QED BY <4>3, <4>4, <4>5 DEF IInv
    <3>6. CASE ~(Differs /\ ~check)
      <4>1. pc' = "compare" /\ targets' = <<>>
        BY <1>1, <3>1, <3>6
      <4>2. RunIsCurrent'
        BY <1>1, <2>1, <4>1, TextsKept DEF RunIsCurrent
      <4>3. CheckCounts'
        BY <1>1, <3>4, <4>1, WaitingTargets, TextsKept DEF CheckCounts, Resting
      <4>4. ~check => RootRight /\ DocsRight
        BY <3>1, <3>3, <3>6
      <4>5. RebuildWrote'
        BY <1>1, <4>1, <4>4, RightIsAlmost, WaitingTargets, TextsKept DEF RebuildWrote, Resting
      <4>6. CalmSettles'
        BY <1>1, <4>1, <4>4, TextsKept DEF IInv, CalmSettles
      <4> QED BY <4>2, <4>3, <4>5, <4>6 DEF IInv
    <3> QED BY <3>5, <3>6
  <2> QED BY <2>1, <2>3, <2>4
<1> QED BY <1>2, <1>3

(* Opening a file empties it; what was claimed of it is no longer.         *)
LEMMA OpenStep ==
  ASSUME Shape, IInv, Open
  PROVE  IInv'
<1>1. /\ UNCHANGED <<tracked, check, known, targets, clean, calm>>
      /\ disk' = [disk EXCEPT ![target.path] = Empty]
      /\ pc = "open" /\ pc' = "write"
  BY DEF Open, ghosts
<1>2. ~check /\ targets # <<>> /\ DiskOK
  BY <1>1 DEF Shape, InMemory
<1>3. CASE ~clean
  <2>1. ~clean' /\ calm' = 0
    BY <1>1, <1>3 DEF IInv, CalmSettles
  <2> QED BY <2>1, InterferenceForgets
<1>4. CASE clean
  <2>1. targets \in {<<RootTarget, DocsTarget>>, <<DocsTarget>>} /\ known = Listed /\ Differs
    BY <1>1, <1>2, <1>4 DEF IInv, RunIsCurrent
  <2>2. CASE targets = <<RootTarget, DocsTarget>>
    <3>1. target = RootTarget /\ target.path = RootPath
      BY <2>2, WaitingTargets DEF target
    <3>2. disk' = [disk EXCEPT ![RootPath] = Empty]
      BY <1>1, <3>1
    <3>3. /\ disk'[RootPath] = Empty /\ Listed' = Listed
          /\ RootTarget' = RootTarget /\ DocsTarget' = DocsTarget
          /\ DocsRight' <=> DocsRight
      BY <1>1, <1>2, <3>2, RootWritten
    <3>4. target' = RootTarget
      BY <1>1, <3>1 DEF target
    <3>5. Differs'
      <4>1. disk'[RootPath] # RootText
        BY <3>3, EmptyIsNoText
      <4> QED BY <3>3, <3>4, <4>1, WaitingTargets DEF Differs
    <3>6. RunIsCurrent'
      BY <1>1, <2>1, <2>2, <3>3, <3>5 DEF RunIsCurrent
    <3>7. CheckCounts' /\ RebuildWrote'
      BY <1>1, <1>2, <2>2, <3>3, WaitingTargets DEF CheckCounts, RebuildWrote, Resting
    <3>8. CalmSettles'
      <4>1. calm # 2
        BY <2>1, <3>1, WaitingTargets DEF IInv, CalmSettles, Differs, RootRight
      <4> QED BY <1>1, <3>3, <4>1 DEF IInv, CalmSettles
    <3> QED BY <3>6, <3>7, <3>8 DEF IInv
  <2>3. CASE targets = <<DocsTarget>>
    <3>1. target = DocsTarget /\ target.path = DocsPath
      BY <2>3, WaitingTargets DEF target
    <3>2. disk' = [disk EXCEPT ![DocsPath] = Empty]
      BY <1>1, <3>1
    <3>3. /\ disk'[DocsPath] = Empty /\ Listed' = Listed /\ DocsTarget' = DocsTarget
          /\ RootAlmost' <=> RootAlmost
      BY <1>1, <1>2, <3>2, DocsWritten
    <3>4. target' = DocsTarget
      BY <1>1, <3>1 DEF target
    <3>5. Differs'
      <4>1. disk'[DocsPath] # DocsText
        BY <3>3, EmptyIsNoText
      <4> QED BY <3>3, <3>4, <4>1, WaitingTargets DEF Differs
    <3>6. RunIsCurrent'
      BY <1>1, <2>1, <2>3, <3>3, <3>5 DEF RunIsCurrent
    <3>7. RootAlmost
      BY <1>1, <1>2, <1>4, <2>3, RightIsAlmost DEF IInv, RebuildWrote
    <3>8. CheckCounts' /\ RebuildWrote'
      BY <1>1, <1>2, <2>3, <3>3, <3>7, WaitingTargets DEF CheckCounts, RebuildWrote, Resting
    <3>9. calm = 0
      <4>1. ~DocsRight
        BY <2>1, <3>1, WaitingTargets DEF Differs, DocsRight
      <4>2. ~(calm >= 1) /\ calm \in 0 .. 2
        BY <4>1 DEF IInv, CalmSettles, Shape
      <4> QED BY <4>2
    <3>10. CalmSettles'
      <4>1. calm' = 0
        BY <1>1, <3>9
      <4>2. ~(calm' >= 1) /\ calm' # 2
        BY <4>1
      <4> QED BY <4>1, <4>2 DEF CalmSettles
    <3> QED BY <3>6, <3>8, <3>10 DEF IInv
  <2> QED BY <2>1, <2>2, <2>3
<1> QED BY <1>3, <1>4

(* The text reaches the file.                                              *)
LEMMA WriteStep ==
  ASSUME Shape, IInv, Write
  PROVE  IInv'
<1>1. /\ UNCHANGED <<tracked, check, known, changed, clean, calm>>
      /\ disk' = [disk EXCEPT ![target.path] = target.text]
      /\ targets' = Tail(targets)
      /\ pc = "write" /\ pc' = "compare"
  BY DEF Write, ghosts
<1>2. ~check /\ targets # <<>> /\ DiskOK
  BY <1>1 DEF Shape, InMemory
<1>3. CASE ~clean
  <2>1. ~clean' /\ calm' = 0
    BY <1>1, <1>3 DEF IInv, CalmSettles
  <2> QED BY <2>1, InterferenceForgets
<1>4. CASE clean
  <2>1. targets \in {<<RootTarget, DocsTarget>>, <<DocsTarget>>} /\ known = Listed /\ Differs
    BY <1>1, <1>2, <1>4 DEF IInv, RunIsCurrent
  <2>2. CASE targets = <<RootTarget, DocsTarget>>
    <3>1. target = RootTarget /\ targets' = <<DocsTarget>>
      BY <1>1, <2>2, WaitingTargets DEF target
    <3>2. disk' = [disk EXCEPT ![RootPath] = RootText]
      BY <1>1, <3>1, WaitingTargets
    <3>3. /\ Listed' = Listed /\ RootTarget' = RootTarget /\ DocsTarget' = DocsTarget
          /\ DocsRight' <=> DocsRight
          /\ RootRight'
      BY <1>1, <1>2, <3>2, RootWritten
    <3>4. RunIsCurrent'
      BY <1>1, <2>1, <3>1, <3>3 DEF RunIsCurrent
    <3>5. CheckCounts' /\ RebuildWrote'
      BY <1>1, <1>2, <3>1, <3>3, WaitingTargets DEF CheckCounts, RebuildWrote, Resting
    <3>6. RootAlmost'
      BY <3>3, RightIsAlmost, PTL
    <3>7. CalmSettles'
      BY <1>1, <3>3, <3>6 DEF IInv, CalmSettles
    <3> QED BY <3>4, <3>5, <3>7 DEF IInv
  <2>3. CASE targets = <<DocsTarget>>
    <3>1. target = DocsTarget /\ targets' = <<>>
      BY <1>1, <2>3, WaitingTargets DEF target
    <3>2. disk' = [disk EXCEPT ![DocsPath] = DocsText]
      BY <1>1, <3>1, WaitingTargets
    <3>3. /\ Listed' = Listed /\ DocsTarget' = DocsTarget
          /\ RootAlmost' <=> RootAlmost
          /\ DocsRight'
      BY <1>1, <1>2, <3>2, DocsWritten
    <3>4. RunIsCurrent'
      BY <1>1, <2>1, <3>1, <3>3 DEF RunIsCurrent
    <3>5. RootAlmost
      BY <1>1, <1>2, <1>4, <2>3 DEF IInv, RebuildWrote
    <3>6. CheckCounts' /\ RebuildWrote'
      BY <1>1, <1>2, <3>1, <3>3, <3>5, WaitingTargets DEF CheckCounts, RebuildWrote, Resting
    <3>7. calm = 0
      <4>1. ~DocsRight
        BY <2>1, <3>1, WaitingTargets DEF Differs, DocsRight
      <4>2. ~(calm >= 1) /\ calm \in 0 .. 2
        BY <4>1 DEF IInv, CalmSettles, Shape
      <4> QED BY <4>2
    <3>8. CalmSettles'
      <4>1. calm' = 0
        BY <1>1, <3>7
      <4>2. ~(calm' >= 1) /\ calm' # 2
        BY <4>1
      <4> QED BY <4>1, <4>2 DEF CalmSettles
    <3> QED BY <3>4, <3>6, <3>8 DEF IInv
  <2> QED BY <2>1, <2>2, <2>3
<1> QED BY <1>3, <1>4

(* The exit code says what has been found, and a whole rebuild counts.     *)
LEMMA FinishStep ==
  ASSUME Shape, IInv, Finish
  PROVE  IInv'
<1>1. /\ UNCHANGED <<disk, tracked, check, clean>>
      /\ pc = "compare" /\ targets = <<>>
      /\ pc' = IF check /\ changed > 0 THEN "exit 1" ELSE "exit 0"
      /\ targets' = <<>>
      /\ calm' = IF ~check /\ clean /\ calm < 2 THEN calm + 1 ELSE calm
  BY DEF Finish, Forget, ExitCode
<1>2. changed \in Nat /\ calm \in 0 .. 2
  BY DEF Shape
<1>3. RunIsCurrent'
  BY <1>1 DEF RunIsCurrent
<1>4. CheckCounts'
  <2>1. clean /\ check => (changed = 0 <=> Settled)
    BY <1>1 DEF IInv, CheckCounts
  <2>2. clean /\ check => (pc' = "exit 0" <=> Settled)
    <3>1. changed > 0 <=> changed # 0
      BY <1>2
    <3> QED BY ONLY <1>1, <2>1, <3>1, Zenon
  <2>3. pc' # "compare"
    BY <1>1
  <2> QED BY <1>1, <2>2, <2>3, TextsKept DEF CheckCounts
<1>5. clean /\ ~check => RootAlmost /\ DocsRight
  BY <1>1 DEF IInv, RebuildWrote
<1>6. RebuildWrote'
  BY <1>1, <1>5, TextsKept, WaitingTargets DEF RebuildWrote
<1>7. CalmSettles'
  <2>1. (~clean => calm = 0) /\ (calm = 2 => RootRight)
        /\ (calm >= 1 => DocsRight /\ RootAlmost)
        /\ (calm >= 1 /\ ~check => RootRight)
    BY <1>1 DEF IInv, CalmSettles
  <2>2. CASE ~check /\ clean
    <3>1. calm' >= 1 => DocsRight /\ RootAlmost
      BY <1>5, <2>2
    <3>2. calm' = 2 => RootRight
      <4>1. calm' = 2 => calm >= 1
        <5>1. calm' = calm + 1 \/ calm' = calm
          BY <1>1, Zenon
        <5> QED BY <1>2, <5>1
      <4> QED BY ONLY <2>1, <2>2, <4>1, Zenon
    <3> QED BY <1>1, <2>2, <3>1, <3>2, TextsKept DEF CalmSettles
  <2>3. CASE ~(~check /\ clean)
    BY <1>1, <2>1, <2>3, TextsKept DEF CalmSettles
  <2> QED BY <2>2, <2>3
<1> QED BY <1>3, <1>4, <1>6, <1>7 DEF IInv

(* Every step keeps what is claimed.                                       *)
LEMMA NextIInv == Shape /\ IInv /\ [Next]_vars => IInv'
<1> SUFFICES ASSUME Shape, IInv, [Next]_vars PROVE IInv'
  OBVIOUS
<1>1. CASE Start \/ ListTracked \/ BuildRoot \/ BuildDocs
  BY <1>1, QuietSteps
<1>2. CASE Compare
  BY <1>2, CompareStep
<1>3. CASE Open
  BY <1>3, OpenStep
<1>4. CASE Write
  BY <1>4, WriteStep
<1>5. CASE Finish
  BY <1>5, FinishStep
<1>6. CASE Kill \/ Edit \/ Track
  <2>1. ~clean' /\ calm' = 0
    BY <1>6 DEF Kill, Edit, Track, Interfere
  <2> QED BY <2>1, InterferenceForgets
<1>7. CASE UNCHANGED vars
  <2>1. UNCHANGED <<disk, tracked, pc, check, known, targets, changed, clean, calm>>
    BY <1>7 DEF vars
  <2>2. Differs' <=> Differs
    BY <2>1 DEF Differs, target
  <2> QED BY <2>1, <2>2, TextsKept, ZenonT(30)
          DEF IInv, RunIsCurrent, CheckCounts, RebuildWrote, CalmSettles
<1> QED BY <1>1, <1>2, <1>3, <1>4, <1>5, <1>6, <1>7 DEF Next, Run

(* The inductive invariant.                                                *)
LEMMA IndexesInvariant == Spec => [](Shape /\ IInv)
<1>1. Init => Shape /\ IInv
  BY InitShape, InitIInv
<1>2. Shape /\ IInv /\ [Next]_vars => (Shape /\ IInv)'
  BY NextShape, NextIInv
<1> QED BY <1>1, <1>2, PTL DEF Spec

-----------------------------------------------------------------------------
(***************************************************************************)
(* One whole rebuild leaves nothing to do except the title of              *)
(* docs/INDEX.md in INDEX.md (build_doc_indexes.py, 117), a second one     *)
(* nothing at all.                                                         *)
(***************************************************************************)
THEOREM RebuildsAreRight == Spec => []TwoRebuildsSettle
<1>1. Shape /\ IInv => TwoRebuildsSettle
  <2> SUFFICES ASSUME Shape, IInv PROVE TwoRebuildsSettle
    OBVIOUS
  <2>1. ASSUME calm = 1, pc \in Resting PROVE SettledButForOwnTitle
    <3>1. DocsRight /\ RootAlmost
      <4>1. calm >= 1
        BY <2>1
      <4>2. pc # "write"
        BY <2>1 DEF Resting
      <4> QED BY <4>1, <4>2 DEF IInv, CalmSettles
    <3> QED BY <3>1
            DEF SettledButForOwnTitle, DocsRight, RootAlmost, Others, RootText, DocsText
  <2>2. ASSUME calm = 2 PROVE Settled
    <3>1. DocsRight /\ RootRight
      BY <2>2 DEF IInv, CalmSettles
    <3> QED BY <3>1, SettledIsBoth
  <2> QED BY <2>1, <2>2 DEF TwoRebuildsSettle
<1> QED BY <1>1, IndexesInvariant, PTL

(***************************************************************************)
(* The exit code of --check (build_doc_indexes.py, 129-133) is 0 exactly   *)
(* when a rebuild would change nothing, whatever happened before it began. *)
(***************************************************************************)
THEOREM CheckIsTruthful == Spec => []CheckTellsTheTruth
<1>1. IInv => CheckTellsTheTruth
  BY DEF IInv, CheckCounts, CheckTellsTheTruth
<1> QED BY <1>1, IndexesInvariant, PTL

-----------------------------------------------------------------------------
(* Where a path is found in the text of INDEX.md.                          *)
LEMMA RootEntries ==
  /\ RootText.entries = {<<k, title(k)>> : k \in Listed \ {RootPath}}
  /\ Keys(RootText) = Listed \ {RootPath}
<1>1. RootText.entries = {<<k, title(k)>> : k \in Listed \ {RootPath}}
  BY DEF RootText, root_index, Titled
<1>2. \A x : x \in Keys(RootText) <=> \E k \in Listed \ {RootPath} : x = <<k, title(k)>>[1]
  BY <1>1 DEF Keys
<1>3. \A k : <<k, title(k)>>[1] = k
  OBVIOUS
<1> QED BY <1>1, <1>2, <1>3

(* The same for docs/INDEX.md.                                             *)
LEMMA DocsEntries ==
  /\ DocsText.folders = FolderReadmes(Listed) /\ "folders" \in DOMAIN DocsText
  /\ DocsText.entries =
       {<<k, title(k)>> : k \in Direct(Listed) \cup (Nested(Listed) \ FolderReadmes(Listed))}
BY DEF DocsText, docs_index, Titled

(* A path below docs/ goes to one of the three places of docs/INDEX.md.    *)
LEMMA DocsPlaces ==
  ASSUME NEW p \in Seq(STRING) \ {<<>>}, p[1] = "docs",
         p \notin {<<"docs">>, DocsPath, <<"docs", "README.md">>}, p \in Listed
  PROVE  p \in Direct(Listed) \cup Nested(Listed)
<1>1. Len(p) \in Nat \ {0}
  BY EmptySeq
<1>2. CASE Len(p) = 1
  <2>1. p = <<"docs">>
    BY <1>2
  <2> QED BY <2>1
<1>3. CASE Len(p) = 2
  <2>1. p = <<"docs", p[2]>>
    BY <1>3
  <2>2. p[2] \notin {"README.md", "INDEX.md"}
    BY <2>1 DEF DocsPath
  <2> QED BY <1>3, <2>2 DEF Direct
<1>4. CASE Len(p) > 2
  BY <1>4 DEF Nested
<1>5. \A n \in Nat \ {0} : n = 1 \/ n = 2 \/ n > 2
  OBVIOUS
<1> QED BY <1>1, <1>2, <1>3, <1>4, <1>5

(* What a rebuild leaves behind lists every document and nothing else.     *)
LEMMA RebuiltLists ==
  ASSUME Shape, RootAlmost, DocsRight
  PROVE  /\ \A f \in tracked :
              Pieces[f] = {f} /\ ~Skipped(f) =>
                /\ f # RootPath => Lists(RootPath, f)
                /\ f[1] = "docs" /\ f \notin {DocsPath, <<"docs", "README.md">>}
                     => Lists(DocsPath, f)
         /\ \A e \in disk[RootPath].entries \cup disk[DocsPath].entries :
              \E f \in tracked : e[1] \in Pieces[f]
         /\ \A d \in disk[DocsPath].entries : d \in disk[RootPath].entries
<1> DEFINE below == Direct(Listed) \cup (Nested(Listed) \ FolderReadmes(Listed))
<1>1. disk[DocsPath] = DocsText /\ Others(disk[RootPath]) = Others(RootText)
      /\ Keys(disk[RootPath]) = Listed \ {RootPath}
  BY RootEntries DEF DocsRight, RootAlmost
<1>2. disk[DocsPath].entries = {<<k, title(k)>> : k \in below}
  BY <1>1, DocsEntries
<1>3. below \subseteq Listed \ Indexes
  BY DocsReads
<1>4. \A p \in Listed : \E f \in tracked : p \in Pieces[f]
  BY DEF Listed
<1>5. \A k : <<k, title(k)>>[1] = k
  OBVIOUS
<1>6. ASSUME NEW f \in tracked, Pieces[f] = {f}, ~Skipped(f), f # RootPath
      PROVE  Lists(RootPath, f)
  <2>1. f \in Keys(disk[RootPath])
    BY <1>1, <1>6 DEF Listed
  <2> QED BY <2>1 DEF Keys, Lists
<1>7. ASSUME NEW f \in tracked, Pieces[f] = {f}, ~Skipped(f),
             f[1] = "docs", f \notin {DocsPath, <<"docs", "README.md">>}
      PROVE  Lists(DocsPath, f)
  <2>1. f \in Listed
    BY <1>7 DEF Listed
  <2>2. f \in Seq(STRING) \ {<<>>} /\ f # <<"docs">>
    <3>1. f \in Files /\ f # RootPath
      BY <1>7 DEF Shape, RootPath
    <3>2. f \in Documents
      BY <1>7, <3>1 DEF Files, Indexes
    <3> QED BY <3>2, DocIndexesAssumption
  <2>3. f \in Direct(Listed) \cup Nested(Listed)
    BY <1>7, <2>1, <2>2, DocsPlaces
  <2>4. CASE f \in FolderReadmes(Listed)
    BY <1>1, <2>4, DocsEntries DEF Lists
  <2>5. CASE f \in below
    <3>1. <<f, title(f)>> \in disk[DocsPath].entries
      BY <1>2, <2>5
    <3> QED BY <1>5, <3>1 DEF Lists
  <2> QED BY <2>3, <2>4, <2>5
<1>8. ASSUME NEW e \in disk[RootPath].entries PROVE \E f \in tracked : e[1] \in Pieces[f]
  <2>1. e[1] \in Listed
    BY <1>1 DEF Keys
  <2> QED BY <1>4, <2>1
<1>9. ASSUME NEW e \in disk[DocsPath].entries PROVE \E f \in tracked : e[1] \in Pieces[f]
  <2>1. e[1] \in Listed
    BY <1>2, <1>3, <1>5
  <2> QED BY <1>4, <2>1
<1>10. ASSUME NEW d \in disk[DocsPath].entries PROVE d \in disk[RootPath].entries
  <2>1. PICK k \in below : d = <<k, title(k)>>
    BY <1>2
  <2>2. k \in Listed \ {RootPath} /\ k # DocsPath
    BY <1>3 DEF Indexes
  <2>3. d \in RootText.entries /\ d[1] # DocsPath
    BY <1>5, <2>1, <2>2, RootEntries
  <2>4. d \in Others(disk[RootPath])
    BY <1>1, <2>3 DEF Others
  <2> QED BY <2>4 DEF Others
<1> HIDE DEF below
<1> QED BY <1>6, <1>7, <1>8, <1>9, <1>10

(***************************************************************************)
(* After a rebuild nothing interfered with, the indexes list every tracked *)
(* document that is not skipped and has no white space in its name,        *)
(* nothing that comes from no tracked name, and the same titles            *)
(* (build_doc_indexes.py, 54-111).  Of a document with white space in its  *)
(* name it says nothing: such a name is dropped from both indexes.         *)
(***************************************************************************)
THEOREM RebuildsListEveryDocument == Spec => []EveryDocumentListed
<1>1. Shape /\ IInv => EveryDocumentListed
  <2> SUFFICES ASSUME Shape, IInv, clean, ~check, pc = "exit 0"
               PROVE  EveryDocumentListed
    BY DEF EveryDocumentListed
  <2>1. RootAlmost /\ DocsRight
    BY DEF IInv, RebuildWrote, Resting
  <2> QED BY <2>1, RebuiltLists DEF EveryDocumentListed
<1> QED BY <1>1, IndexesInvariant, PTL
=============================================================================
