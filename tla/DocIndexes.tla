----------------------------- MODULE DocIndexes -----------------------------
(***************************************************************************)
(* scripts/build_doc_indexes.py, the one part of the repository that keeps *)
(* state: it lists the tracked Markdown documents in INDEX.md and in       *)
(* docs/INDEX.md.  Both texts are computed before either file is written,  *)
(* and each file is emptied before it is filled.  People edit, add and     *)
(* remove documents at any time, git can fail, and the script can be       *)
(* killed (or fail on a file) between any two of its steps.                *)
(*                                                                         *)
(* A text is the set of its entries: the order of the lines is a function  *)
(* of the paths, and so is the section a path is put under.                *)
(***************************************************************************)
EXTENDS Integers, Sequences, FiniteSets, Functions

CONSTANTS
  Documents,       (* the hand-written files, each path the tuple of its parts *)
  Headings,        (* the headings a hand-written file may begin with *)
  Pieces,          (* what split() makes of a path: one path, or several if it has spaces *)
  MaxDisturbances  (* bounds the edits, git failures and kills of a behaviour *)

RootPath  == <<"INDEX.md">>
DocsPath  == <<"docs", "INDEX.md">>
Indexes   == {RootPath, DocsPath}
Files     == Documents \cup Indexes
SKIP_DIRS == {".git", ".worktrees", ".scratch", ".icc", "artifacts",
              "__pycache__", "node_modules"}

ASSUME DocIndexesAssumption ==
  /\ Documents \subseteq Seq(STRING) \ {<<>>}
  /\ Documents \cap (Indexes \cup {<<"docs">>}) = {}  (* git ls-files '*.md' *)
  /\ Headings \subseteq STRING
  /\ DOMAIN Pieces = Files
  /\ \A f \in Files : Pieces[f] \subseteq Seq(STRING) \ {<<>>}
  /\ \A f \in Indexes : Pieces[f] = {f}
  /\ MaxDisturbances \in Nat

VARIABLES
  disk,          (* the contents of every file *)
  tracked,       (* the files git tracks *)
  pc,            (* what the script does next, or how its last run ended *)
  check,         (* --check *)
  known,         (* the paths of this run *)
  targets,       (* the texts of this run that are still to be compared *)
  changed,       (* how many differed *)
  disturbances,  (* how often people, git or a kill have interfered *)
  clean,         (* nothing has interfered since the last run began *)
  calm           (* how many whole rebuilds, up to 2, since anything interfered *)

script == <<pc, check, known, targets, changed>>
ghosts == <<disturbances, clean, calm>>
vars   == <<disk, tracked, pc, check, known, targets, changed, disturbances, clean, calm>>

-----------------------------------------------------------------------------
Missing        == [state |-> "missing"]
Empty          == [state |-> "empty"]
Document(head) == [title |-> head]

(* The first heading of a file that can be read and has one, else its name. *)
title(p) ==
  IF p \in Files /\ "title" \in DOMAIN disk[p] THEN disk[p].title ELSE p[Len(p)]

Titled(paths) == {<<k, title(k)>> : k \in paths}

Skipped(p) == Range(p) \cap SKIP_DIRS # {}

(* What git's answer is turned into.                                       *)
Listed == {p \in UNION {Pieces[f] : f \in tracked} : ~Skipped(p)}

RootTitle == "pq-consensus-bandwidth documents index (complete, generated)"
DocsTitle == "docs/ index (complete, generated)"

Group(p) ==
  CASE Len(p) = 1                 -> <<>>
    [] p[1] = "docs" /\ Len(p) > 2 -> <<"docs", p[2]>>
    [] OTHER                      -> <<p[1]>>

root_index(paths) ==
  [title   |-> RootTitle,
   groups  |-> {Group(k) : k \in paths},
   entries |-> Titled(paths \ {RootPath})]

Direct(paths) ==
  {k \in paths : Len(k) = 2 /\ k[1] = "docs" /\ k[2] \notin {"README.md", "INDEX.md"}}

(* Mutant: only the files directly in a sub-folder.                        *)
NestedOnce(paths) == {k \in paths : Len(k) = 3 /\ k[1] = "docs"}

Nested(paths) == {k \in paths : Len(k) > 2 /\ k[1] = "docs"}

(* A sub-folder's README is linked by the folder's name, without a title.  *)
FolderReadmes(paths) == {k \in Nested(paths) : Len(k) = 3 /\ k[3] = "README.md"}

docs_index(paths) ==
  [title   |-> DocsTitle,
   folders |-> FolderReadmes(paths),
   entries |-> Titled(Direct(paths) \cup (Nested(paths) \ FolderReadmes(paths)))]

-----------------------------------------------------------------------------
Resting == {"never ran", "exit 0", "exit 1", "killed"}

Init ==
  /\ disk \in {[f \in Files |-> IF f \in Documents THEN Document(h) ELSE Missing] : h \in Headings}
  /\ tracked \in {Documents, Files}
  /\ pc = "never ran"
  /\ check = FALSE
  /\ known = {}
  /\ targets = <<>>
  /\ changed = 0
  /\ disturbances = 0
  /\ clean = FALSE
  /\ calm = 0

Start ==
  /\ pc \in Resting
  /\ check' \in BOOLEAN
  /\ pc' = "tracked"
  /\ clean' = TRUE
  /\ UNCHANGED <<disk, tracked, known, targets, changed, disturbances, calm>>

Interfere ==
  /\ disturbances < MaxDisturbances
  /\ disturbances' = disturbances + 1
  /\ clean' = FALSE
  /\ calm' = 0

(* A failing git is taken for a repository without documents.              *)
ListTracked ==
  /\ pc = "tracked"
  /\ \/ known' = Listed /\ UNCHANGED ghosts
     \/ known' = {} /\ Interfere
  /\ pc' = "root"
  /\ UNCHANGED <<disk, tracked, check, targets, changed>>

BuildRoot ==
  /\ pc = "root"
  /\ targets' = <<[path |-> RootPath, text |-> root_index(known)]>>
  /\ pc' = "docs"
  /\ UNCHANGED <<disk, tracked, check, known, changed, ghosts>>

BuildDocs ==
  /\ pc = "docs"
  /\ targets' = Append(targets, [path |-> DocsPath, text |-> docs_index(known)])
  /\ pc' = "compare"
  /\ UNCHANGED <<disk, tracked, check, known, changed, ghosts>>

(* Mutant: only the text computed last is ever written.                    *)
lastTarget == targets[Len(targets)]

target == Head(targets)

(* Mutant: a file that exists is taken to be up to date.                   *)
OnlyIfMissing == disk[target.path] = Missing

Differs == disk[target.path] # target.text

Compare ==
  /\ pc = "compare"
  /\ targets # <<>>
  /\ changed' = IF Differs THEN changed + 1 ELSE changed
  /\ IF Differs /\ ~check
     THEN pc' = "open" /\ UNCHANGED targets
     ELSE targets' = Tail(targets) /\ UNCHANGED pc
  /\ UNCHANGED <<disk, tracked, check, known, ghosts>>

(* write_text: opening the file empties it, closing it puts the text there. *)
Open ==
  /\ pc = "open"
  /\ disk' = [disk EXCEPT ![target.path] = Empty]
  /\ pc' = "write"
  /\ UNCHANGED <<tracked, check, known, targets, changed, ghosts>>

(* Mutant: a file is counted when it is compared and when it is written.   *)
WriteCounting ==
  /\ pc = "write"
  /\ disk' = [disk EXCEPT ![target.path] = target.text]
  /\ targets' = Tail(targets)
  /\ changed' = changed + 1
  /\ pc' = "compare"
  /\ UNCHANGED <<tracked, check, known, ghosts>>

Write ==
  /\ pc = "write"
  /\ disk' = [disk EXCEPT ![target.path] = target.text]
  /\ targets' = Tail(targets)
  /\ pc' = "compare"
  /\ UNCHANGED <<tracked, check, known, changed, ghosts>>

(* Mutant: one index out of date is not an error.                          *)
ExitCodeLenient == IF check /\ changed > 1 THEN "exit 1" ELSE "exit 0"

ExitCode == IF check /\ changed > 0 THEN "exit 1" ELSE "exit 0"

(* What a run holds in memory ends with it.                                *)
Forget == known' = {} /\ targets' = <<>> /\ changed' = 0

Finish ==
  /\ pc = "compare"
  /\ targets = <<>>
  /\ pc' = ExitCode
  /\ Forget
  /\ calm' = IF ~check /\ clean /\ calm < 2 THEN calm + 1 ELSE calm
  /\ UNCHANGED <<disk, tracked, check, disturbances, clean>>

(* The script is killed, or ends with an exception of the file system.     *)
Kill ==
  /\ pc \notin Resting
  /\ pc' = "killed"
  /\ Forget
  /\ Interfere
  /\ UNCHANGED <<disk, tracked, check>>

-----------------------------------------------------------------------------
(* Somebody writes, empties or deletes a document, or damages an index.    *)
Edit ==
  /\ \E f \in Files : \E c \in {Document(h) : h \in Headings} \cup {Empty, Missing} :
       c # disk[f] /\ disk' = [disk EXCEPT ![f] = c]
  /\ Interfere
  /\ UNCHANGED <<tracked, script>>

(* git add and git rm --cached.                                            *)
Track ==
  /\ \E f \in Files :
       \/ f \in tracked /\ tracked' = tracked \ {f}
       \/ f \notin tracked /\ disk[f] # Missing /\ tracked' = tracked \cup {f}
  /\ Interfere
  /\ UNCHANGED <<disk, script>>

Run ==
  \/ ListTracked
  \/ BuildRoot
  \/ BuildDocs
  \/ Compare
  \/ Open
  \/ Write
  \/ Finish

Next ==
  \/ Start
  \/ Run
  \/ Kill
  \/ Edit
  \/ Track

(* A run that is not killed goes on to its end; nobody has to start one.   *)
Spec == Init /\ [][Next]_vars /\ WF_vars(Run)

-----------------------------------------------------------------------------
Paths     == UNION {Pieces[f] : f \in Files}
Titles    == Headings \cup {RootTitle, DocsTitle} \cup {p[Len(p)] : p \in Paths}
Listings  == SUBSET (Paths \X Titles)
IndexText ==
  [title : {RootTitle}, groups : SUBSET {Group(p) : p \in Paths}, entries : Listings]
    \cup [title : {DocsTitle}, folders : SUBSET Paths, entries : Listings]

Contents(f) ==
  [state : {"missing", "empty"}] \cup [title : Headings]
    \cup IF f \in Indexes THEN IndexText ELSE {}

TypeOK ==
  /\ \A f \in Files : disk[f] \in Contents(f)
  /\ tracked \subseteq Files
  /\ pc \in Resting \cup {"tracked", "root", "docs", "compare", "open", "write"}
  /\ known \subseteq Paths
  /\ \A k \in DOMAIN targets : targets[k].path \in Indexes /\ targets[k].text \in IndexText
  /\ changed \in 0 .. Cardinality(Indexes)
  /\ disturbances \in 0 .. MaxDisturbances
  /\ calm \in 0 .. 2

(* Nothing is left to do: a rebuild would write neither file.              *)
Settled ==
  /\ disk[RootPath] = root_index(Listed)
  /\ disk[DocsPath] = docs_index(Listed)

(* The same, but for the title under which INDEX.md lists docs/INDEX.md.   *)
SettledButForOwnTitle ==
  LET Others(text) == {e \in text.entries : e[1] # DocsPath}
      root == root_index(Listed)
  IN  /\ disk[DocsPath] = docs_index(Listed)
      /\ "groups" \in DOMAIN disk[RootPath]
      /\ disk[RootPath].groups = root.groups
      /\ Others(disk[RootPath]) = Others(root)

(***************************************************************************)
(* Whatever was edited, half written or emptied by a failing git before:   *)
(* one whole rebuild puts everything right except the title of             *)
(* docs/INDEX.md in INDEX.md, which is read before that file is written,   *)
(* and a second one puts that right too.                                   *)
(***************************************************************************)
TwoRebuildsSettle ==
  /\ calm = 1 /\ pc \in Resting => SettledButForOwnTitle
  /\ calm = 2 => Settled

(***************************************************************************)
(* --check answers for the files as they are: unless something interfered  *)
(* with it, it ends with 0 exactly when a rebuild would change nothing.    *)
(* Remains of a killed rebuild, an index out of date or a title that       *)
(* changed are all reported, and nothing else is.                          *)
(***************************************************************************)
CheckTellsTheTruth ==
  clean /\ check /\ pc \in Resting => (pc = "exit 0" <=> Settled)

(***************************************************************************)
(* INDEX.md lists the tracked documents and docs/INDEX.md those below      *)
(* docs/, at any depth: after a rebuild nothing interfered with, each that *)
(* is not skipped and has no white space in its name is in its indexes,    *)
(* nothing is listed that comes from no tracked name, and the two indexes  *)
(* agree on every title.                                                   *)
(***************************************************************************)
Lists(index, p) ==
  \/ \E e \in disk[index].entries : e[1] = p
  \/ "folders" \in DOMAIN disk[index] /\ p \in disk[index].folders

EveryDocumentListed ==
  clean /\ ~check /\ pc = "exit 0" =>
    /\ \A f \in tracked :
         Pieces[f] = {f} /\ ~Skipped(f) =>
           /\ f # RootPath => Lists(RootPath, f)
           /\ f[1] = "docs" /\ f \notin {DocsPath, <<"docs", "README.md">>} => Lists(DocsPath, f)
    /\ \A e \in disk[RootPath].entries \cup disk[DocsPath].entries :
         \E f \in tracked : e[1] \in Pieces[f]
    /\ \A d \in disk[DocsPath].entries : d \in disk[RootPath].entries

(***************************************************************************)
(* People stop interfering at some point (their number is bounded here):   *)
(* if the script keeps being run, its indexes become those of the          *)
(* documents as they are, and stay that.                                   *)
(***************************************************************************)
RebuildsSettle ==
  []<>(pc = "tracked" /\ ~check) => <>[]Settled

(***************************************************************************)
(* "Idempotent": a second rebuild changes nothing.  Refuted when the       *)
(* heading of docs/INDEX.md was damaged: see the README.                   *)
(***************************************************************************)
Idempotent == calm >= 1 /\ pc \in Resting => Settled
=============================================================================
