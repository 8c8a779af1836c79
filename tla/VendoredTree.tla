------------------------------ MODULE VendoredTree ------------------------------
(***************************************************************************)
(* The tree an origin check proposes: what of a pinned commit becomes the  *)
(* candidate (git/origin.rs), which local notices stay beside it, and the  *)
(* manifest and baseline of the whole (vendored.rs, provenance/baseline.rs)*)
(*                                                                         *)
(* A path is a sequence of names, below the repository or below the skill. *)
(* A content is a sequence of chunks; its length is what the limits count. *)
(***************************************************************************)
EXTENDS Naturals, Sequences, SequencesExt, FiniteSets, FiniteSetsExt

CONSTANTS
  Rank,           \* the byte order of each name
  Fold,           \* each name in lower case
  Chunks,         \* what contents are made of
  NoticeNames,    \* the names of notices
  UnsafeNames,    \* the names no candidate may have
  Portable,       \* the contents that make a SKILL.md of this name
  MaxEntries, MaxBytes

Names == DOMAIN Rank
Bytes == Seq(Chunks)
ASSUME NamesAssumption == \A m, n \in Names : Rank[m] \in Nat /\ (Rank[m] = Rank[n] => m = n)
ASSUME LimitsAssumption == MaxEntries \in Nat /\ MaxBytes \in Nat

Skill == <<"SKILL.md">>
Root == <<>>

Folded(path) == [i \in 1..Len(path) |-> Fold[path[i]]]
Above(path) == {SubSeq(path, 1, i) : i \in 0..(Len(path) - 1)}
IsNotice(path) == path # Root /\ Last(path) \in NoticeNames
SafePath(path) == \A i \in 1..Len(path) : path[i] \notin UnsafeNames

\* The recursive walk's order: a directory, what it holds, then its next sibling.
Before(p, q) ==
  \/ IsStrictPrefix(p, q)
  \/ \E i \in 1..Len(p) :
       /\ i <= Len(q) /\ SubSeq(p, 1, i - 1) = SubSeq(q, 1, i - 1)
       /\ Rank[p[i]] < Rank[q[i]]

\* The paths of a finite set in this order.
ByName(paths) ==
  [i \in 1..Cardinality(paths) |->
     CHOOSE p \in paths : Cardinality({q \in paths : Before(q, p)}) = i - 1]

\* How many chunks there are in all: each is a place in one of the files.
SizeOf(files) == Cardinality(UNION {{p} \X (1..Len(files[p].bytes)) : p \in DOMAIN files})
FoldsApart(paths) == \A p, q \in paths : Folded(p) = Folded(q) => p = q

-----------------------------------------------------------------------------
(* A commit maps the path of each of its blobs to [mode, bytes]. *)

FileModes == {"100644", "100755"}
FileOf(blob) == [executable |-> blob.mode = "100755", bytes |-> blob.bytes]

\* snapshot_tree: ls-tree -r of the subdirectory, every entry a regular file.
Selected(commit, at) == {p \in DOMAIN commit : IsStrictPrefix(at, p)}
Below(at, path) == SubSeq(path, Len(at) + 1, Len(path))
SnapshotFiles(commit, at) ==
  [q \in {Below(at, p) : p \in Selected(commit, at)} |-> FileOf(commit[at \o q])]

SnapshotAllowed(commit, at) ==
  LET files == SnapshotFiles(commit, at) IN
  /\ Selected(commit, at) # {}
  /\ \A p \in Selected(commit, at) : commit[p].mode \in FileModes /\ SafePath(Below(at, p))
  /\ FoldsApart(DOMAIN files)
  /\ Cardinality(DOMAIN files) <= MaxEntries
  /\ SizeOf(files) <= MaxBytes

\* ancestor_notices: each directory above the selected one is listed, without
\* recursion; an entry with a notice's name is a notice, whatever it is.
Listed(commit, d) == {Append(d, n) : n \in {q[Len(d) + 1] : q \in Selected(commit, d)}}
NoticesAbove(commit, at) ==
  UNION {{p \in Listed(commit, d) : IsNotice(p)} : d \in IF at = Root THEN {} ELSE Above(at)}

\* Read again where the same name is already held: the same file is kept once.
AncestorFiles(commit, at) ==
  [q \in {<<Last(p)>> : p \in NoticesAbove(commit, at)} \ DOMAIN SnapshotFiles(commit, at) |->
     FileOf(commit[CHOOSE p \in NoticesAbove(commit, at) : Last(p) = q[1]])]

AncestorsAllowed(commit, at) ==
  LET files == SnapshotFiles(commit, at)
      above == NoticesAbove(commit, at)
      added == AncestorFiles(commit, at) IN
  /\ \A p \in above : p \in DOMAIN commit /\ commit[p].mode \in FileModes /\ SafePath(<<Last(p)>>)
  /\ \A p, q \in above : Fold[Last(p)] = Fold[Last(q)] =>
       Last(p) = Last(q) /\ FileOf(commit[p]) = FileOf(commit[q])
  /\ \A p \in above, q \in DOMAIN files : Folded(<<Last(p)>>) = Folded(q) =>
       q = <<Last(p)>> /\ FileOf(commit[p]) = files[q]
  /\ SizeOf(files) + SizeOf(added) <= MaxBytes
  /\ Cardinality(DOMAIN files) + Cardinality(DOMAIN added) <= MaxEntries

-----------------------------------------------------------------------------
(* A manifest is the sequence of a directory's entries in the order of the walk: *)
(* what a baseline digests.                                                      *)

ManifestEntries ==
  [path : Seq(Names), kind : {"file", "directory", "link"}, executable : BOOLEAN, bytes : Bytes]
Manifests == Seq(ManifestEntries)
EntriesOf(manifest) == {manifest[i] : i \in 1..Len(manifest)}
PathsOf(manifest, kind) == {e.path : e \in {f \in EntriesOf(manifest) : f.kind = kind}}
EntryAt(manifest, path) == CHOOSE e \in EntriesOf(manifest) : e.path = path
RegularFiles(manifest) ==
  [p \in PathsOf(manifest, "file") |->
     LET e == EntryAt(manifest, p) IN [executable |-> e.executable, bytes |-> e.bytes]]
BytesIn(manifest) == Cardinality(UNION {{e} \X (1..Len(e.bytes)) : e \in EntriesOf(manifest)})

\* HashState::entry
WithinLimits(manifest) == Len(manifest) <= MaxEntries /\ BytesIn(manifest) <= MaxBytes

\* validate_local_manifest
LocalManifestAllowed(manifest) ==
  LET paths == {e.path : e \in EntriesOf(manifest)} IN
  FoldsApart(paths) /\ \A p \in paths : SafePath(p)

-----------------------------------------------------------------------------
(* final_manifest *)

Overlay(files, more) ==
  [p \in DOMAIN files \cup DOMAIN more |-> IF p \in DOMAIN files THEN files[p] ELSE more[p]]
Agree(files, more) == \A p \in DOMAIN files \cap DOMAIN more : files[p] = more[p]

\* validate_candidate_tree
TreeAllowed(paths) == FoldsApart(paths) /\ \A p \in paths : Above(p) \cap paths = {}

LocalNotices(local) ==
  [p \in {q \in PathsOf(local, "file") : IsNotice(q)} |-> RegularFiles(local)[p]]

CandidateFiles(files, notices) == Overlay(files, notices)
FinalFiles(local, files, notices) == Overlay(CandidateFiles(files, notices), LocalNotices(local))

\* A plausible slip: the tree is validated before the local notices join it, only.
CandidateValidated(local, files, notices) == TreeAllowed(DOMAIN CandidateFiles(files, notices))
FinalTreeAllowed(local, files, notices) == TreeAllowed(DOMAIN FinalFiles(local, files, notices))

FinalAllowed(local, files, notices) ==
  LET candidate == CandidateFiles(files, notices) IN
  /\ Agree(files, notices)
  /\ TreeAllowed(DOMAIN candidate)
  /\ Skill \in DOMAIN candidate /\ candidate[Skill].bytes \in Portable
  /\ PathsOf(local, "link") = {}
  /\ Agree(candidate, LocalNotices(local))
  /\ FinalTreeAllowed(local, files, notices)

\* baseline_from_regular_entries_with_directory_modes: the local directories stay, empty
\* or not, with their modes; a new one is executable.
FinalDirectories(local, files) ==
  PathsOf(local, "directory") \cup {Root} \cup
  UNION {Above(p) : p \in DOMAIN files \cup PathsOf(local, "directory")}
DirectoryEntry(local, d) ==
  [path |-> d, kind |-> "directory", bytes |-> <<>>,
   executable |-> d \in PathsOf(local, "directory") => EntryAt(local, d).executable]
FileEntry(files, p) ==
  [path |-> p, kind |-> "file", bytes |-> files[p].bytes, executable |-> files[p].executable]

ManifestAllowed(local, files) ==
  \A p \in DOMAIN files, d \in FinalDirectories(local, files) : Folded(p) # Folded(d)

FinalManifest(local, files) ==
  LET directories == FinalDirectories(local, files)
      paths == ByName(directories \cup DOMAIN files)
  IN  [i \in DOMAIN paths |-> IF paths[i] \in directories THEN DirectoryEntry(local, paths[i])
                              ELSE FileEntry(files, paths[i])]

\* changes
Changes(local, final) ==
  LET before == RegularFiles(local)
      after == RegularFiles(final) IN
  {<<"add", p>> : p \in DOMAIN after \ DOMAIN before}
    \cup {<<"remove", p>> : p \in DOMAIN before \ DOMAIN after}
    \cup {<<"modify", p>> : p \in {q \in DOMAIN before \cap DOMAIN after : before[q] # after[q]}}

\* preserved_notice_changes
Preserved(local, files, notices) ==
  {<<"preserve", p>> : p \in DOMAIN LocalNotices(local) \ DOMAIN CandidateFiles(files, notices)}
=============================================================================
