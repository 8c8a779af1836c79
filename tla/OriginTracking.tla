----------------------------- MODULE OriginTracking -----------------------------
(***************************************************************************)
(* A skill's origin, adopted (adoption.rs) and later checked (vendored.rs) *)
(* by one session, while other programs write the checkout, its attribution*)
(* files and the installed links, and other processes the private metadata.*)
(*                                                                         *)
(* Both read the skill the same way: the repository and the directories    *)
(* leading to the skill, its attribution (adoption only), its SKILL.md,    *)
(* then the whole directory, entry by entry (provenance/baseline.rs).      *)
(* Replacing the content once a preview is confirmed is SkillReplacement;  *)
(* the repository the fetch runs in is OriginCache.                        *)
(***************************************************************************)
EXTENDS OriginEvidence, VendoredTree

CONSTANTS
  Worlds,         \* a sequence of sets of worlds the session may begin in
  Links,          \* the paths an installation may stand at
  Contents,       \* what others may write into a file
  Documents,      \* and into an attribution file
  MaxChanges,     \* how often others may write
  MaxFaults,      \* reads that may fail
  Missing         \* a model value: not there, not read, not stored

VARIABLES
  tree,           \* the skill directory: path -> node
  place,          \* what leads to it: "ours", "moved" (another directory, the same
                  \* content), "foreign" (another repository) or "gone"
  papers,         \* the attribution documents
  stored,         \* the stored association, or Missing
  registration,   \* "current", "renamed", "dropped"
  installed,      \* the links that lead to the skill
  accounted,      \* whether an installation scan can be complete
  alone,          \* whether the skill's name has one registered variant
  upstream,       \* what a fetch may find: a set of commits, at the subdirectory it names
  allowed,        \* the kinds of changes others may still make, and how many
  faults,
  phase,
  look,           \* the observation under way
  form,           \* the draft: its evidence, and the origin entered
  kept,           \* the plan or the request: what it was built from
  locked,         \* the session's write transaction
  cancelled,
  pinned,         \* the fetched snapshot
  answer, basis,  \* how the last operation ended, and what it went by
  stood, touched  \* what stood since the last mark; whether anything changed since

metadata == <<stored, registration>>
world == <<tree, place, papers, installed, accounted, alone, upstream>>
session == <<phase, look, form, kept, locked, cancelled, pinned, answer, basis, faults>>
history == <<stood, touched>>
trackingVars == <<metadata, world, allowed, session, history>>

TreePaths == DOMAIN tree
Absent == [kind |-> "absent", executable |-> FALSE, bytes |-> <<>>, stamp |-> 0]
Parent(p) == Front(p)
Children(d) == {p \in TreePaths : p # Root /\ Parent(p) = d /\ tree[p].kind # "absent"}

\* What can stand below a skill: whatever is there is in a directory.
NodeKinds == {"absent", "file", "directory", "link"}
Nodes == [kind : NodeKinds, executable : BOOLEAN, bytes : Bytes, stamp : Nat]
IsSkill(t) ==
  /\ IsFiniteSet(DOMAIN t) /\ DOMAIN t \subseteq Seq(Names) /\ t \in [DOMAIN t -> Nodes]
  /\ {Root, Skill} \subseteq DOMAIN t /\ t[Root].kind = "directory"
  /\ \A p \in DOMAIN t :
       /\ Above(p) \subseteq DOMAIN t
       /\ t[p].kind = "absent" => t[p] = Absent
       /\ t[p].kind = "directory" => t[p].bytes = <<>>
       /\ t[p].kind # "absent" => \A q \in Above(p) : t[q].kind = "directory"
Associations == [origin : Origins, baseline : Manifests]
ChangeKinds == {"tree", "place", "papers", "record", "registration", "links", "cancel"}
Permissions == [kinds : SUBSET ChangeKinds, left : 0..MaxChanges]
IsPin(pin) ==
  /\ pin.at \in Seq(Names) /\ DOMAIN pin.commit \subseteq Seq(Names) /\ IsFiniteSet(DOMAIN pin.commit)
  /\ \A p \in DOMAIN pin.commit : pin.commit[p].bytes \in Bytes
IsWorld(w) ==
  /\ IsSkill(w.tree) /\ \A p \in DOMAIN w.tree : w.tree[p].stamp = 0
  /\ w.papers \in Papers /\ w.record \in Associations \cup {Missing}
  /\ w.allowed \in Permissions /\ \A pin \in w.upstream : IsPin(pin)

ASSUME WorldsAssumption == \A i \in 1..Len(Worlds) : \A w \in Worlds[i] : IsWorld(w)
ASSUME WritingAssumption == Contents \subseteq Bytes /\ Documents \subseteq Texts
ASSUME MissingAssumption ==
  Missing \notin Nodes \cup Manifests \cup Evidences \cup {"ours", "moved", "foreign", "gone"}
ASSUME BoundsAssumption == MaxChanges \in Nat /\ MaxFaults \in Nat

\* What a walk records of a node: no stamp.
EntryOf(p, node) == [path |-> p, kind |-> node.kind, executable |-> node.executable, bytes |-> node.bytes]
Standing == [p \in TreePaths |-> EntryOf(p, tree[p])]

-----------------------------------------------------------------------------
(* History: the values of everything a session reads, since the last mark. *)

NowStood ==
  [tree |-> [p \in TreePaths |-> {Standing[p]}], place |-> {place}, papers |-> {papers},
   record |-> {stored}, registration |-> {registration}, installed |-> {installed}]
Mark == stood' = NowStood /\ touched' = FALSE
Remember == stood' =
  [tree |-> [p \in TreePaths |-> stood.tree[p] \cup {EntryOf(p, tree'[p])}],
   place |-> stood.place \cup {place'}, papers |-> stood.papers \cup {papers'},
   record |-> stood.record \cup {stored'}, registration |-> stood.registration \cup {registration'},
   installed |-> stood.installed \cup {installed'}]

-----------------------------------------------------------------------------
(* Other programs and processes *)

Changed(kind) ==
  /\ kind \in allowed.kinds /\ allowed.left > 0
  /\ allowed' = [allowed EXCEPT !.left = @ - 1]
  /\ UNCHANGED session
Clock == MaxChanges + 1 - allowed.left

\* The stamp is what fstat compares: inode, size, mtime and ctime.  Rewriting a file,
\* with the same bytes or others, and changing its mode give it a new one; adding and
\* removing an entry give its directory one.
WriteFile(p) ==
  /\ tree[p].kind = "file"
  /\ \/ tree' = [tree EXCEPT ![p].executable = ~@, ![p].stamp = Clock]
     \/ \E b \in Contents : tree' = [tree EXCEPT ![p].bytes = b, ![p].stamp = Clock]
CreateFile(p) ==
  /\ tree[p].kind = "absent" /\ tree[Parent(p)].kind = "directory"
  /\ \E b \in Contents :
       tree' = [tree EXCEPT ![p] = [kind |-> "file", executable |-> FALSE, bytes |-> b, stamp |-> Clock],
                            ![Parent(p)].stamp = Clock]
RemoveEntry(p) ==
  /\ p # Root /\ tree[p].kind # "absent" /\ Children(p) = {}
  /\ tree' = [tree EXCEPT ![p] = Absent, ![Parent(p)].stamp = Clock]
WriteTree ==
  /\ Changed("tree")
  /\ \E p \in TreePaths : WriteFile(p) \/ CreateFile(p) \/ RemoveEntry(p)
  /\ touched' = TRUE
  /\ UNCHANGED <<metadata, place, papers, installed, accounted, alone, upstream>>
  /\ Remember

\* Another directory, or another repository, takes the place of one that leads there.
MovePlace ==
  /\ Changed("place")
  /\ \E q \in {"ours", "moved", "foreign", "gone"} \ {place} : place' = q
  /\ tree' = [tree EXCEPT ![Root].stamp = Clock]
  /\ touched' = TRUE
  /\ UNCHANGED <<metadata, papers, installed, accounted, alone, upstream>>
  /\ Remember

WritePapers ==
  /\ Changed("papers")
  /\ \E i \in Inputs, d \in Documents : papers' = [papers EXCEPT !.of[i] = d]
  /\ touched' = TRUE
  /\ UNCHANGED <<metadata, tree, place, installed, accounted, alone, upstream>>
  /\ Remember

\* A document becomes unreadable, or readable: nothing it says has changed.
WithholdPapers ==
  /\ Changed("papers")
  /\ \E i \in Inputs :
       papers' = [papers EXCEPT !.withheld = (@ \ {i}) \cup ({i} \ @)]
  /\ UNCHANGED <<metadata, tree, place, installed, accounted, alone, upstream, touched>>
  /\ Remember

\* Another process adopts, or replaces the content and advances the baseline.
WriteRecord ==
  /\ Changed("record") /\ ~locked
  /\ \E r \in {Missing, [origin |-> CHOOSE o \in Origins : TRUE, baseline |-> <<>>]} \ {stored} :
       stored' = r
  /\ touched' = TRUE
  /\ UNCHANGED <<registration, world>>
  /\ Remember

\* It renames the source, or forgets it or drops the catalog, and the baselines with it.
WriteRegistration ==
  /\ Changed("registration") /\ ~locked
  /\ \E r \in {"renamed", "dropped"} \ {registration} :
       registration' = r /\ stored' = IF r = "dropped" THEN Missing ELSE stored
  /\ touched' = TRUE
  /\ UNCHANGED world
  /\ Remember

MoveLinks ==
  /\ Changed("links")
  /\ \/ \E l \in Links : installed' = (installed \ {l}) \cup ({l} \ installed) /\ UNCHANGED <<accounted, alone>>
     \/ accounted' = ~accounted /\ UNCHANGED <<installed, alone>>
     \/ alone' = ~alone /\ UNCHANGED <<installed, accounted>>
  /\ touched' = TRUE
  /\ UNCHANGED <<metadata, tree, place, papers, upstream>>
  /\ Remember

Others ==
  \/ WriteTree \/ MovePlace \/ WritePapers \/ WithholdPapers
  \/ WriteRecord \/ WriteRegistration \/ MoveLinks

-----------------------------------------------------------------------------
(* One observation: observe, observe_variant_manifest *)

NoLook ==
  [step |-> "none", reader |-> Missing, result |-> Missing, dirs |-> Missing,
   evidence |-> Missing, entries |-> <<>>, stack |-> <<>>, open |-> Missing]
Look(reader) == look' = [NoLook EXCEPT !.step = "place", !.reader = reader]
Ends(result) == look' = [look EXCEPT !.step = "done", !.result = result]
Looking(step) ==
  /\ look.step = step
  /\ UNCHANGED <<metadata, world, allowed, phase, form, kept, locked, cancelled, pinned, answer,
                 basis, faults, history>>

\* repository_identity and directories: nothing on the way may be a link.  What the
\* session expects there, it expects before it reads any content.
ReadPlace ==
  /\ Looking("place")
  /\ IF place \in {"gone", "foreign"} \/ kept.dirs \notin {Missing, place}
     THEN Ends("changed")
     ELSE look' = [look EXCEPT !.dirs = place,
                     !.step = IF look.reader = "adoption" THEN "papers" ELSE "validate"]

\* A plausible slip: whatever differs from the preview has changed.
ReadPapersPlainly ==
  /\ Looking("papers")
  /\ IF kept.evidence \in {Missing, ReadEvidence(papers)}
     THEN look' = [look EXCEPT !.evidence = ReadEvidence(papers), !.step = "validate"]
     ELSE Ends("changed")

ReadPapers ==
  /\ Looking("papers")
  /\ LET e == ReadEvidence(papers) IN
     IF kept.evidence \in {Missing, e}
     THEN look' = [look EXCEPT !.evidence = e, !.step = "validate"]
     ELSE Ends(IF ChangeIsUnavailable(e, kept.evidence) THEN "unavailable" ELSE "changed")

\* validate_portable_skill, which reads SKILL.md for itself.
Validate ==
  /\ Looking("validate")
  /\ IF place # "gone" /\ tree[Skill].kind = "file" /\ tree[Skill].bytes \in Portable
     THEN look' = [look EXCEPT !.step = "walk"]
     ELSE Ends("changed")

\* The walk.  A directory is held and listed once; a file is read in two parts, between
\* two readings of its stamp; a directory's stamp is read again when it is left.
Listing(d) == [dir |-> d, left |-> ByName(Children(d)), stamp |-> tree[d].stamp]
Top == Last(look.stack)
Advance == Append(Front(look.stack), [Top EXCEPT !.left = Tail(@)])
Recorded(entry, stack) ==
  LET entries == Append(look.entries, entry) IN
  IF WithinLimits(entries)
  THEN look' = [look EXCEPT !.entries = entries, !.stack = stack, !.open = Missing]
  ELSE Ends("changed")

FirstHalf(bytes) == SubSeq(bytes, 1, Len(bytes) \div 2)
After(bytes, read) == SubSeq(bytes, Len(read) + 1, Len(bytes))

WalkOpen ==
  /\ Looking("walk") /\ look.stack = <<>>
  /\ IF place = "gone" THEN Ends("changed")
     ELSE Recorded(EntryOf(Root, tree[Root]), <<Listing(Root)>>)

WalkEntry ==
  /\ Looking("walk") /\ look.stack # <<>> /\ look.open = Missing /\ Top.left # <<>>
  /\ LET p == Head(Top.left)
         node == tree[p] IN
     CASE node.kind = "absent" -> Ends("changed")
       [] node.kind = "link" -> Recorded(EntryOf(p, node), Advance)
       [] node.kind = "directory" -> Recorded(EntryOf(p, node), Append(Advance, Listing(p)))
       [] node.kind = "file" ->
            look' = [look EXCEPT !.open = [node EXCEPT !.bytes = FirstHalf(@)]]

\* A plausible slip: the second reading of the stamp is left out.
WalkFileOnce ==
  /\ Looking("walk") /\ look.open # Missing
  /\ LET p == Head(Top.left)
         node == tree[p] IN
     Recorded([EntryOf(p, look.open) EXCEPT !.bytes = @ \o After(node.bytes, @)],
              Advance)

WalkFile ==
  /\ Looking("walk") /\ look.open # Missing
  /\ LET p == Head(Top.left)
         node == tree[p] IN
     IF node.kind = "file" /\ node.stamp = look.open.stamp
     THEN Recorded([EntryOf(p, look.open) EXCEPT !.bytes = @ \o After(node.bytes, @)],
                   Advance)
     ELSE Ends("changed")

WalkClose ==
  /\ Looking("walk") /\ look.stack # <<>> /\ look.open = Missing /\ Top.left = <<>>
  /\ IF tree[Top.dir].kind # "directory" \/ tree[Top.dir].stamp # Top.stamp THEN Ends("changed")
     ELSE IF Len(look.stack) > 1 THEN look' = [look EXCEPT !.stack = Front(@)]
     ELSE IF place = "gone" \/ kept.manifest \notin {Missing, look.entries} THEN Ends("changed")
     ELSE Ends("good")

\* Any of these reads may fail for a reason that says nothing of what stands there.
LookFails ==
  /\ look.step \in {"place", "validate", "walk"} /\ faults < MaxFaults
  /\ faults' = faults + 1
  /\ Ends("unavailable")
  /\ UNCHANGED <<metadata, world, allowed, phase, form, kept, locked, cancelled, pinned, answer,
                 basis, history>>

Observe ==
  \/ ReadPlace \/ ReadPapers \/ Validate \/ WalkOpen \/ WalkEntry \/ WalkFile \/ WalkClose
  \/ LookFails

-----------------------------------------------------------------------------
(* Adoption: begin, plan, apply, verify_saved *)

NoneKept ==
  [evidence |-> Missing, dirs |-> Missing, manifest |-> Missing, record |-> Missing,
   links |-> {}, whole |-> FALSE, named |-> FALSE]
NoForm == [evidence |-> Missing, origin |-> Missing]
Steady == UNCHANGED <<world, allowed, faults>>
Rest == UNCHANGED <<metadata, history>>

\* An operation ends: nothing of it is kept.
Close ==
  /\ phase' = "idle" /\ look' = NoLook /\ form' = NoForm /\ kept' = NoneKept
  /\ locked' = FALSE /\ cancelled' = FALSE /\ pinned' = Missing
Answered(a) == Close /\ answer' = a /\ UNCHANGED basis
Refused == Answered("refused")

BeginAdoption ==
  /\ phase = "idle" /\ place \notin {"gone", "foreign"} /\ stored = Missing
  /\ phase' = "form" /\ form' = [NoForm EXCEPT !.evidence = ReadEvidence(papers)]
  /\ answer' = "none" /\ basis' = Missing
  /\ Steady /\ Rest /\ UNCHANGED <<look, kept, locked, cancelled, pinned>>

\* The user leaves the form or the preview.
LeaveAdoption ==
  /\ phase \in {"form", "confirming"}
  /\ Answered("none")
  /\ Steady /\ Rest

PreviewAdoption ==
  /\ phase = "form"
  /\ \E o \in Origins : form' = [form EXCEPT !.origin = o]
  /\ phase' = "planning" /\ Look("adoption") /\ Mark
  /\ Steady /\ UNCHANGED <<metadata, kept, locked, cancelled, pinned, answer, basis>>

Concluded(stage) == phase = stage /\ look.step = "done"
Good == look.result = "good"
Expecting == [NoneKept EXCEPT !.evidence = look.evidence, !.dirs = look.dirs, !.manifest = look.entries]
BackToForm == phase' = "form" /\ look' = NoLook /\ kept' = NoneKept

\* What has just been observed is observed again before it is shown.
Planned ==
  /\ Concluded("planning")
  /\ IF Good /\ look.evidence = form.evidence /\ Resolves(look.evidence, form.origin)
     THEN phase' = "replanning" /\ kept' = Expecting /\ Look("adoption")
     ELSE BackToForm
  /\ Steady /\ Rest /\ UNCHANGED <<form, locked, cancelled, pinned, answer, basis>>

Replanned ==
  /\ Concluded("replanning")
  /\ IF Good /\ stored = Missing
     THEN phase' = "confirming" /\ look' = NoLook /\ UNCHANGED kept
     ELSE BackToForm
  /\ Steady /\ Rest /\ UNCHANGED <<form, locked, cancelled, pinned, answer, basis>>

\* begin_mutation and variant_registration_matches, then the first recheck.
ConfirmAdoption ==
  /\ phase = "confirming"
  /\ IF registration = "current"
     THEN /\ phase' = "applying" /\ locked' = TRUE /\ Look("adoption")
          /\ UNCHANGED <<form, kept, cancelled, pinned, answer, basis>>
     ELSE Refused
  /\ Steady /\ Rest

\* A plausible slip: one recheck before the record is written, none after.
RecordedOutright ==
  /\ Concluded("applying")
  /\ IF Good /\ stored = Missing
     THEN /\ phase' = "recording" /\ look' = look /\ Mark
          /\ UNCHANGED <<form, kept, locked, cancelled, pinned, answer, basis>>
     ELSE Refused /\ UNCHANGED history
  /\ Steady /\ UNCHANGED metadata

\* record_origin inserts, never replaces; the insert is rolled back by any refusal.
RecordOrigin ==
  /\ Concluded("applying")
  /\ IF Good /\ stored = Missing
     THEN /\ phase' = "recording" /\ Look("adoption") /\ Mark
          /\ UNCHANGED <<form, kept, locked, cancelled, pinned, answer, basis>>
     ELSE Refused /\ UNCHANGED history
  /\ Steady /\ UNCHANGED metadata

Association == [origin |-> form.origin, baseline |-> kept.manifest]
CommitOrigin ==
  /\ Concluded("recording")
  /\ IF Good
     THEN /\ stored' = Association /\ locked' = FALSE
          /\ phase' = "saved" /\ look' = NoLook
          /\ stood' = [NowStood EXCEPT !.record = {Association}] /\ touched' = FALSE
          /\ UNCHANGED <<form, kept, cancelled, pinned, answer, basis>>
     ELSE Refused /\ UNCHANGED <<stored, history>>
  /\ Steady /\ UNCHANGED registration

Reported(verdict) ==
  Close /\ answer' = verdict /\ basis' = [kept EXCEPT !.record = Association]
VerifyRecord ==
  /\ phase = "saved"
  /\ IF stored = Association
     THEN /\ phase' = "verifying" /\ Look("adoption")
          /\ UNCHANGED <<form, kept, locked, cancelled, pinned, answer, basis>>
     ELSE Reported("failed")
  /\ Steady /\ Rest

VerdictOf == [good |-> "verified", changed |-> "failed", unavailable |-> "incomplete"]
VerifyContent ==
  /\ Concluded("verifying")
  /\ Reported(VerdictOf[look.result])
  /\ Steady /\ Rest

Adoption ==
  \/ BeginAdoption \/ LeaveAdoption \/ PreviewAdoption \/ Planned \/ Replanned
  \/ ConfirmAdoption \/ RecordOrigin \/ CommitOrigin \/ VerifyRecord \/ VerifyContent


-----------------------------------------------------------------------------
(* The check: prepare, check, recheck_request *)

\* The installations are scanned first, and the request keeps what the scan found.  A
\* check from the command line also holds that the name has one variant.
BeginCheck ==
  /\ phase = "idle" /\ stored # Missing /\ registration # "dropped"
  /\ phase' = "preparing" /\ Look("check") /\ Mark
  /\ \E named \in {FALSE, alone} :
       kept' = [NoneKept EXCEPT !.record = stored, !.links = installed, !.whole = accounted,
                                !.named = named]
  /\ answer' = "none" /\ basis' = Missing
  /\ Steady /\ UNCHANGED <<metadata, form, locked, cancelled, pinned>>

Step(next) ==
  phase' = next /\ look' = NoLook /\ UNCHANGED <<form, kept, locked, cancelled, pinned, answer, basis>>

Prepared ==
  /\ Concluded("preparing")
  /\ IF /\ Good /\ LocalManifestAllowed(look.entries)
        /\ look.entries = kept.record.baseline
        /\ kept.whole /\ place # "gone"
     THEN /\ phase' = "asking" /\ look' = NoLook
          /\ kept' = [kept EXCEPT !.manifest = look.entries, !.dirs = place]
          /\ UNCHANGED <<form, locked, cancelled, pinned, answer, basis>>
     ELSE Refused
  /\ Steady /\ Rest

\* recheck_request up to the content; "next" is where the content is compared.
InstallationsHold == accounted /\ installed = kept.links
RequestHolds ==
  /\ stored = kept.record /\ registration = "current"
  /\ kept.named => InstallationsHold /\ alone
RecheckRequest(stage, next) ==
  /\ phase = stage
  /\ IF RequestHolds
     THEN /\ phase' = next /\ Look("check")
          /\ UNCHANGED <<form, kept, locked, cancelled, pinned, answer, basis>>
     ELSE Refused
  /\ Steady /\ Rest
Rechecked(stage, next) ==
  /\ Concluded(stage)
  /\ IF Good THEN Step(next) ELSE Refused
  /\ Steady /\ Rest

RecheckBefore == RecheckRequest("asking", "rechecking") \/ Rechecked("rechecking", "fetching")

\* A plausible slip: the snapshot is in hand, and the request is not asked again.
SkipRecheckAfter == phase = "answered" /\ Step("scanning") /\ Steady /\ Rest
RecheckAfter == RecheckRequest("answered", "comparing") \/ Rechecked("comparing", "scanning")

Cancel ==
  /\ "cancel" \in allowed.kinds /\ ~cancelled
  /\ phase \in {"asking", "rechecking", "fetching", "objects", "answered", "comparing", "scanning", "building"}
  /\ cancelled' = TRUE
  /\ Steady /\ Rest /\ UNCHANGED <<phase, look, form, kept, locked, pinned, answer, basis>>

\* fetch_in_cache up to the transfer: the branch is wherever it is now, and the commit
\* the fetch reports is what is read from here on.
Fetch ==
  /\ phase = "fetching"
  /\ IF cancelled THEN Answered("cancelled") /\ UNCHANGED history
     ELSE /\ \E c \in upstream : pinned' = c
          /\ phase' = "objects" /\ Mark
          /\ UNCHANGED <<look, form, kept, locked, cancelled, answer, basis>>
  /\ Steady /\ UNCHANGED metadata
FetchFails ==
  /\ phase = "fetching" /\ faults < MaxFaults /\ faults' = faults + 1
  /\ Refused
  /\ Rest /\ UNCHANGED <<world, allowed>>

ReadObjects ==
  /\ phase = "objects"
  /\ IF /\ ~cancelled
        /\ SnapshotAllowed(pinned.commit, pinned.at)
        /\ AncestorsAllowed(pinned.commit, pinned.at)
     THEN Step("answered")
     ELSE Refused
  /\ Steady /\ Rest

\* recheck_affected_installations
RecheckInstallations ==
  /\ phase = "scanning"
  /\ IF InstallationsHold THEN Step("building") ELSE Refused
  /\ Steady /\ Rest

Build ==
  /\ phase = "building"
  /\ LET candidate == SnapshotFiles(pinned.commit, pinned.at)
         notices == AncestorFiles(pinned.commit, pinned.at)
         files == FinalFiles(kept.manifest, candidate, notices)
         proposed == FinalManifest(kept.manifest, files) IN
     IF /\ FinalAllowed(kept.manifest, candidate, notices)
        /\ ManifestAllowed(kept.manifest, files)
        /\ WithinLimits(proposed)
     THEN /\ Close /\ answer' = "preview"
          /\ basis' = [kept |-> kept, pinned |-> pinned, proposed |-> proposed,
                       changes |-> Changes(kept.manifest, proposed)
                                     \cup Preserved(kept.manifest, candidate, notices)]
     ELSE Refused
  /\ Steady /\ Rest

Check ==
  \/ BeginCheck \/ Prepared \/ RecheckBefore \/ Cancel \/ Fetch \/ FetchFails \/ ReadObjects
  \/ RecheckAfter \/ RecheckInstallations \/ Build

-----------------------------------------------------------------------------
TrackingInit ==
  /\ \E i \in 1..Len(Worlds) : \E w \in Worlds[i] :
       /\ tree = w.tree /\ papers = w.papers /\ stored = w.record
       /\ upstream = w.upstream /\ allowed = w.allowed
  /\ place = "ours" /\ registration = "current" /\ accounted = TRUE /\ alone = TRUE
  /\ installed = Links
  /\ phase = "idle" /\ look = NoLook /\ form = NoForm /\ kept = NoneKept
  /\ locked = FALSE /\ cancelled = FALSE /\ pinned = Missing
  /\ answer = "none" /\ basis = Missing /\ faults = 0
  /\ stood = NowStood /\ touched = FALSE

TrackingNext == Others \/ Observe \/ Adoption \/ Check

TrackingSpec == TrackingInit /\ [][TrackingNext]_trackingVars


-----------------------------------------------------------------------------
(* Properties *)

Entry(manifest, p) ==
  IF \E e \in EntriesOf(manifest) : e.path = p THEN EntryAt(manifest, p) ELSE EntryOf(p, Absent)
ContentStood(manifest) == \A p \in TreePaths : Entry(manifest, p) \in stood.tree[p]

\* A walk that ends well has read each entry as it stood at some moment since the operation
\* last marked what stands (its begin, the end of its fetch, its commit, each of them at or
\* before the walk's first entry), whole: no file half of one writing and half of the next
\* (hash_file_bound, hash_directory_bound).
ManifestIsWhole ==
  [][look.step = "walk" /\ look'.step = "done" /\ look'.result = "good"
       => ContentStood(look'.entries)]_trackingVars

\* What a preview was built from stood after the fetch had ended, however long the fetch
\* took: the association, the registration, the directories, every file, and the
\* installations it names (check, between its two recheck_request calls).
PreviewStandsAfterFetch ==
  answer = "preview" =>
    /\ basis.kept.record \in stood.record /\ "current" \in stood.registration
    /\ basis.kept.dirs \in stood.place /\ basis.kept.links \in stood.installed
    /\ basis.kept.record.baseline = basis.kept.manifest
    /\ ContentStood(basis.kept.manifest)

\* The proposed tree can be put in the place of the local one: it holds the origin's
\* files and every notice of either side as it was, no name stands for two things on a
\* file system that ignores case, save two directories whose names differ only in case, a
\* directory that stays stays with its mode, and it is
\* within the limits the next walk applies.  And it is the local tree exactly when no file
\* would be written or removed: the baseline it is given is the one a walk would give it
\* (is_noop, compare_traversal_path).
ProposalHoldsEveryNotice(local, files, commit, at) ==
  /\ \A p \in PathsOf(local, "file") : IsNotice(p) => p \in DOMAIN files /\ files[p] = RegularFiles(local)[p]
  /\ \A p \in Selected(commit, at) : files[Below(at, p)] = FileOf(commit[p])
  /\ \A d \in Above(at), n \in NoticeNames : Append(d, n) \in DOMAIN commit =>
       files[<<n>>] = FileOf(commit[Append(d, n)])
ProposalIsATree(local, proposed) ==
  /\ \A e, f \in EntriesOf(proposed) :
       Folded(e.path) = Folded(f.path) => e = f \/ (e.kind = "directory" /\ f.kind = "directory")
  /\ \A e \in EntriesOf(proposed), d \in UNION {Above(f.path) : f \in EntriesOf(proposed)} :
       Folded(e.path) = Folded(d) => e.kind = "directory"
  /\ \A d \in PathsOf(local, "directory") : EntryAt(local, d) \in EntriesOf(proposed)
ProposalIsSound ==
  answer = "preview" =>
    LET local == basis.kept.manifest
        proposed == basis.proposed IN
    /\ ProposalHoldsEveryNotice(local, RegularFiles(proposed), basis.pinned.commit, basis.pinned.at)
    /\ ProposalIsATree(local, proposed)
    /\ Len(proposed) <= MaxEntries /\ BytesIn(proposed) <= MaxBytes
    /\ proposed = basis.kept.record.baseline <=> \A c \in basis.changes : c[1] = "preserve"

\* What a session commits as adopted stood after the record was inserted, while nobody
\* else could write the metadata: the content, the directories, and documents that
\* support the origin (apply, resolve).
AdoptionIsFounded ==
  [][phase = "recording" /\ stored' # stored =>
       /\ stored = Missing /\ registration = "current"
       /\ kept.dirs \in stood.place
       /\ ContentStood(stored'.baseline)
       /\ \E q \in stood.papers : Supported(q, stored'.origin)]_trackingVars

\* The verdict on a saved baseline: verified means that all of it stood since the commit,
\* failed that something differed or was written, incomplete that something could not
\* be read (verify_saved, ObservationFailure).
IsPortable(entry) == entry.kind = "file" /\ entry.bytes \in Portable
Undisclosed(q) == [q EXCEPT !.withheld = {}]
VerdictIsTrue ==
  /\ answer = "verified" =>
       /\ basis.record \in stood.record /\ basis.dirs \in stood.place
       /\ \E q \in stood.papers : ReadEvidence(q) = basis.evidence
       /\ ContentStood(basis.manifest)
  /\ answer = "failed" =>
       \/ touched
       \/ stored # basis.record \/ place # basis.dirs
       \/ ReadEvidence(Undisclosed(papers)) # basis.evidence
       \/ \E p \in TreePaths : Standing[p] # Entry(basis.manifest, p)
       \/ ~IsPortable(Entry(basis.manifest, Skill))
  /\ answer = "incomplete" => faults > 0 \/ \E q \in stood.papers : q.withheld # {}

TrackingTypes ==
  /\ phase \in {"idle", "form", "planning", "replanning", "confirming", "applying", "recording", "saved",
             "verifying", "preparing", "asking", "rechecking", "fetching", "objects", "answered",
             "comparing", "scanning", "building"}
  /\ look.step \in {"none", "place", "papers", "validate", "walk", "done"}
  /\ answer \in {"none", "refused", "cancelled", "preview", "verified", "failed", "incomplete"}
  /\ locked => phase \in {"applying", "recording"}
  /\ pinned # Missing => phase \in {"objects", "answered", "comparing", "scanning", "building"}
  /\ faults \in 0..MaxFaults

=============================================================================
