-------------------------- MODULE RepositoryUpdate --------------------------
(***************************************************************************)
(* A confirmed fast-forward of one registered checkout: the probe that     *)
(* reads it (RepositoryProbe), the analysis that                           *)
(* states what it will do to every installed link, the guards that re-read *)
(* what the analysis read, the merge, and the verification that holds the  *)
(* outcome to the statement (updates.rs, with app.rs and git.rs).  Between *)
(* any two steps other programs, or the merge's own hooks, may change the  *)
(* checkout, the links or the path.                                        *)
(*                                                                         *)
(* A tree maps each candidate of the one included catalog to its files, a  *)
(* file being a suffix and a content: {} is no entry, a file whose suffix  *)
(* is Root is the candidate itself, a regular file or a symbolic link.  A  *)
(* document's content is the name it declares, or "bad".                   *)
(***************************************************************************)
EXTENDS Naturals, FiniteSets, RepositoryProbe

CONSTANTS
  Names,          \* the catalog's candidates; rows may have these names too
  Slots,          \* one native root's entry each, under a name
  RowOf,          \* the name of each slot
  Situations,     \* <<tree before, tree after, link texts, untracked, way>> to begin with
  MaxOthers       \* how often others interfere

Document == "SKILL.md"
Extra == "notes"           \* a tracked file beside the document
Local == "local"           \* a file no revision has
Root == "."                \* the candidate's own path
Suffixes == {Document, Extra, Local, Root}

Elsewhere == "elsewhere"   \* a valid skill that belongs to no registered source
Alias == "alias"           \* a link of the user's own that others go through
Absent == "absent"
Targets == Names \cup {Elsewhere, Alias}

ASSUME RowsAssumption == RowOf \in [Slots -> Names]
ASSUME BoundAssumption == MaxOthers \in Nat
ASSUME NamesAssumption == {Elsewhere, Alias, Absent, "bad"} \cap Names = {}

\* A path holds one file or is a directory, nothing stands at a tracked path but what Git
\* has there, and an update is previewed or commanded.
SuffixesOf(files) == {f[1] : f \in files}
IsTree(t) ==
  /\ DOMAIN t = Names
  /\ \A c \in Names :
       /\ \A f \in t[c] : f = <<f[1], f[2]>> /\ f[1] \in Suffixes
       /\ Root \in SuffixesOf(t[c]) => \A f, g \in t[c] : f = g
ASSUME SituationsAssumption == \A s \in Situations :
  /\ IsTree(s[1]) /\ IsTree(s[2])
  /\ s[3] \in [Slots -> Targets \cup {Absent}]
  /\ s[4] \in [Names -> SUBSET {Extra, Local}]
  /\ \A c \in Names : s[4][c] \cap SuffixesOf(s[1][c]) = {}
  /\ s[5] \in {"preview", "check"}

\* Commits of one line: the previewed one, one on the way, the target, a later one.
Revisions == 1..4

VARIABLES
  base, tip,      \* the trees of revisions 1 and 2, and of 3 and 4
  previous,       \* what the branch named before
  links, alias,   \* the link in every slot, and the user's own
  stage,          \* where the run is
  registry,       \* the candidates of the sources as last loaded, and whether all were read
  plan,           \* the confirmed statement, once there is one
  before, after,  \* the two inventories that are compared
  write,          \* the merge was started
  reads,          \* whether the checkout may be read after it
  report,         \* what verification said: failed, withheld or error
  found,          \* where the merge found the branch, until others move it again
  others, late    \* how often others interfered, and whether after what they changed was
                  \* read for the last time before the write

repository == <<checkout, previous>>
asked == <<probe, done, since>>
agents == <<links, alias>>
course == <<stage, registry, plan, before, after, write, reads, report, found>>
updateVars == <<base, tip, repository, asked, agents, course, others, late>>

Nothing == [from |-> 0]

-----------------------------------------------------------------------------
(* Trees and what stands on disk *)

Tree(r) == IF r <= 2 THEN base ELSE tip

\* tree_regular_file_exists of candidate_skill_document
HoldsSkill(tree, c) == Document \in SuffixesOf(tree[c])

\* target_skill_document
DocumentOf(files) == {f[2] : f \in {g \in files : g[1] = Document}}

OnDisk(c) ==
  IF ~named THEN {}
  ELSE Tree(head)[c] \cup {<<s, "own">> : s \in untracked[c]}

IsDirectory(files) == files # {} /\ Root \notin SuffixesOf(files)

\* The candidates a walk of the catalog lists: every directory, skill or not.
CandidatesOnDisk == {c \in Names : IsDirectory(OnDisk(c))}

\* parse_changed_paths of diff-tree -r -M100%, a rename being both of its sides
AddedTo(old, new, c) == SuffixesOf(new[c]) \ SuffixesOf(old[c])
DeletedFrom(old, new, c) == SuffixesOf(old[c]) \ SuffixesOf(new[c])
ChangedIn(old, new, c) ==
  \E f \in old[c], g \in new[c] : f[1] = g[1] /\ f[2] # g[2]
Touched(old, new) == {c \in Names : old[c] # new[c]}

\* Exact renames from o to n, by suffix: Git prefers the same file name.
RenamedBetween(old, new, o, n) ==
  {s \in DeletedFrom(old, new, o) \cap AddedTo(old, new, n) :
     {f[2] : f \in {g \in old[o] : g[1] = s}} = {f[2] : f \in {g \in new[n] : g[1] = s}}}

\* Whether an untracked or ignored path is, holds or lies under an incoming one.
UntrackedCollision(old, new, extra) ==
  \E c \in Names : \E s \in AddedTo(old, new, c) \cup
                         (IF ChangedIn(old, new, c) THEN SuffixesOf(new[c]) ELSE {}) :
     \/ s \in extra[c]
     \/ s = Root /\ extra[c] # {}

\* bound_directory_entries: whatever is there, Git's or not
Listed(c) == SuffixesOf(OnDisk(c))

\* surviving_worktree_occupant: a file the update does not delete, or no directory.
Occupied(deleted, c) ==
  \/ ~IsDirectory(OnDisk(c))
  \/ \E s \in Listed(c) : <<c, s>> \notin deleted

DeletedPaths(old, new) ==
  UNION {{<<c, s>> : s \in DeletedFrom(old, new, c)} : c \in Names}

RemovalOutcome(old, new, c) ==
  LET occupied == Occupied(DeletedPaths(old, new), c)
  IN  IF new[c] # {} /\ new[c] # {<<Root, "file">>} THEN "Occupied"
      ELSE IF occupied THEN "Occupied"
      ELSE IF new[c] # {} THEN "ReplacedByFile" ELSE "Vacated"

-----------------------------------------------------------------------------
(* What a scan of the agent roots sees in a slot *)

Follow(target) == IF target = Alias THEN alias ELSE target

\* target_document_verdict and the validation a scan does, under the row's name
DocumentVerdict(row, documents) ==
  IF documents = {} THEN {<<"skill.missing_skill_md", "">>}
  ELSE IF "bad" \in documents THEN {<<"skill.invalid_frontmatter", "">>}
  ELSE IF documents # {row} THEN {<<"skill.name_mismatch", CHOOSE d \in documents : TRUE>>}
  ELSE {}

Health == [Healthy |-> 1, Unmanaged |-> 2, Broken |-> 3]

Observation(object, resolution, findings, health) ==
  [object |-> object, resolution |-> resolution, findings |-> findings, health |-> health]
NotInstalled == Observation(Absent, Absent, {}, 0)
Broken(object, resolution, findings) ==
  Observation(object, resolution, findings, Health.Broken)

Observe(s) ==
  LET target == links[s]
      c == Follow(target)
      resolution == IF c \in registry.candidates /\ OnDisk(c) # {} THEN c ELSE Absent
      verdict == DocumentVerdict(RowOf[s], DocumentOf(OnDisk(c)))
  IN  IF target = Absent THEN NotInstalled
      ELSE IF c = Elsewhere
      THEN Observation(target, Absent, {<<"install.unmanaged", "">>}, Health.Unmanaged)
      ELSE IF OnDisk(c) = {} THEN Broken(target, Absent, {<<"install.dangling_symlink", "">>})
      ELSE IF OnDisk(c) = {<<Root, "file">>}
      THEN Broken(target, resolution, {<<"skill.unreadable", "">>})
      ELSE IF ~IsDirectory(OnDisk(c))
      THEN Broken(target, Absent, {<<"skill.missing_skill_md", "">>})
      ELSE IF verdict # {} THEN Broken(target, resolution, verdict)
      ELSE IF resolution = Absent
      THEN Observation(target, Absent, {<<"install.unmanaged", "">>}, Health.Unmanaged)
      ELSE Observation(target, resolution, {}, Health.Healthy)

Inventory == [rows |-> [s \in Slots |-> Observe(s)], complete |-> registry.complete]

-----------------------------------------------------------------------------
(* affected_catalog_skills: what the update will do to every slot *)

IsRename(old, new, o, n) ==
  LET moved == RenamedBetween(old, new, o, n)
  IN  /\ o # n /\ moved # {}
      /\ AddedTo(old, new, o) = {} /\ ~ChangedIn(old, new, o)
      /\ DeletedFrom(old, new, n) = {} /\ ~ChangedIn(old, new, n)
      /\ DeletedFrom(old, new, o) = moved /\ AddedTo(old, new, n) = moved
      /\ ~HoldsSkill(new, o) /\ ~HoldsSkill(old, n)

\* Confirmed renames: the only one of either side.
Renames(old, new) ==
  LET all == {r \in Names \X Names : IsRename(old, new, r[1], r[2])}
  IN  {r \in all : \A q \in all : (q[1] = r[1] \/ q[2] = r[2]) => q = r}

InstalledFrom(rows, c) == {s \in Slots : rows[s].resolution = c}

\* revived_by_added_skill: links at the directory that load nothing now
AimedAt(rows, c) ==
  {s \in Slots : /\ rows[s].object # Absent /\ Follow(rows[s].object) = c
                 /\ rows[s].health = Health.Broken}
RevivedBy(rows, c) == {s \in AimedAt(rows, c) : RowOf[s] = c}

Invalidated(new, slots, c) ==
  UNION {{<<s, f, c>> : f \in DocumentVerdict(RowOf[s], DocumentOf(new[c]))} : s \in slots}

\* The candidates a skill appears in, stays in, and leaves.
Arriving(old, new) ==
  LET renames == Renames(old, new)
      sides == UNION {{r[1], r[2]} : r \in renames}
  IN  {c \in Touched(old, new) \ sides : HoldsSkill(new, c) /\ ~HoldsSkill(old, c)}
        \cup {r[2] : r \in renames}
Retained(old, new) ==
  {c \in Touched(old, new) : HoldsSkill(new, c)
                             /\ \A r \in Renames(old, new) : c \notin {r[1], r[2]}}
Leaving(old, new) ==
  {c \in Touched(old, new) : ~HoldsSkill(new, c)
                             /\ \A r \in Renames(old, new) : c \notin {r[1], r[2]}}
    \cup {r[1] : r \in Renames(old, new)}

Affected(old, new, inventory) ==
  LET rows == inventory.rows
      arriving == Arriving(old, new)
      retained == Retained(old, new)
      leaving == {c \in Leaving(old, new) : InstalledFrom(rows, c) # {}}
      outcome == [c \in leaving |-> RemovalOutcome(old, new, c)]
      invalidation ==
        (UNION {Invalidated(new, RevivedBy(rows, c), c) : c \in arriving})
          \cup (UNION {Invalidated(new, InstalledFrom(rows, c), c) : c \in retained})
      replaced == {c \in leaving : outcome[c] = "ReplacedByFile"}
  IN  [updated |-> UNION {{s \in InstalledFrom(rows, c) : Invalidated(new, {s}, c) = {}}
                            : c \in retained},
       dangling |-> UNION {InstalledFrom(rows, c) : c \in leaving \ replaced},
       nonLoadable |-> UNION {InstalledFrom(rows, c) : c \in replaced},
       revival |-> UNION {{<<s, c>> : s \in {t \in RevivedBy(rows, c) :
                                               Invalidated(new, {t}, c) = {}}} : c \in arriving},
       invalidation |-> invalidation,
       added |-> {c \in arriving \cap retained : InstalledFrom(rows, c) = {}
                                                 /\ RevivedBy(rows, c) = {}},
       vacating |-> leaving \ replaced,
       replaced |-> replaced,
       complete |-> inventory.complete,
       findings |-> {<<"removal_leaves_content", c>> : c \in {d \in leaving : outcome[d] = "Occupied"}}
         \cup UNION {{<<"revival_name_mismatch", s>> : s \in AimedAt(rows, c) \ RevivedBy(rows, c)}
                       : c \in arriving}]

-----------------------------------------------------------------------------
(* The run *)

\* A preview follows a check that published what it fetched; a command checks itself.
InitProbe(way) ==
  /\ settings = {} /\ done = {} /\ since = {} /\ remote = 3
  /\ IF way = "preview"
     THEN upstream = "remote" /\ tracking = 3 /\ symbolic = FALSE
     ELSE upstream \in Upstreams /\ tracking \in {0, 1, 3} /\ symbolic \in BOOLEAN
  /\ probe = Asked(way, upstream, tracking)

UpdateInit ==
  /\ \E s \in Situations :
       base = s[1] /\ tip = s[2] /\ links = s[3] /\ untracked = s[4] /\ InitProbe(s[5])
  /\ alias \in Names \cup {Elsewhere}
  /\ head = 1 /\ previous = 0
  /\ dirty = FALSE /\ named = TRUE /\ promisor = FALSE
  /\ stage = "load" /\ registry = [candidates |-> {}, complete |-> FALSE]
  /\ plan = Nothing /\ before = Nothing /\ after = Nothing
  /\ write = FALSE /\ reads = TRUE /\ report = {} /\ found = 0
  /\ others = 0 /\ late = FALSE


Turn(here, there) ==
  /\ stage = here /\ stage' = there
  /\ found' = IF here = "merge" THEN head ELSE found
  /\ UNCHANGED <<base, tip, agents, tracking, dirty, untracked, named, promisor, configuration,
                 others, late>>
Step(here, there) == Turn(here, there) /\ UNCHANGED asked

\* registered_sources: an identity check, then a walk of the catalog.  The checkout
\* is not inspected when reads of it are withheld, its catalog is walked all the same.
LoadRegistry ==
  registry' = [candidates |-> IF named THEN CandidatesOnDisk ELSE {}, complete |-> named]

\* A preview scans and then asks; a command asks, which takes as long as the network
\* does, and then scans.
Load ==
  /\ Step("load", IF probe.way = "preview" THEN "scan" ELSE "probe") /\ LoadRegistry
  /\ UNCHANGED <<head, previous, plan, before, after, write, reads, report>>

\* rescan_installations, over the sources as they were loaded, here and below
Scan ==
  /\ IF probe.way = "preview" THEN Step("scan", "probe")
     ELSE probe.at = "done" /\ Step("probe", "plan")
  /\ before' = Inventory
  /\ UNCHANGED <<head, previous, registry, plan, after, write, reads, report>>

\* probe_repository_update and probe_repository_update_against
Ask ==
  /\ stage = "probe" /\ Probe
  /\ UNCHANGED <<base, tip, previous, agents, course, others, late>>

\* plan_repository_update: a plan is offered when the target is ahead and no finding
\* blocks it.  It is made from what was probed, by Git in the registered path.
Statement == Affected(Tree(probe.local), Tree(probe.revision), before)
Offered ==
  /\ Available /\ named
  /\ ~UntrackedCollision(Tree(probe.local), Tree(probe.revision), probe.untracked)
  /\ Statement.findings = {}

Probed(there) ==
  /\ probe.at = "done" /\ Turn(IF probe.way = "preview" THEN "probe" ELSE "plan", there)
  /\ probe' = Asked(probe.way, "none", 0) /\ done' = {} /\ since' = {}
  /\ UNCHANGED <<head, previous, registry, before, after, write, reads, report>>
Plan ==
  /\ Probed("confirmed") /\ Offered
  /\ plan' = [from |-> probe.local, to |-> probe.revision, of |-> probe.kind,
              affected |-> Statement]
Blocked == Probed("closed") /\ ~Offered /\ UNCHANGED plan

Rescan ==
  /\ Step("confirmed", "recheck") /\ before' = Inventory
  /\ UNCHANGED <<head, previous, registry, plan, after, write, reads, report>>

\* Fault: the installations the plan was confirmed for, taken from the preview.
UndisturbedByCommits ==
  named /\ ~promisor /\ head = plan.from

\* affected_installations_unchanged
Undisturbed ==
  /\ named /\ ~promisor
  /\ Affected(Tree(plan.from), Tree(plan.to), before) = plan.affected

\* validate_repository_update
StillValid ==
  LET old == Tree(plan.from)
      new == Tree(plan.to)
  IN  /\ named /\ ~promisor /\ ~dirty
      /\ head = plan.from
      /\ upstream = plan.of /\ TrackingValue = plan.to
      /\ ~UntrackedCollision(old, new, untracked)
      /\ \A c \in plan.affected.vacating : RemovalOutcome(old, new, c) = "Vacated"
      /\ \A c \in plan.affected.replaced : RemovalOutcome(old, new, c) = "ReplacedByFile"

Recheck ==
  /\ Step("recheck", "guard") /\ Undisturbed
  /\ UNCHANGED <<head, previous, registry, plan, before, after, write, reads, report>>
Guard ==
  /\ Step("guard", "merge") /\ StillValid
  /\ UNCHANGED <<head, previous, registry, plan, before, after, write, reads, report>>
Refuse ==
  /\ \/ Step("recheck", "decide") /\ ~Undisturbed
     \/ Step("guard", "decide") /\ ~StillValid
  /\ report' = {"error"}
  /\ UNCHANGED <<head, previous, registry, plan, before, after, write, reads>>

\* git merge --ff-only: moves the branch, its log and the worktree, and nothing when
\* the target is behind already.  It runs in the pinned directory, whatever the path names.
Merge ==
  /\ Step("merge", "decide")
  /\ head < plan.to => ~UntrackedCollision(Tree(head), Tree(plan.to), untracked)
  /\ head' = IF head < plan.to THEN plan.to ELSE head
  /\ previous' = IF head < plan.to THEN head ELSE previous
  /\ write' = TRUE
  /\ UNCHANGED <<registry, plan, before, after, reads, report>>
MergeFails ==
  /\ Step("merge", "decide")
  /\ write' = TRUE /\ report' = {"error"}
  /\ UNCHANGED <<head, previous, registry, plan, before, after, reads>>

\* PostWriteRepositoryReads::decide, whether or not the merge ran
Decide ==
  /\ Step("decide", "refresh") /\ reads' = ~promisor
  /\ UNCHANGED <<head, previous, registry, plan, before, after, write, report>>

Refresh ==
  /\ Step("refresh", "after") /\ LoadRegistry
  /\ UNCHANGED <<head, previous, plan, before, after, write, reads, report>>
ScanAfter ==
  /\ Step("after", "state") /\ after' = Inventory
  /\ UNCHANGED <<head, previous, registry, plan, before, write, reads, report>>

\* verify_repository_state
StateReport ==
  IF ~reads THEN {"withheld"}
  ELSE IF ~named THEN {"failed"}
  ELSE (IF head # plan.to THEN {"failed"}
        ELSE IF write /\ previous # plan.from THEN {"failed"} ELSE {})
       \cup (IF dirty THEN {"failed"} ELSE {})

VerifyState ==
  /\ Step("state", "installations") /\ report' = report \cup StateReport
  /\ UNCHANGED <<head, previous, registry, plan, before, after, write, reads>>

\* verify_repository_update_attempt, slot by slot: what each disclosed outcome requires
SameLink(b, a) == a.object = b.object /\ b.object # Absent
Dangles(a) == \E f \in a.findings : f[1] = "install.dangling_symlink"

InvalidationOf(s) == {i \in plan.affected.invalidation : i[1] = s}
RevivalOf(s) == {r \in plan.affected.revival : r[1] = s}

\* Fault: an installation the plan is silent about is asked for its health alone.
AsHealthy(s, b, a) ==
  IF b.resolution # Absent /\ s \in plan.affected.dangling
  THEN SameLink(b, a) /\ Dangles(a)
  ELSE IF InvalidationOf(s) # {}
  THEN \A i \in InvalidationOf(s) :
         /\ SameLink(b, a) /\ a.resolution \in {Absent, i[3]}
         /\ a.health = Health.Broken /\ i[2] \in a.findings
  ELSE IF b.resolution # Absent /\ s \in plan.affected.nonLoadable
  THEN SameLink(b, a) /\ a.health = Health.Broken /\ ~Dangles(a)
  ELSE IF RevivalOf(s) # {}
  THEN \A r \in RevivalOf(s) :
         SameLink(b, a) /\ a.health <= b.health /\ a.resolution = r[2]
  ELSE SameLink(b, a) /\ a.health <= b.health

AsDisclosed(s, b, a) ==
  IF b.resolution # Absent /\ s \in plan.affected.dangling
  THEN SameLink(b, a) /\ Dangles(a)
  ELSE IF InvalidationOf(s) # {}
  THEN \A i \in InvalidationOf(s) :
         /\ SameLink(b, a) /\ a.resolution \in {Absent, i[3]}
         /\ a.health = Health.Broken /\ i[2] \in a.findings
  ELSE IF b.resolution # Absent /\ s \in plan.affected.nonLoadable
  THEN SameLink(b, a) /\ a.health = Health.Broken /\ ~Dangles(a)
  ELSE IF RevivalOf(s) # {}
  THEN \A r \in RevivalOf(s) :
         SameLink(b, a) /\ a.health <= b.health /\ a.resolution = r[2]
  ELSE SameLink(b, a) /\ a.health <= b.health /\ a.resolution = b.resolution

\* A finding the plan named: the outcome itself being observed.
Named(s, f) ==
  \/ s \in plan.affected.dangling /\ f[1] = "install.dangling_symlink"
  \/ s \in plan.affected.nonLoadable
       /\ f[1] \in {"skill.unreadable", "skill.missing_skill_md", "skill.invalid_frontmatter",
                    "skill.name_mismatch"}
  \/ \E i \in InvalidationOf(s) : i[2] = f

InstallationReport ==
  IF ~(before.complete /\ after.complete) THEN {"withheld"}
  ELSE IF \A s \in Slots :
            LET b == before.rows[s]
                a == after.rows[s]
            IN  /\ b.object # Absent => AsDisclosed(s, b, a)
                /\ b.object = Absent => a.object = Absent
                /\ \A f \in a.findings \ b.findings : Named(s, f)
       THEN {} ELSE {"failed"}

VerifyInstallations ==
  /\ Step("installations", "closed") /\ report' = report \cup InstallationReport
  /\ UNCHANGED <<head, previous, registry, plan, before, after, write, reads>>

-----------------------------------------------------------------------------
(* Other programs, the user, and the hooks of the merge *)

Confirmed == {"recheck", "guard", "merge", "decide", "refresh", "after", "state", "installations"}

Interfere ==
  /\ stage # "closed" /\ others < MaxOthers
  /\ others' = others + 1
  /\ UNCHANGED <<base, tip, stage, registry, plan, before, after, write, reads, report>>
  /\ UNCHANGED <<probe, done>>

\* The links are read once more when the plan is confirmed, the catalogs are not.
MarkLate ==
  late' = \/ late
          \/ stage \in Confirmed
          \/ stage # "load" /\ CandidatesOnDisk' # CandidatesOnDisk

Relink ==
  /\ Interfere
  /\ \/ \E s \in Slots, t \in Targets \cup {Absent} :
          links' = [links EXCEPT ![s] = t] /\ UNCHANGED alias
     \/ alias' \in Names \cup {Elsewhere} /\ UNCHANGED links
  /\ UNCHANGED <<repository, found, since>> /\ MarkLate

\* A file arrives in, or leaves, the worktree beside what Git tracks there.
Litter ==
  /\ Interfere
  /\ \E c \in Names, s \in {Extra, Local} :
       /\ {s, Root} \cap SuffixesOf(Tree(head)[c]) = {}
       /\ untracked' = [untracked EXCEPT ![c] = IF s \in @ THEN @ \ {s} ELSE @ \cup {s}]
  /\ UNCHANGED <<head, tracking, dirty, named, promisor, configuration>>
  /\ UNCHANGED <<agents, previous, found, since>> /\ MarkLate

MoveHead ==
  /\ Interfere
  /\ \E r \in Revisions \ {head} :
       /\ ~UntrackedCollision(Tree(head), Tree(r), untracked)
       /\ head' = r /\ previous' = head /\ found' = 0
  /\ UNCHANGED <<tracking, dirty, untracked, named, promisor, configuration>>
  /\ UNCHANGED <<agents, since>> /\ MarkLate

Disturb ==
  /\ Interfere
  /\ \/ tracking' = 4 /\ UNCHANGED <<dirty, named, promisor>>
     \/ dirty' = ~dirty /\ UNCHANGED <<tracking, named, promisor>>
     \/ named' = ~named /\ UNCHANGED <<tracking, dirty, promisor>>
     \/ promisor' = TRUE /\ UNCHANGED <<tracking, dirty, named>>
  /\ UNCHANGED <<head, untracked, configuration>>
  /\ UNCHANGED <<agents, previous, found, since>> /\ MarkLate

\* The configuration, and the upstream, are left alone once nobody asks for them.
Reconfigure ==
  /\ Interfere /\ stage = "probe" /\ probe.at # "done"
  /\ (Configure \/ (remote < 4 /\ Advance))
  /\ UNCHANGED <<head, tracking, dirty, untracked, named, promisor>>
  /\ UNCHANGED <<agents, previous, found>> /\ MarkLate

UpdateNext ==
  \/ Load \/ Scan \/ Ask \/ Plan \/ Blocked \/ Rescan \/ Recheck \/ Guard \/ Refuse
  \/ Merge \/ MergeFails \/ Decide \/ Refresh \/ ScanAfter \/ VerifyState \/ VerifyInstallations
  \/ Relink \/ Litter \/ MoveHead \/ Disturb \/ Reconfigure

UpdateSpec == UpdateInit /\ [][UpdateNext]_updateVars

-----------------------------------------------------------------------------
(* Properties *)

\* Every variable holds a value of its kind, and no untracked file stands where Git has one.
UpdateTypes ==
  /\ head \in Revisions /\ {previous, tracking, remote} \subseteq Revisions \cup {0}
  /\ settings \subseteq Programs /\ upstream \in Upstreams
  /\ {dirty, named, promisor, symbolic, write, reads, late} \subseteq BOOLEAN
  /\ untracked \in [Names -> SUBSET {Extra, Local}]
  /\ \A c \in Names : untracked[c] \cap SuffixesOf(Tree(head)[c]) = {}
  /\ links \in [Slots -> Targets \cup {Absent}] /\ alias \in Names \cup {Elsewhere}
  /\ registry.candidates \subseteq Names
  /\ report \subseteq {"failed", "withheld", "error"} /\ others \in 0..MaxOthers

Passed == stage = "closed" /\ plan # Nothing /\ write /\ report = {}

\* No broken link that leads to no candidate is aimed at a path to which the update gives
\* something else that is no skill: what it will then say is not part of any statement.
AimsAreStated ==
  \A s \in Slots :
    LET row == before.rows[s]
        c == Follow(row.object)
    IN  row.health = Health.Broken /\ row.resolution = Absent /\ c \in Names =>
          Tree(plan.to)[c] = Tree(plan.from)[c] \/ HoldsSkill(Tree(plan.to), c)

\* A fast-forward that Git carried out is found to have done what its plan said, unless
\* somebody interfered after the plan was checked again, or the sources could not all be
\* read when it was made: the analysis of the trees, the worktree and the links predicts the
\* inventory exactly, and every disagreement that arose before the write is a refusal
\* rather than an outcome.
PlansAreKept ==
  stage = "closed" /\ write /\ "error" \notin report /\ ~late /\ before.complete /\ AimsAreStated
    => Passed

\* A check runs no program that the checkout's own configuration names, and replaces no
\* symbolic reference, except those that somebody put there after the last question it can
\* ask about them; and those that are settled for the fetch not even then.
ChecksKeepToTheirWord == done \subseteq since \ Settled

\* What the confirmed plan said of an installation.
StatedOf(s) ==
  \/ s \in plan.affected.updated \cup plan.affected.dangling \cup plan.affected.nonLoadable
  \/ InvalidationOf(s) \cup RevivalOf(s) # {}

\* A verified update is one whose merge, or whose like by somebody else, brought exactly
\* the range on the screen, though the guard reads the branch and the merge moves it
\* afterwards; and it changed nothing about any installation that the confirmed plan did
\* not name: the same links stand, and the state of each is as before or as stated.  If others
\* interfered meanwhile, an installation may have become healthy by their doing.
WhatChangedWasStated ==
  Passed =>
    /\ found # 0 => found = plan.from \/ (found = plan.to /\ previous = plan.from)
    /\ \A s \in Slots :
         /\ after.rows[s].object = before.rows[s].object
         /\ after.rows[s] # before.rows[s] =>
              StatedOf(s) \/ (late /\ after.rows[s].health < before.rows[s].health)
=============================================================================
