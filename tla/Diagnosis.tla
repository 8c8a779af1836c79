----------------------------- MODULE Diagnosis -----------------------------
(***************************************************************************)
(* One read-only pass over the agent roots (inventory.rs) and what it says *)
(* about one skill name: each installation's provenance and health, what   *)
(* OpenCode would load across the roots it consults, and which registered  *)
(* variants compete for the name (resolution.rs).  A root, an entry, a     *)
(* source or the metadata may be unreadable, the inspection budget may run *)
(* out, and links may be swapped while the pass is under way.              *)
(***************************************************************************)
EXTENDS Naturals, Sequences, FiniteSets

CONSTANTS
  Variants,       \* the registered variants of the name, each a directory in a checkout
  SourceOf,       \* the source of each variant
  Cases           \* the worlds a pass may begin in: a sequence of sets of records of them

Agents == {"claude", "codex", "opencode"}
ScanOrder == <<"claude", "codex", "opencode">>         \* AgentKind::ALL
RootOrder == <<"opencode", "codex", "claude">>         \* opencode_root_order

\* A place is a directory: a variant's, one of no registered source, the one where a
\* candidate that leads out of its checkout ends, or the physical directory that sits
\* in an agent's root, named by the agent.
Private == "private"
Outside == "outside"
Places == Variants \cup Agents \cup {Private}
Sources == {SourceOf[v] : v \in Variants}

\* A slot holds a place (its own: a directory; another: a link to it) or none of these.
Plain == {"absent", "file", "unreadable"}
None == "none"

\* Names of variants and sources are told from every other answer.
ASSUME VariantsAssumption ==
  /\ IsFiniteSet(Variants)
  /\ Variants \cap (Agents \cup Plain \cup {Private, Outside, None}) = {}
  /\ Variants \cap {"nowhere", "unknown", "unread", "unregistered", "unverified"} = {}
  /\ Sources \cap {"not applicable", "not registered", "unverified", "mixed",
                    "multiple sources"} = {}

ContentKinds == {"valid", "invalid", "file", "opaque", "sealed", "gone", "outside"}
RootKinds == {"present", "redirected", "missing", "orphaned", "unlistable", "denied"}
Catalogued == [class : {"common", "agent"}, owner : Agents \cup {None},
               compatible : SUBSET Agents]

\* Only a variant's candidate is held to its checkout, and a root that is not there has
\* no entry.
ASSUME CasesAssumption == \A i \in DOMAIN Cases : \A c \in Cases[i] :
  /\ c.slot \in [Agents -> Plain \cup Places]
  /\ c.content \in [Places -> ContentKinds]
  /\ \A p \in Places \ Variants : c.content[p] # "outside"
  /\ c.root \in [Agents -> RootKinds]
  /\ \A a \in Agents : c.root[a] \in {"missing", "orphaned"} => c.slot[a] = "absent"
  /\ c.selected \subseteq Agents
  /\ c.catalog \in [Variants -> Catalogued]
  /\ c.metadata \in BOOLEAN
  /\ c.budget \in Nat /\ c.others \in Nat

VARIABLES
  slot,               \* each root's entry under the name
  content,            \* what a place holds: "valid", "invalid", "file", "opaque" (it cannot
                      \* be read through), "sealed" (it cannot be reached), "gone", or
                      \* "outside": a way out of the checkout
  root,               \* each root: "present", "redirected" (through a link), "missing",
                      \* "orphaned" (its parent is missing too), "unlistable" or "denied"
  selected,           \* the agents Skilled is asked to manage
  catalog,            \* each variant's catalog: its class, owner and compatible agents
  readable,           \* the sources that can be read
  metadata,           \* whether Skilled's own metadata could be
  budget,             \* inspections left
  stage, todo,           \* where the pass is, and the agents left
  index,              \* the canonical paths of registered variants
  complete,           \* whether the index was built within the budget
  accountable,        \* whether it accounts for every source
  status, reading, seen,  \* of each root; the entry under inspection; the observations
  others, swapped,    \* the link swaps others may still make; whether one was made
  during              \* the swaps made since the entry was resolved

world == <<slot, content, root, selected, catalog, readable, metadata>>
pass == <<budget, stage, todo, index, complete, accountable, status, reading, seen>>
scanVars == <<world, pass, others, swapped, during>>

-----------------------------------------------------------------------------
(* Selection: usable_by, is_foreign_to, narrow *)

UsableBy(v, a) ==
  a \in catalog[v].compatible /\ catalog[v].owner \in {None, a}

ForeignTo(v, a) == catalog[v].owner \notin {None, a}

Narrow(variants, a) ==
  LET usable == {v \in variants : UsableBy(v, a)}
      exact == {v \in usable : catalog[v].class = "agent"}
  IN  IF exact # {} THEN exact ELSE usable

\* The candidates of every source that was read: an unreadable one offers none.
Offered == {v \in Variants : metadata /\ SourceOf[v] \in readable}
ReadableVariants == {v \in Offered : content[v] = "valid"}

WholeRegistry == metadata /\ Sources \subseteq readable

-----------------------------------------------------------------------------
(* The index *)

\* What stands in a root under the name, whether or not the root can be listed.
Entry(a) ==
  CASE root[a] \in {"missing", "orphaned"} -> "absent"
    [] root[a] = "denied" -> "unreadable"
    [] OTHER -> slot[a]

\* canonicalize, of a place that is there
Canonical(p) == IF content[p] = "outside" THEN Outside ELSE p

Accountable == WholeRegistry /\ \A v \in Offered : content[v] # "outside"

BuildIndex ==
  LET enough == budget >= Cardinality(Offered)
  IN  /\ stage = "index"
      /\ stage' = "roots"
      /\ budget' = IF enough THEN budget - Cardinality(Offered) ELSE 0
      /\ complete' = enough
      /\ accountable' = Accountable
      /\ index' = {v \in Offered : content[v] \notin {"gone", "sealed", "outside"}}
      /\ UNCHANGED <<world, todo, status, reading, seen, others, swapped, during>>

-----------------------------------------------------------------------------
(* One entry *)

\* provenance_of
Provenance(resolution) ==
  IF resolution # None THEN resolution
  ELSE IF accountable THEN "unregistered" ELSE "unverified"

Observation(object, at, provenance, health, validated) ==
  [object |-> object, at |-> at, provenance |-> provenance, health |-> health,
   validated |-> validated]
NotSeen == Observation("absent", "nowhere", None, "none", None)

\* the observation of the root's entry is made and the next root is taken
Conclude(a, observation) ==
  /\ seen' = [seen EXCEPT ![a] = observation]
  /\ status' = [status EXCEPT ![a] = "scanned"]
  /\ todo' = Tail(todo)
  /\ stage' = "roots"
  /\ reading' = None

\* a root that yields no entry
Leave(a, outcome) ==
  /\ status' = [status EXCEPT ![a] = outcome]
  /\ todo' = Tail(todo)
  /\ stage' = "roots"
  /\ reading' = None
  /\ UNCHANGED seen

\* root_status_for: of the roots that could not be read, only an absent one is missing.
Unread(a) == IF root[a] \in {"missing", "orphaned"} THEN "missing" ELSE "unreadable"

Listable(a) == root[a] \in {"present", "redirected"}

OpenRoot ==
  LET a == Head(todo)
      listed == IF slot[a] = "absent" THEN 0 ELSE 1
  IN
  /\ stage = "roots"
  /\ todo # <<>>
  /\ \/ /\ a \notin selected
        /\ Leave(a, "not selected")
        /\ UNCHANGED budget
     \/ /\ a \in selected
        /\ ~complete \/ ~Listable(a) \/ budget < listed
        /\ Leave(a, Unread(a))
        /\ UNCHANGED budget
     \/ /\ a \in selected /\ complete /\ Listable(a) /\ budget >= listed
        /\ budget' = budget - listed
        /\ IF listed = 0
           THEN Leave(a, "scanned")
           ELSE stage' = "observe" /\ UNCHANGED <<todo, status, reading, seen>>
  /\ UNCHANGED <<world, index, complete, accountable, others, swapped, during>>

\* The entry's type, its target and what the target resolves to.  A link that cannot be
\* followed is broken by a finding of its own: "unreachable".
Observe ==
  LET a == Head(todo)
      o == slot[a]
      link == o \in Places \ {a}
  IN
  /\ stage = "observe"
  /\ during' = 0
  /\ \/ /\ o \in {"absent", "unreadable"}
        /\ Conclude(a, Observation("unknown", "unknown", "unverified", "broken", None))
     \/ /\ o = "file"
        /\ Conclude(a, Observation("file", "nowhere", "unregistered", "not a skill", None))
     \/ /\ link /\ content[o] = "sealed"
        /\ Conclude(a, Observation("link", "unknown", "unverified", "unreachable", None))
     \/ /\ link /\ content[o] = "gone"
        /\ Conclude(a, Observation("link", "nowhere", Provenance(None), "broken", None))
     \/ /\ link /\ content[o] \notin {"gone", "sealed"}
        /\ reading' = [object |-> "link", at |-> Canonical(o), validated |-> None,
                       resolution |-> IF Canonical(o) \in index THEN o ELSE None]
        /\ stage' = "validate"
        /\ UNCHANGED <<todo, status, seen>>
     \/ /\ o = a
        /\ reading' = [object |-> "directory", at |-> a, validated |-> None,
                       resolution |-> None]
        /\ stage' = "validate"
        /\ UNCHANGED <<todo, status, seen>>
  /\ UNCHANGED <<world, budget, index, complete, accountable, others, swapped>>

\* What portable validation finds through the path as it stands now.
Found(a) ==
  IF slot[a] \notin Places THEN "opaque"
  ELSE CASE content[slot[a]] \in {"gone", "sealed"} -> "opaque"
         [] content[slot[a]] = "outside" -> "valid"
         [] content[slot[a]] = "file" -> "invalid"
         [] OTHER -> content[slot[a]]

\* unloadable_content: a failure that was read resolves to nothing.
Unloadable(found) == IF found = "invalid" THEN "nowhere" ELSE "unknown"

\* Running out of budget here leaves the whole root unreported.
Validate ==
  LET a == Head(todo)
  IN
  /\ stage = "validate"
  /\ \/ /\ Found(a) # "opaque" /\ budget = 0
        /\ Leave(a, Unread(a))
        /\ UNCHANGED budget
     \/ /\ Found(a) = "valid" /\ budget > 0
        /\ budget' = budget - 1
        /\ reading' = [reading EXCEPT !.validated = Canonical(slot[a])]
        /\ stage' = "settle"
        /\ UNCHANGED <<todo, status, seen>>
     \/ /\ Found(a) = "opaque" \/ (Found(a) = "invalid" /\ budget > 0)
        /\ budget' = IF Found(a) = "opaque" THEN budget ELSE budget - 1
        /\ Conclude(a, Observation(reading.object, Unloadable(Found(a)),
                                   Provenance(reading.resolution), "broken", None))
  /\ UNCHANGED <<world, index, complete, accountable, others, swapped, during>>

\* Fault: the label is kept without asking where the path leads now.
ResolutionAsRead(a) == reading.resolution

\* The resolution still described by the path, which is resolved once more.
StillResolved(a) ==
  IF \/ reading.object = "directory"
     \/ /\ slot[a] \in Places
        /\ content[slot[a]] \notin {"gone", "sealed"}
        /\ Canonical(slot[a]) = reading.at
  THEN reading.resolution
  ELSE None

Settle ==
  LET a == Head(todo)
      provenance == Provenance(StillResolved(a))
  IN
  /\ stage = "settle"
  /\ Conclude(a, Observation(reading.object, reading.at, provenance,
                   CASE provenance = "unregistered" -> "unmanaged"
                     [] provenance = "unverified" -> "unverified"
                     [] OTHER -> "healthy",
                   reading.validated))
  /\ UNCHANGED <<world, budget, index, complete, accountable, others, swapped, during>>

\* Every root has been taken; what the pass states follows from `seen' and `status'.
Finish ==
  /\ stage = "roots"
  /\ todo = <<>>
  /\ stage' = "done"
  /\ UNCHANGED <<world, budget, todo, index, complete, accountable, status, reading, seen,
                 others, swapped, during>>

\* Someone swaps or removes a link while the pass is under way.
Swap(a) ==
  /\ stage \in {"index", "roots", "observe", "validate", "settle"}
  /\ others > 0
  /\ slot[a] \in Variants \cup {Private}
  /\ \E o \in (Variants \cup {Private, "absent"}) \ {slot[a]} :
       slot' = [slot EXCEPT ![a] = o]
  /\ others' = others - 1
  /\ swapped' = TRUE
  /\ during' = IF during < 2 THEN during + 1 ELSE during
  /\ UNCHANGED <<content, root, selected, catalog, readable, metadata, pass>>

-----------------------------------------------------------------------------
(* What the pass states about the name *)

\* is_installation: an entry nobody could read may be one; is_skill: it is not claimed as one
Installation(a) == seen[a].object \notin {"absent", "file"}
IsSkill(a) == seen[a].object \in {"link", "directory"}
HasRow == \E a \in Agents : seen[a] # NotSeen

\* Fault: an entry whose content is unknown offers nothing.
SightingOfPlaces(a) ==
  IF status[a] = "missing" THEN "nowhere"
  ELSE IF status[a] # "scanned" THEN "unread"
  ELSE IF ~Installation(a) THEN "nowhere"
  ELSE IF seen[a].at = "unknown" THEN "nowhere" ELSE seen[a].at

\* root_sightings: what a root offers OpenCode: a place, "nowhere", "unknown" or "unread"
Sighting(a) ==
  IF status[a] = "missing" THEN "nowhere"
  ELSE IF status[a] # "scanned" THEN "unread"
  ELSE IF ~Installation(a) THEN "nowhere"
  ELSE seen[a].at

\* resolve_opencode: the kind of answer and, where there is one, the root that wins, from
\* what each root offers and the variant, if it is one, that the offer was placed as
ResolveOpenCode(sighting, variant) ==
  LET offers == {i \in 1..3 : sighting[RootOrder[i]] \notin {"nowhere", "unread", "unknown"}}
      dirs == {sighting[RootOrder[i]] : i \in offers}
      winner == RootOrder[CHOOSE i \in offers : \A j \in offers : i <= j]
      all(P(_)) == \A i \in offers : LET v == variant[RootOrder[i]] IN v \in Variants /\ P(v)
      foreign(v) == ForeignTo(v, "opencode")
      excluded(v) == "opencode" \notin catalog[v].compatible
      answer(kind) == [kind |-> kind, winner |-> winner]
  IN  IF \E a \in Agents : sighting[a] \in {"unread", "unknown"}
      THEN [kind |-> "incomplete", winner |-> None]
      ELSE IF offers = {} THEN [kind |-> "nothing", winner |-> None]
      ELSE IF Cardinality(dirs) > 1 THEN answer("conflict")
      ELSE IF all(foreign) THEN answer("foreign")
      ELSE IF all(excluded) THEN answer("incompatible")
      ELSE answer("selected")

Resolution ==
  IF "opencode" \notin selected THEN [kind |-> "unasked", winner |-> None]
  ELSE ResolveOpenCode([a \in Agents |-> Sighting(a)], [a \in Agents |-> seen[a].provenance])

\* counts_are_complete, stated_skill_count (of this one name), stated_finding_count
CountsAreComplete ==
  /\ \A a \in Agents : status[a] \in {"scanned", "missing", "not selected"}
  /\ \E a \in Agents : status[a] \in {"scanned", "missing"}

SkillCountStated == CountsAreComplete /\ \E a \in Agents : status[a] = "scanned"
SkillCount == IF \E a \in Agents : IsSkill(a) THEN 1 ELSE 0

FindingCountStated == WholeRegistry /\ SkillCountStated

\* selection_findings: an ambiguity is critical where the agent already loads the name.
Ambiguous(a) == a \in selected /\ Cardinality(Narrow(ReadableVariants, a)) > 1
Critical(a) ==
  /\ Ambiguous(a)
  /\ \/ Installation(a)
     \/ a = "opencode" /\ HasRow /\ Resolution.kind \notin {"unasked", "incomplete", "nothing"}

\* InventoryRow::provenance
RowProvenance ==
  LET found == {a \in Agents : Installation(a)}
      from == {SourceOf[seen[a].provenance] : a \in {b \in found : seen[b].provenance \in Variants}}
  IN  IF found = {} THEN "not applicable"
      ELSE IF \E a \in Agents : seen[a].provenance = "unverified" THEN "unverified"
      ELSE IF from = {} THEN "not registered"
      ELSE IF \E a \in Agents : seen[a].provenance = "unregistered" /\ seen[a].validated # None
      THEN "mixed"
      ELSE IF Cardinality(from) = 1 THEN CHOOSE s \in from : TRUE
      ELSE "multiple sources"

-----------------------------------------------------------------------------
Begins(c, at) ==
  /\ slot = c.slot /\ content = c.content
  /\ root = c.root /\ selected = c.selected
  /\ catalog = c.catalog /\ readable = c.readable /\ metadata = c.metadata
  /\ budget = c.budget /\ others = c.others
  /\ stage = at /\ todo = ScanOrder
  /\ index = {} /\ complete = FALSE /\ accountable = FALSE
  /\ status = [a \in Agents |-> "not scanned"]
  /\ reading = None /\ seen = [a \in Agents |-> NotSeen]
  /\ swapped = FALSE /\ during = 0

Pass ==
  \/ BuildIndex
  \/ OpenRoot
  \/ Observe
  \/ Validate
  \/ Settle
  \/ Finish
  \/ \E a \in Agents : Swap(a)

-----------------------------------------------------------------------------
(* Properties *)

\* Shape of the state.
PassShape ==
  /\ \A a \in Agents : slot[a] \in Plain \cup Places
  /\ budget \in Nat /\ others \in Nat /\ during \in 0..2
  /\ stage \in {"plan", "recheck", "write", "refused", "index", "roots", "observe", "validate",
               "settle", "done"}
  /\ index \subseteq Variants
  /\ stage \in {"observe", "validate", "settle"} => todo # <<>>

\* What each root offers and what OpenCode would load from the three, if the content
\* nobody could look at is a skill in the roots `hidden' and none in the others.
Loads(a, hidden) ==
  IF Entry(a) = "unreadable" THEN {a} \cap hidden
  ELSE IF Entry(a) \in {"absent", "file"} THEN {}
  ELSE IF content[slot[a]] \in {"valid", "outside"} THEN {Canonical(slot[a])}
  ELSE IF content[slot[a]] \in {"opaque", "sealed"} /\ a \in hidden THEN {slot[a]}
  ELSE {}
Loaded(hidden) == UNION {Loads(a, hidden) : a \in Agents}
Winner(hidden) ==
  RootOrder[CHOOSE i \in 1..3 : /\ Loads(RootOrder[i], hidden) # {}
                                /\ \A j \in 1..(i - 1) : Loads(RootOrder[j], hidden) = {}]

\* What is said of OpenCode is so, whatever the content is that nobody could look at: an
\* answer that is given names the directory OpenCode would load, calls two directories a
\* conflict and one an alias, and says a variant is selected only if OpenCode may use it;
\* an incomplete answer is the way out.  Only over a source that cannot be read may a
\* variant pass for content of no source.  Links swapped meanwhile excuse.
ResolutionIsTrue ==
  LET said == Resolution
      unusable(hidden) ==
        \E v \in Variants : Loaded(hidden) = {v} /\ ~UsableBy(v, "opencode")
  IN
  (stage = "done" /\ ~swapped /\ said.kind \notin {"unasked", "incomplete"}) =>
     \A hidden \in SUBSET Agents :
        /\ said.kind = "nothing" <=> Loaded(hidden) = {}
        /\ said.kind = "conflict" <=> Cardinality(Loaded(hidden)) > 1
        /\ said.kind # "nothing" => said.winner = Winner(hidden)
        /\ said.kind \in {"foreign", "incompatible"} => unusable(hidden)
        /\ said.kind = "selected" => ~unusable(hidden) \/ ~accountable

\* "Unmanaged" is a proof and not a failure to find: the link leads to no directory a
\* registered source offers, in a source that could be read or in one that could not.
\* A link swapped while it was inspected excuses: its label is dropped.
UnmanagedIsProven ==
  \A a \in Agents :
     (seen'[a] # seen[a] /\ seen'[a].health = "unmanaged" /\ during = 0)
       => ~\E v \in Variants : Canonical(v) = seen'[a].at

\* A healthy label describes the content that was validated.  Swapped and swapped back in
\* between is the window that stays.
LabelDescribesContent ==
  \A a \in Agents :
     (seen'[a] # seen[a] /\ seen'[a].health = "healthy" /\ during < 2)
       => seen'[a].validated = seen'[a].provenance

\* A number that is stated covers everything it was asked of: no root left unread hides
\* an installation from the count of skills, and no source left unread hides a variant
\* from the count of findings.  An ambiguity is critical only where the name is loaded.
CountsAreWhole ==
  (stage = "done" /\ ~swapped) =>
     /\ SkillCountStated => (SkillCount = 1 <=>
          \E a \in selected : Entry(a) \in Places)
     /\ FindingCountStated => \A a \in selected :
          Ambiguous(a) <=> Cardinality(Narrow({v \in Variants : content[v] = "valid"}, a)) > 1
     /\ Critical("opencode") =>
          Loaded({}) # {} \/ Entry("opencode") \in Places \cup {"unreadable"}

\* The one source a row names is the source of every installation of it that an agent
\* can load from a root that was read; an installation of another source or of none
\* makes the row mixed or unverified.
RowSourceIsTrue ==
  (stage = "done" /\ ~swapped /\ RowProvenance \in Sources) =>
     \A a \in Agents : \A p \in Loads(a, {}) :
        status[a] = "scanned" => p \in Variants /\ SourceOf[p] = RowProvenance

\* What a finished scan says is so: of each name which installation OpenCode selects and
\* which source all of them come from, and in its header how many there are of what
\* (scan_with_budget, InventoryRow, InventorySnapshot).
ScanIsTrue == ResolutionIsTrue /\ RowSourceIsTrue /\ CountsAreWhole

\* What is said of one link is so, although it is resolved, placed in the registry and
\* validated in steps that others come between (observe, classify).
LabelsAreTrue == [][UnmanagedIsProven /\ LabelDescribesContent]_scanVars

=============================================================================
