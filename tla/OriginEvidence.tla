----------------------------- MODULE OriginEvidence -----------------------------
(***************************************************************************)
(* What the local attribution files of a skill say of where it came from   *)
(* (provenance.rs): the root attribution table, the skill's own notes and  *)
(* the lock file are read into hints and problems, and the origin a user   *)
(* enters is accepted only when they support it.                           *)
(*                                                                         *)
(* Parsing is data: a document that can be read is the set of the hints    *)
(* its matching rows give, and whether one of these rows is malformed,     *)
(* unsupported or names another place.                                     *)
(***************************************************************************)
EXTENDS Naturals, FiniteSets

CONSTANTS
  Repositories,
  Directories,          \* subdirectories of an origin, "." among them
  Unknown,              \* a hint that names no subdirectory
  MaxCandidates         \* MAX_EVIDENCE_CANDIDATES

Hints == [repository : Repositories, subdirectory : Directories \cup {Unknown}]
Origins == [repository : Repositories, subdirectory : Directories]
ASSUME OriginsAssumption == Origins # {} /\ Unknown \notin Directories

\* root ATTRIBUTION.md, the skill's ATTRIBUTION.md, skills-lock.json
Inputs == {"table", "notes", "lock"}

\* "spoilt": it is there and is not text this reader takes (a link, too long, not UTF-8).
\* "withheld": whether it is there, or what it holds, cannot be read.
States == {"absent", "text", "spoilt"}
Blank == [state |-> "absent", hints |-> {}, malformed |-> FALSE]
TextOf(hints) == [state |-> "text", hints |-> hints, malformed |-> FALSE]
Malformed == [state |-> "text", hints |-> {}, malformed |-> TRUE]
Spoilt == [Blank EXCEPT !.state = "spoilt"]

\* Only a text says anything.
Texts == {d \in [state : States, hints : SUBSET Hints, malformed : BOOLEAN] :
            d.state # "text" => d.hints = {} /\ ~d.malformed}
Papers == [binding : {"bound", "elsewhere", "ambiguous"}, of : [Inputs -> Texts], withheld : SUBSET Inputs]

-----------------------------------------------------------------------------
(* read_evidence.  "papers" is what stands: [binding, of, withheld], where the     *)
(* table speaks of this skill when binding is "bound", of none here when it is      *)
(* "elsewhere", and of two directories when it is "ambiguous".                      *)

Opened(papers) == IF papers.binding = "bound" THEN Inputs ELSE Inputs \ {"table"}

\* read_optional_text: what each opened document answers.
Legible(papers) == {i \in Opened(papers) \ papers.withheld : papers.of[i].state = "text"}
Fingerprints(papers) ==
  {<<i, papers.of[i]>> : i \in {j \in Opened(papers) \ papers.withheld : papers.of[j].state # "spoilt"}}

\* The notes' bare repositories give way to the notes that pin a directory in them.
Pinned(hints) == {h.repository : h \in {g \in hints : g.subdirectory # Unknown}}
Narrowed(hints) == {h \in hints : h.subdirectory # Unknown \/ h.repository \notin Pinned(hints)}
HintsOf(papers, i) == IF i = "notes" THEN Narrowed(papers.of[i].hints) ELSE papers.of[i].hints

Offered(papers) == UNION {HintsOf(papers, i) : i \in Legible(papers)}
TooMany(papers) ==
  \/ Cardinality(Offered(papers)) > MaxCandidates
  \/ "notes" \in Legible(papers) /\ Cardinality(papers.of["notes"].hints) > MaxCandidates

Problems(papers) ==
  {<<"table", "ambiguous">> : b \in {papers.binding} \cap {"ambiguous"}}
    \cup {<<i, "withheld">> : i \in Opened(papers) \cap papers.withheld}
    \cup {<<i, "spoilt">> : i \in {j \in Opened(papers) \ papers.withheld : papers.of[j].state = "spoilt"}}
    \cup {<<i, "malformed">> : i \in {j \in Legible(papers) : papers.of[j].malformed}}
    \cup (IF TooMany(papers) THEN {<<"all", "limit">>} ELSE {})

ReadEvidence(papers) ==
  [candidates   |-> IF TooMany(papers) THEN {} ELSE Offered(papers),
   problems     |-> Problems(papers),
   fingerprints |-> Fingerprints(papers)]

Evidences ==
  [candidates : SUBSET Hints, fingerprints : SUBSET (Inputs \X Texts),
   problems : SUBSET ((Inputs \cup {"all"}) \X {"ambiguous", "withheld", "spoilt", "malformed", "limit"})]

UnavailableRead(e) == \E p \in e.problems : p[2] = "withheld"
InvalidRead(e) == \E p \in e.problems : p[2] = "spoilt"

\* change_is_unavailable: e differs from the previewed evidence only in what could
\* not be read.
ChangeIsUnavailable(e, before) ==
  /\ UnavailableRead(e)
  /\ ~InvalidRead(e)
  /\ ~ \E f \in e.fingerprints, g \in before.fingerprints : f[1] = g[1] /\ f[2] # g[2]

-----------------------------------------------------------------------------
(* Evidence::resolve *)

HintsFor(e, repository) == {h \in e.candidates : h.repository = repository}
KnownPaths(e, repository) == {h.subdirectory : h \in HintsFor(e, repository)} \ {Unknown}

Resolves(e, origin) ==
  /\ e.problems = {}
  /\ e.candidates # {} =>
       /\ HintsFor(e, origin.repository) # {}
       /\ KnownPaths(e, origin.repository) # {} =>
            origin.subdirectory \in KnownPaths(e, origin.repository)

\* What the documents themselves say, read by nobody: an origin is supported when none
\* of them is in doubt and they name it, or name its repository and no directory of
\* it, or name nothing.
Supported(papers, origin) ==
  LET said == UNION {papers.of[i].hints : i \in Opened(papers)} IN
  /\ papers.binding # "ambiguous"
  /\ \A i \in Opened(papers) : papers.of[i].state # "spoilt" /\ ~papers.of[i].malformed
  /\ \/ said = {}
     \/ origin \in said
     \/ /\ \E h \in said : h.repository = origin.repository
        /\ \A h \in said : h.repository = origin.repository => h.subdirectory = Unknown
=============================================================================
