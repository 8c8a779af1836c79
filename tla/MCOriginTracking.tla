---------------------------- MODULE MCOriginTracking ----------------------------
(* Bounds for TLC: skills of a few files, a commit with the skill one directory down, *)
(* and families of worlds: others interfering with a check, with an adoption, many    *)
(* trees against many commits, many documents against every origin.                   *)
EXTENDS OriginTracking, TLC

CONSTANTS here, there, unknown

MCRepositories == {here, there}
MCDirectories == {"pack", "other"}

MCRank == ("Docs" :> 1) @@ ("LICENSE" :> 2) @@ ("License" :> 3) @@ ("SKILL.md" :> 4)
            @@ ("a" :> 5) @@ ("docs" :> 6) @@ ("pack" :> 7)
MCFold == ("Docs" :> "docs") @@ ("LICENSE" :> "license") @@ ("License" :> "license")
            @@ ("SKILL.md" :> "skill.md") @@ ("a" :> "a") @@ ("docs" :> "docs") @@ ("pack" :> "pack")
MCNoticeNames == {"LICENSE", "License"}

x == <<"x", "x">>
y == <<"y", "y">>
broken == <<"z">>
MCPortable == {x, y}
MCContents == {x, y, broken}
MCChunks == {"x", "y", "z", "t"}

DirNode == [kind |-> "directory", executable |-> TRUE, bytes |-> <<>>, stamp |-> 0]
FileNode(b) == [kind |-> "file", executable |-> FALSE, bytes |-> b, stamp |-> 0]
LinkNode == [kind |-> "link", executable |-> TRUE, bytes |-> <<"t">>, stamp |-> 0]

License == <<"LICENSE">>
Docs == <<"docs">>
DocsA == <<"docs", "a">>
DocsLicense == <<"docs", "LICENSE">>

Present(t) == [p \in {q \in DOMAIN t : t[q] # Absent} |-> t[p]]
\* What a walk over a tree at rest gives.
WalkOf(t) ==
  LET paths == ByName(DOMAIN Present(t))
  IN  [i \in DOMAIN paths |-> [path |-> paths[i], kind |-> t[paths[i]].kind,
                               executable |-> t[paths[i]].executable, bytes |-> t[paths[i]].bytes]]

NoPapers == [binding |-> "elsewhere", of |-> [i \in Inputs |-> Blank], withheld |-> {}]
Adopted(t) == [origin |-> [repository |-> here, subdirectory |-> "pack"], baseline |-> WalkOf(t)]

\* Commits: the skill at pack/, a notice beside it or above it, and a second file.
Blob(b) == [mode |-> "100644", bytes |-> b]
Put(path, options) == {path :> b : b \in options}
Here == {<<>>}
Joined(A, B) == {a @@ b : a \in A, b \in B}
Commits ==
  Joined(Put(<<"pack", "SKILL.md">>, {Blob(x), Blob(y)}),
  Joined(Here \cup Put(<<"pack", "LICENSE">>, {Blob(x), Blob(y)}) \cup Put(<<"pack", "License">>, {Blob(x)}),
  Joined(Here \cup Put(<<"LICENSE">>, {Blob(x), Blob(y), [mode |-> "120000", bytes |-> x]})
           \cup Put(<<"License">>, {Blob(x)}),
         Here \cup Put(<<"pack", "docs", "a">>, {Blob(x), [mode |-> "100755", bytes |-> x]})
           \cup Put(<<"pack", "docs">>, {Blob(x)}) \cup Put(<<"pack", "Docs", "a">>, {Blob(x)})
           \cup Put(<<"pack", "Docs">>, {Blob(x)}))))
Broken == <<"pack", "SKILL.md">> :> Blob(broken)
Pins(commits) == {[commit |-> c, at |-> <<"pack">>] : c \in commits}
Small == {<<"pack", "SKILL.md">> :> Blob(y)}

Quiet == [kinds |-> {}, left |-> 0]
Tree(license, docs, a, notice) ==
  (Root :> DirNode) @@ (Skill :> FileNode(x)) @@ (License :> license) @@ (Docs :> docs)
    @@ (DocsA :> a) @@ (DocsLicense :> notice)
Trees ==
  {t \in {Tree(l, d, a, n) : l \in {Absent, FileNode(x)},
                             d \in {Absent, DirNode, [DirNode EXCEPT !.executable = FALSE], FileNode(x), LinkNode},
                             a \in {Absent, FileNode(x)}, n \in {Absent, FileNode(y)}} :
     t[Docs] # DirNode => t[DocsA] = Absent /\ t[DocsLicense] = Absent}

\* Any tree against any commit, nobody interfering.
Comparisons ==
  {[tree |-> t, papers |-> NoPapers, record |-> Adopted(t), upstream |-> Pins(Commits \cup {Broken}), allowed |-> Quiet]
     : t \in Trees}

\* A check, others at work.
Working == (Root :> DirNode) @@ (Skill :> FileNode(x)) @@ (Docs :> DirNode) @@ (DocsA :> FileNode(x))
Interfered ==
  {[tree |-> Working, papers |-> NoPapers, record |-> Adopted(Working), upstream |-> Pins(Small),
    allowed |-> [kinds |-> {"tree", "place", "record", "registration", "links", "cancel"}, left |-> 2]]}

\* An adoption, others at work; the lock file names the origin.
Blanks == [i \in Inputs |-> Blank]
Lock(dir) == TextOf({[repository |-> here, subdirectory |-> dir]})
Noted == [NoPapers EXCEPT !.of["lock"] = Lock("pack")]
Adopting ==
  {[tree |-> Working, papers |-> Noted, record |-> Missing, upstream |-> Pins(Small),
    allowed |-> [kinds |-> {"tree", "place", "papers", "record", "registration"}, left |-> 2]]}

\* Any documents against any origin.
Bare == (Root :> DirNode) @@ (Skill :> FileNode(x))
Hint(r, d) == [repository |-> r, subdirectory |-> d]
Says == {Blank, Malformed, Spoilt, TextOf({Hint(here, unknown)}), TextOf({Hint(here, "pack")}),
         TextOf({Hint(here, unknown), Hint(here, "pack")}), TextOf({Hint(here, "pack"), Hint(there, "other")})}
MCDocuments == {Blank, Spoilt, TextOf({Hint(there, "other")})}
Locks == {Blank, Malformed, Lock("pack"), Lock("other")}
Attributions ==
  {[tree |-> Bare, record |-> Missing, upstream |-> Pins(Small), allowed |-> Quiet,
    papers |-> [binding |-> b, withheld |-> {},
                of |-> [Blanks EXCEPT !["table"] = t, !["notes"] = n, !["lock"] = l]]]
     : b \in {"bound", "elsewhere", "ambiguous"}, t \in Says, n \in Says, l \in Locks}

MCWorlds == <<Comparisons, Interfered, Adopting, Attributions>>
=============================================================================
