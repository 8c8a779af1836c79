------------------------- MODULE MCRepositoryUpdate -------------------------
(* Bounds for TLC: two candidates, two slots, and trees in which a skill is  *)
(* changed, renamed, added, removed, or replaced by a file.                    *)
EXTENDS RepositoryUpdate

MCNames == {"a", "b"}
MCSlots == {1, 2}
MCRowOf == [s \in MCSlots |-> IF s = 1 THEN "a" ELSE "b"]

Skill(name) == {<<Document, name>>}
Noted(name) == {<<Document, name>>, <<Extra, "text">>}
Beside == {<<Extra, "text">>}
File == {<<Root, "file">>}
Link == {<<Root, "link">>}

Before == {Noted("a")} \X {{}, Skill("b")}
After == ({Skill("a"), Skill("bad"), {}, File} \X {{}, Skill("b")})
           \cup {<<Beside, {}>>, <<Link, {}>>, <<{}, Noted("a")>>, <<{}, Skill("a")>>, <<Skill("b"), Skill("a")>>}
Both(p) == [c \in MCNames |-> IF c = "a" THEN p[1] ELSE p[2]]
Links(u) == [s \in MCSlots |-> IF s = 1 THEN "a" ELSE u]
Clean == [c \in MCNames |-> {}]
Littered == [Clean EXCEPT !["a"] = {Local}]
Previewed ==
  {<<Both(p), Both(q), w[1], w[2], "preview">> : p \in Before, q \in After,
     w \in {<<Links("b"), Clean>>, <<Links("b"), Littered>>, <<Links(Alias), Clean>>}}
Commanded ==
  {<<Both(<<Noted("a"), {}>>), Both(<<Skill("a"), Skill("b")>>), Links("a"), Clean, "check">>}
\* A link at what stands in a candidate's place, which the update deletes or replaces.
Aimed ==
  {<<Both(<<p, {}>>), Both(<<q, {}>>), Links(Elsewhere), Clean, "preview">> :
     p \in {File, Link}, q \in {{}, Beside, Skill("a"), Skill("bad")}}
MCSituations == Previewed \cup Commanded \cup Aimed
=============================================================================
