---------------------------- MODULE MCLinkPlanning -------------------------
(* Two variants of the name in two sources, and families of worlds: one    *)
(* for each group of things that can go wrong together.                    *)
EXTENDS LinkPlanning, TLC

CONSTANTS v1, v2, s1, s2
VS == {v1, v2}
SrcOf == (v1 :> s1) @@ (v2 :> s2)

Catalog(class, owner, compatible) ==
  [class |-> class, owner |-> owner, compatible |-> compatible]
Common == Catalog("common", None, Agents)
Catalogs == {Common, Catalog("common", None, {"claude", "codex"}),
             Catalog("agent", None, {"claude"}), Catalog("agent", "claude", Agents),
             Catalog("agent", "opencode", Agents), Catalog("agent", "opencode", {"claude"})}

Valid == [p \in VS \cup Agents \cup {Private} |-> "valid"]
Holding(x, y, z) == [Valid EXCEPT ![v1] = x, ![v2] = y, ![Private] = z]
Present == [a \in Agents |-> "present"]
CommonOnly == [v \in VS |-> Common]
ClaudeOnly == [v \in VS |-> Catalog("agent", "claude", Agents)]
Ample == 9

Slots(plain, places) ==
  {s \in [Agents -> plain \cup places \cup Agents] :
     \A a \in Agents : s[a] \in Agents => s[s[a]] = s[a]}
OwnOnly(slots) == {s \in slots : \A a \in Agents : s[a] \in Agents => s[a] = a}

\* what leads where, under every pair of catalogs
Layouts ==
  [slot : Slots({"absent"}, VS), content : {Valid}, root : {Present},
   selected : {Agents, {"opencode"}}, catalog : [VS -> Catalogs], readable : {{s1, s2}},
   metadata : {TRUE}, budget : {Ample}, others : {0}, request : {NoRequest}, receipts : {{}}]

\* contents, sources and metadata that are not what they should be
Broken ==
  [slot : [Agents -> {"absent", v1, v2, Private}],
   content : {Holding(x, y, z) : x \in {"valid", "invalid", "file", "opaque", "sealed", "gone", "outside"},
                                 y \in {"valid", "opaque", "outside"}, z \in {"valid", "sealed", "gone"}},
   root : {Present}, selected : {Agents}, catalog : {CommonOnly, ClaudeOnly},
   readable : SUBSET {s1, s2}, metadata : BOOLEAN, budget : {Ample}, others : {0}, request : {NoRequest}, receipts : {{}}]

\* entries and roots that cannot be read, and agents left alone
Roots == {w \in
  [slot : OwnOnly(Slots(Plain, {v1})), content : {Valid},
   root : [Agents -> {"present", "missing", "unlistable", "denied"}], selected : SUBSET Agents,
   catalog : {CommonOnly}, readable : {{s1, s2}}, metadata : {TRUE}, budget : {Ample},
   others : {0}, request : {NoRequest}, receipts : {{}}] :
  \A a \in Agents : w.root[a] = "missing" => w.slot[a] = "absent"}

\* an inspection budget that runs out somewhere
Budgets ==
  [slot : OwnOnly(Slots({"absent"}, {v1, Private})), content : {Valid}, root : {Present},
   selected : {Agents, {"codex", "opencode"}}, catalog : {CommonOnly},
   readable : {{s1}, {s1, s2}}, metadata : {TRUE}, budget : 0..(Ample - 1), others : {0}, request : {NoRequest}, receipts : {{}}]

\* links swapped during the pass
Swaps ==
  [slot : [Agents -> {"absent", v1, Private}],
   content : {Holding("valid", y, "valid") : y \in {"valid", "invalid", "opaque", "gone"}},
   root : {Present}, selected : {Agents}, catalog : {CommonOnly},
   readable : {{s2}, {s1, s2}}, metadata : {TRUE}, budget : {Ample}, others : {2}, request : {NoRequest},
   receipts : {{}}]

\* what Doctor offers for links with and without receipts
Receipt(a, v) == [agent |-> a, target |-> v]
Owned(agents) == {{Receipt(a, v) : a \in agents, v \in {v1}}, {Receipt(a, v) : a \in agents, v \in VS}}
Offers ==
  [slot : [Agents -> {"absent", v1, v2, Private}],
   content : {Holding(x, y, "valid") : x \in {"valid", "opaque", "sealed", "gone"},
                                       y \in {"valid", "gone"}},
   root : {Present, [Present EXCEPT !["codex"] = "redirected"]}, selected : {Agents},
   catalog : {CommonOnly, ClaudeOnly, [CommonOnly EXCEPT ![v1] = Catalog("agent", None, {"claude"})]},
   readable : SUBSET {s1, s2}, metadata : {TRUE}, budget : {Ample}, others : {0},
   request : {NoRequest}, receipts : Owned({"claude", "opencode"})]

Request(op, v, agents) == [op |-> op, variant |-> v, agents |-> agents]
Installs == {Request("install", v1, S) : S \in SUBSET Agents \ {{}}}
Repairs == {Request("repair", None, {a}) : a \in Agents}
Uninstalls == {Request("uninstall", None, S) : S \in SUBSET Agents \ {{}}}

\* plans over every layout, and over contents and roots that cannot all be read
Plans ==
  [slot : Slots({"absent"}, {v1, v2}), content : {Valid}, root : {Present},
   selected : {Agents, {"claude", "opencode"}}, catalog : [VS -> Catalogs], readable : {{s1, s2}},
   metadata : {TRUE}, budget : {Ample}, others : {0},
   request : Installs \cup Repairs \cup Uninstalls, receipts : Owned(Agents)]
BrokenPlans ==
  [slot : [Agents -> {"absent", "file", v1, v2, Private}],
   content : {Holding(x, y, z) : x \in {"valid", "opaque"}, y \in {"valid", "gone", "outside"},
                                 z \in {"valid", "invalid", "file", "opaque", "sealed"}},
   root : {Present}, selected : {Agents}, catalog : {CommonOnly},
   readable : {{s1}, {s2}, {s1, s2}}, metadata : {TRUE}, budget : {3, Ample}, others : {0},
   request : {Request("install", v1, {"claude"}), Request("install", v1, Agents)}
             \cup Repairs \cup {Request("uninstall", None, Agents)},
   receipts : Owned(Agents)]
RootPlans ==
  [slot : {[Present EXCEPT !["claude"] = x, !["codex"] = "absent", !["opencode"] = y] :
             x, y \in {"absent", v1, Private}},
   content : {Holding("valid", "invalid", "valid")},
   root : {[Present EXCEPT !["claude"] = x, !["codex"] = y, !["opencode"] = z] :
             x, z \in {"present", "unlistable", "redirected"},
             y \in {"present", "missing", "orphaned", "redirected", "denied"}},
   selected : SUBSET Agents, catalog : {CommonOnly}, readable : {{s1, s2}},
   metadata : {TRUE}, budget : {Ample}, others : {0},
   request : {Request("install", v1, S) : S \in {{"claude"}, {"codex"}, Agents}}
             \cup Repairs \cup {Request("uninstall", None, Agents)},
   receipts : Owned(Agents)]

\* others interfere between a plan and its pass, and in the pass
Races ==
  [slot : [Agents -> {"absent", v1, v2, Private}], content : {Holding("valid", "invalid", "valid")},
   root : {Present, [Present EXCEPT !["codex"] = "redirected"]}, selected : {Agents, {"claude"}},
   catalog : {CommonOnly, ClaudeOnly}, readable : {{s1, s2}}, metadata : {TRUE}, budget : {Ample},
   others : {1}, request : {Request("install", v1, Agents)} \cup Repairs
                           \cup {Request("uninstall", None, Agents)},
   receipts : Owned(Agents)]

Families == <<Layouts, Broken, Roots, Budgets, Swaps, Offers, Plans, BrokenPlans, RootPlans, Races>>
=============================================================================
