------------------------- MODULE MCSkillReplacement -------------------------
(* Bounds for TLC: a file that is exchanged, one that makes way for a folder, *)
(* a file added in that folder, a stranger of each text.                      *)
EXTENDS SkillReplacement

CONSTANTS a, d, x, like, unlike

MCPaths == {a, d, x}
MCOld == [p \in MCPaths |-> IF p = x THEN "none" ELSE "file"]
MCNew == [p \in MCPaths |-> IF p = d THEN "folder" ELSE "file"]
MCUnder == [p \in MCPaths |-> IF p = x THEN {d} ELSE {}]
MCStrangers == {like, unlike}
MCStrangerText == [s \in MCStrangers |-> IF s = like THEN "after" ELSE "before"]
=============================================================================
