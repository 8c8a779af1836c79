---------------------------- MODULE MCUpdateCache ----------------------------
(* Bounds for TLC: one screen and one command, or three commands.             *)
EXTENDS UpdateCache, TLC

CONSTANTS s1, s2, c1, c2, c3

OneScreen == {s1}
OneCommand == {c1}
ThreeCommands == {c1, c2, c3}
NoProcess == {}

Symmetry == Permutations(Commands)
=============================================================================
