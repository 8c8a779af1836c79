---------------------------- MODULE MCOriginCache ----------------------------
(* Bounds for TLC: two processes, two Git children, two entries and three     *)
(* generations, so that a crashed check is followed by two more.              *)
EXTENDS OriginCache

CONSTANTS p1, p2, c1, c2, pack, index

MCProcs == {p1, p2}
MCChildren == {c1, c2}
MCEntries == {pack, index}
=============================================================================
