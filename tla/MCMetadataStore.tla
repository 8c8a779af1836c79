--------------------------- MODULE MCMetadataStore ---------------------------
(* Bounds for TLC: two processes, a schema with one rebuilding step and one that *)
(* adds identities, a checkout, its clone, which holds its commit, and a third. *)
EXTENDS MetadataStore, TLC

CONSTANTS p1, p2, original, clone, unrelated

MCProcs == {p1, p2}
MCDestructive == {2}
MCCheckouts == {original, clone}
MCHolds == {<<original, original>>, <<clone, clone>>, <<clone, original>>}
MCStrangers == {original, unrelated}
MCUnrelated == {<<original, original>>, <<unrelated, unrelated>>}
Symmetry == Permutations(Procs)
=============================================================================
