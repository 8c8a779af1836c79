----------------------------- MODULE MCCheckRuns -----------------------------
(* Bounds for TLC: two workers, so that a check of either kind can start      *)
(* while a retired one is still ending.                                       *)
EXTENDS CheckRuns

CONSTANTS w1, w2

MCWorkers == {w1, w2}
=============================================================================
