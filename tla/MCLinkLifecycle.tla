--------------------------- MODULE MCLinkLifecycle ---------------------------
(* Bounds for TLC: two variants of the skill's name, in two checkouts (so that *)
(* they compete) or in one (which offers now this one, now that).             *)
EXTENDS LinkLifecycle, TLC

CONSTANTS p1, p2, left, right, old, new

MCOneProc == {p1}
MCTwoProcs == {p1, p2}
MCOneSlot == {1}
MCTwoSlots == {1, 2}
MCCheckouts == {left, right}
MCOneCheckout == {left}
MCVariants == {old, new}
MCOneVariant == {old}
MCCheckoutOf == [v \in MCVariants |-> IF v = old THEN left ELSE right]
MCOneCheckoutOf == [v \in Variants |-> left]

(* Processes are interchangeable, and so are the checkouts together with their *)
(* variants.                                                                  *)
Swap == (left :> right @@ right :> left @@ old :> new @@ new :> old)
Keep == [x \in {left, right, old, new} |-> x]
Symmetry == {procs @@ other : procs \in Permutations(Procs), other \in {Swap, Keep}}
=============================================================================
