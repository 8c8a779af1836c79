--------------------------- MODULE LinkReplacement ---------------------------
(***************************************************************************)
(* What a repair promises about the directory entry it replaces, whatever  *)
(* other writers do to that entry meanwhile (docs/safety.md, "Repair       *)
(* replaces through an atomic exchange", and the doc comment of            *)
(* replace_directory_symlink in src/operations.rs).                        *)
(*                                                                         *)
(* The slot holds one object at a time.  Objects the repair takes out of   *)
(* the slot are set aside, never overwritten, and only an object whose     *)
(* text is that of the proven old link or of the repair's own replacement  *)
(* is ever discarded.  LinkExchange implements this specification.         *)
(***************************************************************************)
EXTENDS FiniteSets

CONSTANTS Old,        \* the link the confirmed plan proved it owns
          New,        \* the replacement link
          Strangers,  \* objects other writers may put in the slot
          Nothing,    \* no object
          Text        \* what reading an object as a link returns

VARIABLES slot,       \* the object at the installation path
          aside,      \* objects the repair holds beside the slot
          receipted   \* whether the ownership receipt is durable

vars == <<slot, aside, receipted>>

Objects == {Old, New} \cup Strangers
Discardable == {o \in Objects : Text[o] \in {Text[Old], Text[New]}}

Init == /\ slot \in {Old, Nothing} \cup Strangers
        /\ aside = {}
        /\ receipted = FALSE

(* Another writer changes the slot; the repair's own objects are not theirs. *)
Others == /\ slot' \in Strangers \cup {Nothing}
          /\ UNCHANGED <<aside, receipted>>

Stage == /\ aside = {}
         /\ aside' = {New}
         /\ UNCHANGED <<slot, receipted>>

(* One object set aside and the slot's occupant trade places atomically: a  *)
(* reader of the slot never finds it empty, and neither object is lost.     *)
Swap == \E o \in aside :
          /\ slot # Nothing
          /\ slot' = o
          /\ aside' = (aside \ {o}) \cup {slot}
          /\ UNCHANGED receipted

Discard == \E o \in aside \cap Discardable :
             /\ aside' = aside \ {o}
             /\ UNCHANGED <<slot, receipted>>

(* The receipt becomes durable only while the replacement is not set aside: *)
(* it is in the slot, or another writer has taken it from there since.      *)
Commit == /\ ~receipted
          /\ New \notin aside
          /\ receipted' = TRUE
          /\ UNCHANGED <<slot, aside>>

Next == Others \/ Stage \/ Swap \/ Discard \/ Commit

Spec == Init /\ [][Next]_vars
=============================================================================
