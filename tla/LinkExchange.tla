---------------------------- MODULE LinkExchange ----------------------------
(***************************************************************************)
(* One repair's write: replace_directory_symlink_with and the tail of      *)
(* apply_repair_target (src/operations.rs), one action per system call,    *)
(* while other writers change the destination entry and rename the skill   *)
(* root, system calls fail, and the process may die between any two.       *)
(*                                                                         *)
(* dest and temp are two entries of the pinned directory.  The temporary   *)
(* name embeds the process id and a nanosecond clock; the code documents   *)
(* that no other writer reaches it, so here none does.                     *)
(***************************************************************************)
EXTENDS FiniteSets, TLC

CONSTANTS Old, New, Strangers, Nothing,
          StrangerText   \* [Strangers -> {"proven", "target", "other", "notlink"}]

ASSUME Distinct == /\ Old # New
                   /\ {Old, New} \cap Strangers = {}
                   /\ Nothing \notin {Old, New} \cup Strangers

ASSUME Texts == StrangerText \in [Strangers -> {"proven", "target", "other", "notlink"}]

VARIABLES
  dest, temp,   \* the objects at the destination and at the temporary name
  planned,      \* whether the planned pathname still names the pinned directory
  pc,
  residue,      \* the replacement succeeded and reports a leftover at temp
  outcome,      \* the RepairStepOutcome
  receipt,      \* the ownership receipt is committed
  arrived,      \* strangers other writers have put at the destination
  lost          \* objects other writers have removed from the destination

vars == <<dest, temp, planned, pc, residue, outcome, receipt, arrived, lost>>
files == <<dest, temp, arrived, lost>>

Objects == {Old, New} \cup Strangers

(* What readlinkat says of an object: the raw target of a link compared with  *)
(* the two targets the code compares it with, or EINVAL for anything else.    *)
Text == [o \in Objects |->
           IF o = Old THEN "proven" ELSE IF o = New THEN "target" ELSE StrangerText[o]]

Reads(o, text) == o # Nothing /\ Text[o] = text

Init ==
  /\ dest \in {Old, Nothing} \cup Strangers
  /\ temp = Nothing
  /\ planned = TRUE
  /\ pc = "pin"
  /\ residue = FALSE
  /\ outcome = "none"
  /\ receipt = FALSE
  /\ arrived = {dest} \cap Strangers
  /\ lost = IF dest = Old THEN {} ELSE {Old}

At(label) == pc = label
Goto(label) == pc' = label /\ UNCHANGED outcome
End(result) == pc' = "done" /\ outcome' = result

-----------------------------------------------------------------------------
(* open_pinned_parent_via: walk to the root from the validated home.  A walk  *)
(* that fails has written nothing.                                            *)
Pin == /\ At("pin")
       /\ Goto("prove") \/ End("Failed")
       /\ UNCHANGED <<files, planned, residue, receipt>>

(* The pinned directory must still hold the proven link under this name.      *)
(* A read may also fail, here and below; the code then treats the object as   *)
(* not the one it expects, which is the second alternative of each read.      *)
Prove == /\ At("prove")
         /\ \/ Reads(dest, "proven") /\ Goto("stage")
            \/ End("Failed")
         /\ UNCHANGED <<files, planned, residue, receipt>>

(* symlink_in at the temporary name.                                          *)
Stage == /\ At("stage")
         /\ \/ temp' = New /\ Goto("exchange")
            \/ temp' = temp /\ End("Failed")
         /\ UNCHANGED <<dest, arrived, lost, planned, residue, receipt>>

(* exchange_in needs both entries; when it fails it has changed neither.      *)
Exchanged == /\ dest # Nothing /\ temp # Nothing
             /\ dest' = temp /\ temp' = dest

(* Fault: a destructive rename.                                               *)
ExchangeByRename == /\ At("exchange")
                    /\ \/ dest' = temp /\ temp' = Nothing /\ Goto("inspect")
                       \/ UNCHANGED <<dest, temp>> /\ Goto("undo")
                    /\ UNCHANGED <<arrived, lost, planned, residue, receipt>>

Exchange == /\ At("exchange")
            /\ \/ Exchanged /\ Goto("inspect")
               \/ UNCHANGED <<dest, temp>> /\ Goto("undo")
            /\ UNCHANGED <<arrived, lost, planned, residue, receipt>>

(* The read of the temporary name after the exchange describes exactly what   *)
(* the exchange displaced.                                                    *)
Inspect == /\ At("inspect")
           /\ \/ Reads(temp, "proven") /\ Goto("discard")
              \/ Goto("revert")
           /\ UNCHANGED <<files, planned, residue, receipt>>

(* remove_proven_temporary(proven): read again, then unlink.                  *)
Discard == /\ At("discard")
           /\ \/ Reads(temp, "proven") /\ Goto("discardUnlink") /\ UNCHANGED residue
              \/ temp = Nothing /\ Goto("record") /\ UNCHANGED residue
              \/ temp # Nothing /\ residue' = TRUE /\ Goto("record")
           /\ UNCHANGED <<files, planned, receipt>>

DiscardUnlink == /\ At("discardUnlink")
                 /\ \/ temp' = Nothing /\ Goto("record")
                    \/ temp' = temp /\ Goto("revert")
                 /\ UNCHANGED <<dest, arrived, lost, planned, residue, receipt>>

(* Swap back what cannot be discarded.  Fault: taking that for a success.     *)
RevertTakenForSuccess == /\ At("revert")
                         /\ \/ Exchanged /\ Goto("record")
                            \/ UNCHANGED <<dest, temp>> /\ Goto("reread")
                         /\ UNCHANGED <<arrived, lost, planned, residue, receipt>>

Revert == /\ At("revert")
          /\ \/ Exchanged /\ Goto("undo")
             \/ UNCHANGED <<dest, temp>> /\ Goto("reread")
          /\ UNCHANGED <<arrived, lost, planned, residue, receipt>>

(* remove_proven_temporary(target): only the repair's own replacement link    *)
(* may be removed from the temporary name, and only after reading it there.   *)
(* Fault: removing whatever the revert displaced, without reading it.         *)
UndoUnread == /\ At("undo")
              /\ Goto("undoUnlink")
              /\ UNCHANGED <<files, planned, residue, receipt>>

Undo == /\ At("undo")
        /\ \/ Reads(temp, "target") /\ Goto("undoUnlink")
           \/ temp = Nothing /\ End("Failed")
           \/ temp # Nothing /\ End("ResidualTemporary")
        /\ UNCHANGED <<files, planned, residue, receipt>>

(* Fault: a failed removal is not reported.                                   *)
UndoUnlinkSaysNothing == /\ At("undoUnlink")
                         /\ \/ temp' = Nothing /\ End("Failed")
                            \/ temp' = temp /\ End("none")
                         /\ UNCHANGED <<dest, arrived, lost, planned, residue, receipt>>

UndoUnlink == /\ At("undoUnlink")
              /\ \/ temp' = Nothing /\ End("Failed")
                 \/ temp' = temp /\ End("ResidualTemporary")
              /\ UNCHANGED <<dest, arrived, lost, planned, residue, receipt>>

(* A revert that failed proves nothing about the destination: success is      *)
(* claimed only after reading the replacement there.                          *)
(* Fault: the live replacement is recorded without its leftover.              *)
RereadForgetsResidue == /\ At("reread")
                        /\ \/ Reads(dest, "target") /\ Goto("record")
                           \/ End("ResidualTemporary")
                        /\ UNCHANGED <<files, planned, residue, receipt>>

Reread == /\ At("reread")
          /\ \/ Reads(dest, "target") /\ residue' = TRUE /\ Goto("record")
             \/ UNCHANGED residue /\ End("ResidualTemporary")
          /\ UNCHANGED <<files, planned, receipt>>

-----------------------------------------------------------------------------
(* The tail of apply_repair_target.  A failed write of the receipt still      *)
(* distinguishes a root that has moved.                                       *)
Unrecorded == End(IF planned THEN "RepairedUnrecorded" ELSE "MovedRootUnreceipted")

Record == /\ At("record")
          /\ Goto("recheck") \/ Unrecorded
          /\ UNCHANGED <<files, planned, residue, receipt>>

(* still_at_planned_path, at the last moment before the commit.               *)
RecheckRoot == /\ At("recheck")
               /\ \/ planned /\ Goto("commit")
                  \/ ~planned /\ End("MovedRootUnreceipted")
               /\ UNCHANGED <<files, planned, residue, receipt>>

Commit == /\ At("commit")
          /\ \/ /\ receipt' = TRUE
                /\ End(IF residue THEN "RepairedResidualTemporary" ELSE "Repaired")
             \/ UNCHANGED receipt /\ Unrecorded
          /\ UNCHANGED <<files, planned, residue>>

Repair == \/ Pin \/ Prove \/ Stage \/ Exchange \/ Inspect \/ Discard \/ DiscardUnlink
          \/ Revert \/ Undo \/ UndoUnlink \/ Reread \/ Record \/ RecheckRoot \/ Commit

(* The process dies; what it wrote stays, the uncommitted receipt does not.   *)
Crash == /\ pc \notin {"done", "crashed"}
         /\ Goto("crashed")
         /\ UNCHANGED <<files, planned, residue, receipt>>

-----------------------------------------------------------------------------
(* Other writers at the destination, before, during and after the repair.     *)
Arrive == \E s \in Strangers \ arrived :
            /\ dest' = s
            /\ arrived' = arrived \cup {s}
            /\ lost' = lost \cup ({dest} \ {Nothing})
            /\ UNCHANGED <<temp, planned, pc, residue, outcome, receipt>>

Remove == /\ dest # Nothing
          /\ dest' = Nothing
          /\ lost' = lost \cup {dest}
          /\ UNCHANGED <<temp, arrived, planned, pc, residue, outcome, receipt>>

(* The skill root, or a directory above it, is renamed away or back.          *)
MoveRoot == /\ pc # "pin"
            /\ planned' = ~planned
            /\ UNCHANGED <<files, pc, residue, outcome, receipt>>

Others == Arrive \/ Remove \/ MoveRoot

Next == Repair \/ Crash \/ Others

Spec == Init /\ [][Next]_vars

-----------------------------------------------------------------------------
Labels == {"pin", "prove", "stage", "exchange", "inspect", "discard", "discardUnlink",
           "revert", "undo", "undoUnlink", "reread", "record", "recheck", "commit",
           "done", "crashed"}
Outcomes == {"none", "Failed", "ResidualTemporary", "Repaired", "RepairedUnrecorded",
             "RepairedResidualTemporary", "MovedRootUnreceipted"}

(* The state of the two entries and of the repair has these types.            *)
TypeOK == /\ dest \in Objects \cup {Nothing}
          /\ temp \in Objects \cup {Nothing}
          /\ planned \in BOOLEAN
          /\ pc \in Labels
          /\ pc = "done" <=> outcome # "none"
          /\ residue \in BOOLEAN
          /\ outcome \in Outcomes
          /\ receipt \in BOOLEAN
          /\ arrived \subseteq Strangers
          /\ lost \subseteq Objects

(* An object another writer put at the destination, unless it is byte for     *)
(* byte one of the two links the repair may remove, is never destroyed by the *)
(* repair: it is at the destination, preserved at the temporary name, or was  *)
(* removed by another writer.  It holds through crashes and failed reverts.   *)
ArrivalsSurvive ==
  \A s \in arrived : Text[s] \in {"other", "notlink"} => s \in {dest, temp} \cup lost

(* A repair that says nothing was written leaves no entry behind: its         *)
(* replacement is not live, nothing is at the temporary name, and the proven  *)
(* link is where it was unless another writer removed it.                     *)
FailedLeavesNoTrace ==
  outcome = "Failed" => /\ temp = Nothing
                        /\ dest # New
                        /\ Old \in {dest} \cup lost

(* The outcomes whose text names a leftover; the last two add it to theirs.   *)
ReportsResidue ==
  \/ outcome \in {"ResidualTemporary", "RepairedResidualTemporary"}
  \/ outcome \in {"RepairedUnrecorded", "MovedRootUnreceipted"} /\ residue

(* Whatever a finished repair leaves at the temporary name it reports, in     *)
(* every one of its outcomes, and it reports a leftover only when there is    *)
(* one.                                                                       *)
ResidueIsReported == pc = "done" => (temp # Nothing <=> ReportsResidue)

(* A durable receipt is about a replacement that really went live: the repair *)
(* never records one for a replacement it swapped back out or removed.        *)
ReceiptForLiveReplacement == receipt => New \in {dest} \cup lost

(* Readers of the installation path never find it empty because of a repair.  *)
NeverVacated == [][Repair /\ dest # Nothing => dest' # Nothing]_vars

-----------------------------------------------------------------------------
(* The repair implements the promise: the temporary name is the set of        *)
(* objects held aside.                                                        *)
Promise == INSTANCE LinkReplacement WITH
             slot <- dest,
             aside <- {temp} \ {Nothing},
             receipted <- receipt

(* Every behaviour of the system calls is one of the abstract promise.        *)
Refines == Promise!Spec
=============================================================================
