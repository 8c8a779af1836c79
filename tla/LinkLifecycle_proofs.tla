------------------------- MODULE LinkLifecycle_proofs -------------------------
(***************************************************************************)
(* The safety of install, repair, uninstall and forget for every number of *)
(* processes, slots, checkouts and variants.                               *)
(*                                                                         *)
(* The stated properties are not inductive.  Placed adds what a process'   *)
(* place in its operation says of its plan; Frozen adds what its checks    *)
(* under the guard established, which lasts as long as the guard does:     *)
(* nobody else changes the metadata, and what another writer does to the   *)
(* disk only takes ownership away from Skilled.                            *)
(***************************************************************************)
EXTENDS LinkLifecycle, TLAPS, WellFoundedInduction

Placed(p) ==
  /\ pc[p] = "precheck" => plan[p].op \in {"install", "repair", "uninstall"}
  /\ pc[p] \in {"guard", "check"} => plan[p].op \in {"install", "repair", "forget"}
  /\ pc[p] = "recheck" => plan[p].op = "repair"
  /\ pc[p] \in {"write", "record"} => plan[p].op \in {"install", "repair"}
  /\ pc[p] \in {"readlink", "unlink", "finalcheck", "finaldelete"} => plan[p].op = "uninstall"
  /\ pc[p] = "discard" => plan[p].op = "forget"
  /\ pc[p] \in {"precheck", "readlink", "unlink", "recheck", "write", "record",
                "finalcheck", "finaldelete"} => todo[p] # {}
  /\ pc[p] \in {"guard", "check"} /\ plan[p].op # "forget" => todo[p] # {}
  /\ pc[p] = "finalize" /\ todo[p] # {} => plan[p].op = "uninstall"
  /\ pc[p] # "idle" => plan[p].op # "none"
  /\ plan[p].op \in {"install", "repair"} =>
       /\ plan[p].variant \in Variants
       /\ plan[p].id \in Ids
       /\ Selects(plan[p].registry, plan[p].variant)

(* A slot whose live link nobody may take for Skilled's own.                  *)
Disowned(s, target) == slot[s] # target \/ author[s] = "other"

Frozen(p) ==
  /\ pc[p] \in {"recheck", "write", "record"} =>
       /\ registry = plan[p].registry
       /\ Registered(plan[p].id)
  /\ pc[p] = "record" => \/ slot[Cur(p)] \in {Empty, Foreign, plan[p].variant}
                         \/ author[Cur(p)] = "other"
  /\ pc[p] = "finaldelete" => Disowned(Cur(p), plan[p].old[Cur(p)])
  /\ pc[p] = "discard" =>
       /\ ReceiptsOf(plan[p].id) = plan[p].receipts
       /\ (plan[p].id \in baselines) = plan[p].baseline
       /\ \A r \in ReceiptsOf(plan[p].id) : Disowned(r.slot, r.target)

(* A checkout's registration offers its own variants, and only under an id.   *)
Registers == \A c \in Checkouts :
  /\ \A v \in registry[c].offers : CheckoutOf[v] = c
  /\ registry[c].id = 0 => registry[c].offers = {}

IInv == /\ TypeOK
        /\ Registers
        /\ \A p \in Procs : Placed(p)
        /\ \A p \in Procs : Frozen(p)
        /\ MetadataNamesRegisteredSources
        /\ OwnedLinksReceipted
-----------------------------------------------------------------------------
(* The least element of a set of slots: the slot an operation works on is one *)
(* of those it has left.                                                      *)
LEMMA FirstOf ==
  ASSUME NEW S \in SUBSET Slots, S # {}
  PROVE  First(S) \in S
<1>1. S \subseteq Nat
  BY SlotsAreNumbered
<1>2. IsWellFoundedOn(OpToRel(<, Nat), Nat)
  BY NatLessThanWellFounded
<1>3. PICK x \in S : \A y \in S : <<y, x>> \notin OpToRel(<, Nat)
  BY <1>1, <1>2, WFMin
<1>4. \A y \in S : ~(y < x)
  BY <1>1, <1>3 DEF OpToRel
<1>5. \A y \in S : x <= y
  BY <1>1, <1>4
<1>6. QED
  BY <1>5 DEF First

(* A process with slots left works on one of them.                            *)
LEMMA Current ==
  ASSUME TypeOK, NEW p \in Procs, todo[p] # {}
  PROVE  Cur(p) \in todo[p] /\ Cur(p) \in Slots
  BY FirstOf DEF Cur, TypeOK

(* The plan of a process without an operation is a plan.                      *)
LEMMA NothingPlanned == Nothing \in Plans
<1>1. Unregistered \in Registration
  BY BoundOnIds DEF Unregistered, Registration
<1>2. [c \in Checkouts |-> Unregistered] \in [Checkouts -> Registration]
  BY <1>1
<1>3. [s \in Slots |-> Empty] \in [Slots -> Content]
  BY DEF Content
<1>4. QED
  BY <1>2, <1>3, BoundOnIds DEF Nothing, Plans

(* An operation that ends leaves its process without plan and progress.       *)
LEMMA Finishing ==
  ASSUME TypeOK, NEW p \in Procs, Finish(p)
  PROVE  /\ pc' = [pc EXCEPT ![p] = "idle"]
         /\ plan' \in [Procs -> Plans] /\ plan'[p].op = "none"
         /\ todo' \in [Procs -> SUBSET Slots] /\ hit' \in [Procs -> SUBSET Slots]
         /\ flags' \in [Procs -> SUBSET Flags] /\ stray' \in [Procs -> BOOLEAN]
         /\ \A q \in Procs \ {p} : pc'[q] = pc[q] /\ plan'[q] = plan[q] /\ todo'[q] = todo[q]
<1>1. plan' \in [Procs -> Plans] /\ plan'[p] = Nothing
  BY NothingPlanned DEF TypeOK, Finish
<1>2. plan'[p].op = "none"
  BY <1>1 DEF Nothing
<1>3. QED
  BY <1>1, <1>2 DEF TypeOK, Finish, Goto

(* A confirmed plan and its work are typed, and its process takes no guard.   *)
LEMMA Beginning ==
  ASSUME TypeOK, NEW p \in Procs, NEW label \in {"precheck", "guard"},
         NEW newPlan \in Plans, NEW work \in SUBSET Slots,
         Begin(p, label, newPlan, work)
  PROVE  TypeOK'
<1>1. [newPlan EXCEPT !.work = work] \in Plans
  BY DEF Plans
<1>2. QED
  BY <1>1 DEF TypeOK, Begin, At, Goto, store, disk, Labels, Guarded

(* Every step keeps the types, and the guard with the process that holds it.  *)
LEMMA StepTypeOK == TypeOK /\ (\A p \in Procs : Placed(p)) /\ Next => TypeOK'
<1> SUFFICES ASSUME TypeOK, \A p \in Procs : Placed(p), Next PROVE TypeOK'
  OBVIOUS
<1> USE CheckoutsOfVariants, BoundOnIds, Apart
<1> USE DEF Placed, TypeOK, store, disk, At, Goto, KeepProgress, Labels, Guarded, Flags
<1>1. ASSUME NEW p \in Procs, PreviewInstall(p) PROVE TypeOK'
  <2>1. PICK v \in Variants, requested \in SUBSET Slots :
          Begin(p, "precheck",
                [Nothing EXCEPT !.op = "install", !.checkout = CheckoutOf[v], !.variant = v,
                                !.id = registry[CheckoutOf[v]].id, !.registry = registry],
                {s \in requested : slot[s] = Empty})
    BY <1>1 DEF PreviewInstall
  <2>2. CheckoutOf[v] \in Checkouts /\ registry[CheckoutOf[v]].id \in 0 .. MaxId
    BY DEF Registration
  <2>3. [Nothing EXCEPT !.op = "install", !.checkout = CheckoutOf[v], !.variant = v,
                        !.id = registry[CheckoutOf[v]].id, !.registry = registry] \in Plans
    BY <2>2, NothingPlanned DEF Plans
  <2>4. QED
    BY <2>1, <2>3, Beginning
<1>2. ASSUME NEW p \in Procs, PreviewRepair(p) PROVE TypeOK'
  <2>1. PICK v \in Variants, s \in Slots :
          Begin(p, "precheck",
                [Nothing EXCEPT !.op = "repair", !.checkout = CheckoutOf[v], !.variant = v,
                                !.id = registry[CheckoutOf[v]].id, !.registry = registry,
                                !.old[s] = slot[s]], {s})
    BY <1>2 DEF PreviewRepair
  <2>2. CheckoutOf[v] \in Checkouts /\ registry[CheckoutOf[v]].id \in 0 .. MaxId
        /\ slot[s] \in Content
    BY DEF Registration
  <2>3. [Nothing EXCEPT !.op = "repair", !.checkout = CheckoutOf[v], !.variant = v,
                        !.id = registry[CheckoutOf[v]].id, !.registry = registry,
                        !.old[s] = slot[s]] \in Plans
    BY <2>2, NothingPlanned DEF Plans
  <2>4. QED
    BY <2>1, <2>3, Beginning
<1>3. ASSUME NEW p \in Procs, PreviewUninstall(p) PROVE TypeOK'
  <2> DEFINE work(requested) ==
               {s \in {t \in requested : \E r \in receipts : r.slot = t} : slot[s] # Empty}
             old(requested) ==
               [s \in Slots |-> IF s \in work(requested) THEN slot[s] ELSE Empty]
  <2>1. PICK requested \in SUBSET Slots :
          Begin(p, "precheck",
                [Nothing EXCEPT !.op = "uninstall", !.old = old(requested)], work(requested))
    BY <1>3 DEF PreviewUninstall
  <2>2. old(requested) \in [Slots -> Content]
    BY DEF Content
  <2>3. [Nothing EXCEPT !.op = "uninstall", !.old = old(requested)] \in Plans
    <3> HIDE DEF old
    <3> QED
      BY <2>2, NothingPlanned DEF Plans
  <2>4. work(requested) \in SUBSET Slots
    OBVIOUS
  <2>5. QED
    <3> HIDE DEF work, old
    <3> QED
      BY <2>1, <2>3, <2>4, Beginning
<1>4. ASSUME NEW p \in Procs, PreviewForget(p) PROVE TypeOK'
  <2> DEFINE forgotten(c) ==
               [Nothing EXCEPT !.op = "forget", !.checkout = c, !.id = registry[c].id,
                               !.registry[c] = registry[c],
                               !.receipts = ReceiptsOf(registry[c].id),
                               !.baseline = registry[c].id \in baselines]
  <2>1. PICK c \in Checkouts : Begin(p, "guard", forgotten(c), {})
    BY <1>4 DEF PreviewForget
  <2>2. registry[c] \in Registration /\ registry[c].id \in 0 .. MaxId
    BY DEF Registration
  <2>3. ReceiptsOf(registry[c].id) \in SUBSET Receipt
    BY DEF ReceiptsOf
  <2>4. forgotten(c) \in Plans
    <3>1. [Nothing.registry EXCEPT ![c] = registry[c]] \in [Checkouts -> Registration]
      BY <2>2, NothingPlanned DEF Plans
    <3>2. (registry[c].id \in baselines) \in BOOLEAN
      OBVIOUS
    <3>3. QED
      BY <2>2, <2>3, <3>1, <3>2, NothingPlanned DEF Plans
  <2>5. QED
    <3> HIDE DEF forgotten
    <3> QED
      BY <2>1, <2>4, Beginning
<1>5. ASSUME NEW p \in Procs, Precheck(p) PROVE TypeOK'
  BY <1>5 DEF Precheck
<1>6. ASSUME NEW p \in Procs, AcquireGuard(p) PROVE TypeOK'
  BY <1>6 DEF AcquireGuard
<1>7. ASSUME NEW p \in Procs, CheckRegistration(p) PROVE TypeOK'
  BY <1>7 DEF CheckRegistration
<1>8. ASSUME NEW p \in Procs, RecheckDestination(p) PROVE TypeOK'
  BY <1>8 DEF RecheckDestination
<1>9. ASSUME NEW p \in Procs, Refuse(p) PROVE TypeOK'
  BY <1>9, Finishing DEF Refuse, Stop, Release
<1>10. ASSUME NEW p \in Procs, WriteLink(p) PROVE TypeOK'
  <2>1. Cur(p) \in Slots /\ plan[p].variant \in Content
    BY <1>10, Current DEF WriteLink, At, Content
  <2>2. slot' \in [Slots -> Content]
    BY <1>10, <2>1 DEF WriteLink, Put
  <2>3. QED
    BY <1>10, <2>1, <2>2 DEF WriteLink, Put
<1>11. ASSUME NEW p \in Procs, ReplaceProven(p) PROVE TypeOK'
  <2>1. Cur(p) \in Slots /\ plan[p].variant \in Content
    BY <1>11, Current DEF ReplaceProven, At, Content
  <2>2. slot' \in [Slots -> Content]
    BY <1>11, <2>1 DEF ReplaceProven, Put
  <2>3. QED
    BY <1>11, <2>1, <2>2 DEF ReplaceProven, Put
<1>12. ASSUME NEW p \in Procs, ReplaceKeepingArrival(p) PROVE TypeOK'
  <2>1. Cur(p) \in Slots /\ plan[p].variant \in Content
    BY <1>12, Current DEF ReplaceKeepingArrival, At, Content
  <2>2. slot' \in [Slots -> Content]
    BY <1>12, <2>1 DEF ReplaceKeepingArrival, Put
  <2>3. QED
    BY <1>12, <2>1, <2>2 DEF ReplaceKeepingArrival, Put
<1>13. ASSUME NEW p \in Procs, RecordReceipt(p) PROVE TypeOK'
  <2>1. Cur(p) \in Slots /\ plan[p].variant \in Variants /\ plan[p].id \in Ids
    BY <1>13, Current DEF RecordReceipt, At
  <2>2. receipts' \subseteq Receipt
    BY <1>13, <2>1 DEF RecordReceipt, Receipt
  <2>3. QED
    BY <1>13, <2>1, <2>2 DEF RecordReceipt, Release, Done
<1>14. ASSUME NEW p \in Procs, RecordFails(p) PROVE TypeOK'
  BY <1>14, Current DEF RecordFails, StopUnrecorded, Release
<1>15. ASSUME NEW p \in Procs, ReadReceipts(p) PROVE TypeOK'
  BY <1>15 DEF ReadReceipts
<1>16. ASSUME NEW p \in Procs, ReadLink(p) PROVE TypeOK'
  BY <1>16 DEF ReadLink
<1>17. ASSUME NEW p \in Procs, Unlink(p) PROVE TypeOK'
  <2>1. Cur(p) \in Slots /\ Empty \in Content
    BY <1>17, Current DEF Unlink, At, Content
  <2>2. QED
    BY <1>17, <2>1 DEF Unlink, Done
<1>18. ASSUME NEW p \in Procs, Scan(p) PROVE TypeOK'
  BY <1>18 DEF Scan
<1>19. ASSUME NEW p \in Procs, FinalizeWithoutGuard(p) PROVE TypeOK'
  BY <1>19 DEF FinalizeWithoutGuard, Retain, Release
<1>20. ASSUME NEW p \in Procs, FinalizeCheck(p) PROVE TypeOK'
  BY <1>20 DEF FinalizeCheck
<1>21. ASSUME NEW p \in Procs, FinalizeActiveAgain(p) PROVE TypeOK'
  BY <1>21 DEF FinalizeActiveAgain, Retain, Release
<1>22. ASSUME NEW p \in Procs, FinalizeDelete(p) PROVE TypeOK'
  BY <1>22 DEF FinalizeDelete, Release
<1>23. ASSUME NEW p \in Procs, FinalizeDeleteFails(p) PROVE TypeOK'
  BY <1>23 DEF FinalizeDeleteFails, Retain, Release
<1>24. ASSUME NEW p \in Procs, Conclude(p) PROVE TypeOK'
  BY <1>24, Finishing DEF Conclude
<1>25. ASSUME NEW p \in Procs, CheckForget(p) PROVE TypeOK'
  BY <1>25 DEF CheckForget
<1>26. ASSUME NEW p \in Procs, ForgetNothing(p) PROVE TypeOK'
  BY <1>26, Finishing DEF ForgetNothing, Release
<1>27. ASSUME NEW p \in Procs, ForgetRefused(p) PROVE TypeOK'
  BY <1>27, Finishing DEF ForgetRefused, Release
<1>28. ASSUME NEW p \in Procs, Forget(p) PROVE TypeOK'
  <2>1. registry' \in [Checkouts -> Registration]
    BY <1>28 DEF Forget, Unregistered, Registration
  <2>2. receipts' \subseteq Receipt /\ baselines' \subseteq Ids
    BY <1>28 DEF Forget
  <2>3. QED
    BY <1>28, <2>1, <2>2, Finishing DEF Forget, Release
<1>29. ASSUME NEW p \in Procs, Crash(p) PROVE TypeOK'
  BY <1>29, Current, Finishing DEF Crash, Release
<1>30. ASSUME Register PROVE TypeOK'
  <2>1. PICK c \in Checkouts : \E offers \in SUBSET {v \in Variants : CheckoutOf[v] = c} :
          /\ registry[c].id # 0 \/ nextId <= MaxId
          /\ registry' = [registry EXCEPT ![c] =
               [id |-> IF registry[c].id # 0 THEN registry[c].id ELSE nextId,
                offers |-> offers]]
          /\ nextId' = IF registry[c].id # 0 THEN nextId ELSE nextId + 1
    BY <1>30 DEF Register
  <2>2. registry[c].id \in 0 .. MaxId /\ nextId \in 1 .. MaxId + 1
    BY DEF Registration
  <2>3. registry' \in [Checkouts -> Registration] /\ nextId' \in 1 .. MaxId + 1
    BY <2>1, <2>2 DEF Registration
  <2>4. QED
    BY <1>30, <2>3 DEF Register
<1>31. ASSUME Adopt PROVE TypeOK'
  <2>1. PICK c \in Checkouts : registry[c].id # 0 /\ baselines' = baselines \cup {registry[c].id}
    BY <1>31 DEF Adopt
  <2>2. registry[c].id \in 0 .. MaxId
    BY DEF Registration
  <2>3. registry[c].id \in Ids
    BY <2>1, <2>2 DEF Ids
  <2>4. baselines' \subseteq Ids
    BY <2>1, <2>3
  <2>5. QED
    BY <1>31, <2>4 DEF Adopt
<1>32. ASSUME OtherWriter PROVE TypeOK'
  BY <1>32 DEF OtherWriter
<1>33. ASSUME UNCHANGED vars PROVE TypeOK'
  BY <1>33 DEF vars
<1>34. QED
  BY <1>1, <1>2, <1>3, <1>4, <1>5, <1>6, <1>7, <1>8, <1>9, <1>10, <1>11, <1>12, <1>13,
     <1>14, <1>15, <1>16, <1>17, <1>18, <1>19, <1>20, <1>21, <1>22, <1>23, <1>24, <1>25,
     <1>26, <1>27, <1>28, <1>29, <1>30, <1>31, <1>32, <1>33 DEF Next, Advance, Preview

-----------------------------------------------------------------------------
(* A variant the registry selects belongs to a registered checkout.           *)
LEMMA SelectedRegistered ==
  ASSUME TypeOK, Registers, NEW v \in Variants, Selects(registry, v)
  PROVE  registry[CheckoutOf[v]].id \in Ids
<1>1. PICK c \in Checkouts : v \in registry[c].offers
  BY DEF Selects, Offered
<1>2. c = CheckoutOf[v] /\ registry[c].id # 0
  BY <1>1 DEF Registers
<1>3. registry[c].id \in 0 .. MaxId
  BY DEF TypeOK, Registration
<1>4. QED
  BY <1>2, <1>3, BoundOnIds DEF Ids

(* Every step leaves each process with the plan its place calls for.          *)
LEMMA StepPlaced ==
  TypeOK /\ Registers /\ (\A p \in Procs : Placed(p)) /\ Next => \A p \in Procs : Placed(p)'
<1> SUFFICES ASSUME TypeOK, Registers, \A p \in Procs : Placed(p), Next,
                    NEW q \in Procs
             PROVE  Placed(q)'
  OBVIOUS
<1> USE DEF At, Goto, KeepProgress, Placed
<1>1. ASSUME NEW p \in Procs, PreviewInstall(p) PROVE Placed(q)'
  <2>1. PICK v \in Variants, requested \in SUBSET Slots :
          LET work == {s \in requested : slot[s] = Empty}
          IN  /\ Selects(registry, v)
              /\ work # {}
              /\ Begin(p, "precheck",
                       [Nothing EXCEPT !.op = "install", !.checkout = CheckoutOf[v],
                                       !.variant = v, !.id = registry[CheckoutOf[v]].id,
                                       !.registry = registry], work)
    BY <1>1 DEF TypeOK, PreviewInstall
  <2>2. plan'[p].op = "install" /\ plan'[p].variant = v /\ plan'[p].registry = registry
        /\ plan'[p].id = registry[CheckoutOf[v]].id
    BY <2>1 DEF Begin, TypeOK, Nothing
  <2>3. QED
    BY <2>1, <2>2, SelectedRegistered DEF Begin, TypeOK
<1>2. ASSUME NEW p \in Procs, PreviewRepair(p) PROVE Placed(q)'
  <2>1. PICK v \in Variants, s \in Slots :
          /\ Selects(registry, v)
          /\ Begin(p, "precheck",
                   [Nothing EXCEPT !.op = "repair", !.checkout = CheckoutOf[v], !.variant = v,
                                   !.id = registry[CheckoutOf[v]].id, !.registry = registry,
                                   !.old[s] = slot[s]], {s})
    BY <1>2 DEF TypeOK, PreviewRepair
  <2>2. plan'[p].op = "repair" /\ plan'[p].variant = v /\ plan'[p].registry = registry
        /\ plan'[p].id = registry[CheckoutOf[v]].id
    BY <2>1 DEF Begin, TypeOK, Nothing
  <2>3. QED
    BY <2>1, <2>2, SelectedRegistered DEF Begin, TypeOK
<1>3. ASSUME NEW p \in Procs, PreviewUninstall(p) PROVE Placed(q)'
  <2>1. PICK requested \in SUBSET Slots :
          LET work == {s \in {t \in requested : \E r \in receipts : r.slot = t} : slot[s] # Empty}
          IN  /\ work # {}
              /\ Begin(p, "precheck",
                       [Nothing EXCEPT !.op = "uninstall",
                                       !.old = [s \in Slots |-> IF s \in work THEN slot[s]
                                                                             ELSE Empty]],
                       work)
    BY <1>3 DEF TypeOK, PreviewUninstall
  <2>2. plan'[p].op = "uninstall"
    BY <2>1 DEF Begin, TypeOK, Nothing
  <2>3. QED
    BY <2>1, <2>2 DEF Begin, TypeOK
<1>4. ASSUME NEW p \in Procs, PreviewForget(p) PROVE Placed(q)'
  <2>1. pc' = [pc EXCEPT ![p] = "guard"] /\ plan'[p].op = "forget"
        /\ \A r \in Procs \ {p} : pc'[r] = pc[r] /\ plan'[r] = plan[r] /\ todo'[r] = todo[r]
    BY <1>4 DEF TypeOK, PreviewForget, Begin, Nothing, TypeOK
  <2>2. QED
    BY <2>1 DEF TypeOK
<1>5. ASSUME NEW p \in Procs, Precheck(p) PROVE Placed(q)'
  BY <1>5 DEF TypeOK, Precheck
<1>6. ASSUME NEW p \in Procs, AcquireGuard(p) PROVE Placed(q)'
  BY <1>6 DEF TypeOK, AcquireGuard
<1>7. ASSUME NEW p \in Procs, CheckRegistration(p) PROVE Placed(q)'
  BY <1>7 DEF TypeOK, CheckRegistration
<1>8. ASSUME NEW p \in Procs, RecheckDestination(p) PROVE Placed(q)'
  BY <1>8 DEF TypeOK, RecheckDestination
<1>9. ASSUME NEW p \in Procs, Refuse(p) PROVE Placed(q)'
  <2>1. CASE Finish(p)
    <3>1. pc' = [pc EXCEPT ![p] = "idle"] /\ plan'[p].op = "none"
          /\ \A r \in Procs \ {p} : pc'[r] = pc[r] /\ plan'[r] = plan[r] /\ todo'[r] = todo[r]
      BY <2>1, Finishing
    <3>2. QED
      BY <3>1 DEF TypeOK
  <2>2. CASE ~Finish(p)
    BY <1>9, <2>2 DEF Refuse, Stop, TypeOK
  <2>3. QED
    BY <2>1, <2>2
<1>10. ASSUME NEW p \in Procs, WriteLink(p) PROVE Placed(q)'
  BY <1>10 DEF TypeOK, WriteLink, Put
<1>11. ASSUME NEW p \in Procs, ReplaceProven(p) PROVE Placed(q)'
  BY <1>11 DEF TypeOK, ReplaceProven, Put
<1>12. ASSUME NEW p \in Procs, ReplaceKeepingArrival(p) PROVE Placed(q)'
  BY <1>12 DEF TypeOK, ReplaceKeepingArrival, Put
<1>13. ASSUME NEW p \in Procs, RecordReceipt(p) PROVE Placed(q)'
  BY <1>13 DEF TypeOK, RecordReceipt, Release, Done
<1>14. ASSUME NEW p \in Procs, RecordFails(p) PROVE Placed(q)'
  BY <1>14 DEF TypeOK, RecordFails, StopUnrecorded, Release
<1>15. ASSUME NEW p \in Procs, ReadReceipts(p) PROVE Placed(q)'
  BY <1>15 DEF TypeOK, ReadReceipts
<1>16. ASSUME NEW p \in Procs, ReadLink(p) PROVE Placed(q)'
  BY <1>16 DEF TypeOK, ReadLink
<1>17. ASSUME NEW p \in Procs, Unlink(p) PROVE Placed(q)'
  BY <1>17 DEF TypeOK, Unlink, Done
<1>18. ASSUME NEW p \in Procs, Scan(p) PROVE Placed(q)'
  BY <1>18 DEF TypeOK, Scan
<1>19. ASSUME NEW p \in Procs, FinalizeWithoutGuard(p) PROVE Placed(q)'
  BY <1>19 DEF TypeOK, FinalizeWithoutGuard, Retain, Release
<1>20. ASSUME NEW p \in Procs, FinalizeCheck(p) PROVE Placed(q)'
  BY <1>20 DEF TypeOK, FinalizeCheck
<1>21. ASSUME NEW p \in Procs, FinalizeActiveAgain(p) PROVE Placed(q)'
  BY <1>21 DEF TypeOK, FinalizeActiveAgain, Retain, Release
<1>22. ASSUME NEW p \in Procs, FinalizeDelete(p) PROVE Placed(q)'
  BY <1>22 DEF TypeOK, FinalizeDelete, Release
<1>23. ASSUME NEW p \in Procs, FinalizeDeleteFails(p) PROVE Placed(q)'
  BY <1>23 DEF TypeOK, FinalizeDeleteFails, Retain, Release
<1>24. ASSUME NEW p \in Procs, Conclude(p) PROVE Placed(q)'
  <2>1. pc' = [pc EXCEPT ![p] = "idle"] /\ plan'[p].op = "none"
        /\ \A r \in Procs \ {p} : pc'[r] = pc[r] /\ plan'[r] = plan[r] /\ todo'[r] = todo[r]
    BY <1>24, Finishing DEF Conclude
  <2>2. QED
    BY <2>1 DEF TypeOK
<1>25. ASSUME NEW p \in Procs, CheckForget(p) PROVE Placed(q)'
  BY <1>25 DEF TypeOK, CheckForget
<1>26. ASSUME NEW p \in Procs, ForgetNothing(p) PROVE Placed(q)'
  <2>1. pc' = [pc EXCEPT ![p] = "idle"] /\ plan'[p].op = "none"
        /\ \A r \in Procs \ {p} : pc'[r] = pc[r] /\ plan'[r] = plan[r] /\ todo'[r] = todo[r]
    BY <1>26, Finishing DEF ForgetNothing
  <2>2. QED
    BY <2>1 DEF TypeOK
<1>27. ASSUME NEW p \in Procs, ForgetRefused(p) PROVE Placed(q)'
  <2>1. pc' = [pc EXCEPT ![p] = "idle"] /\ plan'[p].op = "none"
        /\ \A r \in Procs \ {p} : pc'[r] = pc[r] /\ plan'[r] = plan[r] /\ todo'[r] = todo[r]
    BY <1>27, Finishing DEF ForgetRefused
  <2>2. QED
    BY <2>1 DEF TypeOK
<1>28. ASSUME NEW p \in Procs, Forget(p) PROVE Placed(q)'
  <2>1. pc' = [pc EXCEPT ![p] = "idle"] /\ plan'[p].op = "none"
        /\ \A r \in Procs \ {p} : pc'[r] = pc[r] /\ plan'[r] = plan[r] /\ todo'[r] = todo[r]
    BY <1>28, Finishing DEF Forget
  <2>2. QED
    BY <2>1 DEF TypeOK
<1>29. ASSUME NEW p \in Procs, Crash(p) PROVE Placed(q)'
  <2>1. pc' = [pc EXCEPT ![p] = "idle"] /\ plan'[p].op = "none"
        /\ \A r \in Procs \ {p} : pc'[r] = pc[r] /\ plan'[r] = plan[r] /\ todo'[r] = todo[r]
    BY <1>29, Finishing DEF Crash
  <2>2. QED
    BY <2>1 DEF TypeOK
<1>30. ASSUME Register PROVE Placed(q)'
  BY <1>30 DEF TypeOK, Register
<1>31. ASSUME Adopt PROVE Placed(q)'
  BY <1>31 DEF TypeOK, Adopt
<1>32. ASSUME OtherWriter PROVE Placed(q)'
  BY <1>32 DEF TypeOK, OtherWriter
<1>33. ASSUME UNCHANGED vars PROVE Placed(q)'
  BY <1>33 DEF TypeOK, vars
<1>34. QED
  BY <1>1, <1>2, <1>3, <1>4, <1>5, <1>6, <1>7, <1>8, <1>9, <1>10, <1>11, <1>12, <1>13,
     <1>14, <1>15, <1>16, <1>17, <1>18, <1>19, <1>20, <1>21, <1>22, <1>23, <1>24, <1>25,
     <1>26, <1>27, <1>28, <1>29, <1>30, <1>31, <1>32, <1>33 DEF Next, Advance, Preview

-----------------------------------------------------------------------------
(* The steps that change the store, and for the rest of it none.              *)
LEMMA StoreSteps ==
  Next => \/ UNCHANGED store
          \/ Register \/ Adopt
          \/ \E p \in Procs : RecordReceipt(p) \/ FinalizeDelete(p) \/ Forget(p)
<1>1. ASSUME NEW p \in Procs, Preview(p) PROVE UNCHANGED store
  BY <1>1 DEF Preview, PreviewInstall, PreviewRepair, PreviewUninstall, PreviewForget, Begin
<1>2. ASSUME NEW p \in Procs, Advance(p)
      PROVE  UNCHANGED store \/ RecordReceipt(p) \/ FinalizeDelete(p) \/ Forget(p)
  BY <1>2 DEF Advance, Precheck, AcquireGuard, CheckRegistration, RecheckDestination, Refuse,
     WriteLink, ReplaceProven, ReplaceKeepingArrival, RecordFails, ReadReceipts, ReadLink,
     Unlink, Scan, FinalizeWithoutGuard, FinalizeCheck, FinalizeActiveAgain, Retain,
     FinalizeDeleteFails, Conclude, CheckForget, ForgetNothing, ForgetRefused
<1>3. ASSUME NEW p \in Procs, Crash(p) PROVE UNCHANGED store
  BY <1>3 DEF Crash
<1>4. CASE OtherWriter
  BY <1>4 DEF OtherWriter
<1>5. QED
  BY <1>1, <1>2, <1>3, <1>4 DEF Next

(* The steps that change the disk.                                            *)
LEMMA DiskSteps ==
  Next => \/ UNCHANGED disk
          \/ OtherWriter
          \/ \E p \in Procs : \/ WriteLink(p) \/ ReplaceProven(p) \/ ReplaceKeepingArrival(p)
                               \/ RecordFails(p) \/ Unlink(p) \/ Crash(p)
<1>1. ASSUME NEW p \in Procs, Preview(p) PROVE UNCHANGED disk
  BY <1>1 DEF Preview, PreviewInstall, PreviewRepair, PreviewUninstall, PreviewForget, Begin
<1>2. ASSUME NEW p \in Procs, Advance(p)
      PROVE  \/ UNCHANGED disk
             \/ WriteLink(p) \/ ReplaceProven(p) \/ ReplaceKeepingArrival(p)
             \/ RecordFails(p) \/ Unlink(p)
  BY <1>2 DEF Advance, Precheck, AcquireGuard, CheckRegistration, RecheckDestination, Refuse,
     RecordReceipt, ReadReceipts, ReadLink, Scan, FinalizeWithoutGuard, FinalizeCheck,
     FinalizeActiveAgain, Retain, FinalizeDelete, FinalizeDeleteFails, Conclude,
     CheckForget, ForgetNothing, ForgetRefused, Forget
<1>3. CASE Register \/ Adopt
  BY <1>3 DEF Register, Adopt
<1>4. QED
  BY <1>1, <1>2, <1>3 DEF Next

(* Metadata keeps naming registered sources.                                  *)
LEMMA StepMetadata ==
  IInv /\ Next => Registers' /\ MetadataNamesRegisteredSources'
<1> SUFFICES ASSUME IInv, Next PROVE Registers' /\ MetadataNamesRegisteredSources'
  OBVIOUS
<1> USE DEF IInv, Registers, MetadataNamesRegisteredSources, Registered
<1>1. CASE UNCHANGED store
  BY <1>1 DEF store
<1>2. CASE Register
  <2>1. PICK c \in Checkouts : \E offers \in SUBSET {v \in Variants : CheckoutOf[v] = c} :
          registry' = [registry EXCEPT ![c] =
            [id |-> IF registry[c].id # 0 THEN registry[c].id ELSE nextId, offers |-> offers]]
    BY <1>2 DEF Register
  <2>2. \A d \in Checkouts \ {c} : registry'[d] = registry[d]
    BY <2>1 DEF TypeOK
  <2>3. /\ \A v \in registry'[c].offers : CheckoutOf[v] = c
        /\ registry[c].id # 0 => registry'[c].id = registry[c].id
        /\ registry'[c].id # 0
    BY <2>1 DEF TypeOK
  <2>4. Registers'
    BY <2>2, <2>3
  <2>5. \A id \in Ids : Registered(id) => Registered(id)'
    BY <2>2, <2>3 DEF Ids
  <2>6. QED
    BY <1>2, <2>4, <2>5 DEF Register, TypeOK, Receipt
<1>3. CASE Adopt
  BY <1>3 DEF Adopt
<1>4. ASSUME NEW p \in Procs, RecordReceipt(p) PROVE Registers' /\ MetadataNamesRegisteredSources'
  BY <1>4 DEF RecordReceipt, Frozen, At
<1>5. ASSUME NEW p \in Procs, FinalizeDelete(p) PROVE Registers' /\ MetadataNamesRegisteredSources'
  BY <1>5 DEF FinalizeDelete
<1>6. ASSUME NEW p \in Procs, Forget(p) PROVE Registers' /\ MetadataNamesRegisteredSources'
  <2>1. \A c \in Checkouts : registry'[c] = IF registry[c].id = plan[p].id THEN Unregistered
                                                                         ELSE registry[c]
    BY <1>6 DEF Forget
  <2>2. Registers'
    BY <2>1 DEF Unregistered
  <2>3. \A id \in Ids : id # plan[p].id /\ Registered(id) => Registered(id)'
    BY <2>1
  <2>4. QED
    BY <1>6, <2>2, <2>3 DEF Forget, ReceiptsOf, TypeOK, Receipt
<1>7. QED
  BY <1>1, <1>2, <1>3, <1>4, <1>5, <1>6, StoreSteps

(* What a process established under the guard holds until it gives it up.     *)
LEMMA StepFrozen == IInv /\ Next => \A p \in Procs : Frozen(p)'
<1> SUFFICES ASSUME IInv, Next, NEW q \in Procs PROVE Frozen(q)'
  OBVIOUS
<1> USE DEF At, Goto, KeepProgress, IInv, Frozen, Disowned, Cur, store, disk
<1>1. ASSUME NEW p \in Procs, PreviewInstall(p) PROVE Frozen(q)'
  <2>1. pc' = [pc EXCEPT ![p] = "precheck"] /\ UNCHANGED <<store, disk>>
        /\ \A r \in Procs \ {p} : pc'[r] = pc[r] /\ plan'[r] = plan[r] /\ todo'[r] = todo[r]
    BY <1>1 DEF TypeOK, Guarded, ReceiptsOf, Registered, PreviewInstall, Begin, TypeOK
  <2>2. QED
    BY <2>1 DEF TypeOK, ReceiptsOf, Registered
<1>2. ASSUME NEW p \in Procs, PreviewRepair(p) PROVE Frozen(q)'
  <2>1. pc' = [pc EXCEPT ![p] = "precheck"] /\ UNCHANGED <<store, disk>>
        /\ \A r \in Procs \ {p} : pc'[r] = pc[r] /\ plan'[r] = plan[r] /\ todo'[r] = todo[r]
    BY <1>2 DEF TypeOK, Guarded, ReceiptsOf, Registered, PreviewRepair, Begin, TypeOK
  <2>2. QED
    BY <2>1 DEF TypeOK, ReceiptsOf, Registered
<1>3. ASSUME NEW p \in Procs, PreviewUninstall(p) PROVE Frozen(q)'
  <2>1. pc' = [pc EXCEPT ![p] = "precheck"] /\ UNCHANGED <<store, disk>>
        /\ \A r \in Procs \ {p} : pc'[r] = pc[r] /\ plan'[r] = plan[r] /\ todo'[r] = todo[r]
    BY <1>3 DEF TypeOK, Guarded, ReceiptsOf, Registered, PreviewUninstall, Begin, TypeOK
  <2>2. QED
    BY <2>1 DEF TypeOK, ReceiptsOf, Registered
<1>4. ASSUME NEW p \in Procs, PreviewForget(p) PROVE Frozen(q)'
  <2>1. pc' = [pc EXCEPT ![p] = "guard"] /\ UNCHANGED <<store, disk>>
        /\ \A r \in Procs \ {p} : pc'[r] = pc[r] /\ plan'[r] = plan[r] /\ todo'[r] = todo[r]
    BY <1>4 DEF TypeOK, Guarded, ReceiptsOf, Registered, PreviewForget, Begin, TypeOK
  <2>2. QED
    BY <2>1 DEF TypeOK, ReceiptsOf, Registered
<1>5. ASSUME NEW p \in Procs, Precheck(p) PROVE Frozen(q)'
  BY <1>5 DEF TypeOK, Guarded, ReceiptsOf, Registered, Precheck
<1>6. ASSUME NEW p \in Procs, AcquireGuard(p) PROVE Frozen(q)'
  BY <1>6 DEF TypeOK, Guarded, ReceiptsOf, Registered, AcquireGuard
<1>7. ASSUME NEW p \in Procs, CheckRegistration(p) PROVE Frozen(q)'
  BY <1>7 DEF TypeOK, Guarded, ReceiptsOf, Registered, CheckRegistration
<1>8. ASSUME NEW p \in Procs, RecheckDestination(p) PROVE Frozen(q)'
  BY <1>8 DEF TypeOK, Guarded, ReceiptsOf, Registered, RecheckDestination
<1>9. ASSUME NEW p \in Procs, Refuse(p) PROVE Frozen(q)'
  <2>1. CASE Finish(p)
    <3>1. pc' = [pc EXCEPT ![p] = "idle"]
          /\ \A r \in Procs \ {p} : pc'[r] = pc[r] /\ plan'[r] = plan[r] /\ todo'[r] = todo[r]
      BY <2>1, Finishing
    <3>2. QED
      BY <1>9, <3>1 DEF Refuse, TypeOK, ReceiptsOf, Registered
  <2>2. CASE ~Finish(p)
    BY <1>9, <2>2 DEF Refuse, Stop, TypeOK, ReceiptsOf, Registered
  <2>3. QED
    BY <2>1, <2>2
<1>10. ASSUME NEW p \in Procs, WriteLink(p) PROVE Frozen(q)'
  BY <1>10 DEF TypeOK, Guarded, ReceiptsOf, Registered, WriteLink, Put
<1>11. ASSUME NEW p \in Procs, ReplaceProven(p) PROVE Frozen(q)'
  <2>1. todo[p] # {} /\ pc[p] \in Guarded
    BY <1>11 DEF ReplaceProven, Placed, Guarded
  <2>2. CASE q = p
    <3>1. Cur(p) \in Slots
      BY <2>1, Current
    <3>2. QED
      BY <1>11, <2>2, <3>1 DEF ReplaceProven, Put, TypeOK, Registered
  <2>3. CASE q # p
    BY <1>11, <2>1, <2>3 DEF ReplaceProven, TypeOK, Guarded
  <2>4. QED
    BY <2>2, <2>3
<1>12. ASSUME NEW p \in Procs, ReplaceKeepingArrival(p) PROVE Frozen(q)'
  <2>1. todo[p] # {} /\ pc[p] \in Guarded
    BY <1>12 DEF ReplaceKeepingArrival, Placed, Guarded
  <2>2. CASE q = p
    <3>1. Cur(p) \in Slots
      BY <2>1, Current
    <3>2. QED
      BY <1>12, <2>2, <3>1 DEF ReplaceKeepingArrival, Put, TypeOK, Registered
  <2>3. CASE q # p
    BY <1>12, <2>1, <2>3 DEF ReplaceKeepingArrival, TypeOK, Guarded
  <2>4. QED
    BY <2>2, <2>3
<1>13. ASSUME NEW p \in Procs, RecordReceipt(p) PROVE Frozen(q)'
  BY <1>13 DEF TypeOK, Guarded, ReceiptsOf, Registered, RecordReceipt, Release, Done
<1>14. ASSUME NEW p \in Procs, RecordFails(p) PROVE Frozen(q)'
  BY <1>14 DEF TypeOK, Guarded, ReceiptsOf, Registered, RecordFails, StopUnrecorded, Release
<1>15. ASSUME NEW p \in Procs, ReadReceipts(p) PROVE Frozen(q)'
  BY <1>15 DEF TypeOK, Guarded, ReceiptsOf, Registered, ReadReceipts
<1>16. ASSUME NEW p \in Procs, ReadLink(p) PROVE Frozen(q)'
  BY <1>16 DEF TypeOK, Guarded, ReceiptsOf, Registered, ReadLink
<1>17. ASSUME NEW p \in Procs, Unlink(p) PROVE Frozen(q)'
  BY <1>17 DEF TypeOK, Guarded, ReceiptsOf, Registered, Unlink, Done
<1>18. ASSUME NEW p \in Procs, Scan(p) PROVE Frozen(q)'
  BY <1>18 DEF TypeOK, Guarded, ReceiptsOf, Registered, Scan
<1>19. ASSUME NEW p \in Procs, FinalizeWithoutGuard(p) PROVE Frozen(q)'
  BY <1>19 DEF TypeOK, Guarded, ReceiptsOf, Registered, FinalizeWithoutGuard, Retain, Release
<1>20. ASSUME NEW p \in Procs, FinalizeCheck(p) PROVE Frozen(q)'
  BY <1>20 DEF TypeOK, Guarded, ReceiptsOf, Registered, Inactive, FinalizeCheck
<1>21. ASSUME NEW p \in Procs, FinalizeActiveAgain(p) PROVE Frozen(q)'
  BY <1>21 DEF TypeOK, Guarded, ReceiptsOf, Registered, FinalizeActiveAgain, Retain, Release
<1>22. ASSUME NEW p \in Procs, FinalizeDelete(p) PROVE Frozen(q)'
  BY <1>22 DEF TypeOK, Guarded, ReceiptsOf, Registered, FinalizeDelete, Release
<1>23. ASSUME NEW p \in Procs, FinalizeDeleteFails(p) PROVE Frozen(q)'
  BY <1>23 DEF TypeOK, Guarded, ReceiptsOf, Registered, FinalizeDeleteFails, Retain, Release
<1>24. ASSUME NEW p \in Procs, Conclude(p) PROVE Frozen(q)'
  <2>1. pc' = [pc EXCEPT ![p] = "idle"]
        /\ \A r \in Procs \ {p} : pc'[r] = pc[r] /\ plan'[r] = plan[r] /\ todo'[r] = todo[r]
    BY <1>24, Finishing DEF Conclude
  <2>2. QED
    BY <1>24, <2>1 DEF Conclude, TypeOK, Guarded, ReceiptsOf, Registered
<1>25. ASSUME NEW p \in Procs, CheckForget(p) PROVE Frozen(q)'
  BY <1>25 DEF TypeOK, Guarded, ReceiptsOf, Registered, Inactive, CheckForget
<1>26. ASSUME NEW p \in Procs, ForgetNothing(p) PROVE Frozen(q)'
  <2>1. pc' = [pc EXCEPT ![p] = "idle"]
        /\ \A r \in Procs \ {p} : pc'[r] = pc[r] /\ plan'[r] = plan[r] /\ todo'[r] = todo[r]
    BY <1>26, Finishing DEF ForgetNothing
  <2>2. QED
    BY <1>26, <2>1 DEF ForgetNothing, TypeOK, Guarded, ReceiptsOf, Registered
<1>27. ASSUME NEW p \in Procs, ForgetRefused(p) PROVE Frozen(q)'
  <2>1. pc' = [pc EXCEPT ![p] = "idle"]
        /\ \A r \in Procs \ {p} : pc'[r] = pc[r] /\ plan'[r] = plan[r] /\ todo'[r] = todo[r]
    BY <1>27, Finishing DEF ForgetRefused
  <2>2. QED
    BY <1>27, <2>1 DEF ForgetRefused, TypeOK, Guarded, ReceiptsOf, Registered
<1>28. ASSUME NEW p \in Procs, Forget(p) PROVE Frozen(q)'
  <2>1. pc' = [pc EXCEPT ![p] = "idle"]
        /\ \A r \in Procs \ {p} : pc'[r] = pc[r] /\ plan'[r] = plan[r] /\ todo'[r] = todo[r]
    BY <1>28, Finishing DEF Forget
  <2>2. QED
    BY <1>28, <2>1 DEF Forget, TypeOK, Guarded, ReceiptsOf, Registered
<1>29. ASSUME NEW p \in Procs, Crash(p) PROVE Frozen(q)'
  <2>1. pc' = [pc EXCEPT ![p] = "idle"]
        /\ \A r \in Procs \ {p} : pc'[r] = pc[r] /\ plan'[r] = plan[r] /\ todo'[r] = todo[r]
    BY <1>29, Finishing DEF Crash
  <2>2. QED
    BY <1>29, <2>1 DEF Crash, TypeOK, Guarded, ReceiptsOf, Registered
<1>30. ASSUME Register PROVE Frozen(q)'
  <2>1. pc[q] \notin Guarded
    BY <1>30, Apart DEF TypeOK, Register
  <2>2. QED
    BY <1>30, <2>1 DEF Register, Guarded
<1>31. ASSUME Adopt PROVE Frozen(q)'
  <2>1. pc[q] \notin Guarded
    BY <1>31, Apart DEF TypeOK, Adopt
  <2>2. QED
    BY <1>31, <2>1 DEF Adopt, Guarded
<1>32. ASSUME OtherWriter PROVE Frozen(q)'
  BY <1>32 DEF TypeOK, Guarded, ReceiptsOf, Registered, OtherWriter
<1>33. ASSUME UNCHANGED vars PROVE Frozen(q)'
  BY <1>33 DEF TypeOK, Guarded, ReceiptsOf, Registered, vars
<1>34. QED
  BY <1>1, <1>2, <1>3, <1>4, <1>5, <1>6, <1>7, <1>8, <1>9, <1>10, <1>11, <1>12, <1>13,
     <1>14, <1>15, <1>16, <1>17, <1>18, <1>19, <1>20, <1>21, <1>22, <1>23, <1>24, <1>25,
     <1>26, <1>27, <1>28, <1>29, <1>30, <1>31, <1>32, <1>33 DEF Next, Advance, Preview

(* A live link of Skilled's keeps its receipt, or the step says otherwise.    *)
LEMMA StepOwned == IInv /\ Next => OwnedLinksReceipted'
<1> SUFFICES ASSUME IInv, Next PROVE OwnedLinksReceipted'
  OBVIOUS
<1> USE DEF At, Goto, KeepProgress, IInv, OwnedLinksReceipted, Receipted, Cur, store, disk
<1>1. ASSUME NEW p \in Procs, PreviewInstall(p) PROVE OwnedLinksReceipted'
  <2>1. pc[p] # "record" /\ \A r \in Procs \ {p} : pc'[r] = pc[r] /\ todo'[r] = todo[r]
    BY <1>1, Current DEF TypeOK, PreviewInstall, Begin, TypeOK
  <2>2. QED
    BY <1>1, <2>1 DEF PreviewInstall, Begin
<1>2. ASSUME NEW p \in Procs, PreviewRepair(p) PROVE OwnedLinksReceipted'
  <2>1. pc[p] # "record" /\ \A r \in Procs \ {p} : pc'[r] = pc[r] /\ todo'[r] = todo[r]
    BY <1>2, Current DEF TypeOK, PreviewRepair, Begin, TypeOK
  <2>2. QED
    BY <1>2, <2>1 DEF PreviewRepair, Begin
<1>3. ASSUME NEW p \in Procs, PreviewUninstall(p) PROVE OwnedLinksReceipted'
  <2>1. pc[p] # "record" /\ \A r \in Procs \ {p} : pc'[r] = pc[r] /\ todo'[r] = todo[r]
    BY <1>3, Current DEF TypeOK, PreviewUninstall, Begin, TypeOK
  <2>2. QED
    BY <1>3, <2>1 DEF PreviewUninstall, Begin
<1>4. ASSUME NEW p \in Procs, PreviewForget(p) PROVE OwnedLinksReceipted'
  <2>1. pc[p] # "record" /\ \A r \in Procs \ {p} : pc'[r] = pc[r] /\ todo'[r] = todo[r]
    BY <1>4, Current DEF TypeOK, PreviewForget, Begin, TypeOK
  <2>2. QED
    BY <1>4, <2>1 DEF PreviewForget, Begin
<1>5. ASSUME NEW p \in Procs, Precheck(p) PROVE OwnedLinksReceipted'
  BY <1>5, Current DEF TypeOK, Precheck
<1>6. ASSUME NEW p \in Procs, AcquireGuard(p) PROVE OwnedLinksReceipted'
  BY <1>6, Current DEF TypeOK, AcquireGuard
<1>7. ASSUME NEW p \in Procs, CheckRegistration(p) PROVE OwnedLinksReceipted'
  BY <1>7, Current DEF TypeOK, CheckRegistration
<1>8. ASSUME NEW p \in Procs, RecheckDestination(p) PROVE OwnedLinksReceipted'
  BY <1>8, Current DEF TypeOK, RecheckDestination
<1>9. ASSUME NEW p \in Procs, Refuse(p) PROVE OwnedLinksReceipted'
  <2>1. pc[p] # "record" /\ \A r \in Procs \ {p} : pc'[r] = pc[r] /\ todo'[r] = todo[r]
    BY <1>9, Finishing DEF Refuse, Stop, TypeOK
  <2>2. QED
    BY <1>9, <2>1 DEF Refuse
<1>10. ASSUME NEW p \in Procs, WriteLink(p) PROVE OwnedLinksReceipted'
  BY <1>10, Current DEF TypeOK, WriteLink, Put
<1>11. ASSUME NEW p \in Procs, ReplaceProven(p) PROVE OwnedLinksReceipted'
  BY <1>11, Current DEF TypeOK, ReplaceProven, Put
<1>12. ASSUME NEW p \in Procs, ReplaceKeepingArrival(p) PROVE OwnedLinksReceipted'
  BY <1>12, Current DEF TypeOK, ReplaceKeepingArrival, Put
<1>13. ASSUME NEW p \in Procs, RecordReceipt(p) PROVE OwnedLinksReceipted'
  <2>1. \A r \in Procs \ {p} : pc'[r] = pc[r] /\ todo'[r] = todo[r]
    BY <1>13 DEF RecordReceipt, Done, TypeOK
  <2>2. [slot |-> Cur(p), target |-> plan[p].variant, id |-> plan[p].id] \in receipts'
    BY <1>13 DEF RecordReceipt
  <2>3. \/ slot[Cur(p)] \in {Empty, Foreign, plan[p].variant}
        \/ author[Cur(p)] = "other"
    BY <1>13 DEF RecordReceipt, Frozen
  <2>4. receipts \subseteq receipts' /\ UNCHANGED disk
    BY <1>13 DEF RecordReceipt
  <2>5. slot[Cur(p)] \in Variants /\ author[Cur(p)] = "skilled" => slot[Cur(p)] = plan[p].variant
    BY <2>3, Apart
  <2>6. QED
    BY <2>1, <2>2, <2>4, <2>5 DEF TypeOK
<1>14. ASSUME NEW p \in Procs, RecordFails(p) PROVE OwnedLinksReceipted'
  BY <1>14, Current DEF TypeOK, RecordFails, StopUnrecorded, Release
<1>15. ASSUME NEW p \in Procs, ReadReceipts(p) PROVE OwnedLinksReceipted'
  BY <1>15, Current DEF TypeOK, ReadReceipts
<1>16. ASSUME NEW p \in Procs, ReadLink(p) PROVE OwnedLinksReceipted'
  BY <1>16, Current DEF TypeOK, ReadLink
<1>17. ASSUME NEW p \in Procs, Unlink(p) PROVE OwnedLinksReceipted'
  BY <1>17, Current DEF TypeOK, Unlink, Done
<1>18. ASSUME NEW p \in Procs, Scan(p) PROVE OwnedLinksReceipted'
  BY <1>18, Current DEF TypeOK, Scan
<1>19. ASSUME NEW p \in Procs, FinalizeWithoutGuard(p) PROVE OwnedLinksReceipted'
  BY <1>19, Current DEF TypeOK, FinalizeWithoutGuard, Retain, Release
<1>20. ASSUME NEW p \in Procs, FinalizeCheck(p) PROVE OwnedLinksReceipted'
  BY <1>20, Current DEF TypeOK, FinalizeCheck
<1>21. ASSUME NEW p \in Procs, FinalizeActiveAgain(p) PROVE OwnedLinksReceipted'
  BY <1>21, Current DEF TypeOK, FinalizeActiveAgain, Retain, Release
<1>22. ASSUME NEW p \in Procs, FinalizeDelete(p) PROVE OwnedLinksReceipted'
  <2>1. \A r \in Procs : pc[r] = "record" => pc'[r] = pc[r] /\ todo'[r] = todo[r]
    BY <1>22 DEF FinalizeDelete, TypeOK
  <2>2. \A r \in receipts \ receipts' : Disowned(r.slot, r.target)
    BY <1>22 DEF FinalizeDelete, Frozen
  <2>3. UNCHANGED disk
    BY <1>22 DEF FinalizeDelete
  <2>4. QED
    BY <2>1, <2>2, <2>3 DEF Disowned, TypeOK
<1>23. ASSUME NEW p \in Procs, FinalizeDeleteFails(p) PROVE OwnedLinksReceipted'
  BY <1>23, Current DEF TypeOK, FinalizeDeleteFails, Retain, Release
<1>24. ASSUME NEW p \in Procs, Conclude(p) PROVE OwnedLinksReceipted'
  <2>1. pc[p] # "record" /\ \A r \in Procs \ {p} : pc'[r] = pc[r] /\ todo'[r] = todo[r]
    BY <1>24, Finishing DEF Conclude
  <2>2. QED
    BY <1>24, <2>1 DEF Conclude
<1>25. ASSUME NEW p \in Procs, CheckForget(p) PROVE OwnedLinksReceipted'
  BY <1>25, Current DEF TypeOK, CheckForget
<1>26. ASSUME NEW p \in Procs, ForgetNothing(p) PROVE OwnedLinksReceipted'
  <2>1. pc[p] # "record" /\ \A r \in Procs \ {p} : pc'[r] = pc[r] /\ todo'[r] = todo[r]
    BY <1>26, Finishing DEF ForgetNothing
  <2>2. QED
    BY <1>26, <2>1 DEF ForgetNothing
<1>27. ASSUME NEW p \in Procs, ForgetRefused(p) PROVE OwnedLinksReceipted'
  <2>1. pc[p] # "record" /\ \A r \in Procs \ {p} : pc'[r] = pc[r] /\ todo'[r] = todo[r]
    BY <1>27, Finishing DEF ForgetRefused
  <2>2. QED
    BY <1>27, <2>1 DEF ForgetRefused
<1>28. ASSUME NEW p \in Procs, Forget(p) PROVE OwnedLinksReceipted'
  <2>1. pc[p] # "record" /\ \A r \in Procs \ {p} : pc'[r] = pc[r] /\ todo'[r] = todo[r]
    BY <1>28, Finishing DEF Forget
  <2>2. \A r \in receipts \ receipts' : Disowned(r.slot, r.target)
    BY <1>28 DEF Forget, Frozen, ReceiptsOf
  <2>3. UNCHANGED disk
    BY <1>28 DEF Forget
  <2>4. QED
    BY <2>1, <2>2, <2>3, Apart DEF Disowned, TypeOK
<1>29. ASSUME NEW p \in Procs, Crash(p) PROVE OwnedLinksReceipted'
  <2>1. \A r \in Procs \ {p} : pc'[r] = pc[r] /\ todo'[r] = todo[r]
    BY <1>29, Finishing DEF Crash
  <2>2. pc[p] = "record" => Cur(p) \in excused'
    BY <1>29 DEF Crash
  <2>3. UNCHANGED <<store, slot, author>> /\ excused \subseteq excused'
    BY <1>29 DEF Crash
  <2>4. QED
    BY <2>1, <2>2, <2>3
<1>30. ASSUME Register PROVE OwnedLinksReceipted'
  BY <1>30, Current DEF TypeOK, Register
<1>31. ASSUME Adopt PROVE OwnedLinksReceipted'
  BY <1>31, Current DEF TypeOK, Adopt
<1>32. ASSUME OtherWriter PROVE OwnedLinksReceipted'
  BY <1>32, Current DEF TypeOK, OtherWriter
<1>33. ASSUME UNCHANGED vars PROVE OwnedLinksReceipted'
  BY <1>33, Current DEF TypeOK, vars
<1>34. QED
  BY <1>1, <1>2, <1>3, <1>4, <1>5, <1>6, <1>7, <1>8, <1>9, <1>10, <1>11, <1>12, <1>13,
     <1>14, <1>15, <1>16, <1>17, <1>18, <1>19, <1>20, <1>21, <1>22, <1>23, <1>24, <1>25,
     <1>26, <1>27, <1>28, <1>29, <1>30, <1>31, <1>32, <1>33 DEF Next, Advance, Preview

-----------------------------------------------------------------------------
(* Nothing is registered, planned or linked at first.                         *)
LEMMA InitIInv == Init => IInv
<1> SUFFICES ASSUME Init PROVE IInv
  OBVIOUS
<1>1. TypeOK
  <2>1. registry \in [Checkouts -> Registration] /\ nextId \in 1 .. MaxId + 1
    BY BoundOnIds DEF Init, Unregistered, Registration
  <2>2. plan \in [Procs -> Plans]
    BY NothingPlanned DEF Init
  <2>3. \A p \in Procs : guard = p <=> pc[p] \in Guarded
    BY Apart DEF Init, Guarded
  <2>4. QED
    BY <2>1, <2>2, <2>3 DEF Init, TypeOK, Content, Labels
<1>2. \A p \in Procs : Placed(p) /\ Frozen(p)
  BY DEF Init, Placed, Frozen, Nothing
<1>3. Registers
  BY DEF Init, Registers, Unregistered
<1>4. MetadataNamesRegisteredSources /\ OwnedLinksReceipted
  BY Apart DEF Init, MetadataNamesRegisteredSources, OwnedLinksReceipted
<1>5. QED
  BY <1>1, <1>2, <1>3, <1>4 DEF IInv

(* Every step of every process, a crash or another writer keeps the           *)
(* inductive invariant.                                                       *)
LEMMA StepIInv == IInv /\ [Next]_vars => IInv'
<1> SUFFICES ASSUME IInv, [Next]_vars PROVE IInv'
  OBVIOUS
<1>1. CASE Next
  BY <1>1, StepTypeOK, StepPlaced, StepMetadata, StepFrozen, StepOwned DEF IInv
<1>2. CASE UNCHANGED vars
  BY <1>2 DEF vars, IInv, TypeOK, Registers, Placed, Frozen, Disowned, Registered, ReceiptsOf,
     MetadataNamesRegisteredSources, OwnedLinksReceipted, Receipted, At, Cur
<1>3. QED
  BY <1>1, <1>2

(* The inductive invariant holds in every state.                              *)
LEMMA Invariance == Spec => []IInv
  BY InitIInv, StepIInv, PTL DEF Spec

(* TypeOK for all constants: in particular the guard is held exactly by the   *)
(* process whose operation is in its guarded part.                            *)
THEOREM TypeCorrect == Spec => []TypeOK
<1>1. IInv => TypeOK
  BY DEF IInv
<1>2. QED
  BY <1>1, Invariance, PTL

(* Receipts and baselines never outlive their source, for any number of       *)
(* processes that install, repair, uninstall, register, adopt and forget.     *)
THEOREM MetadataKept == Spec => []MetadataNamesRegisteredSources
<1>1. IInv => MetadataNamesRegisteredSources
  BY DEF IInv
<1>2. QED
  BY <1>1, Invariance, PTL

(* A link Skilled wrote, untouched since, is receipted unless its write       *)
(* reported or a crash left it unrecorded.                                    *)
THEOREM OwnershipKept == Spec => []OwnedLinksReceipted
<1>1. IInv => OwnedLinksReceipted
  BY DEF IInv
<1>2. QED
  BY <1>1, Invariance, PTL

(* Only a retirement under the guard removes receipts, and what it checked    *)
(* there still holds when it removes them.                                    *)
THEOREM EvidenceKept == Spec => ReceiptsOutliveTheirLinks
<1> DEFINE Kept == \A r \in receipts \ receipts' :
             slot[r.slot] = r.target => author[r.slot] = "other"
<1>1. IInv /\ Next => Kept
  <2> SUFFICES ASSUME IInv, Next PROVE Kept
    OBVIOUS
  <2>1. CASE UNCHANGED store \/ Register \/ Adopt
    BY <2>1 DEF store, Register, Adopt
  <2>2. ASSUME NEW p \in Procs, RecordReceipt(p) PROVE Kept
    BY <2>2 DEF RecordReceipt
  <2>3. ASSUME NEW p \in Procs, FinalizeDelete(p) PROVE Kept
    BY <2>3 DEF FinalizeDelete, At, IInv, Frozen, Disowned
  <2>4. ASSUME NEW p \in Procs, Forget(p) PROVE Kept
    BY <2>4 DEF Forget, At, IInv, Frozen, Disowned, ReceiptsOf
  <2>5. QED
    BY <2>1, <2>2, <2>3, <2>4, StoreSteps
<1>2. IInv /\ [Next]_vars => [Kept]_vars
  BY <1>1
<1>3. QED
  BY <1>2, Invariance, PTL DEF Spec, ReceiptsOutliveTheirLinks

(* What install and repair write is what the registry selects as they write.  *)
THEOREM SelectionFollowed == Spec => WritesFollowTheRegistry
<1> DEFINE Follows == \A s \in Slots :
             slot'[s] \in Variants /\ slot'[s] # slot[s] /\ author'[s] = "skilled"
               => Selects(registry, slot'[s])
<1>1. IInv /\ Next => Follows
  <2> SUFFICES ASSUME IInv, Next PROVE Follows
    OBVIOUS
  <2> USE DEF IInv, TypeOK
  <2>1. CASE UNCHANGED disk
    BY <2>1 DEF disk
  <2>2. CASE OtherWriter
    BY <2>2 DEF OtherWriter
  <2>3. ASSUME NEW p \in Procs, WriteLink(p) \/ ReplaceProven(p) \/ ReplaceKeepingArrival(p)
        PROVE  Follows
    <3>1. Put(p, Cur(p)) /\ pc[p] = "write"
      BY <2>3 DEF WriteLink, ReplaceProven, ReplaceKeepingArrival, At
    <3>2. Selects(registry, plan[p].variant)
      BY <3>1 DEF Frozen, Placed
    <3>3. QED
      BY <3>1, <3>2 DEF Put
  <2>4. ASSUME NEW p \in Procs, RecordFails(p) \/ Crash(p) PROVE Follows
    BY <2>4 DEF RecordFails, Crash
  <2>5. ASSUME NEW p \in Procs, Unlink(p) PROVE Follows
    BY <2>5 DEF Unlink
  <2>6. QED
    BY <2>1, <2>2, <2>3, <2>4, <2>5, DiskSteps
<1>2. IInv /\ [Next]_vars => [Follows]_vars
  BY <1>1
<1>3. QED
  BY <1>2, Invariance, PTL DEF Spec, WritesFollowTheRegistry

(* Forget deletes exactly the receipts and the baseline its preview showed.   *)
THEOREM ForgetExact == Spec => ForgetsWhatWasPreviewed
<1> DEFINE Exact == \A p \in Procs :
             Forget(p) => /\ receipts \ receipts' = plan[p].receipts
                          /\ plan[p].baseline <=> baselines # baselines'
<1>1. IInv => Exact
  BY DEF IInv, Forget, Frozen, At, ReceiptsOf
<1>2. IInv /\ [Next]_vars => [Exact]_vars
  BY <1>1
<1>3. QED
  BY <1>2, Invariance, PTL DEF Spec, ForgetsWhatWasPreviewed

-----------------------------------------------------------------------------
(* No other Skilled process.                                                  *)
Alone == \A p, q \in Procs : p = q

(* What a run may say of itself.  While it has targets to attempt they and    *)
(* those it changed are its plan's; afterwards it changed them all or says    *)
(* that it stopped.  What install and repair wrote is receipted unless the    *)
(* run says otherwise, and what uninstall is through with is not, or it says. *)
Applying == {"precheck", "guard", "check", "recheck", "write", "record", "readlink", "unlink"}
Reporting == {"scan", "finalize", "finalcheck", "finaldelete"}

Honest(p) ==
  /\ pc[p] = "idle" => hit[p] = {} /\ flags[p] = {}
  /\ pc[p] \in Reporting => plan[p].op # "forget"
  /\ pc[p] \in Applying /\ plan[p].op # "forget" => hit[p] \cup todo[p] = plan[p].work
  /\ pc[p] \in Reporting => hit[p] = plan[p].work \/ "stopped" \in flags[p]
  /\ plan[p].op \in {"install", "repair"} /\ "unrecorded" \notin flags[p] =>
       \A s \in hit[p] : Receipted(s, plan[p].variant)
  /\ plan[p].op = "uninstall" /\ pc[p] \in Reporting \ {"scan"} =>
       \/ flags[p] \cap {"unverified", "unrecorded"} # {}
       \/ \A s \in hit[p] \ todo[p] : ~Receipted(s, plan[p].old[s])
(* A run that is over has nothing left to say.                                *)
LEMMA Resting ==
  ASSUME TypeOK, NEW p \in Procs, Finish(p)
  PROVE  Honest(p)'
  BY DEF Finish, Goto, Nothing, TypeOK, Honest, Applying, Reporting

(* A run begins with all of its plan to do.                                   *)
LEMMA Setting ==
  ASSUME TypeOK, NEW p \in Procs, NEW label \in {"precheck", "guard"},
         NEW newPlan \in Plans, NEW work, Begin(p, label, newPlan, work), Honest(p)
  PROVE  Honest(p)'
<1>1. plan'[p].work = work /\ todo'[p] = work /\ pc'[p] = label /\ pc[p] = "idle"
  BY DEF Begin, At, Goto, TypeOK, Plans
<1>2. hit'[p] = {} /\ flags'[p] = {}
  BY <1>1 DEF Begin, Honest
<1>3. QED
  BY <1>1, <1>2 DEF Honest, Applying, Reporting

(* Every step of a process that is alone leaves it honest.                    *)
LEMMA StepHonest ==
  ASSUME Alone, NEW q \in Procs, TypeOK, Placed(q), Honest(q), Next
  PROVE  Honest(q)'
<1> USE DEF At, Goto, KeepProgress, TypeOK, store
<1> DEFINE Same == plan'[q] = plan[q] /\ hit'[q] = hit[q] /\ receipts' = receipts
<1>1. ASSUME Preview(q) PROVE Honest(q)'
  <2>1. CASE PreviewInstall(q)
    <3>1. PICK v \in Variants, requested \in SUBSET Slots :
            Begin(q, "precheck",
                  [Nothing EXCEPT !.op = "install", !.checkout = CheckoutOf[v], !.variant = v,
                                  !.id = registry[CheckoutOf[v]].id, !.registry = registry],
                  {s \in requested : slot[s] = Empty})
      BY <2>1 DEF PreviewInstall
    <3>2. plan'[q].work = {s \in requested : slot[s] = Empty}
          /\ todo'[q] = {s \in requested : slot[s] = Empty}
          /\ pc[q] = "idle" /\ pc'[q] = "precheck"
      BY <3>1 DEF Begin, Nothing
    <3>3. QED
      BY <3>1, <3>2 DEF Begin, Honest, Applying, Reporting
  <2>2. CASE PreviewRepair(q)
    <3>1. PICK v \in Variants, s \in Slots :
            Begin(q, "precheck",
                  [Nothing EXCEPT !.op = "repair", !.checkout = CheckoutOf[v], !.variant = v,
                                  !.id = registry[CheckoutOf[v]].id, !.registry = registry,
                                  !.old[s] = slot[s]], {s})
      BY <2>2 DEF PreviewRepair
    <3>2. plan'[q].work = {s} /\ todo'[q] = {s} /\ pc[q] = "idle" /\ pc'[q] = "precheck"
      BY <3>1 DEF Begin, Nothing
    <3>3. QED
      BY <3>1, <3>2 DEF Begin, Honest, Applying, Reporting
  <2>3. CASE PreviewUninstall(q)
    <3> DEFINE work(requested) ==
                 {s \in {t \in requested : \E r \in receipts : r.slot = t} : slot[s] # Empty}
    <3>1. PICK requested \in SUBSET Slots :
            Begin(q, "precheck",
                  [Nothing EXCEPT !.op = "uninstall",
                                  !.old = [s \in Slots |-> IF s \in work(requested)
                                                           THEN slot[s] ELSE Empty]],
                  work(requested))
      BY <2>3 DEF PreviewUninstall
    <3> HIDE DEF work
    <3>2. plan'[q].work = work(requested) /\ todo'[q] = work(requested)
          /\ pc[q] = "idle" /\ pc'[q] = "precheck"
      BY <3>1 DEF Begin, Nothing
    <3>3. QED
      BY <3>1, <3>2 DEF Begin, Honest, Applying, Reporting
  <2>4. CASE PreviewForget(q)
    <3>1. pc[q] = "idle" /\ pc'[q] = "guard" /\ plan'[q].op = "forget"
          /\ hit' = hit /\ flags' = flags
      BY <2>4 DEF PreviewForget, Begin, Nothing
    <3>2. QED
      BY <3>1 DEF Honest, Applying, Reporting
  <2>5. QED
    BY <1>1, <2>1, <2>2, <2>3, <2>4 DEF Preview
<1>2. ASSUME \/ Precheck(q) \/ AcquireGuard(q) \/ CheckRegistration(q)
             \/ RecheckDestination(q) \/ WriteLink(q) \/ ReplaceProven(q)
             \/ ReadReceipts(q) \/ ReadLink(q) \/ CheckForget(q) \/ FinalizeCheck(q)
      PROVE  Honest(q)'
  <2>1. UNCHANGED <<plan, todo, hit, flags, receipts>>
    BY <1>2 DEF Precheck, AcquireGuard, CheckRegistration, RecheckDestination, WriteLink,
                ReplaceProven, ReadReceipts, ReadLink, CheckForget, FinalizeCheck
  <2>2. \/ pc[q] \in Applying /\ pc'[q] \in Applying \cup {"discard"}
        \/ pc[q] \in Reporting \ {"scan"} /\ pc'[q] \in Reporting
    BY <1>2 DEF Precheck, AcquireGuard, CheckRegistration, RecheckDestination, WriteLink,
                ReplaceProven, ReadReceipts, ReadLink, CheckForget, FinalizeCheck,
                Applying, Reporting
  <2>3. QED
    BY <2>1, <2>2 DEF Honest, Receipted, Applying, Reporting
<1>3. ASSUME ReplaceKeepingArrival(q) PROVE Honest(q)'
  BY <1>3 DEF ReplaceKeepingArrival, Honest, Receipted, Applying, Reporting
<1>4. ASSUME Refuse(q) PROVE Honest(q)'
  <2>1. CASE Finish(q)
    BY <2>1, Resting
  <2>2. CASE ~Finish(q)
    <3>1. /\ pc'[q] = "scan" /\ "stopped" \in flags'[q] /\ flags[q] \subseteq flags'[q]
          /\ plan[q].op # "forget" /\ Same
      BY <1>4, <2>2 DEF Refuse, Stop
    <3>2. "unrecorded" \notin flags'[q] => "unrecorded" \notin flags[q]
      BY <3>1
    <3>3. QED
      BY <3>1, <3>2 DEF Honest, Receipted, Applying, Reporting
  <2>3. QED
    BY <2>1, <2>2
<1>5. ASSUME RecordReceipt(q) PROVE Honest(q)'
  <2>1. /\ pc[q] = "record" /\ todo[q] # {} /\ plan[q].op \in {"install", "repair"}
        /\ Cur(q) \in todo[q]
    BY <1>5, Current DEF RecordReceipt, Placed
  <2>2. /\ plan'[q] = plan[q] /\ flags'[q] = flags[q]
        /\ receipts' = receipts \cup
             {[slot |-> Cur(q), target |-> plan[q].variant, id |-> plan[q].id]}
        /\ hit'[q] = hit[q] \cup {Cur(q)} /\ todo'[q] = todo[q] \ {Cur(q)}
        /\ pc'[q] = IF todo[q] = {Cur(q)} THEN "scan" ELSE "precheck"
    BY <1>5 DEF RecordReceipt, Done
  <2> DEFINE proven(s) == \E r \in receipts' : r.slot = s /\ r.target = plan[q].variant
  <2>3. proven(Cur(q)) /\ \A s \in Slots : Receipted(s, plan[q].variant) => proven(s)
    <3> DEFINE new == [slot |-> Cur(q), target |-> plan[q].variant, id |-> plan[q].id]
    <3>1. new \in receipts' /\ new.slot = Cur(q) /\ new.target = plan[q].variant
      BY <2>2
    <3>2. proven(Cur(q))
      <4> HIDE DEF new
      <4> QED
        BY <3>1
    <3>3. \A s \in Slots : Receipted(s, plan[q].variant) => proven(s)
      <4> HIDE DEF new
      <4> QED
        BY <2>2 DEF Receipted, new
    <3>4. QED
      BY <3>2, <3>3
  <2>4. hit'[q] \cup todo'[q] = plan[q].work
    BY <2>1, <2>2 DEF Honest, Applying
  <2>5. pc'[q] = "scan" => todo'[q] = {}
    BY <2>2
  <2>6. "unrecorded" \notin flags'[q] => \A s \in hit'[q] : proven(s)
    BY <2>1, <2>2, <2>3 DEF Honest
  <2>7. QED
    BY <2>1, <2>2, <2>4, <2>5, <2>6 DEF Honest, Receipted, Applying, Reporting
<1>6. ASSUME RecordFails(q) PROVE Honest(q)'
  <2>1. /\ pc[q] = "record" /\ todo[q] # {} /\ plan[q].op \in {"install", "repair"}
        /\ Cur(q) \in todo[q]
    BY <1>6, Current DEF RecordFails, Placed
  <2>2. /\ plan'[q] = plan[q] /\ pc'[q] = "scan" /\ "unrecorded" \in flags'[q]
        /\ hit'[q] = hit[q] \cup {Cur(q)}
        /\ todo[q] = {Cur(q)} \/ "stopped" \in flags'[q]
    BY <1>6 DEF RecordFails, StopUnrecorded
  <2>3. QED
    BY <2>1, <2>2 DEF Honest, Receipted, Applying, Reporting
<1>7. ASSUME Unlink(q) PROVE Honest(q)'
  <2>1. /\ pc[q] = "unlink" /\ todo[q] # {} /\ plan[q].op = "uninstall"
        /\ Cur(q) \in todo[q]
    BY <1>7, Current DEF Unlink, Placed
  <2>2. /\ plan'[q] = plan[q] /\ flags'[q] = flags[q] /\ receipts' = receipts
        /\ hit'[q] = hit[q] \cup {Cur(q)} /\ todo'[q] = todo[q] \ {Cur(q)}
        /\ pc'[q] = IF todo[q] = {Cur(q)} THEN "scan" ELSE "precheck"
    BY <1>7 DEF Unlink, Done
  <2>3. hit'[q] \cup todo'[q] = plan[q].work
    BY <2>1, <2>2 DEF Honest, Applying
  <2>4. pc'[q] = "scan" => todo'[q] = {}
    BY <2>2
  <2>5. QED
    BY <2>1, <2>2, <2>3, <2>4 DEF Honest, Receipted, Applying, Reporting
<1>8. ASSUME Scan(q) PROVE Honest(q)'
  <2>1. /\ pc[q] = "scan" /\ pc'[q] = "finalize" /\ Same
        /\ flags[q] \subseteq flags'[q] /\ flags'[q] \subseteq flags[q] \cup {"unverified"}
        /\ plan[q].op = "uninstall" => todo'[q] = hit[q] \/ "unverified" \in flags'[q]
    BY <1>8 DEF Scan
  <2>2. "unrecorded" \notin flags'[q] => "unrecorded" \notin flags[q]
    BY <2>1
  <2>3. QED
    BY <2>1, <2>2 DEF Honest, Receipted, Applying, Reporting
<1>9. ASSUME FinalizeWithoutGuard(q) \/ FinalizeActiveAgain(q) \/ FinalizeDeleteFails(q)
      PROVE  Honest(q)'
  <2>1. /\ pc[q] \in Reporting \ {"scan"} /\ receipts' = receipts
        /\ \E flag \in {"unverified", "unrecorded"} : Retain(q, flag)
        /\ plan[q].op = "uninstall"
    BY <1>9 DEF FinalizeWithoutGuard, FinalizeActiveAgain, FinalizeDeleteFails, Retain,
                Reporting, Placed
  <2>2. /\ pc[q] \in Reporting \ {"scan"} /\ pc'[q] = "finalize" /\ Same
        /\ flags'[q] \cap {"unverified", "unrecorded"} # {} /\ flags[q] \subseteq flags'[q]
        /\ plan[q].op = "uninstall"
    <3>1. PICK flag \in {"unverified", "unrecorded"} : Retain(q, flag)
      BY <2>1
    <3>2. flags'[q] = flags[q] \cup {flag} /\ pc'[q] = "finalize"
          /\ plan'[q] = plan[q] /\ hit'[q] = hit[q]
      BY <3>1 DEF Retain
    <3>3. flag \in flags'[q] \cap {"unverified", "unrecorded"}
      BY <3>2
    <3>4. QED
      BY <2>1, <3>2, <3>3
  <2>3. QED
    BY <2>2 DEF Honest, Receipted, Applying, Reporting
<1>10. ASSUME FinalizeDelete(q) PROVE Honest(q)'
  <2>1. /\ pc[q] = "finaldelete" /\ plan[q].op = "uninstall"
        /\ pc'[q] = "finalize" /\ plan'[q] = plan[q] /\ hit'[q] = hit[q]
        /\ flags'[q] = flags[q] /\ todo'[q] = todo[q] \ {Cur(q)}
        /\ receipts' = {r \in receipts :
             ~(r.slot = Cur(q) /\ r.target = plan[q].old[Cur(q)])}
    BY <1>10 DEF FinalizeDelete, Placed
  <2> DEFINE retired(s) == ~\E r \in receipts' : r.slot = s /\ r.target = plan[q].old[s]
  <2>2. retired(Cur(q))
    BY <2>1
  <2>3. \A s \in hit[q] \ todo[q] : ~Receipted(s, plan[q].old[s]) => retired(s)
    BY <2>1 DEF Receipted
  <2>4. flags[q] \cap {"unverified", "unrecorded"} = {} =>
          \A s \in hit'[q] \ todo'[q] : retired(s)
    BY <2>1, <2>2, <2>3 DEF Honest, Reporting
  <2>5. QED
    BY <2>1, <2>4 DEF Honest, Receipted, Applying, Reporting
<1>11. ASSUME \/ Conclude(q) \/ ForgetNothing(q) \/ ForgetRefused(q) \/ Forget(q)
              \/ Crash(q)
       PROVE  Honest(q)'
  <2>1. Finish(q)
    BY <1>11 DEF Conclude, ForgetNothing, ForgetRefused, Forget, Crash
  <2>2. QED
    BY <2>1, Resting
<1>12. ASSUME Register \/ Adopt \/ OtherWriter PROVE Honest(q)'
  BY <1>12 DEF Register, Adopt, OtherWriter, Honest, Receipted
<1>13. \A p \in Procs : p = q
  BY DEF Alone
<1>14. QED
  BY <1>1, <1>2, <1>3, <1>4, <1>5, <1>6, <1>7, <1>8, <1>9, <1>10, <1>11, <1>12, <1>13
     DEF Next, Advance

(* With no other Skilled process at work, whatever other programs do to the   *)
(* links, a reported success did all of its plan and the receipts say so.     *)
THEOREM SuccessReceipted ==
  ASSUME Alone
  PROVE  Spec => SuccessIsDurable
<1> DEFINE AllHonest == \A p \in Procs : Honest(p)
           Durable == \A p \in Procs :
             Conclude(p) /\ Status(plan[p].op, flags[p])
                              \in {"Installed", "Repaired", "Uninstalled"}
               => /\ hit[p] = plan[p].work
                  /\ \A s \in hit[p] : IF plan[p].op = "uninstall"
                                       THEN ~Receipted(s, plan[p].old[s])
                                       ELSE Receipted(s, plan[p].variant)
<1>1. Init => AllHonest
  BY DEF Init, Nothing, Honest, Applying, Reporting
<1>2. IInv /\ AllHonest /\ [Next]_vars => AllHonest'
  <2> SUFFICES ASSUME IInv, AllHonest, [Next]_vars, NEW q \in Procs PROVE Honest(q)'
    OBVIOUS
  <2>1. CASE Next
    BY <2>1, StepHonest DEF IInv
  <2>2. CASE UNCHANGED vars
    BY <2>2 DEF vars, Honest, Receipted
  <2>3. QED
    BY <2>1, <2>2
<1>3. IInv /\ AllHonest => Durable
  <2> SUFFICES ASSUME IInv, AllHonest, NEW p \in Procs, Conclude(p),
                      Status(plan[p].op, flags[p]) \in {"Installed", "Repaired", "Uninstalled"}
               PROVE  /\ hit[p] = plan[p].work
                      /\ \A s \in hit[p] : IF plan[p].op = "uninstall"
                                           THEN ~Receipted(s, plan[p].old[s])
                                           ELSE Receipted(s, plan[p].variant)
    OBVIOUS
  <2>1. pc[p] = "finalize" /\ todo[p] = {} /\ Honest(p)
    BY DEF Conclude, At
  <2>2. plan[p].op \in {"install", "repair", "uninstall"}
    BY <2>1 DEF IInv, Placed, TypeOK, Plans, Honest, Reporting
  <2>3. flags[p] \cap {"stopped", "residue"} = {} /\ "unrecorded" \notin flags[p]
        /\ "unverified" \notin flags[p]
    BY DEF Status
  <2>4. QED
    BY <2>1, <2>2, <2>3 DEF Honest, Reporting
<1>4. IInv /\ AllHonest /\ [Next]_vars => [Durable]_vars
  BY <1>3
<1>5. QED
  BY <1>1, <1>2, <1>4, Invariance, PTL DEF Spec, SuccessIsDurable
=============================================================================
