---------------------------- MODULE LinkLifecycle ----------------------------
(***************************************************************************)
(* The four confirmed operations on installed links - install, repair,     *)
(* uninstall and forget source (src/operations.rs) - run by several        *)
(* Skilled processes over one metadata store (src/store.rs), one set of    *)
(* link paths and one other writer, such as a shell or a checkout.  Each   *)
(* operation previews, waits for its confirmation, re-establishes what it  *)
(* previewed, writes, and records; any process may die between two steps.  *)
(*                                                                         *)
(* The store's mutation guard is SQLite's immediate transaction: one       *)
(* process at a time, and what is staged in it is durable only on commit.  *)
(* It freezes metadata, never the filesystem.                              *)
(***************************************************************************)
EXTENDS Integers, FiniteSets

CONSTANTS Procs,      \* Skilled processes
          Slots,      \* installation paths of one skill, in AgentKind::ALL order
          Checkouts,  \* source repositories on disk
          Variants,   \* canonical variant directories, the targets of links
          CheckoutOf, \* [Variants -> Checkouts]
          Empty,      \* nothing at a path
          Foreign,    \* a file there, which is no link
          NoOne,      \* nobody holds the guard; no checkout in a plan
          MaxId       \* bound on the source ids handed out

ASSUME SlotsAreNumbered == IsFiniteSet(Slots) /\ Slots \subseteq Nat
ASSUME CheckoutsOfVariants == CheckoutOf \in [Variants -> Checkouts]
ASSUME BoundOnIds == MaxId \in Nat
ASSUME Apart == NoOne \notin Procs /\ Empty \notin Variants /\ Foreign \notin Variants
                /\ Empty # Foreign

VARIABLES
  registry,  \* per checkout: the id of its registration (0 for none) and what it offers
  nextId,    \* the source-id sequence
  baselines, \* ids with an adopted origin baseline
  receipts,  \* committed ownership receipts
  guard,     \* the process holding the mutation guard
  slot,      \* what is at each installation path
  author,    \* who put it there
  excused,   \* slots whose live link a crash or a failed write left unrecorded
  pc, plan, todo, hit, flags, stray   \* per process, see below

store == <<registry, nextId, baselines, receipts>>
disk  == <<slot, author, excused>>
vars  == <<registry, nextId, baselines, receipts, guard, slot, author, excused,
           pc, plan, todo, hit, flags, stray>>

Ids == 1 .. MaxId
Content == Variants \cup {Empty, Foreign}
Registration == [id : 0 .. MaxId, offers : SUBSET Variants]
Receipt == [slot : Slots, target : Variants, id : Ids]

Unregistered == [id |-> 0, offers |-> {}]
Registered(id) == \E c \in Checkouts : registry[c].id = id

(* narrow over one skill name: the variants every registered catalog offers.  *)
Offered(reg) == UNION {reg[c].offers : c \in Checkouts}
Selects(reg, v) == Offered(reg) = {v}

(* receipt_for: a receipt for this path whose target is the link that is there. *)
Receipted(s, target) == \E r \in receipts : r.slot = s /\ r.target = target
ReceiptsOf(id) == {r \in receipts : r.id = id}

(* probe_forget, exact_link_is_inactive: the recorded link is not there.      *)
Inactive(s, target) == slot[s] # target

First(S) == CHOOSE s \in S : \A other \in S : s <= other

-----------------------------------------------------------------------------
(* A process: its place in the operation, the plan it confirmed, the slots    *)
(* left to do, the slots it changed, what went wrong, and whether it unlinked *)
(* something its plan did not name.                                           *)
Nothing == [op |-> "none", work |-> {}, checkout |-> NoOne, id |-> 0, variant |-> Empty,
            old |-> [s \in Slots |-> Empty],
            registry |-> [c \in Checkouts |-> Unregistered],
            receipts |-> {}, baseline |-> FALSE]

Init ==
  /\ registry = [c \in Checkouts |-> Unregistered]
  /\ nextId = 1
  /\ baselines = {}
  /\ receipts = {}
  /\ guard = NoOne
  /\ slot = [s \in Slots |-> Empty]
  /\ author = [s \in Slots |-> "other"]
  /\ excused = {}
  /\ pc = [p \in Procs |-> "idle"]
  /\ plan = [p \in Procs |-> Nothing]
  /\ todo = [p \in Procs |-> {}]
  /\ hit = [p \in Procs |-> {}]
  /\ flags = [p \in Procs |-> {}]
  /\ stray = [p \in Procs |-> FALSE]

Cur(p) == First(todo[p])
At(p, label) == pc[p] = label
Goto(p, label) == pc' = [pc EXCEPT ![p] = label]
Holds(p) == guard = p
Release(p) == guard' = IF guard = p THEN NoOne ELSE guard
KeepProgress == UNCHANGED <<plan, todo, hit, flags, stray>>

(* The run is over, reported, and its plan dropped.                           *)
Finish(p) ==
  /\ Goto(p, "idle")
  /\ plan' = [plan EXCEPT ![p] = Nothing]
  /\ todo' = [todo EXCEPT ![p] = {}]
  /\ hit' = [hit EXCEPT ![p] = {}]
  /\ flags' = [flags EXCEPT ![p] = {}]
  /\ stray' = [stray EXCEPT ![p] = FALSE]

(* Fault: the guard kept by a run that stopped.                               *)
StopHoldingGuard(p) ==
  /\ UNCHANGED guard
  /\ IF hit[p] = {}
     THEN Finish(p)
     ELSE /\ Goto(p, "scan")
          /\ todo' = [todo EXCEPT ![p] = {}]
          /\ flags' = [flags EXCEPT ![p] = @ \cup {"stopped"}]
          /\ UNCHANGED <<plan, hit, stray>>

(* A target failed before its write: the targets behind it stay unattempted,  *)
(* and links already written are scanned and reported, never rolled back.     *)
Stop(p) ==
  /\ Release(p)
  /\ IF hit[p] = {}
     THEN Finish(p)
     ELSE /\ Goto(p, "scan")
          /\ todo' = [todo EXCEPT ![p] = {}]
          /\ flags' = [flags EXCEPT ![p] = @ \cup {"stopped"}]
          /\ UNCHANGED <<plan, hit, stray>>

(* Fault: a receipt that failed to commit taken for one that did.             *)
StopQuietly(p) ==
  /\ Release(p)
  /\ Goto(p, "scan")
  /\ excused' = excused \cup {Cur(p)}
  /\ hit' = [hit EXCEPT ![p] = @ \cup {Cur(p)}]
  /\ todo' = [todo EXCEPT ![p] = {}]
  /\ flags' = [flags EXCEPT ![p] = IF todo[p] = {Cur(p)} THEN @ ELSE @ \cup {"stopped"}]
  /\ UNCHANGED <<plan, stray>>

(* The link is live and its receipt is not durable; the run stops here too.   *)
StopUnrecorded(p) ==
  /\ Release(p)
  /\ Goto(p, "scan")
  /\ excused' = excused \cup {Cur(p)}
  /\ hit' = [hit EXCEPT ![p] = @ \cup {Cur(p)}]
  /\ todo' = [todo EXCEPT ![p] = {}]
  /\ flags' = [flags EXCEPT ![p] = @ \cup {"unrecorded"}
                 \cup (IF todo[p] = {Cur(p)} THEN {} ELSE {"stopped"})]
  /\ UNCHANGED <<plan, stray>>

Done(p, next) ==
  /\ Goto(p, IF todo[p] = {Cur(p)} THEN "scan" ELSE next)
  /\ hit' = [hit EXCEPT ![p] = @ \cup {Cur(p)}]
  /\ todo' = [todo EXCEPT ![p] = @ \ {Cur(p)}]

Begin(p, label, newPlan, work) ==
  /\ At(p, "idle")
  /\ Goto(p, label)
  /\ plan' = [plan EXCEPT ![p] = [newPlan EXCEPT !.work = work]]
  /\ todo' = [todo EXCEPT ![p] = work]
  /\ UNCHANGED <<store, disk, guard, hit, flags, stray>>

-----------------------------------------------------------------------------
(* plan_install: the uniquely selected variant, the requested slots that are  *)
(* free; a requested slot holding anything but this variant's link blocks the *)
(* whole plan, and a blocked or empty plan writes nothing.                    *)
PreviewInstall(p) ==
  \E v \in Variants, requested \in SUBSET Slots :
    LET c == CheckoutOf[v]
        work == {s \in requested : slot[s] = Empty}
    IN  /\ Selects(registry, v)
        /\ \A s \in requested : slot[s] \in {Empty, v}
        /\ work # {}
        /\ Begin(p, "precheck",
                 [Nothing EXCEPT !.op = "install", !.checkout = c, !.variant = v,
                                 !.id = registry[c].id, !.registry = registry], work)

(* plan_repair: one slot holding a link a receipt proves, while the registry  *)
(* selects another variant for its skill name.                                *)
PreviewRepair(p) ==
  \E v \in Variants, s \in Slots :
    LET c == CheckoutOf[v]
    IN  /\ Selects(registry, v)
        /\ slot[s] \in Variants \ {v}
        /\ Receipted(s, slot[s])
        /\ Begin(p, "precheck",
                 [Nothing EXCEPT !.op = "repair", !.checkout = c, !.variant = v,
                                 !.id = registry[c].id, !.registry = registry,
                                 !.old[s] = slot[s]], {s})

(* plan_uninstall: the requested slots whose exact link a receipt proves.  A  *)
(* receipted path that holds something else blocks the plan.                  *)
PreviewUninstall(p) ==
  \E requested \in SUBSET Slots :
    LET receipted == {s \in requested : \E r \in receipts : r.slot = s}
        work == {s \in receipted : slot[s] # Empty}
    IN  /\ \A s \in work : Receipted(s, slot[s])
        /\ work # {}
        /\ Begin(p, "precheck",
                 [Nothing EXCEPT !.op = "uninstall",
                                 !.old = [s \in Slots |-> IF s \in work THEN slot[s]
                                                                        ELSE Empty]], work)

(* plan_forget: a registered source, every one of whose recorded links is     *)
(* inactive now.                                                              *)
PreviewForget(p) ==
  \E c \in Checkouts :
    LET id == registry[c].id
    IN  /\ id # 0
        /\ \A r \in ReceiptsOf(id) : Inactive(r.slot, r.target)
        /\ Begin(p, "guard",
                 [Nothing EXCEPT !.op = "forget", !.checkout = c, !.id = id,
                                 !.registry[c] = registry[c], !.receipts = ReceiptsOf(id),
                                 !.baseline = id \in baselines], {})

-----------------------------------------------------------------------------
(* The destination is read again before anything else, and by repair once     *)
(* more under the guard: it must be what the plan described.                  *)
Precheck(p) ==
  /\ At(p, "precheck") /\ plan[p].op \in {"install", "repair"}
  /\ slot[Cur(p)] = plan[p].old[Cur(p)]
  /\ Goto(p, "guard")
  /\ UNCHANGED <<store, disk, guard>> /\ KeepProgress

(* begin_mutation, for an operation and for an uninstall's finalization.      *)
AcquireGuard(p) ==
  /\ \/ At(p, "guard")
     \/ At(p, "finalize") /\ todo[p] # {}
  /\ guard = NoOne
  /\ guard' = p
  /\ Goto(p, IF pc[p] = "guard" THEN "check" ELSE "finalcheck")
  /\ UNCHANGED <<store, disk>> /\ KeepProgress

(* Fault: deciding on the plan alone.                                         *)
CheckRegistrationTrusted(p) ==
  /\ At(p, "check") /\ plan[p].op \in {"install", "repair"}
  /\ Goto(p, IF plan[p].op = "install" THEN "write" ELSE "recheck")
  /\ UNCHANGED <<store, disk, guard>> /\ KeepProgress

(* source_is_registered, variant_registration_matches, registry_fingerprint.  *)
CheckRegistration(p) ==
  /\ At(p, "check") /\ plan[p].op \in {"install", "repair"}
  /\ Registered(plan[p].id)
  /\ registry[plan[p].checkout] = plan[p].registry[plan[p].checkout]
  /\ registry = plan[p].registry
  /\ Goto(p, IF plan[p].op = "install" THEN "write" ELSE "recheck")
  /\ UNCHANGED <<store, disk, guard>> /\ KeepProgress

RecheckDestination(p) ==
  /\ At(p, "recheck")
  /\ slot[Cur(p)] = plan[p].old[Cur(p)]
  /\ Goto(p, "write")
  /\ UNCHANGED <<store, disk, guard>> /\ KeepProgress

(* A check the other actions make is not met, the guard could not be taken in *)
(* time, the source directory or the checkout is not the planned one, the     *)
(* skill root changed, or the system call failed: nothing is written.         *)
Refuse(p) ==
  /\ pc[p] \in {"precheck", "guard", "check", "recheck", "write", "readlink", "unlink"}
  /\ plan[p].op # "forget"
  /\ Stop(p)
  /\ UNCHANGED <<store, disk>>

Put(p, s) ==
  /\ slot' = [slot EXCEPT ![s] = plan[p].variant]
  /\ author' = [author EXCEPT ![s] = "skilled"]
  /\ excused' = excused \ {s}

(* Fault: the guard given up before the receipt is durable.                   *)
WriteLinkUnguarded(p) ==
  /\ At(p, "write") /\ plan[p].op = "install"
  /\ slot[Cur(p)] = Empty
  /\ Put(p, Cur(p))
  /\ Release(p)
  /\ Goto(p, "record")
  /\ UNCHANGED store /\ KeepProgress

(* symlink, which fails if anything is at the path.                           *)
WriteLink(p) ==
  /\ At(p, "write") /\ plan[p].op = "install"
  /\ slot[Cur(p)] = Empty
  /\ Put(p, Cur(p))
  /\ Goto(p, "record")
  /\ UNCHANGED <<store, guard>> /\ KeepProgress

(* replace_directory_symlink as one step (LinkExchange has its system calls): *)
(* the proven link makes way for the replacement.                             *)
ReplaceProven(p) ==
  /\ At(p, "write") /\ plan[p].op = "repair"
  /\ slot[Cur(p)] = plan[p].old[Cur(p)]
  /\ Put(p, Cur(p))
  /\ Goto(p, "record")
  /\ UNCHANGED <<store, guard>> /\ KeepProgress

(* What the exchange displaced could be neither discarded nor swapped back:   *)
(* it is kept beside the slot and reported, and the replacement is live.      *)
ReplaceKeepingArrival(p) ==
  /\ At(p, "write") /\ plan[p].op = "repair"
  /\ slot[Cur(p)] # Empty
  /\ Put(p, Cur(p))
  /\ Goto(p, "record")
  /\ flags' = [flags EXCEPT ![p] = @ \cup {"residue"}]
  /\ UNCHANGED <<store, guard, plan, todo, hit, stray>>

(* record_receipt and commit.                                                 *)
RecordReceipt(p) ==
  /\ At(p, "record")
  /\ receipts' = receipts \cup {[slot |-> Cur(p), target |-> plan[p].variant, id |-> plan[p].id]}
  /\ Release(p)
  /\ Done(p, "precheck")
  /\ UNCHANGED <<registry, nextId, baselines, disk, plan, flags, stray>>

RecordFails(p) ==
  /\ At(p, "record")
  /\ StopUnrecorded(p)
  /\ UNCHANGED <<store, slot, author>>

-----------------------------------------------------------------------------
(* apply_uninstall_target takes no guard.  The receipts are read again ...    *)
ReadReceipts(p) ==
  /\ At(p, "precheck") /\ plan[p].op = "uninstall"
  /\ Receipted(Cur(p), plan[p].old[Cur(p)])
  /\ Goto(p, "readlink")
  /\ UNCHANGED <<store, disk, guard>> /\ KeepProgress

(* ... then the link ...                                                      *)
ReadLink(p) ==
  /\ At(p, "readlink")
  /\ slot[Cur(p)] = plan[p].old[Cur(p)]
  /\ Goto(p, "unlink")
  /\ UNCHANGED <<store, disk, guard>> /\ KeepProgress

(* ... and the unlink is by name: it takes what is there by then.             *)
Unlink(p) ==
  /\ At(p, "unlink")
  /\ slot[Cur(p)] # Empty
  /\ slot' = [slot EXCEPT ![Cur(p)] = Empty]
  /\ author' = [author EXCEPT ![Cur(p)] = "other"]
  /\ excused' = excused \ {Cur(p)}
  /\ stray' = [stray EXCEPT ![p] = @ \/ slot[Cur(p)] # plan[p].old[Cur(p)]]
  /\ Done(p, "precheck")
  /\ UNCHANGED <<store, guard, plan, flags>>

(* The scan after every operation: verify_install, verify_repair and          *)
(* verify_uninstall's LinkGone.  Uninstall goes on to retire the receipts of  *)
(* the links it positively found gone.                                        *)
Scan(p) ==
  LET held == {s \in hit[p] : IF plan[p].op = "uninstall" THEN slot[s] = Empty
                                                           ELSE slot[s] = plan[p].variant}
  IN  /\ At(p, "scan")
      /\ todo' = [todo EXCEPT ![p] = IF plan[p].op = "uninstall" THEN held ELSE {}]
      /\ flags' = [flags EXCEPT ![p] = IF held = hit[p] THEN @ ELSE @ \cup {"unverified"}]
      /\ Goto(p, "finalize")
      /\ UNCHANGED <<store, disk, guard, plan, hit, stray>>

-----------------------------------------------------------------------------
(* finalize_uninstall, one removed link at a time.                            *)
(* Fault: a receipt retained, and the slot with it.                           *)
RetainForever(p, flag) ==
  /\ Release(p)
  /\ Goto(p, "finalize")
  /\ flags' = [flags EXCEPT ![p] = @ \cup {flag}]
  /\ UNCHANGED <<store, disk, plan, todo, hit, stray>>

Retain(p, flag) ==
  /\ Release(p)
  /\ Goto(p, "finalize")
  /\ todo' = [todo EXCEPT ![p] = @ \ {Cur(p)}]
  /\ flags' = [flags EXCEPT ![p] = @ \cup {flag}]
  /\ UNCHANGED <<store, disk, plan, hit, stray>>

FinalizeWithoutGuard(p) == At(p, "finalize") /\ todo[p] # {} /\ Retain(p, "unverified")

(* Fault: retiring the receipt on the strength of the scan.                   *)
FinalizeCheckStale(p) ==
  /\ At(p, "finalcheck")
  /\ Goto(p, "finaldelete")
  /\ UNCHANGED <<store, disk, guard>> /\ KeepProgress

FinalizeCheck(p) ==
  /\ At(p, "finalcheck")
  /\ Inactive(Cur(p), plan[p].old[Cur(p)])
  /\ Goto(p, "finaldelete")
  /\ UNCHANGED <<store, disk, guard>> /\ KeepProgress

FinalizeActiveAgain(p) == /\ At(p, "finalcheck")
                          /\ Retain(p, "unverified")

(* Fault: deleting by target alone, whichever path the receipt is for.        *)
FinalizeDeleteByTarget(p) ==
  /\ At(p, "finaldelete")
  /\ receipts' = {r \in receipts : r.target # plan[p].old[Cur(p)]}
  /\ Release(p)
  /\ Goto(p, "finalize")
  /\ todo' = [todo EXCEPT ![p] = @ \ {Cur(p)}]
  /\ UNCHANGED <<registry, nextId, baselines, disk, plan, hit, flags, stray>>

FinalizeDelete(p) ==
  /\ At(p, "finaldelete")
  /\ receipts' = {r \in receipts : ~(r.slot = Cur(p) /\ r.target = plan[p].old[Cur(p)])}
  /\ Release(p)
  /\ Goto(p, "finalize")
  /\ todo' = [todo EXCEPT ![p] = @ \ {Cur(p)}]
  /\ UNCHANGED <<registry, nextId, baselines, disk, plan, hit, flags, stray>>

FinalizeDeleteFails(p) == At(p, "finaldelete") /\ Retain(p, "unrecorded")

(* install_status, RepairOutcome::status, uninstall_status, for a run that    *)
(* changed something.                                                         *)
Status(op, raised) ==
  CASE raised \cap {"stopped", "residue"} # {}       -> "PartiallyApplied"
    [] op = "uninstall" /\ "unverified" \in raised   -> "VerificationFailed"
    [] "unrecorded" \in raised                       -> "Unrecorded"
    [] "unverified" \in raised                       -> "VerificationFailed"
    [] OTHER -> CASE op = "install"   -> "Installed"
                  [] op = "repair"    -> "Repaired"
                  [] op = "uninstall" -> "Uninstalled"

Conclude(p) ==
  /\ At(p, "finalize") /\ todo[p] = {}
  /\ Finish(p)
  /\ UNCHANGED <<store, disk, guard>>

-----------------------------------------------------------------------------
(* Faults: forgetting on the strength of the preview's probes, and without    *)
(* comparing the receipts and baselines with the previewed ones.              *)
CheckForgetUnprobed(p) ==
  /\ At(p, "check") /\ plan[p].op = "forget"
  /\ ReceiptsOf(plan[p].id) = plan[p].receipts
  /\ Registered(plan[p].id)
  /\ registry[plan[p].checkout] = plan[p].registry[plan[p].checkout]
  /\ (plan[p].id \in baselines) = plan[p].baseline
  /\ Goto(p, "discard")
  /\ UNCHANGED <<store, disk, guard>> /\ KeepProgress
CheckForgetUncompared(p) ==
  /\ At(p, "check") /\ plan[p].op = "forget"
  /\ Registered(plan[p].id)
  /\ registry[plan[p].checkout] = plan[p].registry[plan[p].checkout]
  /\ \A r \in ReceiptsOf(plan[p].id) : Inactive(r.slot, r.target)
  /\ Goto(p, "discard")
  /\ UNCHANGED <<store, disk, guard>> /\ KeepProgress

(* apply_forget: under the guard, the receipt set, the registration and the   *)
(* baselines must be the previewed ones and every recorded link inactive.     *)
CheckForget(p) ==
  /\ At(p, "check") /\ plan[p].op = "forget"
  /\ ReceiptsOf(plan[p].id) = plan[p].receipts
  /\ Registered(plan[p].id)
  /\ registry[plan[p].checkout] = plan[p].registry[plan[p].checkout]
  /\ (plan[p].id \in baselines) = plan[p].baseline
  /\ \A r \in plan[p].receipts : Inactive(r.slot, r.target)
  /\ Goto(p, "discard")
  /\ UNCHANGED <<store, disk, guard>> /\ KeepProgress

ForgetNothing(p) ==
  /\ At(p, "check") /\ plan[p].op = "forget"
  /\ ReceiptsOf(plan[p].id) = plan[p].receipts
  /\ ~Registered(plan[p].id) /\ plan[p].receipts = {}
  /\ Release(p)
  /\ Finish(p)
  /\ UNCHANGED <<store, disk>>

ForgetRefused(p) ==
  /\ pc[p] \in {"guard", "check", "discard"} /\ plan[p].op = "forget"
  /\ Release(p)
  /\ Finish(p)
  /\ UNCHANGED <<store, disk>>

(* forget_source: the receipts, then the source row, whose deletion takes its *)
(* catalogs and baselines with it.                                            *)
Forget(p) ==
  /\ At(p, "discard")
  /\ receipts' = receipts \ ReceiptsOf(plan[p].id)
  /\ registry' = [c \in Checkouts |-> IF registry[c].id = plan[p].id THEN Unregistered
                                                                     ELSE registry[c]]
  /\ baselines' = baselines \ {plan[p].id}
  /\ Release(p)
  /\ Finish(p)
  /\ UNCHANGED <<nextId, disk>>

-----------------------------------------------------------------------------
(* register_source: one immediate transaction.  A checkout registered before  *)
(* keeps its id and has its catalogs replaced; a new one takes the next id.   *)
Register ==
  /\ guard = NoOne
  /\ \E c \in Checkouts : \E offers \in SUBSET {v \in Variants : CheckoutOf[v] = c} :
       /\ registry[c].id # 0 \/ nextId <= MaxId
       /\ registry' = [registry EXCEPT ![c] =
            [id |-> IF registry[c].id # 0 THEN registry[c].id ELSE nextId,
             offers |-> offers]]
       /\ nextId' = IF registry[c].id # 0 THEN nextId ELSE nextId + 1
  /\ UNCHANGED <<baselines, receipts, guard, disk, pc>> /\ KeepProgress

(* record_origin, for a source registered with the catalog it names; one      *)
(* immutable baseline.                                                        *)
Adopt ==
  /\ guard = NoOne
  /\ \E c \in Checkouts : /\ registry[c].id # 0 /\ registry[c].offers # {}
                          /\ registry[c].id \notin baselines
                          /\ baselines' = baselines \cup {registry[c].id}
  /\ UNCHANGED <<registry, nextId, receipts, guard, disk, pc>> /\ KeepProgress

(* Anyone else with write access to the skill root.                           *)
OtherWriter ==
  \E s \in Slots, content \in Content :
    /\ slot[s] # content
    /\ slot' = [slot EXCEPT ![s] = content]
    /\ author' = [author EXCEPT ![s] = "other"]
    /\ excused' = excused \ {s}
    /\ UNCHANGED <<store, guard, pc>> /\ KeepProgress

(* The process dies: its transaction rolls back, the link it wrote stays.     *)
Crash(p) ==
  /\ pc[p] # "idle"
  /\ Release(p)
  /\ excused' = IF At(p, "record") THEN excused \cup {Cur(p)} ELSE excused
  /\ Finish(p)
  /\ UNCHANGED <<store, slot, author>>

Preview(p) == PreviewInstall(p) \/ PreviewRepair(p) \/ PreviewUninstall(p) \/ PreviewForget(p)

Advance(p) ==
  \/ Precheck(p) \/ AcquireGuard(p) \/ CheckRegistration(p) \/ RecheckDestination(p)
  \/ Refuse(p) \/ WriteLink(p) \/ ReplaceProven(p) \/ ReplaceKeepingArrival(p)
  \/ RecordReceipt(p) \/ RecordFails(p) \/ ReadReceipts(p) \/ ReadLink(p) \/ Unlink(p)
  \/ Scan(p) \/ FinalizeWithoutGuard(p) \/ FinalizeCheck(p) \/ FinalizeActiveAgain(p)
  \/ FinalizeDelete(p) \/ FinalizeDeleteFails(p) \/ Conclude(p)
  \/ CheckForget(p) \/ ForgetNothing(p) \/ ForgetRefused(p) \/ Forget(p)

Next == \/ \E p \in Procs : Preview(p) \/ Advance(p) \/ Crash(p)
        \/ Register \/ Adopt \/ OtherWriter

Spec == Init /\ [][Next]_vars

(* A confirmed operation runs to its end: apply cannot be cancelled, and both *)
(* the application and the command line join the worker that runs it.         *)
LiveSpec == Spec /\ \A p \in Procs : WF_vars(Advance(p))

-----------------------------------------------------------------------------
Labels == {"idle", "precheck", "guard", "check", "recheck", "write", "record", "readlink",
           "unlink", "scan", "finalize", "finalcheck", "finaldelete", "discard"}
Guarded == {"check", "recheck", "write", "record", "finalcheck", "finaldelete", "discard"}
Plans == [op : {"none", "install", "repair", "uninstall", "forget"},
          work : SUBSET Slots, checkout : Checkouts \cup {NoOne},
          id : 0 .. MaxId, variant : Variants \cup {Empty}, old : [Slots -> Content],
          registry : [Checkouts -> Registration], receipts : SUBSET Receipt,
          baseline : BOOLEAN]
Flags == {"stopped", "unrecorded", "unverified", "residue"}

(* The types of the state, and that the guard is held exactly by the process  *)
(* whose place in its operation is under it.                                  *)
TypeOK ==
  /\ registry \in [Checkouts -> Registration]
  /\ nextId \in 1 .. MaxId + 1
  /\ baselines \subseteq Ids
  /\ receipts \subseteq Receipt
  /\ slot \in [Slots -> Content]
  /\ author \in [Slots -> {"skilled", "other"}]
  /\ excused \subseteq Slots
  /\ pc \in [Procs -> Labels]
  /\ plan \in [Procs -> Plans]
  /\ todo \in [Procs -> SUBSET Slots]
  /\ hit \in [Procs -> SUBSET Slots]
  /\ flags \in [Procs -> SUBSET Flags]
  /\ stray \in [Procs -> BOOLEAN]
  /\ \A p \in Procs : guard = p <=> pc[p] \in Guarded

(* Metadata never outlives its source: whatever installs, repairs and forgets *)
(* interleave, every receipt and every baseline names a registered source,    *)
(* though neither table that holds receipts enforces it with a key.           *)
MetadataNamesRegisteredSources ==
  /\ \A r \in receipts : Registered(r.id)
  /\ \A id \in baselines : Registered(id)

(* A link Skilled wrote and nobody has touched since can still be repaired    *)
(* and uninstalled: a durable receipt proves it, except while the write that  *)
(* made it is under way and after a write that reported itself unrecorded or  *)
(* was cut short.                                                             *)
OwnedLinksReceipted ==
  \A s \in Slots :
    slot[s] \in Variants /\ author[s] = "skilled" /\ s \notin excused
      => \/ Receipted(s, slot[s])
         \/ \E p \in Procs : At(p, "record") /\ Cur(p) = s

(* Uninstall and forget delete no evidence for a link that is live: when a    *)
(* receipt goes, either what it recorded is not there or another writer put   *)
(* it there.                                                                  *)
ReceiptsOutliveTheirLinks ==
  [][\A r \in receipts \ receipts' :
        slot[r.slot] = r.target => author[r.slot] = "other"]_vars

(* Every link Skilled writes names the one variant the registry selects at    *)
(* that moment, whatever was registered or forgotten since the preview.       *)
WritesFollowTheRegistry ==
  [][\A s \in Slots :
        slot'[s] \in Variants /\ slot'[s] # slot[s] /\ author'[s] = "skilled"
          => Selects(registry, slot'[s])]_vars

(* Forget deletes what its preview listed and nothing recorded since.         *)
ForgetsWhatWasPreviewed ==
  [][\A p \in Procs :
        Forget(p) => /\ receipts \ receipts' = plan[p].receipts
                     /\ plan[p].baseline <=> baselines # baselines']_vars

(* With no other Skilled process at work, a run reported as a success did all *)
(* of its plan, and the receipts say so: every link it wrote is receipted,    *)
(* every link it removed no longer is.                                        *)
SuccessIsDurable ==
  [][\A p \in Procs :
        Conclude(p) /\ Status(plan[p].op, flags[p]) \in {"Installed", "Repaired", "Uninstalled"}
          => /\ hit[p] = plan[p].work
             /\ \A s \in hit[p] : IF plan[p].op = "uninstall"
                                  THEN ~Receipted(s, plan[p].old[s])
                                  ELSE Receipted(s, plan[p].variant)]_vars

(* Nobody keeps the mutation guard, so nobody is shut out of the store.       *)
GuardIsReleased == \A p \in Procs : guard = p ~> guard # p

(* A confirmed operation ends with a report, however often it is raced.       *)
OperationsEnd == \A p \in Procs : pc[p] # "idle" ~> pc[p] = "idle"

(* apply_uninstall's documentation: the path between its last check and the   *)
(* unlink can change, and "the mandatory rescan makes any disagreement        *)
(* non-silent": an uninstall that unlinked something its plan did not name    *)
(* does not report success.                                                   *)
UninstallDisagreementReported ==
  [][\A p \in Procs :
        Conclude(p) /\ Status(plan[p].op, flags[p]) = "Uninstalled" => ~stray[p]]_vars

(* docs/safety.md: "Repair replaces a link only when the link's raw target is *)
(* byte-identical to a receipt for that path".                                *)
RepairReplacesReceiptedLink ==
  [][\A p \in Procs : ReplaceProven(p) => Receipted(Cur(p), slot[Cur(p)])]_vars
=============================================================================
