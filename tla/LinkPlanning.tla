---------------------------- MODULE LinkPlanning ----------------------------
(***************************************************************************)
(* What install, repair and uninstall state before they write              *)
(* (operations.rs): the slots are probed, a plan says what would be done   *)
(* with each and what OpenCode will load afterwards, the confirmed plan is *)
(* applied target by target behind a recheck, and the pass of Diagnosis    *)
(* that follows is held against the plan.  Doctor's repair offers are made *)
(* from a pass and the receipts alone.                                     *)
(*                                                                         *)
(* Others may swap links and withdraw a variant's directory at any step.   *)
(* The guard, the receipts' own failures and crashes are LinkLifecycle's.  *)
(***************************************************************************)
EXTENDS Diagnosis

VARIABLES
  request,    \* what is asked: [op, variant, agents]
  receipts,   \* the links Skilled holds a receipt for: records [agent, target]
  plan,       \* what was stated and confirmed
  steps,      \* what became of each target
  disturbed   \* whether others interfered after the plan and before the pass

planVars == <<request, receipts, plan, steps, disturbed>>
allVars == <<scanVars, planVars>>

NoStanding == [a \in Agents |-> "nowhere"]
NoRequest == [op |-> "none", variant |-> None, agents |-> {}]
Requests ==
  {NoRequest}
  \cup [op : {"install"}, variant : Variants, agents : SUBSET Agents]
  \cup [op : {"repair"}, variant : {None}, agents : {{a} : a \in Agents}]
  \cup [op : {"uninstall"}, variant : {None}, agents : SUBSET Agents]
ASSUME RequestsAssumption == \A i \in DOMAIN Cases : \A c \in Cases[i] : c.request \in Requests

NoPlan == [op |-> "none", targets |-> [a \in Agents |-> "excluded"]]

-----------------------------------------------------------------------------
(* The probe *)

\* probe_root: a root behind a link is refused before it is looked at.
RootProbe(a) ==
  IF a \notin selected THEN "not read"
  ELSE IF root[a] \in {"unlistable", "denied"} THEN "present" ELSE root[a]

\* probe_repair_root: repair alone lists the root.
RepairRoot(a) ==
  IF RootProbe(a) = "present" /\ ~Listable(a) THEN "unreadable" ELSE RootProbe(a)

IsLink(a) == Entry(a) \in Places \ {a}
Leads(a) == content[slot[a]] \notin {"gone", "sealed"}

\* probe_content: a link that cannot be resolved offers nothing, whatever the reason.
ProbedContent(a) ==
  IF a \notin selected THEN "unknown"
  ELSE IF Entry(a) \in {"absent", "file"} THEN "nowhere"
  ELSE IF Entry(a) = "unreadable" THEN "unknown"
  ELSE IF content[Entry(a)] \in {"gone", "sealed", "invalid"} THEN "nowhere"
  ELSE IF content[Entry(a)] \in {"opaque", "file"} THEN "unknown"
  ELSE Canonical(Entry(a))

Unsighted == {"not read", "redirected", "unreadable"}

\* What OpenCode would load once the agents `to' hold a link to the variant and the
\* agents `off' hold nothing.  Only content that is the variant's is placed.
Predicted(probe, offered, v, to, off) ==
  LET sighting == [a \in Agents |->
        IF probe[a] \in Unsighted THEN "unread"
        ELSE IF a \in to THEN v
        ELSE IF a \in off THEN "nowhere"
        ELSE offered[a]]
  IN  ResolveOpenCode(sighting, [a \in Agents |-> IF sighting[a] = v THEN v ELSE None])

Probe == [a \in Agents |-> RootProbe(a)]
RepairProbe == [a \in Agents |-> RepairRoot(a)]
ProbedContents == [a \in Agents |-> ProbedContent(a)]

\* OpenCodeOutlook::of
Outlook(resolution) ==
  [kind |-> CASE resolution.kind \in {"foreign", "incompatible"} -> "exposure"
              [] resolution.kind = "incomplete" -> "unknown"
              [] OTHER -> resolution.kind,
   winner |-> IF resolution.kind = "conflict" THEN None ELSE resolution.winner]

\* UninstallOutlook::of: who may use what is loaded is not predicted.
Reduced(resolution) ==
  LET outlook == Outlook(resolution)
  IN  IF outlook.kind \in {"selected", "exposure"} THEN [outlook EXCEPT !.kind = "loads"]
      ELSE outlook

NoOutlook == [kind |-> "unasked", winner |-> None]

\* Fault: a conflict that others' roots would have is not of concern.
ConcernsOfUse(resolution) == resolution.kind \in {"foreign", "incompatible"}

Concerns(resolution) == resolution.kind \in {"foreign", "incompatible", "conflict"}

-----------------------------------------------------------------------------
(* Planning an install *)

SlotDisposition(v, a) ==
  IF RootProbe(a) \in Unsighted THEN "blocked"
  ELSE IF Entry(a) = "absent" /\ RootProbe(a) = "present" THEN "create"
  ELSE IF Entry(a) = "absent" /\ RootProbe(a) = "missing" THEN "create root"
  ELSE IF IsLink(a) /\ Leads(a) /\ Canonical(slot[a]) = v THEN "installed"
  ELSE "blocked"

DispositionFor(v, a, requested) ==
  LET chosen == Narrow(ReadableVariants, a)
  IN  IF a \notin selected \cap requested \/ ~UsableBy(v, a) THEN "excluded"
      ELSE IF Cardinality(chosen) > 1 THEN "blocked"
      ELSE IF chosen # {v} THEN "excluded"
      ELSE SlotDisposition(v, a)

Work == {"create", "create root", "replace", "remove"}
Working(targets) == {a \in Agents : targets[a] \in Work}
Executable(p) ==
  /\ \A a \in Agents : p.targets[a] # "blocked"
  /\ Working(p.targets) # {}

\* what an entry was: whether it is a link that resolves, and what it offered
Probed(a) == <<IsLink(a) /\ Leads(a), ProbedContent(a)>>

Plan(op, v, targets, outlook, said, standing) ==
  [op |-> op, variant |-> v, targets |-> targets, outlook |-> outlook, said |-> said,
   standing |-> standing, entry |-> slot, probed |-> [a \in Agents |-> Probed(a)],
   loaded |-> Loaded({})]

\* plan_install and apply_opencode_prediction
InstallPlan(v, requested) ==
  LET settled == [a \in Agents |-> DispositionFor(v, a, requested)]
      ours == {a \in Agents : settled[a] = "installed"}
      after == Predicted(Probe, ProbedContents, v, ours \cup Working(settled), {})
      now == Predicted(Probe, ProbedContents, v, ours, {})
      native == settled["opencode"] \in Work
      asked == "opencode" \in selected /\ settled["opencode"] # "blocked"
      targets == IF asked /\ native /\ after.kind = "conflict"
                 THEN [settled EXCEPT !["opencode"] = "blocked"]
                 ELSE settled
  IN  Plan("install", v, targets,
           CASE "opencode" \notin selected -> NoOutlook
             [] settled["opencode"] = "blocked" -> [kind |-> "unknown", winner |-> None]
             [] OTHER -> Outlook(after),
           asked /\ IF native THEN after.kind = "incomplete"
                    ELSE after.kind # now.kind /\ Concerns(after),
           NoStanding)

-----------------------------------------------------------------------------
(* Planning a repair *)

Receipted(a) == IsLink(a) /\ [agent |-> a, target |-> slot[a]] \in receipts

\* repair_registry_incomplete: the link's own source excepted
RegistryIncomplete(own) == \E s \in Sources \ {own} : s \notin readable

Standing(a) ==
  IF RepairRoot(a) # "present" THEN "root"
  ELSE IF ~IsLink(a) THEN "entry"
  ELSE IF content[slot[a]] = "sealed" THEN "unreachable"
  ELSE IF ~Receipted(a) THEN "unproven"
  ELSE IF RegistryIncomplete(SourceOf[slot[a]]) THEN "registry"
  ELSE IF Cardinality(Narrow(ReadableVariants, a)) # 1 THEN "variant"
  ELSE "proven"

\* probe_repair_entry tells a link that leads nowhere from one that cannot be followed.
RepairContent(a) ==
  IF IsLink(a) /\ content[slot[a]] = "sealed" THEN "unknown" ELSE ProbedContent(a)
RepairContents == [a \in Agents |-> RepairContent(a)]

Blocked(a) == [b \in Agents |-> IF b = a THEN "blocked" ELSE "excluded"]

\* plan_repair.  Into OpenCode's own root only a conflict that already stood may stay.
RepairPlan(a) ==
  LET v == CHOOSE w \in Narrow(ReadableVariants, a) : TRUE
      after == Predicted(RepairProbe, RepairContents, v, {a}, {})
      now == Predicted(RepairProbe, RepairContents, v, {}, {})
      sight(b) == IF RepairContent(b) \in {"nowhere", "unknown"} THEN {} ELSE {RepairContent(b)}
      before == UNION {sight(b) : b \in Agents}
      kept == {v} \cup UNION {sight(b) : b \in Agents \ {a}}
      replaces == ~(Leads(a) /\ Canonical(slot[a]) = v)
      stands == a = "opencode" /\ replaces /\ after.kind = "conflict"
      allowed == now.kind = "conflict" /\ kept \subseteq before
  IN  IF Standing(a) # "proven"
      THEN Plan("repair", None, Blocked(a), NoOutlook, FALSE, NoStanding)
      ELSE Plan("repair", v,
                [Blocked(a) EXCEPT ![a] = CASE ~replaces -> "installed"
                                            [] stands /\ ~allowed -> "blocked"
                                            [] OTHER -> "replace"],
                Outlook(after),
                \/ stands /\ allowed
                \/ after.kind = "incomplete"
                \/ replaces /\ after.kind # now.kind /\ Concerns(after),
                IF stands /\ allowed THEN [b \in Agents |-> IF b = a THEN v ELSE RepairContent(b)]
                ELSE NoStanding)

\* Fault: a receipt is enough for an offer.
RepairOfferedOfReceipts(a) ==
  seen[a].object = "link" /\ [agent |-> a, target |-> slot[a]] \in receipts

\* RepairOverlay::build, from the pass: the repair Doctor offers for a link it saw
RepairOffered(a) ==
  /\ metadata
  /\ seen[a].object = "link"
  /\ [agent |-> a, target |-> slot[a]] \in receipts
  /\ seen[a].health # "unreachable"
  /\ ~RegistryIncomplete(SourceOf[slot[a]])
  /\ Cardinality(Narrow(ReadableVariants, a)) = 1

\* the warning beside it: the link leads to a variant the registry no longer selects
WrongTarget(a) ==
  /\ RepairOffered(a)
  /\ seen[a].health = "healthy"
  /\ seen[a].provenance \in Variants
  /\ Narrow(ReadableVariants, a) # {seen[a].provenance}

-----------------------------------------------------------------------------
(* Planning an uninstall *)

UninstallDisposition(a) ==
  IF RootProbe(a) = "redirected" THEN "blocked"
  ELSE IF RootProbe(a) \in {"missing", "orphaned"} THEN "excluded"
  ELSE IF Entry(a) = "absent" THEN "excluded"
  ELSE IF Receipted(a) THEN "remove"
  ELSE "blocked"

\* plan_uninstall: ownership is a receipt for the path and, then, for the very target.
UninstallPlan(requested) ==
  LET targets == [a \in Agents |->
        IF a \notin selected \cap requested \/ ~\E r \in receipts : r.agent = a
        THEN "excluded" ELSE UninstallDisposition(a)]
      outlook(off) == Reduced(Predicted(Probe, ProbedContents, None, {}, off))
      after == outlook(Working(targets))
  IN  Plan("uninstall", None, targets,
           IF "opencode" \in selected THEN after ELSE NoOutlook,
           "opencode" \in selected /\ outlook({}) # after /\ after.kind # "unknown", NoStanding)

-----------------------------------------------------------------------------
(* Stating the plan and applying it *)

Decide ==
  /\ stage = "plan"
  /\ \/ /\ request.op = "install" /\ request.variant \notin ReadableVariants
        /\ stage' = "refused"
        /\ UNCHANGED plan
     \/ /\ request.op = "install" => request.variant \in ReadableVariants
        /\ plan' = CASE request.op = "install" -> InstallPlan(request.variant, request.agents)
                     [] request.op = "repair" ->
                          RepairPlan(CHOOSE a \in Agents : request.agents = {a})
                     [] OTHER -> UninstallPlan(request.agents)
        /\ stage' = IF Executable(plan') THEN "recheck" ELSE "refused"
  /\ UNCHANGED <<world, budget, todo, index, complete, accountable, status, reading, seen,
                 others, swapped, during, request, receipts, steps, disturbed>>

\* the first target that has not been attempted, in AgentKind::ALL order
Pending == {a \in Working(plan.targets) : steps[a] = "none"}
Target == ScanOrder[CHOOSE i \in 1..3 :
           ScanOrder[i] \in Pending /\ \A j \in 1..(i - 1) : ScanOrder[j] \notin Pending]

\* apply_target, repair_destination_unchanged with the recheck of a standing conflict,
\* apply_uninstall_target
StillAsPlanned(a) ==
  CASE plan.op = "install" ->
         /\ Entry(a) = "absent"
         /\ content[plan.variant] = "valid"
         /\ RootProbe(a) = IF plan.targets[a] = "create root" THEN "missing" ELSE "present"
    [] plan.op = "repair" ->
         /\ RepairRoot(a) = "present"
         /\ slot[a] = plan.entry[a] /\ Probed(a)[1] = plan.probed[a][1]
         /\ content[plan.variant] = "valid"
         /\ plan.standing # NoStanding => /\ slot = plan.entry
                                    /\ plan.probed = [b \in Agents |-> Probed(b)]
    [] OTHER ->
         /\ RootProbe(a) = "present"
         /\ slot[a] = plan.entry[a]

\* One target failed: what was written stays and the rest is left alone.
Abandon(a) ==
  /\ steps' = [b \in Agents |-> CASE b = a -> "failed"
                                  [] b \in Pending \ {a} -> "unattempted"
                                  [] OTHER -> steps[b]]
  /\ stage' = "index"
  /\ UNCHANGED <<slot, root, receipts>>

Recheck ==
  /\ stage = "recheck"
  /\ IF StillAsPlanned(Target)
     THEN stage' = "write" /\ UNCHANGED <<slot, root, receipts, steps>>
     ELSE Abandon(Target)
  /\ UNCHANGED <<content, selected, catalog, readable, metadata, budget, todo, index,
                 complete, accountable, status, reading, seen, others, swapped, during,
                 request, plan, disturbed>>

\* A link is created where nothing stands, exchanged for the one proven, and removed
\* whatever it has become.
Write ==
  LET a == Target
      v == plan.variant
  IN
  /\ stage = "write"
  /\ \/ /\ CASE plan.op = "install" -> slot[a] = "absent"
             [] plan.op = "repair" -> slot[a] = plan.entry[a]
             [] OTHER -> slot[a] # "absent"
        /\ slot' = [slot EXCEPT ![a] = IF plan.op = "uninstall" THEN "absent" ELSE v]
        /\ root' = IF plan.targets[a] = "create root" THEN [root EXCEPT ![a] = "present"]
                   ELSE root
        /\ receipts' = IF plan.op = "uninstall" THEN receipts
                       ELSE receipts \cup {[agent |-> a, target |-> v]}
        /\ steps' = [steps EXCEPT ![a] = "done"]
        /\ stage' = IF Pending = {a} THEN "index" ELSE "recheck"
     \/ /\ CASE plan.op = "install" -> slot[a] # "absent"
             [] plan.op = "repair" -> slot[a] # plan.entry[a]
             [] OTHER -> slot[a] = "absent"
        /\ Abandon(a)
  /\ UNCHANGED <<content, selected, catalog, readable, metadata, budget, todo, index,
                 complete, accountable, status, reading, seen, others, swapped, during,
                 request, plan, disturbed>>

\* Someone links, swaps or unlinks, or takes a variant's directory away, after the plan.
Interfere ==
  /\ stage \in {"recheck", "write"}
  /\ others > 0
  /\ \/ \E a \in Agents : \E o \in (Variants \cup {Private, "absent"}) \ {slot[a]} :
          /\ slot[a] \in Variants \cup {Private, "absent"} /\ Listable(a)
          /\ slot' = [slot EXCEPT ![a] = o]
          /\ UNCHANGED content
     \/ \E v \in Variants :
          /\ content[v] = "valid"
          /\ content' = [content EXCEPT ![v] = "gone"]
          /\ UNCHANGED slot
  /\ others' = others - 1
  /\ disturbed' = TRUE
  /\ UNCHANGED <<root, selected, catalog, readable, metadata, pass, swapped, during,
                 request, receipts, plan, steps>>

-----------------------------------------------------------------------------
(* Verification: the pass that follows, held against the plan *)

Written == {a \in Agents : steps[a] = "done"}
Unscanned(a) == status[a] \notin {"scanned", "missing"}

\* Fault: a link that is there is taken to be as planned.
LinkVerdictOfEntry(a) ==
  IF Unscanned(a) THEN "withheld"
  ELSE IF plan.op = "uninstall" THEN IF seen[a] = NotSeen THEN "held" ELSE "failed"
  ELSE IF seen[a].object # "link" THEN "failed"
  ELSE "held"

\* the link of one written target: mismatch_variant, or gone
LinkVerdict(a) ==
  LET o == seen[a]
  IN  IF Unscanned(a) THEN "withheld"
      ELSE IF plan.op = "uninstall" THEN IF o = NotSeen THEN "held" ELSE "failed"
      ELSE IF o.object # "link" THEN "failed"
      ELSE IF o.provenance = "unverified" THEN "withheld"
      ELSE IF o.provenance # plan.variant \/ o.validated = None THEN "failed"
      ELSE IF o.health = "healthy" THEN "held" ELSE "failed"

HeldTo(expected, actual) ==
  IF actual.kind = "unknown" THEN "withheld"
  ELSE IF expected # actual THEN "failed"
  ELSE "held"

\* verify_install: its own root's link must be what OpenCode selects; otherwise, and
\* whenever that was not held, the outlook is compared.
InstallOutlookVerdicts ==
  LET native == "opencode" \in Written /\ LinkVerdict("opencode") = "held"
      selects == Resolution.kind = "selected" /\ Resolution.winner = "opencode"
  IN  IF ~HasRow \/ Resolution.kind = "unasked" THEN {}
      ELSE IF native /\ selects THEN {"held"}
      ELSE IF native /\ Resolution.kind = "incomplete" THEN {"withheld"}
      ELSE IF native THEN {"failed"}
      ELSE IF plan.outlook = NoOutlook THEN {}
      ELSE {HeldTo(plan.outlook, Outlook(Resolution))}

\* verify_repair: asked only of a link found as planned
RepairOutlookVerdicts ==
  LET told == IF HasRow THEN Resolution ELSE [kind |-> "unasked", winner |-> None]
  IN  IF \E a \in Written : LinkVerdict(a) # "held" THEN {}
      ELSE IF told.kind = "unasked" THEN {"withheld"}
      ELSE IF /\ plan.standing # NoStanding /\ told.kind = "conflict"
              /\ plan.standing # [a \in Agents |-> Sighting(a)]
      THEN {"failed"}
      ELSE {HeldTo(plan.outlook, Outlook(told))}

\* verify_uninstall: what the plan could not establish is not held against it.
UninstallOutlookVerdicts ==
  IF plan.outlook = NoOutlook THEN {}
  ELSE IF plan.outlook.kind = "unknown" THEN {"withheld"}
  ELSE IF HasRow /\ Resolution.kind = "unasked" THEN {"withheld"}
  ELSE IF HasRow THEN {HeldTo(plan.outlook, Reduced(Resolution))}
  ELSE IF \E a \in Agents : Unscanned(a) THEN {"withheld"}
  ELSE {IF plan.outlook.kind = "nothing" THEN "held" ELSE "failed"}

OutlookVerdicts ==
  IF Written = {} THEN {}
  ELSE CASE plan.op = "install" -> InstallOutlookVerdicts
         [] plan.op = "repair" -> RepairOutlookVerdicts
         [] OTHER -> UninstallOutlookVerdicts

\* VerifyReport::is_verified: only what was written has to have been checked.
Verified ==
  /\ \A a \in Written : LinkVerdict(a) = "held"
  /\ "failed" \notin OutlookVerdicts

\* install_status, RepairOutcome::status and uninstall_status, the receipts apart
Status ==
  IF ~Executable(plan) THEN "nothing"
  ELSE IF Written = {} THEN "not applied"
  ELSE IF Written # Working(plan.targets) THEN "partly applied"
  ELSE IF ~Verified THEN "verification failed"
  ELSE "success"

-----------------------------------------------------------------------------
PlanInit ==
  \E i \in DOMAIN Cases : \E c \in Cases[i] :
    /\ Begins(c, IF c.request = NoRequest THEN "index" ELSE "plan")
    /\ request = c.request
    /\ receipts = c.receipts
    /\ plan = NoPlan
    /\ steps = [a \in Agents |-> "none"]
    /\ disturbed = FALSE

PlanNext ==
  \/ Decide
  \/ Recheck
  \/ Write
  \/ Interfere
  \/ Pass /\ UNCHANGED planVars

PlanSpec == PlanInit /\ [][PlanNext]_allVars

-----------------------------------------------------------------------------
(* Properties *)

Undisturbed == stage = "done" /\ Executable(plan) /\ ~disturbed /\ ~swapped

\* A confirmed plan that nothing interferes with is carried out whole, and the pass that
\* follows does not contradict it: nothing that was planned right is reported as failed.
\* A link is left unchecked only where its root could not be read afterwards.
PlansAreVerified ==
  (Undisturbed /\ (plan.op = "uninstall" \/ plan.outlook.kind # "unknown")) =>
     /\ Written = Working(plan.targets)
     /\ "failed" \notin OutlookVerdicts
     /\ \A a \in Written : LinkVerdict(a) = IF Unscanned(a) THEN "withheld" ELSE "held"

\* Success is true: although directories are checked before the link to them is written
\* and others interfere in between, every link reported as installed or repaired leads to
\* the variant's content, every one reported as removed is gone, and OpenCode loads the
\* link in its own root when the report says so.
SuccessIsTrue ==
  (stage = "done" /\ ~swapped /\ Status = "success") =>
     /\ \A a \in Working(plan.targets) :
          IF plan.op = "uninstall" THEN Entry(a) = "absent"
          ELSE Entry(a) = plan.variant /\ content[plan.variant] = "valid"
     /\ (plan.op = "install" /\ "opencode" \in Written /\ OutlookVerdicts = {"held"}) =>
          \A hidden \in SUBSET Agents :
             Loaded(hidden) = {plan.variant} /\ Winner(hidden) = "opencode"

\* A change for OpenCode is stated before it is made: a link put into its own root leaves
\* it no conflict (a repair: none that did not stand); a plan after which it has one that it
\* had not, or loads what it cannot use, says so.  Roots nobody could read excuse.
OpenCodeChangesAreSaid ==
  (Undisturbed /\ "opencode" \in selected /\ plan.outlook.kind # "unknown") =>
     /\ Cardinality(Loaded({})) > 1 =>
          IF "opencode" \in Written /\ plan.op # "uninstall"
          THEN plan.op = "repair" /\ Loaded({}) \subseteq plan.loaded /\ plan.said
          ELSE plan.said \/ Cardinality(plan.loaded) > 1
     /\ \A v \in Variants :
          (Loaded({}) = {v} /\ plan.loaded # {v} /\ ~UsableBy(v, "opencode")) => plan.said

\* A plan that nothing interferes with keeps its word: the report finds it carried out
\* whole, and what it changed for OpenCode it had said (verify_install, verify_repair,
\* verify_uninstall, after the warnings of the plans).
PlansAreTrue == PlansAreVerified /\ OpenCodeChangesAreSaid

\* Doctor's offers keep their word: a repair that is offered is one the plan does not
\* refuse for want of proof, one that is not offered would be refused, and a link called
\* wrong is one the repair would not leave as it is.
OffersMatchPlans ==
  (stage = "done" /\ ~swapped /\ request = NoRequest) =>
     \A a \in Agents : seen[a].object = "link" =>
        /\ RepairOffered(a) => Standing(a) \in {"proven", "root"}
        /\ ~RepairOffered(a) => RepairPlan(a).targets[a] = "blocked"
        /\ WrongTarget(a) => RepairPlan(a).targets[a] # "installed"

\* What the code's own comments promise: planner and verifier rest on one account of what
\* was read, so a gap in it is no failure.
PredictionsAreKept == Undisturbed => "failed" \notin OutlookVerdicts

=============================================================================
