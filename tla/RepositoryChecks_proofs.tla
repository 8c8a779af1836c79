----------------------- MODULE RepositoryChecks_proofs -----------------------
(***************************************************************************)
(* Proofs about the two modules around the check of a registered checkout: *)
(* CheckRuns, which runs checks beside the event loop, for any number of   *)
(* workers, and RepositoryUpdate with RepositoryProbe, which ask, plan,    *)
(* merge and verify, for any candidates, slots, trees and links.           *)
(*                                                                         *)
(* CheckRuns: the inductive invariant says what each place of a worker     *)
(* means for its child and for what it has published (Child, Published),   *)
(* which worker the event loop still answers for (Accounted), and what     *)
(* each place of the loop means for the runs it holds (Loop).              *)
(*                                                                         *)
(* RepositoryUpdate: what was asked of the checkout is still so where it   *)
(* is relied on (Asking).  The invariant of the run is UpdateInv: what the *)
(* guards have established, unless somebody interfered (Guarded), what the *)
(* merge found (Written), and that every slot will be seen as the plan     *)
(* said of it (Kept).  Its heart is MergeForeseen: the analysis of the two *)
(* trees (Affected) predicts what a scan will see (View) in each slot.     *)
(***************************************************************************)
EXTENDS CheckRuns, RepositoryUpdate, TLAPS

(***************************************************************************)
(* The runs of checks                                                      *)
(***************************************************************************)

(* Where a worker has a child, whether it is in the slot, and what the slot   *)
(* says of it.                                                                *)
Child(w) ==
  /\ child[w] \in Living =>
       pc[w] \in {"spawned", "abandoned", "polling", "examine", "release", "reaping"}
  /\ slot[w] <=> pc[w] \in {"polling", "examine", "draining", "release"}
  /\ reaped[w] => pc[w] \in {"draining", "release", "reaping"}
  /\ pc[w] \in {"spawned", "polling", "examine"} => child[w] \in Living
  /\ pc[w] = "draining" => reaped[w]
  /\ pc[w] = "release" => reaped[w] \/ child[w] \in Living

(* What a worker has said, and who settled its run.                           *)
Published(w) ==
  /\ pc[w] = "sending" => outcome[w] \in Messages \ {"none"}
  /\ channel[w] # "none" <=> pc[w] \in {"sent", "done"}
  /\ terminal[w] = "finished" => pc[w] \in {"sending", "sent", "done"}
  /\ outcome[w] = "Finished" \/ channel[w] = "Finished" \/ w \in saved
       => terminal[w] = "finished"
  /\ outcome[w] = "Finished" => pc[w] = "sending"
  /\ pc[w] = "idle" => ~cancelled[w]

(* A worker at work is the update check or the origin check in flight, or an  *)
(* origin check that was cancelled; one whose thread has not ended is joined. *)
Accounted(w) ==
  /\ Working(w) => w \in {run, origin} \/ (kind[w] = "origin" /\ cancelled[w])
  /\ pc[w] \notin {"idle", "done"} => w \in retired \cup {run, origin}

(* The runs in flight, at each place of the event loop.                       *)
InFlight ==
  /\ run = None \/ origin = None
  /\ run # None => kind[run] = "update" /\ pc[run] # "idle"
  /\ origin # None => /\ kind[origin] = "origin" /\ pc[origin] # "idle"
                      /\ dialog = "checking"
                      /\ cancelled[origin] <=> step = "signal_origin"
  /\ dialog \in Workers => kind[dialog] = "origin"

Loop ==
  /\ step \in {"origin", "update", "key"} => goal = "loop"
  /\ step \in {"cancel_receive", "cancel_origin", "signal_origin"} => goal # "drop"
  /\ step \in {"join", "restore", "closed"} => goal = "drop"
  /\ step = "leave" => goal = "close" /\ origin = None
  /\ goal = "drop" => retired = {} /\ origin = None /\ step # "leave"
  /\ step \in {"restore", "closed"} => run = None
  /\ ~screen => step = "closed"

IInv == /\ TypeOK
        /\ \A w \in Workers : Child(w) /\ Published(w) /\ Accounted(w)
        /\ InFlight /\ Loop /\ PreviewIsCurrent /\ error # "ended"

LEMMA InitIInv == Init => IInv
  BY NoneIsNoWorker, NoneIsNoDialog
  DEF Init, IInv, TypeOK, Child, Published, Accounted, InFlight, Loop, PreviewIsCurrent,
      Steps, Places, Messages, Living, Working

(* What a worker that leaves the event loop, the shared flags and its child   *)
(* alone has to establish.                                                    *)
LEMMA WorkerStep == ASSUME IInv, NEW v \in Workers, Worker(v) PROVE IInv'
  <1> USE NoneIsNoWorker, NoneIsNoDialog
      DEF IInv, TypeOK, Child, Published, Accounted, InFlight, Loop, PreviewIsCurrent,
          Steps, Places, Messages, Living, Working, At, Become, Goto, app, shared, git
  <1>1. CASE CheckSource(v) BY <1>1 DEF CheckSource, Withdrawn
  <1>2. CASE Spawn(v) BY <1>2 DEF Spawn
  <1>3. CASE SpawnFails(v) BY <1>3 DEF SpawnFails
  <1>4. CASE Publish(v) BY <1>4 DEF Publish
  <1>5. CASE Release(v) BY <1>5 DEF Release, Signalled
  <1>6. CASE Reap(v) BY <1>6 DEF Reap, Then, Withdrawn
  <1>7. CASE Poll(v) BY <1>7 DEF Poll
  <1>8. CASE Examine(v)
    <2>1. CASE pc'[v] = "draining"
      <3>1. /\ child' = [child EXCEPT ![v] = "gone"]
            /\ reaped' = [reaped EXCEPT ![v] = TRUE]
            /\ pc' = [pc EXCEPT ![v] = "draining"]
            /\ outcome' = [outcome EXCEPT ![v] = outcome[v]]
            /\ UNCHANGED <<kind, channel, app, shared, slot>>
        BY <1>8, <2>1 DEF Examine
      <3>2. pc[v] = "examine" BY <1>8 DEF Examine
      <3>3. QED BY <3>1, <3>2
    <2>2. CASE pc'[v] = "polling" BY <1>8, <2>2 DEF Examine
    <2>3. CASE pc'[v] = "release" BY <1>8, <2>3 DEF Examine
    <2>4. pc'[v] \in {"draining", "polling", "release"} BY <1>8 DEF Examine
    <2>5. QED BY <2>1, <2>2, <2>3, <2>4
  <1>9. CASE Drain(v) BY <1>9 DEF Drain
  <1>10. CASE Judge(v) BY <1>10 DEF Judge
  <1>11. CASE Settle(v) BY <1>11 DEF Settle
  <1>12. CASE PublishFailure(v) BY <1>12 DEF PublishFailure
  <1>13. CASE Send(v) BY <1>13 DEF Send
  <1>14. CASE Exit(v) BY <1>14 DEF Exit
  <1>15. QED BY <1>1, <1>2, <1>3, <1>4, <1>5, <1>6, <1>7, <1>8, <1>9, <1>10, <1>11, <1>12,
               <1>13, <1>14 DEF Worker

LEMMA FaultStep ==
  ASSUME IInv, NEW v \in Workers, WorkerFault(v) \/ ChildExits(v) \/ KilledChildEnds(v)
  PROVE  IInv'
  <1> USE NoneIsNoWorker, NoneIsNoDialog
      DEF IInv, TypeOK, Child, Published, Accounted, InFlight, Loop, PreviewIsCurrent,
          Steps, Places, Messages, Living, Working, At, Become, Goto, app, shared, git
  <1>1. CASE Panic(v) BY <1>1 DEF Panic
  <1>2. ASSUME NEW result \in {"failed", "panic"}, Abandon(v, result) PROVE IInv'
    BY <1>2 DEF Abandon, Signalled
  <1>3. CASE ChildExits(v) BY <1>3 DEF ChildExits, worker
  <1>4. CASE KilledChildEnds(v) BY <1>4 DEF KilledChildEnds, worker
  <1>5. QED BY <1>1, <1>2, <1>3, <1>4 DEF WorkerFault

(* The event loop: draining, keys, and starting a check.                      *)
LEMMA LoopStep ==
  ASSUME IInv,
         \/ DrainVendoredCheck \/ DrainUpdateCheck \/ OtherKey
         \/ \E w \in Workers : StartUpdateCheck(w) \/ StartVendoredCheck(w)
         \/ RequestCancel \/ RequestCancelVendored \/ Quit \/ LoopFails
  PROVE  IInv'
  <1> USE NoneIsNoWorker, NoneIsNoDialog
      DEF IInv, TypeOK, Child, Published, Accounted, InFlight, Loop, PreviewIsCurrent,
          Steps, Places, Messages, Living, Working, shared, git, worker, Retire, Received,
          Unfinished, Pursue
  <1>1. CASE DrainVendoredCheck BY <1>1 DEF DrainVendoredCheck
  <1>2. CASE DrainUpdateCheck BY <1>2 DEF DrainUpdateCheck, Conclude
  <1>3. CASE OtherKey BY <1>3 DEF OtherKey
  <1>4. ASSUME NEW w \in Workers, StartUpdateCheck(w) PROVE IInv'
    BY <1>4 DEF StartUpdateCheck, Start
  <1>5. ASSUME NEW w \in Workers, StartVendoredCheck(w) PROVE IInv'
    BY <1>5 DEF StartVendoredCheck, Start
  <1>6. CASE RequestCancel BY <1>6 DEF RequestCancel
  <1>7. CASE RequestCancelVendored BY <1>7 DEF RequestCancelVendored
  <1>8. CASE Quit BY <1>8 DEF Quit
  <1>9. CASE LoopFails BY <1>9 DEF LoopFails
  <1>10. QED BY <1>1, <1>2, <1>3, <1>4, <1>5, <1>6, <1>7, <1>8, <1>9

(* Cancelling and leaving.                                                    *)
LEMMA EndStep ==
  ASSUME IInv,
         \/ CancelReceive \/ CancelSettle \/ CancelFlag \/ CancelSignal
         \/ CancelVendoredFlag \/ CancelVendoredSignal
         \/ JoinRetired \/ JoinRun \/ RestoreTerminal
  PROVE  IInv'
  <1> USE NoneIsNoWorker, NoneIsNoDialog
      DEF IInv, TypeOK, Child, Published, Accounted, InFlight, Loop, PreviewIsCurrent,
          Steps, Places, Messages, Living, Working, shared, git, worker, Retire, Received,
          Unfinished, Pursue, AfterUpdate, AfterOrigin, SignalSlot, SlotFree, Signalled, At
  <1>1. CASE CancelReceive BY <1>1 DEF CancelReceive, Conclude
  <1>2. CASE CancelSettle BY <1>2 DEF CancelSettle
  <1>3. CASE CancelFlag BY <1>3 DEF CancelFlag
  <1>4. CASE CancelSignal BY <1>4 DEF CancelSignal
  <1>5. CASE CancelVendoredFlag
    <2>1. CASE origin = None BY <1>5, <2>1 DEF CancelVendoredFlag
    <2>2. CASE origin # None
      <3>1. /\ origin \in Workers /\ step' = "signal_origin" /\ goal # "drop"
            /\ cancelled' = [cancelled EXCEPT ![origin] = TRUE]
            /\ UNCHANGED <<goal, saved, screen, dialog, run, origin, retired, error, worker,
                           terminal, git>>
        BY <1>5, <2>2 DEF CancelVendoredFlag
      <3>2. "checking" \notin Workers OBVIOUS
      <3>3. QED BY <2>2, <3>1, <3>2
    <2>3. QED BY <2>1, <2>2
  <1>6. CASE CancelVendoredSignal
    <2>1. /\ step = "signal_origin" /\ origin \in Workers /\ cancelled[origin]
          /\ step' = IF goal = "loop" THEN "origin" ELSE "leave"
          /\ child' \in [Workers -> {"gone", "running", "killed", "zombie"}]
          /\ \A w \in Workers : child'[w] \in Living <=> child[w] \in Living
          /\ retired' = IF pc[origin] = "done" THEN retired ELSE retired \cup {origin}
          /\ origin' = None /\ dialog' = "none" /\ "none" \notin Workers
          /\ UNCHANGED <<goal, saved, screen, run, error, worker, shared, slot, reaped>>
      BY <1>6 DEF CancelVendoredSignal
    <2>2. QED BY <2>1
  <1>7. CASE JoinRetired BY <1>7 DEF JoinRetired
  <1>8. CASE JoinRun BY <1>8 DEF JoinRun
  <1>9. CASE RestoreTerminal BY <1>9 DEF RestoreTerminal
  <1>10. QED BY <1>1, <1>2, <1>3, <1>4, <1>5, <1>6, <1>7, <1>8, <1>9

LEMMA Inductive == Spec => []IInv
  <1>1. Init => IInv BY InitIInv
  <1>2. IInv /\ [Next]_vars => IInv'
    <2> SUFFICES ASSUME IInv, [Next]_vars PROVE IInv' OBVIOUS
    <2>1. CASE Application BY <2>1, LoopStep, EndStep DEF Application
    <2>2. ASSUME NEW w \in Workers,
                 Worker(w) \/ WorkerFault(w) \/ ChildExits(w) \/ KilledChildEnds(w)
          PROVE  IInv'
      BY <2>2, WorkerStep, FaultStep
    <2>3. CASE UNCHANGED vars
      BY <2>3 DEF vars, IInv, TypeOK, Child, Published, Accounted, InFlight, Loop,
                  PreviewIsCurrent, Working
    <2>4. QED BY <2>1, <2>2, <2>3 DEF Next
  <1>3. QED BY <1>1, <1>2, PTL DEF Spec

-----------------------------------------------------------------------------
(* The event loop and the workers keep their types; a run that is being       *)
(* cancelled or joined is there.                                              *)
THEOREM TypeCorrect == Spec => []TypeOK
  <1>1. IInv => TypeOK BY DEF IInv
  <1>2. QED BY <1>1, Inductive, PTL

(* No signal of a cancellation goes to a process group whose leader has been  *)
(* reaped, whichever thread takes the slot's lock first.                      *)
THEOREM SignalsOwned == Spec => []SignalsReachOwnChild
  <1>1. IInv => SignalsReachOwnChild
    BY DEF IInv, Child, SignalsReachOwnChild, SlotFree, Living
  <1>2. QED BY <1>1, Inductive, PTL

(* The terminal is handed back after the last worker and its last child.      *)
THEOREM TerminalLast == Spec => []ScreenReturnedLast
  <1>1. IInv => ScreenReturnedLast
    BY NoneIsNoWorker DEF IInv, TypeOK, Child, Accounted, Loop, ScreenReturnedLast, Living
  <1>2. QED BY <1>1, Inductive, PTL

(* A worker that answers has reaped every Git child it started, also when it  *)
(* was cancelled, failed or panicked, and the terminal is handed back after   *)
(* the last of them.                                                          *)
THEOREM ChildrenReaped == Spec => []NoChildOutlivesItsWorker
  <1>1. IInv => \A w \in Workers : pc[w] \in {"sending", "sent", "done"} => child[w] \notin Living /\ ~slot[w]
    BY DEF IInv, TypeOK, Child, Living
  <1>2. QED BY <1>1, Inductive, TerminalLast, PTL DEF NoChildOutlivesItsWorker

(* The compare-and-exchange decides: a cancelled run publishes nothing.       *)
THEOREM CancelledStaysUnpublished == Spec => []CancellationWins
  <1>1. IInv => CancellationWins
    BY DEF IInv, Published, CancellationWins
  <1>2. QED BY <1>1, Inductive, PTL

(* Every worker's last act is a message, so a closed channel is never news.   *)
THEOREM RunsReport == Spec => []EveryRunReports
  <1>1. IInv => EveryRunReports
    BY DEF IInv, Published, EveryRunReports
  <1>2. QED BY <1>1, Inductive, PTL

(* At most one check is at work that is not a cancelled origin check.         *)
THEOREM NoOverlap == Spec => []ChecksDoNotOverlap
  <1>1. IInv => ChecksDoNotOverlap
    BY NoneIsNoWorker DEF IInv, TypeOK, Accounted, InFlight, ChecksDoNotOverlap
  <1>2. QED BY <1>1, Inductive, PTL

(* No late answer of a cancelled check replaces what is on screen.            *)
THEOREM PreviewCurrent == Spec => []PreviewIsCurrent
  <1>1. IInv => PreviewIsCurrent BY DEF IInv
  <1>2. QED BY <1>1, Inductive, PTL

(***************************************************************************)
(* The questions of a check                                                *)
(***************************************************************************)

\* A question has all its parts, and a step changes them one by one.
Whole(p) ==
  p = [way |-> p.way, at |-> p.at, kind |-> p.kind, revision |-> p.revision, error |-> p.error,
       local |-> p.local, filters |-> p.filters, dirty |-> p.dirty, untracked |-> p.untracked,
       before |-> p.before]

\* What was asked of the checkout is still so at the places that rely on it, but for what
\* others put there since.
Asking ==
  /\ Whole(probe) /\ probe.way \in {"preview", "check"}
  /\ settings \subseteq Programs
  /\ probe.way = "preview" => settings = {}
  /\ ProbeAt("status") => settings \cap {"filter"} \subseteq probe.filters \cup since
  /\ probe.at \in {"kind", "settle", "fetch"} => settings \cap {"program"} \subseteq since
  /\ ProbeAt("publish") /\ symbolic => "symbolic" \in since
  /\ ChecksKeepToTheirWord

\* Nothing was asked yet.
LEMMA InitAsking == UpdateInit => Asking
  <1> SUFFICES ASSUME UpdateInit PROVE Asking
    OBVIOUS
  <1>1. PICK s \in Situations : InitProbe(s[5])
    BY DEF UpdateInit
  <1>2. s[5] \in {"preview", "check"}
    BY <1>1, SituationsAssumption
  <1> QED
    BY <1>1, <1>2 DEF InitProbe, Asked, Asking, Whole, ProbeAt, ChecksKeepToTheirWord

\* Whoever neither asks nor configures leaves all of it as it is.
LEMMA OtherwiseAsking ==
  ASSUME Asking, UNCHANGED <<probe, done, since, settings, symbolic>> PROVE Asking'
  BY DEF Asking, Whole, ProbeAt, ChecksKeepToTheirWord

\* Each question.
LEMMA AskAsking == ASSUME Asking, Probe PROVE Asking'
  <1> USE DEF Asking, Whole, ProbeAt, ChecksKeepToTheirWord, Reads, Goes, Refused, Gate,
              checkout, configuration
  <1>1. CASE OpenCheckout \/ ProveIdentity \/ AskPromisor \/ AskTransport \/ ReadHead
    BY <1>1 DEF OpenCheckout, ProveIdentity, AskPromisor, AskTransport, ReadHead
  <1>2. CASE ReadFilters
    BY <1>2 DEF ReadFilters
  <1>3. CASE ReadWorktree
    BY <1>3 DEF ReadWorktree, Runs, Susceptible, Suppressed, Settled, UserSshCommand,
                PermittedTransports
  <1>4. CASE ReadUpstream \/ AskUrl
    BY <1>4 DEF ReadUpstream, AskUrl, Answers
  <1>5. CASE AskTransportAgain
    BY <1>5 DEF AskTransportAgain, Commands
  <1>6. CASE AskKind \/ ReadTracking
    BY <1>6 DEF AskKind, ReadTracking
  <1>7. CASE Fetch
    BY <1>7 DEF Fetch, Runs, Susceptible, Suppressed, Settled, UserSshCommand,
                PermittedTransports, Transports, Commands
  <1>8. CASE AskPromisorAgain
    BY <1>8 DEF AskPromisorAgain
  <1>11. CASE AskKindAgain
    <2>1. CASE symbolic
      BY <1>11, <2>1 DEF AskKindAgain
    <2>2. CASE ~symbolic
      BY <1>11, <2>2 DEF AskKindAgain
    <2> QED
      BY <2>1, <2>2
  <1>10. CASE Fails
    BY <1>10 DEF Fails
  <1>9. CASE PublishFetched
    BY <1>9 DEF PublishFetched, Runs, Susceptible, Suppressed, Settled, UserSshCommand,
                PermittedTransports
  <1> QED
    BY <1>1, <1>2, <1>3, <1>4, <1>5, <1>6, <1>7, <1>8, <1>9, <1>10, <1>11 DEF Probe

\* What others arrange between two questions.
LEMMA ReconfigureAsking == ASSUME Asking, Reconfigure PROVE Asking'
  <1> USE DEF Asking, Whole, ProbeAt, ChecksKeepToTheirWord, Reconfigure, Interfere
  <1>1. CASE Advance
    BY <1>1 DEF Advance
  <1>2. CASE Configure
    <2>1. ASSUME probe.way = "check", NEW s \in Programs \ settings,
                 settings' = settings \cup {s}, Arranges(s), UNCHANGED symbolic
          PROVE  Asking'
      BY <2>1 DEF Arranges, Unasked, Programs, Transports, Commands, Settled
    <2>2. CASE symbolic' = TRUE /\ Arranges("symbolic") /\ UNCHANGED settings
      BY <2>2 DEF Arranges, Unasked, Settled, UserSshCommand, PermittedTransports, Transports,
                  Commands
    <2>3. CASE UNCHANGED <<settings, symbolic, since>>
      BY <2>3
    <2> QED
      BY <1>2, <2>1, <2>2, <2>3 DEF Configure
  <1> QED
    BY <1>1, <1>2

\* Every step of the run, of whoever asks and of the others.
LEMMA StepAsking == ASSUME Asking, [UpdateNext]_updateVars PROVE Asking'
  <1>1. CASE Ask
    BY <1>1, AskAsking DEF Ask
  <1>2. CASE Plan \/ Blocked
    <2>1. PICK there : Probed(there)
      BY <1>2 DEF Plan, Blocked
    <2>2. /\ probe' = Asked(probe.way, "none", 0) /\ done' = {} /\ since' = {}
          /\ UNCHANGED <<settings, symbolic>>
      BY <2>1 DEF Probed, Turn, configuration
    <2> QED
      BY <2>2 DEF Asked, Asking, Whole, ProbeAt, ChecksKeepToTheirWord
  <1>3. CASE Reconfigure
    BY <1>3, ReconfigureAsking
  <1>4. CASE \/ Load \/ Scan \/ Rescan \/ Recheck \/ Guard \/ Refuse \/ Merge \/ MergeFails \/ Decide
             \/ Refresh \/ ScanAfter \/ VerifyState \/ VerifyInstallations
    BY <1>4, OtherwiseAsking
    DEF Load, Scan, Rescan, Recheck, Guard, Refuse, Merge, MergeFails, Decide, Refresh, ScanAfter,
        VerifyState, VerifyInstallations, Step, Turn, asked, configuration
  <1>5. CASE Relink \/ Litter \/ MoveHead \/ Disturb
    BY <1>5, OtherwiseAsking
    DEF Relink, Litter, MoveHead, Disturb, Interfere, repository, checkout, configuration
  <1>6. CASE UNCHANGED updateVars
    BY <1>6, OtherwiseAsking DEF updateVars, asked, repository, checkout, configuration
  <1> QED
    BY <1>1, <1>2, <1>3, <1>4, <1>5, <1>6 DEF UpdateNext

\* A check runs no program that the checkout's own configuration names, and replaces no symbolic
\* reference, except those that somebody put there after the last question it can ask about them
\* (ChecksKeepToTheirWord): fetch_upstream settles the transport itself and asks again before it
\* publishes.
THEOREM ChecksAreHarmless == UpdateSpec => []ChecksKeepToTheirWord
  <1>1. Asking => ChecksKeepToTheirWord
    BY DEF Asking
  <1>2. Asking /\ [UpdateNext]_updateVars => Asking'
    BY StepAsking
  <1> QED
    BY <1>1, <1>2, InitAsking, PTL DEF UpdateSpec

-----------------------------------------------------------------------------
(* Types *)

Counts == Revisions \cup {0}
Stages == {"load", "scan", "probe", "plan", "confirmed", "closed"} \cup Confirmed

\* The trees are trees, every revision is one, and whoever was shown a plan has one.
Typed ==
  /\ UpdateTypes
  /\ IsTree(base) /\ IsTree(tip)
  /\ Whole(probe) /\ {probe.local, probe.revision, probe.before} \subseteq Counts
  /\ stage \in Stages
  /\ stage \in Confirmed \cup {"confirmed"} => plan # Nothing
  /\ plan # Nothing => /\ plan.from \in Counts /\ plan.to \in Counts /\ plan.from < plan.to
                       /\ plan.affected.findings = {}

\* The untracked files of a checkout stay apart from its tracked ones when it goes over to a
\* tree that collides with none.
LEMMA ApartInNext ==
  ASSUME NEW old, NEW new, NEW c \in Names, ~UntrackedCollision(old, new, untracked),
         untracked[c] \cap SuffixesOf(old[c]) = {}
  PROVE  untracked[c] \cap SuffixesOf(new[c]) = {}
  BY DEF UntrackedCollision, AddedTo

\* The situations an update begins with are of their kinds.
LEMMA InitTyped == UpdateInit => Typed
  <1> SUFFICES ASSUME UpdateInit PROVE Typed
    OBVIOUS
  <1>1. PICK s \in Situations : base = s[1] /\ tip = s[2] /\ links = s[3] /\ untracked = s[4] /\ InitProbe(s[5])
    BY DEF UpdateInit
  <1>2. /\ IsTree(base) /\ IsTree(tip) /\ links \in [Slots -> Targets \cup {Absent}]
        /\ untracked \in [Names -> SUBSET {Extra, Local}]
        /\ \A c \in Names : untracked[c] \cap SuffixesOf(base[c]) = {}
    BY <1>1, SituationsAssumption
  <1>4. /\ Whole(probe) /\ {probe.local, probe.revision, probe.before} \subseteq Counts
        /\ tracking \in Counts /\ remote = 3 /\ settings = {} /\ upstream \in Upstreams /\ symbolic \in BOOLEAN
    <2>1. /\ tracking \in Counts /\ remote = 3 /\ settings = {} /\ upstream \in Upstreams /\ symbolic \in BOOLEAN
      <3>1. settings = {} /\ remote = 3
        BY <1>1 DEF InitProbe
      <3>2. CASE s[5] = "preview"
        <4>1. upstream = "remote" /\ tracking = 3 /\ symbolic = FALSE
          BY <1>1, <3>2 DEF InitProbe
        <4>2. symbolic \in BOOLEAN
          BY <4>1, Zenon
        <4> QED
          BY <3>1, <4>1, <4>2 DEF Upstreams, Counts, Revisions
      <3>3. CASE s[5] # "preview"
        <4>1. upstream \in Upstreams /\ tracking \in {0, 1, 3} /\ symbolic \in BOOLEAN
          BY <1>1, <3>3, Zenon DEF InitProbe
        <4> QED
          BY <3>1, <4>1 DEF Counts, Revisions
      <3> QED
        BY <3>2, <3>3
    <2>2. probe = Asked(s[5], upstream, tracking)
      BY <1>1 DEF InitProbe
    <2> QED
      BY <2>1, <2>2 DEF Asked, Whole, Counts, Revisions
  <1>3. UpdateTypes
    <2>1. Tree(head) = base
      BY DEF UpdateInit, Tree
    <2>2. others \in 0..MaxOthers
      BY BoundAssumption DEF UpdateInit
    <2>3. /\ head \in Revisions /\ {previous, tracking, remote} \subseteq Revisions \cup {0}
          /\ settings \subseteq Programs /\ upstream \in Upstreams
      BY <1>4 DEF UpdateInit, Revisions, Counts
    <2>4. {dirty, named, promisor, symbolic, write, reads, late} \subseteq BOOLEAN
      BY <1>4 DEF UpdateInit
    <2>5. /\ alias \in Names \cup {Elsewhere} /\ registry.candidates \subseteq Names
          /\ report \subseteq {"failed", "withheld", "error"}
      BY DEF UpdateInit
    <2> QED
      BY <1>2, <2>1, <2>2, <2>3, <2>4, <2>5 DEF UpdateTypes
  <1> QED
    BY <1>2, <1>3, <1>4 DEF Typed, UpdateInit, Stages, Confirmed

\* A step of the run that changes neither the worktree nor the question.
LEMMA StepTyped ==
  ASSUME Typed, NEW here, NEW there, Step(here, there), UNCHANGED <<head, previous, plan>>,
         write' \in BOOLEAN, reads' \in BOOLEAN, registry'.candidates \subseteq Names,
         report' \subseteq {"failed", "withheld", "error"},
         there \in Stages, there \in Confirmed \cup {"confirmed"} => plan # Nothing
  PROVE  Typed'
  <1>1. UpdateTypes'
    BY DEF Typed, UpdateTypes, Step, Turn, configuration, agents, Tree
  <1> QED
    BY <1>1 DEF Typed, Step, Turn, asked, Whole

\* A question, the fetch and the publication leave what is of a kind of that kind.
LEMMA AskTyped == ASSUME Typed, Ask PROVE Typed'
  <1>1. /\ Whole(probe) /\ {probe.local, probe.revision, probe.before} \subseteq Counts
        /\ head \in Counts /\ tracking \in Counts /\ remote \in Counts /\ symbolic \in BOOLEAN
        /\ TrackingValue \in Counts
    BY DEF Typed, UpdateTypes, Counts, TrackingValue
  <1>2. /\ Whole(probe') /\ {probe'.local, probe'.revision, probe'.before} \subseteq Counts
        /\ tracking' \in Counts /\ symbolic' \in BOOLEAN
        /\ UNCHANGED <<head, dirty, untracked, named, promisor, settings, upstream, remote>>
    <2> USE <1>1 DEF Whole, Reads, Goes, Refused, Gate, checkout, configuration, Ask, Probe
    <2>1. CASE OpenCheckout \/ ProveIdentity \/ AskPromisor \/ AskTransport
      BY <2>1 DEF OpenCheckout, ProveIdentity, AskPromisor, AskTransport
    <2>2. CASE ReadHead \/ ReadFilters \/ ReadWorktree
      BY <2>2 DEF ReadHead, ReadFilters, ReadWorktree
    <2>3. CASE ReadUpstream
      BY <2>3 DEF ReadUpstream, Answers
    <2>4. CASE AskUrl \/ AskTransportAgain \/ AskKind
      BY <2>4 DEF AskUrl, AskTransportAgain, AskKind
    <2>5. CASE ReadTracking
      BY <2>5 DEF ReadTracking, Counts
    <2>6. CASE Fetch
      BY <2>6 DEF Fetch
    <2>7. CASE AskPromisorAgain \/ AskKindAgain
      BY <2>7 DEF AskPromisorAgain, AskKindAgain
    <2>8. CASE PublishFetched
      BY <2>8 DEF PublishFetched
    <2>9. CASE Fails
      BY <2>9 DEF Fails
    <2> QED
      BY <2>1, <2>2, <2>3, <2>4, <2>5, <2>6, <2>7, <2>8, <2>9 DEF Ask, Probe
  <1>3. UNCHANGED <<base, tip, previous, links, alias, stage, registry, plan, write, reads, report, others, late>>
    BY DEF Ask, agents, course
  <1>4. UpdateTypes'
    BY <1>2, <1>3 DEF Typed, UpdateTypes, Tree, Counts
  <1> QED
    BY <1>2, <1>3, <1>4 DEF Typed

\* A plan that is offered has no finding, and its target is ahead.
LEMMA ProbedTyped == ASSUME Typed, Plan \/ Blocked PROVE Typed'
  <1>1. PICK there \in {"confirmed", "closed"} : Probed(there) /\ (there = "confirmed" => Plan)
    BY DEF Plan, Blocked
  <1>2. /\ UNCHANGED <<base, tip, links, alias, tracking, dirty, untracked, named, promisor, settings, upstream,
                       symbolic, remote, others, late, head, previous, registry, write, reads, report>>
        /\ stage' = there /\ probe' = Asked(probe.way, "none", 0)
    BY <1>1 DEF Probed, Turn, agents, configuration
  <1>3. UpdateTypes'
    BY <1>2 DEF Typed, UpdateTypes, Tree
  <1>4. Whole(probe') /\ {probe'.local, probe'.revision, probe'.before} \subseteq Counts
    BY <1>2 DEF Asked, Whole, Counts
  <1>5. /\ stage' \in Stages
        /\ stage' \in Confirmed \cup {"confirmed"} => plan' # Nothing
        /\ plan' # Nothing => /\ plan'.from \in Counts /\ plan'.to \in Counts /\ plan'.from < plan'.to
                              /\ plan'.affected.findings = {}
    <2>1. CASE Plan
      <3>1. plan'.from = probe.local /\ plan'.to = probe.revision /\ plan'.affected = Statement /\ Offered /\ plan' # Nothing
        BY <2>1 DEF Plan, Nothing
      <3> QED
        BY <1>1, <1>2, <3>1 DEF Typed, Offered, Available, Behind, Stages, Confirmed
    <2>2. CASE ~Plan
      BY <1>1, <1>2, <2>2 DEF Typed, Blocked, Stages, Confirmed
    <2> QED
      BY <2>1, <2>2
  <1> QED
    BY <1>2, <1>3, <1>4, <1>5 DEF Typed

\* A merge goes over to a tree that no untracked file is in the way of.
LEMMA MergeTyped == ASSUME Typed, Merge PROVE Typed'
  <1>1. /\ plan # Nothing /\ head \in Revisions /\ plan.to \in Revisions
        /\ UNCHANGED <<base, tip, links, alias, tracking, dirty, untracked, named, promisor, settings, upstream,
                       symbolic, remote, others, late, registry, plan, reads, report, probe>>
        /\ stage' = "decide" /\ write' = TRUE
    BY DEF Typed, Merge, Step, Turn, Confirmed, UpdateTypes, Counts, Revisions, agents, configuration, asked
  <1>2. /\ head' \in Revisions /\ previous' \in Counts
        /\ \A c \in Names : untracked[c] \cap SuffixesOf(Tree(head)[c]) = {}
        /\ head < plan.to => /\ ~UntrackedCollision(Tree(head), Tree(plan.to), untracked)
                             /\ head' = plan.to
        /\ ~(head < plan.to) => head' = head
    BY <1>1 DEF Merge, Typed, UpdateTypes, Counts
  <1>3. \A c \in Names : untracked'[c] \cap SuffixesOf(Tree(head)'[c]) = {}
    <2> SUFFICES ASSUME NEW c \in Names PROVE untracked[c] \cap SuffixesOf(Tree(head)'[c]) = {}
      BY <1>1
    <2>1. CASE head < plan.to
      <3>1. Tree(head)' = Tree(plan.to)
        BY <1>1, <1>2, <2>1 DEF Tree
      <3> QED
        BY <1>2, <2>1, <3>1, ApartInNext
    <2>2. CASE ~(head < plan.to)
      BY <1>1, <1>2, <2>2 DEF Tree
    <2> QED
      BY <2>1, <2>2
  <1>4. UpdateTypes'
    BY <1>1, <1>2, <1>3 DEF Typed, UpdateTypes, Counts
  <1> QED
    BY <1>1, <1>4 DEF Typed, Stages, Confirmed

\* So does whoever moves the branch, and whoever adds a file finds nothing of Git there.
LEMMA OthersTyped == ASSUME Typed, Relink \/ Litter \/ MoveHead \/ Disturb \/ Reconfigure PROVE Typed'
  <1>1. /\ others < MaxOthers /\ others' = others + 1 /\ others' \in 0..MaxOthers
        /\ UNCHANGED <<base, tip, stage, registry, plan, before, after, write, reads, report, probe>>
    BY BoundAssumption DEF Relink, Litter, MoveHead, Disturb, Reconfigure, Interfere, Typed, UpdateTypes
  <1>2. late' \in BOOLEAN
    <2>1. late \in BOOLEAN /\ MarkLate
      BY DEF Typed, UpdateTypes, Relink, Litter, MoveHead, Disturb, Reconfigure
    <2> QED
      BY <2>1 DEF MarkLate
  <1>3. UpdateTypes'
    <2> USE <1>1, <1>2 DEF Typed, UpdateTypes, Tree
    <2>1. CASE Relink
      BY <2>1 DEF Relink, repository, checkout, configuration
    <2>2. CASE Litter
      <3>1. PICK c \in Names, x \in {Extra, Local} :
              /\ {x, Root} \cap SuffixesOf(Tree(head)[c]) = {}
              /\ untracked' = [untracked EXCEPT ![c] = IF x \in @ THEN @ \ {x} ELSE @ \cup {x}]
        BY <2>2 DEF Litter
      <3>2. /\ untracked' \in [Names -> SUBSET {Extra, Local}]
            /\ \A d \in Names : untracked'[d] \cap SuffixesOf(Tree(head)[d]) = {}
        BY <3>1
      <3>3. UNCHANGED <<head, tracking, dirty, named, promisor, settings, upstream, symbolic, remote, links, alias, previous>>
        BY <2>2 DEF Litter, configuration, agents
      <3> QED
        BY <3>2, <3>3
    <2>3. CASE MoveHead
      <3>1. PICK r \in Revisions \ {head} :
               ~UntrackedCollision(Tree(head), Tree(r), untracked) /\ head' = r /\ previous' = head
        BY <2>3 DEF MoveHead
      <3>2. UNCHANGED <<tracking, dirty, untracked, named, promisor, settings, upstream, symbolic, remote, links, alias>>
        BY <2>3 DEF MoveHead, configuration, agents
      <3>3. \A c \in Names : untracked[c] \cap SuffixesOf(Tree(r)[c]) = {}
        BY <3>1, ApartInNext
      <3>4. Tree(head)' = Tree(r)
        BY <3>1
      <3> QED
        BY <3>1, <3>2, <3>3, <3>4
    <2>4. CASE Disturb
      <3>1. /\ UNCHANGED <<head, untracked, settings, upstream, symbolic, remote, links, alias, previous>>
            /\ tracking' \in Counts /\ {dirty', named', promisor'} \subseteq BOOLEAN
        <4>1. UNCHANGED <<head, untracked, settings, upstream, symbolic, remote, links, alias, previous>>
          BY <2>4 DEF Disturb, configuration, agents
        <4>2. CASE tracking' = 4 /\ UNCHANGED <<dirty, named, promisor>>
          BY <4>1, <4>2 DEF Counts, Revisions
        <4>3. CASE dirty' = ~dirty /\ UNCHANGED <<tracking, named, promisor>>
          <5>1. dirty' \in BOOLEAN
            BY <4>3, Zenon
          <5> QED
            BY <4>1, <4>3, <5>1 DEF Counts
        <4>4. CASE named' = ~named /\ UNCHANGED <<tracking, dirty, promisor>>
          <5>1. named' \in BOOLEAN
            BY <4>4, Zenon
          <5> QED
            BY <4>1, <4>4, <5>1 DEF Counts
        <4>5. CASE promisor' = TRUE /\ UNCHANGED <<tracking, dirty, named>>
          BY <4>1, <4>5 DEF Counts
        <4> QED
          BY <2>4, <4>2, <4>3, <4>4, <4>5 DEF Disturb
      <3> QED
        BY <3>1 DEF Counts
    <2>5. CASE Reconfigure
      <3>1. UNCHANGED <<head, tracking, dirty, untracked, named, promisor, links, alias, previous>>
        BY <2>5 DEF Reconfigure, agents
      <3>2. settings' \subseteq Programs /\ upstream' \in Upstreams /\ symbolic' \in BOOLEAN /\ remote' \in Counts
        <4>1. CASE Configure
          BY <2>5, <4>1 DEF Configure, Counts
        <4>2. CASE remote < 4 /\ Advance
          BY <2>5, <4>2 DEF Advance, Counts, Revisions
        <4> QED
          BY <2>5, <4>1, <4>2 DEF Reconfigure
      <3> QED
        BY <3>1, <3>2 DEF Counts
    <2> QED
      BY <2>1, <2>2, <2>3, <2>4, <2>5
  <1> QED
    BY <1>1, <1>3 DEF Typed

\* No step.
LEMMA StutterTyped == ASSUME Typed, UNCHANGED updateVars PROVE Typed'
  <1>1. UNCHANGED <<base, tip, head, tracking, dirty, untracked, named, promisor, settings, upstream, symbolic, remote,
                    previous, links, alias, stage, registry, plan, write, reads, report, others, late, probe>>
    BY DEF updateVars, repository, checkout, configuration, agents, course, asked
  <1>2. UpdateTypes'
    BY <1>1 DEF Typed, UpdateTypes, Tree
  <1> QED
    BY <1>1, <1>2 DEF Typed

\* Every step.
LEMMA NextTyped == ASSUME Typed, [UpdateNext]_updateVars PROVE Typed'
  <1>0. /\ write \in BOOLEAN /\ reads \in BOOLEAN /\ promisor \in BOOLEAN
        /\ report \subseteq {"failed", "withheld", "error"} /\ registry.candidates \subseteq Names
        /\ stage \in Confirmed \cup {"confirmed"} => plan # Nothing
    BY DEF Typed, UpdateTypes
  <1> USE <1>0
  <1>1. CASE Load
    BY <1>1, StepTyped DEF Load, LoadRegistry, CandidatesOnDisk, Stages, Confirmed
  <1>2. CASE Scan
    BY <1>2, StepTyped DEF Scan, Stages, Confirmed
  <1>3. CASE Rescan
    BY <1>3, StepTyped DEF Rescan, Stages, Confirmed, Step, Turn
  <1>4. CASE Recheck \/ Guard
    BY <1>4, StepTyped DEF Recheck, Guard, Stages, Confirmed, Step, Turn
  <1>5. CASE Refuse
    BY <1>5, StepTyped DEF Refuse, Stages, Confirmed, Step, Turn
  <1>6. CASE MergeFails
    BY <1>6, StepTyped DEF MergeFails, Stages, Confirmed, Step, Turn
  <1>7. CASE Decide
    BY <1>7, StepTyped DEF Decide, Stages, Confirmed, Step, Turn
  <1>8. CASE Refresh
    BY <1>8, StepTyped DEF Refresh, LoadRegistry, CandidatesOnDisk, Stages, Confirmed, Step, Turn
  <1>9. CASE ScanAfter
    BY <1>9, StepTyped DEF ScanAfter, Stages, Confirmed, Step, Turn
  <1>10. CASE VerifyState
    BY <1>10, StepTyped DEF VerifyState, StateReport, Stages, Confirmed, Step, Turn
  <1>11. CASE VerifyInstallations
    BY <1>11, StepTyped DEF VerifyInstallations, InstallationReport, Stages, Confirmed, Step, Turn
  <1> QED
    BY <1>1, <1>2, <1>3, <1>4, <1>5, <1>6, <1>7, <1>8, <1>9, <1>10, <1>11,
       AskTyped, ProbedTyped, MergeTyped, OthersTyped, StutterTyped DEF UpdateNext

\* What a scan sees of a link under row's name that leads to c, where the files are, when the
\* walk of the catalog lists the directories that are there.
View(row, target, c, files) ==
  LET verdict == DocumentVerdict(row, DocumentOf(files))
  IN  IF target = Absent THEN NotInstalled
      ELSE IF c = Elsewhere
      THEN Observation(target, Absent, {<<"install.unmanaged", "">>}, Health.Unmanaged)
      ELSE IF files = {} THEN Broken(target, Absent, {<<"install.dangling_symlink", "">>})
      ELSE IF files = {<<Root, "file">>}
      THEN Broken(target, Absent, {<<"skill.unreadable", "">>})
      ELSE IF ~IsDirectory(files)
      THEN Broken(target, Absent, {<<"skill.missing_skill_md", "">>})
      ELSE IF verdict # {} THEN Broken(target, c, verdict)
      ELSE Observation(target, c, {}, Health.Healthy)

Sight(s) == View(RowOf[s], links[s], Follow(links[s]), OnDisk(Follow(links[s])))

\* What a row can be.
Shaped(r) ==
  \/ r = NotInstalled
  \/ /\ r = Observation(r.object, r.resolution, r.findings, r.health)
     /\ r.object # Absent /\ r.health \in 1..3
     /\ r.health = Health.Healthy => r.findings = {}
     /\ r.health = Health.Unmanaged => r.findings = {<<"install.unmanaged", "">>}
     /\ r.health = Health.Broken => \E f \in r.findings : r.findings = {f}

ShapedRows(inventory) == \A s \in Slots : Shaped(inventory.rows[s])

\* What the verification asks of one installation.
AsWord(s, b, a) ==
  /\ b.object # Absent => AsDisclosed(s, b, a)
  /\ b.object = Absent => a.object = Absent
  /\ \A f \in a.findings \ b.findings : Named(s, f)

\* No link of this slot is aimed where the update puts something else that is no skill.
AimIsStated(s) ==
  LET row == before.rows[s]
      c == Follow(row.object)
  IN  row.health = Health.Broken /\ row.resolution = Absent /\ c \in Names =>
        Tree(plan.to)[c] = Tree(plan.from)[c] \/ HoldsSkill(Tree(plan.to), c)

\* An installation is as the plan said, and no better than before where it said nothing.
Foreseen(s, b, a) ==
  /\ AimIsStated(s) => AsWord(s, b, a)
  /\ a.health < b.health => StatedOf(s)

\* Where the run goes before the merge, and after it.
Ahead == {"scan", "probe", "plan", "confirmed", "recheck", "guard", "merge"}
Behindhand == {"decide", "refresh", "after", "state", "installations"}

\* The merge is the only write, and what it found is what it built on.
Written ==
  /\ stage \in Ahead \cup {"load"} => ~write /\ report = {}
  /\ stage \in Ahead \cup {"load"} => found = 0
  /\ found \in Counts
  /\ write /\ "error" \notin report /\ found # 0 =>
       IF found < plan.to THEN head = plan.to /\ previous = found ELSE head = found
  /\ stage \in {"installations", "closed"} /\ write /\ report = {} /\ found # 0 =>
       found = plan.from \/ (found = plan.to /\ previous = plan.from)
  /\ stage \in Behindhand /\ ~write => "error" \in report
  /\ stage = "closed" /\ write => plan # Nothing /\ InstallationReport \subseteq report
  /\ stage \in {"recheck", "guard", "merge"} \cup Behindhand => ShapedRows(before)
  /\ stage \in {"state", "installations"} => ShapedRows(after)
  /\ stage = "closed" /\ write => ShapedRows(before) /\ ShapedRows(after)

\* What the guards have established, while nobody interfered.
Guarded ==
  ~late =>
    /\ stage \in Ahead => registry.candidates = CandidatesOnDisk
    /\ stage \in {"recheck", "guard", "merge"} => before = Inventory
    /\ stage \in {"guard", "merge"} => Undisturbed
    /\ stage = "merge" => StillValid

\* What a merge that nobody interfered with leaves, and what is seen of it.
Kept ==
  ~late /\ write /\ "error" \notin report =>
    /\ head = plan.to /\ previous = plan.from /\ named /\ ~promisor /\ ~dirty
    /\ stage # "decide" => reads
    /\ stage \in {"decide", "refresh", "after"} =>
         \A s \in Slots : Foreseen(s, before.rows[s], Sight(s))
    /\ stage = "after" => registry.complete /\ registry.candidates = CandidatesOnDisk
    /\ stage \in {"state", "installations", "closed"} =>
         after.complete /\ \A s \in Slots : Foreseen(s, before.rows[s], after.rows[s])
    /\ stage \in Behindhand => report = {}
    /\ stage = "closed" => report = InstallationReport

-----------------------------------------------------------------------------
(* What a scan sees *)

\* A verdict on a document has one finding at most.
LEMMA VerdictIsOne ==
  ASSUME NEW row, NEW documents
  PROVE  \/ DocumentVerdict(row, documents) = {}
         \/ \E f \in DocumentVerdict(row, documents) : DocumentVerdict(row, documents) = {f}
  BY DEF DocumentVerdict

\* A broken row has the one finding it is broken by.
LEMMA BrokenShaped ==
  ASSUME NEW object, object # Absent, NEW resolution, NEW f
  PROVE  Shaped(Broken(object, resolution, {f}))
  <1> DEFINE r == Broken(object, resolution, {f})
  <1>1. /\ r.object = object /\ r.health = 3 /\ r.findings = {f} /\ r.resolution = resolution
        /\ r = Observation(r.object, r.resolution, r.findings, r.health)
    BY DEF Broken, Observation, Health
  <1>2. \E g \in r.findings : r.findings = {g}
    BY <1>1
  <1> HIDE DEF r
  <1>3. Shaped(r)
    BY <1>1, <1>2 DEF Shaped, Health
  <1> QED
    BY <1>3 DEF r

\* A healthy row has no finding, an unmanaged one that it is unmanaged.
LEMMA HealthyShaped ==
  ASSUME NEW object, object # Absent, NEW resolution
  PROVE  /\ Shaped(Observation(object, resolution, {}, Health.Healthy))
         /\ Shaped(Observation(object, resolution, {<<"install.unmanaged", "">>}, Health.Unmanaged))
  <1>1. Shaped(Observation(object, resolution, {}, Health.Healthy))
    <2> DEFINE r == Observation(object, resolution, {}, Health.Healthy)
    <2>1. /\ r.object = object /\ r.health = 1 /\ r.findings = {}
          /\ r = Observation(r.object, r.resolution, r.findings, r.health)
      BY DEF Observation, Health
    <2> HIDE DEF r
    <2>2. Shaped(r)
      BY <2>1 DEF Shaped, Health
    <2> QED
      BY <2>2 DEF r
  <1>2. Shaped(Observation(object, resolution, {<<"install.unmanaged", "">>}, Health.Unmanaged))
    <2> DEFINE r == Observation(object, resolution, {<<"install.unmanaged", "">>}, Health.Unmanaged)
    <2>1. r.object = object /\ r.health = 2
      BY DEF Observation, Health
    <2>5. r.findings = {<<"install.unmanaged", "">>}
      BY DEF Observation
    <2>6. r = Observation(r.object, r.resolution, r.findings, r.health)
      BY DEF Observation
    <2> HIDE DEF r
    <2>2. r.health \in 1..3 /\ r.object # Absent
      BY <2>1
    <2>3. r.health # Health.Healthy /\ r.health # Health.Broken
      BY <2>1 DEF Health
    <2>4. Shaped(r)
      BY <2>2, <2>3, <2>5, <2>6, Zenon DEF Shaped
    <2> QED
      BY <2>4 DEF r
  <1> QED
    BY <1>1, <1>2

\* Whatever a scan sees in a slot is a row.
LEMMA ObservedShaped == \A s \in Slots : Shaped(Observe(s))
  <1> TAKE s \in Slots
  <1> DEFINE target == links[s]
             c == Follow(target)
             resolution == IF c \in registry.candidates /\ OnDisk(c) # {} THEN c ELSE Absent
             verdict == DocumentVerdict(RowOf[s], DocumentOf(OnDisk(c)))
  <1>1. CASE target = Absent
    BY <1>1 DEF Observe, Shaped
  <1>2. CASE target # Absent
    <2>1. \/ Observe(s) = Observation(target, Absent, {<<"install.unmanaged", "">>}, Health.Unmanaged)
          \/ \E r, f : Observe(s) = Broken(target, r, {f})
          \/ Observe(s) = Broken(target, resolution, verdict) /\ verdict # {}
          \/ Observe(s) = Observation(target, resolution, {}, Health.Healthy)
      BY <1>2 DEF Observe
    <2>2. CASE Observe(s) = Broken(target, resolution, verdict) /\ verdict # {}
      <3>1. PICK f : verdict = {f}
        BY <2>2, VerdictIsOne
      <3> QED
        BY <1>2, <2>2, <3>1, BrokenShaped
    <2>3. CASE \E r, f : Observe(s) = Broken(target, r, {f})
      BY <1>2, <2>3, BrokenShaped
    <2> HIDE DEF target, resolution
    <2> QED
      BY <1>2, <2>1, <2>2, <2>3, HealthyShaped
  <1> QED
    BY <1>1, <1>2

\* And so is every row of an inventory.
LEMMA InventoryShaped == ShapedRows(Inventory)
  BY ObservedShaped DEF ShapedRows, Inventory

\* A link leads to a candidate or to the skill elsewhere, the user's own link being followed.
LEMMA FollowsTo ==
  ASSUME Typed, NEW s \in Slots, links[s] # Absent
  PROVE  Follow(links[s]) \in Names \cup {Elsewhere}
  <1>1. links[s] \in Targets \cup {Absent} /\ alias \in Names \cup {Elsewhere}
    BY DEF Typed, UpdateTypes
  <1> QED
    BY <1>1 DEF Targets, Follow

\* A scan sees what its catalogs, as they are, would have it see.
LEMMA ObservesSight ==
  ASSUME Typed, registry.candidates = CandidatesOnDisk, NEW s \in Slots
  PROVE  Observe(s) = Sight(s)
  <1> DEFINE target == links[s]
             c == Follow(target)
             files == OnDisk(c)
             resolution == IF c \in registry.candidates /\ files # {} THEN c ELSE Absent
             verdict == DocumentVerdict(RowOf[s], DocumentOf(files))
  <1>1. CASE target = Absent
    BY <1>1 DEF Observe, Sight, View
  <1>2. CASE target # Absent /\ c = Elsewhere
    BY <1>2 DEF Observe, Sight, View
  <1>3. CASE target # Absent /\ c # Elsewhere
    <2>1. c \in Names
      BY <1>3, FollowsTo
    <2>2. c # Absent
      BY <2>1, NamesAssumption
    <2>3. c \in registry.candidates <=> IsDirectory(files)
      BY <2>1 DEF CandidatesOnDisk
    <2>4. files = {<<Root, "file">>} => ~IsDirectory(files)
      BY DEF IsDirectory, SuffixesOf
    <2>5. resolution = IF IsDirectory(files) THEN c ELSE Absent
      BY <2>3 DEF IsDirectory
    <2>6. Observe(s) =
             IF files = {} THEN Broken(target, Absent, {<<"install.dangling_symlink", "">>})
             ELSE IF files = {<<Root, "file">>}
             THEN Broken(target, resolution, {<<"skill.unreadable", "">>})
             ELSE IF ~IsDirectory(files)
             THEN Broken(target, Absent, {<<"skill.missing_skill_md", "">>})
             ELSE IF verdict # {} THEN Broken(target, resolution, verdict)
             ELSE IF resolution = Absent
             THEN Observation(target, Absent, {<<"install.unmanaged", "">>}, Health.Unmanaged)
             ELSE Observation(target, resolution, {}, Health.Healthy)
      BY <1>3 DEF Observe
    <2>7. Sight(s) =
             IF files = {} THEN Broken(target, Absent, {<<"install.dangling_symlink", "">>})
             ELSE IF files = {<<Root, "file">>}
             THEN Broken(target, Absent, {<<"skill.unreadable", "">>})
             ELSE IF ~IsDirectory(files)
             THEN Broken(target, Absent, {<<"skill.missing_skill_md", "">>})
             ELSE IF verdict # {} THEN Broken(target, c, verdict)
             ELSE Observation(target, c, {}, Health.Healthy)
      BY <1>3 DEF Sight, View
    <2>8. files = {} => ~IsDirectory(files)
      BY DEF IsDirectory
    <2> HIDE DEF target, c, files, resolution, verdict
    <2>9. CASE ~IsDirectory(files)
      <3>1. resolution = Absent
        BY <2>5, <2>9
      <3>2. CASE files = {}
        BY <2>6, <2>7, <3>2
      <3>3. CASE files # {} /\ files = {<<Root, "file">>}
        BY <2>6, <2>7, <3>1, <3>3
      <3>4. CASE files # {} /\ files # {<<Root, "file">>}
        BY <2>6, <2>7, <2>9, <3>4
      <3> QED
        BY <3>2, <3>3, <3>4
    <2>10. CASE IsDirectory(files)
      <3>1. files # {} /\ files # {<<Root, "file">>} /\ resolution = c
        BY <2>4, <2>5, <2>8, <2>10
      <3>2. CASE verdict # {}
        BY <2>6, <2>7, <2>10, <3>1, <3>2
      <3>3. CASE verdict = {}
        BY <2>2, <2>6, <2>7, <2>10, <3>1, <3>3
      <3> QED
        BY <3>2, <3>3
    <2> QED
      BY <2>9, <2>10
  <1> QED
    BY <1>1, <1>2, <1>3

-----------------------------------------------------------------------------
(* What the statement says of one candidate *)

\* The two sides of a confirmed rename: the one is emptied, the other filled, both are touched.
LEMMA RenameSides ==
  ASSUME NEW old, NEW new, NEW r \in Renames(old, new)
  PROVE  /\ r[1] \in Names /\ r[2] \in Names
         /\ AddedTo(old, new, r[1]) = {} /\ DeletedFrom(old, new, r[1]) # {}
         /\ DeletedFrom(old, new, r[2]) = {} /\ AddedTo(old, new, r[2]) # {}
         /\ ~HoldsSkill(new, r[1]) /\ ~HoldsSkill(old, r[2])
         /\ old[r[1]] # new[r[1]] /\ old[r[2]] # new[r[2]]
  <1>1. r \in Names \X Names /\ IsRename(old, new, r[1], r[2])
    BY DEF Renames
  <1>2. \A c : AddedTo(old, new, c) # {} \/ DeletedFrom(old, new, c) # {} => old[c] # new[c]
    BY DEF AddedTo, DeletedFrom
  <1> QED
    BY <1>1, <1>2 DEF IsRename

\* A candidate that the update does not touch is not part of the statement.
LEMMA UntouchedUnsaid ==
  ASSUME NEW old, NEW new, NEW c, old[c] = new[c]
  PROVE  c \notin Arriving(old, new) \cup Retained(old, new) \cup Leaving(old, new)
  BY RenameSides DEF Arriving, Retained, Leaving, Touched

\* A skill that is there after an update that touches it stays or arrives.
LEMMA SkillStaysOrArrives ==
  ASSUME NEW old, NEW new, NEW c \in Names, old[c] # new[c], HoldsSkill(new, c)
  PROVE  /\ c \notin Leaving(old, new)
         /\ HoldsSkill(old, c) => c \in Retained(old, new)
         /\ ~HoldsSkill(old, c) => c \in Arriving(old, new)
  <1>1. \A r \in Renames(old, new) : r[1] # c /\ (r[2] = c => ~HoldsSkill(old, c))
    BY RenameSides
  <1>2. c \in Touched(old, new)
    BY DEF Touched
  <1>3. c \notin Leaving(old, new)
    BY <1>1 DEF Leaving
  <1>4. ASSUME HoldsSkill(old, c) PROVE c \in Retained(old, new)
    BY <1>1, <1>2, <1>4 DEF Retained
  <1>5. ASSUME ~HoldsSkill(old, c) PROVE c \in Arriving(old, new)
    <2>1. CASE \E r \in Renames(old, new) : r[2] = c
      BY <2>1 DEF Arriving
    <2>2. CASE ~ \E r \in Renames(old, new) : r[2] = c
      <3>1. c \notin UNION {{r[1], r[2]} : r \in Renames(old, new)}
        BY <1>1, <2>2
      <3> QED
        BY <1>2, <1>5, <3>1 DEF Arriving
    <2> QED
      BY <2>1, <2>2
  <1> QED
    BY <1>3, <1>4, <1>5

\* One that is not there afterwards leaves, or is the new side of a rename of no skill.
LEMMA OthersLeave ==
  ASSUME NEW old, NEW new, NEW c \in Names, old[c] # new[c], ~HoldsSkill(new, c)
  PROVE  /\ c \notin Retained(old, new)
         /\ c \in Leaving(old, new) \/ c \in Arriving(old, new)
         /\ c \in Leaving(old, new) => c \notin Arriving(old, new)
         /\ c \in Arriving(old, new) => /\ ~HoldsSkill(old, c)
                                        /\ DeletedFrom(old, new, c) = {}
                                        /\ AddedTo(old, new, c) # {}
  <1>1. c \in Touched(old, new)
    BY DEF Touched
  <1>2. c \notin Retained(old, new)
    BY DEF Retained
  <1>3. c \in Arriving(old, new) => \E r \in Renames(old, new) : r[2] = c
    BY DEF Arriving
  <1>4. c \in Arriving(old, new) =>
           ~HoldsSkill(old, c) /\ DeletedFrom(old, new, c) = {} /\ AddedTo(old, new, c) # {}
    BY <1>3, RenameSides
  <1>5. ASSUME c \in Leaving(old, new) PROVE c \notin Arriving(old, new)
    <2>1. (\A r \in Renames(old, new) : c \notin {r[1], r[2]}) \/ \E r \in Renames(old, new) : r[1] = c
      BY <1>5 DEF Leaving
    <2> QED
      BY <1>3, <1>4, <2>1, RenameSides
  <1>6. c \in Leaving(old, new) \/ c \in Arriving(old, new)
    <2>1. CASE \E r \in Renames(old, new) : r[2] = c
      BY <2>1 DEF Arriving
    <2>2. CASE \E r \in Renames(old, new) : r[1] = c
      BY <2>2 DEF Leaving
    <2>3. CASE \A r \in Renames(old, new) : c \notin {r[1], r[2]}
      BY <1>1, <2>3 DEF Leaving
    <2> QED
      BY <2>1, <2>2, <2>3
  <1> QED
    BY <1>2, <1>4, <1>5, <1>6

\* The parts of a statement, one by one.
LEMMA StatementParts ==
  ASSUME NEW old, NEW new, NEW inventory, NEW rows, rows = inventory.rows,
         NEW A, A = Affected(old, new, inventory)
  PROVE  /\ \A c \in Retained(old, new) : \A s \in InstalledFrom(rows, c) :
              Invalidated(new, {s}, c) = {} => s \in A.updated
         /\ \A c \in Leaving(old, new) : \A s \in InstalledFrom(rows, c) :
              IF RemovalOutcome(old, new, c) = "ReplacedByFile"
              THEN s \in A.nonLoadable ELSE s \in A.dangling
         /\ \A s \in A.dangling : \E c \in Leaving(old, new) :
              s \in InstalledFrom(rows, c) /\ RemovalOutcome(old, new, c) # "ReplacedByFile"
         /\ \A s \in A.nonLoadable : \E c \in Leaving(old, new) :
              s \in InstalledFrom(rows, c) /\ RemovalOutcome(old, new, c) = "ReplacedByFile"
  <1> DEFINE leaving == {c \in Leaving(old, new) : InstalledFrom(rows, c) # {}}
             outcomes == [c \in leaving |-> RemovalOutcome(old, new, c)]
             replaced == {c \in leaving : outcomes[c] = "ReplacedByFile"}
             retained == Retained(old, new)
  <1>1. A.updated = UNION {{s \in InstalledFrom(rows, c) : Invalidated(new, {s}, c) = {}} : c \in retained}
    BY DEF Affected
  <1>2. A.dangling = UNION {InstalledFrom(rows, c) : c \in leaving \ replaced}
    BY DEF Affected
  <1>3. A.nonLoadable = UNION {InstalledFrom(rows, c) : c \in replaced}
    BY DEF Affected
  <1>4. \A c \in leaving : c \in replaced <=> RemovalOutcome(old, new, c) = "ReplacedByFile"
    OBVIOUS
  <1>5. \A c \in Leaving(old, new) : \A s \in InstalledFrom(rows, c) : c \in leaving
    OBVIOUS
  <1>6. replaced \subseteq leaving /\ leaving \subseteq Leaving(old, new)
    OBVIOUS
  <1> HIDE DEF leaving, outcomes, replaced
  <1>7. \A c \in retained : \A s \in InstalledFrom(rows, c) :
              Invalidated(new, {s}, c) = {} => s \in A.updated
    BY <1>1
  <1>8. ASSUME NEW c \in Leaving(old, new), NEW s \in InstalledFrom(rows, c)
        PROVE  IF RemovalOutcome(old, new, c) = "ReplacedByFile"
               THEN s \in A.nonLoadable ELSE s \in A.dangling
    BY <1>2, <1>3, <1>4, <1>5
  <1>9. ASSUME NEW s \in A.dangling
        PROVE  \E c \in Leaving(old, new) :
                 s \in InstalledFrom(rows, c) /\ RemovalOutcome(old, new, c) # "ReplacedByFile"
    <2>1. PICK c \in leaving \ replaced : s \in InstalledFrom(rows, c)
      BY <1>2
    <2> QED
      BY <1>4, <1>6, <2>1
  <1>10. ASSUME NEW s \in A.nonLoadable
         PROVE  \E c \in Leaving(old, new) :
                  s \in InstalledFrom(rows, c) /\ RemovalOutcome(old, new, c) = "ReplacedByFile"
    <2>1. PICK c \in replaced : s \in InstalledFrom(rows, c)
      BY <1>3
    <2> QED
      BY <1>4, <1>6, <2>1
  <1> QED
    BY <1>7, <1>8, <1>9, <1>10

\* Who is invalidated by the document of a candidate.
LEMMA InvalidatedWhen ==
  ASSUME NEW new, NEW slots, NEW c
  PROVE  /\ \A i \in Invalidated(new, slots, c) :
              \E s \in slots : \E f \in DocumentVerdict(RowOf[s], DocumentOf(new[c])) : i = <<s, f, c>>
         /\ \A s \in slots : \A f \in DocumentVerdict(RowOf[s], DocumentOf(new[c])) :
              <<s, f, c>> \in Invalidated(new, slots, c)
  BY DEF Invalidated

\* The invalidations of a statement are those of what arrives and of what is retained.
LEMMA InvalidationParts ==
  ASSUME NEW old, NEW new, NEW inventory, NEW rows, rows = inventory.rows,
         NEW A, A = Affected(old, new, inventory)
  PROVE  /\ \A i \in A.invalidation :
              \/ \E c \in Arriving(old, new) : i \in Invalidated(new, RevivedBy(rows, c), c)
              \/ \E c \in Retained(old, new) : i \in Invalidated(new, InstalledFrom(rows, c), c)
         /\ \A c \in Arriving(old, new) : Invalidated(new, RevivedBy(rows, c), c) \subseteq A.invalidation
         /\ \A c \in Retained(old, new) : Invalidated(new, InstalledFrom(rows, c), c) \subseteq A.invalidation
  <1> DEFINE Here(c) == Invalidated(new, RevivedBy(rows, c), c)
             There(c) == Invalidated(new, InstalledFrom(rows, c), c)
             arriving == Arriving(old, new)
             retained == Retained(old, new)
             P == UNION {Here(c) : c \in arriving}
             Q == UNION {There(c) : c \in retained}
  <1>1. A.invalidation = P \cup Q
    BY DEF Affected
  <1> HIDE DEF Here, There, arriving, retained
  <1>2. \A i : i \in P <=> \E c \in arriving : i \in Here(c)
    OBVIOUS
  <1>3. \A i : i \in Q <=> \E c \in retained : i \in There(c)
    OBVIOUS
  <1> HIDE DEF P, Q
  <1>4. \A i : i \in A.invalidation <=>
          (\E c \in arriving : i \in Here(c)) \/ (\E c \in retained : i \in There(c))
    BY <1>1, <1>2, <1>3
  <1>5. ASSUME NEW i \in A.invalidation
        PROVE  \/ \E c \in arriving : i \in Here(c)
               \/ \E c \in retained : i \in There(c)
    BY <1>4
  <1>6. ASSUME NEW c \in arriving PROVE Here(c) \subseteq A.invalidation
    BY <1>4
  <1>7. ASSUME NEW c \in retained PROVE There(c) \subseteq A.invalidation
    BY <1>4
  <1> QED
    BY <1>5, <1>6, <1>7 DEF Here, There, arriving, retained

\* The revivals of a statement are those of what arrives, of links with its name.
LEMMA RevivalParts ==
  ASSUME NEW old, NEW new, NEW inventory, NEW rows, rows = inventory.rows,
         NEW A, A = Affected(old, new, inventory)
  PROVE  /\ \A r \in A.revival : r[2] \in Arriving(old, new) /\ r[1] \in RevivedBy(rows, r[2])
         /\ \A c \in Arriving(old, new) : \A s \in RevivedBy(rows, c) :
              Invalidated(new, {s}, c) = {} => <<s, c>> \in A.revival
  <1> DEFINE Sound(c) == {t \in RevivedBy(rows, c) : Invalidated(new, {t}, c) = {}}
             Here(c) == {<<s, c>> : s \in Sound(c)}
             arriving == Arriving(old, new)
  <1>1. A.revival = UNION {Here(c) : c \in arriving}
    BY DEF Affected
  <1>2. \A c, r : r \in Here(c) <=> \E s \in Sound(c) : r = <<s, c>>
    OBVIOUS
  <1>3. \A c, s : s \in Sound(c) <=> s \in RevivedBy(rows, c) /\ Invalidated(new, {s}, c) = {}
    OBVIOUS
  <1> HIDE DEF Here, Sound, arriving
  <1>4. \A r : r \in A.revival <=> \E c \in arriving : r \in Here(c)
    BY <1>1
  <1>5. ASSUME NEW r \in A.revival
        PROVE  r[2] \in arriving /\ r[1] \in RevivedBy(rows, r[2])
    <2>1. PICK c \in arriving : r \in Here(c)
      BY <1>4
    <2>2. PICK s \in Sound(c) : r = <<s, c>>
      BY <1>2, <2>1
    <2>3. s \in RevivedBy(rows, c) /\ Invalidated(new, {s}, c) = {}
      BY <1>3
    <2> QED
      BY <2>2, <2>3
  <1>6. ASSUME NEW c \in arriving, NEW s \in RevivedBy(rows, c), Invalidated(new, {s}, c) = {}
        PROVE  <<s, c>> \in A.revival
    <2>1. s \in Sound(c)
      BY <1>3, <1>6
    <2>2. <<s, c>> \in Here(c)
      BY <1>2, <2>1
    <2> QED
      BY <1>4, <2>2
  <1> QED
    BY <1>5, <1>6 DEF arriving

\* A statement without findings empties what it vacates, and revives whatever is aimed at what
\* arrives.
LEMMA FindingsParts ==
  ASSUME NEW old, NEW new, NEW inventory, NEW rows, rows = inventory.rows,
         NEW A, A = Affected(old, new, inventory), A.findings = {}
  PROVE  /\ \A c \in Leaving(old, new) : InstalledFrom(rows, c) # {} =>
              RemovalOutcome(old, new, c) # "Occupied"
         /\ \A c \in Arriving(old, new) : AimedAt(rows, c) \subseteq RevivedBy(rows, c)
  <1> DEFINE leaving == {c \in Leaving(old, new) : InstalledFrom(rows, c) # {}}
             outcomes == [c \in leaving |-> RemovalOutcome(old, new, c)]
             arriving == Arriving(old, new)
             content == {<<"removal_leaves_content", c>> : c \in {d \in leaving : outcomes[d] = "Occupied"}}
             Misnamed(c) == AimedAt(rows, c) \ RevivedBy(rows, c)
             Mismatch(c) == {<<"revival_name_mismatch", s>> : s \in Misnamed(c)}
  <1>1. A.findings = content \cup UNION {Mismatch(c) : c \in arriving}
    BY DEF Affected
  <1>2. content = {} => \A d \in leaving : outcomes[d] # "Occupied"
    OBVIOUS
  <1>3. \A c : Mismatch(c) = {} => Misnamed(c) = {}
    OBVIOUS
  <1>4. \A c : Misnamed(c) = {} => AimedAt(rows, c) \subseteq RevivedBy(rows, c)
    OBVIOUS
  <1>5. \A d \in leaving : outcomes[d] = RemovalOutcome(old, new, d)
    OBVIOUS
  <1> HIDE DEF content, Mismatch, Misnamed, arriving, outcomes
  <1>6. content = {} /\ \A c \in arriving : Mismatch(c) = {}
    BY <1>1
  <1> QED
    BY <1>2, <1>3, <1>4, <1>5, <1>6 DEF arriving

-----------------------------------------------------------------------------
(* What is on disk, and what a scan sees there *)

\* A tree and the untracked files beside it.
Beside(t, extra, c) == t[c] \cup {<<x, "own">> : x \in extra[c]}

\* Untracked files are neither a document nor the candidate itself.
LEMMA FilesBeside ==
  ASSUME NEW t, IsTree(t), NEW extra, extra \in [Names -> SUBSET {Extra, Local}], NEW c \in Names
  PROVE  /\ SuffixesOf(Beside(t, extra, c)) = SuffixesOf(t[c]) \cup extra[c]
         /\ DocumentOf(Beside(t, extra, c)) = DocumentOf(t[c])
         /\ DocumentOf(t[c]) = {} <=> ~HoldsSkill(t, c)
         /\ HoldsSkill(t, c) => IsDirectory(Beside(t, extra, c))
         /\ Beside(t, extra, c) = {} <=> t[c] = {} /\ extra[c] = {}
  <1> DEFINE own == {<<x, "own">> : x \in extra[c]}
             files == Beside(t, extra, c)
  <1>1. files = t[c] \cup own
    BY DEF Beside
  <1>2. /\ \A g \in own : g[1] \in extra[c]
        /\ \A x \in extra[c] : <<x, "own">> \in own /\ <<x, "own">>[1] = x
    OBVIOUS
  <1>3. extra[c] \subseteq {Extra, Local}
    OBVIOUS
  <1>4. \A x \in extra[c] : x # Document /\ x # Root
    BY <1>3 DEF Extra, Local, Document, Root
  <1>5. own = {} <=> extra[c] = {}
    OBVIOUS
  <1> HIDE DEF own, files
  <1>6. SuffixesOf(files) = SuffixesOf(t[c]) \cup extra[c]
    BY <1>1, <1>2 DEF SuffixesOf
  <1>7. {g \in files : g[1] = Document} = {g \in t[c] : g[1] = Document}
    BY <1>1, <1>2, <1>4
  <1>8. DocumentOf(files) = DocumentOf(t[c])
    BY <1>7 DEF DocumentOf
  <1>9. DocumentOf(t[c]) = {} <=> ~HoldsSkill(t, c)
    BY DEF DocumentOf, HoldsSkill, SuffixesOf
  <1>10. ASSUME HoldsSkill(t, c) PROVE IsDirectory(files)
    <2>1. PICK f \in t[c] : f[1] = Document
      BY <1>10 DEF HoldsSkill, SuffixesOf
    <2>2. Root \notin SuffixesOf(t[c])
      <3>1. ASSUME Root \in SuffixesOf(t[c]) PROVE FALSE
        <4>1. PICK g \in t[c] : g[1] = Root
          BY <3>1 DEF SuffixesOf
        <4>2. f = g
          BY <3>1 DEF IsTree
        <4> QED
          BY <2>1, <4>1, <4>2 DEF Root, Document
      <3> QED
        BY <3>1
    <2>3. Root \notin SuffixesOf(files)
      BY <1>4, <1>6, <2>2
    <2> QED
      BY <1>1, <2>1, <2>3 DEF IsDirectory
  <1>11. files = {} <=> t[c] = {} /\ extra[c] = {}
    BY <1>1, <1>5
  <1> QED
    BY <1>6, <1>8, <1>9, <1>10, <1>11 DEF files

\* The fields of a broken row.
LEMMA BrokenFields ==
  ASSUME NEW object, NEW resolution, NEW findings
  PROVE  /\ Broken(object, resolution, findings).object = object
         /\ Broken(object, resolution, findings).resolution = resolution
         /\ Broken(object, resolution, findings).findings = findings
         /\ Broken(object, resolution, findings).health = 3
  BY DEF Broken, Observation, Health

\* The cases of a view.
LEMMA Views ==
  ASSUME NEW row, NEW target, target # Absent, NEW c \in Names, NEW files,
         NEW verdict, verdict = DocumentVerdict(row, DocumentOf(files)),
         NEW seen, seen = View(row, target, c, files)
  PROVE  /\ ~IsDirectory(files) => seen.object = target /\ seen.resolution = Absent /\ seen.health = 3
         /\ IsDirectory(files) /\ verdict # {} => seen = Broken(target, c, verdict)
         /\ IsDirectory(files) /\ verdict = {} => seen = Observation(target, c, {}, 1)
  <1> DEFINE dangles == {<<"install.dangling_symlink", "">>}
             resists == {<<"skill.unreadable", "">>}
             lacks == {<<"skill.missing_skill_md", "">>}
             dangling == Broken(target, Absent, dangles)
             unreadable == Broken(target, Absent, resists)
             missing == Broken(target, Absent, lacks)
             file == {<<Root, "file">>}
  <1>1. c # Elsewhere
    BY NamesAssumption
  <1>2. seen = IF files = {} THEN dangling
               ELSE IF files = file THEN unreadable
               ELSE IF ~IsDirectory(files) THEN missing
               ELSE IF verdict # {} THEN Broken(target, c, verdict)
               ELSE Observation(target, c, {}, 1)
    BY <1>1 DEF View, Health
  <1>3. files = file => ~IsDirectory(files)
    BY DEF IsDirectory, SuffixesOf
  <1>4. files = {} => ~IsDirectory(files)
    BY DEF IsDirectory
  <1> HIDE DEF dangles, resists, lacks, file
  <1>5. \A r \in {dangling, unreadable, missing} : r.object = target /\ r.resolution = Absent /\ r.health = 3
    BY BrokenFields
  <1> HIDE DEF dangling, unreadable, missing
  <1>6. ~IsDirectory(files) => seen \in {dangling, unreadable, missing}
    BY <1>2
  <1>7. IsDirectory(files) /\ verdict # {} => seen = Broken(target, c, verdict)
    BY <1>2, <1>3, <1>4
  <1>8. IsDirectory(files) /\ verdict = {} => seen = Observation(target, c, {}, 1)
    BY <1>2, <1>3, <1>4
  <1> QED
    BY <1>5, <1>6, <1>7, <1>8

\* A link to nothing dangles, and one to a file cannot be read.
LEMMA ViewsOfNone ==
  ASSUME NEW row, NEW target, target # Absent, NEW c \in Names
  PROVE  /\ View(row, target, c, {}) = Broken(target, Absent, {<<"install.dangling_symlink", "">>})
         /\ View(row, target, c, {<<Root, "file">>}) = Broken(target, Absent, {<<"skill.unreadable", "">>})
  <1>1. c # Elsewhere
    BY NamesAssumption
  <1>2. {<<Root, "file">>} # {}
    OBVIOUS
  <1> QED
    BY <1>1, <1>2 DEF View

\* A link to the skill elsewhere is unmanaged.
LEMMA ViewsElsewhere ==
  ASSUME NEW row, NEW target, target # Absent, NEW files
  PROVE  /\ View(row, target, Elsewhere, files).object = target
         /\ View(row, target, Elsewhere, files).resolution = Absent
         /\ View(row, target, Elsewhere, files).health = 2
  BY DEF View, Observation, Health

\* What a slot's row, as it is seen, has to do with a candidate.
LEMMA SlotAt ==
  ASSUME Typed, \A t \in Slots : before.rows[t] = Sight(t), NEW s \in Slots, NEW d \in Names
  PROVE  /\ s \in InstalledFrom(before.rows, d) <=>
              links[s] # Absent /\ Follow(links[s]) = d /\ IsDirectory(OnDisk(d))
         /\ s \in AimedAt(before.rows, d) <=>
              links[s] # Absent /\ Follow(links[s]) = d /\ before.rows[s].health = 3
  <1> DEFINE c == Follow(links[s])
             files == OnDisk(c)
             verdict == DocumentVerdict(RowOf[s], DocumentOf(files))
             b == before.rows[s]
  <1>1. b = View(RowOf[s], links[s], c, files)
    BY DEF Sight
  <1>2. d # Absent /\ d # Elsewhere
    BY NamesAssumption
  <1>3. s \in InstalledFrom(before.rows, d) <=> b.resolution = d
    BY DEF InstalledFrom
  <1>4. s \in AimedAt(before.rows, d) <=> b.object # Absent /\ Follow(b.object) = d /\ b.health = 3
    BY DEF AimedAt, Health
  <1>5. CASE links[s] = Absent
    <2>1. b = NotInstalled
      BY <1>1, <1>5 DEF View
    <2>2. b.object = Absent /\ b.resolution = Absent
      BY <2>1 DEF NotInstalled, Observation
    <2> QED
      BY <1>2, <1>3, <1>4, <1>5, <2>2
  <1>6. CASE links[s] # Absent /\ c = Elsewhere
    <2>1. b.object = links[s] /\ b.resolution = Absent /\ b.health = 2
      BY <1>1, <1>6, ViewsElsewhere
    <2> QED
      BY <1>2, <1>3, <1>4, <1>6, <2>1
  <1>7. CASE links[s] # Absent /\ c # Elsewhere
    <2>1. c \in Names
      BY <1>7, FollowsTo
    <2>4. /\ ~IsDirectory(files) => b.object = links[s] /\ b.resolution = Absent
          /\ IsDirectory(files) /\ verdict # {} => b = Broken(links[s], c, verdict)
          /\ IsDirectory(files) /\ verdict = {} => b = Observation(links[s], c, {}, 1)
      BY <1>1, <1>7, <2>1, Views
    <2> HIDE DEF b, c, files, verdict
    <2>2. ~IsDirectory(files) => b.object = links[s] /\ b.resolution = Absent
      BY <2>4
    <2>3. IsDirectory(files) => b.object = links[s] /\ b.resolution = c
      <3>1. IsDirectory(files) => b = Broken(links[s], c, verdict) \/ b = Observation(links[s], c, {}, 1)
        BY <2>4
      <3> QED
        BY <3>1 DEF Broken, Observation
    <2>6. c = d => (b.resolution = d <=> IsDirectory(OnDisk(d)))
      BY <1>2, <2>2, <2>3 DEF files
    <2>7. c # d => b.resolution # d
      BY <1>2, <2>2, <2>3
    <2>8. b.object = links[s]
      BY <2>2, <2>3
    <2>9. /\ s \in InstalledFrom(before.rows, d) <=> b.resolution = d
          /\ s \in AimedAt(before.rows, d) <=> b.object # Absent /\ Follow(b.object) = d /\ b.health = 3
      BY <1>3, <1>4 DEF b
    <2> QED
      BY <1>7, <2>6, <2>7, <2>8, <2>9 DEF b, c
  <1> QED
    BY <1>5, <1>6, <1>7

-----------------------------------------------------------------------------
(* What a statement says of one slot *)

\* The parts of a statement are candidates.
LEMMA Candidates ==
  ASSUME NEW old, NEW new
  PROVE  Arriving(old, new) \cup Retained(old, new) \cup Leaving(old, new) \subseteq Names
  BY RenameSides DEF Arriving, Retained, Leaving, Touched

\* A slot is not invalidated by a document that is sound under its name.
LEMMA NoneInvalidated ==
  ASSUME NEW new, NEW s, NEW c
  PROVE  Invalidated(new, {s}, c) = {} <=> DocumentVerdict(RowOf[s], DocumentOf(new[c])) = {}
  <1> DEFINE V == DocumentVerdict(RowOf[s], DocumentOf(new[c]))
             I == Invalidated(new, {s}, c)
  <1>1. ASSUME NEW i \in I PROVE V # {}
    BY InvalidatedWhen
  <1>2. ASSUME NEW f \in V PROVE I # {}
    BY InvalidatedWhen
  <1> HIDE DEF V, I
  <1> QED
    BY <1>1, <1>2 DEF V, I

\* The confirmed statement was made of what is there.
Current ==
  /\ plan.affected = Affected(Tree(plan.from), Tree(plan.to), before)
  /\ \A t \in Slots : before.rows[t] = Sight(t)

\* It says of a slot what it says of the candidate the slot's link leads to, and no more.
LEMMA SaidOfSlot ==
  ASSUME Typed, Current, NEW s \in Slots, NEW old, old = Tree(plan.from), NEW new, new = Tree(plan.to),
         NEW c, c = Follow(links[s]), NEW V, V = DocumentVerdict(RowOf[s], DocumentOf(new[c]))
  PROVE  /\ \A i \in InvalidationOf(s) : i[3] = c /\ i[2] \in V /\ links[s] # Absent
                                         /\ c \in Arriving(old, new) \cup Retained(old, new)
         /\ \A r \in RevivalOf(s) : r[2] = c /\ links[s] # Absent /\ c \in Arriving(old, new)
         /\ s \in plan.affected.dangling => /\ c \in Leaving(old, new)
                                            /\ RemovalOutcome(old, new, c) # "ReplacedByFile"
         /\ s \in plan.affected.nonLoadable => c \in Leaving(old, new)
  <1> DEFINE A == plan.affected
             rows == before.rows
  <1>0. A = Affected(old, new, before)
    BY DEF Current
  <1>1. Arriving(old, new) \cup Retained(old, new) \cup Leaving(old, new) \subseteq Names
    BY Candidates
  <1>2. \A d \in Names, t \in Slots : t \in InstalledFrom(rows, d) => links[t] # Absent /\ Follow(links[t]) = d
    BY SlotAt DEF Current
  <1>3. \A d \in Names, t \in Slots : t \in RevivedBy(rows, d) => links[t] # Absent /\ Follow(links[t]) = d
    BY SlotAt DEF Current, RevivedBy
  <1>4. \A d : InstalledFrom(rows, d) \subseteq Slots /\ RevivedBy(rows, d) \subseteq Slots
    BY DEF InstalledFrom, RevivedBy, AimedAt
  <1>5. ASSUME NEW i \in InvalidationOf(s)
        PROVE  i[3] = c /\ i[2] \in V /\ links[s] # Absent /\ c \in Arriving(old, new) \cup Retained(old, new)
    <2>1. i \in A.invalidation /\ i[1] = s
      BY DEF InvalidationOf
    <2>2. \/ \E d \in Arriving(old, new) : i \in Invalidated(new, RevivedBy(rows, d), d)
          \/ \E d \in Retained(old, new) : i \in Invalidated(new, InstalledFrom(rows, d), d)
      BY <1>0, <2>1, InvalidationParts
    <2>3. PICK d \in Arriving(old, new) \cup Retained(old, new) :
            \E x \in {RevivedBy(rows, d), InstalledFrom(rows, d)} : i \in Invalidated(new, x, d)
      BY <2>2
    <2>8. PICK slots \in {RevivedBy(rows, d), InstalledFrom(rows, d)} : i \in Invalidated(new, slots, d)
      BY <2>3
    <2>4. PICK t \in slots : \E f \in DocumentVerdict(RowOf[t], DocumentOf(new[d])) : i = <<t, f, d>>
      BY <2>8, InvalidatedWhen
    <2>5. PICK f \in DocumentVerdict(RowOf[t], DocumentOf(new[d])) : i = <<t, f, d>>
      BY <2>4
    <2>6. t = s /\ i[2] = f /\ i[3] = d
      BY <2>1, <2>5
    <2>7. d \in Names /\ links[s] # Absent /\ Follow(links[s]) = d
      BY <1>1, <1>2, <1>3, <1>4, <2>8, <2>4, <2>6
    <2> QED
      BY <2>3, <2>5, <2>6, <2>7
  <1>6. ASSUME NEW r \in RevivalOf(s)
        PROVE  r[2] = c /\ links[s] # Absent /\ c \in Arriving(old, new)
    <2>1. r \in A.revival /\ r[1] = s
      BY DEF RevivalOf
    <2>2. r[2] \in Arriving(old, new) /\ r[1] \in RevivedBy(rows, r[2])
      BY <1>0, <2>1, RevivalParts
    <2> QED
      BY <1>1, <1>3, <2>1, <2>2
  <1>7. ASSUME s \in A.dangling
        PROVE  c \in Leaving(old, new) /\ RemovalOutcome(old, new, c) # "ReplacedByFile"
    <2>1. PICK d \in Leaving(old, new) : s \in InstalledFrom(rows, d) /\ RemovalOutcome(old, new, d) # "ReplacedByFile"
      BY <1>0, <1>7, StatementParts
    <2> QED
      BY <1>1, <1>2, <2>1
  <1>8. ASSUME s \in A.nonLoadable PROVE c \in Leaving(old, new)
    <2>1. PICK d \in Leaving(old, new) : s \in InstalledFrom(rows, d)
      BY <1>0, <1>8, StatementParts
    <2> QED
      BY <1>1, <1>2, <2>1
  <1> QED
    BY <1>5, <1>6, <1>7, <1>8

\* And it says everything of a slot whose link leads to a candidate in its part.
LEMMA SlotIsSaid ==
  ASSUME Typed, Current, plan # Nothing, NEW s \in Slots,
         NEW old, old = Tree(plan.from), NEW new, new = Tree(plan.to), NEW c \in Names, c = Follow(links[s]),
         links[s] # Absent, NEW V, V = DocumentVerdict(RowOf[s], DocumentOf(new[c]))
  PROVE  /\ IsDirectory(OnDisk(c)) =>
              /\ c \in Retained(old, new) /\ V = {} => s \in plan.affected.updated
              /\ c \in Retained(old, new) => \A f \in V : <<s, f, c>> \in InvalidationOf(s)
              /\ c \in Leaving(old, new) =>
                   /\ RemovalOutcome(old, new, c) # "Occupied"
                   /\ IF RemovalOutcome(old, new, c) = "ReplacedByFile"
                      THEN s \in plan.affected.nonLoadable ELSE s \in plan.affected.dangling
         /\ before.rows[s].health = 3 /\ c \in Arriving(old, new) =>
              /\ V = {} => <<s, c>> \in RevivalOf(s)
              /\ \A f \in V : <<s, f, c>> \in InvalidationOf(s)
  <1> DEFINE A == plan.affected
             rows == before.rows
  <1>0. A = Affected(old, new, before) /\ A.findings = {}
    BY DEF Current, Typed
  <1>1. ASSUME IsDirectory(OnDisk(c)) PROVE s \in InstalledFrom(rows, c)
    BY <1>1, SlotAt DEF Current
  <1>2. ASSUME before.rows[s].health = 3, c \in Arriving(old, new) PROVE s \in RevivedBy(rows, c)
    <2>1. s \in AimedAt(rows, c)
      BY <1>2, SlotAt DEF Current
    <2> QED
      BY <1>0, <1>2, <2>1, FindingsParts
  <1>3. ASSUME IsDirectory(OnDisk(c)), c \in Retained(old, new)
        PROVE  (V = {} => s \in A.updated) /\ \A f \in V : <<s, f, c>> \in InvalidationOf(s)
    <2>1. V = {} => s \in A.updated
      <3>1. \A d \in Retained(old, new) : \A t \in InstalledFrom(rows, d) :
              Invalidated(new, {t}, d) = {} => t \in A.updated
        BY <1>0, StatementParts
      <3>2. V = {} => Invalidated(new, {s}, c) = {}
        BY NoneInvalidated
      <3>3. s \in InstalledFrom(rows, c)
        BY <1>1, <1>3
      <3> QED
        BY <1>3, <3>1, <3>2, <3>3
    <2>2. ASSUME NEW f \in V PROVE <<s, f, c>> \in InvalidationOf(s)
      <3>1. <<s, f, c>> \in Invalidated(new, InstalledFrom(rows, c), c)
        BY <1>1, <1>3, InvalidatedWhen
      <3>2. <<s, f, c>> \in A.invalidation
        BY <1>0, <1>3, <3>1, InvalidationParts
      <3> QED
        BY <3>2 DEF InvalidationOf
    <2> QED
      BY <2>1, <2>2
  <1>4. ASSUME IsDirectory(OnDisk(c)), c \in Leaving(old, new)
        PROVE  /\ RemovalOutcome(old, new, c) # "Occupied"
               /\ IF RemovalOutcome(old, new, c) = "ReplacedByFile" THEN s \in A.nonLoadable ELSE s \in A.dangling
    <2>1. s \in InstalledFrom(rows, c)
      BY <1>1, <1>4
    <2>2. RemovalOutcome(old, new, c) # "Occupied"
      BY <1>0, <1>4, <2>1, FindingsParts
    <2>3. IF RemovalOutcome(old, new, c) = "ReplacedByFile" THEN s \in A.nonLoadable ELSE s \in A.dangling
      BY <1>0, <1>4, <2>1, StatementParts
    <2> QED
      BY <2>2, <2>3
  <1>5. ASSUME before.rows[s].health = 3, c \in Arriving(old, new)
        PROVE  (V = {} => <<s, c>> \in RevivalOf(s)) /\ \A f \in V : <<s, f, c>> \in InvalidationOf(s)
    <2>0. s \in RevivedBy(rows, c)
      BY <1>2, <1>5
    <2>1. ASSUME V = {} PROVE <<s, c>> \in RevivalOf(s)
      <3>1. Invalidated(new, {s}, c) = {}
        BY <2>1, NoneInvalidated
      <3>2. <<s, c>> \in A.revival
        BY <1>0, <1>5, <2>0, <3>1, RevivalParts
      <3> QED
        BY <3>2 DEF RevivalOf
    <2>2. ASSUME NEW f \in V PROVE <<s, f, c>> \in InvalidationOf(s)
      <3>1. <<s, f, c>> \in Invalidated(new, RevivedBy(rows, c), c)
        BY <2>0, InvalidatedWhen
      <3>2. <<s, f, c>> \in A.invalidation
        BY <1>0, <1>5, <3>1, InvalidationParts
      <3> QED
        BY <3>2 DEF InvalidationOf
    <2> QED
      BY <2>1, <2>2
  <1> QED
    BY <1>3, <1>4, <1>5

-----------------------------------------------------------------------------
(* What verification makes of a row *)

\* A row the plan is silent about, and that is the same, is as it should be.
LEMMA WordOfSame ==
  ASSUME NEW s, NEW b, b.health \in Nat, InvalidationOf(s) = {}, RevivalOf(s) = {},
         s \notin plan.affected.dangling \cup plan.affected.nonLoadable
  PROVE  AsWord(s, b, b)
  BY DEF AsWord, AsDisclosed, SameLink

\* So is a sound row, where the plan says that it is revived or that it stays where it was.
LEMMA WordOfSound ==
  ASSUME NEW s, NEW b, NEW a, InvalidationOf(s) = {},
         s \notin plan.affected.dangling \cup plan.affected.nonLoadable,
         a.object = b.object, b.object # Absent, a.findings = {}, a.health <= b.health,
         \A r \in RevivalOf(s) : r[2] = a.resolution,
         RevivalOf(s) = {} => a.resolution = b.resolution
  PROVE  AsWord(s, b, a)
  BY DEF AsWord, AsDisclosed, SameLink

\* So is a row broken by the findings that the plan names.
LEMMA WordOfInvalid ==
  ASSUME NEW s, NEW b, NEW a, NEW c, NEW V, V # {},
         s \notin plan.affected.dangling,
         a.object = b.object, b.object # Absent, a.findings = V, a.health = 3, a.resolution = c,
         \A f \in V : <<s, f, c>> \in InvalidationOf(s),
         \A i \in InvalidationOf(s) : i[3] = c /\ i[2] \in V
  PROVE  AsWord(s, b, a) /\ StatedOf(s)
  <1>1. InvalidationOf(s) # {}
    OBVIOUS
  <1>2. AsDisclosed(s, b, a)
    BY <1>1 DEF AsDisclosed, SameLink, Health
  <1>3. ASSUME NEW f \in V PROVE Named(s, f)
    <2>1. <<s, f, c>> \in InvalidationOf(s) /\ <<s, f, c>>[2] = f
      OBVIOUS
    <2> QED
      BY <2>1 DEF Named
  <1> QED
    BY <1>1, <1>2, <1>3 DEF AsWord, StatedOf

\* So is a link that dangles by the plan.
LEMMA WordOfDangling ==
  ASSUME NEW s, NEW b, NEW target, b.object = target, target # Absent, b.resolution # Absent,
         s \in plan.affected.dangling
  PROVE  AsWord(s, b, Broken(target, Absent, {<<"install.dangling_symlink", "">>}))
  <1> DEFINE f == <<"install.dangling_symlink", "">>
             a == Broken(target, Absent, {f})
  <1>1. f[1] = "install.dangling_symlink"
    OBVIOUS
  <1> HIDE DEF f
  <1>2. a.object = target /\ a.findings = {f}
    BY BrokenFields
  <1>3. AsDisclosed(s, b, a)
    BY <1>1, <1>2 DEF AsDisclosed, SameLink, Dangles
  <1>4. \A g \in a.findings : Named(s, g)
    BY <1>1, <1>2 DEF Named
  <1>5. AsWord(s, b, a)
    BY <1>2, <1>3, <1>4 DEF AsWord
  <1> QED
    BY <1>5 DEF f

\* So is a link that leads to a file by the plan.
LEMMA WordOfNonLoadable ==
  ASSUME NEW s, NEW b, NEW target, b.object = target, target # Absent, b.resolution # Absent,
         InvalidationOf(s) = {}, s \in plan.affected.nonLoadable, s \notin plan.affected.dangling
  PROVE  AsWord(s, b, Broken(target, Absent, {<<"skill.unreadable", "">>}))
  <1> DEFINE f == <<"skill.unreadable", "">>
             a == Broken(target, Absent, {f})
  <1>1. f[1] = "skill.unreadable"
    OBVIOUS
  <1> HIDE DEF f
  <1>2. a.object = target /\ a.findings = {f} /\ a.health = 3
    BY BrokenFields
  <1>3. ~Dangles(a)
    BY <1>1, <1>2 DEF Dangles
  <1>4. AsDisclosed(s, b, a)
    BY <1>2, <1>3 DEF AsDisclosed, SameLink, Health
  <1>5. \A g \in a.findings : Named(s, g)
    BY <1>1, <1>2 DEF Named
  <1>6. AsWord(s, b, a)
    BY <1>2, <1>4, <1>5 DEF AsWord
  <1> QED
    BY <1>6 DEF f

-----------------------------------------------------------------------------
(* What the merge makes of a slot *)

\* Whatever a link leads to, its row names it.
LEMMA ObjectSeen ==
  ASSUME Typed, NEW s \in Slots, links[s] # Absent, NEW files, NEW a,
         a = View(RowOf[s], links[s], Follow(links[s]), files)
  PROVE  a.object = links[s] /\ a.health \in 1..3
  <1> DEFINE c == Follow(links[s])
             verdict == DocumentVerdict(RowOf[s], DocumentOf(files))
  <1>1. CASE c = Elsewhere
    BY <1>1, ViewsElsewhere
  <1>2. CASE c # Elsewhere
    <2>1. c \in Names
      BY <1>2, FollowsTo
    <2>2. /\ ~IsDirectory(files) => a.object = links[s] /\ a.resolution = Absent /\ a.health = 3
          /\ IsDirectory(files) /\ verdict # {} => a = Broken(links[s], c, verdict)
          /\ IsDirectory(files) /\ verdict = {} => a = Observation(links[s], c, {}, 1)
      BY <2>1, Views
    <2>3. Observation(links[s], c, {}, 1).object = links[s] /\ Observation(links[s], c, {}, 1).health = 1
      BY DEF Observation
    <2> HIDE DEF c, verdict
    <2> QED
      BY <2>2, <2>3, BrokenFields
  <1> QED
    BY <1>1, <1>2

\* Nothing is said of a slot whose link leads where the update touches nothing.
LEMMA Unsaid ==
  ASSUME Typed, Current, NEW s \in Slots, NEW old, old = Tree(plan.from), NEW new, new = Tree(plan.to),
         NEW c, c = Follow(links[s]), c \notin Names \/ old[c] = new[c]
  PROVE  /\ InvalidationOf(s) = {} /\ RevivalOf(s) = {}
         /\ s \notin plan.affected.dangling \cup plan.affected.nonLoadable
  <1>1. c \notin Arriving(old, new) \cup Retained(old, new) \cup Leaving(old, new)
    BY Candidates, UntouchedUnsaid
  <1> QED
    BY <1>1, SaidOfSlot

\* Where no document is there is a finding.
LEMMA NoDocument ==
  ASSUME NEW row PROVE DocumentVerdict(row, {}) # {}
  BY DEF DocumentVerdict

\* What leads where the update leaves a skill is loaded from there, or broken as it was said.
LEMMA SkillForeseen ==
  ASSUME Typed, Current, plan # Nothing, named, head = plan.from, NEW s \in Slots, links[s] # Absent,
         NEW old, old = Tree(plan.from), NEW new, new = Tree(plan.to),
         NEW c \in Names, c = Follow(links[s]), old[c] # new[c], HoldsSkill(new, c),
         NEW a, a = View(RowOf[s], links[s], c, Beside(new, untracked, c))
  PROVE  AsWord(s, before.rows[s], a) /\ StatedOf(s)
  <1> DEFINE b == before.rows[s]
             files == OnDisk(c)
             came == Beside(new, untracked, c)
             V == DocumentVerdict(RowOf[s], DocumentOf(new[c]))
             W == DocumentVerdict(RowOf[s], DocumentOf(files))
  <1>1. b = View(RowOf[s], links[s], c, files)
    BY DEF Current, Sight
  <1>2. IsTree(old) /\ IsTree(new) /\ untracked \in [Names -> SUBSET {Extra, Local}]
    BY DEF Typed, UpdateTypes, Tree
  <1>3. files = Beside(old, untracked, c)
    BY DEF OnDisk, Beside
  <1>4. IsDirectory(came) /\ DocumentOf(came) = DocumentOf(new[c])
    BY <1>2, FilesBeside
  <1>5. /\ V # {} => a = Broken(links[s], c, V)
        /\ V = {} => a = Observation(links[s], c, {}, 1)
    BY <1>4, Views
  <1>6. b.object = links[s] /\ b.health \in 1..3
    BY <1>1, ObjectSeen
  <1>7. /\ c \notin Leaving(old, new)
        /\ HoldsSkill(old, c) => c \in Retained(old, new)
        /\ ~HoldsSkill(old, c) => c \in Arriving(old, new)
    BY SkillStaysOrArrives
  <1>8. HoldsSkill(old, c) => IsDirectory(files)
    BY <1>2, <1>3, FilesBeside
  <1>9. ~HoldsSkill(old, c) => b.health = 3
    <2>1. ASSUME ~HoldsSkill(old, c) PROVE W # {}
      <3>1. DocumentOf(files) = {}
        BY <1>2, <1>3, <2>1, FilesBeside
      <3> QED
        BY <3>1, NoDocument
    <2>2. /\ ~IsDirectory(files) => b.health = 3
          /\ IsDirectory(files) /\ W # {} => b = Broken(links[s], c, W)
      <3>1. W = DocumentVerdict(RowOf[s], DocumentOf(files))
        OBVIOUS
      <3> HIDE DEF W, files, b
      <3> QED
        BY <1>1, <3>1, Views
    <2> HIDE DEF W, files
    <2> QED
      BY <2>1, <2>2, BrokenFields
  <1>10. s \notin plan.affected.dangling \cup plan.affected.nonLoadable
    BY <1>7, SaidOfSlot
  <1>11. \A i \in InvalidationOf(s) : i[3] = c /\ i[2] \in V
    BY SaidOfSlot
  <1>12. \A r \in RevivalOf(s) : r[2] = c
    BY SaidOfSlot
  <1>13. /\ HoldsSkill(old, c) => (V = {} => s \in plan.affected.updated)
         /\ \A f \in V : <<s, f, c>> \in InvalidationOf(s)
         /\ ~HoldsSkill(old, c) => (V = {} => <<s, c>> \in RevivalOf(s))
    BY <1>7, <1>8, <1>9, SlotIsSaid
  <1>14. CASE V # {}
    <2>1. a.object = b.object /\ b.object # Absent /\ a.findings = V /\ a.health = 3 /\ a.resolution = c
      BY <1>5, <1>6, <1>14, BrokenFields
    <2> HIDE DEF V, b
    <2> QED
      BY <1>10, <1>11, <1>13, <1>14, <2>1, WordOfInvalid DEF b
  <1>15. CASE V = {}
    <2>1. a.object = links[s] /\ a.findings = {} /\ a.health = 1 /\ a.resolution = c
      BY <1>5, <1>15 DEF Observation
    <2>2. InvalidationOf(s) = {}
      BY <1>11, <1>15
    <2>3. RevivalOf(s) = {} => b.resolution = c
      <3>1. RevivalOf(s) = {} => HoldsSkill(old, c)
        BY <1>13, <1>15
      <3>2. HoldsSkill(old, c) => s \in InstalledFrom(before.rows, c)
        BY <1>8, SlotAt DEF Current
      <3> QED
        BY <3>1, <3>2 DEF InstalledFrom
    <2>4. StatedOf(s)
      BY <1>13, <1>15 DEF StatedOf
    <2>5. a.health <= b.health
      BY <1>6, <2>1
    <2> HIDE DEF b
    <2>6. AsWord(s, b, a)
      BY <1>6, <1>10, <1>12, <2>1, <2>2, <2>3, <2>5, WordOfSound
    <2> QED
      BY <2>4, <2>6 DEF b
  <1> QED
    BY <1>14, <1>15

\* A directory that a removal with no finding empties holds nothing else.
LEMMA RemovalEmpties ==
  ASSUME Typed, named, head = plan.from, NEW old, old = Tree(plan.from), NEW new, NEW c \in Names,
         RemovalOutcome(old, new, c) # "Occupied"
  PROVE  /\ untracked[c] = {}
         /\ IF RemovalOutcome(old, new, c) = "ReplacedByFile" THEN new[c] = {<<Root, "file">>} ELSE new[c] = {}
  <1> DEFINE deleted == DeletedPaths(old, new)
  <1>1. /\ new[c] = {} \/ new[c] = {<<Root, "file">>}
        /\ ~Occupied(deleted, c)
        /\ RemovalOutcome(old, new, c) = IF new[c] # {} THEN "ReplacedByFile" ELSE "Vacated"
    BY DEF RemovalOutcome
  <1>2. \A x \in Listed(c) : <<c, x>> \in deleted
    BY <1>1 DEF Occupied
  <1>3. \A x : <<c, x>> \in deleted => x \in SuffixesOf(old[c])
    <2> SUFFICES ASSUME NEW x, <<c, x>> \in deleted PROVE x \in SuffixesOf(old[c])
      OBVIOUS
    <2>1. PICK d \in Names : <<c, x>> \in {<<d, y>> : y \in DeletedFrom(old, new, d)}
      BY DEF DeletedPaths
    <2>2. PICK y \in DeletedFrom(old, new, d) : <<c, x>> = <<d, y>>
      BY <2>1
    <2>3. c = d /\ x = y
      BY <2>2
    <2> QED
      BY <2>2, <2>3 DEF DeletedFrom
  <1>4. OnDisk(c) = Beside(old, untracked, c)
    BY DEF OnDisk, Beside
  <1>5. IsTree(old) /\ untracked \in [Names -> SUBSET {Extra, Local}] /\ untracked[c] \cap SuffixesOf(old[c]) = {}
    BY DEF Typed, UpdateTypes, Tree
  <1>6. untracked[c] \subseteq Listed(c)
    BY <1>4, <1>5, FilesBeside DEF Listed
  <1>7. untracked[c] = {}
    BY <1>2, <1>3, <1>5, <1>6
  <1> QED
    BY <1>1, <1>7

\* What leads where the update leaves no skill ends broken, as it was said if it led to a
\* candidate before.
LEMMA RestForeseen ==
  ASSUME Typed, Current, plan # Nothing, named, head = plan.from, NEW s \in Slots, links[s] # Absent,
         NEW old, old = Tree(plan.from), NEW new, new = Tree(plan.to),
         ~UntrackedCollision(old, new, untracked),
         NEW c \in Names, c = Follow(links[s]), old[c] # new[c], ~HoldsSkill(new, c),
         NEW a, a = View(RowOf[s], links[s], c, Beside(new, untracked, c))
  PROVE  a.health = 3 /\ (AimIsStated(s) => AsWord(s, before.rows[s], a))
  <1> DEFINE b == before.rows[s]
             files == OnDisk(c)
             came == Beside(new, untracked, c)
             V == DocumentVerdict(RowOf[s], DocumentOf(new[c]))
             W == DocumentVerdict(RowOf[s], DocumentOf(files))
  <1>1. b = View(RowOf[s], links[s], c, files)
    BY DEF Current, Sight
  <1>2. IsTree(old) /\ IsTree(new) /\ untracked \in [Names -> SUBSET {Extra, Local}]
    BY DEF Typed, UpdateTypes, Tree
  <1>3. files = Beside(old, untracked, c)
    BY DEF OnDisk, Beside
  <1>4. DocumentOf(came) = DocumentOf(new[c])
    BY <1>2, FilesBeside
  <1>5. V # {}
    <2>1. DocumentOf(new[c]) = {}
      BY <1>2, FilesBeside
    <2> QED
      BY <2>1, NoDocument
  <1>6. /\ ~IsDirectory(came) => a.health = 3
        /\ IsDirectory(came) => a = Broken(links[s], c, V)
    <2>1. V = DocumentVerdict(RowOf[s], DocumentOf(came))
      BY <1>4
    <2> HIDE DEF V, came
    <2>2. a = View(RowOf[s], links[s], c, came)
      BY DEF came
    <2> QED
      BY <1>5, <2>1, <2>2, Views
  <1>7. a.health = 3
    <2> HIDE DEF V, came
    <2> QED
      BY <1>6, BrokenFields
  <1>8. b.object = links[s] /\ b.health \in 1..3
    BY <1>1, ObjectSeen
  <1>9. /\ c \notin Retained(old, new)
        /\ c \in Leaving(old, new) \/ c \in Arriving(old, new)
        /\ c \in Leaving(old, new) => c \notin Arriving(old, new)
        /\ c \in Arriving(old, new) => /\ ~HoldsSkill(old, c)
                                       /\ DeletedFrom(old, new, c) = {}
                                       /\ AddedTo(old, new, c) # {}
    BY OthersLeave
  <1>10. CASE ~IsDirectory(files)
    <2>1. b.health = 3 /\ b.resolution = Absent
      <3>1. W = DocumentVerdict(RowOf[s], DocumentOf(files))
        OBVIOUS
      <3> HIDE DEF W, files, b
      <3> QED
        BY <1>1, <1>10, <3>1, Views
    <2>2. ~AimIsStated(s)
      BY <1>8, <2>1 DEF AimIsStated, Health
    <2> QED
      BY <1>7, <2>2
  <1>11. CASE IsDirectory(files) /\ c \in Leaving(old, new)
    <2>1. /\ RemovalOutcome(old, new, c) # "Occupied"
          /\ IF RemovalOutcome(old, new, c) = "ReplacedByFile"
             THEN s \in plan.affected.nonLoadable ELSE s \in plan.affected.dangling
      BY <1>11, SlotIsSaid
    <2>2. /\ untracked[c] = {}
          /\ IF RemovalOutcome(old, new, c) = "ReplacedByFile" THEN new[c] = {<<Root, "file">>} ELSE new[c] = {}
      BY <2>1, RemovalEmpties
    <2>3. came = new[c]
      BY <2>2 DEF Beside
    <2>4. b.resolution # Absent
      <3>1. s \in InstalledFrom(before.rows, c)
        BY <1>11, SlotAt DEF Current
      <3> QED
        BY <3>1, NamesAssumption DEF InstalledFrom
    <2>5. CASE RemovalOutcome(old, new, c) = "ReplacedByFile"
      <3>1. a = Broken(links[s], Absent, {<<"skill.unreadable", "">>})
        <4> DEFINE file == {<<Root, "file">>}
        <4>1. came = file
          BY <2>2, <2>3, <2>5
        <4>2. View(RowOf[s], links[s], c, file) = Broken(links[s], Absent, {<<"skill.unreadable", "">>})
          BY ViewsOfNone
        <4> HIDE DEF file
        <4>3. a = View(RowOf[s], links[s], c, file)
          BY <4>1
        <4> QED
          BY <4>2, <4>3
      <3>2. InvalidationOf(s) = {} /\ s \notin plan.affected.dangling
        BY <1>9, <1>11, <2>5, SaidOfSlot
      <3> QED
        BY <1>7, <1>8, <2>1, <2>4, <2>5, <3>1, <3>2, WordOfNonLoadable
    <2>6. CASE RemovalOutcome(old, new, c) # "ReplacedByFile"
      <3>1. a = Broken(links[s], Absent, {<<"install.dangling_symlink", "">>})
        <4>1. came = {}
          BY <2>2, <2>3, <2>6
        <4>2. View(RowOf[s], links[s], c, {}) = Broken(links[s], Absent, {<<"install.dangling_symlink", "">>})
          BY ViewsOfNone
        <4>3. a = View(RowOf[s], links[s], c, {})
          BY <4>1
        <4> QED
          BY <4>2, <4>3
      <3> QED
        BY <1>7, <1>8, <2>1, <2>4, <2>6, <3>1, WordOfDangling
    <2> QED
      BY <2>5, <2>6
  <1>12. CASE IsDirectory(files) /\ c \notin Leaving(old, new)
    <2>1. c \in Arriving(old, new) /\ ~HoldsSkill(old, c)
      BY <1>9, <1>12
    <2>2. b.health = 3
      <3>1. DocumentOf(files) = {}
        BY <1>2, <1>3, <2>1, FilesBeside
      <3>2. W # {}
        BY <3>1, NoDocument
      <3>3. b = Broken(links[s], c, W)
        BY <1>1, <1>12, <3>2, Views
      <3> QED
        BY <3>3, BrokenFields
    <2>3. IsDirectory(came)
      <3>1. SuffixesOf(came) = SuffixesOf(new[c]) \cup untracked[c]
        BY <1>2, FilesBeside
      <3>2. SuffixesOf(files) = SuffixesOf(old[c]) \cup untracked[c]
        BY <1>2, <1>3, FilesBeside
      <3>3. SuffixesOf(old[c]) \subseteq SuffixesOf(new[c]) /\ SuffixesOf(new[c]) # SuffixesOf(old[c])
        BY <1>9, <2>1 DEF DeletedFrom, AddedTo
      <3>4. Root \notin SuffixesOf(old[c]) /\ Root \notin untracked[c]
        BY <1>12, <3>2 DEF IsDirectory
      <3>5. ASSUME Root \in SuffixesOf(new[c]) PROVE FALSE
        <4>1. \A x \in SuffixesOf(new[c]) : x = Root
          BY <1>2, <3>5 DEF IsTree, SuffixesOf
        <4>2. SuffixesOf(old[c]) = {}
          BY <3>3, <3>4, <4>1
        <4>3. files # {} /\ old[c] = {}
          BY <1>12, <4>2 DEF IsDirectory, SuffixesOf
        <4>4. untracked[c] # {}
          BY <1>2, <1>3, <4>3, FilesBeside
        <4>5. Root \in AddedTo(old, new, c)
          BY <3>4, <3>5 DEF AddedTo
        <4> QED
          BY <4>4, <4>5 DEF UntrackedCollision
      <3>6. came # {}
        BY <3>1, <3>3 DEF SuffixesOf
      <3> QED
        BY <3>1, <3>4, <3>5, <3>6 DEF IsDirectory
    <2>4. a.object = b.object /\ b.object # Absent /\ a.findings = V /\ a.resolution = c
      <3> HIDE DEF V, came, b
      <3> QED
        BY <1>6, <1>8, <2>3, BrokenFields
    <2>5. \A f \in V : <<s, f, c>> \in InvalidationOf(s)
      BY <2>1, <2>2, SlotIsSaid
    <2>6. \A i \in InvalidationOf(s) : i[3] = c /\ i[2] \in V
      BY SaidOfSlot
    <2>7. s \notin plan.affected.dangling
      BY <1>12, SaidOfSlot
    <2> HIDE DEF V, b
    <2>8. AsWord(s, b, a)
      BY <1>5, <1>7, <2>4, <2>5, <2>6, <2>7, WordOfInvalid
    <2> QED
      BY <1>7, <2>8 DEF b
  <1> QED
    BY <1>10, <1>11, <1>12

\* What the plan said comes true of every slot when the merge finds things as they were
\* when the plan was last checked.
LEMMA MergeForeseen ==
  ASSUME Typed, Current, plan # Nothing, named, head = plan.from,
         NEW old, old = Tree(plan.from), NEW new, new = Tree(plan.to),
         ~UntrackedCollision(old, new, untracked), NEW s \in Slots,
         NEW a, a = View(RowOf[s], links[s], Follow(links[s]), Beside(new, untracked, Follow(links[s])))
  PROVE  Foreseen(s, before.rows[s], a)
  <1> DEFINE b == before.rows[s]
             c == Follow(links[s])
             files == OnDisk(c)
             came == Beside(new, untracked, c)
  <1>1. b = View(RowOf[s], links[s], c, files)
    BY DEF Current, Sight
  <1>2. CASE links[s] = Absent
    <2>1. a = NotInstalled /\ b = NotInstalled
      BY <1>1, <1>2 DEF View
    <2>2. a.object = Absent /\ a.findings = {} /\ a.health = 0 /\ b.object = Absent /\ b.health = 0
      BY <2>1 DEF NotInstalled, Observation
    <2> QED
      BY <2>2 DEF Foreseen, AsWord
  <1>3. ASSUME links[s] # Absent, a = b, c \notin Names \/ old[c] = new[c]
        PROVE  Foreseen(s, before.rows[s], a)
    <2>1. /\ InvalidationOf(s) = {} /\ RevivalOf(s) = {}
          /\ s \notin plan.affected.dangling \cup plan.affected.nonLoadable
      BY <1>3, Unsaid
    <2>2. b.health \in 1..3
      BY <1>1, <1>3, ObjectSeen
    <2>3. b.health \in Nat /\ ~(b.health < b.health)
      BY <2>2
    <2> HIDE DEF b
    <2>4. AsWord(s, b, b)
      BY <2>1, <2>3, WordOfSame
    <2> QED
      BY <1>3, <2>3, <2>4 DEF Foreseen, b
  <1>4. CASE links[s] # Absent /\ c = Elsewhere
    <2>1. a = b
      BY <1>1, <1>4 DEF View
    <2>2. c \notin Names
      BY <1>4, NamesAssumption
    <2> QED
      BY <1>3, <1>4, <2>1, <2>2
  <1>5. CASE links[s] # Absent /\ c # Elsewhere
    <2>1. c \in Names
      BY <1>5, FollowsTo
    <2>2. CASE old[c] = new[c]
      <3>1. came = files
        BY <2>2 DEF Beside, OnDisk
      <3> QED
        BY <1>1, <1>3, <1>5, <2>2, <3>1
    <2>3. CASE old[c] # new[c] /\ HoldsSkill(new, c)
      BY <1>5, <2>1, <2>3, SkillForeseen DEF Foreseen
    <2>4. CASE old[c] # new[c] /\ ~HoldsSkill(new, c)
      <3>1. a.health = 3 /\ (AimIsStated(s) => AsWord(s, b, a))
        BY <1>5, <2>1, <2>4, RestForeseen
      <3>2. b.health \in 1..3
        BY <1>1, <1>5, ObjectSeen
      <3> QED
        BY <3>1, <3>2 DEF Foreseen
    <2> QED
      BY <2>2, <2>3, <2>4
  <1> QED
    BY <1>2, <1>4, <1>5

-----------------------------------------------------------------------------
(* What the run has written *)

\* What is read of the plan and of the two inventories depends on nothing else.
LEMMA ReportSame ==
  ASSUME UNCHANGED <<plan, before, after>>
  PROVE  InstallationReport' = InstallationReport
  BY DEF InstallationReport, AsDisclosed, SameLink, Dangles, InvalidationOf, RevivalOf, Named

\* So does what is foreseen, but for the trees and the user's own link.
LEMMA ForeseenSame ==
  ASSUME UNCHANGED <<base, tip, alias, plan, before>>, NEW s, NEW b, NEW a
  PROVE  Foreseen(s, b, a)' = Foreseen(s, b, a)
  BY DEF Foreseen, AimIsStated, AsWord, StatedOf, AsDisclosed, SameLink, Dangles, InvalidationOf, RevivalOf,
         Named, Follow, Tree, HoldsSkill, SuffixesOf

\* Nothing is written at first.
LEMMA InitWritten == UpdateInit => Written
  BY DEF UpdateInit, Written, Ahead, Behindhand, Counts

\* Nothing is written before the merge.
LEMMA WrittenBefore ==
  ASSUME Typed, Written, stage \in Ahead \cup {"load"}, stage' \in Ahead \cup {"closed"},
         UNCHANGED <<write, report, found>>,
         stage' \in {"recheck", "guard", "merge"} => ShapedRows(before')
  PROVE  Written'
  BY DEF Written, Ahead, Behindhand

\* Every step: the merge records where it found the branch, and verification where it should have.
LEMMA WrittenNext == ASSUME Typed, Written, [UpdateNext]_updateVars PROVE Written'
  <1>1. CASE Load
    BY <1>1, WrittenBefore DEF Load, Step, Turn, Ahead
  <1>2. CASE Scan
    BY <1>2, WrittenBefore DEF Scan, Step, Turn, Ahead
  <1>3. CASE Ask
    BY <1>3, WrittenBefore DEF Ask, course, Ahead
  <1>4. CASE Plan \/ Blocked
    <2>1. PICK there \in {"confirmed", "closed"} : Probed(there)
      BY <1>4 DEF Plan, Blocked
    <2> QED
      BY <2>1, WrittenBefore DEF Probed, Turn, Ahead
  <1>5. CASE Rescan
    <2>1. ShapedRows(Inventory)
      BY InventoryShaped
    <2>2. ShapedRows(before')
      BY <1>5, <2>1 DEF Rescan
    <2> QED
      BY <1>5, <2>2, WrittenBefore DEF Rescan, Step, Turn, Ahead
  <1>6. CASE Recheck \/ Guard
    <2>1. ShapedRows(before)
      BY <1>6 DEF Recheck, Guard, Step, Turn, Written
    <2>2. UNCHANGED before
      BY <1>6 DEF Recheck, Guard
    <2> QED
      BY <1>6, <2>1, <2>2, WrittenBefore DEF Recheck, Guard, Step, Turn, Ahead
  <1>7. CASE Refuse
    BY <1>7 DEF Refuse, Step, Turn, Written, Ahead, Behindhand
  <1>8. CASE Merge
    <2>1. plan # Nothing /\ head \in Counts /\ head # 0 /\ plan.to \in Counts
      BY <1>8 DEF Merge, Step, Turn, Typed, UpdateTypes, Confirmed, Counts, Revisions
    <2> QED
      BY <1>8, <2>1 DEF Merge, Step, Turn, Written, Ahead, Behindhand, Counts
  <1>9. CASE MergeFails
    <2>1. head \in Counts
      BY DEF Typed, UpdateTypes, Counts
    <2> QED
      BY <1>9, <2>1 DEF MergeFails, Step, Turn, Written, Ahead, Behindhand
  <1>10. CASE Decide \/ Refresh
    BY <1>10 DEF Decide, Refresh, Step, Turn, Written, Ahead, Behindhand
  <1>11. CASE ScanAfter
    <2>1. ShapedRows(Inventory)
      BY InventoryShaped
    <2>2. ShapedRows(after')
      BY <1>11, <2>1 DEF ScanAfter
    <2> QED
      BY <1>11, <2>2 DEF ScanAfter, Step, Turn, Written, Ahead, Behindhand
  <1>12. CASE VerifyState
    <2>1. /\ plan # Nothing /\ plan.from \in Counts /\ plan.to \in Counts /\ found \in Counts
          /\ {head, previous} \subseteq Counts
      BY <1>12 DEF VerifyState, Step, Turn, Typed, UpdateTypes, Confirmed, Counts, Written
    <2>2. StateReport = {} /\ write => head = plan.to /\ previous = plan.from
      BY DEF StateReport
    <2> QED
      BY <1>12, <2>1, <2>2 DEF VerifyState, Step, Turn, Written, Ahead, Behindhand
  <1>13. CASE VerifyInstallations
    <2>1. plan # Nothing
      BY <1>13 DEF VerifyInstallations, Step, Turn, Typed, Confirmed
    <2>2. InstallationReport' = InstallationReport
      BY <1>13, ReportSame DEF VerifyInstallations
    <2> QED
      BY <1>13, <2>1, <2>2 DEF VerifyInstallations, Step, Turn, Written, Ahead, Behindhand
  <1>14. CASE Relink \/ Litter \/ Disturb \/ Reconfigure
    <2>1. /\ UNCHANGED <<head, previous, found, stage, plan, before, after, write, report>>
          /\ stage # "closed"
      BY <1>14 DEF Relink, Litter, Disturb, Reconfigure, Interfere, repository, checkout
    <2> QED
      BY <2>1 DEF Written
  <1>15. CASE MoveHead
    BY <1>15 DEF MoveHead, Interfere, Written, Counts
  <1>16. CASE UNCHANGED updateVars
    <2>1. UNCHANGED <<head, previous, found, stage, plan, before, after, write, report>>
      BY <1>16 DEF updateVars, course, repository, checkout
    <2>2. InstallationReport' = InstallationReport
      BY <2>1, ReportSame
    <2> QED
      BY <2>1, <2>2 DEF Written
  <1> QED
    BY <1>1, <1>2, <1>3, <1>4, <1>5, <1>6, <1>7, <1>8, <1>9, <1>10, <1>11, <1>12, <1>13, <1>14, <1>15, <1>16
    DEF UpdateNext

-----------------------------------------------------------------------------
(* What the guards establish *)

\* What is on disk depends on the branch and on whether the path leads to the checkout.
LEMMA DiskSame ==
  ASSUME UNCHANGED <<base, tip, head, named, untracked>>
  PROVE  /\ \A c : OnDisk(c)' = OnDisk(c)
         /\ CandidatesOnDisk' = CandidatesOnDisk
  BY DEF OnDisk, Tree, CandidatesOnDisk, IsDirectory, SuffixesOf

\* What is seen in a slot depends on the links as well.
LEMMA SightSame ==
  ASSUME UNCHANGED <<base, tip, head, named, untracked, links, alias>>, NEW s
  PROVE  Sight(s)' = Sight(s)
  <1>1. Follow(links[s])' = Follow(links[s])
    BY DEF Follow
  <1>2. OnDisk(Follow(links[s]))' = OnDisk(Follow(links[s]))
    BY <1>1, DiskSame DEF OnDisk, Tree
  <1> QED
    BY <1>1, <1>2 DEF Sight, View, DocumentVerdict, DocumentOf, IsDirectory, SuffixesOf, NotInstalled,
                      Broken, Observation

\* And an inventory on the sources as they were loaded.
LEMMA InventorySame ==
  ASSUME UNCHANGED <<base, tip, head, named, untracked, links, alias, registry>>
  PROVE  Inventory' = Inventory
  <1>1. ASSUME NEW s PROVE Observe(s)' = Observe(s)
    <2>1. Follow(links[s])' = Follow(links[s])
      BY DEF Follow
    <2>2. OnDisk(Follow(links[s]))' = OnDisk(Follow(links[s]))
      BY <2>1, DiskSame DEF OnDisk, Tree
    <2> QED
      BY <2>1, <2>2 DEF Observe, DocumentVerdict, DocumentOf, IsDirectory, SuffixesOf, NotInstalled,
                        Broken, Observation
  <1> QED
    BY <1>1 DEF Inventory

\* A statement about given trees and rows depends on what is on disk and on the user's own link.
LEMMA AffectedSame ==
  ASSUME UNCHANGED <<base, tip, head, named, untracked, alias>>, NEW old, NEW new, NEW inventory
  PROVE  /\ Affected(old, new, inventory)' = Affected(old, new, inventory)
         /\ \A c : RemovalOutcome(old, new, c)' = RemovalOutcome(old, new, c)
  <1>1. \A c : RemovalOutcome(old, new, c)' = RemovalOutcome(old, new, c)
    BY DiskSame DEF RemovalOutcome, Occupied, Listed, IsDirectory, SuffixesOf, DeletedPaths, DeletedFrom
  <1>2. \A rows, c : AimedAt(rows, c)' = AimedAt(rows, c)
    BY DEF AimedAt, Follow
  <1> QED
    BY <1>1, <1>2 DEF Affected, RevivedBy

\* Questions, the fetch and the publication leave the branch and the worktree alone.
LEMMA AskLeaves ==
  ASSUME Probe PROVE UNCHANGED <<head, dirty, untracked, named, promisor>>
  BY DEF Probe, OpenCheckout, ProveIdentity, AskPromisor, AskTransport, ReadHead, ReadFilters, ReadWorktree,
         ReadUpstream, AskUrl, AskTransportAgain, AskKind, ReadTracking, Fetch, AskPromisorAgain, AskKindAgain,
         PublishFetched, Fails, Gate, Reads, checkout

\* Whoever interferes with a confirmed update is marked, and so is whoever changes what the
\* catalogs list once they are read.
LEMMA OthersMarked ==
  ASSUME Typed, Relink \/ Litter \/ MoveHead \/ Disturb \/ Reconfigure
  PROVE  /\ UNCHANGED <<stage, registry, plan, before, after, write, reads, report>>
         /\ stage # "closed"
         /\ stage \in Confirmed => late'
         /\ late => late'
         /\ ~late' /\ stage # "load" => CandidatesOnDisk' = CandidatesOnDisk
  BY DEF Relink, Litter, MoveHead, Disturb, Reconfigure, Interfere, MarkLate

\* Nothing is guarded at first.
LEMMA InitGuarded == UpdateInit => Guarded
  BY DEF UpdateInit, Guarded, Ahead

\* The steps before the plan is confirmed.
LEMMA GuardedBefore ==
  ASSUME UNCHANGED <<base, tip, head, named, untracked, late>>, stage' \notin {"recheck", "guard", "merge"},
         late \/ stage' \notin Ahead \/ registry'.candidates = CandidatesOnDisk
  PROVE  Guarded'
  BY DiskSame DEF Guarded

\* And those of the run that follow it.
LEMMA GuardedStep ==
  ASSUME NEW here, NEW there, Step(here, there), UNCHANGED <<head, registry, plan>>,
         here \in Ahead,
         ~late => registry.candidates = CandidatesOnDisk,
         ~late /\ there \in {"recheck", "guard", "merge"} => before' = Inventory,
         ~late /\ there \in {"guard", "merge"} => Undisturbed /\ UNCHANGED before,
         ~late /\ there = "merge" => StillValid
  PROVE  Guarded'
  <1>1. /\ UNCHANGED <<base, tip, links, alias, head, tracking, dirty, untracked, named, promisor, upstream, symbolic,
                       late, registry, plan>>
        /\ stage' = there
    BY DEF Step, Turn, agents, configuration
  <1>2. CandidatesOnDisk' = CandidatesOnDisk
    BY <1>1, DiskSame
  <1>3. Inventory' = Inventory
    BY <1>1, InventorySame
  <1>4. Tree(plan.from)' = Tree(plan.from) /\ Tree(plan.to)' = Tree(plan.to)
    BY <1>1 DEF Tree
  <1>5. UNCHANGED before /\ Undisturbed => Undisturbed'
    <2>1. ASSUME UNCHANGED before
          PROVE  Affected(Tree(plan.from), Tree(plan.to), before)' = Affected(Tree(plan.from), Tree(plan.to), before)
      <3>1. \A o, n, i : Affected(o, n, i)' = Affected(o, n, i)
        BY <1>1, AffectedSame
      <3> QED
        BY <1>4, <2>1, <3>1
    <2> QED
      BY <1>1, <2>1 DEF Undisturbed
  <1>6. StillValid => StillValid'
    BY <1>1, <1>4, AffectedSame DEF StillValid, TrackingValue, UntrackedCollision, AddedTo, ChangedIn, SuffixesOf
  <1> QED
    BY <1>1, <1>2, <1>3, <1>5, <1>6 DEF Guarded

\* Every step: each guard compares what is there with what the plan was made from.
LEMMA GuardedNext == ASSUME Typed, Guarded, [UpdateNext]_updateVars PROVE Guarded'
  <1>1. CASE Load
    <2>1. registry'.candidates = CandidatesOnDisk
      BY <1>1 DEF Load, LoadRegistry, CandidatesOnDisk, OnDisk, IsDirectory
    <2>2. UNCHANGED <<base, tip, head, named, untracked, late>> /\ stage' \notin {"recheck", "guard", "merge"}
      BY <1>1 DEF Load, Step, Turn
    <2> QED
      BY <2>1, <2>2, GuardedBefore
  <1>2. CASE Scan
    <2>1. /\ UNCHANGED <<base, tip, head, named, untracked, late, registry>>
          /\ stage' \notin {"recheck", "guard", "merge"} /\ stage \in Ahead
      BY <1>2 DEF Scan, Step, Turn, Ahead
    <2> QED
      BY <2>1, GuardedBefore DEF Guarded
  <1>3. CASE Ask
    <2>1. /\ UNCHANGED <<base, tip, head, named, untracked, late, registry>>
          /\ stage' \notin {"recheck", "guard", "merge"} /\ stage \in Ahead
      BY <1>3, AskLeaves DEF Ask, course, Ahead
    <2> QED
      BY <2>1, GuardedBefore DEF Guarded
  <1>4. CASE Plan \/ Blocked
    <2>1. PICK there \in {"confirmed", "closed"} : Probed(there)
      BY <1>4 DEF Plan, Blocked
    <2>2. /\ UNCHANGED <<base, tip, head, named, untracked, late, registry>>
          /\ stage' \notin {"recheck", "guard", "merge"} /\ stage \in Ahead
      BY <2>1 DEF Probed, Turn, Ahead
    <2> QED
      BY <2>2, GuardedBefore DEF Guarded
  <1>5. CASE Rescan
    BY <1>5, GuardedStep DEF Rescan, Step, Turn, Guarded, Ahead
  <1>6. CASE Recheck
    <2>1. ~late => registry.candidates = CandidatesOnDisk /\ before = Inventory
      BY <1>6 DEF Recheck, Step, Turn, Guarded, Ahead
    <2> QED
      BY <1>6, <2>1, GuardedStep DEF Recheck, Ahead
  <1>7. CASE Guard
    <2>1. ~late => registry.candidates = CandidatesOnDisk /\ before = Inventory /\ Undisturbed
      BY <1>7 DEF Guard, Step, Turn, Guarded, Ahead
    <2> QED
      BY <1>7, <2>1, GuardedStep DEF Guard, Ahead
  <1>8. CASE Refuse \/ Merge \/ MergeFails \/ Decide \/ Refresh \/ ScanAfter \/ VerifyState \/ VerifyInstallations
    <2>1. stage' \notin Ahead
      BY <1>8 DEF Refuse, Merge, MergeFails, Decide, Refresh, ScanAfter, VerifyState, VerifyInstallations, Step,
                  Turn, Ahead
    <2> QED
      BY <2>1 DEF Guarded, Ahead
  <1>9. CASE Relink \/ Litter \/ MoveHead \/ Disturb \/ Reconfigure
    <2>1. /\ UNCHANGED <<stage, registry>> /\ late \in BOOLEAN
          /\ stage \in Confirmed => late'
          /\ late => late'
          /\ ~late' /\ stage # "load" => CandidatesOnDisk' = CandidatesOnDisk
      BY <1>9, OthersMarked DEF Typed, UpdateTypes
    <2> QED
      BY <2>1 DEF Guarded, Ahead, Confirmed
  <1>10. CASE UNCHANGED updateVars
    <2>1. UNCHANGED <<base, tip, links, alias, head, tracking, dirty, untracked, named, promisor, upstream, symbolic,
                      late, registry, plan, stage, before>>
      BY <1>10 DEF updateVars, course, agents, repository, checkout, configuration
    <2>2. CandidatesOnDisk' = CandidatesOnDisk /\ Inventory' = Inventory
      BY <2>1, DiskSame, InventorySame
    <2>3. Undisturbed' = Undisturbed /\ StillValid' = StillValid
      <3>1. \A o, n, i : Affected(o, n, i)' = Affected(o, n, i)
        BY <2>1, AffectedSame
      <3>2. \A o, n, c : RemovalOutcome(o, n, c)' = RemovalOutcome(o, n, c)
        BY <2>1, AffectedSame
      <3>3. Tree(plan.from)' = Tree(plan.from) /\ Tree(plan.to)' = Tree(plan.to)
        BY <2>1 DEF Tree
      <3>4. Undisturbed' = Undisturbed
        BY <2>1, <3>1, <3>3 DEF Undisturbed
      <3>5. StillValid' = StillValid
        BY <2>1, <3>2, <3>3 DEF StillValid, TrackingValue
      <3> QED
        BY <3>4, <3>5
    <2> QED
      BY <2>1, <2>2, <2>3 DEF Guarded
  <1> QED
    BY <1>1, <1>2, <1>3, <1>4, <1>5, <1>6, <1>7, <1>8, <1>9, <1>10 DEF UpdateNext

-----------------------------------------------------------------------------
(* What a merge leaves *)

\* Nothing is merged at first.
LEMMA InitKept == UpdateInit => Kept
  BY DEF UpdateInit, Kept

\* A merge of what the guards have passed leaves what the plan said.
LEMMA MergeKept ==
  ASSUME Typed, Written, Guarded, Merge PROVE Kept'
  <1> SUFFICES ASSUME ~late PROVE Kept'
    BY DEF Merge, Step, Turn, Kept
  <1>1. /\ stage = "merge" /\ stage' = "decide" /\ plan # Nothing /\ report = {}
        /\ UNCHANGED <<base, tip, links, alias, dirty, untracked, named, promisor, late, plan, before, after, report>>
    BY DEF Merge, Step, Turn, agents, Typed, Confirmed, Written, Ahead
  <1>2. registry.candidates = CandidatesOnDisk /\ before = Inventory /\ Undisturbed /\ StillValid
    BY <1>1 DEF Guarded, Ahead
  <1>3. named /\ ~promisor /\ ~dirty /\ head = plan.from /\ ~UntrackedCollision(Tree(plan.from), Tree(plan.to), untracked)
    BY <1>2 DEF StillValid
  <1>4. head' = plan.to /\ previous' = plan.from
    BY <1>1, <1>3 DEF Merge, Typed
  <1>5. Current
    <2>1. plan.affected = Affected(Tree(plan.from), Tree(plan.to), before)
      BY <1>2 DEF Undisturbed
    <2>2. ASSUME NEW t \in Slots PROVE before.rows[t] = Sight(t)
      <3>1. before.rows[t] = Observe(t)
        BY <1>2 DEF Inventory
      <3>2. Observe(t) = Sight(t)
        BY <1>2, ObservesSight
      <3> QED
        BY <3>1, <3>2
    <2> QED
      BY <2>1, <2>2 DEF Current
  <1>6. ASSUME NEW s \in Slots PROVE Foreseen(s, before.rows[s], Sight(s))'
    <2> DEFINE c == Follow(links[s])
    <2>1. PICK a : a = View(RowOf[s], links[s], c, Beside(Tree(plan.to), untracked, c))
      OBVIOUS
    <2>2. Foreseen(s, before.rows[s], a)
      BY <1>1, <1>3, <1>5, <2>1, MergeForeseen
    <2>3. Sight(s)' = a
      <3>1. c' = c
        BY <1>1 DEF Follow
      <3>2. OnDisk(c)' = Beside(Tree(plan.to), untracked, c)
        BY <1>1, <1>3, <1>4, <3>1 DEF OnDisk, Beside, Tree
      <3> QED
        BY <1>1, <2>1, <3>1, <3>2 DEF Sight, View, DocumentVerdict, DocumentOf, IsDirectory, SuffixesOf,
                                      NotInstalled, Broken, Observation
    <2>4. \A r, b, d : Foreseen(r, b, d)' = Foreseen(r, b, d)
      BY <1>1, ForeseenSame
    <2> QED
      BY <1>1, <2>2, <2>3, <2>4
  <1> QED
    BY <1>1, <1>3, <1>4, <1>6 DEF Kept

\* The steps that follow it only read.
LEMMA KeptStep ==
  ASSUME Typed, Kept, NEW here \in Behindhand, NEW there \in Behindhand \cup {"closed"},
         Step(here, there), UNCHANGED <<head, previous, plan, before, write>>,
         report \subseteq report',
         Kept /\ ~late /\ write /\ "error" \notin report =>
           /\ there # "decide" => reads'
           /\ there \in {"refresh", "after"} => here \in {"decide", "refresh"}
           /\ there = "after" => registry'.complete /\ registry'.candidates = CandidatesOnDisk
           /\ there \in {"state", "installations", "closed"} =>
                after'.complete /\ \A s \in Slots : Foreseen(s, before.rows[s], after'.rows[s])
           /\ there # "closed" => report' = {}
           /\ there = "closed" => report' = InstallationReport',
         there # "decide"
  PROVE  Kept'
  <1>1. /\ UNCHANGED <<base, tip, links, alias, head, dirty, untracked, named, promisor, late, plan, before, previous, write>>
        /\ stage = here /\ stage' = there
    BY DEF Step, Turn, agents
  <1>2. \A s : Sight(s)' = Sight(s)
    BY <1>1, SightSame
  <1>3. \A s, b, a : Foreseen(s, b, a)' = Foreseen(s, b, a)
    BY <1>1, ForeseenSame
  <1>4. CandidatesOnDisk' = CandidatesOnDisk
    BY <1>1, DiskSame
  <1> SUFFICES ASSUME ~late, write, "error" \notin report PROVE Kept'
    BY <1>1 DEF Kept
  <1>5. /\ head = plan.to /\ previous = plan.from /\ named /\ ~promisor /\ ~dirty
        /\ here \in {"decide", "refresh", "after"} => \A s \in Slots : Foreseen(s, before.rows[s], Sight(s))
    BY <1>1 DEF Kept
  <1>6. there \in {"refresh", "after"} => \A s \in Slots : Foreseen(s, before.rows[s], Sight(s))'
    BY <1>1, <1>2, <1>3, <1>5
  <1>7. there \in {"state", "installations", "closed"} =>
          \A s \in Slots : Foreseen(s, before.rows[s], after.rows[s])'
    BY <1>1, <1>3
  <1> QED
    BY <1>1, <1>4, <1>5, <1>6, <1>7 DEF Kept, Behindhand

\* Every step: what the plan said is still so when it is scanned and when it is verified.
LEMMA KeptNext == ASSUME Typed, Written, Guarded, Kept, [UpdateNext]_updateVars PROVE Kept'
  <1>1. CASE \/ Load \/ Scan \/ Ask \/ Plan \/ Blocked \/ Rescan \/ Recheck \/ Guard
    <2>1. ~write /\ UNCHANGED write
      BY <1>1 DEF Load, Scan, Ask, Plan, Blocked, Probed, Rescan, Recheck, Guard, Step, Turn, course, Written, Ahead
    <2> QED
      BY <2>1 DEF Kept
  <1>2. CASE Refuse \/ MergeFails
    <2>1. "error" \in report'
      BY <1>2 DEF Refuse, MergeFails
    <2> QED
      BY <2>1 DEF Kept
  <1>3. CASE Merge
    BY <1>3, MergeKept
  <1>4. CASE Decide
    <2>1. ~late /\ write /\ "error" \notin report => ~promisor /\ report = {}
      BY <1>4 DEF Kept, Decide, Step, Turn, Behindhand
    <2> QED
      BY <1>4, <2>1, KeptStep DEF Decide, Behindhand
  <1>5. CASE Refresh
    <2>1. ~late /\ write /\ "error" \notin report => named /\ reads /\ report = {}
      BY <1>5 DEF Kept, Refresh, Step, Turn, Behindhand
    <2>2. registry'.candidates = CandidatesOnDisk /\ (named => registry'.complete)
      BY <1>5 DEF Refresh, LoadRegistry, CandidatesOnDisk, OnDisk, IsDirectory
    <2> QED
      BY <1>5, <2>1, <2>2, KeptStep DEF Refresh, Behindhand
  <1>6. CASE ScanAfter
    <2>1. ~late /\ write /\ "error" \notin report =>
             /\ reads /\ report = {} /\ registry.complete /\ registry.candidates = CandidatesOnDisk
             /\ \A s \in Slots : Foreseen(s, before.rows[s], Sight(s))
      BY <1>6 DEF Kept, ScanAfter, Step, Turn, Behindhand
    <2>2. after' = Inventory
      BY <1>6 DEF ScanAfter
    <2>3. after'.complete = registry.complete /\ \A s \in Slots : after'.rows[s] = Observe(s)
      BY <2>2 DEF Inventory
    <2>4. ~late /\ write /\ "error" \notin report => \A s \in Slots : Foreseen(s, before.rows[s], after'.rows[s])
      BY <2>1, <2>3, ObservesSight
    <2> QED
      BY <1>6, <2>1, <2>3, <2>4, KeptStep DEF ScanAfter, Behindhand
  <1>7. CASE VerifyState
    <2>1. ~late /\ write /\ "error" \notin report =>
             /\ reads /\ report = {} /\ named /\ ~dirty /\ head = plan.to /\ previous = plan.from /\ after.complete
             /\ \A s \in Slots : Foreseen(s, before.rows[s], after.rows[s])
      BY <1>7 DEF Kept, VerifyState, Step, Turn, Behindhand
    <2>2. ~late /\ write /\ "error" \notin report => report' = {}
      BY <1>7, <2>1 DEF VerifyState, StateReport
    <2> QED
      BY <1>7, <2>1, <2>2, KeptStep DEF VerifyState, Behindhand
  <1>8. CASE VerifyInstallations
    <2>1. ~late /\ write /\ "error" \notin report =>
             /\ reads /\ report = {} /\ after.complete
             /\ \A s \in Slots : Foreseen(s, before.rows[s], after.rows[s])
      BY <1>8 DEF Kept, VerifyInstallations, Step, Turn, Behindhand
    <2>2. InstallationReport' = InstallationReport /\ report' = report \cup InstallationReport /\ UNCHANGED after
      BY <1>8, ReportSame DEF VerifyInstallations
    <2>3. ~late /\ write /\ "error" \notin report => report' = InstallationReport'
      BY <2>1, <2>2
    <2> QED
      BY <1>8, <2>1, <2>2, <2>3, KeptStep DEF VerifyInstallations, Behindhand
  <1>9. CASE Relink \/ Litter \/ MoveHead \/ Disturb \/ Reconfigure
    <2>1. /\ UNCHANGED <<stage, write>> /\ stage # "closed" /\ stage \in Stages
          /\ stage \in Confirmed => late'
      BY <1>9, OthersMarked DEF Typed
    <2>2. stage \in Ahead \cup {"load"} \/ stage \in Confirmed
      BY <2>1 DEF Stages, Ahead, Confirmed
    <2> QED
      BY <2>1, <2>2 DEF Written, Kept
  <1>10. CASE UNCHANGED updateVars
    <2>1. UNCHANGED <<base, tip, links, alias, head, dirty, untracked, named, promisor, late, plan, before, previous,
                      write, reads, report, registry, after, stage>>
      BY <1>10 DEF updateVars, course, agents, repository, checkout
    <2>2. /\ \A s : Sight(s)' = Sight(s)
          /\ \A s, b, a : Foreseen(s, b, a)' = Foreseen(s, b, a)
          /\ CandidatesOnDisk' = CandidatesOnDisk /\ InstallationReport' = InstallationReport
      BY <2>1, SightSame, ForeseenSame, DiskSame, ReportSame
    <2> QED
      BY <2>1, <2>2 DEF Kept
  <1> QED
    BY <1>1, <1>2, <1>3, <1>4, <1>5, <1>6, <1>7, <1>8, <1>9, <1>10 DEF UpdateNext

-----------------------------------------------------------------------------
(* The outcome *)

\* The inductive invariant of an update.
UpdateInv == Typed /\ Written /\ Guarded /\ Kept

\* It holds.
LEMMA UpdateInvHolds == UpdateSpec => []UpdateInv
  <1>1. UpdateInit => UpdateInv
    BY InitTyped, InitWritten, InitGuarded, InitKept DEF UpdateInv
  <1>2. UpdateInv /\ [UpdateNext]_updateVars => UpdateInv'
    BY NextTyped, WrittenNext, GuardedNext, KeptNext DEF UpdateInv
  <1> QED
    BY <1>1, <1>2, PTL DEF UpdateSpec

\* Every variable of an update holds a value of its kind, and no untracked file stands where Git
\* has one (UpdateTypes), whatever the merge and the others go over to.
THEOREM UpdateTypesHold == UpdateSpec => []UpdateTypes
  <1>1. UpdateInv => UpdateTypes
    BY DEF UpdateInv, Typed
  <1> QED
    BY <1>1, UpdateInvHolds, PTL

\* The hypothesis of PlansAreKept, slot by slot.
LEMMA AimsAreOfSlots == AimsAreStated <=> \A s \in Slots : AimIsStated(s)
  BY DEF AimsAreStated, AimIsStated

\* Then a merge that nobody interfered with is verified.
LEMMA InvKeepsPlans == UpdateInv => PlansAreKept
  <1> SUFFICES ASSUME UpdateInv, stage = "closed", write, "error" \notin report, ~late, before.complete,
                      AimsAreStated
               PROVE  Passed
    BY DEF PlansAreKept
  <1>1. /\ plan # Nothing /\ after.complete /\ report = InstallationReport
        /\ \A s \in Slots : Foreseen(s, before.rows[s], after.rows[s])
    BY DEF UpdateInv, Kept, Written
  <1>2. \A s \in Slots : AsWord(s, before.rows[s], after.rows[s])
    BY <1>1, AimsAreOfSlots DEF Foreseen
  <1>3. InstallationReport = {}
    BY <1>1, <1>2 DEF InstallationReport, AsWord
  <1> QED
    BY <1>1, <1>3 DEF Passed

\* Two rows of which verification says nothing, of a slot the plan is silent about, are the same
\* unless the later one is healthier.
LEMMA SilentRows ==
  ASSUME NEW s, NEW b, NEW a, Shaped(b), Shaped(a), AsWord(s, b, a), ~StatedOf(s)
  PROVE  a = b \/ a.health < b.health
  <1>1. CASE b.object = Absent
    <2>1. b = NotInstalled /\ a = NotInstalled
      BY <1>1 DEF Shaped, AsWord
    <2> QED
      BY <2>1
  <1>2. CASE b.object # Absent
    <2>1. /\ InvalidationOf(s) = {} /\ RevivalOf(s) = {}
          /\ s \notin plan.affected.dangling \cup plan.affected.nonLoadable
      BY DEF StatedOf
    <2>2. a.object = b.object /\ a.health <= b.health /\ a.resolution = b.resolution
      BY <1>2, <2>1 DEF AsWord, AsDisclosed, SameLink
    <2>3. a.findings \subseteq b.findings
      BY <2>1 DEF AsWord, Named
    <2>4. NotInstalled.object = Absent
      BY DEF NotInstalled, Observation
    <2>5. a.health \in 1..3 /\ b.health \in 1..3
      BY <1>2, <2>2, <2>4 DEF Shaped
    <2>6. CASE a.health = b.health
      <3>1. a.findings = b.findings
        <4>1. CASE a.health = 1
          <5>1. a.findings = {} /\ b.findings = {}
            BY <1>2, <2>2, <2>4, <2>6, <4>1 DEF Shaped, Health
          <5> QED
            BY <5>1
        <4>2. CASE a.health = 2
          BY <1>2, <2>2, <2>4, <2>6, <4>2 DEF Shaped, Health
        <4>3. CASE a.health = 3
          <5>1. (\E f \in a.findings : a.findings = {f}) /\ (\E f \in b.findings : b.findings = {f})
            BY <1>2, <2>2, <2>4, <2>6, <4>3 DEF Shaped, Health
          <5> QED
            BY <2>3, <5>1
        <4> QED
          BY <2>5, <4>1, <4>2, <4>3
      <3>2. /\ a = Observation(a.object, a.resolution, a.findings, a.health)
            /\ b = Observation(b.object, b.resolution, b.findings, b.health)
        BY <1>2, <2>2, <2>4 DEF Shaped
      <3> QED
        BY <2>2, <2>6, <3>1, <3>2
    <2>7. CASE a.health # b.health
      BY <2>2, <2>5, <2>7
    <2> QED
      BY <2>6, <2>7
  <1> QED
    BY <1>1, <1>2

\* And what a verified merge changed was stated.
LEMMA InvStatesChanges == UpdateInv => WhatChangedWasStated
  <1> SUFFICES ASSUME UpdateInv, Passed
               PROVE  /\ found # 0 => found = plan.from \/ (found = plan.to /\ previous = plan.from)
                      /\ \A s \in Slots :
                           /\ after.rows[s].object = before.rows[s].object
                           /\ after.rows[s] # before.rows[s] =>
                                StatedOf(s) \/ (late /\ after.rows[s].health < before.rows[s].health)
    BY DEF WhatChangedWasStated
  <1>1. /\ found # 0 => found = plan.from \/ (found = plan.to /\ previous = plan.from)
        /\ InstallationReport = {} /\ ShapedRows(before) /\ ShapedRows(after)
    BY DEF UpdateInv, Written, Passed
  <1>2. ASSUME NEW s \in Slots
        PROVE  /\ after.rows[s].object = before.rows[s].object
               /\ after.rows[s] # before.rows[s] =>
                    StatedOf(s) \/ (late /\ after.rows[s].health < before.rows[s].health)
    <2> DEFINE b == before.rows[s]
               a == after.rows[s]
    <2>1. Shaped(b) /\ Shaped(a) /\ AsWord(s, b, a)
      BY <1>1, <1>2 DEF ShapedRows, InstallationReport, AsWord
    <2>2. a.object = b.object
      BY <2>1 DEF AsWord, AsDisclosed, SameLink
    <2>3. ~StatedOf(s) => a = b \/ a.health < b.health
      BY <2>1, SilentRows
    <2>4. ~late => (a.health < b.health => StatedOf(s))
      BY <1>2 DEF UpdateInv, Kept, Passed, Foreseen
    <2> QED
      BY <2>2, <2>3, <2>4
  <1> QED
    BY <1>1, <1>2

\* A fast-forward that Git carried out and nobody interfered with is found to have done what its
\* plan said (PlansAreKept): verify_repository_update_attempt holds the inventory to what
\* affected_catalog_skills predicted from the two trees, the worktree and the links.
THEOREM PlansAreKeptHolds == UpdateSpec => []PlansAreKept
  BY UpdateInvHolds, InvKeepsPlans, PTL

\* A verified update brought exactly the range on the screen, and changed nothing about any
\* installation that the confirmed plan did not name (WhatChangedWasStated), whoever interferes
\* between the guards, the merge and the verification.
THEOREM WhatChangedWasStatedHolds == UpdateSpec => []WhatChangedWasStated
  BY UpdateInvHolds, InvStatesChanges, PTL
=============================================================================
