------------------------------ MODULE UpdateCache ------------------------------
(***************************************************************************)
(* The cached update check of one registered source (src/app.rs,           *)
(* src/updates.rs, src/store.rs, src/git.rs), written by several processes *)
(* over one store and one checkout.  A screen checks, cancels, previews    *)
(* from the cached row and applies; a command checks, plans from its own   *)
(* probe and applies.  A row carries a generation, reserved before the     *)
(* check starts, and a write is declined when the row is later than it.    *)
(* Nothing locks the checkout: its HEAD, the branch's log and the tracking *)
(* reference are moved by any Git process.                                 *)
(*                                                                         *)
(* History is a line: a revision is its position, 0 is no revision.        *)
(***************************************************************************)
EXTENDS Naturals

CONSTANTS Screens, Commands,  \* the processes
          MaxRevision,        \* bound: revisions the upstream reaches
          MaxGeneration,      \* bound: generations handed out
          MaxBatch,           \* bound: sources in one screen check
          Floors,             \* what the wall clock may offer as a generation
          NoRow               \* no cached check

Processes == Screens \cup Commands
Revisions == 1 .. MaxRevision

ASSUME BoundsAreNatural ==
  /\ MaxRevision \in Nat \ {0} /\ MaxGeneration \in Nat /\ MaxBatch \in Nat
  /\ Floors \subseteq Nat

(* A Failed row is a blocked one that reports on a write.  The revisions of a *)
(* row are kept where they are read: on one that offers an update.            *)
Verdicts == {"Available", "UpToDate", "Ahead", "Blocked", "Failed"}
Row == [gen : 1 .. MaxGeneration, verdict : Verdicts,
        local : 0 .. MaxRevision, upstream : 0 .. MaxRevision]

ASSUME NoRowIsNoRow == NoRow \notin Row
ASSUME ScreensAreNoCommands == Screens \cap Commands = {}

VARIABLES
  setting, row, registered,       \* the store: the high-water mark (0: never
                                  \* written), the row, the registration
  head, previous, tracking,       \* the checkout: HEAD, the branch's log entry
                                  \* before it, the remote-tracking reference
  remote,                         \* the upstream branch on its server
  pc,                             \* each process's place
  seen, known,                    \* its memory: the row, and the source's HEAD
                                  \* (0: the source is not in it)
  gen,                            \* the generation reserved for its next write
  basis,                          \* the generation of the check its plan is from
  from, to,                       \* what its probe read, then its plan
  before,                         \* the tracking reference before its fetch
  answer                          \* its verdict, or how its apply went

store    == <<setting, row, registered>>
checkout == <<head, previous, tracking>>
plan     == <<basis, from, to, before>>
memory   == <<seen, known>>
vars     == <<setting, row, registered, head, previous, tracking, remote, pc, seen, known,
              gen, basis, from, to, before, answer>>

TypeOK ==
  /\ setting \in 0 .. MaxGeneration /\ row \in Row \cup {NoRow} /\ registered \in BOOLEAN
  /\ head \in Revisions /\ previous \in 0 .. MaxRevision
  /\ tracking \in Revisions /\ remote \in Revisions
  /\ pc \in [Processes -> {"closed", "idle", "ready", "reserved", "reading", "fetched", "judged",
                           "recorded", "confirm", "guarded", "merged", "refreshed", "verified",
                           "stamped", "cached", "panicked"}]
  /\ seen \in [Processes -> Row \cup {NoRow}] /\ known \in [Processes -> 0 .. MaxRevision]
  /\ gen \in [Processes -> 0 .. MaxGeneration] /\ basis \in [Processes -> 0 .. MaxGeneration]
  /\ from \in [Processes -> 0 .. MaxRevision] /\ to \in [Processes -> 0 .. MaxRevision]
  /\ before \in [Processes -> 0 .. MaxRevision]
  /\ answer \in [Processes -> Verdicts \cup {"none", "unwritten"}]

(* A store written before the mark existed may hold a row and no mark.        *)
Init ==
  /\ setting = 0 /\ registered = TRUE
  /\ head = 1 /\ previous = 0 /\ tracking \in Revisions /\ remote = tracking
  /\ row \in {NoRow} \cup [gen : 1 .. MaxGeneration, verdict : {"Available"},
                           local : {1}, upstream : {tracking} \ {1}]
  /\ pc = [p \in Processes |-> "closed"]
  /\ seen = [p \in Processes |-> NoRow] /\ known = [p \in Processes |-> 0]
  /\ gen = [p \in Processes |-> 0] /\ basis = [p \in Processes |-> 0]
  /\ from = [p \in Processes |-> 0] /\ to = [p \in Processes |-> 0]
  /\ before = [p \in Processes |-> 0] /\ answer = [p \in Processes |-> "none"]

-----------------------------------------------------------------------------
Step(p, place, next) == pc[p] = place /\ pc' = [pc EXCEPT ![p] = next]

(* A process's own operation is over: a screen waits, a command has ended.    *)
(* It knows the row r and the HEAD h from now on.                             *)
Rest(p, place, r, h) ==
  /\ Step(p, place, IF p \in Screens THEN "idle" ELSE "closed")
  /\ seen' = [seen EXCEPT ![p] = IF p \in Screens THEN r ELSE NoRow]
  /\ known' = [known EXCEPT ![p] = IF p \in Screens THEN h ELSE 0]
  /\ gen' = [gen EXCEPT ![p] = 0] /\ basis' = [basis EXCEPT ![p] = 0]
  /\ from' = [from EXCEPT ![p] = 0] /\ to' = [to EXCEPT ![p] = 0]
  /\ before' = [before EXCEPT ![p] = 0] /\ answer' = [answer EXCEPT ![p] = "none"]

GiveUp(p, place) == /\ Rest(p, place, seen[p], known[p])
                    /\ UNCHANGED <<store, checkout, remote>>

(* The store is opened, and a command finds its source there.                 *)
Open(p) ==
  /\ registered
  /\ Step(p, "closed", IF p \in Screens THEN "idle" ELSE "ready")
  /\ seen' = [seen EXCEPT ![p] = row] /\ known' = [known EXCEPT ![p] = head]
  /\ UNCHANGED <<store, checkout, remote, gen, plan, answer>>

(* A process is killed, or ends in a panic.                                   *)
Crash(p) ==
  /\ pc[p] # "closed" /\ pc' = [pc EXCEPT ![p] = "closed"]
  /\ seen' = [seen EXCEPT ![p] = NoRow] /\ known' = [known EXCEPT ![p] = 0]
  /\ gen' = [gen EXCEPT ![p] = 0] /\ basis' = [basis EXCEPT ![p] = 0]
  /\ from' = [from EXCEPT ![p] = 0] /\ to' = [to EXCEPT ![p] = 0]
  /\ before' = [before EXCEPT ![p] = 0] /\ answer' = [answer EXCEPT ![p] = "none"]
  /\ UNCHANGED <<store, checkout, remote>>

-----------------------------------------------------------------------------
(* Store::reserve_update_check_generations, under an immediate transaction.   *)
Larger(a, b) == IF a < b THEN b ELSE a
Held == Larger(setting, IF row = NoRow THEN 0 ELSE row.gen)

(* Fault: only the first of the generations handed out is put on record.      *)
ReserveOnlyFirst(p, count, index) ==
  \E floor \in Floors :
    LET first == Larger(floor, Held + 1) IN
      /\ first + count - 1 <= MaxGeneration
      /\ setting' = first
      /\ gen' = [gen EXCEPT ![p] = first + index - 1]

Reserve(p, count, index) ==
  \E floor \in Floors :
    LET first == Larger(floor, Held + 1) IN
      /\ first + count - 1 <= MaxGeneration
      /\ setting' = first + count - 1
      /\ gen' = [gen EXCEPT ![p] = first + index - 1]

(* The source is the index-th of the count that a screen checks, and the only *)
(* one of a command.                                                          *)
ReserveForCheck(p) ==
  /\ \/ p \in Screens /\ known[p] # 0 /\ Step(p, "idle", "reserved")
        /\ \E count \in 1 .. MaxBatch : \E index \in 1 .. count : Reserve(p, count, index)
     \/ p \in Commands /\ Step(p, "ready", "reserved") /\ Reserve(p, 1, 1)
  /\ UNCHANGED <<row, registered, checkout, remote, memory, plan, answer>>

(* The probe: HEAD and the tracking reference are read, the upstream is       *)
(* fetched without touching a reference, and the tracking reference is moved  *)
(* by compare-and-swap, unless it already is where the fetch would put it.    *)
ReadCheckout(p) ==
  /\ Step(p, "reserved", "reading")
  /\ from' = [from EXCEPT ![p] = head]
  /\ before' = [before EXCEPT ![p] = tracking]
  /\ UNCHANGED <<store, checkout, remote, memory, gen, basis, to, answer>>

Transfer(p) ==
  /\ Step(p, "reading", "fetched")
  /\ to' = [to EXCEPT ![p] = remote]
  /\ UNCHANGED <<store, checkout, remote, memory, gen, basis, from, before, answer>>

Compared(local, upstream) ==
  IF local < upstream THEN "Available" ELSE IF local > upstream THEN "Ahead" ELSE "UpToDate"

(* What the probe read is kept for an update it offers.                       *)
Judge(p) ==
  \E verdict \in {Compared(from[p], to[p]), "Blocked"} :
    /\ answer' = [answer EXCEPT ![p] = verdict]
    /\ before' = [before EXCEPT ![p] = 0]
    /\ IF verdict = "Available" THEN UNCHANGED <<from, to>>
       ELSE from' = [from EXCEPT ![p] = 0] /\ to' = [to EXCEPT ![p] = 0]

Publish(p) ==
  /\ Step(p, "fetched", "judged")
  /\ tracking \in {before[p], to[p]}
  /\ tracking' = to[p]
  /\ Judge(p)
  /\ UNCHANGED <<store, head, previous, remote, memory, gen, basis>>

(* A check that refused, or could not read, fetch or publish.                 *)
ProbeFails(p) ==
  /\ \E place \in {"reserved", "reading", "fetched"} : Step(p, place, "judged")
  /\ from' = [from EXCEPT ![p] = 0] /\ to' = [to EXCEPT ![p] = 0]
  /\ before' = [before EXCEPT ![p] = 0]
  /\ answer' = [answer EXCEPT ![p] = "Blocked"]
  /\ UNCHANGED <<store, checkout, remote, memory, gen, basis>>

CancelCheck(p) ==
  p \in Screens /\ \E place \in {"reserved", "reading", "fetched", "judged"} : GiveUp(p, place)

(* The two conditional upserts.  Without its source a row violates a foreign  *)
(* key.                                                                       *)
Upsert(stored, new) == IF stored = NoRow \/ stored.gen <= new.gen THEN new ELSE stored
UpsertIfNewer(stored, new) == IF stored = NoRow \/ stored.gen < new.gen THEN new ELSE stored

Observed(p) == [gen |-> gen[p], verdict |-> answer[p], local |-> from[p], upstream |-> to[p]]

(* Fault: whoever records last wins.                                          *)
RecordAlways(p) ==
  /\ registered
  /\ Step(p, "judged", "recorded")
  /\ row' = Observed(p)
  /\ gen' = [gen EXCEPT ![p] = 0] /\ basis' = [basis EXCEPT ![p] = gen[p]]
  /\ UNCHANGED <<setting, registered, checkout, remote, memory, from, to, before, answer>>

Record(p) ==
  /\ registered
  /\ Step(p, "judged", "recorded")
  /\ row' = IF p \in Screens THEN UpsertIfNewer(row, Observed(p)) ELSE Upsert(row, Observed(p))
  /\ gen' = [gen EXCEPT ![p] = 0] /\ basis' = [basis EXCEPT ![p] = gen[p]]
  /\ UNCHANGED <<setting, registered, checkout, remote, memory, from, to, before, answer>>

RecordFails(p) == GiveUp(p, "judged")

(* A screen reads source and row back.  A command reads the row back, and     *)
(* plans from its own probe, which may find more that blocks it.              *)
HeadOfSource == IF registered THEN head ELSE 0

ReadBack(p) ==
  /\ p \in Screens /\ Rest(p, "recorded", row, HeadOfSource)
  /\ UNCHANGED <<store, checkout, remote>>

PlanFromProbe(p) ==
  /\ p \in Commands /\ answer[p] = "Available"
  /\ Step(p, "recorded", "confirm")
  /\ seen' = [seen EXCEPT ![p] = row]
  /\ answer' = [answer EXCEPT ![p] = "none"]
  /\ UNCHANGED <<store, checkout, remote, known, gen, plan>>

(* Or the plan is blocked or empty, or the row could not be read back.        *)
NothingToApply(p) == GiveUp(p, "recorded")

-----------------------------------------------------------------------------
(* superseded_by, of an offered update: the checkout is not where the check   *)
(* read it.                                                                   *)
Superseded(check, known_head) == check.local # known_head

(* build_repository_update_preview: the row it holds must describe the        *)
(* checkout it knows, and the checkout is probed again without a fetch.       *)
Preview(p) ==
  /\ seen[p] # NoRow
  /\ seen[p].verdict = "Available" /\ ~Superseded(seen[p], known[p])
  /\ tracking = seen[p].upstream /\ head < tracking
  /\ p \in Screens /\ Step(p, "idle", "confirm")
  /\ from' = [from EXCEPT ![p] = head]
  /\ to' = [to EXCEPT ![p] = tracking]
  /\ basis' = [basis EXCEPT ![p] = seen[p].gen]
  /\ UNCHANGED <<store, checkout, remote, memory, gen, before, answer>>

Dismiss(p) == GiveUp(p, "confirm")

(* attempt_repository_update, whose refusal may be of something else that     *)
(* changed: the installations, the worktree, the identity.                    *)
Guard(p) ==
  /\ head = from[p] /\ tracking = to[p]
  /\ Step(p, "confirm", "guarded")
  /\ UNCHANGED <<store, checkout, remote, memory, gen, plan, answer>>

GuardRefuses(p) ==
  /\ Step(p, "confirm", "merged")
  /\ answer' = [answer EXCEPT ![p] = "unwritten"]
  /\ UNCHANGED <<store, checkout, remote, memory, gen, plan>>

(* git merge --ff-only, which reads HEAD anew, and moves nothing if it is at  *)
(* the target or past it.                                                     *)
Merge(p) ==
  /\ Step(p, "guarded", "merged")
  /\ IF head < to[p] THEN head' = to[p] /\ previous' = head
                     ELSE UNCHANGED <<head, previous>>
  /\ UNCHANGED <<store, tracking, remote, memory, gen, plan, answer>>

MergeFails(p) ==
  /\ Step(p, "guarded", "merged")
  /\ answer' = [answer EXCEPT ![p] = "Failed"]
  /\ UNCHANGED <<store, checkout, remote, memory, gen, plan>>

(* The sources are loaded again, the checkout perhaps not inspected.          *)
Refresh(p) ==
  /\ Step(p, "merged", "refreshed")
  /\ \E h \in {HeadOfSource} \cup IF registered THEN {known[p]} ELSE {} :
       known' = [known EXCEPT ![p] = h]
  /\ UNCHANGED <<store, checkout, remote, seen, gen, plan, answer>>

RefreshFails(p) == GiveUp(p, "merged")

(* verify_repository_update_attempt: HEAD is at the target, and the branch's  *)
(* log says it came from the revision previewed.  More may be found amiss.    *)
Verify(p) ==
  /\ Step(p, "refreshed", "verified")
  /\ from' = [from EXCEPT ![p] = 0] /\ to' = [to EXCEPT ![p] = 0]
  /\ \/ answer[p] # "none" /\ UNCHANGED answer
     \/ /\ answer[p] = "none" /\ head = to[p] /\ previous = from[p]
        /\ answer' = [answer EXCEPT ![p] = "UpToDate"]
     \/ answer[p] = "none" /\ answer' = [answer EXCEPT ![p] = "Failed"]
  /\ UNCHANGED <<store, checkout, remote, memory, gen, basis, before>>

ReserveForResult(p) ==
  /\ Step(p, "verified", "stamped")
  /\ Reserve(p, 1, 1)
  /\ UNCHANGED <<row, registered, checkout, remote, memory, plan, answer>>

StampFails(p) == GiveUp(p, "verified")

(* Fault: a verified row, too, is written under a generation of its own.      *)
PlannedFresh(p) == gen[p]

(* The row an apply leaves: a verified one under the generation of the row    *)
(* this process holds, any other under its own.                               *)
PlannedAt(p) == IF seen[p] = NoRow THEN gen[p] ELSE seen[p].gen

Result(p) ==
  [gen     |-> IF answer[p] = "UpToDate" THEN PlannedAt(p) ELSE gen[p],
   verdict |-> IF answer[p] = "unwritten" THEN "Blocked" ELSE answer[p],
   local   |-> 0, upstream |-> 0]

(* record_verified_update_check clears a failure observed before it.          *)
ClearFailure(p) ==
  IF row # NoRow /\ row.verdict = "Failed" /\ row.gen < gen[p] THEN NoRow ELSE row

RecordResult(p) ==
  /\ registered /\ known[p] # 0
  /\ Step(p, "stamped", "cached")
  /\ row' = Upsert(IF answer[p] = "UpToDate" THEN ClearFailure(p) ELSE row, Result(p))
  /\ gen' = [gen EXCEPT ![p] = 0]
  /\ UNCHANGED <<setting, registered, checkout, remote, memory, plan, answer>>

(* superseded_repository_check expects the source among those just loaded.    *)
ExpectSource(p) ==
  /\ answer[p] = "unwritten" /\ known[p] = 0
  /\ Step(p, "stamped", "panicked")
  /\ UNCHANGED <<store, checkout, remote, memory, gen, plan, answer>>

ResultFails(p) == ~(answer[p] = "unwritten" /\ known[p] = 0) /\ GiveUp(p, "stamped")

ReadResultBack(p) == /\ \E r \in {row, seen[p]} : Rest(p, "cached", r, known[p])
                     /\ UNCHANGED <<store, checkout, remote>>

-----------------------------------------------------------------------------
(* Git of others, the upstream, and another process's forget, which deletes   *)
(* the row with the source.                                                   *)
OtherGitMoves ==
  /\ \/ \E r \in Revisions \ {head} : head' = r /\ previous' = head /\ UNCHANGED tracking
     \/ tracking' = remote /\ UNCHANGED <<head, previous>>
  /\ UNCHANGED <<store, remote, pc, memory, gen, plan, answer>>

Advance ==
  /\ remote < MaxRevision /\ remote' = remote + 1
  /\ UNCHANGED <<store, checkout, pc, memory, gen, plan, answer>>

ForgottenElsewhere ==
  /\ registered /\ registered' = FALSE /\ row' = NoRow
  /\ UNCHANGED <<setting, checkout, remote, pc, memory, gen, plan, answer>>

Check(p) ==
  \/ Open(p) \/ ReserveForCheck(p) \/ ReadCheckout(p) \/ Transfer(p) \/ Publish(p)
  \/ ProbeFails(p) \/ CancelCheck(p) \/ Record(p) \/ RecordFails(p) \/ ReadBack(p)
  \/ PlanFromProbe(p) \/ NothingToApply(p)

Apply(p) ==
  \/ Preview(p) \/ Dismiss(p) \/ Guard(p) \/ GuardRefuses(p) \/ Merge(p) \/ MergeFails(p)
  \/ Refresh(p) \/ RefreshFails(p) \/ Verify(p) \/ ReserveForResult(p) \/ StampFails(p)
  \/ RecordResult(p) \/ ExpectSource(p) \/ ResultFails(p) \/ ReadResultBack(p)

Next == \/ \E p \in Processes : Check(p) \/ Apply(p) \/ Crash(p)
        \/ OtherGitMoves \/ Advance \/ ForgottenElsewhere

Spec == Init /\ [][Next]_vars

-----------------------------------------------------------------------------
(* No generation is in two hands, nor already on the row that it will be      *)
(* compared with, whatever the clocks say and whatever was stored before.     *)
GenerationsNotShared ==
  \A p \in Processes : gen[p] # 0 =>
    /\ \A q \in Processes \ {p} : gen[q] # gen[p]
    /\ row # NoRow => row.gen # gen[p]

(* No fetch of Skilled's takes the tracking reference back, however the       *)
(* fetches of several processes overlap.                                      *)
TrackingNeverRollsBack == [][tracking' >= tracking]_vars

(* A row belongs to a registered source.                                      *)
RowsHaveSources == row # NoRow => registered

(* The row of a verified apply will be earlier than the answer of every check *)
(* reserved after the one its plan was built from, whenever that lands.       *)
Applying == {"confirm", "guarded", "merged", "refreshed", "verified", "stamped"}
Yields(p) ==
  pc[p] \in Applying /\ seen[p] # NoRow /\ answer[p] \in {"none", "UpToDate"}
    => \A q \in Processes \ {p} : gen[q] > basis[p] => gen[q] > PlannedAt(p)

(* So it is for a screen, whose plan was built from the row it holds.         *)
ScreensYield == \A p \in Screens : Yields(p)

(* Generations order the answers: no two reservations share one, a screen's   *)
(* verified apply comes before every check reserved after its preview, and a  *)
(* recorded answer gives way to a later one only, or, when it is a failure,   *)
(* to a verified apply that completed after it.                               *)
LaterAnswersStay ==
  [][/\ GenerationsNotShared' /\ ScreensYield'
     /\ row # NoRow /\ row' # NoRow /\ row' # row =>
          \/ row'.gen >= row.gen
          \/ /\ row.verdict = "Failed" /\ row'.verdict = "UpToDate"
             /\ \E p \in Processes : gen[p] > row.gen /\ pc[p] = "stamped"]_vars

(* And so the code says it is for every process.                              *)
LaterChecksWin == \A p \in Processes : Yields(p)

(* An update plan retains its registered source.                              *)
PlansKeepTheirSource == \A p \in Processes : pc[p] # "panicked"
=============================================================================
