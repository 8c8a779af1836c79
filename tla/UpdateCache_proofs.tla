------------------------- MODULE UpdateCache_proofs -------------------------
(***************************************************************************)
(* Proofs about UpdateCache for any number of screens and commands.  The   *)
(* inductive invariant bounds every generation that anybody holds by the   *)
(* mark (Ordered), keeps pending generations apart from recorded ones      *)
(* (Apart), ties what a process carries to its place (Placed), and bounds  *)
(* what a fetch may publish by the upstream (Fetching).                    *)
(***************************************************************************)
EXTENDS UpdateCache, TLAPS

(* Before the mark is first written nothing has been handed out.  From then   *)
(* on it is at or above every generation, the legacy row's included.          *)
Ordered ==
  /\ setting = 0 => \A p \in Processes : gen[p] = 0
  /\ \A p \in Processes : gen[p] <= setting
  /\ row # NoRow => registered /\ (setting # 0 => row.gen <= setting)
  /\ registered => \A p \in Processes : seen[p] # NoRow => seen[p].gen <= Held

(* Nor does a pending generation occur on a row that a process remembers,     *)
(* under whose generation a verified apply may still write.                   *)
Apart == registered => \A p, q \in Processes : gen[p] # 0 /\ seen[q] # NoRow => seen[q].gen # gen[p]

Placed(p) ==
  /\ gen[p] # 0 <=> pc[p] \in {"reserved", "reading", "fetched", "judged", "stamped", "panicked"}
  /\ pc[p] = "judged" => answer[p] \in Verdicts
  /\ pc[p] = "reading" => from[p] # 0
  /\ pc[p] \in {"fetched", "confirm", "guarded"} => from[p] # 0 /\ to[p] # 0
  /\ pc[p] \in {"closed", "idle", "confirm", "guarded"} => answer[p] = "none"
  /\ pc[p] \in {"merged", "refreshed"} => answer[p] \in {"none", "Failed", "unwritten"}
  /\ pc[p] \in {"verified", "stamped"} => answer[p] \in {"UpToDate", "Failed", "unwritten"}
  /\ pc[p] = "recorded" /\ answer[p] = "Available" => from[p] # 0 /\ to[p] # 0
  /\ pc[p] = "judged" /\ answer[p] = "Available" => from[p] # 0 /\ to[p] # 0
  /\ p \in Screens /\ pc[p] \in Applying => seen[p] # NoRow /\ basis[p] = seen[p].gen

Fetching ==
  /\ tracking <= remote
  /\ \A p \in Processes : /\ pc[p] = "reading" => before[p] <= remote
                          /\ pc[p] = "fetched" => before[p] <= to[p] /\ to[p] <= remote

IInv == /\ TypeOK /\ GenerationsNotShared /\ Ordered /\ Apart /\ Fetching
        /\ \A p \in Processes : Placed(p)

LEMMA InitIInv == Init => IInv
  BY BoundsAreNatural, NoRowIsNoRow
  DEF Init, IInv, TypeOK, GenerationsNotShared, Ordered, Apart, Placed, Fetching, Row,
      Verdicts, Revisions, Processes, Applying, Held, Larger

(* What a reservation establishes: its generation is above everything that    *)
(* was handed out, recorded or remembered.                                    *)
LEMMA Reserved ==
  ASSUME IInv, NEW p \in Processes, NEW count \in Nat, NEW index \in 1 .. count,
         Reserve(p, count, index)
  PROVE  /\ setting' \in 1 .. MaxGeneration
         /\ \E g \in 1 .. MaxGeneration :
              /\ gen' = [gen EXCEPT ![p] = g]
              /\ Held < g /\ g <= setting' /\ setting < g
  <1>1. Held \in Nat /\ setting <= Held
    BY BoundsAreNatural DEF IInv, TypeOK, Held, Larger, Row
  <1>2. PICK floor \in Nat :
          /\ Larger(floor, Held + 1) + count - 1 <= MaxGeneration
          /\ setting' = Larger(floor, Held + 1) + count - 1
          /\ gen' = [gen EXCEPT ![p] = Larger(floor, Held + 1) + index - 1]
    BY BoundsAreNatural DEF Reserve
  <1> DEFINE first == Larger(floor, Held + 1)
  <1>3. first \in Nat /\ Held < first BY <1>1 DEF Larger
  <1> HIDE DEF first
  <1>4. /\ setting' \in 1 .. MaxGeneration
        /\ first + index - 1 \in 1 .. MaxGeneration
        /\ Held < first + index - 1 /\ first + index - 1 <= setting'
    BY <1>1, <1>2, <1>3, BoundsAreNatural DEF first
  <1>5. setting < first + index - 1
    BY <1>1, <1>3, <1>4, BoundsAreNatural DEF IInv, TypeOK
  <1>6. gen' = [gen EXCEPT ![p] = first + index - 1] BY <1>2 DEF first
  <1>7. QED BY <1>4, <1>5, <1>6

LEMMA ReservedStep ==
  ASSUME IInv, NEW v \in Processes, NEW count \in Nat, NEW index \in 1 .. count,
         Reserve(v, count, index),
         \/ \E place \in {"idle", "ready"} : Step(v, place, "reserved")
         \/ Step(v, "verified", "stamped"),
         UNCHANGED <<row, registered, checkout, remote, memory, plan, answer>>
  PROVE  IInv'
  <1> USE BoundsAreNatural, NoRowIsNoRow
      DEF IInv, TypeOK, Revisions, Verdicts, Applying, checkout, plan, memory
  <1>1. PICK g \in 1 .. MaxGeneration :
          /\ gen' = [gen EXCEPT ![v] = g]
          /\ Held < g /\ g <= setting' /\ setting < g
    BY Reserved
  <1>2. setting' \in 1 .. MaxGeneration BY Reserved
  <1>3. PICK next \in {"reserved", "stamped"} :
          /\ pc' = [pc EXCEPT ![v] = next]
          /\ next = "reserved" => pc[v] \in {"idle", "ready"}
          /\ next = "stamped" => pc[v] = "verified"
    BY DEF Step
  <1>4. /\ row # NoRow => row.gen \in 1 .. MaxGeneration /\ row.gen <= Held
        /\ Held \in Nat /\ setting <= Held
    BY DEF Held, Larger, Row
  <1>5. \A p \in Processes : seen[p] # NoRow => seen[p].gen \in 1 .. MaxGeneration
    BY DEF Row
  <1>6. TypeOK' BY <1>1, <1>2, <1>3
  <1>7. \A p \in Processes : gen[p] <= setting /\ gen[p] < g
    BY <1>1 DEF Ordered
  <1>8. GenerationsNotShared'
    BY <1>1, <1>4, <1>7 DEF GenerationsNotShared
  <1>9. Ordered'
    <2>1. Held' \in Nat /\ setting' <= Held' BY <1>2, <1>4 DEF Held, Larger
    <2>2. row' # NoRow => registered' /\ row'.gen <= setting'
      BY <1>1, <1>2, <1>4 DEF Ordered
    <2>3. registered' => \A p \in Processes : seen'[p] # NoRow => seen'[p].gen <= Held'
      BY <1>1, <1>2, <1>4, <1>5, <2>1 DEF Ordered
    <2>4. \A p \in Processes : gen'[p] <= setting' BY <1>1, <1>2, <1>7
    <2>5. QED BY <1>2, <2>2, <2>3, <2>4 DEF Ordered
  <1>10. Apart' BY <1>1, <1>4, <1>5 DEF Apart, Ordered
  <1>11. Fetching' BY <1>3 DEF Fetching
  <1>12. \A p \in Processes : Placed(p)' BY <1>1, <1>3 DEF Placed
  <1>13. QED BY <1>6, <1>8, <1>9, <1>10, <1>11, <1>12

(* A check, from the opening of the store to the plan of a command.           *)
LEMMA CheckStep == ASSUME IInv, NEW v \in Processes, Check(v) PROVE IInv'
  <1> USE BoundsAreNatural, NoRowIsNoRow, ScreensAreNoCommands
      DEF IInv, TypeOK, GenerationsNotShared, Ordered, Apart, Placed, Fetching,
          Verdicts, Revisions, Applying, Held, Larger, Step, store, checkout, plan, memory
  <1>0. row # NoRow => row.gen \in 1 .. MaxGeneration
    BY DEF Row
  <1>1. CASE Open(v) BY <1>0, <1>1 DEF Open
  <1>2. CASE ReserveForCheck(v)
    <2>1. PICK count \in Nat : \E index \in 1 .. count : Reserve(v, count, index)
      BY <1>2 DEF ReserveForCheck
    <2>2. PICK index \in 1 .. count : Reserve(v, count, index) BY <2>1
    <2>3. QED BY <1>2, <2>2, ReservedStep DEF ReserveForCheck
  <1>3. CASE ReadCheckout(v) BY <1>3 DEF ReadCheckout
  <1>4. CASE Transfer(v) BY <1>4 DEF Transfer
  <1>5. CASE Publish(v) BY <1>5 DEF Publish, Judge, Compared
  <1>6. CASE ProbeFails(v) BY <1>6 DEF ProbeFails
  <1>7. CASE CancelCheck(v) BY <1>7 DEF CancelCheck, GiveUp, Rest
  <1>8. CASE Record(v) BY <1>0, <1>8 DEF Record, Upsert, UpsertIfNewer, Observed, Row
  <1>9. CASE RecordFails(v) BY <1>9 DEF RecordFails, GiveUp, Rest
  <1>10. CASE ReadBack(v) BY <1>0, <1>10 DEF ReadBack, Rest, HeadOfSource
  <1>11. CASE PlanFromProbe(v) BY <1>0, <1>11 DEF PlanFromProbe
  <1>12. CASE NothingToApply(v) BY <1>12 DEF NothingToApply, GiveUp, Rest
  <1>13. QED BY <1>1, <1>2, <1>3, <1>4, <1>5, <1>6, <1>7, <1>8, <1>9, <1>10, <1>11, <1>12
             DEF Check

(* An apply, from the preview of a screen to the row that is read back.       *)
LEMMA ApplyStep == ASSUME IInv, NEW v \in Processes, Apply(v) PROVE IInv'
  <1> USE BoundsAreNatural, NoRowIsNoRow, ScreensAreNoCommands
      DEF IInv, TypeOK, GenerationsNotShared, Ordered, Apart, Placed, Fetching,
          Verdicts, Revisions, Applying, Held, Larger, Step, store, checkout, plan, memory
  <1>0. row # NoRow => row.gen \in 1 .. MaxGeneration
    BY DEF Row
  <1>1. CASE Preview(v) BY <1>1 DEF Preview, Row
  <1>2. CASE Dismiss(v) BY <1>2 DEF Dismiss, GiveUp, Rest
  <1>3. CASE Guard(v) BY <1>3 DEF Guard
  <1>4. CASE GuardRefuses(v) BY <1>4 DEF GuardRefuses
  <1>5. CASE Merge(v) BY <1>5 DEF Merge
  <1>6. CASE MergeFails(v) BY <1>6 DEF MergeFails
  <1>7. CASE Refresh(v) BY <1>7 DEF Refresh, HeadOfSource
  <1>8. CASE RefreshFails(v) BY <1>8 DEF RefreshFails, GiveUp, Rest
  <1>9. CASE Verify(v)
    <2>1. /\ pc' = [pc EXCEPT ![v] = "verified"] /\ pc[v] = "refreshed"
          /\ from' = [from EXCEPT ![v] = 0] /\ to' = [to EXCEPT ![v] = 0]
          /\ UNCHANGED <<setting, row, registered, head, previous, tracking, remote, seen,
                        known, gen, basis, before>>
      BY <1>9 DEF Verify
    <2>2. PICK a \in {"UpToDate", "Failed", "unwritten"} : answer' = [answer EXCEPT ![v] = a]
      BY <1>9 DEF Verify
    <2>3. QED BY <2>1, <2>2
  <1>10. CASE ReserveForResult(v)
    <2>1. Reserve(v, 1, 1) /\ 1 \in Nat /\ 1 \in 1 .. 1 BY <1>10 DEF ReserveForResult
    <2>2. /\ Step(v, "verified", "stamped")
          /\ UNCHANGED <<row, registered, checkout, remote, memory, plan, answer>>
      BY <1>10 DEF ReserveForResult
    <2>3. IInv OBVIOUS
    <2>4. QED BY ONLY <2>1, <2>2, <2>3, ReservedStep
  <1>11. CASE StampFails(v) BY <1>11 DEF StampFails, GiveUp, Rest
  <1>12. CASE RecordResult(v)
    BY <1>0, <1>12 DEF RecordResult, Upsert, ClearFailure, Result, PlannedAt, Row
  <1>13. CASE ExpectSource(v) BY <1>13 DEF ExpectSource
  <1>14. CASE ResultFails(v) BY <1>14 DEF ResultFails, GiveUp, Rest
  <1>15. CASE ReadResultBack(v)
    <2>1. ASSUME NEW r \in {row, seen[v]}, Rest(v, "cached", r, known[v]) PROVE IInv'
      BY <1>0, <1>15, <2>1 DEF ReadResultBack, Rest
    <2>2. QED BY <1>15, <2>1 DEF ReadResultBack
  <1>16. QED BY <1>1, <1>2, <1>3, <1>4, <1>5, <1>6, <1>7, <1>8, <1>9, <1>10, <1>11, <1>12,
                <1>13, <1>14, <1>15 DEF Apply

(* The environment and crashes.                                               *)
LEMMA OtherStep ==
  ASSUME IInv,
         \/ OtherGitMoves \/ Advance \/ ForgottenElsewhere
         \/ \E p \in Processes : Crash(p)
         \/ UNCHANGED vars
  PROVE  IInv'
  <1> USE BoundsAreNatural, NoRowIsNoRow
      DEF IInv, TypeOK, GenerationsNotShared, Ordered, Apart, Placed, Fetching,
          Verdicts, Revisions, Applying, Held, Larger, store, checkout, plan, memory
  <1>1. CASE OtherGitMoves BY <1>1 DEF OtherGitMoves
  <1>2. CASE Advance BY <1>2 DEF Advance
  <1>3. CASE ForgottenElsewhere BY <1>3 DEF ForgottenElsewhere
  <1>4. ASSUME NEW p \in Processes, Crash(p) PROVE IInv' BY <1>4 DEF Crash
  <1>5. CASE UNCHANGED vars BY <1>5 DEF vars
  <1>6. QED BY <1>1, <1>2, <1>3, <1>4, <1>5

LEMMA Inductive == Spec => []IInv
  <1>1. Init => IInv BY InitIInv
  <1>2. IInv /\ [Next]_vars => IInv' BY CheckStep, ApplyStep, OtherStep DEF Next
  <1>3. QED BY <1>1, <1>2, PTL DEF Spec

-----------------------------------------------------------------------------
(* The store, the checkout and every process keep their types.                *)
THEOREM TypeCorrect == Spec => []TypeOK
  <1>1. IInv => TypeOK BY DEF IInv
  <1>2. QED BY <1>1, Inductive, PTL

(* No two processes hold one generation, however far the clocks went back and *)
(* whatever an earlier version left in the store.                             *)
THEOREM GenerationsApart == Spec => []GenerationsNotShared
  <1>1. IInv => GenerationsNotShared BY DEF IInv
  <1>2. QED BY <1>1, Inductive, PTL

(* A check that lands after its source was forgotten leaves no row behind.    *)
THEOREM RowsOwned == Spec => []RowsHaveSources
  <1>1. IInv => RowsHaveSources BY DEF IInv, Ordered, RowsHaveSources
  <1>2. QED BY <1>1, Inductive, PTL

(* A verified apply from a screen yields to every check reserved after the    *)
(* check its preview was built from.                                          *)
THEOREM ScreensGiveWay == Spec => []ScreensYield
  <1>1. IInv => ScreensYield
    BY DEF IInv, Placed, ScreensYield, Yields, PlannedAt, Processes
  <1>2. QED BY <1>1, Inductive, PTL

(* Whatever processes and clocks do, generations are never shared, a screen's *)
(* apply yields to later checks, and no recorded answer is replaced by an     *)
(* earlier one, save a failure by a verified apply that completed after it.   *)
THEOREM LaterAnswers == Spec => LaterAnswersStay
  <1> DEFINE Replaced == row # NoRow /\ row' # NoRow /\ row' # row =>
                           \/ row'.gen >= row.gen
                           \/ /\ row.verdict = "Failed" /\ row'.verdict = "UpToDate"
                              /\ \E p \in Processes : gen[p] > row.gen /\ pc[p] = "stamped"
  <1>1. IInv /\ IInv' /\ [Next]_vars => [Replaced]_vars
    <2> SUFFICES ASSUME IInv, IInv', Next PROVE Replaced BY DEF vars
    <2>0. /\ row # NoRow => row.gen \in 1 .. MaxGeneration
          /\ row' # NoRow => row'.gen \in 1 .. MaxGeneration
      BY DEF IInv, TypeOK, Row
    <2>1. ASSUME NEW p \in Processes, Record(p) PROVE Replaced
      BY <2>0, <2>1, BoundsAreNatural DEF Record, Upsert, UpsertIfNewer
    <2>2. ASSUME NEW p \in Processes, RecordResult(p) PROVE Replaced
      <3>1. CASE answer[p] = "UpToDate" /\ ClearFailure(p) = NoRow
        BY <2>0, <2>2, <3>1, BoundsAreNatural
        DEF RecordResult, Upsert, ClearFailure, Result, Step, IInv, TypeOK
      <3>2. CASE ~(answer[p] = "UpToDate" /\ ClearFailure(p) = NoRow)
        BY <2>0, <2>2, <3>2, BoundsAreNatural DEF RecordResult, Upsert, ClearFailure
      <3>3. QED BY <3>1, <3>2
    <2>3. ASSUME NEW p \in Processes, Check(p), ~Record(p) PROVE Replaced
      BY <2>3 DEF Check, Open, ReserveForCheck, ReadCheckout, Transfer, Publish, ProbeFails,
                  CancelCheck, RecordFails, ReadBack, PlanFromProbe, NothingToApply, GiveUp,
                  store
    <2>4. ASSUME NEW p \in Processes, Apply(p), ~RecordResult(p) PROVE Replaced
      BY <2>4 DEF Apply, Preview, Dismiss, Guard, GuardRefuses, Merge, MergeFails, Refresh,
                  RefreshFails, Verify, ReserveForResult, StampFails, ExpectSource,
                  ResultFails, ReadResultBack, GiveUp, store
    <2>5. QED BY <2>1, <2>2, <2>3, <2>4
              DEF Next, Crash, OtherGitMoves, Advance, ForgottenElsewhere, store
  <1>2. IInv /\ IInv' /\ [Next]_vars =>
          [GenerationsNotShared' /\ ScreensYield' /\ Replaced]_vars
    BY <1>1 DEF IInv, Placed, ScreensYield, Yields, PlannedAt, Processes
  <1>3. QED BY <1>2, Inductive, PTL DEF Spec, LaterAnswersStay

(* However fetches overlap, the tracking reference only advances.             *)
THEOREM TrackingAdvances == Spec => TrackingNeverRollsBack
  <1>1. IInv /\ [Next]_vars => [tracking' >= tracking]_vars
    <2> SUFFICES ASSUME IInv, Next PROVE tracking' >= tracking BY DEF vars
    <2> USE DEF IInv, TypeOK, Revisions
    <2>1. ASSUME NEW p \in Processes, Check(p) PROVE tracking' >= tracking
      <3>1. CASE Publish(p)
        BY <2>1, <3>1, BoundsAreNatural DEF Publish, Fetching, Step
      <3>2. CASE ~Publish(p)
        BY <2>1, <3>2, BoundsAreNatural
        DEF Check, Open, ReserveForCheck, ReadCheckout, Transfer, ProbeFails, CancelCheck,
            Record, RecordFails, ReadBack, PlanFromProbe, NothingToApply, GiveUp, checkout
      <3>3. QED BY <3>1, <3>2
    <2>2. ASSUME NEW p \in Processes, Apply(p) PROVE tracking' >= tracking
      BY <2>2, BoundsAreNatural
      DEF Apply, Preview, Dismiss, Guard, GuardRefuses, Merge, MergeFails, Refresh,
          RefreshFails, Verify, ReserveForResult, StampFails, RecordResult, ExpectSource,
          ResultFails, ReadResultBack, GiveUp, checkout
    <2>3. QED
      BY <2>1, <2>2, BoundsAreNatural
      DEF Next, Crash, OtherGitMoves, Advance, ForgottenElsewhere, checkout, Fetching
  <1>2. QED BY <1>1, Inductive, PTL DEF Spec, TrackingNeverRollsBack
=============================================================================
