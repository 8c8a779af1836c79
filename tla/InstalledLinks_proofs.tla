------------------------ MODULE InstalledLinks_proofs ------------------------
(***************************************************************************)
(* Proofs about the links Skilled installs, in two parts.                  *)
(*                                                                         *)
(* LinkExchange, the replacement of one link, for any set of strangers:    *)
(* type correctness, the four state invariants, the action property and    *)
(* the refinement of LinkReplacement.  One inductive invariant carries     *)
(* them all: it says, at each place in the repair, where the repair's own  *)
(* link, the proven link and the displaced object are.                     *)
(*                                                                         *)
(* LinkPlanning, with the scan of Diagnosis it extends, for any variants   *)
(* and any world: what a scan, a plan, a report and Doctor say is so.      *)
(* ScanInv ties what a pass has read to what is there, and PlanInv what a  *)
(* plan states to what each target, and OpenCode, will find.               *)
(***************************************************************************)
EXTENDS LinkExchange, LinkPlanning, FiniteSetTheorems, TLAPS

-----------------------------------------------------------------------------
(* The replacement of one link *)

Before    == {"pin", "prove", "stage"}
Displaced == {"inspect", "discard", "discardUnlink", "revert", "reread"}
Live      == {"record", "recheck", "commit"}
Undoing   == {"undo", "undoUnlink"}

(* The proven link is not destroyed before the replacement is accepted.       *)
OldKept == pc \in Before \cup {"exchange"} \cup Displaced \cup Undoing
             => Old \in {dest, temp} \cup lost

(* Where the replacement is, and whether the temporary name is in use.        *)
Whereabouts ==
  /\ pc \in Before => temp = Nothing /\ dest # New
  /\ pc = "exchange" => temp = New /\ dest # New
  /\ pc \in Displaced => temp \notin {New, Nothing} /\ New \in {dest} \cup lost
  /\ pc \in Live => temp # New /\ New \in {dest} \cup lost /\ (residue <=> temp # Nothing)
  /\ pc \in Undoing => temp # Nothing /\ dest # New
  /\ residue => pc \in Live \cup {"done", "crashed"}
  /\ receipt => pc = "done"

(* What a read established is still so at the unlink: nobody else reaches the *)
(* temporary name.                                                            *)
ReadsHold == /\ pc = "discardUnlink" => Text[temp] = "proven"
             /\ pc = "undoUnlink" => Text[temp] = "target"

IInv == /\ TypeOK
        /\ OldKept
        /\ Whereabouts
        /\ ReadsHold
        /\ ArrivalsSurvive
        /\ FailedLeavesNoTrace
        /\ ResidueIsReported
        /\ ReceiptForLiveReplacement

(* What each object's link text is, as every case analysis of the proof needs *)
(* it: the planned link, the replacement and the arrivals are told apart by   *)
(* the text read_link returns, and nothing at a path has no text.             *)
LEMMA TextOfObjects ==
  /\ Text \in [Objects -> {"proven", "target", "other", "notlink"}]
  /\ Text[Old] = "proven" /\ Text[New] = "target"
  /\ Old \in Objects /\ New \in Objects /\ Nothing \notin Objects
  /\ Strangers \subseteq Objects
  BY Distinct, Texts DEF Text, Objects

(* The repair starts in the inductive invariant.                              *)
LEMMA InitIInv == Init => IInv
  BY TextOfObjects, Distinct
  DEF Init, IInv, TypeOK, Labels, Outcomes, OldKept, Before, Displaced, Live, Undoing,
      Whereabouts, ReadsHold, ArrivalsSurvive, FailedLeavesNoTrace, ResidueIsReported,
      ReceiptForLiveReplacement

(* Every step of the repair, of a crash and of the other writers keeps it.    *)
LEMMA StepIInv == IInv /\ [Next]_vars => IInv'
<1> SUFFICES ASSUME IInv, [Next]_vars PROVE IInv'
  OBVIOUS
<1> USE TextOfObjects, Distinct
    DEF IInv, TypeOK, Labels, Outcomes, OldKept, Before, Displaced, Live, Undoing,
        Whereabouts, ReadsHold, ArrivalsSurvive, FailedLeavesNoTrace, ResidueIsReported,
        ReportsResidue, ReceiptForLiveReplacement, At, Goto, End, files
<1>1. CASE Pin
  BY <1>1 DEF Pin
<1>2. CASE Prove
  BY <1>2 DEF Prove, Reads
<1>3. CASE Stage
  BY <1>3 DEF Stage
<1>4. CASE Exchange
  BY <1>4 DEF Exchange, Exchanged
<1>5. CASE Inspect
  BY <1>5 DEF Inspect, Reads
<1>6. CASE Discard
  <2>1. CASE Reads(temp, "proven") /\ Goto("discardUnlink") /\ UNCHANGED residue
    BY <1>6, <2>1 DEF Discard, Reads
  <2>2. CASE temp = Nothing /\ Goto("record") /\ UNCHANGED residue
    BY <1>6, <2>2 DEF Discard
  <2>3. CASE temp # Nothing /\ residue' = TRUE /\ Goto("record")
    BY <1>6, <2>3 DEF Discard
  <2>4. QED
    BY <1>6, <2>1, <2>2, <2>3 DEF Discard
<1>7. CASE DiscardUnlink
  BY <1>7 DEF DiscardUnlink
<1>8. CASE Revert
  BY <1>8 DEF Revert, Exchanged
<1>9. CASE Undo
  BY <1>9 DEF Undo, Reads
<1>10. CASE UndoUnlink
  BY <1>10 DEF UndoUnlink
<1>11. CASE Reread
  BY <1>11 DEF Reread, Reads
<1>12. CASE Record
  BY <1>12 DEF Record, Unrecorded
<1>13. CASE RecheckRoot
  BY <1>13 DEF RecheckRoot
<1>14. CASE Commit
  BY <1>14 DEF Commit, Unrecorded
<1>15. CASE Crash
  BY <1>15 DEF Crash
<1>16. CASE Arrive
  BY <1>16 DEF Arrive
<1>17. CASE Remove
  BY <1>17 DEF Remove
<1>18. CASE MoveRoot
  BY <1>18 DEF MoveRoot
<1>19. CASE UNCHANGED vars
  BY <1>19 DEF vars
<1>20. QED
  BY <1>1, <1>2, <1>3, <1>4, <1>5, <1>6, <1>7, <1>8, <1>9, <1>10, <1>11, <1>12, <1>13,
       <1>14, <1>15, <1>16, <1>17, <1>18, <1>19 DEF Next, Repair, Others

(* The inductive invariant holds in every state of the repair.                *)
LEMMA Invariance == Spec => []IInv
  BY InitIInv, StepIInv, PTL DEF Spec

(* Types of the two entries, the place in the repair and its outcome.         *)
THEOREM TypeCorrect == Spec => []TypeOK
  BY Invariance, PTL DEF IInv

(* Through every race, failure and crash, no object another writer put at the *)
(* installation path is destroyed by replace_directory_symlink_with.          *)
THEOREM NoArrivalDestroyed == Spec => []ArrivalsSurvive
  BY Invariance, PTL DEF IInv

(* "Nothing was written" (ReplaceLinkError::Unchanged and its kin) is true.   *)
THEOREM FailureIsClean == Spec => []FailedLeavesNoTrace
  BY Invariance, PTL DEF IInv

(* A leftover at the temporary name is reported exactly when there is one.    *)
THEOREM ResidueReported == Spec => []ResidueIsReported
  BY Invariance, PTL DEF IInv

(* apply_repair_target commits no receipt for a replacement that is not live. *)
THEOREM ReceiptIsTrue == Spec => []ReceiptForLiveReplacement
  BY Invariance, PTL DEF IInv

(* No system call of the repair leaves the installation path empty.           *)
THEOREM PathNeverVacated == Spec => NeverVacated
<1>1. ASSUME IInv, [Next]_vars PROVE [Repair /\ dest # Nothing => dest' # Nothing]_vars
  <2>1. SUFFICES ASSUME Repair, dest # Nothing PROVE dest' # Nothing
    OBVIOUS
  <2>2. CASE Exchange
    BY <2>1, <2>2 DEF Exchange, Exchanged
  <2>3. CASE Revert
    BY <2>1, <2>3 DEF Revert, Exchanged
  <2>4. CASE Repair /\ ~Exchange /\ ~Revert
    BY <2>1, <2>4 DEF Repair, Pin, Prove, Stage, Inspect, Discard, DiscardUnlink, Undo,
                      UndoUnlink, Reread, Record, RecheckRoot, Commit, files
  <2>5. QED
    BY <2>1, <2>2, <2>3, <2>4
<1>2. QED
  BY <1>1, Invariance, PTL DEF Spec, NeverVacated

-----------------------------------------------------------------------------
(* The repair's steps under the refinement mapping: staging is Stage, the     *)
(* exchange and its reversal are Swap, an unlink of the temporary name is     *)
(* Discard, the commit is Commit, and everything else stutters.               *)
LEMMA StepRefines == IInv /\ [Next]_vars => [Promise!Next]_(Promise!vars)
<1> SUFFICES ASSUME IInv, [Next]_vars PROVE [Promise!Next]_(Promise!vars)
  OBVIOUS
<1> USE TextOfObjects, Distinct DEF Promise!Next, Promise!vars
<1>1. CASE Stage
  <2>1. temp = Nothing
    BY <1>1 DEF IInv, Whereabouts, Before, Stage, At
  <2>2. temp' = New \/ UNCHANGED temp
    BY <1>1 DEF Stage
  <2>3. QED
    BY <1>1, <2>1, <2>2 DEF Stage, Promise!Stage
<1>2. CASE Exchange \/ Revert
  <2>1. CASE Exchanged
    BY <1>2, <2>1 DEF Exchange, Revert, Exchanged, Promise!Swap
  <2>2. CASE UNCHANGED <<dest, temp>>
    BY <1>2, <2>2 DEF Exchange, Revert
  <2>3. QED
    BY <1>2, <2>1, <2>2 DEF Exchange, Revert
<1>3. CASE DiscardUnlink \/ UndoUnlink
  <2>1. temp \in Objects /\ Text[temp] \in {"proven", "target"}
    BY <1>3 DEF IInv, TypeOK, Whereabouts, ReadsHold, Displaced, Undoing, DiscardUnlink,
                UndoUnlink, At
  <2>2. CASE temp' = Nothing
    BY <1>3, <2>1, <2>2 DEF DiscardUnlink, UndoUnlink, Promise!Discard,
                            Promise!Discardable, Promise!Objects, Objects
  <2>3. CASE temp' = temp
    BY <1>3, <2>3 DEF DiscardUnlink, UndoUnlink
  <2>4. QED
    BY <1>3, <2>2, <2>3 DEF DiscardUnlink, UndoUnlink
<1>4. CASE Commit
  <2>1. temp # New /\ receipt = FALSE
    BY <1>4 DEF IInv, TypeOK, Whereabouts, Live, Commit, At
  <2>2. QED
    BY <1>4, <2>1 DEF Commit, Promise!Commit, files
<1>5. CASE Pin \/ Prove \/ Inspect \/ Discard \/ Undo \/ Reread \/ Record \/ RecheckRoot
           \/ Crash \/ MoveRoot
  BY <1>5 DEF Pin, Prove, Inspect, Discard, Undo, Reread, Record, RecheckRoot, Crash,
              MoveRoot, files
<1>6. CASE Arrive \/ Remove
  BY <1>6 DEF Arrive, Remove, Promise!Others
<1>7. CASE UNCHANGED vars
  BY <1>7 DEF vars
<1>8. QED
  BY <1>1, <1>2, <1>3, <1>4, <1>5, <1>6, <1>7 DEF Next, Repair, Others

(* The system calls of a repair implement the promise of LinkReplacement.     *)
THEOREM Refinement == Spec => Refines
<1>1. Init => Promise!Init
  BY Distinct DEF Init, Promise!Init
<1>2. QED
  BY <1>1, Invariance, StepRefines, PTL DEF Spec, Refines, Promise!Spec

-----------------------------------------------------------------------------
(* The pass of Diagnosis: the inductive invariant *)

Suffixes == {ScanOrder, <<"codex", "opencode">>, <<"opencode">>, <<>>}

\* the agents left to scan
Waiting(agents) ==
  CASE agents = ScanOrder -> Agents
    [] agents = <<"codex", "opencode">> -> {"codex", "opencode"}
    [] agents = <<"opencode">> -> {"opencode"}
    [] OTHER -> {}

BeforePass == {"plan", "recheck", "write", "refused", "index"}
Inspecting == {"observe", "validate", "settle"}

Placed == Places \cup {Outside, None}
Observations ==
  [object : {"absent", "unknown", "file", "link", "directory"},
   at : Places \cup {Outside, "nowhere", "unknown"},
   provenance : Variants \cup {None, "unregistered", "unverified"},
   health : {"none", "broken", "unreachable", "not a skill", "unmanaged", "unverified", "healthy"},
   validated : Placed]
Readings ==
  [object : {"link", "directory"}, at : Places \cup {Outside}, validated : Placed,
   resolution : Variants \cup {None}]

WorldTypes ==
  /\ slot \in [Agents -> Plain \cup Places]
  /\ content \in [Places -> ContentKinds]
  /\ \A p \in Places \ Variants : content[p] # "outside"
  /\ root \in [Agents -> RootKinds]
  /\ selected \subseteq Agents
  /\ catalog \in [Variants -> Catalogued]
  /\ metadata \in BOOLEAN

PassTypes ==
  /\ budget \in Nat /\ others \in Nat /\ during \in 0..2
  /\ swapped \in BOOLEAN /\ complete \in BOOLEAN /\ accountable \in BOOLEAN
  /\ stage \in BeforePass \cup Inspecting \cup {"roots", "done"}
  /\ todo \in Suffixes
  /\ status \in [Agents -> {"not scanned", "not selected", "missing", "unreadable", "scanned"}]
  /\ seen \in [Agents -> Observations]

\* Before the pass nothing has been scanned.
Unbegun ==
  stage \in BeforePass =>
     /\ todo = ScanOrder
     /\ stage # "index" => ~swapped

\* The index says what is registered, as it is now: nothing it was built from changes.
Indexed ==
  stage \notin BeforePass =>
     /\ index = {v \in Offered : content[v] \notin {"gone", "sealed", "outside"}}
     /\ accountable = Accountable

\* What is observed of an entry that nobody swaps.
Resolved(a) == IF Canonical(slot[a]) \in index THEN slot[a] ELSE None
ReadingOf(a, validated) ==
  [object |-> IF slot[a] = a THEN "directory" ELSE "link", at |-> Canonical(slot[a]),
   validated |-> validated, resolution |-> Resolved(a)]
Expected(a) ==
  CASE slot[a] = "absent" -> NotSeen
    [] slot[a] = "unreadable"
         -> Observation("unknown", "unknown", "unverified", "broken", None)
    [] slot[a] = "file" -> Observation("file", "nowhere", "unregistered", "not a skill", None)
    [] slot[a] \in Places \ {a} /\ content[slot[a]] = "sealed"
         -> Observation("link", "unknown", "unverified", "unreachable", None)
    [] slot[a] \in Places \ {a} /\ content[slot[a]] = "gone"
         -> Observation("link", "nowhere", Provenance(None), "broken", None)
    [] Found(a) = "valid"
         -> Observation(ReadingOf(a, None).object, Canonical(slot[a]), Provenance(Resolved(a)),
                        CASE Provenance(Resolved(a)) = "unregistered" -> "unmanaged"
                          [] Provenance(Resolved(a)) = "unverified" -> "unverified"
                          [] OTHER -> "healthy",
                        Canonical(slot[a]))
    [] OTHER -> Observation(ReadingOf(a, None).object, Unloadable(Found(a)),
                            Provenance(Resolved(a)), "broken", None)

\* A root that was taken got the status its state calls for, and its entry, unless it was
\* swapped, the observation it calls for.
Scanned(a) ==
  /\ status[a] # "not scanned"
  /\ status[a] = "not selected" <=> a \notin selected
  /\ status[a] # "scanned" => seen[a] = NotSeen
  /\ status[a] = "missing" => root[a] \in {"missing", "orphaned"}
  /\ status[a] = "unreadable" => root[a] \notin {"missing", "orphaned"}
  /\ status[a] = "scanned" => Listable(a) /\ (~swapped => seen[a] = Expected(a))

Visited ==
  /\ \A a \in Agents : IF a \in Waiting(todo) THEN status[a] = "not scanned" /\ seen[a] = NotSeen
                       ELSE Scanned(a)
  /\ stage = "done" => todo = <<>>

\* The entry under inspection, unless somebody came between.
Inspected ==
  stage \in Inspecting =>
     /\ todo # <<>>
     /\ LET a == Head(todo)
        IN  /\ a \in selected /\ Listable(a)
            /\ ~swapped => slot[a] # "absent"
            /\ ~swapped /\ stage # "observe" =>
                 /\ slot[a] \in Places
                 /\ slot[a] # a => content[slot[a]] \notin {"sealed", "gone"}
                 /\ reading = ReadingOf(a, reading.validated)
            /\ ~swapped /\ stage = "settle" =>
                 /\ Found(a) = "valid"
                 /\ reading.validated = Canonical(slot[a])

\* The entry under inspection, whoever came between: it was resolved to one place, is
\* that place's as long as nobody swapped anything, and was validated there if it is there.
Labelled ==
  stage \in {"validate", "settle"} =>
     /\ reading \in Readings
     /\ LET a == Head(todo)
        IN  \/ /\ reading.object = "directory"
               /\ reading.at = a
               /\ reading.resolution = None
            \/ /\ reading.object = "link"
               /\ \E o \in Places \ {a} :
                    /\ content[o] \notin {"gone", "sealed"}
                    /\ reading.at = Canonical(o)
                    /\ reading.resolution = IF Canonical(o) \in index THEN o ELSE None
                    /\ during = 0 => slot[a] = o
                    /\ stage = "settle" /\ during < 2 /\ slot[a] = o
                         => reading.validated = Canonical(o)

ScanInv ==
  /\ WorldTypes
  /\ PassTypes
  /\ Unbegun
  /\ Indexed
  /\ Visited
  /\ Inspected
  /\ Labelled

\* The three agents and the places a link can lead to are told apart from every label.
LEMMA AgentNames ==
  /\ "claude" \in Agents /\ "codex" \in Agents /\ "opencode" \in Agents
  /\ Agents \subseteq Places /\ Variants \subseteq Places /\ Private \in Places
  /\ Places \cap Plain = {} /\ Outside \notin Places /\ None \notin Places
  /\ Places \cap {"nowhere", "unknown", "unread", "unregistered", "unverified"} = {}
  BY VariantsAssumption DEF Agents, Places, Plain, Private, Outside, None

\* Taking the next agent off the scan order leaves the others waiting.
LEMMA WaitingMoves ==
  ASSUME NEW t \in Suffixes, t # <<>>
  PROVE  /\ Head(t) \in Agents /\ Head(t) \in Waiting(t)
         /\ Tail(t) \in Suffixes
         /\ Waiting(Tail(t)) = Waiting(t) \ {Head(t)}
  <1>1. CASE t = ScanOrder
    BY <1>1 DEF Suffixes, Waiting, ScanOrder, Agents
  <1>2. CASE t = <<"codex", "opencode">>
    BY <1>2 DEF Suffixes, Waiting, ScanOrder, Agents
  <1>3. CASE t = <<"opencode">>
    BY <1>3 DEF Suffixes, Waiting, ScanOrder, Agents
  <1> QED
    BY <1>1, <1>2, <1>3 DEF Suffixes

\* Everybody waits at the start of a pass and nobody at its end.
LEMMA WaitingEnds == Waiting(ScanOrder) = Agents /\ Waiting(<<>>) = {}
  BY DEF Waiting, ScanOrder

\* What is expected of an entry follows from the world and the index alone.
LEMMA ExpectedKept ==
  ASSUME UNCHANGED <<slot, content, index, accountable>>, NEW a \in Agents
  PROVE  /\ Expected(a)' = Expected(a)
         /\ Found(a)' = Found(a)
         /\ \A v : ReadingOf(a, v)' = ReadingOf(a, v)
  BY DEF Expected, Found, ReadingOf, Resolved, Provenance, Canonical

\* What an entry calls for, by the kind of the entry and of what it leads to.
LEMMA ExpectedIs ==
  ASSUME NEW a
  PROVE  /\ slot[a] = "absent" => Expected(a) = NotSeen
         /\ slot[a] = "unreadable"
              => Expected(a) = Observation("unknown", "unknown", "unverified", "broken", None)
         /\ slot[a] = "file"
              => Expected(a) = Observation("file", "nowhere", "unregistered", "not a skill", None)
         /\ slot[a] \in Places =>
              /\ slot[a] # a /\ content[slot[a]] = "sealed"
                   => Expected(a) = Observation("link", "unknown", "unverified", "unreachable", None)
              /\ slot[a] # a /\ content[slot[a]] = "gone"
                   => Expected(a) = Observation("link", "nowhere", Provenance(None), "broken", None)
              /\ slot[a] = a \/ content[slot[a]] \notin {"sealed", "gone"} =>
                   /\ Found(a) # "valid" =>
                        Expected(a) = Observation(ReadingOf(a, None).object, Unloadable(Found(a)),
                                                  Provenance(Resolved(a)), "broken", None)
                   /\ Found(a) = "valid" =>
                        Expected(a) =
                          Observation(ReadingOf(a, None).object, Canonical(slot[a]),
                                      Provenance(Resolved(a)),
                                      CASE Provenance(Resolved(a)) = "unregistered" -> "unmanaged"
                                        [] Provenance(Resolved(a)) = "unverified" -> "unverified"
                                        [] OTHER -> "healthy",
                                      Canonical(slot[a]))
  <1>1. slot[a] \in Places => slot[a] \notin {"absent", "unreadable", "file"}
    BY AgentNames DEF Plain
  <1>2. Found(a) = "valid" => slot[a] \in Places /\ content[slot[a]] \notin {"sealed", "gone"}
    BY DEF Found
  <1> DEFINE health == CASE Provenance(Resolved(a)) = "unregistered" -> "unmanaged"
                         [] Provenance(Resolved(a)) = "unverified" -> "unverified"
                         [] OTHER -> "healthy"
             sound == Observation(ReadingOf(a, None).object, Canonical(slot[a]),
                                  Provenance(Resolved(a)), health, Canonical(slot[a]))
             unsound == Observation(ReadingOf(a, None).object, Unloadable(Found(a)),
                                    Provenance(Resolved(a)), "broken", None)
  <1>3. Expected(a) =
          CASE slot[a] = "absent" -> NotSeen
            [] slot[a] = "unreadable"
                 -> Observation("unknown", "unknown", "unverified", "broken", None)
            [] slot[a] = "file" -> Observation("file", "nowhere", "unregistered", "not a skill", None)
            [] slot[a] \in Places \ {a} /\ content[slot[a]] = "sealed"
                 -> Observation("link", "unknown", "unverified", "unreachable", None)
            [] slot[a] \in Places \ {a} /\ content[slot[a]] = "gone"
                 -> Observation("link", "nowhere", Provenance(None), "broken", None)
            [] Found(a) = "valid" -> sound
            [] OTHER -> unsound
    BY DEF Expected
  <1> HIDE DEF sound, unsound
  <1>4. slot[a] \in {"absent", "unreadable", "file"} => ~(Found(a) = "valid")
    BY <1>1, <1>2
  <1>5. CASE slot[a] \in {"absent", "unreadable", "file"}
    BY <1>1, <1>3, <1>4, <1>5
  <1>6. CASE slot[a] \in Places
    BY <1>1, <1>2, <1>3, <1>6 DEF sound, unsound
  <1> QED
    BY <1>5, <1>6

\* An entry nobody looked at has an observation too.
LEMMA NotSeenTyped == NotSeen \in Observations
  BY DEF NotSeen, Observation, Observations, Placed

-----------------------------------------------------------------------------
(* The pass of Diagnosis: every step keeps the invariant *)

\* A pass begins in its invariant.
LEMMA InitScan == PlanInit => ScanInv
  <1> SUFFICES ASSUME PlanInit PROVE ScanInv
    OBVIOUS
  <1>1. PICK i \in DOMAIN Cases : \E c \in Cases[i] :
          Begins(c, IF c.request = NoRequest THEN "index" ELSE "plan")
    BY DEF PlanInit
  <1>2. PICK c \in Cases[i] : Begins(c, IF c.request = NoRequest THEN "index" ELSE "plan")
    BY <1>1
  <1>3. stage \in {"index", "plan"}
    BY <1>2 DEF Begins
  <1>4. WorldTypes /\ PassTypes
    <2>1. WorldTypes
      BY <1>2, CasesAssumption DEF Begins, WorldTypes
    <2>6. c.budget \in Nat /\ c.others \in Nat
      BY <1>2, CasesAssumption
    <2>7. budget = c.budget /\ others = c.others /\ during = 0
      BY <1>2 DEF Begins
    <2>2. budget \in Nat /\ others \in Nat /\ during \in 0..2
      BY <2>6, <2>7
    <2>3. status \in [Agents -> {"not scanned", "not selected", "missing", "unreadable", "scanned"}]
      BY <1>2 DEF Begins
    <2>4. seen \in [Agents -> Observations]
      BY <1>2, NotSeenTyped DEF Begins
    <2>5. todo \in Suffixes /\ swapped \in BOOLEAN /\ complete \in BOOLEAN /\ accountable \in BOOLEAN
      BY <1>2 DEF Begins, Suffixes
    <2> QED
      BY <1>3, <2>1, <2>2, <2>3, <2>4, <2>5 DEF PassTypes, BeforePass
  <1>5. Unbegun /\ Indexed /\ Inspected /\ Labelled
    BY <1>2, <1>3 DEF Begins, Unbegun, Indexed, Inspected, Labelled, BeforePass, Inspecting
  <1>6. Visited
    BY <1>2, <1>3, WaitingEnds DEF Begins, Visited
  <1> QED
    BY <1>4, <1>5, <1>6 DEF ScanInv

\* Indexing the registered variants keeps it.
LEMMA BuildIndexScan == ScanInv /\ BuildIndex => ScanInv'
  <1> SUFFICES ASSUME ScanInv, BuildIndex PROVE ScanInv'
    OBVIOUS
  <1> USE DEF ScanInv, BuildIndex, world
  <1>1. WorldTypes' /\ PassTypes'
    <2>1. Cardinality(Offered) \in Nat
      BY VariantsAssumption, FS_Subset, FS_CardinalityType DEF Offered
    <2>2. budget' \in Nat
      <3>1. budget \in Nat
        BY DEF PassTypes
      <3>2. budget' = IF budget >= Cardinality(Offered) THEN budget - Cardinality(Offered) ELSE 0
        OBVIOUS
      <3> HIDE DEF ScanInv, BuildIndex
      <3> QED
        BY <2>1, <3>1, <3>2
    <2>3. accountable' \in BOOLEAN /\ complete' \in BOOLEAN
      BY DEF Accountable, WholeRegistry
    <2>4. WorldTypes'
      BY DEF WorldTypes
    <2> QED
      BY <2>2, <2>3, <2>4 DEF PassTypes
  <1>2. Unbegun' /\ Inspected' /\ Labelled'
    BY DEF Unbegun, Inspected, Labelled, BeforePass, Inspecting
  <1>3. Indexed'
    BY DEF Indexed, Offered, Accountable, WholeRegistry, Offered
  <1>4. Visited'
    BY WaitingEnds DEF Visited, Unbegun, BeforePass
  <1> QED
    BY <1>1, <1>2, <1>3, <1>4

\* The next root is taken: what is left to show is that it was given what it calls for.
LEMMA RootTaken ==
  ASSUME NEW a \in Agents, a = Head(todo), ScanInv, stage \notin BeforePass, todo # <<>>,
         UNCHANGED <<world, index, complete, accountable, others, swapped>>,
         budget' \in Nat, during' \in 0..2,
         todo' = Tail(todo), stage' = "roots",
         status' \in [Agents -> {"not scanned", "not selected", "missing", "unreadable", "scanned"}],
         seen' \in [Agents -> Observations],
         \A b \in Agents \ {a} : status'[b] = status[b] /\ seen'[b] = seen[b],
         Scanned(a)'
  PROVE  ScanInv'
  <1>0. todo \in Suffixes
    BY DEF ScanInv, PassTypes
  <1>1. /\ a \in Waiting(todo) /\ todo' \in Suffixes
        /\ Waiting(todo') = Waiting(todo) \ {a}
    BY <1>0, WaitingMoves
  <1>2. WorldTypes'
    BY DEF ScanInv, WorldTypes, world
  <1>3. PassTypes'
    BY <1>1 DEF ScanInv, PassTypes
  <1>4. Unbegun' /\ Inspected' /\ Labelled'
    BY DEF Unbegun, Inspected, Labelled, BeforePass, Inspecting
  <1>5. Indexed'
    BY DEF ScanInv, Indexed, world, Offered, Accountable, WholeRegistry
  <1>6. Visited'
    <2> SUFFICES ASSUME NEW b \in Agents
                 PROVE  IF b \in Waiting(todo') THEN status'[b] = "not scanned" /\ seen'[b] = NotSeen
                        ELSE Scanned(b)'
      BY DEF Visited
    <2>1. CASE b = a
      BY <2>1, <1>1
    <2>2. CASE b # a /\ b \in Waiting(todo)
      BY <2>2, <1>1 DEF ScanInv, Visited
    <2>3. CASE b # a /\ b \notin Waiting(todo)
      <3>1. Scanned(b) /\ status'[b] = status[b] /\ seen'[b] = seen[b]
        BY <2>3 DEF ScanInv, Visited
      <3>2. Expected(b)' = Expected(b)
        BY ExpectedKept DEF world
      <3>3. Scanned(b)'
        BY <3>1, <3>2 DEF Scanned, world, Listable
      <3> QED
        BY <3>3, <2>3, <1>1
    <2> QED
      BY <2>1, <2>2, <2>3
  <1> QED
    BY <1>2, <1>3, <1>4, <1>5, <1>6 DEF ScanInv

\* Taking the next root keeps it: the root is left unselected, unread or
\* empty, or its entry is to be observed.
LEMMA OpenRootScan == ScanInv /\ OpenRoot => ScanInv'
  <1> SUFFICES ASSUME ScanInv, OpenRoot PROVE ScanInv'
    OBVIOUS
  <1>a. todo # <<>> /\ todo \in Suffixes
    BY DEF OpenRoot, ScanInv, PassTypes
  <1>b. PICK a \in Agents : a = Head(todo)
    BY <1>a, WaitingMoves
  <1> DEFINE listed == IF slot[a] = "absent" THEN 0 ELSE 1
  <1>0. /\ todo # <<>> /\ stage = "roots" /\ todo \in Suffixes /\ budget \in Nat /\ during \in 0..2
        /\ UNCHANGED <<world, index, complete, accountable, others, swapped, during>>
        /\ a \in Agents /\ status[a] = "not scanned" /\ seen[a] = NotSeen /\ root[a] \in RootKinds
        /\ stage \notin BeforePass
        /\ status \in [Agents -> {"not scanned", "not selected", "missing", "unreadable", "scanned"}]
        /\ seen \in [Agents -> Observations]
    <2>2. a \in Agents /\ a \in Waiting(todo)
      BY <1>a, <1>b, WaitingMoves
    <2>3. status[a] = "not scanned" /\ seen[a] = NotSeen
      BY <2>2 DEF ScanInv, Visited
    <2> QED
      BY <1>a, <2>2, <2>3 DEF OpenRoot, ScanInv, PassTypes, WorldTypes, BeforePass
  <1>1. ASSUME NEW result, Leave(a, result), budget' \in Nat,
               \/ result = "not selected" /\ a \notin selected
               \/ result = Unread(a) /\ a \in selected
               \/ result = "scanned" /\ a \in selected /\ Listable(a) /\ slot[a] = "absent"
        PROVE  ScanInv'
    <2>1. result \in {"not selected", "missing", "unreadable", "scanned"}
      BY <1>1 DEF Unread
    <2>2. Scanned(a)'
      <3>1. status'[a] = result /\ seen'[a] = NotSeen
        BY <1>0, <1>1 DEF Leave
      <3>2. selected' = selected /\ root' = root /\ Listable(a)' = Listable(a)
        BY <1>0 DEF world, Listable
      <3>3. slot[a] = "absent" => Expected(a)' = NotSeen
        BY <1>0, ExpectedIs, ExpectedKept DEF world
      <3> QED
        BY <3>1, <3>2, <3>3, <1>1 DEF Scanned, Unread
    <2> QED
      BY <1>0, <1>1, <1>b, <2>1, <2>2, RootTaken DEF Leave
  <1>2. CASE a \notin selected /\ Leave(a, "not selected") /\ UNCHANGED budget
    BY <1>0, <1>1, <1>2
  <1>3. CASE a \in selected /\ Leave(a, Unread(a)) /\ UNCHANGED budget
    BY <1>0, <1>1, <1>3
  <1>4. CASE a \in selected /\ Listable(a) /\ budget' \in Nat /\ slot[a] = "absent" /\ Leave(a, "scanned")
    BY <1>0, <1>1, <1>4
  <1>5. CASE /\ a \in selected /\ Listable(a) /\ budget' \in Nat /\ slot[a] # "absent"
             /\ stage' = "observe" /\ UNCHANGED <<todo, status, reading, seen>>
    <2>1. WorldTypes'
      BY <1>0 DEF ScanInv, WorldTypes, world
    <2>2. PassTypes'
      BY <1>0, <1>5 DEF ScanInv, PassTypes, Inspecting
    <2>3. Unbegun' /\ Labelled'
      BY <1>5 DEF Unbegun, Labelled, BeforePass
    <2>4. Indexed'
      BY <1>0 DEF ScanInv, Indexed, world, Offered, Accountable, WholeRegistry
    <2>5. Visited'
      <3>1. \A b \in Agents : Expected(b)' = Expected(b) /\ Listable(b)' = Listable(b)
        BY <1>0, ExpectedKept DEF world, Listable
      <3> QED
        BY <3>1, <1>0, <1>5 DEF ScanInv, Visited, Scanned, world
    <2>6. Inspected'
      BY <1>0, <1>5, <1>b DEF Inspected, world, Listable
    <2> QED
      BY <2>1, <2>2, <2>3, <2>4, <2>5, <2>6 DEF ScanInv
  <1>c. budget \in Nat
    BY DEF ScanInv, PassTypes
  <1>6. budget >= listed => budget - listed \in Nat
    BY <1>c
  <1>7. listed = 0 <=> slot[a] = "absent"
    OBVIOUS
  <1> HIDE DEF listed
  <1> QED
    <2>1. \/ a \notin selected /\ Leave(a, "not selected") /\ UNCHANGED budget
          \/ a \in selected /\ Leave(a, Unread(a)) /\ UNCHANGED budget
          \/ /\ a \in selected /\ complete /\ Listable(a) /\ budget >= listed
             /\ budget' = budget - listed
             /\ IF listed = 0
                THEN Leave(a, "scanned")
                ELSE stage' = "observe" /\ UNCHANGED <<todo, status, reading, seen>>
      BY <1>b DEF OpenRoot, listed
    <2> QED
      BY <2>1, <1>2, <1>3, <1>4, <1>5, <1>6, <1>7

\* An entry is concluded with the observation it calls for.
LEMMA ConcludeScan ==
  ASSUME ScanInv, stage \in Inspecting, NEW a \in Agents, a = Head(todo),
         UNCHANGED <<world, index, complete, accountable, others, swapped>>,
         budget' \in Nat, during' \in 0..2,
         NEW observation \in Observations, Conclude(a, observation),
         ~swapped => observation = Expected(a)
  PROVE  ScanInv'
  <1>1. /\ stage \notin BeforePass /\ todo # <<>>
        /\ a \in selected /\ Listable(a)
    BY DEF ScanInv, Inspected, BeforePass, Inspecting
  <1>2. /\ status \in [Agents -> {"not scanned", "not selected", "missing", "unreadable", "scanned"}]
        /\ seen \in [Agents -> Observations]
    BY DEF ScanInv, PassTypes
  <1>3. Scanned(a)'
    <2>1. status'[a] = "scanned" /\ seen'[a] = observation
      BY <1>2 DEF Conclude
    <2>2. selected' = selected /\ Listable(a)' = Listable(a) /\ swapped' = swapped
      BY DEF world, Listable
    <2>3. Expected(a)' = Expected(a)
      BY ExpectedKept DEF world
    <2> QED
      BY <1>1, <2>1, <2>2, <2>3 DEF Scanned
  <1> QED
    BY <1>1, <1>2, <1>3, RootTaken DEF Conclude

\* A provenance is a variant or one of the two words for none.
LEMMA ProvenanceTyped ==
  ASSUME NEW r \in Variants \cup {None}
  PROVE  Provenance(r) \in Variants \cup {"unregistered", "unverified"}
  BY DEF Provenance

\* The canonical path of a place is a place or lies outside them.
LEMMA CanonicalTyped ==
  ASSUME NEW o \in Places
  PROVE  /\ Canonical(o) \in Places \cup {Outside}
         /\ Canonical(o) \in Variants => Canonical(o) = o
  BY VariantsAssumption DEF Canonical

\* Observing an entry keeps it, whether or not the entry was swapped before.
LEMMA ObserveScan == ScanInv /\ Observe => ScanInv'
  <1> SUFFICES ASSUME ScanInv, Observe PROVE ScanInv'
    OBVIOUS
  <1>a. stage = "observe" /\ stage \in Inspecting /\ todo # <<>> /\ todo \in Suffixes
    BY DEF Observe, ScanInv, PassTypes, Inspected, Inspecting
  <1>b. PICK a \in Agents : a = Head(todo)
    BY <1>a, WaitingMoves
  <1>c. /\ UNCHANGED <<world, budget, index, complete, accountable, others, swapped>>
        /\ budget' \in Nat /\ during' = 0 /\ during' \in 0..2
    <2>1. budget \in Nat
      BY DEF ScanInv, PassTypes
    <2>2. /\ UNCHANGED <<world, budget, index, complete, accountable, others, swapped>>
          /\ during' = 0
      BY DEF Observe
    <2> QED
      BY <2>1, <2>2
  <1>d. a \in selected /\ Listable(a) /\ (~swapped => slot[a] # "absent")
    BY <1>a, <1>b DEF ScanInv, Inspected
  <1> DEFINE o == slot[a]
  <1>e. o \in Plain \cup Places
    BY DEF ScanInv, WorldTypes
  <1>f. a \in Places /\ a \notin Variants /\ Canonical(a) = a /\ index \subseteq Variants
    <2>1. a \in Places /\ a \notin Variants
      BY VariantsAssumption, AgentNames
    <2>2. Canonical(a) = a
      BY <2>1 DEF ScanInv, WorldTypes, Canonical
    <2> QED
      BY <2>1, <2>2, <1>a DEF ScanInv, Indexed, Offered, BeforePass
  <1>1. CASE /\ o \in {"absent", "unreadable"}
             /\ Conclude(a, Observation("unknown", "unknown", "unverified", "broken", None))
    <2>1. Observation("unknown", "unknown", "unverified", "broken", None) \in Observations
      BY DEF Observation, Observations, Placed
    <2> QED
      BY <1>1, <1>a, <1>b, <1>c, <1>d, <2>1, ConcludeScan, ExpectedIs
  <1>2. CASE /\ o = "file"
             /\ Conclude(a, Observation("file", "nowhere", "unregistered", "not a skill", None))
    <2>1. Observation("file", "nowhere", "unregistered", "not a skill", None) \in Observations
      BY DEF Observation, Observations, Placed
    <2> QED
      BY <1>2, <1>a, <1>b, <1>c, <1>d, <2>1, ConcludeScan, ExpectedIs
  <1>3. CASE /\ o \in Places \ {a} /\ content[o] = "sealed"
             /\ Conclude(a, Observation("link", "unknown", "unverified", "unreachable", None))
    <2>1. Observation("link", "unknown", "unverified", "unreachable", None) \in Observations
      BY DEF Observation, Observations, Placed
    <2> QED
      BY <1>3, <1>a, <1>b, <1>c, <1>d, <2>1, ConcludeScan, ExpectedIs
  <1>4. CASE /\ o \in Places \ {a} /\ content[o] = "gone"
             /\ Conclude(a, Observation("link", "nowhere", Provenance(None), "broken", None))
    <2>1. Observation("link", "nowhere", Provenance(None), "broken", None) \in Observations
      BY ProvenanceTyped DEF Observation, Observations, Placed
    <2> QED
      BY <1>4, <1>a, <1>b, <1>c, <1>d, <2>1, ConcludeScan, ExpectedIs
  <1>5. ASSUME \/ /\ o \in Places \ {a} /\ content[o] \notin {"gone", "sealed"}
                  /\ reading' = [object |-> "link", at |-> Canonical(o), validated |-> None,
                                 resolution |-> IF Canonical(o) \in index THEN o ELSE None]
               \/ /\ o = a
                  /\ reading' = [object |-> "directory", at |-> a, validated |-> None,
                                 resolution |-> None],
               stage' = "validate", UNCHANGED <<todo, status, seen>>
        PROVE  ScanInv'
    <2>0. o \in Places /\ UNCHANGED <<slot, content, index, accountable, swapped, selected>>
      BY <1>5, <1>c, <1>f DEF world
    <2>1. WorldTypes'
      BY <1>c DEF ScanInv, WorldTypes, world
    <2>2. PassTypes'
      BY <1>c, <1>5 DEF ScanInv, PassTypes, Inspecting
    <2>3. Unbegun' /\ Indexed'
      BY <1>5, <1>a, <1>c DEF ScanInv, Unbegun, BeforePass, Indexed, world, Offered, Accountable, WholeRegistry
    <2>4. Visited'
      <3>1. \A b \in Agents : Expected(b)' = Expected(b) /\ Listable(b)' = Listable(b)
        BY <1>c, ExpectedKept DEF world, Listable
      <3> QED
        BY <3>1, <1>c, <1>5 DEF ScanInv, Visited, Scanned, world
    <2>5. reading' = ReadingOf(a, None)
      <3>1. Canonical(o) \in index => Canonical(o) = o
        BY <2>0, <1>f, CanonicalTyped
      <3> QED
        BY <1>5, <1>f, <3>1 DEF ReadingOf, Resolved
    <2>6. Inspected'
      <3>1. ReadingOf(a, None)' = ReadingOf(a, None) /\ Listable(a)' = Listable(a)
        BY <2>0, <1>c, ExpectedKept DEF world, Listable
      <3>2. reading'.validated = None
        BY <2>5 DEF ReadingOf
      <3>3. o # a => content[o] \notin {"sealed", "gone"}
        BY <1>5
      <3> QED
        BY <1>5, <1>a, <1>b, <1>d, <2>0, <2>5, <3>1, <3>2, <3>3 DEF Inspected, Inspecting
    <2>7. Labelled'
      <3>1. reading' \in Readings
        BY <2>0, <1>5, <1>f, CanonicalTyped DEF Readings, Placed
      <3>2. CASE o = a
        BY <3>1, <3>2, <1>5, <1>b DEF Labelled
      <3>3. CASE o # a
        <4>1. PICK p : p = o
          OBVIOUS
        <4>2. Canonical(p)' = Canonical(p)
          BY <2>0 DEF Canonical
        <4>3. /\ p \in Places \ {a} /\ content'[p] \notin {"gone", "sealed"}
              /\ reading'.object = "link" /\ reading'.at = Canonical(p)'
              /\ reading'.resolution = IF Canonical(p)' \in index' THEN p ELSE None
              /\ slot'[a] = p /\ stage' # "settle" /\ a = Head(todo')
          BY <3>3, <4>1, <4>2, <2>0, <1>5, <1>b
        <4> QED
          BY <3>1, <4>3 DEF Labelled
      <3> QED
        BY <3>2, <3>3
    <2> QED
      BY <2>1, <2>2, <2>3, <2>4, <2>6, <2>7 DEF ScanInv
  <1> QED
    BY <1>1, <1>2, <1>3, <1>4, <1>5, <1>b DEF Observe

\* Validating what the entry was resolved to keeps it.
LEMMA ValidateScan == ScanInv /\ Validate => ScanInv'
  <1> SUFFICES ASSUME ScanInv, Validate PROVE ScanInv'
    OBVIOUS
  <1>a. stage = "validate" /\ stage \in Inspecting /\ todo # <<>> /\ todo \in Suffixes
    BY DEF Validate, ScanInv, PassTypes, Inspected, Inspecting
  <1>b. PICK a \in Agents : a = Head(todo) /\ a \in Waiting(todo)
    BY <1>a, WaitingMoves
  <1>c. UNCHANGED <<world, index, complete, accountable, others, swapped, during>>
    BY DEF Validate
  <1>d. budget \in Nat /\ during \in 0..2
    BY DEF ScanInv, PassTypes
  <1>e. during' \in 0..2 /\ (budget > 0 => budget - 1 \in Nat)
    BY <1>c, <1>d
  <1>f. /\ a \in selected /\ Listable(a) /\ reading \in Readings
        /\ ~swapped => /\ slot[a] \in Places
                       /\ slot[a] # a => content[slot[a]] \notin {"sealed", "gone"}
                       /\ reading = ReadingOf(a, reading.validated)
    BY <1>a, <1>b DEF ScanInv, Inspected, Labelled
  <1>g. status[a] = "not scanned" /\ seen[a] = NotSeen
    BY <1>b DEF ScanInv, Visited
  <1>1. CASE Leave(a, Unread(a)) /\ UNCHANGED budget
    <2>1. /\ status \in [Agents -> {"not scanned", "not selected", "missing", "unreadable", "scanned"}]
          /\ seen \in [Agents -> Observations] /\ stage \notin BeforePass
      BY <1>a DEF ScanInv, PassTypes, BeforePass
    <2>2. Unread(a) = "unreadable" /\ root[a] \notin {"missing", "orphaned"}
      BY <1>f DEF Unread, Listable
    <2>3. Scanned(a)'
      BY <1>1, <1>c, <1>f, <1>g, <2>1, <2>2 DEF Leave, Scanned, world
    <2> QED
      BY <1>1, <1>a, <1>b, <1>c, <1>d, <1>e, <2>1, <2>2, <2>3, RootTaken DEF Leave
  <1>2. CASE /\ Found(a) # "valid" /\ budget' \in Nat
             /\ Conclude(a, Observation(reading.object, Unloadable(Found(a)),
                                   Provenance(reading.resolution), "broken", None))
    <2>1. Provenance(reading.resolution) \in Variants \cup {"unregistered", "unverified"}
      BY <1>f, ProvenanceTyped DEF Readings
    <2>2. Observation(reading.object, Unloadable(Found(a)), Provenance(reading.resolution),
                      "broken", None) \in Observations
      BY <1>f, <2>1 DEF Observation, Observations, Readings, Placed, Unloadable
    <2>3. ~swapped => /\ reading.object = ReadingOf(a, None).object
                      /\ reading.resolution = Resolved(a)
      BY <1>f DEF ReadingOf
    <2>4. ~swapped => Expected(a) = Observation(reading.object, Unloadable(Found(a)),
                                               Provenance(reading.resolution), "broken", None)
      BY <1>2, <1>f, <2>3, ExpectedIs
    <2> QED
      BY <1>2, <1>a, <1>b, <1>c, <1>e, <2>2, <2>4, ConcludeScan
  <1>3. CASE /\ Found(a) = "valid" /\ budget' \in Nat
             /\ reading' = [reading EXCEPT !.validated = Canonical(slot[a])]
             /\ stage' = "settle" /\ UNCHANGED <<todo, status, seen>>
    <2>0. PICK s : s = slot[a]
      OBVIOUS
    <2>1. s \in Places /\ Canonical(s) \in Placed /\ slot'[a] = s
      BY <1>3, <1>c, <2>0, CanonicalTyped DEF Found, Placed, world
    <2>2. WorldTypes'
      BY <1>c DEF ScanInv, WorldTypes, world
    <2>3. PassTypes'
      BY <1>c, <1>3, <1>e DEF ScanInv, PassTypes, Inspecting
    <2>4. Unbegun' /\ Indexed'
      BY <1>3, <1>a, <1>c DEF ScanInv, Unbegun, BeforePass, Indexed, world, Offered, Accountable, WholeRegistry
    <2>5. Visited'
      <3>1. \A b \in Agents : Expected(b)' = Expected(b) /\ Listable(b)' = Listable(b)
        BY <1>c, ExpectedKept DEF world, Listable
      <3> QED
        BY <3>1, <1>c, <1>3 DEF ScanInv, Visited, Scanned, world
    <2>6. Inspected'
      <3>1. /\ \A v : ReadingOf(a, v)' = ReadingOf(a, v)
            /\ Found(a)' = Found(a) /\ Listable(a)' = Listable(a)
        BY <1>c, ExpectedKept DEF world, Listable
      <3>2. Canonical(s)' = Canonical(s)
        BY <1>c DEF world, Canonical
      <3>3. ~swapped => reading' = ReadingOf(a, Canonical(s)) /\ reading'.validated = Canonical(s)
        BY <1>3, <1>f, <2>0 DEF ReadingOf
      <3>4. ~swapped' => reading' = ReadingOf(a, reading.validated)'
        BY <3>3, <1>c DEF ReadingOf, Resolved, Canonical, world
      <3>5. /\ stage' = "settle" /\ todo' = todo /\ selected' = selected /\ swapped' = swapped
            /\ slot' = slot /\ content' = content
        BY <1>3, <1>c DEF world
      <3>6. ~swapped' => slot'[a] \in Places /\ slot'[a] # "absent"
        BY <2>1, AgentNames DEF Plain
      <3>7. Canonical(slot[a])' = Canonical(s)
        BY <2>1, <3>2 DEF Canonical
      <3> QED
        BY <1>3, <1>a, <1>b, <1>f, <3>1, <3>3, <3>4, <3>5, <3>6, <3>7 DEF Inspected
    <2>7. Labelled'
      <3>1. reading' \in Readings
        BY <1>3, <1>f, <2>0, <2>1 DEF Readings
      <3>2. /\ reading'.object = reading.object /\ reading'.at = reading.at
            /\ reading'.resolution = reading.resolution /\ reading'.validated = Canonical(s)
        BY <1>3, <1>f, <2>0 DEF Readings
      <3>3. CASE reading.object = "directory"
        BY <3>1, <3>2, <3>3, <1>a, <1>b, <1>3 DEF ScanInv, Labelled
      <3>4. CASE reading.object = "link"
        <4>1. PICK o \in Places \ {a} :
                    /\ content[o] \notin {"gone", "sealed"}
                    /\ reading.at = Canonical(o)
                    /\ reading.resolution = IF Canonical(o) \in index THEN o ELSE None
                    /\ during = 0 => slot[a] = o
          BY <3>4, <1>a, <1>b DEF ScanInv, Labelled
        <4>2. during' = 0 => slot[a] = o
          BY <4>1, <1>c
        <4>3. Canonical(o)' = Canonical(o) /\ Canonical(s)' = Canonical(s)
          BY <1>c DEF world, Canonical
        <4>4. slot'[a] = o => reading'.validated = Canonical(o)
          BY <2>1, <3>2
        <4>5. /\ content'[o] \notin {"gone", "sealed"} /\ reading'.at = Canonical(o)'
              /\ reading'.resolution = IF Canonical(o)' \in index' THEN o ELSE None
              /\ during' = 0 => slot'[a] = o
          BY <4>1, <4>2, <4>3, <3>2, <1>c DEF world
        <4> QED
          BY <3>1, <3>2, <3>4, <4>1, <4>3, <4>4, <4>5, <1>3, <1>b DEF Labelled
      <3> QED
        BY <3>3, <3>4, <1>f DEF Readings
    <2> QED
      BY <2>2, <2>3, <2>4, <2>5, <2>6, <2>7 DEF ScanInv
  <1>4. /\ Found(a) = "opaque" => Found(a) # "valid"
        /\ Found(a) = "invalid" => Found(a) # "valid"
    OBVIOUS
  <1>5. \/ Leave(a, Unread(a)) /\ UNCHANGED budget
        \/ /\ Found(a) = "valid" /\ budget > 0
           /\ budget' = budget - 1
           /\ reading' = [reading EXCEPT !.validated = Canonical(slot[a])]
           /\ stage' = "settle"
           /\ UNCHANGED <<todo, status, seen>>
        \/ /\ Found(a) = "opaque" \/ (Found(a) = "invalid" /\ budget > 0)
           /\ budget' = IF Found(a) = "opaque" THEN budget ELSE budget - 1
           /\ Conclude(a, Observation(reading.object, Unloadable(Found(a)),
                                   Provenance(reading.resolution), "broken", None))
    BY <1>b DEF Validate
  <1> QED
    BY <1>1, <1>2, <1>3, <1>4, <1>5, <1>d, <1>e

\* Settling provenance and health keeps it.
LEMMA SettleScan == ScanInv /\ Settle => ScanInv'
  <1> SUFFICES ASSUME ScanInv, Settle PROVE ScanInv'
    OBVIOUS
  <1>a. stage = "settle" /\ stage \in Inspecting /\ todo # <<>> /\ todo \in Suffixes
    BY DEF Settle, ScanInv, PassTypes, Inspected, Inspecting
  <1>b. PICK a \in Agents : a = Head(todo)
    BY <1>a, WaitingMoves
  <1>c. UNCHANGED <<world, budget, index, complete, accountable, others, swapped, during>>
    BY DEF Settle
  <1>d. budget' \in Nat /\ during' \in 0..2
    BY <1>c DEF ScanInv, PassTypes
  <1>e. /\ reading \in Readings
        /\ ~swapped => /\ slot[a] \in Places
                       /\ slot[a] # a => content[slot[a]] \notin {"sealed", "gone"}
                       /\ reading = ReadingOf(a, reading.validated)
                       /\ Found(a) = "valid" /\ reading.validated = Canonical(slot[a])
    BY <1>a, <1>b DEF ScanInv, Inspected, Labelled
  <1> DEFINE provenance == Provenance(StillResolved(a))
             health == CASE provenance = "unregistered" -> "unmanaged"
                         [] provenance = "unverified" -> "unverified"
                         [] OTHER -> "healthy"
             observation == Observation(reading.object, reading.at, provenance, health,
                                        reading.validated)
  <1>1. observation \in Observations
    <2>1. StillResolved(a) \in Variants \cup {None}
      BY <1>e DEF StillResolved, Readings
    <2>2. provenance \in Variants \cup {"unregistered", "unverified"}
      BY <2>1, ProvenanceTyped
    <2>3. health \in {"unmanaged", "unverified", "healthy"}
      OBVIOUS
    <2> HIDE DEF provenance, health
    <2> QED
      BY <1>e, <2>2, <2>3 DEF Observation, Observations, Readings
  <1>2. ~swapped => observation = Expected(a)
    <2> SUFFICES ASSUME ~swapped PROVE observation = Expected(a)
      OBVIOUS
    <2>1. StillResolved(a) = Resolved(a)
      BY <1>e DEF StillResolved, ReadingOf
    <2>2. /\ reading.object = ReadingOf(a, None).object /\ reading.at = Canonical(slot[a])
          /\ reading.validated = Canonical(slot[a])
      BY <1>e DEF ReadingOf
    <2> QED
      BY <1>e, <2>1, <2>2, ExpectedIs
  <1>3. Conclude(a, observation)
    BY <1>b DEF Settle
  <1> HIDE DEF observation
  <1> QED
    BY <1>a, <1>b, <1>c, <1>d, <1>1, <1>2, <1>3, ConcludeScan

\* The end of the pass keeps it.
LEMMA FinishScan == ScanInv /\ Finish => ScanInv'
  <1> SUFFICES ASSUME ScanInv, Finish PROVE ScanInv'
    OBVIOUS
  <1>1. /\ stage' = "done" /\ stage = "roots" /\ todo = <<>>
        /\ UNCHANGED <<world, budget, todo, index, complete, accountable, status, reading, seen,
                       others, swapped, during>>
    BY DEF Finish
  <1>2. WorldTypes' /\ PassTypes'
    BY <1>1 DEF ScanInv, WorldTypes, PassTypes, world
  <1>3. Unbegun' /\ Inspected' /\ Labelled'
    BY <1>1 DEF Unbegun, Inspected, Labelled, BeforePass, Inspecting
  <1>4. Indexed'
    BY <1>1 DEF ScanInv, Indexed, BeforePass, world, Offered, Accountable, WholeRegistry
  <1>5. \A b \in Agents : Expected(b)' = Expected(b) /\ Listable(b)' = Listable(b)
    BY <1>1, ExpectedKept DEF world, Listable
  <1>6. Visited'
    BY <1>1, <1>5 DEF ScanInv, Visited, Scanned, world
  <1> QED
    BY <1>2, <1>3, <1>4, <1>6 DEF ScanInv

\* Somebody swapping an entry keeps it: what was already read stays labelled
\* with what it was read as.
LEMMA SwapScan == ASSUME NEW b \in Agents, ScanInv, Swap(b) PROVE ScanInv'
  <1>1. /\ stage \in {"index", "roots", "observe", "validate", "settle"}
        /\ swapped' = TRUE /\ others' = others - 1 /\ others > 0
        /\ during' = IF during < 2 THEN during + 1 ELSE during
        /\ UNCHANGED <<content, root, selected, catalog, readable, metadata, pass>>
    BY DEF Swap
  <1>2. others \in Nat /\ during \in 0..2
    BY DEF ScanInv, PassTypes
  <1>3. others' \in Nat /\ during' \in 1..2 /\ during' \in 0..2 /\ (during' < 2 => during = 0)
    BY <1>1, <1>2
  <1>4. slot' \in [Agents -> Plain \cup Places]
    BY AgentNames DEF ScanInv, WorldTypes, Swap, Plain
  <1>5. WorldTypes'
    BY <1>1, <1>4 DEF ScanInv, WorldTypes
  <1>6. PassTypes'
    BY <1>1, <1>3 DEF ScanInv, PassTypes, pass
  <1>7. Unbegun' /\ Indexed'
    BY <1>1 DEF ScanInv, Unbegun, Indexed, BeforePass, pass, Offered, Accountable, WholeRegistry
  <1>8. Visited'
    BY <1>1 DEF ScanInv, Visited, Scanned, pass, Listable
  <1>9. Inspected'
    BY <1>1 DEF ScanInv, Inspected, pass, Listable
  <1>10. Labelled'
    <2> SUFFICES ASSUME stage \in {"validate", "settle"} PROVE Labelled'
      BY <1>1 DEF Labelled, pass
    <2>1. reading \in Readings /\ UNCHANGED <<stage, todo, reading, content, index>>
      BY <1>1 DEF ScanInv, Labelled, pass
    <2>2. PICK a \in Agents : a = Head(todo)
      BY WaitingMoves DEF ScanInv, Inspected, PassTypes, Inspecting
    <2>3. CASE reading.object = "directory"
      BY <2>1, <2>2, <2>3 DEF ScanInv, Labelled
    <2>4. CASE reading.object = "link"
      <3>1. PICK o \in Places \ {a} :
                    /\ content[o] \notin {"gone", "sealed"}
                    /\ reading.at = Canonical(o)
                    /\ reading.resolution = IF Canonical(o) \in index THEN o ELSE None
                    /\ during = 0 => slot[a] = o
                    /\ stage = "settle" /\ during < 2 /\ slot[a] = o
                         => reading.validated = Canonical(o)
        BY <2>2, <2>4 DEF ScanInv, Labelled
      <3>2. Canonical(o)' = Canonical(o)
        BY <2>1 DEF Canonical
      <3>3. during' # 0 /\ (during' < 2 => during < 2 /\ slot[a] = o)
        BY <1>3, <3>1
      <3>4. /\ during' = 0 => slot'[a] = o
            /\ stage' = "settle" /\ during' < 2 /\ slot'[a] = o => reading'.validated = Canonical(o)'
        BY <2>1, <3>1, <3>2, <3>3
      <3> QED
        BY <2>1, <2>2, <2>4, <3>1, <3>2, <3>4 DEF Labelled
    <2> QED
      BY <2>1, <2>3, <2>4 DEF Readings
  <1> QED
    BY <1>5, <1>6, <1>7, <1>8, <1>9, <1>10 DEF ScanInv

\* Until the index is built, changes of the world do not concern the pass.
LEMMA BeforeScan ==
  ASSUME ScanInv, stage \in BeforePass, stage # "index", stage' \in BeforePass, WorldTypes',
         others' \in Nat,
         UNCHANGED <<budget, todo, index, complete, accountable, status, seen, swapped, during>>
  PROVE  ScanInv'
  <1>1. PassTypes'
    BY DEF ScanInv, PassTypes
  <1>2. Unbegun' /\ Indexed' /\ Inspected' /\ Labelled'
    BY DEF ScanInv, Unbegun, Indexed, Inspected, Labelled, BeforePass, Inspecting
  <1>3. Visited'
    <2>1. todo = ScanOrder /\ todo' = ScanOrder
      BY DEF ScanInv, Unbegun
    <2>2. \A b \in Agents : b \in Waiting(todo) /\ b \in Waiting(todo')
      BY <2>1, WaitingEnds
    <2> QED
      BY <2>1, <2>2 DEF ScanInv, Visited, BeforePass
  <1> QED
    BY <1>1, <1>2, <1>3 DEF ScanInv

-----------------------------------------------------------------------------
(* Plans: the inductive invariant *)

Dispositions == {"excluded", "blocked", "installed"} \cup Work
Operations == {"install", "repair", "uninstall"}

PlanTypes ==
  /\ request \in Requests
  /\ steps \in [Agents -> {"none", "done", "failed", "unattempted"}]
  /\ disturbed \in BOOLEAN
  /\ plan.targets \in [Agents -> Dispositions]
  /\ Executable(plan) => /\ plan.op \in Operations
                         /\ plan.op # "uninstall" => plan.variant \in Variants

\* Only what was confirmed is attempted, and only a plan that can be carried out is.
Attempts ==
  /\ stage = "plan" => /\ request # NoRequest
                       /\ ~Executable(plan) /\ ~disturbed /\ \A a \in Agents : steps[a] = "none"
                       /\ \A a \in Agents : root[a] \in {"missing", "orphaned"} => slot[a] = "absent"
  /\ stage \in {"recheck", "write"} => Executable(plan) /\ Pending # {}
  /\ \A a \in Agents \ Working(plan.targets) : steps[a] = "none"
  /\ request = NoRequest => ~Executable(plan)

\* What is known of the three roots, and the directories among it.
Known(sighting) == \A a \in Agents : sighting[a] \notin {"unread", "unknown"}
DirectoriesOf(sighting) == {sighting[a] : a \in Agents} \ {"nowhere"}

\* What a plan foresees that each root offers OpenCode, told from the state at any step of
\* carrying it out: the roots it leaves alone offer what they offered when it was made.
ProbeOf(p, a) == IF p.op = "repair" THEN RepairRoot(a) ELSE RootProbe(a)
ContentOf(p, a) == IF p.op = "repair" THEN RepairContent(a) ELSE ProbedContent(a)
Foreseen(p, a) ==
  IF a \in Working(p.targets) THEN IF p.op = "uninstall" THEN "nowhere" ELSE p.variant
  ELSE IF ProbeOf(p, a) \in Unsighted THEN "unread"
  ELSE ContentOf(p, a)
Prospect(p) == [a \in Agents |-> Foreseen(p, a)]
ProspectKinds(p) == [a \in Agents |-> IF Foreseen(p, a) = p.variant THEN p.variant ELSE None]
Foresight(p) == ResolveOpenCode(Prospect(p), ProspectKinds(p))

Quiet == Executable(plan) /\ ~disturbed /\ ~swapped

\* Each target, before and after it was attempted.
TargetStands(a) ==
  /\ a \in selected
  /\ steps[a] \in {"none", "done"}
  /\ steps[a] = "none" => stage \in {"recheck", "write"}
  /\ plan.op = "install" =>
       /\ UsableBy(plan.variant, a)
       /\ IF steps[a] = "done" THEN slot[a] = plan.variant /\ root[a] \in {"present", "unlistable"}
          ELSE /\ slot[a] = "absent"
               /\ IF plan.targets[a] = "create root" THEN root[a] = "missing"
                  ELSE root[a] \in {"present", "unlistable"}
  /\ plan.op = "repair" =>
       /\ root[a] = "present"
       /\ plan.targets[a] # "create root"
       /\ slot[a] = IF steps[a] = "done" THEN plan.variant ELSE plan.entry[a]
  /\ plan.op = "uninstall" =>
       /\ root[a] \in {"present", "unlistable"}
       /\ plan.targets[a] # "create root"
       /\ IF steps[a] = "done" THEN slot[a] = "absent"
          ELSE slot[a] = plan.entry[a] /\ slot[a] # "absent"

TargetsStand == Quiet => \A a \in Working(plan.targets) : TargetStands(a)

ContentStands == Quiet /\ plan.op # "uninstall" => plan.variant \in ReadableVariants

RepairStands ==
  Quiet /\ plan.op = "repair" =>
     /\ \E a \in Agents : Working(plan.targets) = {a}
     /\ (\A a \in Agents : steps[a] = "none") =>
          slot = plan.entry /\ plan.probed = [b \in Agents |-> Probed(b)]

\* What was stated of OpenCode: the conflict that is tolerated, the outlook, and what was
\* said of a conflict and of content that OpenCode cannot use.
StandingFits(p) == p.standing # NoStanding /\ Known(Prospect(p)) => p.standing = Prospect(p)

OutlookFits(p) ==
  /\ "opencode" \in selected =>
       p.outlook = IF p.op = "uninstall" THEN Reduced(Foresight(p)) ELSE Outlook(Foresight(p))
  /\ "opencode" \notin selected /\ p.op = "uninstall" => p.outlook = NoOutlook

SaidFits(p) ==
  LET native == "opencode" \in Working(p.targets)
      more == Cardinality(p.loaded) > 1
  IN  /\ Foresight(p).kind = "conflict" =>
           /\ p.op = "install" => ~native /\ (p.said \/ more)
           /\ p.op = "repair" =>
                IF native THEN p.said /\ DirectoriesOf(Prospect(p)) \subseteq p.loaded
                ELSE p.said \/ more
           /\ p.op = "uninstall" => more
      /\ Foresight(p).kind \in {"foreign", "incompatible"} /\ p.loaded # {p.variant} => p.said
      /\ /\ Foresight(p).kind = "selected" /\ p.op = "uninstall"
         /\ p.loaded # DirectoriesOf(Prospect(p))
         => p.said

Stated ==
  Quiet => /\ StandingFits(plan) /\ OutlookFits(plan)
           /\ "opencode" \in selected => SaidFits(plan)

PlanInv ==
  /\ PlanTypes
  /\ Attempts
  /\ TargetsStand
  /\ ContentStands
  /\ RepairStands
  /\ Stated

-----------------------------------------------------------------------------
(* What resolve_opencode answers *)

\* Sets of no, one and several members, by their cardinality.
LEMMA Few ==
  ASSUME NEW S, IsFiniteSet(S)
  PROVE  /\ Cardinality(S) \in Nat
         /\ Cardinality(S) > 1 <=> \E x, y \in S : x # y
         /\ Cardinality(S) = 1 <=> \E x : S = {x}
         /\ Cardinality(S) = 0 <=> S = {}
  <1>1. Cardinality(S) \in Nat
    BY FS_CardinalityType
  <1>2. Cardinality(S) = 1 <=> \E x : S = {x}
    BY FS_Singleton
  <1>3. Cardinality(S) = 0 <=> S = {}
    BY FS_EmptySet
  <1>4. (\E x, y \in S : x # y) <=> S # {} /\ ~\E x : S = {x}
    <2>1. ASSUME NEW x \in S, \A y \in S : x = y PROVE S = {x}
      BY <2>1
    <2> QED
      BY <2>1
  <1>5. Cardinality(S) > 1 <=> Cardinality(S) # 0 /\ Cardinality(S) # 1
    BY <1>1
  <1> QED
    BY <1>1, <1>2, <1>3, <1>4, <1>5

\* Whatever is taken from three things is finite.
LEMMA ThreeAreFinite ==
  ASSUME NEW x, NEW y, NEW z, NEW S \in SUBSET {x, y, z}
  PROVE  IsFiniteSet(S)
  <1>1. IsFiniteSet({x})
    BY FS_Singleton
  <1>2. IsFiniteSet({x} \cup {y})
    BY <1>1, FS_AddElement
  <1>3. IsFiniteSet({x} \cup {y} \cup {z})
    BY <1>2, FS_AddElement
  <1>4. {x} \cup {y} \cup {z} = {x, y, z}
    OBVIOUS
  <1> QED
    BY <1>3, <1>4, FS_Subset

\* the root that wins: the first, in the order OpenCode consults them, to offer something
First(w, sighting) ==
  /\ w \in Agents /\ sighting[w] # "nowhere"
  /\ w = "codex" => sighting["opencode"] = "nowhere"
  /\ w = "claude" => sighting["opencode"] = "nowhere" /\ sighting["codex"] = "nowhere"

\* Only one directory comes first in opencode's order.
LEMMA FirstIsOne ==
  ASSUME NEW s, NEW v, NEW w, First(v, s), First(w, s) PROVE v = w
  BY DEF First, Agents

\* The directories a sighting tells of are finitely many.
LEMMA DirectoriesFinite == ASSUME NEW s PROVE IsFiniteSet(DirectoriesOf(s))
  <1>1. DirectoriesOf(s) \subseteq {s["claude"], s["codex"], s["opencode"]}
    BY DEF DirectoriesOf, Agents
  <1> QED
    BY <1>1, ThreeAreFinite

\* The roots opencode reads, in its order, are the agents'.
LEMMA Order ==
  /\ RootOrder[1] = "opencode" /\ RootOrder[2] = "codex" /\ RootOrder[3] = "claude"
  /\ \A i : i \in 1..3 <=> i = 1 \/ i = 2 \/ i = 3
  /\ \A a : a \in Agents <=> a = "claude" \/ a = "codex" \/ a = "opencode"
  /\ \A a : a \in Agents <=> \E i \in 1..3 : RootOrder[i] = a
  BY DEF RootOrder, Agents

\* An incomplete answer means a root nobody could read, or content nobody could look at.
LEMMA IncompleteMeans ==
  ASSUME NEW s, NEW kinds
  PROVE  ResolveOpenCode(s, kinds).kind = "incomplete" <=> ~Known(s)
  BY DEF ResolveOpenCode, Known

Foreign(v) == v \in Variants /\ ForeignTo(v, "opencode")
Excluded(v) == v \in Variants /\ "opencode" \notin catalog[v].compatible

\* The answer over sightings that are all known.
LEMMA AnswerMeans ==
  ASSUME NEW s, NEW kinds, Known(s)
  PROVE  LET answer == ResolveOpenCode(s, kinds)
             dirs == DirectoriesOf(s)
         IN  /\ answer.kind =
                   IF dirs = {} THEN "nothing"
                   ELSE IF Cardinality(dirs) > 1 THEN "conflict"
                   ELSE IF \A a \in Agents : s[a] # "nowhere" => Foreign(kinds[a]) THEN "foreign"
                   ELSE IF \A a \in Agents : s[a] # "nowhere" => Excluded(kinds[a])
                        THEN "incompatible"
                   ELSE "selected"
             /\ dirs # {} => First(answer.winner, s)
  <1> DEFINE offers == {i \in 1..3 : s[RootOrder[i]] \notin {"nowhere", "unread", "unknown"}}
             dirs == {s[RootOrder[i]] : i \in offers}
             winner == RootOrder[CHOOSE i \in offers : \A j \in offers : i <= j]
             foreign == \A i \in offers : LET v == kinds[RootOrder[i]]
                                          IN  v \in Variants /\ ForeignTo(v, "opencode")
             excluded == \A i \in offers : LET v == kinds[RootOrder[i]]
                                           IN  v \in Variants /\ "opencode" \notin catalog[v].compatible
  <1>1. offers = {i \in 1..3 : s[RootOrder[i]] # "nowhere"}
    BY Order DEF Known
  <1>2. dirs = DirectoriesOf(s)
    BY <1>1, Order DEF DirectoriesOf
  <1>3. offers = {} <=> DirectoriesOf(s) = {}
    BY <1>2
  <1>4. foreign <=> \A a \in Agents : s[a] # "nowhere" => Foreign(kinds[a])
    BY <1>1, Order DEF Foreign
  <1>5. excluded <=> \A a \in Agents : s[a] # "nowhere" => Excluded(kinds[a])
    BY <1>1, Order DEF Excluded
  <1>6. offers # {} => First(winner, s)
    <2> SUFFICES ASSUME offers # {} PROVE First(winner, s)
      OBVIOUS
    <2>1. \E i \in offers : \A j \in offers : i <= j
      <3>1. CASE 1 \in offers
        BY <3>1, Order DEF offers
      <3>2. CASE 1 \notin offers /\ 2 \in offers
        BY <3>2, Order DEF offers
      <3>3. CASE 1 \notin offers /\ 2 \notin offers
        BY <3>3, Order DEF offers
      <3> QED
        BY <3>1, <3>2, <3>3
    <2>2. PICK i \in offers : (\A j \in offers : i <= j) /\ winner = RootOrder[i]
      BY <2>1
    <2>3. i \in 1..3 /\ s[RootOrder[i]] # "nowhere" /\ \A j \in 1..3 : j < i => s[RootOrder[j]] = "nowhere"
      BY <1>1, <2>2
    <2> HIDE DEF offers, winner
    <2>4. CASE i = 1
      BY <2>2, <2>3, <2>4, Order DEF First
    <2>5. CASE i = 2
      <3>1. s[RootOrder[1]] = "nowhere"
        BY <2>3, <2>5
      <3> QED
        BY <2>2, <2>3, <2>5, <3>1, Order DEF First
    <2>6. CASE i = 3
      <3>1. s[RootOrder[1]] = "nowhere" /\ s[RootOrder[2]] = "nowhere"
        BY <2>3, <2>6
      <3> QED
        BY <2>2, <2>3, <2>6, <3>1, Order DEF First
    <2> QED
      BY <2>3, <2>4, <2>5, <2>6, Order
  <1>7. ResolveOpenCode(s, kinds) =
          IF offers = {} THEN [kind |-> "nothing", winner |-> None]
          ELSE IF Cardinality(dirs) > 1 THEN [kind |-> "conflict", winner |-> winner]
          ELSE IF foreign THEN [kind |-> "foreign", winner |-> winner]
          ELSE IF excluded THEN [kind |-> "incompatible", winner |-> winner]
          ELSE [kind |-> "selected", winner |-> winner]
    BY DEF ResolveOpenCode, Known
  <1> HIDE DEF offers, dirs, winner, foreign, excluded
  <1> QED
    BY <1>2, <1>3, <1>4, <1>5, <1>6, <1>7

-----------------------------------------------------------------------------
(* What a finished pass has seen *)

Loadable == {"valid", "outside"}

\* After an undisturbed pass, what was observed at each agent is what is there.
LEMMA Observed ==
  ASSUME ScanInv, stage = "done", ~swapped, NEW a \in Agents
  PROVE  /\ status[a] \in {"not selected", "missing", "unreadable", "scanned"}
         /\ status[a] = "not selected" <=> a \notin selected
         /\ status[a] # "scanned" => seen[a] = NotSeen
         /\ status[a] = "missing" => Entry(a) = "absent"
         /\ status[a] = "scanned" =>
              /\ Listable(a) /\ Entry(a) = slot[a] /\ slot[a] \in Plain \cup Places
              /\ seen[a] = Expected(a)
              /\ seen[a] = NotSeen <=> slot[a] = "absent"
              /\ slot[a] = "file" => /\ seen[a].object = "file" /\ seen[a].at = "nowhere"
                                     /\ seen[a].validated = None
              /\ slot[a] = "unreadable" => seen[a].object = "unknown" /\ seen[a].at = "unknown"
              /\ slot[a] \in Places =>
                   /\ seen[a].object = IF slot[a] = a THEN "directory" ELSE "link"
                   /\ content[slot[a]] \in Loadable =>
                        /\ seen[a].at = Canonical(slot[a])
                        /\ seen[a].validated = Canonical(slot[a])
                        /\ seen[a].provenance = Provenance(Resolved(a))
                   /\ content[slot[a]] \notin Loadable => seen[a].at \in {"nowhere", "unknown"}
                   /\ seen[a].at = "nowhere" <=> \/ content[slot[a]] \in {"invalid", "file"}
                                                 \/ slot[a] # a /\ content[slot[a]] = "gone"
                   /\ seen[a].health = "unreachable" <=> slot[a] # a /\ content[slot[a]] = "sealed"
                   /\ seen[a].health = "healthy" <=> /\ content[slot[a]] \in Loadable
                                                     /\ Resolved(a) # None
  <1>1. Scanned(a)
    BY WaitingEnds DEF ScanInv, Visited
  <1>2. status[a] \in {"not scanned", "not selected", "missing", "unreadable", "scanned"}
    BY DEF ScanInv, PassTypes
  <1>3. status[a] = "missing" => Entry(a) = "absent"
    BY <1>1 DEF Scanned, Entry
  <1>4. ASSUME status[a] = "scanned"
        PROVE  /\ Listable(a) /\ Entry(a) = slot[a] /\ slot[a] \in Plain \cup Places
               /\ seen[a] = Expected(a)
    BY <1>1, <1>4 DEF Scanned, Entry, Listable, ScanInv, WorldTypes
  <1>5. ASSUME status[a] = "scanned", slot[a] \in Plain
        PROVE  /\ slot[a] \notin Places
               /\ seen[a] = NotSeen <=> slot[a] = "absent"
               /\ slot[a] = "file" => /\ seen[a].object = "file" /\ seen[a].at = "nowhere"
                                      /\ seen[a].validated = None
               /\ slot[a] = "unreadable" => seen[a].object = "unknown" /\ seen[a].at = "unknown"
    <2>1. slot[a] \notin Places /\ seen[a] = Expected(a)
      BY <1>4, <1>5, AgentNames
    <2>2. CASE slot[a] = "absent"
      BY <2>1, <2>2, ExpectedIs
    <2>3. CASE slot[a] = "file"
      <3> DEFINE file == Observation("file", "nowhere", "unregistered", "not a skill", None)
      <3>1. seen[a] = Observation("file", "nowhere", "unregistered", "not a skill", None)
        BY <2>1, <2>3, ExpectedIs
      <3>4. seen[a] = file
        BY <3>1 DEF file
      <3>2. NotSeen.object = "absent"
        BY DEF Observation, NotSeen
      <3>3. file.object = "file" /\ file.at = "nowhere" /\ file.validated = None
        BY DEF Observation
      <3> HIDE DEF file
      <3> QED
        BY <2>1, <2>3, <3>2, <3>3, <3>4
    <2>4. CASE slot[a] = "unreadable"
      <3>1. seen[a] = Observation("unknown", "unknown", "unverified", "broken", None)
        BY <2>1, <2>4, ExpectedIs
      <3> QED
        BY <2>1, <2>4, <3>1 DEF Observation, NotSeen
    <2> QED
      BY <1>5, <2>2, <2>3, <2>4 DEF Plain
  <1>6. ASSUME status[a] = "scanned", slot[a] \in Places
        PROVE  /\ slot[a] \notin Plain
               /\ seen[a] # NotSeen
               /\ seen[a].object = IF slot[a] = a THEN "directory" ELSE "link"
               /\ content[slot[a]] \in Loadable =>
                    /\ seen[a].at = Canonical(slot[a])
                    /\ seen[a].validated = Canonical(slot[a])
                    /\ seen[a].provenance = Provenance(Resolved(a))
               /\ content[slot[a]] \notin Loadable => seen[a].at \in {"nowhere", "unknown"}
               /\ seen[a].at = "nowhere" <=> \/ content[slot[a]] \in {"invalid", "file"}
                                             \/ slot[a] # a /\ content[slot[a]] = "gone"
               /\ seen[a].health = "unreachable" <=> slot[a] # a /\ content[slot[a]] = "sealed"
               /\ seen[a].health = "healthy" <=> /\ content[slot[a]] \in Loadable
                                                 /\ Resolved(a) # None
    <2>1. slot[a] \notin Plain /\ content[slot[a]] \in ContentKinds
      BY <1>6, AgentNames DEF ScanInv, WorldTypes
    <2>2. Found(a) = IF content[slot[a]] \in Loadable THEN "valid"
                     ELSE IF content[slot[a]] \in {"invalid", "file"} THEN "invalid" ELSE "opaque"
      BY <1>6, <2>1 DEF Found, Loadable, ContentKinds
    <2>3. ReadingOf(a, None).object = IF slot[a] = a THEN "directory" ELSE "link"
      BY DEF ReadingOf
    <2>4. CASE slot[a] # a /\ content[slot[a]] \in {"sealed", "gone"}
      <3>1. seen[a] = IF content[slot[a]] = "sealed"
                      THEN Observation("link", "unknown", "unverified", "unreachable", None)
                      ELSE Observation("link", "nowhere", Provenance(None), "broken", None)
        BY <1>4, <1>6, <2>4, ExpectedIs
      <3> QED
        BY <3>1, <2>1, <2>4 DEF Observation, NotSeen, Loadable
    <2>5. CASE /\ slot[a] = a \/ content[slot[a]] \notin {"sealed", "gone"}
               /\ content[slot[a]] \notin Loadable
      <3>1. seen[a] = Observation(ReadingOf(a, None).object, Unloadable(Found(a)),
                                  Provenance(Resolved(a)), "broken", None)
        BY <1>4, <1>6, <2>2, <2>5, ExpectedIs
      <3> QED
        BY <3>1, <2>1, <2>2, <2>3, <2>5 DEF Observation, NotSeen, Unloadable, ContentKinds, Loadable
    <2>6. CASE content[slot[a]] \in Loadable
      <3> DEFINE health == CASE Provenance(Resolved(a)) = "unregistered" -> "unmanaged"
                             [] Provenance(Resolved(a)) = "unverified" -> "unverified"
                             [] OTHER -> "healthy"
      <3>1. seen[a] = Observation(ReadingOf(a, None).object, Canonical(slot[a]),
                                  Provenance(Resolved(a)), health, Canonical(slot[a]))
        BY <1>4, <1>6, <2>2, <2>6, ExpectedIs DEF Loadable
      <3>2. Canonical(slot[a]) # "nowhere"
        BY <1>6, CanonicalTyped, AgentNames DEF Outside
      <3>3. Resolved(a) # None => Resolved(a) \in Places
        BY <1>6 DEF Resolved
      <3>4. health # "unreachable" /\ (health = "healthy" <=> Resolved(a) # None)
        BY <3>3, AgentNames DEF Provenance
      <3> HIDE DEF health
      <3> QED
        BY <3>1, <3>2, <3>4, <2>1, <2>3, <2>6 DEF Observation, NotSeen, Loadable
    <2> QED
      BY <2>1, <2>4, <2>5, <2>6 DEF Loadable
  <1> QED
    BY <1>1, <1>2, <1>3, <1>4, <1>5, <1>6 DEF Scanned, Plain

\* A link to a registered variant is told by its provenance.
LEMMA ResolvedMeans ==
  ASSUME ScanInv, stage \notin BeforePass, NEW a \in Agents, slot[a] \in Places
  PROVE  /\ Resolved(a) # None <=> slot[a] \in index
         /\ Resolved(a) # None => /\ Resolved(a) = slot[a] /\ slot[a] \in Variants /\ slot[a] # a
                                  /\ Canonical(slot[a]) = slot[a]
         /\ Provenance(Resolved(a)) \in Variants <=> slot[a] \in index
         /\ Provenance(Resolved(a)) \in Variants => Provenance(Resolved(a)) = slot[a]
  <1>1. index = {v \in Offered : content[v] \notin {"gone", "sealed", "outside"}} /\ index \subseteq Variants
    BY DEF ScanInv, Indexed, Offered
  <1>2. slot[a] # None /\ Outside \notin Variants /\ a \notin Variants
    BY AgentNames, VariantsAssumption
  <1>3. Canonical(slot[a]) \in index <=> slot[a] \in index
    BY <1>1, <1>2, CanonicalTyped DEF Canonical
  <1>4. slot[a] \in index => Canonical(slot[a]) = slot[a]
    BY <1>1, <1>2, <1>3, CanonicalTyped
  <1>5. Resolved(a) = IF slot[a] \in index THEN slot[a] ELSE None
    BY <1>3 DEF Resolved
  <1>6. "unregistered" \notin Variants /\ "unverified" \notin Variants
    BY VariantsAssumption
  <1> QED
    BY <1>1, <1>2, <1>4, <1>5, <1>6 DEF Provenance

\* A sighting that is known is what OpenCode would load, whatever nobody could look at.
LEMMA SightingIsLoad ==
  ASSUME ScanInv, stage = "done", ~swapped, NEW a \in Agents,
         Sighting(a) \notin {"unread", "unknown"}
  PROVE  /\ status[a] \in {"missing", "scanned"} /\ a \in selected
         /\ \A hidden : Loads(a, hidden) = IF Sighting(a) = "nowhere" THEN {} ELSE {Sighting(a)}
  <1>1. status[a] \in {"missing", "scanned"} /\ a \in selected
    BY Observed DEF Sighting
  <1>2. CASE status[a] = "missing"
    BY <1>2, <1>1, Observed DEF Sighting, Loads
  <1>3. CASE status[a] = "scanned"
    <2>1. Sighting(a) = IF Installation(a) THEN seen[a].at ELSE "nowhere"
      BY <1>3 DEF Sighting
    <2>0. Entry(a) = slot[a] /\ slot[a] \in Plain \cup Places
      BY <1>3, Observed
    <2>2. CASE slot[a] = "absent"
      <3>1. seen[a] = NotSeen
        BY <1>3, <2>2, Observed
      <3> QED
        BY <1>1, <2>0, <2>1, <2>2, <3>1 DEF Installation, NotSeen, Observation, Loads
    <2>3. CASE slot[a] = "file"
      <3>1. seen[a].object = "file"
        BY <1>3, <2>3, Observed
      <3> QED
        BY <1>1, <2>0, <2>1, <2>3, <3>1 DEF Installation, Loads
    <2>4. CASE slot[a] = "unreadable"
      <3>1. seen[a].object = "unknown" /\ seen[a].at = "unknown"
        BY <1>3, <2>4, Observed
      <3> QED
        BY <2>1, <3>1 DEF Installation
    <2>5. CASE slot[a] \in Places
      <3>1. Installation(a) /\ Sighting(a) = seen[a].at /\ Entry(a) = slot[a] /\ slot[a] \notin Plain
        BY <1>3, <2>1, <2>5, Observed, AgentNames DEF Installation
      <3>2. CASE content[slot[a]] \in Loadable
        <4>1. Sighting(a) = Canonical(slot[a])
          BY <1>3, <2>5, <3>1, <3>2, Observed
        <4>2. Canonical(slot[a]) # "nowhere"
          BY <2>5, CanonicalTyped, AgentNames DEF Outside
        <4> QED
          BY <1>1, <3>1, <3>2, <4>1, <4>2 DEF Loads, Loadable, Plain
      <3>3. CASE content[slot[a]] \notin Loadable
        <4>1. seen[a].at = "nowhere"
          BY <1>3, <2>5, <3>1, <3>3, Observed
        <4>2. content[slot[a]] \notin {"valid", "outside", "opaque", "sealed"}
          BY <1>3, <2>5, <4>1, Observed DEF Loadable
        <4> QED
          BY <1>1, <3>1, <4>1, <4>2 DEF Loads, Plain
      <3> QED
        BY <3>2, <3>3
    <2> QED
      BY <2>0, <2>2, <2>3, <2>4, <2>5 DEF Plain
  <1> QED
    BY <1>1, <1>2, <1>3

\* A root said to offer a directory does offer it, and it was validated.
LEMMA OfferIsPlace ==
  ASSUME ScanInv, stage = "done", ~swapped, NEW a \in Agents,
         Sighting(a) \notin {"nowhere", "unread", "unknown"}
  PROVE  /\ status[a] = "scanned" /\ slot[a] \in Places /\ content[slot[a]] \in Loadable
         /\ Sighting(a) = Canonical(slot[a])
         /\ seen[a].provenance = Provenance(Resolved(a))
         /\ seen[a].validated = Canonical(slot[a])
  <1>1. status[a] = "scanned" /\ Sighting(a) = seen[a].at /\ Installation(a)
    BY DEF Sighting
  <1>2. slot[a] \in Places
    <2>1. slot[a] \in Plain \cup Places
      BY <1>1, Observed
    <2>2. slot[a] = "absent" => seen[a].object = "absent"
      <3>1. NotSeen.object = "absent"
        BY DEF NotSeen, Observation
      <3> QED
        BY <3>1, <1>1, Observed
    <2>3. slot[a] # "absent" /\ slot[a] # "file"
      <3>1. slot[a] = "file" => seen[a].object = "file"
        BY <1>1, Observed
      <3> QED
        BY <1>1, <2>2, <3>1 DEF Installation
    <2>4. slot[a] # "unreadable"
      BY <1>1, Observed
    <2> QED
      BY <2>1, <2>3, <2>4 DEF Plain
  <1>3. content[slot[a]] \in Loadable
    BY <1>1, <1>2, Observed
  <1> QED
    BY <1>1, <1>2, <1>3, Observed

\* The directory opencode loads last is the first of its order.
LEMMA WinnerIsFirst ==
  ASSUME NEW s, NEW hidden, DirectoriesOf(s) # {},
         \A a \in Agents : Loads(a, hidden) = IF s[a] = "nowhere" THEN {} ELSE {s[a]}
  PROVE  First(Winner(hidden), s)
  <1> DEFINE wins(i) == /\ Loads(RootOrder[i], hidden) # {}
                        /\ \A j \in 1..(i - 1) : Loads(RootOrder[j], hidden) = {}
             winner == CHOOSE i \in 1..3 : wins(i)
  <1>1. \A i \in 1..3 : Loads(RootOrder[i], hidden) = {} <=> s[RootOrder[i]] = "nowhere"
    BY Order
  <1>2. \E i \in 1..3 : s[RootOrder[i]] # "nowhere"
    BY Order DEF DirectoriesOf
  <1>3. \E i \in 1..3 : wins(i)
    <2>1. CASE s[RootOrder[1]] # "nowhere"
      BY <1>1, <2>1
    <2>2. CASE s[RootOrder[1]] = "nowhere" /\ s[RootOrder[2]] # "nowhere"
      <3>1. \A j \in 1..(2 - 1) : j = 1
        OBVIOUS
      <3> QED
        BY <1>1, <2>2, <3>1
    <2>3. CASE s[RootOrder[1]] = "nowhere" /\ s[RootOrder[2]] = "nowhere"
      <3>1. \A j \in 1..(3 - 1) : j = 1 \/ j = 2
        OBVIOUS
      <3>2. s[RootOrder[3]] # "nowhere"
        BY <1>2, <2>3, Order
      <3> QED
        BY <1>1, <2>3, <3>1, <3>2
    <2> QED
      BY <2>1, <2>2, <2>3
  <1>4. winner \in 1..3 /\ wins(winner)
    BY <1>3
  <1>5. Winner(hidden) = RootOrder[winner]
    BY DEF Winner
  <1>6. s[RootOrder[winner]] # "nowhere" /\ \A j \in 1..(winner - 1) : s[RootOrder[j]] = "nowhere"
    <2>1. winner \in 1..3
      BY <1>4
    <2> HIDE DEF winner
    <2>2. \A j \in 1..(winner - 1) : j \in 1..3
      BY <2>1
    <2> QED
      BY <1>1, <1>4, <2>2
  <1> HIDE DEF winner, wins
  <1>7. CASE winner = 1
    BY <1>5, <1>6, <1>7, Order DEF First
  <1>8. CASE winner = 2
    <2>1. s[RootOrder[1]] = "nowhere"
      BY <1>6, <1>8
    <2> QED
      BY <1>5, <1>6, <1>8, <2>1, Order DEF First
  <1>9. CASE winner = 3
    <2>1. s[RootOrder[1]] = "nowhere" /\ s[RootOrder[2]] = "nowhere"
      BY <1>6, <1>9
    <2> QED
      BY <1>5, <1>6, <1>9, <2>1, Order DEF First
  <1> QED
    BY <1>4, <1>7, <1>8, <1>9, Order

\* What the answer of a finished pass rests on.
Sightings == [a \in Agents |-> Sighting(a)]

\* When the pass gives an answer for opencode, it knew of every root, and
\* opencode loads what it saw.
LEMMA AnswerGiven ==
  ASSUME ScanInv, stage = "done", ~swapped, Resolution.kind \notin {"unasked", "incomplete"}
  PROVE  /\ "opencode" \in selected /\ Known(Sightings)
         /\ Resolution = ResolveOpenCode(Sightings, [a \in Agents |-> seen[a].provenance])
         /\ \A hidden :
              /\ \A a \in Agents : Loads(a, hidden) = IF Sightings[a] = "nowhere" THEN {}
                                                     ELSE {Sightings[a]}
              /\ Loaded(hidden) = DirectoriesOf(Sightings)
  <1>1. /\ "opencode" \in selected
        /\ Resolution = ResolveOpenCode(Sightings, [a \in Agents |-> seen[a].provenance])
    BY DEF Resolution, Sightings
  <1>2. Known(Sightings)
    BY <1>1, IncompleteMeans
  <1>3. ASSUME NEW hidden
        PROVE  /\ \A a \in Agents : Loads(a, hidden) = IF Sightings[a] = "nowhere" THEN {}
                                                     ELSE {Sightings[a]}
               /\ Loaded(hidden) = DirectoriesOf(Sightings)
    <2>1. \A a \in Agents : Loads(a, hidden) = IF Sightings[a] = "nowhere" THEN {} ELSE {Sightings[a]}
      BY <1>2, SightingIsLoad DEF Known, Sightings
    <2> QED
      BY <2>1 DEF Loaded, DirectoriesOf
  <1> QED
    BY <1>1, <1>2, <1>3

\* The answer for opencode is what opencode does.
LEMMA ResolutionHolds == ScanInv => ResolutionIsTrue
  <1> SUFFICES ASSUME ScanInv, stage = "done", ~swapped,
                      Resolution.kind \notin {"unasked", "incomplete"}, NEW hidden \in SUBSET Agents
               PROVE  LET unusable == \E v \in Variants : Loaded(hidden) = {v} /\ ~UsableBy(v, "opencode")
                      IN  /\ Resolution.kind = "nothing" <=> Loaded(hidden) = {}
                          /\ Resolution.kind = "conflict" <=> Cardinality(Loaded(hidden)) > 1
                          /\ Resolution.kind # "nothing" => Resolution.winner = Winner(hidden)
                          /\ Resolution.kind \in {"foreign", "incompatible"} => unusable
                          /\ Resolution.kind = "selected" => ~unusable \/ ~accountable
    BY DEF ResolutionIsTrue
  <1> DEFINE s == Sightings
             kinds == [a \in Agents |-> seen[a].provenance]
             dirs == DirectoriesOf(s)
             unusable == \E v \in Variants : Loaded(hidden) = {v} /\ ~UsableBy(v, "opencode")
  <1>1. /\ Known(s) /\ Resolution = ResolveOpenCode(s, kinds) /\ Loaded(hidden) = dirs
        /\ \A a \in Agents : Loads(a, hidden) = IF s[a] = "nowhere" THEN {} ELSE {s[a]}
    BY AnswerGiven
  <1>2. /\ Resolution.kind =
             IF dirs = {} THEN "nothing"
             ELSE IF Cardinality(dirs) > 1 THEN "conflict"
             ELSE IF \A a \in Agents : s[a] # "nowhere" => Foreign(kinds[a]) THEN "foreign"
             ELSE IF \A a \in Agents : s[a] # "nowhere" => Excluded(kinds[a]) THEN "incompatible"
             ELSE "selected"
        /\ dirs # {} => First(Resolution.winner, s)
    BY <1>1, AnswerMeans
  <1>3. Cardinality({}) = 0
    BY FS_EmptySet
  <1>4. /\ Resolution.kind = "nothing" <=> dirs = {}
        /\ Resolution.kind = "conflict" <=> Cardinality(dirs) > 1
    BY <1>2, <1>3
  <1>5. dirs # {} => Resolution.winner = Winner(hidden)
    BY <1>1, <1>2, WinnerIsFirst, FirstIsOne
  <1>6. ASSUME NEW a \in Agents, s[a] # "nowhere"
        PROVE  /\ slot[a] \in Places /\ content[slot[a]] \in Loadable
               /\ s[a] = Canonical(slot[a]) /\ kinds[a] = Provenance(Resolved(a))
               /\ kinds[a] \in Variants => s[a] = kinds[a]
               /\ s[a] \in Variants /\ accountable => kinds[a] = s[a]
    <2>1. Sighting(a) \notin {"nowhere", "unread", "unknown"} /\ s[a] = Sighting(a)
      BY <1>1, <1>6 DEF Known, Sightings
    <2>2. /\ slot[a] \in Places /\ content[slot[a]] \in Loadable
          /\ s[a] = Canonical(slot[a]) /\ kinds[a] = Provenance(Resolved(a))
      BY <2>1, OfferIsPlace
    <2>3. kinds[a] \in Variants => s[a] = kinds[a]
      BY <2>2, ResolvedMeans DEF BeforePass
    <2>4. ASSUME s[a] \in Variants, accountable PROVE kinds[a] = s[a]
      <3>1. slot[a] = s[a] /\ content[slot[a]] # "outside"
        BY <2>2, <2>4, CanonicalTyped, VariantsAssumption DEF Canonical
      <3>2. slot[a] \in Offered
        BY <2>4, <3>1 DEF ScanInv, Indexed, BeforePass, Accountable, WholeRegistry, Offered, Sources
      <3>3. slot[a] \in index
        BY <2>2, <3>1, <3>2 DEF ScanInv, Indexed, BeforePass, Loadable
      <3> QED
        BY <2>2, <3>1, <3>3, ResolvedMeans DEF BeforePass
    <2> QED
      BY <2>2, <2>3, <2>4
  <1>7. Resolution.kind \in {"foreign", "incompatible"} => unusable
    <2> SUFFICES ASSUME Resolution.kind \in {"foreign", "incompatible"} PROVE unusable
      OBVIOUS
    <2>1. dirs # {} /\ ~(Cardinality(dirs) > 1)
      BY <1>2
    <2>2. PICK a \in Agents : s[a] # "nowhere"
      BY <2>1 DEF DirectoriesOf
    <2>3. kinds[a] \in Variants /\ ~UsableBy(kinds[a], "opencode")
      BY <1>2, <2>2 DEF Foreign, Excluded, UsableBy, ForeignTo
    <2>4. s[a] \in dirs /\ \A x, y \in dirs : x = y
      BY <2>1, <2>2, DirectoriesFinite, Few DEF DirectoriesOf
    <2>5. dirs = {kinds[a]}
      BY <1>6, <2>2, <2>3, <2>4
    <2> QED
      BY <1>1, <2>3, <2>5
  <1>8. ASSUME Resolution.kind = "selected", accountable, NEW v \in Variants,
               dirs = {v}, ~UsableBy(v, "opencode")
        PROVE  FALSE
    <2>1. \A a \in Agents : s[a] # "nowhere" => s[a] = v
      BY <1>8 DEF DirectoriesOf
    <2>2. \A a \in Agents : s[a] # "nowhere" => kinds[a] = v
      BY <1>6, <1>8, <2>1
    <2>3. Foreign(v) \/ Excluded(v)
      BY <1>8 DEF Foreign, Excluded, UsableBy, ForeignTo
    <2> QED
      BY <1>2, <1>8, <2>2, <2>3
  <1> HIDE DEF s, kinds
  <1> QED
    BY <1>1, <1>4, <1>5, <1>7, <1>8

-----------------------------------------------------------------------------
(* What a finished pass says *)

\* Where a root was read, an entry is counted as a skill exactly when it is
\* one.
LEMMA SkillsCounted ==
  ASSUME ScanInv, stage = "done", ~swapped, NEW a \in Agents,
         status[a] \in {"scanned", "missing", "not selected"}
  PROVE  IsSkill(a) <=> a \in selected /\ Entry(a) \in Places
  <1>1. NotSeen.object = "absent"
    BY DEF NotSeen, Observation
  <1>2. CASE status[a] = "not selected"
    <2>1. seen[a] = NotSeen /\ a \notin selected
      BY <1>2, Observed
    <2> QED
      BY <1>1, <2>1 DEF IsSkill
  <1>3. CASE status[a] = "missing"
    <2>1. seen[a] = NotSeen /\ Entry(a) = "absent"
      BY <1>3, Observed
    <2> QED
      BY <1>1, <2>1, AgentNames DEF IsSkill, Plain
  <1>4. CASE status[a] = "scanned"
    <2>1. a \in selected /\ Entry(a) = slot[a] /\ slot[a] \in Plain \cup Places
      BY <1>4, Observed
    <2>2. slot[a] = "absent" => seen[a].object = "absent"
      BY <1>1, <1>4, Observed
    <2>3. /\ slot[a] = "file" => seen[a].object = "file"
          /\ slot[a] = "unreadable" => seen[a].object = "unknown"
      BY <1>4, Observed
    <2>4. slot[a] \in Places => seen[a].object \in {"link", "directory"}
      BY <1>4, Observed
    <2>5. slot[a] \in Places => slot[a] \notin Plain
      BY AgentNames
    <2> QED
      BY <2>1, <2>2, <2>3, <2>4, <2>5 DEF IsSkill, Plain
  <1> QED
    BY <1>2, <1>3, <1>4

\* The counts of the inventory are whole or say that they are not.
LEMMA CountsHold == ScanInv => CountsAreWhole
  <1> SUFFICES ASSUME ScanInv, stage = "done", ~swapped
               PROVE  /\ SkillCountStated => (SkillCount = 1 <=>
                           \E a \in selected : Entry(a) \in Places)
                      /\ FindingCountStated => \A a \in selected :
                           Ambiguous(a) <=>
                             Cardinality(Narrow({v \in Variants : content[v] = "valid"}, a)) > 1
                      /\ Critical("opencode") =>
                           Loaded({}) # {} \/ Entry("opencode") \in Places \cup {"unreadable"}
    BY DEF CountsAreWhole
  <1>1. ASSUME SkillCountStated
        PROVE  SkillCount = 1 <=> \E a \in selected : Entry(a) \in Places
    <2>1. \A a \in Agents : status[a] \in {"scanned", "missing", "not selected"}
      BY <1>1 DEF SkillCountStated, CountsAreComplete
    <2>2. \A a \in Agents : IsSkill(a) <=> a \in selected /\ Entry(a) \in Places
      BY <2>1, SkillsCounted
    <2>3. selected \subseteq Agents
      BY DEF ScanInv, WorldTypes
    <2>4. SkillCount = 1 <=> \E a \in Agents : IsSkill(a)
      BY DEF SkillCount
    <2> QED
      BY <2>2, <2>3, <2>4
  <1>2. ASSUME FindingCountStated, NEW a \in selected
        PROVE  Ambiguous(a) <=>
                 Cardinality(Narrow({v \in Variants : content[v] = "valid"}, a)) > 1
    <2>1. Offered = Variants
      BY <1>2 DEF FindingCountStated, WholeRegistry, Offered, Sources
    <2>2. ReadableVariants = {v \in Variants : content[v] = "valid"}
      BY <2>1 DEF ReadableVariants
    <2> QED
      BY <2>2 DEF Ambiguous
  <1>3. ASSUME Critical("opencode")
        PROVE  Loaded({}) # {} \/ Entry("opencode") \in Places \cup {"unreadable"}
    <2>1. CASE Installation("opencode")
      <3>1. NotSeen.object = "absent"
        BY DEF NotSeen, Observation
      <3>2. status["opencode"] = "scanned"
        BY <2>1, <3>1, Observed, AgentNames DEF Installation
      <3>3. Entry("opencode") = slot["opencode"] /\ slot["opencode"] \in Plain \cup Places
        BY <3>2, Observed, AgentNames
      <3>4. slot["opencode"] # "absent" /\ slot["opencode"] # "file"
        BY <2>1, <3>1, <3>2, Observed, AgentNames DEF Installation
      <3> QED
        BY <3>3, <3>4 DEF Plain
    <2>2. CASE Resolution.kind \notin {"unasked", "incomplete", "nothing"}
      BY <2>2, ResolutionHolds DEF ResolutionIsTrue
    <2> QED
      BY <1>3, <2>1, <2>2 DEF Critical
  <1> QED
    BY <1>1, <1>2, <1>3

\* What can be loaded was seen, where it is and with its provenance.
LEMMA LoadableIsSeen ==
  ASSUME ScanInv, stage = "done", ~swapped, NEW a \in Agents, status[a] = "scanned",
         slot[a] \in Places, content[slot[a]] \in Loadable
  PROVE  /\ seen[a].object \in {"link", "directory"}
         /\ seen[a].at = Canonical(slot[a])
         /\ seen[a].validated = Canonical(slot[a])
         /\ seen[a].provenance = Provenance(Resolved(a))
  <1>1. seen[a].object = IF slot[a] = a THEN "directory" ELSE "link"
    BY Observed
  <1>2. seen[a].at = Canonical(slot[a])
    BY Observed
  <1>3. seen[a].validated = Canonical(slot[a])
    BY Observed
  <1>4. seen[a].provenance = Provenance(Resolved(a))
    BY Observed
  <1> QED
    BY <1>1, <1>2, <1>3, <1>4

\* The source a row of the inventory names is where its content comes from.
LEMMA RowSourceHolds == ScanInv => RowSourceIsTrue
  <1> SUFFICES ASSUME ScanInv, stage = "done", ~swapped, RowProvenance \in Sources,
                      NEW a \in Agents, NEW p \in Loads(a, {}), status[a] = "scanned"
               PROVE  p \in Variants /\ SourceOf[p] = RowProvenance
    BY DEF RowSourceIsTrue
  <1> DEFINE found == {b \in Agents : Installation(b)}
             from == {SourceOf[seen[b].provenance] :
                        b \in {c \in found : seen[c].provenance \in Variants}}
  <1>0. RowProvenance \notin {"not applicable", "not registered", "unverified", "mixed",
                              "multiple sources"}
    BY VariantsAssumption
  <1>1. RowProvenance =
          IF found = {} THEN "not applicable"
          ELSE IF \E b \in Agents : seen[b].provenance = "unverified" THEN "unverified"
          ELSE IF from = {} THEN "not registered"
          ELSE IF \E b \in Agents : seen[b].provenance = "unregistered" /\ seen[b].validated # None
          THEN "mixed"
          ELSE IF Cardinality(from) = 1 THEN CHOOSE s \in from : TRUE
          ELSE "multiple sources"
    BY DEF RowProvenance
  <1> HIDE DEF from, found
  <1>2. /\ ~\E b \in Agents : seen[b].provenance = "unverified"
        /\ ~\E b \in Agents : seen[b].provenance = "unregistered" /\ seen[b].validated # None
        /\ Cardinality(from) = 1
        /\ RowProvenance = CHOOSE s \in from : TRUE
    BY <1>0, <1>1
  <1>3. IsFiniteSet(from)
    <2>1. from \subseteq {SourceOf[seen["claude"].provenance], SourceOf[seen["codex"].provenance],
                          SourceOf[seen["opencode"].provenance]}
      BY DEF from, found, Agents
    <2> QED
      BY <2>1, ThreeAreFinite
  <1>4. \A s \in from : s = RowProvenance
    <2>1. PICK s : from = {s}
      BY <1>2, <1>3, Few
    <2> QED
      BY <1>2, <2>1
  <1>5. /\ slot[a] \in Places /\ content[slot[a]] \in Loadable /\ p = Canonical(slot[a])
    <2>1. Entry(a) = slot[a] /\ slot[a] \in Plain \cup Places
      BY Observed
    <2> QED
      BY <2>1 DEF Loads, Plain, Loadable
  <1>6. /\ seen[a].provenance = Provenance(Resolved(a)) /\ seen[a].validated # None
        /\ Installation(a)
    <2>1. /\ seen[a].provenance = Provenance(Resolved(a)) /\ seen[a].validated = Canonical(slot[a])
          /\ seen[a].object \in {"link", "directory"}
      BY <1>5, LoadableIsSeen
    <2>2. Canonical(slot[a]) # None
      BY <1>5, CanonicalTyped, AgentNames DEF Outside, None
    <2> QED
      BY <2>1, <2>2 DEF Installation
  <1>7. Provenance(Resolved(a)) \notin {"unverified", "unregistered"}
    BY <1>2, <1>6
  <1>8. Resolved(a) # None /\ Provenance(Resolved(a)) = Resolved(a)
    BY <1>7 DEF Provenance
  <1>9. Resolved(a) \in Variants /\ p = Resolved(a)
    BY <1>5, <1>8, ResolvedMeans DEF BeforePass
  <1>10. SourceOf[p] \in from
    BY <1>6, <1>8, <1>9 DEF from, found
  <1> QED
    BY <1>4, <1>9, <1>10

\* The three together.
LEMMA ScanHolds == ScanInv => ScanIsTrue
  BY ResolutionHolds, RowSourceHolds, CountsHold DEF ScanIsTrue

-----------------------------------------------------------------------------
(* What is said of one link *)

\* A step that observes nothing labels nothing.
LEMMA LabelsKept ==
  ASSUME UNCHANGED seen PROVE UnmanagedIsProven /\ LabelDescribesContent
  BY DEF UnmanagedIsProven, LabelDescribesContent

\* A label other than healthy and unmanaged promises nothing.
LEMMA LabelsPlain ==
  ASSUME NEW a \in Agents, NEW o, seen' = [seen EXCEPT ![a] = o],
         ScanInv, o.health \notin {"unmanaged", "healthy"}
  PROVE  UnmanagedIsProven /\ LabelDescribesContent
  <1>1. \A b \in Agents : seen'[b] # seen[b] => b = a /\ seen'[b] = o
    BY DEF ScanInv, PassTypes
  <1> QED
    BY <1>1 DEF UnmanagedIsProven, LabelDescribesContent

\* The step that labels an entry labels it with what it was read as.
LEMMA SettleLabels ==
  ASSUME ScanInv, Settle PROVE UnmanagedIsProven /\ LabelDescribesContent
  <1>0. todo # <<>> /\ todo \in Suffixes /\ stage = "settle"
    BY DEF Settle, ScanInv, Inspected, Inspecting, PassTypes
  <1>1. PICK a \in Agents : a = Head(todo)
    BY <1>0, WaitingMoves
  <1> DEFINE kept == StillResolved(a)
             provenance == Provenance(kept)
             health == CASE provenance = "unregistered" -> "unmanaged"
                         [] provenance = "unverified" -> "unverified"
                         [] OTHER -> "healthy"
             o == Observation(reading.object, reading.at, provenance, health, reading.validated)
  <1>2. seen' = [seen EXCEPT ![a] = o]
    BY <1>1 DEF Settle, Conclude
  <1>3. \A b \in Agents : seen'[b] # seen[b] => b = a /\ seen'[b] = o
    BY <1>2 DEF ScanInv, PassTypes
  <1>4. /\ o.at = reading.at /\ o.provenance = provenance /\ o.health = health
        /\ o.validated = reading.validated
    BY DEF Observation
  <1>5. /\ reading \in Readings
        /\ \/ reading.object = "directory" /\ reading.at = a /\ reading.resolution = None
           \/ /\ reading.object = "link"
              /\ \E p \in Places \ {a} :
                   /\ content[p] \notin {"gone", "sealed"}
                   /\ reading.at = Canonical(p)
                   /\ reading.resolution = IF Canonical(p) \in index THEN p ELSE None
                   /\ during = 0 => slot[a] = p
                   /\ during < 2 /\ slot[a] = p => reading.validated = Canonical(p)
    BY <1>0, <1>1 DEF ScanInv, Labelled
  <1>6. kept \in {None, reading.resolution}
    BY DEF StillResolved
  <1>7. reading.resolution \in Variants \cup {None}
    BY <1>5 DEF Readings
  <1>8. "unregistered" \notin Variants /\ "unverified" \notin Variants /\ None \notin Variants
        /\ Outside \notin Variants /\ a \notin Variants
    BY VariantsAssumption, AgentNames
  <1>9. /\ index = {v \in Offered : content[v] \notin {"gone", "sealed", "outside"}}
        /\ accountable = Accountable
    BY <1>0 DEF ScanInv, Indexed, BeforePass
  <1>10. ASSUME health = "unmanaged", during = 0, NEW v \in Variants, Canonical(v) = reading.at
         PROVE  FALSE
    <2>1. provenance = "unregistered"
      BY <1>10
    <2>2. kept = None /\ accountable
      BY <2>1, <1>6, <1>7, <1>8 DEF Provenance
    <2>3. content[v] # "outside" /\ Canonical(v) = v /\ v \in Offered
      BY <2>2, <1>9 DEF Accountable, WholeRegistry, Offered, Sources, Canonical
    <2>4. v \in Places /\ reading.at = v /\ reading.object = "link"
      BY <1>5, <1>8, <1>10, <2>3, AgentNames
    <2>5. PICK p \in Places \ {a} : /\ content[p] \notin {"gone", "sealed"}
                                    /\ reading.at = Canonical(p) /\ slot[a] = p
                                    /\ reading.resolution = IF Canonical(p) \in index THEN p ELSE None
      BY <1>5, <1>10, <2>4
    <2>6. p = v
      BY <2>4, <2>5, <1>8 DEF Canonical
    <2>7. v \in index
      BY <1>9, <2>3, <2>5, <2>6
    <2>8. reading.resolution = v /\ kept = reading.resolution
      BY <2>3, <2>5, <2>6, <2>7 DEF StillResolved
    <2> QED
      BY <2>2, <2>8, <1>8
  <1>11. ASSUME health = "healthy", during < 2
         PROVE  reading.validated = provenance
    <2>1. provenance \notin {"unregistered", "unverified"}
      BY <1>11
    <2>2. kept # None /\ provenance = kept /\ kept = reading.resolution /\ kept \in Variants
      BY <2>1, <1>6, <1>7 DEF Provenance
    <2>3. reading.object = "link" /\ slot[a] \in Places /\ Canonical(slot[a]) = reading.at
      BY <1>5, <2>2 DEF StillResolved
    <2>4. PICK p \in Places \ {a} : /\ reading.at = Canonical(p)
                                    /\ reading.resolution = IF Canonical(p) \in index THEN p ELSE None
                                    /\ slot[a] = p => reading.validated = Canonical(p)
      BY <1>5, <1>11, <2>3
    <2>5. p \in Variants /\ Canonical(p) \in index /\ provenance = p
      BY <2>2, <2>4
    <2>6. Canonical(p) = p
      BY <1>8, <1>9, <2>5 DEF Canonical, Offered
    <2>7. slot[a] = p
      BY <1>8, <2>3, <2>4, <2>5, <2>6 DEF Canonical
    <2> QED
      BY <2>4, <2>5, <2>6, <2>7
  <1> HIDE DEF o, health, provenance, kept
  <1>12. UnmanagedIsProven
    BY <1>3, <1>4, <1>10, <1>9, <1>0 DEF UnmanagedIsProven, Settle, world
  <1>13. LabelDescribesContent
    BY <1>3, <1>4, <1>11 DEF LabelDescribesContent
  <1> QED
    BY <1>12, <1>13

\* No step mislabels an entry.
LEMMA StepLabels ==
  ASSUME ScanInv, [PlanNext]_allVars PROVE UnmanagedIsProven /\ LabelDescribesContent
  <1>1. CASE UNCHANGED seen
    BY <1>1, LabelsKept
  <1>2. CASE Settle
    BY <1>2, SettleLabels
  <1>3. ASSUME Observe \/ Validate PROVE UnmanagedIsProven /\ LabelDescribesContent
    <2>0. todo # <<>> /\ todo \in Suffixes
      BY <1>3 DEF Observe, Validate, ScanInv, Inspected, Inspecting, PassTypes
    <2>1. PICK a \in Agents : a = Head(todo)
      BY <2>0, WaitingMoves
    <2>2. CASE Observe
      <3>1. \/ UNCHANGED seen
            \/ Conclude(a, Observation("unknown", "unknown", "unverified", "broken", None))
            \/ Conclude(a, Observation("file", "nowhere", "unregistered", "not a skill", None))
            \/ Conclude(a, Observation("link", "unknown", "unverified", "unreachable", None))
            \/ Conclude(a, Observation("link", "nowhere", Provenance(None), "broken", None))
        BY <2>1, <2>2 DEF Observe
      <3> QED
        BY <1>1, <3>1, LabelsPlain DEF Observation, Conclude
    <2>3. CASE Validate
      <3>1. \/ UNCHANGED seen
            \/ Conclude(a, Observation(reading.object, Unloadable(Found(a)),
                                       Provenance(reading.resolution), "broken", None))
        BY <2>1, <2>3 DEF Validate, Leave
      <3> QED
        BY <1>1, <3>1, LabelsPlain DEF Observation, Conclude
    <2> QED
      BY <1>3, <2>2, <2>3
  <1>4. BuildIndex \/ OpenRoot \/ Finish \/ (\E a \in Agents : Swap(a)) => UNCHANGED seen
    BY DEF BuildIndex, OpenRoot, Finish, Swap, pass, Leave
  <1>5. Decide \/ Recheck \/ Write \/ Interfere => UNCHANGED seen
    BY DEF Decide, Recheck, Write, Interfere, pass
  <1>6. UNCHANGED allVars => UNCHANGED seen
    BY DEF allVars, scanVars, pass
  <1> QED
    BY <1>1, <1>2, <1>3, <1>4, <1>5, <1>6 DEF PlanNext, Pass

-----------------------------------------------------------------------------
(* Plans: what no step changes *)

\* What resolve_opencode answers depends on the catalogue alone.
LEMMA ResolveKept ==
  ASSUME NEW s, NEW kinds, UNCHANGED catalog
  PROVE  ResolveOpenCode(s, kinds)' = ResolveOpenCode(s, kinds)
  BY DEF ResolveOpenCode, ForeignTo

\* What a plan foresees is told from the roots it leaves alone.
LEMMA ForeseenKept ==
  ASSUME NEW p, plan' = p,
         UNCHANGED <<content, selected>>,
         \A a \in Agents \ Working(p.targets) : slot'[a] = slot[a] /\ root'[a] = root[a]
  PROVE  \A a \in Agents : Foreseen(plan, a)' = Foreseen(p, a)
  <1> SUFFICES ASSUME NEW a \in Agents PROVE Foreseen(plan, a)' = Foreseen(p, a)
    OBVIOUS
  <1>1. CASE a \in Working(p.targets)
    BY <1>1 DEF Foreseen, Working
  <1>2. CASE a \notin Working(p.targets)
    <2>1. slot'[a] = slot[a] /\ root'[a] = root[a]
      BY <1>2
    <2>2. Entry(a)' = Entry(a) /\ RootProbe(a)' = RootProbe(a) /\ Listable(a)' = Listable(a)
      BY <2>1 DEF Entry, RootProbe, Listable
    <2>3. RepairRoot(a)' = RepairRoot(a)
      BY <2>2 DEF RepairRoot
    <2>4. ProbedContent(a)' = ProbedContent(a)
      BY <2>2 DEF ProbedContent, Canonical
    <2>5. RepairContent(a)' = RepairContent(a)
      BY <2>1, <2>2, <2>4 DEF RepairContent, IsLink
    <2>6. ProbeOf(plan, a)' = ProbeOf(p, a) /\ ContentOf(plan, a)' = ContentOf(p, a)
      BY <2>2, <2>3, <2>4, <2>5 DEF ProbeOf, ContentOf
    <2> QED
      BY <1>2, <2>6 DEF Foreseen, Working
  <1> QED
    BY <1>1, <1>2

\* so what was stated of it goes on fitting it.
LEMMA StatedKept ==
  ASSUME NEW p, plan' = p,
         UNCHANGED <<content, selected, catalog>>,
         \A a \in Agents \ Working(p.targets) : slot'[a] = slot[a] /\ root'[a] = root[a],
         StandingFits(p), OutlookFits(p), "opencode" \in selected => SaidFits(p)
  PROVE  /\ StandingFits(plan)' /\ OutlookFits(plan)'
         /\ "opencode" \in selected' => SaidFits(plan)'
  <1>1. \A a \in Agents : Foreseen(plan, a)' = Foreseen(p, a)
    BY ForeseenKept
  <1>2. Prospect(plan)' = Prospect(p) /\ ProspectKinds(plan)' = ProspectKinds(p)
    BY <1>1 DEF Prospect, ProspectKinds
  <1>3. Foresight(plan)' = Foresight(p)
    <2>1. Foresight(plan)' = ResolveOpenCode(Prospect(p), ProspectKinds(p))'
      BY <1>2 DEF Foresight
    <2>2. PICK s, kinds : s = Prospect(p) /\ kinds = ProspectKinds(p)
      OBVIOUS
    <2> QED
      BY <1>2, <2>2, ResolveKept DEF Foresight
  <1>4. StandingFits(plan)'
    BY <1>2 DEF StandingFits, Known
  <1>5. OutlookFits(plan)'
    BY <1>3 DEF OutlookFits, Reduced, Outlook
  <1>6. "opencode" \in selected => SaidFits(plan)'
    <2>1. DirectoriesOf(Prospect(plan))' = DirectoriesOf(Prospect(p))
      BY <1>2 DEF DirectoriesOf
    <2> QED
      BY <1>3, <2>1 DEF SaidFits, Working
  <1> QED
    BY <1>4, <1>5, <1>6

\* A plan begins in its invariant.
LEMMA InitPlan == PlanInit => PlanInv
  <1> SUFFICES ASSUME PlanInit PROVE PlanInv
    OBVIOUS
  <1>1. PICK i \in DOMAIN Cases : \E c \in Cases[i] :
          /\ Begins(c, IF c.request = NoRequest THEN "index" ELSE "plan")
          /\ request = c.request
    BY DEF PlanInit
  <1>2. PICK c \in Cases[i] : /\ Begins(c, IF c.request = NoRequest THEN "index" ELSE "plan")
                              /\ request = c.request
    BY <1>1
  <1>3. plan = NoPlan /\ steps = [a \in Agents |-> "none"] /\ disturbed = FALSE
    BY DEF PlanInit
  <1>4. Working(plan.targets) = {} /\ ~Executable(plan)
    BY <1>3 DEF NoPlan, Working, Work, Executable
  <1>5. request \in Requests
    BY <1>2, RequestsAssumption
  <1>6. PlanTypes
    BY <1>3, <1>4, <1>5 DEF PlanTypes, NoPlan, Dispositions
  <1>7. Attempts
    <2>1. stage = "plan" => request # NoRequest
      BY <1>2 DEF Begins
    <2>2. stage \notin {"recheck", "write"}
      BY <1>2 DEF Begins
    <2>3. \A a \in Agents : root[a] \in {"missing", "orphaned"} => slot[a] = "absent"
      BY <1>2, CasesAssumption DEF Begins
    <2> QED
      BY <1>3, <1>4, <2>1, <2>2, <2>3 DEF Attempts
  <1> QED
    BY <1>4, <1>6, <1>7 DEF PlanInv, TargetsStand, ContentStands, RepairStands, Stated, Quiet

\* A pass after the writes keeps it.
LEMMA PassPlan == PlanInv /\ Pass /\ UNCHANGED planVars => PlanInv'
  <1> SUFFICES ASSUME PlanInv, Pass, UNCHANGED planVars PROVE PlanInv'
    OBVIOUS
  <1>1. /\ stage \notin {"plan", "recheck", "write"} /\ stage' \notin {"plan", "recheck", "write"}
        /\ \/ UNCHANGED <<world, swapped>>
           \/ swapped' = TRUE
    <2>1. CASE BuildIndex
      BY <2>1 DEF BuildIndex
    <2>2. CASE OpenRoot
      BY <2>2 DEF OpenRoot, Leave
    <2>3. CASE Observe
      BY <2>3 DEF Observe, Conclude
    <2>4. CASE Validate
      BY <2>4 DEF Validate, Conclude, Leave
    <2>5. CASE Settle
      BY <2>5 DEF Settle, Conclude
    <2>6. CASE Finish
      BY <2>6 DEF Finish
    <2>7. CASE \E a \in Agents : Swap(a)
      BY <2>7 DEF Swap, pass
    <2> QED
      BY <2>1, <2>2, <2>3, <2>4, <2>5, <2>6, <2>7 DEF Pass
  <1>2. PlanTypes'
    BY DEF PlanInv, PlanTypes, planVars, Executable, Working
  <1>3. Attempts'
    BY <1>1 DEF PlanInv, Attempts, planVars, Executable, Working
  <1>4. CASE swapped'
    BY <1>2, <1>3, <1>4 DEF PlanInv, TargetsStand, ContentStands, RepairStands, Stated, Quiet
  <1>5. CASE UNCHANGED <<world, swapped>>
    <2>1. /\ Quiet' = Quiet /\ Working(plan.targets)' = Working(plan.targets)
      BY <1>5 DEF Quiet, planVars, Executable, Working
    <2>2. TargetsStand'
      <3> SUFFICES ASSUME Quiet, NEW a \in Working(plan.targets) PROVE TargetStands(a)'
        BY <2>1 DEF TargetsStand
      <3>1. TargetStands(a)
        BY DEF PlanInv, TargetsStand
      <3> QED
        BY <1>1, <1>5, <3>1 DEF TargetStands, planVars, world, UsableBy
    <2>3. ContentStands'
      BY <1>5, <2>1 DEF PlanInv, ContentStands, planVars, world, ReadableVariants, Offered
    <2>4. RepairStands'
      <3>1. \A b \in Agents : Probed(b)' = Probed(b)
        BY <1>5 DEF Probed, IsLink, Leads, ProbedContent, Entry, Canonical, world
      <3> QED
        BY <1>5, <2>1, <3>1 DEF PlanInv, RepairStands, planVars, world
    <2>5. Stated'
      <3> SUFFICES ASSUME Quiet PROVE /\ StandingFits(plan)' /\ OutlookFits(plan)'
                                      /\ "opencode" \in selected' => SaidFits(plan)'
        BY <2>1 DEF Stated
      <3>1. PICK p : p = plan
        OBVIOUS
      <3>2. plan' = p
        BY <3>1 DEF planVars
      <3>3. StandingFits(p) /\ OutlookFits(p) /\ ("opencode" \in selected => SaidFits(p))
        BY <3>1 DEF PlanInv, Stated
      <3>4. UNCHANGED <<slot, root, content, selected, catalog>>
        BY <1>5 DEF world
      <3> QED
        BY <3>2, <3>3, <3>4, StatedKept
    <2> QED
      BY <1>2, <1>3, <2>2, <2>3, <2>4, <2>5 DEF PlanInv
  <1> QED
    BY <1>1, <1>4, <1>5

\* Another process keeps it: a plan that was disturbed promises nothing.
LEMMA InterferePlan == PlanInv /\ Interfere => PlanInv'
  <1> SUFFICES ASSUME PlanInv, Interfere PROVE PlanInv'
    OBVIOUS
  <1>1. /\ disturbed' = TRUE /\ stage' = stage /\ UNCHANGED <<request, plan, steps>>
        /\ stage \in {"recheck", "write"}
    BY DEF Interfere, pass
  <1>2. PlanTypes' /\ Attempts'
    BY <1>1 DEF PlanInv, PlanTypes, Attempts, Executable, Working, Pending
  <1> QED
    BY <1>1, <1>2 DEF PlanInv, TargetsStand, ContentStands, RepairStands, Stated, Quiet

\* Before its index is built, another process does not concern the pass.
LEMMA InterfereScan == ScanInv /\ PlanInv /\ Interfere => ScanInv'
  <1> SUFFICES ASSUME ScanInv, Interfere PROVE ScanInv'
    OBVIOUS
  <1>1. /\ stage \in {"recheck", "write"} /\ stage' = stage
        /\ UNCHANGED <<budget, todo, index, complete, accountable, status, seen, swapped, during>>
    BY DEF Interfere, pass
  <1>2. others' \in Nat
    <2>1. others \in Nat /\ others > 0 /\ others' = others - 1
      BY DEF Interfere, ScanInv, PassTypes
    <2> QED
      BY <2>1
  <1>3. WorldTypes'
    <2>1. slot' \in [Agents -> Plain \cup Places]
      BY AgentNames DEF Interfere, ScanInv, WorldTypes, Plain
    <2>2. content' \in [Places -> ContentKinds] /\ \A p \in Places \ Variants : content'[p] # "outside"
      BY AgentNames DEF Interfere, ScanInv, WorldTypes, ContentKinds
    <2> QED
      BY <2>1, <2>2 DEF Interfere, ScanInv, WorldTypes
  <1> QED
    BY <1>1, <1>2, <1>3, BeforeScan DEF BeforePass

-----------------------------------------------------------------------------
(* Plans: carrying one out *)

\* The agent a plan is at is one it has yet to write.
LEMMA TargetIsPending == Pending # {} => Target \in Pending
  <1> SUFFICES ASSUME Pending # {} PROVE Target \in Pending
    OBVIOUS
  <1> DEFINE next(i) == ScanOrder[i] \in Pending /\ \A j \in 1..(i - 1) : ScanOrder[j] \notin Pending
  <1>0. /\ ScanOrder[1] = "claude" /\ ScanOrder[2] = "codex" /\ ScanOrder[3] = "opencode"
        /\ Pending \subseteq {"claude", "codex", "opencode"}
    BY DEF ScanOrder, Pending, Working, Agents
  <1>1. \E i \in 1..3 : next(i)
    <2>1. CASE ScanOrder[1] \in Pending
      <3>1. \A j \in 1..(1 - 1) : FALSE
        OBVIOUS
      <3> QED
        BY <2>1, <3>1
    <2>2. CASE ScanOrder[1] \notin Pending /\ ScanOrder[2] \in Pending
      <3>1. \A j \in 1..(2 - 1) : j = 1
        OBVIOUS
      <3> QED
        BY <2>2, <3>1
    <2>3. CASE ScanOrder[1] \notin Pending /\ ScanOrder[2] \notin Pending
      <3>1. \A j \in 1..(3 - 1) : j = 1 \/ j = 2
        OBVIOUS
      <3>2. ScanOrder[3] \in Pending
        BY <1>0, <2>3
      <3> QED
        BY <2>3, <3>1, <3>2
    <2> QED
      BY <2>1, <2>2, <2>3
  <1>2. next(CHOOSE i \in 1..3 : next(i))
    BY <1>1
  <1>3. Target = ScanOrder[CHOOSE i \in 1..3 : next(i)]
    BY DEF Target
  <1> HIDE DEF next
  <1>4. \A i : next(i) => ScanOrder[i] \in Pending
    BY DEF next
  <1> QED
    BY <1>2, <1>3, <1>4

\* The target about to be attempted is as the plan has it, unless others interfered.
LEMMA TargetIsReady ==
  ASSUME PlanInv, stage \in {"recheck", "write"}
  PROVE  /\ Target \in Working(plan.targets) /\ Target \in Agents /\ steps[Target] = "none"
         /\ Target \in Pending
         /\ Quiet => /\ TargetStands(Target)
                     /\ plan.op # "uninstall" => plan.variant \in ReadableVariants
                     /\ plan.op \in Operations
                     /\ plan.op = "repair" =>
                          /\ slot = plan.entry /\ plan.probed = [b \in Agents |-> Probed(b)]
                          /\ Working(plan.targets) = {Target}
  <1>1. Target \in Pending
    BY TargetIsPending DEF PlanInv, Attempts
  <1>2. Target \in Working(plan.targets) /\ Target \in Agents /\ steps[Target] = "none"
    BY <1>1 DEF Pending, Working
  <1>3. ASSUME Quiet
        PROVE  /\ TargetStands(Target)
               /\ plan.op # "uninstall" => plan.variant \in ReadableVariants
               /\ plan.op \in Operations
    BY <1>2, <1>3 DEF PlanInv, TargetsStand, ContentStands, PlanTypes, Quiet
  <1>4. ASSUME Quiet, plan.op = "repair"
        PROVE  /\ slot = plan.entry /\ plan.probed = [b \in Agents |-> Probed(b)]
               /\ Working(plan.targets) = {Target}
    <2>1. PICK a \in Agents : Working(plan.targets) = {a}
      BY <1>4 DEF PlanInv, RepairStands
    <2>2. a = Target
      BY <1>2, <2>1
    <2>3. \A b \in Agents : steps[b] = "none"
      BY <1>2, <2>1, <2>2 DEF PlanInv, Attempts
    <2> QED
      BY <1>4, <2>1, <2>2, <2>3 DEF PlanInv, RepairStands
  <1> QED
    BY <1>1, <1>2, <1>3, <1>4

\* As long as nobody interferes, the recheck before a write finds what the
\* plan was made of.
LEMMA StillPlanned ==
  ASSUME ScanInv, PlanInv, stage = "recheck", Quiet PROVE StillAsPlanned(Target)
  <1> DEFINE a == Target
  <1>1. /\ a \in Agents /\ steps[a] = "none" /\ TargetStands(a)
        /\ plan.op # "uninstall" => plan.variant \in ReadableVariants
        /\ plan.op \in Operations
        /\ plan.op = "repair" => slot = plan.entry /\ plan.probed = [b \in Agents |-> Probed(b)]
    BY TargetIsReady
  <1> HIDE DEF a
  <1>2. CASE plan.op = "install"
    <2>1. /\ slot[a] = "absent" /\ a \in selected
          /\ IF plan.targets[a] = "create root" THEN root[a] = "missing"
             ELSE root[a] \in {"present", "unlistable"}
      BY <1>1, <1>2 DEF TargetStands
    <2>2. Entry(a) = "absent"
      BY <2>1 DEF Entry
    <2>3. RootProbe(a) = IF plan.targets[a] = "create root" THEN "missing" ELSE "present"
      BY <2>1 DEF RootProbe
    <2>4. content[plan.variant] = "valid"
      BY <1>1, <1>2 DEF ReadableVariants
    <2> QED
      BY <1>2, <2>2, <2>3, <2>4 DEF StillAsPlanned, a
  <1>3. CASE plan.op = "repair"
    <2>1. a \in selected /\ root[a] = "present" /\ slot[a] = plan.entry[a]
      BY <1>1, <1>3 DEF TargetStands
    <2>2. RepairRoot(a) = "present"
      BY <2>1 DEF RepairRoot, RootProbe, Listable
    <2>3. content[plan.variant] = "valid"
      BY <1>1, <1>3 DEF ReadableVariants
    <2>4. Probed(a)[1] = plan.probed[a][1]
      BY <1>1, <1>3
    <2> QED
      BY <1>1, <1>3, <2>1, <2>2, <2>3, <2>4 DEF StillAsPlanned, a
  <1>4. CASE plan.op = "uninstall"
    <2>1. a \in selected /\ root[a] \in {"present", "unlistable"} /\ slot[a] = plan.entry[a]
      BY <1>1, <1>4 DEF TargetStands
    <2>2. RootProbe(a) = "present"
      BY <2>1 DEF RootProbe
    <2> QED
      BY <1>4, <2>1, <2>2 DEF StillAsPlanned, a
  <1> QED
    BY <1>1, <1>2, <1>3, <1>4 DEF Operations

\* Giving up on one agent leaves the account of the attempts whole.
LEMMA AbandonTypes ==
  ASSUME PlanInv, stage \in {"recheck", "write"}, Abandon(Target),
         UNCHANGED <<request, plan, disturbed>>
  PROVE  PlanTypes' /\ Attempts'
  <1>1. Target \in Working(plan.targets)
    BY TargetIsReady
  <1>2. steps' = [b \in Agents |-> IF b = Target THEN "failed"
                                   ELSE IF b \in Pending \ {Target} THEN "unattempted" ELSE steps[b]]
    BY DEF Abandon
  <1>3. stage' = "index"
    BY DEF Abandon
  <1>4. PlanTypes'
    BY <1>2 DEF PlanInv, PlanTypes, Executable, Working
  <1>5. Attempts'
    BY <1>1, <1>2, <1>3 DEF PlanInv, Attempts, Executable, Working, Pending
  <1> QED
    BY <1>4, <1>5

\* The recheck before a write keeps it.
LEMMA RecheckPlan == ScanInv /\ PlanInv /\ Recheck => PlanInv'
  <1> SUFFICES ASSUME ScanInv, PlanInv, Recheck PROVE PlanInv'
    OBVIOUS
  <1>0. /\ stage = "recheck"
        /\ UNCHANGED <<content, selected, catalog, readable, metadata, swapped, request, plan, disturbed>>
        /\ Quiet' = Quiet
    BY DEF Recheck, Quiet, Executable, Working
  <1>1. CASE Abandon(Target)
    <2>1. PlanTypes' /\ Attempts'
      BY <1>0, <1>1, AbandonTypes
    <2>2. CASE ~Quiet
      BY <1>0, <2>1, <2>2 DEF PlanInv, TargetsStand, ContentStands, RepairStands, Stated
    <2>3. CASE Quiet
      <3>1. StillAsPlanned(Target)
        BY <1>0, <2>3, StillPlanned
      <3>2. stage' = "write"
        BY <3>1 DEF Recheck
      <3> QED
        BY <1>1, <3>2 DEF Abandon
    <2> QED
      BY <2>2, <2>3
  <1>2. CASE stage' = "write" /\ UNCHANGED <<slot, root, receipts, steps>>
    <2>1. PlanTypes' /\ Attempts'
      BY <1>0, <1>2 DEF PlanInv, PlanTypes, Attempts, Executable, Working, Pending
    <2>2. TargetsStand'
      <3> SUFFICES ASSUME Quiet, NEW a \in Working(plan.targets) PROVE TargetStands(a)'
        BY <1>0 DEF TargetsStand, Working
      <3>1. TargetStands(a)
        BY DEF PlanInv, TargetsStand
      <3> QED
        BY <1>0, <1>2, <3>1 DEF TargetStands, UsableBy
    <2>3. ContentStands'
      BY <1>0 DEF PlanInv, ContentStands, ReadableVariants, Offered
    <2>4. RepairStands'
      <3>1. \A b \in Agents : Probed(b)' = Probed(b)
        BY <1>0, <1>2 DEF Probed, IsLink, Leads, ProbedContent, Entry, Canonical
      <3> QED
        BY <1>0, <1>2, <3>1 DEF PlanInv, RepairStands, Working
    <2>5. Stated'
      <3> SUFFICES ASSUME Quiet PROVE /\ StandingFits(plan)' /\ OutlookFits(plan)'
                                      /\ "opencode" \in selected' => SaidFits(plan)'
        BY <1>0 DEF Stated
      <3>1. PICK p : p = plan
        OBVIOUS
      <3>2. plan' = p
        BY <1>0, <3>1
      <3>3. StandingFits(p) /\ OutlookFits(p) /\ ("opencode" \in selected => SaidFits(p))
        BY <3>1 DEF PlanInv, Stated
      <3> QED
        BY <1>0, <1>2, <3>2, <3>3, StatedKept
    <2> QED
      BY <2>1, <2>2, <2>3, <2>4, <2>5 DEF PlanInv
  <1> QED
    BY <1>1, <1>2 DEF Recheck

\* The recheck reads only.
LEMMA RecheckScan == ScanInv /\ PlanInv /\ Recheck => ScanInv'
  <1> SUFFICES ASSUME ScanInv, PlanInv, Recheck PROVE ScanInv'
    OBVIOUS
  <1>1. /\ stage = "recheck" /\ stage' \in {"write", "index"}
        /\ UNCHANGED <<slot, root, content, selected, catalog, metadata, others>>
        /\ UNCHANGED <<budget, todo, index, complete, accountable, status, seen, swapped, during>>
    BY DEF Recheck, Abandon
  <1>2. WorldTypes'
    BY <1>1 DEF ScanInv, WorldTypes
  <1>3. others' \in Nat
    BY <1>1 DEF ScanInv, PassTypes
  <1> QED
    BY <1>1, <1>2, <1>3, BeforeScan DEF BeforePass

\* A write that finds what the plan had found.
WritesAsPlanned ==
  LET a == Target
  IN  /\ slot' = [slot EXCEPT ![a] = IF plan.op = "uninstall" THEN "absent" ELSE plan.variant]
      /\ root' = IF plan.targets[a] = "create root" THEN [root EXCEPT ![a] = "present"] ELSE root
      /\ steps' = [steps EXCEPT ![a] = "done"]
      /\ stage' = IF Pending = {a} THEN "index" ELSE "recheck"

\* A write is done as planned or given up, and given up only if somebody
\* interfered.
LEMMA WriteEither ==
  ASSUME ScanInv, PlanInv, Write
  PROVE  /\ stage = "write" /\ (WritesAsPlanned \/ Abandon(Target))
         /\ UNCHANGED <<content, selected, catalog, readable, metadata, others, swapped, request,
                        plan, disturbed>>
         /\ UNCHANGED <<budget, todo, index, complete, accountable, status, seen, during>>
         /\ Quiet => WritesAsPlanned
  <1>1. stage = "write" /\ (WritesAsPlanned \/ Abandon(Target))
    BY DEF Write, WritesAsPlanned
  <1>2. /\ UNCHANGED <<content, selected, catalog, readable, metadata, others, swapped, request,
                       plan, disturbed>>
        /\ UNCHANGED <<budget, todo, index, complete, accountable, status, seen, during>>
    BY DEF Write
  <1>3. ASSUME Quiet PROVE WritesAsPlanned
    <2> DEFINE a == Target
    <2>1. TargetStands(a) /\ steps[a] = "none" /\ plan.op \in Operations
      BY <1>1, <1>3, TargetIsReady
    <2>2. /\ plan.op = "install" => slot[a] = "absent"
          /\ plan.op = "repair" => slot[a] = plan.entry[a]
          /\ plan.op = "uninstall" => slot[a] # "absent"
      BY <2>1 DEF TargetStands
    <2>3. ~(CASE plan.op = "install" -> slot[a] # "absent"
              [] plan.op = "repair" -> slot[a] # plan.entry[a]
              [] OTHER -> slot[a] = "absent")
      BY <2>1, <2>2 DEF Operations
    <2> QED
      BY <2>3 DEF Write, WritesAsPlanned
  <1> QED
    BY <1>1, <1>2, <1>3

\* A write keeps it.
LEMMA WritePlan == ScanInv /\ PlanInv /\ Write => PlanInv'
  <1> SUFFICES ASSUME ScanInv, PlanInv, Write PROVE PlanInv'
    OBVIOUS
  <1>0. /\ stage = "write" /\ (WritesAsPlanned \/ Abandon(Target))
        /\ UNCHANGED <<content, selected, catalog, readable, metadata, others, swapped, request,
                       plan, disturbed>>
        /\ Quiet => WritesAsPlanned
    BY WriteEither
  <1>q. Quiet' = Quiet
    BY <1>0 DEF Quiet, Executable, Working
  <1>1. PICK a \in Agents : a = Target
    BY <1>0, TargetIsReady
  <1>2. /\ a \in Working(plan.targets) /\ a \in Pending /\ steps[a] = "none"
        /\ Quiet => /\ TargetStands(a)
                    /\ plan.op # "uninstall" => plan.variant \in ReadableVariants
                    /\ plan.op \in Operations
                    /\ plan.op = "repair" => Working(plan.targets) = {a}
    BY <1>0, <1>1, TargetIsReady
  <1>3. CASE Abandon(Target) /\ ~Quiet
    <2>1. PlanTypes' /\ Attempts'
      BY <1>0, <1>3, AbandonTypes
    <2> QED
      BY <1>3, <1>q, <2>1 DEF PlanInv, TargetsStand, ContentStands, RepairStands, Stated
  <1>4. ASSUME WritesAsPlanned PROVE PlanInv'
    <2>0. steps \in [Agents -> {"none", "done", "failed", "unattempted"}]
      BY DEF PlanInv, PlanTypes
    <2>1. /\ steps' = [steps EXCEPT ![a] = "done"]
          /\ stage' = IF Pending = {a} THEN "index" ELSE "recheck"
          /\ slot' = [slot EXCEPT ![a] = IF plan.op = "uninstall" THEN "absent" ELSE plan.variant]
          /\ root' = IF plan.targets[a] = "create root" THEN [root EXCEPT ![a] = "present"] ELSE root
      BY <1>1, <1>4 DEF WritesAsPlanned
    <2>w. /\ slot'[a] = IF plan.op = "uninstall" THEN "absent" ELSE plan.variant
          /\ root'[a] = IF plan.targets[a] = "create root" THEN "present" ELSE root[a]
          /\ steps'[a] = "done"
          /\ \A b \in Agents \ {a} : slot'[b] = slot[b] /\ root'[b] = root[b] /\ steps'[b] = steps[b]
      BY <2>0, <2>1 DEF ScanInv, WorldTypes
    <2>2. PlanTypes'
      BY <1>0, <2>1 DEF PlanInv, PlanTypes, Executable, Working
    <2>3. Pending' = Pending \ {a}
      BY <1>0, <2>w DEF Pending, Working
    <2>4. Attempts'
      <3>1. stage' = "recheck" => Executable(plan') /\ Pending' # {}
        BY <1>0, <1>2, <2>1, <2>3 DEF PlanInv, Attempts, Executable, Working
      <3>2. stage' \notin {"plan", "write"}
        BY <2>1
      <3>3. \A b \in Agents \ Working(plan'.targets) : steps'[b] = "none"
        BY <1>0, <1>2, <2>w DEF PlanInv, Attempts, Working
      <3>4. request' = NoRequest => ~Executable(plan')
        BY <1>0 DEF PlanInv, Attempts, Executable, Working
      <3> QED
        BY <3>1, <3>2, <3>3, <3>4 DEF Attempts, Executable, Working
    <2>5. TargetsStand'
      <3> SUFFICES ASSUME Quiet, NEW b \in Working(plan.targets) PROVE TargetStands(b)'
        BY <1>0, <1>q DEF TargetsStand, Working
      <3>1. TargetStands(b) /\ b \in Agents
        BY DEF PlanInv, TargetsStand, Working
      <3>2. CASE b = a
        BY <1>0, <1>2, <2>w, <3>1, <3>2 DEF TargetStands, UsableBy
      <3>3. CASE b # a
        <4>1. steps'[b] = "none" => stage' = "recheck"
          <5>1. steps[b] = "none" => b \in Pending
            BY <3>1 DEF Pending
          <5> QED
            BY <2>1, <2>w, <3>1, <3>3, <5>1
        <4> QED
          BY <1>0, <2>w, <3>1, <3>3, <4>1 DEF TargetStands, UsableBy
      <3> QED
        BY <3>2, <3>3
    <2>6. ContentStands'
      BY <1>0, <1>q DEF PlanInv, ContentStands, ReadableVariants, Offered
    <2>7. RepairStands'
      <3>1. ~\A b \in Agents : steps'[b] = "none"
        BY <2>w
      <3> QED
        BY <1>0, <1>q, <3>1 DEF PlanInv, RepairStands, Working
    <2>8. Stated'
      <3> SUFFICES ASSUME Quiet PROVE /\ StandingFits(plan)' /\ OutlookFits(plan)'
                                      /\ "opencode" \in selected' => SaidFits(plan)'
        BY <1>q DEF Stated
      <3>1. PICK p : p = plan
        OBVIOUS
      <3>2. plan' = p
        BY <1>0, <3>1
      <3>3. StandingFits(p) /\ OutlookFits(p) /\ ("opencode" \in selected => SaidFits(p))
        BY <3>1 DEF PlanInv, Stated
      <3>4. \A b \in Agents \ Working(p.targets) : slot'[b] = slot[b] /\ root'[b] = root[b]
        BY <1>2, <2>w, <3>1
      <3> QED
        BY <1>0, <3>2, <3>3, <3>4, StatedKept
    <2> QED
      BY <2>2, <2>4, <2>5, <2>6, <2>7, <2>8 DEF PlanInv
  <1> QED
    BY <1>0, <1>3, <1>4

\* A write comes before the pass that looks at it.
LEMMA WriteScan == ScanInv /\ PlanInv /\ Write => ScanInv'
  <1> SUFFICES ASSUME ScanInv, PlanInv, Write PROVE ScanInv'
    OBVIOUS
  <1>0. /\ stage = "write" /\ (WritesAsPlanned \/ Abandon(Target))
        /\ UNCHANGED <<content, selected, catalog, metadata, others>>
        /\ UNCHANGED <<budget, todo, index, complete, accountable, status, seen, swapped, during>>
    BY WriteEither
  <1>1. stage' \in BeforePass
    BY <1>0 DEF WritesAsPlanned, Abandon, BeforePass
  <1>2. WorldTypes'
    <2>1. CASE Abandon(Target)
      BY <1>0, <2>1 DEF Abandon, ScanInv, WorldTypes
    <2>2. CASE WritesAsPlanned
      <3>1. plan.op # "uninstall" => plan.variant \in Variants
        BY <1>0 DEF PlanInv, PlanTypes, Attempts
      <3>2. slot' \in [Agents -> Plain \cup Places]
        BY <2>2, <3>1, AgentNames DEF WritesAsPlanned, ScanInv, WorldTypes, Plain
      <3>3. root' \in [Agents -> RootKinds]
        BY <2>2 DEF WritesAsPlanned, ScanInv, WorldTypes, RootKinds
      <3> QED
        BY <1>0, <3>2, <3>3 DEF ScanInv, WorldTypes
    <2> QED
      BY <1>0, <2>1, <2>2
  <1>3. others' \in Nat
    BY <1>0 DEF ScanInv, PassTypes
  <1> QED
    BY <1>0, <1>1, <1>2, <1>3, BeforeScan DEF BeforePass

-----------------------------------------------------------------------------
(* Plans: what a decision states *)

\* What a root offers as it is, the way the plan's operation reads it.
Current(p, a) == IF ProbeOf(p, a) \in Unsighted THEN "unread" ELSE ContentOf(p, a)
Currently(p) == [a \in Agents |-> Current(p, a)]
Now(p) == ResolveOpenCode(Currently(p),
                          [a \in Agents |-> IF Current(p, a) = p.variant THEN p.variant ELSE None])

\* What is known of a root without a pass is what OpenCode loads from it.
LEMMA CurrentIsLoad ==
  ASSUME ScanInv, NEW p, NEW a \in Agents, Current(p, a) \notin {"unread", "unknown"}
  PROVE  /\ a \in selected
         /\ Loads(a, {}) = IF Current(p, a) = "nowhere" THEN {} ELSE {Current(p, a)}
  <1>1. Current(p, a) = ProbedContent(a) /\ ProbedContent(a) # "unknown" /\ a \in selected
    BY DEF Current, ContentOf, RepairContent, ProbedContent
  <1>2. slot[a] \in Plain \cup Places /\ root[a] \in RootKinds
    BY DEF ScanInv, WorldTypes
  <1>3. Entry(a) \in {"absent", "file"} \/ (Entry(a) \in Places /\ Entry(a) = slot[a])
    <2>1. Entry(a) # "unreadable"
      BY <1>1 DEF ProbedContent
    <2>2. Entry(a) \in {"absent", "unreadable"} \/ Entry(a) = slot[a]
      BY DEF Entry
    <2> QED
      BY <1>2, <2>1, <2>2 DEF Plain
  <1>4. CASE Entry(a) \in {"absent", "file"}
    BY <1>1, <1>4 DEF ProbedContent, Loads
  <1>5. CASE Entry(a) \in Places /\ Entry(a) = slot[a]
    <2>1. Entry(a) \notin {"absent", "file", "unreadable"}
      BY <1>5, AgentNames DEF Plain
    <2>2. content[slot[a]] \in ContentKinds
      BY <1>5 DEF ScanInv, WorldTypes
    <2>3. Canonical(slot[a]) # "nowhere"
      BY <1>5, CanonicalTyped, AgentNames DEF Outside
    <2>4. CASE content[slot[a]] \in Loadable
      <3>1. ProbedContent(a) = Canonical(slot[a])
        BY <1>1, <1>5, <2>1, <2>4 DEF ProbedContent, Loadable
      <3>2. Loads(a, {}) = {Canonical(slot[a])}
        BY <1>5, <2>1, <2>4 DEF Loads, Loadable
      <3> QED
        BY <1>1, <2>3, <3>1, <3>2
    <2>5. CASE content[slot[a]] \in {"gone", "sealed", "invalid"}
      <3>1. ProbedContent(a) = "nowhere"
        BY <1>1, <1>5, <2>1, <2>5 DEF ProbedContent
      <3>2. Loads(a, {}) = {}
        BY <1>5, <2>1, <2>5 DEF Loads
      <3> QED
        BY <1>1, <3>1, <3>2
    <2>6. content[slot[a]] \notin {"opaque", "file"}
      BY <1>1, <1>5, <2>1 DEF ProbedContent
    <2> QED
      BY <2>2, <2>4, <2>5, <2>6 DEF ContentKinds, Loadable
  <1> QED
    BY <1>3, <1>4, <1>5, <1>1

\* If every root can be read, opencode loads what the roots offer.
LEMMA NowIsLoaded ==
  ASSUME ScanInv, NEW p, Known(Currently(p))
  PROVE  Loaded({}) = DirectoriesOf(Currently(p))
  <1>1. \A a \in Agents : Loads(a, {}) = IF Current(p, a) = "nowhere" THEN {} ELSE {Current(p, a)}
    BY CurrentIsLoad DEF Known, Currently
  <1> QED
    BY <1>1 DEF Loaded, DirectoriesOf, Currently

\* The answer where only content that is the variant's is placed.
LEMMA PlacedAnswer ==
  ASSUME NEW s, NEW v, Known(s), NEW kinds, kinds = [a \in Agents |-> IF s[a] = v THEN v ELSE None]
  PROVE  LET answer == ResolveOpenCode(s, kinds)
             dirs == DirectoriesOf(s)
         IN  /\ answer.kind = "nothing" <=> dirs = {}
             /\ answer.kind = "conflict" <=> Cardinality(dirs) > 1
             /\ answer.kind \in {"foreign", "incompatible"}
                  <=> v \in Variants /\ ~UsableBy(v, "opencode") /\ dirs = {v}
             /\ answer.kind \in {"nothing", "conflict", "foreign", "incompatible", "selected"}
             /\ dirs # {} => First(answer.winner, s)
  <1> DEFINE answer == ResolveOpenCode(s, kinds)
             dirs == DirectoriesOf(s)
             foreign == \A a \in Agents : s[a] # "nowhere" => Foreign(kinds[a])
             excluded == \A a \in Agents : s[a] # "nowhere" => Excluded(kinds[a])
  <1>1. /\ answer.kind = IF dirs = {} THEN "nothing"
                         ELSE IF Cardinality(dirs) > 1 THEN "conflict"
                         ELSE IF foreign THEN "foreign"
                         ELSE IF excluded THEN "incompatible"
                         ELSE "selected"
        /\ dirs # {} => First(answer.winner, s)
    BY AnswerMeans
  <1>2. Cardinality({}) = 0 /\ ~(0 > 1)
    BY FS_EmptySet
  <1>3. IsFiniteSet(dirs) /\ (Cardinality(dirs) > 1 <=> \E x, y \in dirs : x # y)
    BY DirectoriesFinite, Few
  <1>4. None \notin Variants /\ ~Foreign(None) /\ ~Excluded(None)
    BY VariantsAssumption DEF Foreign, Excluded
  <1>5. ASSUME dirs # {}, ~(Cardinality(dirs) > 1), foreign \/ excluded
        PROVE  v \in Variants /\ ~UsableBy(v, "opencode") /\ dirs = {v}
    <2>1. PICK a \in Agents : s[a] # "nowhere"
      BY <1>5 DEF DirectoriesOf
    <2>2. Foreign(kinds[a]) \/ Excluded(kinds[a])
      BY <1>5, <2>1
    <2>3. s[a] = v /\ kinds[a] = v
      BY <1>4, <2>2
    <2>4. v \in Variants /\ ~UsableBy(v, "opencode")
      BY <2>2, <2>3 DEF Foreign, Excluded, UsableBy, ForeignTo
    <2>5. v \in dirs
      BY <2>1, <2>3 DEF DirectoriesOf
    <2> QED
      BY <1>3, <1>5, <2>4, <2>5
  <1>6. ASSUME v \in Variants, ~UsableBy(v, "opencode"), dirs = {v}
        PROVE  /\ dirs # {} /\ ~(Cardinality(dirs) > 1)
               /\ foreign \/ excluded
    <2>1. \A a \in Agents : s[a] # "nowhere" => s[a] = v
      BY <1>6 DEF DirectoriesOf
    <2>2. Foreign(v) \/ Excluded(v)
      BY <1>6 DEF Foreign, Excluded, UsableBy, ForeignTo
    <2> QED
      BY <1>3, <1>6, <2>1, <2>2
  <1> HIDE DEF answer, dirs, foreign, excluded
  <1>7. answer.kind = "nothing" <=> dirs = {}
    BY <1>1
  <1>8. answer.kind = "conflict" <=> Cardinality(dirs) > 1
    BY <1>1, <1>2
  <1>9. answer.kind \in {"foreign", "incompatible"}
          <=> v \in Variants /\ ~UsableBy(v, "opencode") /\ dirs = {v}
    BY <1>1, <1>5, <1>6
  <1>10. answer.kind \in {"nothing", "conflict", "foreign", "incompatible", "selected"}
    BY <1>1
  <1> QED
    BY <1>1, <1>7, <1>8, <1>9, <1>10 DEF answer, dirs

\* A prediction is an answer over what it takes each root to offer.
LEMMA PredictedIs ==
  ASSUME NEW probe, NEW offered, NEW v, NEW to, NEW off, NEW s,
         s = [a \in Agents |-> IF probe[a] \in Unsighted THEN "unread"
                               ELSE IF a \in to THEN v
                               ELSE IF a \in off THEN "nowhere" ELSE offered[a]]
  PROVE  Predicted(probe, offered, v, to, off)
           = ResolveOpenCode(s, [a \in Agents |-> IF s[a] = v THEN v ELSE None])
  BY DEF Predicted

\* The forecast asks resolve_opencode of the roots as they will be.
LEMMA ForesightIs ==
  ASSUME NEW p
  PROVE  Foresight(p) =
           ResolveOpenCode(Prospect(p),
                           [a \in Agents |-> IF Prospect(p)[a] = p.variant THEN p.variant ELSE None])
  <1>1. ProspectKinds(p) = [a \in Agents |-> IF Prospect(p)[a] = p.variant THEN p.variant ELSE None]
    BY DEF ProspectKinds, Prospect
  <1> QED
    BY <1>1 DEF Foresight

\* The outlook asks it of the roots as they are.
LEMMA NowIs ==
  ASSUME NEW p
  PROVE  Now(p) =
           ResolveOpenCode(Currently(p),
                           [a \in Agents |-> IF Currently(p)[a] = p.variant THEN p.variant ELSE None])
  <1>1. [a \in Agents |-> IF Current(p, a) = p.variant THEN p.variant ELSE None]
          = [a \in Agents |-> IF Currently(p)[a] = p.variant THEN p.variant ELSE None]
    BY DEF Currently
  <1> QED
    BY <1>1 DEF Now

\* What resolve_opencode answers of the roots as they are is so.
LEMMA NowMeans ==
  ASSUME ScanInv, NEW p, Now(p).kind # "incomplete"
  PROVE  /\ Known(Currently(p)) /\ Loaded({}) = DirectoriesOf(Currently(p))
         /\ Now(p).kind = "conflict" <=> Cardinality(Loaded({})) > 1
         /\ Now(p).kind \in {"foreign", "incompatible"} => Loaded({}) = {p.variant}
         /\ Now(p).kind \in {"nothing", "conflict", "foreign", "incompatible", "selected"}
         /\ Now(p).kind = "nothing" <=> Loaded({}) = {}
         /\ Loaded({}) # {} => First(Now(p).winner, Currently(p))
  <1>1. Known(Currently(p))
    BY NowIs, IncompleteMeans
  <1>2. Loaded({}) = DirectoriesOf(Currently(p))
    BY <1>1, NowIsLoaded
  <1>3. LET dirs == DirectoriesOf(Currently(p))
        IN  /\ Now(p).kind = "nothing" <=> dirs = {}
            /\ Now(p).kind = "conflict" <=> Cardinality(dirs) > 1
            /\ Now(p).kind \in {"foreign", "incompatible"} => dirs = {p.variant}
            /\ Now(p).kind \in {"nothing", "conflict", "foreign", "incompatible", "selected"}
            /\ dirs # {} => First(Now(p).winner, Currently(p))
    BY <1>1, NowIs, PlacedAnswer
  <1> QED
    BY <1>1, <1>2, <1>3

\* What it answers of the roots as they will be, in terms of those roots.
LEMMA ForesightMeans ==
  ASSUME NEW p, Foresight(p).kind # "incomplete"
  PROVE  /\ Known(Prospect(p))
         /\ Foresight(p).kind = "conflict" <=> Cardinality(DirectoriesOf(Prospect(p))) > 1
         /\ Foresight(p).kind \in {"foreign", "incompatible"}
              <=> /\ p.variant \in Variants /\ ~UsableBy(p.variant, "opencode")
                  /\ DirectoriesOf(Prospect(p)) = {p.variant}
         /\ Foresight(p).kind \in {"nothing", "conflict", "foreign", "incompatible", "selected"}
         /\ Foresight(p).kind = "nothing" <=> DirectoriesOf(Prospect(p)) = {}
         /\ DirectoriesOf(Prospect(p)) # {} => First(Foresight(p).winner, Prospect(p))
  <1>1. Known(Prospect(p))
    BY ForesightIs, IncompleteMeans
  <1> QED
    BY <1>1, ForesightIs, PlacedAnswer

\* What a plan has settled when it is made.
Ready(p, a) ==
  /\ a \in selected
  /\ p.op = "install" =>
       /\ UsableBy(p.variant, a)
       /\ slot[a] = "absent"
       /\ IF p.targets[a] = "create root" THEN root[a] = "missing"
          ELSE root[a] \in {"present", "unlistable"}
  /\ p.op = "repair" =>
       root[a] = "present" /\ p.targets[a] # "create root" /\ slot[a] = p.entry[a]
  /\ p.op = "uninstall" =>
       /\ root[a] \in {"present", "unlistable"}
       /\ p.targets[a] # "create root"
       /\ slot[a] = p.entry[a] /\ slot[a] # "absent"

Decided(p) ==
  /\ p.targets \in [Agents -> Dispositions]
  /\ Executable(p) =>
       /\ p.op \in Operations
       /\ p.op # "uninstall" => p.variant \in ReadableVariants
       /\ \A a \in Working(p.targets) : Ready(p, a)
       /\ p.op = "repair" => /\ \E a \in Agents : Working(p.targets) = {a}
                             /\ slot = p.entry /\ p.probed = [b \in Agents |-> Probed(b)]
       /\ StandingFits(p) /\ OutlookFits(p)
       /\ "opencode" \in selected => SaidFits(p)

\* A decision that states only what is so keeps the invariant of plans.
LEMMA DecidePlan ==
  ASSUME ScanInv, PlanInv, Decide,
         NEW p, plan' = p, Decided(p), stage' = IF Executable(p) THEN "recheck" ELSE "refused"
  PROVE  PlanInv'
  <1>0. /\ stage = "plan"
        /\ UNCHANGED <<slot, content, root, selected, catalog, readable, metadata>>
        /\ UNCHANGED <<request, steps, disturbed, swapped>>
    BY DEF Decide, world
  <1>1. /\ \A a \in Agents : steps[a] = "none"
        /\ ~Executable(plan) /\ request # NoRequest
    BY <1>0 DEF PlanInv, Attempts
  <1>2. Executable(plan)' <=> Executable(p)
    BY DEF Executable, Working
  <1>3. Executable(p) => Decided(p) /\ stage' = "recheck"
    OBVIOUS
  <1>4. Working(plan.targets)' = Working(p.targets)
    BY DEF Working
  <1>5. PlanTypes'
    <2>1. p.targets \in [Agents -> Dispositions]
      BY DEF Decided
    <2>2. Executable(p) => p.op \in Operations /\ (p.op # "uninstall" => p.variant \in Variants)
      BY <1>3 DEF Decided, ReadableVariants, Offered
    <2> QED
      BY <1>0, <1>2, <2>1, <2>2 DEF PlanInv, PlanTypes
  <1>6. Attempts'
    <2>1. stage' \in {"recheck", "write"} => Executable(p)
      OBVIOUS
    <2>2. Executable(p) => Pending' # {}
      BY <1>0, <1>1, <1>4 DEF Pending, Executable, Working
    <2> QED
      BY <1>0, <1>1, <1>2, <2>1, <2>2 DEF Attempts
  <1>7. CASE ~Executable(p)
    BY <1>2, <1>5, <1>6, <1>7
       DEF PlanInv, TargetsStand, ContentStands, RepairStands, Stated, Quiet
  <1>8. CASE Executable(p)
    <2>0. Decided(p) /\ stage' = "recheck"
      BY <1>3, <1>8
    <2>1. TargetsStand'
      <3> SUFFICES ASSUME NEW a \in Working(p.targets) PROVE TargetStands(a)'
        BY <1>4 DEF TargetsStand
      <3>1. Ready(p, a) /\ a \in Agents
        BY <1>8, <2>0 DEF Decided, Working
      <3> QED
        BY <1>0, <1>1, <2>0, <3>1 DEF TargetStands, Ready, UsableBy
    <2>2. ContentStands'
      BY <1>0, <1>8, <2>0 DEF ContentStands, Decided, ReadableVariants, Offered
    <2>3. RepairStands'
      <3>1. \A b \in Agents : Probed(b)' = Probed(b)
        BY <1>0 DEF Probed, IsLink, Leads, ProbedContent, Entry, Canonical
      <3> QED
        BY <1>0, <1>4, <1>8, <2>0, <3>1 DEF RepairStands, Decided
    <2>4. Stated'
      <3>1. StandingFits(p) /\ OutlookFits(p) /\ ("opencode" \in selected => SaidFits(p))
        BY <1>8, <2>0 DEF Decided
      <3> QED
        BY <1>0, <3>1, StatedKept DEF Stated
    <2> QED
      BY <1>5, <1>6, <2>1, <2>2, <2>3, <2>4 DEF PlanInv
  <1> QED
    BY <1>7, <1>8

\* What an agent is offered is usable by it.
LEMMA NarrowOf ==
  ASSUME NEW S, NEW a PROVE Narrow(S, a) \subseteq S /\ \A w \in Narrow(S, a) : UsableBy(w, a)
  BY DEF Narrow

\* There are finitely many variants to choose from.
LEMMA ReadableFinite == IsFiniteSet(ReadableVariants) /\ ReadableVariants \subseteq Variants
  <1>1. ReadableVariants \subseteq Variants
    BY DEF ReadableVariants, Offered
  <1> QED
    BY <1>1, VariantsAssumption, FS_Subset

\* A plan foresees its own variant where it writes, nothing where it unlinks,
\* and elsewhere what is there.
LEMMA ForeseenIs ==
  ASSUME NEW p, NEW a
  PROVE  Foreseen(p, a) = IF a \in Working(p.targets)
                          THEN IF p.op = "uninstall" THEN "nowhere" ELSE p.variant
                          ELSE Current(p, a)
  BY DEF Foreseen, Current

\* A prediction over what a plan foresees, and one over what stands.
LEMMA PredictionOf ==
  ASSUME NEW p, NEW probe, NEW offered, NEW to, NEW off,
         \A a \in Agents : Foreseen(p, a) =
           IF probe[a] \in Unsighted THEN "unread"
           ELSE IF a \in to THEN p.variant ELSE IF a \in off THEN "nowhere" ELSE offered[a]
  PROVE  Predicted(probe, offered, p.variant, to, off) = Foresight(p)
  <1>1. Prospect(p) = [a \in Agents |-> IF probe[a] \in Unsighted THEN "unread"
                                        ELSE IF a \in to THEN p.variant
                                        ELSE IF a \in off THEN "nowhere" ELSE offered[a]]
    BY DEF Prospect
  <1>2. PICK s : s = Prospect(p)
    OBVIOUS
  <1>3. Predicted(probe, offered, p.variant, to, off)
          = ResolveOpenCode(s, [a \in Agents |-> IF s[a] = p.variant THEN p.variant ELSE None])
    BY <1>1, <1>2, PredictedIs
  <1>4. Foresight(p) = ResolveOpenCode(s, [a \in Agents |-> IF s[a] = p.variant THEN p.variant ELSE None])
    BY <1>2, ForesightIs
  <1> QED
    BY <1>3, <1>4

\* The prediction of a plan is resolve_opencode's answer for the roots it
\* reads.
LEMMA PredictionNow ==
  ASSUME NEW p, NEW probe, NEW offered, NEW to, NEW off,
         \A a \in Agents : Current(p, a) =
           IF probe[a] \in Unsighted THEN "unread"
           ELSE IF a \in to THEN p.variant ELSE IF a \in off THEN "nowhere" ELSE offered[a]
  PROVE  Predicted(probe, offered, p.variant, to, off) = Now(p)
  <1>1. Currently(p) = [a \in Agents |-> IF probe[a] \in Unsighted THEN "unread"
                                         ELSE IF a \in to THEN p.variant
                                         ELSE IF a \in off THEN "nowhere" ELSE offered[a]]
    BY DEF Currently
  <1>2. PICK s : s = Currently(p)
    OBVIOUS
  <1>3. Predicted(probe, offered, p.variant, to, off)
          = ResolveOpenCode(s, [a \in Agents |-> IF s[a] = p.variant THEN p.variant ELSE None])
    BY <1>1, <1>2, PredictedIs
  <1>4. Now(p) = ResolveOpenCode(s, [a \in Agents |-> IF s[a] = p.variant THEN p.variant ELSE None])
    BY <1>2, NowIs
  <1> QED
    BY <1>3, <1>4

\* A link to the variant is seen as an offer of the variant.
LEMMA InstalledIsSeen ==
  ASSUME ScanInv, NEW v \in ReadableVariants, NEW a \in Agents, a \in selected,
         IsLink(a), Canonical(slot[a]) = v
  PROVE  ProbedContent(a) = v
  <1>1. Entry(a) \in Places \ {a} /\ Entry(a) = slot[a]
    <2>1. Entry(a) \in Places \ {a}
      BY DEF IsLink
    <2> QED
      BY <2>1, AgentNames DEF Entry, Plain
  <1>2. v \in Variants /\ content[v] = "valid"
    BY DEF ReadableVariants, Offered
  <1>3. slot[a] = v
    BY <1>2, VariantsAssumption DEF Canonical
  <1>4. v \notin Plain
    BY <1>2, VariantsAssumption
  <1> QED
    BY <1>1, <1>2, <1>3, <1>4 DEF ProbedContent, Canonical, Plain

\* A root that is not there has no entry.
RootsStand == \A a \in Agents : root[a] \in {"missing", "orphaned"} => slot[a] = "absent"

\* What planning an installation states is so.
LEMMA InstallDecided ==
  ASSUME ScanInv, RootsStand, NEW v \in ReadableVariants, NEW requested, NEW p, p = InstallPlan(v, requested)
  PROVE  Decided(p)
  <1> DEFINE settled == [a \in Agents |-> DispositionFor(v, a, requested)]
             ours == {a \in Agents : settled[a] = "installed"}
             after == Predicted(Probe, ProbedContents, v, ours \cup Working(settled), {})
             now == Predicted(Probe, ProbedContents, v, ours, {})
             native == settled["opencode"] \in Work
             asked == "opencode" \in selected /\ settled["opencode"] # "blocked"
             targets == IF asked /\ native /\ after.kind = "conflict"
                        THEN [settled EXCEPT !["opencode"] = "blocked"]
                        ELSE settled
             outlook == CASE "opencode" \notin selected -> NoOutlook
                          [] settled["opencode"] = "blocked" -> [kind |-> "unknown", winner |-> None]
                          [] OTHER -> Outlook(after)
             said == asked /\ IF native THEN after.kind = "incomplete"
                              ELSE after.kind # now.kind /\ Concerns(after)
  <1>1. p = Plan("install", v, targets, outlook, said, NoStanding)
    BY DEF InstallPlan
  <1>2. /\ p.op = "install" /\ p.variant = v /\ p.targets = targets /\ p.outlook = outlook
        /\ p.said = said /\ p.standing = NoStanding /\ p.loaded = Loaded({})
    BY <1>1 DEF Plan
  <1>3. \A a \in Agents : settled[a] \in {"excluded", "blocked", "create", "create root", "installed"}
    BY DEF DispositionFor, SlotDisposition
  <1>4. targets \in [Agents -> Dispositions]
    BY <1>3 DEF Dispositions, Work
  <1> SUFFICES ASSUME Executable(p) PROVE Decided(p)
    BY <1>2, <1>4 DEF Decided
  <1>5. targets = settled /\ ~(asked /\ native /\ after.kind = "conflict")
    <2>1. p.targets["opencode"] # "blocked"
      BY AgentNames DEF Executable
    <2> QED
      BY <1>2, <2>1, AgentNames
  <1>6. settled["opencode"] # "blocked"
    BY <1>2, <1>5, AgentNames DEF Executable
  <1>7. \A a \in Agents : a \in Working(p.targets) <=> settled[a] \in {"create", "create root"}
    BY <1>2, <1>3, <1>5 DEF Working, Work
  <1>n. native <=> "opencode" \in Working(p.targets)
    BY <1>2, <1>5, AgentNames DEF Working
  <1>8. ASSUME NEW a \in Agents, settled[a] \in {"create", "create root", "installed"}
        PROVE  /\ a \in selected /\ UsableBy(v, a) /\ RootProbe(a) \notin Unsighted
               /\ settled[a] = "installed" => IsLink(a) /\ Canonical(slot[a]) = v
               /\ settled[a] = "create" => Entry(a) = "absent" /\ RootProbe(a) = "present"
               /\ settled[a] = "create root" => Entry(a) = "absent" /\ RootProbe(a) = "missing"
    BY <1>8 DEF DispositionFor, SlotDisposition
  <1>9. ASSUME NEW a \in Working(p.targets) PROVE Ready(p, a)
    <2>1. a \in Agents /\ settled[a] \in {"create", "create root"}
      BY <1>7 DEF Working
    <2>2. root[a] \in RootKinds /\ a \in selected /\ UsableBy(v, a) /\ Entry(a) = "absent"
      BY <1>8, <2>1 DEF ScanInv, WorldTypes
    <2>3. CASE settled[a] = "create"
      <3>1. RootProbe(a) = "present"
        BY <1>8, <2>1, <2>3
      <3>2. root[a] \in {"present", "unlistable"} /\ slot[a] = "absent"
        BY <2>2, <3>1 DEF RootProbe, Entry, RootKinds
      <3> QED
        BY <1>2, <1>5, <2>1, <2>2, <2>3, <3>2 DEF Ready
    <2>4. CASE settled[a] = "create root"
      <3>1. RootProbe(a) = "missing"
        BY <1>8, <2>1, <2>4
      <3>2. root[a] = "missing"
        BY <2>2, <3>1 DEF RootProbe
      <3>3. slot[a] = "absent"
        BY <3>2, <2>1 DEF RootsStand
      <3> QED
        BY <1>2, <1>5, <2>1, <2>2, <2>4, <3>2, <3>3 DEF Ready
    <2> QED
      BY <2>1, <2>3, <2>4
  <1>10. \A a \in Agents : Current(p, a) = IF RootProbe(a) \in Unsighted THEN "unread"
                                           ELSE ProbedContent(a)
    BY <1>2 DEF Current, ProbeOf, ContentOf
  <1>11. ASSUME NEW a \in Agents, settled[a] = "installed" PROVE Current(p, a) = v
    BY <1>8, <1>10, <1>11, InstalledIsSeen
  <1> HIDE DEF settled
  <1>12. after = Foresight(p)
    <2>t. PICK to : to = ours \cup Working(settled)
      OBVIOUS
    <2>p. after = Predicted(Probe, ProbedContents, p.variant, to, {})
      BY <1>2, <2>t
    <2> SUFFICES ASSUME NEW a \in Agents
                 PROVE  Foreseen(p, a) = IF Probe[a] \in Unsighted THEN "unread"
                                         ELSE IF a \in to THEN p.variant
                                         ELSE IF a \in {} THEN "nowhere" ELSE ProbedContents[a]
      <3> HIDE DEF after
      <3> QED
        BY <2>p, PredictionOf
    <2>0. a \in to <=> settled[a] = "installed" \/ a \in Working(settled)
      BY <2>t
    <2>1. Probe[a] = RootProbe(a) /\ ProbedContents[a] = ProbedContent(a)
      BY DEF Probe, ProbedContents
    <2>2. a \in Working(settled) <=> a \in Working(p.targets)
      BY <1>2, <1>5
    <2>3. CASE a \in Working(p.targets)
      BY <1>2, <1>7, <1>8, <2>0, <2>1, <2>2, <2>3, ForeseenIs
    <2>4. CASE settled[a] = "installed" /\ a \notin Working(p.targets)
      BY <1>2, <1>8, <1>11, <2>0, <2>1, <2>4, ForeseenIs
    <2>5. CASE settled[a] # "installed" /\ a \notin Working(p.targets)
      BY <1>10, <2>0, <2>1, <2>2, <2>5, ForeseenIs
    <2> QED
      BY <2>3, <2>4, <2>5
  <1>13. now = Now(p)
    <2> SUFFICES ASSUME NEW a \in Agents
                 PROVE  Current(p, a) = IF Probe[a] \in Unsighted THEN "unread"
                                        ELSE IF a \in ours THEN p.variant
                                        ELSE IF a \in {} THEN "nowhere" ELSE ProbedContents[a]
      BY <1>2, PredictionNow
    <2>1. Probe[a] = RootProbe(a) /\ ProbedContents[a] = ProbedContent(a)
      BY DEF Probe, ProbedContents
    <2> QED
      BY <1>2, <1>8, <1>10, <1>11, <2>1
  <1> HIDE DEF after, now, ours, targets
  <1>14. StandingFits(p)
    BY <1>2 DEF StandingFits
  <1>15. OutlookFits(p)
    BY <1>2, <1>6, <1>12 DEF OutlookFits
  <1>16. ASSUME "opencode" \in selected PROVE SaidFits(p)
    <2>1. asked /\ ~(native /\ Foresight(p).kind = "conflict")
      BY <1>5, <1>6, <1>12, <1>16
    <2>2. p.said = IF native THEN Foresight(p).kind = "incomplete"
                   ELSE Foresight(p).kind # Now(p).kind /\ Concerns(Foresight(p))
      BY <1>2, <1>12, <1>13, <2>1
    <2>3. native => UsableBy(v, "opencode")
      BY <1>7, <1>8, <1>n, AgentNames
    <2>4. Foresight(p).kind = "conflict" => p.said \/ Cardinality(p.loaded) > 1
      BY <1>2, <2>1, <2>2, NowMeans DEF Concerns
    <2>5. ASSUME Foresight(p).kind \in {"foreign", "incompatible"}, p.loaded # {p.variant}
          PROVE  p.said
      <3>1. ~native
        BY <1>2, <2>3, <2>5, ForesightMeans
      <3>2. Foresight(p).kind # Now(p).kind
        BY <1>2, <2>5, NowMeans
      <3> QED
        BY <2>2, <2>5, <3>1, <3>2 DEF Concerns
    <2> HIDE DEF native, said, asked
    <2> QED
      BY <1>2, <1>n, <2>1, <2>4, <2>5 DEF SaidFits
  <1> QED
    BY <1>2, <1>4, <1>9, <1>14, <1>15, <1>16 DEF Decided, Operations

\* A link Doctor calls proven is there, has a receipt, and stands for one
\* variant.
LEMMA ProvenMeans ==
  ASSUME ScanInv, NEW a \in Agents, Standing(a) = "proven"
  PROVE  /\ a \in selected /\ root[a] = "present" /\ RepairRoot(a) = "present"
         /\ IsLink(a) /\ content[slot[a]] # "sealed" /\ Receipted(a)
         /\ ~RegistryIncomplete(SourceOf[slot[a]])
         /\ \E v \in ReadableVariants : Narrow(ReadableVariants, a) = {v}
  <1>1. /\ RepairRoot(a) = "present" /\ IsLink(a) /\ content[slot[a]] # "sealed" /\ Receipted(a)
        /\ ~RegistryIncomplete(SourceOf[slot[a]])
        /\ Cardinality(Narrow(ReadableVariants, a)) = 1
    BY DEF Standing
  <1>2. root[a] \in RootKinds
    BY DEF ScanInv, WorldTypes
  <1>3. a \in selected /\ root[a] = "present"
    BY <1>1, <1>2 DEF RepairRoot, RootProbe, Listable, RootKinds
  <1>4. \E v : Narrow(ReadableVariants, a) = {v}
    <2>1. IsFiniteSet(Narrow(ReadableVariants, a))
      BY NarrowOf, ReadableFinite, FS_Subset
    <2> QED
      BY <1>1, <2>1, Few
  <1>5. Narrow(ReadableVariants, a) \subseteq ReadableVariants
    BY NarrowOf
  <1> QED
    BY <1>1, <1>3, <1>4, <1>5

\* What planning a repair states is so.
LEMMA RepairDecided ==
  ASSUME ScanInv, NEW a \in Agents, NEW p, p = RepairPlan(a)
  PROVE  Decided(p)
  <1> DEFINE v == CHOOSE w \in Narrow(ReadableVariants, a) : TRUE
             after == Predicted(RepairProbe, RepairContents, v, {a}, {})
             now == Predicted(RepairProbe, RepairContents, v, {}, {})
             sight(b) == IF RepairContent(b) \in {"nowhere", "unknown"} THEN {} ELSE {RepairContent(b)}
             before == UNION {sight(b) : b \in Agents}
             kept == {v} \cup UNION {sight(b) : b \in Agents \ {a}}
             replaces == ~(Leads(a) /\ Canonical(slot[a]) = v)
             stands == a = "opencode" /\ replaces /\ after.kind = "conflict"
             allowed == now.kind = "conflict" /\ kept \subseteq before
             targets == [Blocked(a) EXCEPT ![a] = CASE ~replaces -> "installed"
                                                    [] stands /\ ~allowed -> "blocked"
                                                    [] OTHER -> "replace"]
             said == \/ stands /\ allowed
                     \/ after.kind = "incomplete"
                     \/ replaces /\ after.kind # now.kind /\ Concerns(after)
             standing == IF stands /\ allowed THEN [b \in Agents |-> IF b = a THEN v ELSE RepairContent(b)]
                         ELSE NoStanding
  <1>1. CASE Standing(a) # "proven"
    <2>1. p = Plan("repair", None, Blocked(a), NoOutlook, FALSE, NoStanding)
      BY <1>1 DEF RepairPlan
    <2>2. p.targets = Blocked(a)
      BY <2>1 DEF Plan
    <2>3. p.targets \in [Agents -> Dispositions] /\ p.targets[a] = "blocked"
      BY <2>2 DEF Blocked, Dispositions
    <2> QED
      BY <2>3 DEF Decided, Executable
  <1>2. CASE Standing(a) = "proven"
    <2>1. p = Plan("repair", v, targets, Outlook(after), said, standing)
      BY <1>2 DEF RepairPlan
    <2>2. /\ p.op = "repair" /\ p.variant = v /\ p.targets = targets /\ p.outlook = Outlook(after)
          /\ p.said = said /\ p.standing = standing /\ p.loaded = Loaded({})
          /\ p.entry = slot /\ p.probed = [b \in Agents |-> Probed(b)]
      BY <2>1 DEF Plan
    <2>3. targets \in [Agents -> Dispositions]
      BY DEF Blocked, Dispositions, Work
    <2> SUFFICES ASSUME Executable(p) PROVE Decided(p)
      BY <2>2, <2>3 DEF Decided
    <2>4. /\ replaces /\ ~(stands /\ ~allowed)
          /\ Working(p.targets) = {a} /\ p.targets[a] = "replace"
      <3>1. targets[a] = CASE ~replaces -> "installed"
                           [] stands /\ ~allowed -> "blocked"
                           [] OTHER -> "replace"
        BY DEF Blocked
      <3>2. \A b \in Agents \ {a} : targets[b] = "excluded"
        BY DEF Blocked
      <3> HIDE DEF targets
      <3>3. targets[a] # "blocked" /\ Working(targets) # {}
        BY <2>2 DEF Executable
      <3>4. a \in Working(targets) /\ Working(targets) = {a}
        BY <3>2, <3>3 DEF Working, Work
      <3>5. targets[a] \in Work
        BY <3>4 DEF Working
      <3> HIDE DEF replaces, stands, allowed
      <3>6. replaces
        <4>1. SUFFICES ASSUME ~replaces PROVE FALSE
          OBVIOUS
        <4>2. ~stands
          BY <4>1 DEF stands
        <4>3. targets[a] = "installed"
          BY <3>1, <4>1, <4>2
        <4> QED
          BY <3>5, <4>3 DEF Work
      <3>7. ~(stands /\ ~allowed) /\ targets[a] = "replace"
        BY <3>1, <3>3, <3>6
      <3> QED
        BY <2>2, <3>4, <3>6, <3>7
    <2>5. /\ a \in selected /\ root[a] = "present" /\ RepairRoot(a) = "present"
          /\ \E w \in ReadableVariants : Narrow(ReadableVariants, a) = {w}
      BY <1>2, ProvenMeans
    <2>6. v \in ReadableVariants /\ v \in Variants
      <3>1. PICK w \in ReadableVariants : Narrow(ReadableVariants, a) = {w}
        BY <2>5
      <3>2. v = w
        BY <3>1
      <3> QED
        BY <3>2, ReadableFinite
    <2>7. \A b \in Working(p.targets) : Ready(p, b)
      BY <2>2, <2>4, <2>5 DEF Ready
    <2>8. \A b \in Agents : Current(p, b) = IF RepairRoot(b) \in Unsighted THEN "unread"
                                            ELSE RepairContent(b)
      BY <2>2 DEF Current, ProbeOf, ContentOf
    <2>9. \A b \in Agents : RepairProbe[b] = RepairRoot(b) /\ RepairContents[b] = RepairContent(b)
      BY DEF RepairProbe, RepairContents
    <2> HIDE DEF v
    <2>10. after = Foresight(p)
      <3> SUFFICES ASSUME NEW b \in Agents
                   PROVE  Foreseen(p, b) = IF RepairProbe[b] \in Unsighted THEN "unread"
                                           ELSE IF b \in {a} THEN p.variant
                                           ELSE IF b \in {} THEN "nowhere" ELSE RepairContents[b]
        <4>1. PICK to : to = {a}
          OBVIOUS
        <4>2. after = Predicted(RepairProbe, RepairContents, p.variant, to, {})
          BY <2>2, <4>1
        <4> HIDE DEF after
        <4> QED
          BY <4>1, <4>2, PredictionOf
      <3>1. RepairRoot(a) \notin Unsighted
        BY <2>5 DEF Unsighted
      <3> QED
        BY <2>2, <2>4, <2>8, <2>9, <3>1, ForeseenIs
    <2>11. now = Now(p)
      <3> SUFFICES ASSUME NEW b \in Agents
                   PROVE  Current(p, b) = IF RepairProbe[b] \in Unsighted THEN "unread"
                                          ELSE IF b \in {} THEN p.variant
                                          ELSE IF b \in {} THEN "nowhere" ELSE RepairContents[b]
        BY <2>2, PredictionNow
      <3> QED
        BY <2>8, <2>9
    <2> HIDE DEF after, now, targets
    <2>12. StandingFits(p)
      <3> SUFFICES ASSUME p.standing # NoStanding, Known(Prospect(p))
                   PROVE  p.standing = Prospect(p)
        BY DEF StandingFits
      <3>1. p.standing = [b \in Agents |-> IF b = a THEN v ELSE RepairContent(b)]
        BY <2>2
      <3>2. \A b \in Agents : Foreseen(p, b) = IF b = a THEN v ELSE RepairContent(b)
        <4> SUFFICES ASSUME NEW b \in Agents, b # a PROVE Foreseen(p, b) = RepairContent(b)
          BY <2>2, <2>4, ForeseenIs
        <4>1. Foreseen(p, b) = Current(p, b)
          BY <2>4, ForeseenIs
        <4>2. Foreseen(p, b) # "unread"
          BY DEF Known, Prospect
        <4> QED
          BY <2>8, <4>1, <4>2
      <3> QED
        BY <3>1, <3>2 DEF Prospect
    <2>13. OutlookFits(p)
      BY <2>2, <2>10 DEF OutlookFits
    <2>14. SaidFits(p)
      <3>1. "opencode" \in Working(p.targets) <=> a = "opencode"
        BY <2>4
      <3>2. ASSUME Foresight(p).kind = "conflict", a = "opencode"
            PROVE  p.said /\ DirectoriesOf(Prospect(p)) \subseteq p.loaded
        <4>1. stands /\ allowed
          BY <2>4, <2>10, <3>2
        <4>2. Known(Prospect(p)) /\ Known(Currently(p)) /\ Loaded({}) = DirectoriesOf(Currently(p))
          BY <2>11, <3>2, <4>1, ForesightMeans, NowMeans
        <4>3. kept \subseteq before
          BY <4>1
        <4>4. before \subseteq Loaded({})
          <5> SUFFICES ASSUME NEW b \in Agents, RepairContent(b) \notin {"nowhere", "unknown"}
                       PROVE  RepairContent(b) \in Loaded({})
            OBVIOUS
          <5>1. Current(p, b) = RepairContent(b)
            BY <2>8, <4>2 DEF Known, Currently
          <5> QED
            BY <4>2, <5>1 DEF DirectoriesOf, Currently
        <4>5. DirectoriesOf(Prospect(p)) \subseteq kept
          <5> SUFFICES ASSUME NEW b \in Agents, Foreseen(p, b) # "nowhere"
                       PROVE  Foreseen(p, b) \in kept
            BY DEF DirectoriesOf, Prospect
          <5>1. CASE b = a
            BY <2>2, <2>4, <5>1, ForeseenIs
          <5>2. CASE b # a
            <6>1. Foreseen(p, b) = Current(p, b)
              BY <2>4, <5>2, ForeseenIs
            <6>2. Foreseen(p, b) \notin {"unread", "unknown"}
              BY <4>2 DEF Known, Prospect
            <6>3. Foreseen(p, b) = RepairContent(b)
              BY <2>8, <6>1, <6>2
            <6>4. Foreseen(p, b) \in sight(b)
              BY <6>2, <6>3
            <6> QED
              BY <5>2, <6>4
          <5> QED
            BY <5>1, <5>2
        <4> HIDE DEF stands, allowed, kept, before
        <4> QED
          BY <2>2, <4>1, <4>3, <4>4, <4>5
      <3>3. ASSUME Foresight(p).kind = "conflict"
            PROVE  p.said \/ Cardinality(p.loaded) > 1
        <4>1. Foresight(p).kind # Now(p).kind => p.said
          BY <2>2, <2>4, <2>10, <2>11, <3>3 DEF Concerns
        <4> QED
          BY <2>2, <3>3, <4>1, NowMeans
      <3>4. ASSUME Foresight(p).kind \in {"foreign", "incompatible"}, p.loaded # {p.variant}
            PROVE  p.said
        <4>1. Foresight(p).kind # Now(p).kind
          BY <2>2, <3>4, NowMeans
        <4> QED
          BY <2>2, <2>4, <2>10, <2>11, <3>4, <4>1 DEF Concerns
      <3> QED
        BY <2>2, <3>1, <3>2, <3>3, <3>4 DEF SaidFits
    <2> QED
      BY <2>2, <2>3, <2>4, <2>6, <2>7, <2>12, <2>13, <2>14 DEF Decided, Operations, targets
  <1> QED
    BY <1>1, <1>2

\* What planning an uninstallation states is so.
LEMMA UninstallDecided ==
  ASSUME ScanInv, NEW requested, NEW p, p = UninstallPlan(requested)
  PROVE  Decided(p)
  <1> DEFINE targets == [a \in Agents |->
               IF a \notin selected \cap requested \/ ~\E r \in receipts : r.agent = a
               THEN "excluded" ELSE UninstallDisposition(a)]
             outlook(off) == Reduced(Predicted(Probe, ProbedContents, None, {}, off))
             after == outlook(Working(targets))
  <1>1. p = Plan("uninstall", None, targets,
                 IF "opencode" \in selected THEN after ELSE NoOutlook,
                 "opencode" \in selected /\ outlook({}) # after /\ after.kind # "unknown", NoStanding)
    BY DEF UninstallPlan
  <1>2. /\ p.op = "uninstall" /\ p.variant = None /\ p.targets = targets
        /\ p.outlook = (IF "opencode" \in selected THEN after ELSE NoOutlook)
        /\ p.said = ("opencode" \in selected /\ outlook({}) # after /\ after.kind # "unknown")
        /\ p.standing = NoStanding /\ p.loaded = Loaded({}) /\ p.entry = slot
    BY <1>1 DEF Plan
  <1>3. targets \in [Agents -> Dispositions]
    BY DEF UninstallDisposition, Dispositions, Work
  <1> SUFFICES ASSUME Executable(p) PROVE Decided(p)
    BY <1>2, <1>3 DEF Decided
  <1>4. ASSUME NEW a \in Working(p.targets)
        PROVE  /\ a \in Agents /\ a \in selected /\ RootProbe(a) = "present"
               /\ Receipted(a) /\ p.targets[a] = "remove" /\ root[a] \in {"present", "unlistable"}
               /\ slot[a] \in Places
    <2>1. a \in Agents /\ targets[a] \in Work
      BY <1>2 DEF Working
    <2>2. a \in selected /\ UninstallDisposition(a) \in Work /\ targets[a] = UninstallDisposition(a)
      BY <2>1 DEF Work
    <2>3. /\ RootProbe(a) \notin {"redirected", "missing", "orphaned"} /\ Receipted(a)
          /\ UninstallDisposition(a) = "remove"
      BY <2>2 DEF UninstallDisposition, Work
    <2>4. root[a] \in RootKinds /\ Entry(a) \in Places
      BY <2>1, <2>3 DEF ScanInv, WorldTypes, Receipted, IsLink
    <2>5. Entry(a) \notin Plain
      BY <2>4, AgentNames
    <2>6. root[a] \in {"present", "unlistable"} /\ Entry(a) = slot[a]
      BY <2>2, <2>3, <2>4, <2>5 DEF RootProbe, Entry, RootKinds, Plain
    <2>7. RootProbe(a) = "present"
      BY <2>2, <2>6 DEF RootProbe
    <2> QED
      BY <1>2, <2>1, <2>2, <2>3, <2>4, <2>6, <2>7
  <1> HIDE DEF targets
  <1>5. \A a \in Working(p.targets) : Ready(p, a)
    <2> SUFFICES ASSUME NEW a \in Working(p.targets) PROVE Ready(p, a)
      OBVIOUS
    <2>1. slot[a] # "absent"
      BY <1>4, AgentNames DEF Plain
    <2> QED
      BY <1>2, <1>4, <2>1 DEF Ready
  <1>6. \A a \in Agents : Current(p, a) = IF RootProbe(a) \in Unsighted THEN "unread"
                                          ELSE ProbedContent(a)
    BY <1>2 DEF Current, ProbeOf, ContentOf
  <1>7. \A a \in Agents : Probe[a] = RootProbe(a) /\ ProbedContents[a] = ProbedContent(a)
    BY DEF Probe, ProbedContents
  <1>8. after = Reduced(Foresight(p))
    <2>t. PICK off : off = Working(targets)
      OBVIOUS
    <2>p. after = Reduced(Predicted(Probe, ProbedContents, p.variant, {}, off))
      BY <1>2, <2>t
    <2> SUFFICES ASSUME NEW a \in Agents
                 PROVE  Foreseen(p, a) = IF Probe[a] \in Unsighted THEN "unread"
                                         ELSE IF a \in {} THEN p.variant
                                         ELSE IF a \in off THEN "nowhere" ELSE ProbedContents[a]
      <3> HIDE DEF after
      <3>1. Predicted(Probe, ProbedContents, p.variant, {}, off) = Foresight(p)
        BY PredictionOf
      <3> QED
        BY <2>p, <3>1
    <2>1. a \in Working(p.targets) => RootProbe(a) \notin Unsighted
      BY <1>4 DEF Unsighted
    <2>2. off = Working(p.targets)
      BY <1>2, <2>t
    <2> QED
      BY <1>2, <1>6, <1>7, <2>1, <2>2, ForeseenIs
  <1>9. outlook({}) = Reduced(Now(p))
    <2>1. \A a \in Agents :
            Current(p, a) = IF Probe[a] \in Unsighted THEN "unread"
                            ELSE IF a \in {} THEN p.variant
                            ELSE IF a \in {} THEN "nowhere" ELSE ProbedContents[a]
      BY <1>6, <1>7
    <2>2. Predicted(Probe, ProbedContents, p.variant, {}, {}) = Now(p)
      BY <2>1, PredictionNow
    <2> QED
      BY <1>2, <2>2
  <1> HIDE DEF after, outlook
  <1>10. StandingFits(p)
    BY <1>2 DEF StandingFits
  <1>11. OutlookFits(p)
    BY <1>2, <1>8 DEF OutlookFits
  <1>12. ASSUME "opencode" \in selected PROVE SaidFits(p)
    <2>0. p.said = (Reduced(Now(p)) # Reduced(Foresight(p)) /\ Reduced(Foresight(p)).kind # "unknown")
      BY <1>2, <1>8, <1>9, <1>12
    <2>1. ASSUME Foresight(p).kind # "incomplete" PROVE DirectoriesOf(Prospect(p)) \subseteq Loaded({})
      <3> SUFFICES ASSUME NEW a \in Agents, Foreseen(p, a) # "nowhere"
                   PROVE  Foreseen(p, a) \in Loaded({})
        BY DEF DirectoriesOf, Prospect
      <3>1. a \notin Working(p.targets) /\ Foreseen(p, a) = Current(p, a)
        BY <1>2, ForeseenIs
      <3>2. Foreseen(p, a) \notin {"unread", "unknown"}
        BY <2>1, ForesightMeans DEF Known, Prospect
      <3>3. Loads(a, {}) = {Foreseen(p, a)}
        BY <3>1, <3>2, CurrentIsLoad
      <3> QED
        BY <3>3 DEF Loaded
    <2>2. IsFiniteSet(Loaded({})) /\ IsFiniteSet(DirectoriesOf(Prospect(p)))
      <3>1. Loaded({}) \subseteq {CHOOSE x : x \in Loads("claude", {}),
                                  CHOOSE x : x \in Loads("codex", {}),
                                  CHOOSE x : x \in Loads("opencode", {})}
        <4>1. \A a : \A x, y \in Loads(a, {}) : x = y
          BY DEF Loads
        <4>2. \A a : \A x \in Loads(a, {}) : x = CHOOSE y : y \in Loads(a, {})
          BY <4>1
        <4> QED
          BY <4>2 DEF Loaded, Agents
      <3> QED
        BY <3>1, ThreeAreFinite, DirectoriesFinite
    <2>3. Foresight(p).kind = "conflict" => Cardinality(p.loaded) > 1
      BY <1>2, <2>1, <2>2, ForesightMeans, Few
    <2>4. Foresight(p).kind \notin {"foreign", "incompatible"}
      <3>1. None \notin Variants
        BY VariantsAssumption
      <3> QED
        BY <1>2, <3>1, ForesightMeans
    <2>5. ASSUME Foresight(p).kind = "selected", p.loaded # DirectoriesOf(Prospect(p)) PROVE p.said
      <3>1. Reduced(Foresight(p)) = [kind |-> "loads", winner |-> Foresight(p).winner]
        BY <2>5 DEF Reduced, Outlook
      <3>0. Reduced(Foresight(p)).kind # "unknown"
        BY <3>1
      <3>2. SUFFICES ASSUME Reduced(Now(p)) = Reduced(Foresight(p)) PROVE FALSE
        BY <2>0, <3>0
      <3>3. Reduced(Now(p)).kind = "loads" /\ Reduced(Now(p)).winner = Foresight(p).winner
        BY <3>1, <3>2
      <3>4. Now(p).kind # "incomplete" /\ Now(p).kind # "conflict" /\ Now(p).kind # "nothing"
        BY <3>3 DEF Reduced, Outlook
      <3>5. Now(p).kind \in {"foreign", "incompatible", "selected"} /\ Now(p).winner = Foresight(p).winner
        <4>1. Now(p).kind \in {"foreign", "incompatible", "selected"}
          BY <3>4, NowMeans
        <4> QED
          BY <3>3, <4>1 DEF Reduced, Outlook
      <3> DEFINE w == Now(p).winner
      <3>6. First(w, Currently(p)) /\ First(w, Prospect(p))
        BY <2>5, <3>4, <3>5, NowMeans, ForesightMeans
      <3> HIDE DEF w
      <3>7. w \in Agents /\ Foreseen(p, w) # "nowhere" /\ Foreseen(p, w) \in DirectoriesOf(Prospect(p))
        BY <3>6 DEF First, Prospect, DirectoriesOf
      <3>8. Foreseen(p, w) \in Loaded({})
        BY <2>1, <2>5, <3>7
      <3>9. \A x, y \in Loaded({}) : x = y
        BY <2>2, <3>4, NowMeans, Few
      <3>10. DirectoriesOf(Prospect(p)) = Loaded({})
        BY <2>1, <2>5, <3>7, <3>8, <3>9
      <3> QED
        BY <1>2, <2>5, <3>10
    <2> QED
      BY <1>2, <2>3, <2>4, <2>5 DEF SaidFits
  <1> QED
    BY <1>2, <1>3, <1>5, <1>10, <1>11, <1>12 DEF Decided, Operations

\* Planning keeps the invariant of plans.
LEMMA DecideHolds == ScanInv /\ PlanInv /\ Decide => PlanInv'
  <1> SUFFICES ASSUME ScanInv, PlanInv, Decide PROVE PlanInv'
    OBVIOUS
  <1>0. RootsStand /\ request \in Requests /\ request # NoRequest
    BY DEF PlanInv, Attempts, PlanTypes, Decide, RootsStand
  <1>1. CASE UNCHANGED plan /\ stage' = "refused"
    <2>1. PICK p : p = plan
      OBVIOUS
    <2>2. plan' = p /\ Decided(p) /\ ~Executable(p)
      BY <1>1, <2>1 DEF PlanInv, PlanTypes, Attempts, Decide, Decided
    <2> QED
      BY <1>1, <2>2, DecidePlan
  <1>2. ASSUME request.op = "install" => request.variant \in ReadableVariants,
               NEW p, plan' = p,
               p = CASE request.op = "install" -> InstallPlan(request.variant, request.agents)
                     [] request.op = "repair" ->
                          RepairPlan(CHOOSE a \in Agents : request.agents = {a})
                     [] OTHER -> UninstallPlan(request.agents),
               stage' = IF Executable(p) THEN "recheck" ELSE "refused"
        PROVE  PlanInv'
    <2>1. Decided(p)
      <3>1. CASE request.op = "install"
        <4>1. PICK v \in ReadableVariants : v = request.variant
          BY <1>2, <3>1
        <4>2. p = InstallPlan(v, request.agents)
          BY <1>2, <3>1, <4>1
        <4> QED
          BY <1>0, <4>2, InstallDecided
      <3>2. CASE request.op = "repair"
        <4>1. \E a \in Agents : request.agents = {a}
          BY <1>0, <3>2 DEF Requests, NoRequest
        <4>2. PICK a \in Agents : a = CHOOSE b \in Agents : request.agents = {b}
          BY <4>1
        <4>3. p = RepairPlan(a)
          BY <1>2, <3>2, <4>2
        <4> QED
          BY <4>3, RepairDecided
      <3>3. CASE request.op \notin {"install", "repair"}
        <4>1. PICK requested : requested = request.agents
          OBVIOUS
        <4>2. p = UninstallPlan(requested)
          BY <1>2, <3>3, <4>1
        <4> QED
          BY <4>2, UninstallDecided
      <3> QED
        BY <3>1, <3>2, <3>3
    <2> QED
      BY <1>2, <2>1, DecidePlan
  <1>3. PICK p : p = plan'
    OBVIOUS
  <1>4. Executable(plan') <=> Executable(p)
    BY <1>3
  <1> QED
    BY <1>1, <1>2, <1>3, <1>4 DEF Decide

\* Planning writes nothing.
LEMMA DecideScan == ScanInv /\ PlanInv /\ Decide => ScanInv'
  <1> SUFFICES ASSUME ScanInv, Decide PROVE ScanInv'
    OBVIOUS
  <1>1. /\ stage = "plan" /\ stage' \in {"recheck", "refused"}
        /\ UNCHANGED <<slot, root, content, selected, catalog, metadata, others>>
        /\ UNCHANGED <<budget, todo, index, complete, accountable, status, seen, swapped, during>>
    BY DEF Decide, world
  <1>2. WorldTypes'
    BY <1>1 DEF ScanInv, WorldTypes
  <1>3. others' \in Nat
    BY <1>1 DEF ScanInv, PassTypes
  <1> QED
    BY <1>1, <1>2, <1>3, BeforeScan DEF BeforePass

\* The invariant of a pass, alone or after a plan.
Inv == ScanInv /\ PlanInv

\* Every step of a pass keeps the invariant of the pass.
LEMMA PassScan == ScanInv /\ Pass => ScanInv'
  BY BuildIndexScan, OpenRootScan, ObserveScan, ValidateScan, SettleScan, FinishScan, SwapScan
     DEF Pass

\* So does a step of nobody.
LEMMA StutterInv == Inv /\ UNCHANGED allVars => Inv'
  <1> SUFFICES ASSUME Inv, UNCHANGED allVars PROVE Inv'
    OBVIOUS
  <1>1. UNCHANGED <<world, pass, others, swapped, during, planVars>>
    BY DEF allVars, scanVars
  <1>2. ScanInv'
    <2>1. WorldTypes' /\ PassTypes'
      BY <1>1 DEF Inv, ScanInv, WorldTypes, PassTypes, world, pass
    <2>2. Unbegun' /\ Indexed'
      BY <1>1 DEF Inv, ScanInv, Unbegun, Indexed, world, pass, Offered, Accountable, WholeRegistry
    <2>3. \A a \in Agents : /\ Expected(a)' = Expected(a) /\ Found(a)' = Found(a)
                            /\ \A v : ReadingOf(a, v)' = ReadingOf(a, v)
      BY <1>1, ExpectedKept DEF world, pass
    <2>4. Visited'
      BY <1>1, <2>3 DEF Inv, ScanInv, Visited, Scanned, Listable, world, pass
    <2>5. Inspected'
      <3>1. stage \in Inspecting => Head(todo) \in Agents
        BY WaitingMoves DEF Inv, ScanInv, PassTypes, Inspected
      <3>2. PICK v : v = reading.validated
        OBVIOUS
      <3> QED
        BY <1>1, <2>3, <3>1, <3>2 DEF Inv, ScanInv, Inspected, Listable, world, pass, Canonical
    <2>6. Labelled'
      BY <1>1 DEF Inv, ScanInv, Labelled, world, pass, Canonical, Readings, Placed
    <2> QED
      BY <2>1, <2>2, <2>4, <2>5, <2>6 DEF ScanInv
  <1>3. PlanInv'
    <2>1. PlanTypes'
      BY <1>1 DEF Inv, PlanInv, PlanTypes, planVars, Executable, Working
    <2>2. Attempts'
      BY <1>1 DEF Inv, PlanInv, Attempts, planVars, world, pass, Executable, Working, Pending
    <2>3. /\ Quiet' = Quiet /\ Working(plan.targets)' = Working(plan.targets)
      BY <1>1 DEF Quiet, planVars, Executable, Working
    <2>4. TargetsStand'
      <3> SUFFICES ASSUME Quiet, NEW a \in Working(plan.targets) PROVE TargetStands(a)'
        BY <2>3 DEF TargetsStand
      <3>1. TargetStands(a)
        BY DEF Inv, PlanInv, TargetsStand
      <3> QED
        BY <1>1, <3>1 DEF TargetStands, planVars, world, pass, UsableBy
    <2>5. ContentStands'
      BY <1>1, <2>3 DEF Inv, PlanInv, ContentStands, planVars, world, ReadableVariants, Offered
    <2>6. RepairStands'
      <3>1. \A b \in Agents : Probed(b)' = Probed(b)
        BY <1>1 DEF Probed, IsLink, Leads, ProbedContent, Entry, Canonical, world
      <3> QED
        BY <1>1, <2>3, <3>1 DEF Inv, PlanInv, RepairStands, planVars, world
    <2>7. Stated'
      <3> SUFFICES ASSUME Quiet PROVE /\ StandingFits(plan)' /\ OutlookFits(plan)'
                                      /\ "opencode" \in selected' => SaidFits(plan)'
        BY <2>3 DEF Stated
      <3>1. PICK p : p = plan
        OBVIOUS
      <3>2. plan' = p
        BY <1>1, <3>1 DEF planVars
      <3>3. StandingFits(p) /\ OutlookFits(p) /\ ("opencode" \in selected => SaidFits(p))
        BY <3>1 DEF Inv, PlanInv, Stated
      <3>4. UNCHANGED <<slot, root, content, selected, catalog>>
        BY <1>1 DEF world
      <3> QED
        BY <3>2, <3>3, <3>4, StatedKept
    <2> QED
      BY <2>1, <2>2, <2>4, <2>5, <2>6, <2>7 DEF PlanInv
  <1> QED
    BY <1>2, <1>3 DEF Inv

(* Every pass, and every plan with the writes and the pass that follow it,    *)
(* keeps the invariant, whatever is swapped and whoever interferes.           *)
THEOREM InvHolds == PlanSpec => []Inv
  <1>1. PlanInit => Inv
    BY InitScan, InitPlan DEF Inv
  <1>2. Inv /\ [PlanNext]_allVars => Inv'
    <2> SUFFICES ASSUME Inv, [PlanNext]_allVars PROVE Inv'
      OBVIOUS
    <2>1. CASE Decide
      BY <2>1, DecideHolds, DecideScan DEF Inv
    <2>2. CASE Recheck
      BY <2>2, RecheckPlan, RecheckScan DEF Inv
    <2>3. CASE Write
      BY <2>3, WritePlan, WriteScan DEF Inv
    <2>4. CASE Interfere
      BY <2>4, InterferePlan, InterfereScan DEF Inv
    <2>5. CASE Pass /\ UNCHANGED planVars
      BY <2>5, PassPlan, PassScan DEF Inv
    <2>6. CASE UNCHANGED allVars
      BY <2>6, StutterInv
    <2> QED
      BY <2>1, <2>2, <2>3, <2>4, <2>5, <2>6 DEF PlanNext
  <1> QED
    BY <1>1, <1>2, PTL DEF PlanSpec

(* After a scan_with_budget nobody raced, what it says is so: which           *)
(* installation OpenCode selects, which source the installations of a row     *)
(* come from, and how many there are of what.                                 *)
THEOREM ScanIsTrueHolds == PlanSpec => []ScanIsTrue
  <1>1. Inv => ScanIsTrue
    BY ScanHolds DEF Inv
  <1> QED
    BY <1>1, InvHolds, PTL

(* observe and classify call a link unmanaged, or healthy, only if that is    *)
(* what it was, although others come between their steps.                     *)
THEOREM LabelsAreTrueHolds == PlanSpec => LabelsAreTrue
  <1>1. Inv /\ [PlanNext]_allVars => [UnmanagedIsProven /\ LabelDescribesContent]_scanVars
    BY StepLabels DEF Inv
  <1> QED
    BY <1>1, InvHolds, PTL DEF PlanSpec, LabelsAreTrue

-----------------------------------------------------------------------------
(* What a report of success means *)

\* A link found as planned is there, leads to the planned variant, and that
\* is valid; an unlinked one is gone.
LEMMA VerdictMeans ==
  ASSUME ScanInv, stage = "done", ~swapped, NEW a \in Agents, LinkVerdict(a) = "held",
         plan.op # "uninstall" => plan.variant \in Variants
  PROVE  IF plan.op = "uninstall" THEN Entry(a) = "absent"
         ELSE /\ Entry(a) = plan.variant /\ slot[a] = plan.variant
              /\ content[plan.variant] = "valid"
  <1>1. status[a] \in {"scanned", "missing"}
    BY DEF LinkVerdict, Unscanned
  <1>2. status[a] = "missing" => Entry(a) = "absent" /\ seen[a] = NotSeen
    BY Observed
  <1>3. CASE plan.op = "uninstall"
    <2>1. seen[a] = NotSeen
      BY <1>1, <1>3 DEF LinkVerdict, Unscanned
    <2>2. ASSUME status[a] = "scanned" PROVE Entry(a) = "absent"
      <3>1. Entry(a) = slot[a]
        BY <2>2, Observed
      <3>2. slot[a] = "absent"
        BY <2>1, <2>2, Observed
      <3> QED
        BY <3>1, <3>2
    <2> QED
      BY <1>1, <1>2, <1>3, <2>2
  <1>4. CASE plan.op # "uninstall"
    <2>1. /\ seen[a].object = "link" /\ seen[a].provenance = plan.variant
          /\ seen[a].health = "healthy"
      BY <1>1, <1>4 DEF LinkVerdict, Unscanned
    <2>2. NotSeen.object = "absent"
      BY DEF NotSeen, Observation
    <2>3. status[a] = "scanned"
      BY <1>1, <1>2, <2>1, <2>2
    <2>4. Entry(a) = slot[a] /\ slot[a] \in Plain \cup Places
      BY <2>3, Observed
    <2>5. slot[a] # "absent" /\ slot[a] # "file" /\ slot[a] # "unreadable"
      <3>1. slot[a] # "absent"
        BY <2>1, <2>2, <2>3, Observed
      <3>2. slot[a] # "file"
        BY <2>1, <2>3, Observed
      <3>3. slot[a] # "unreadable"
        BY <2>1, <2>3, Observed
      <3> QED
        BY <3>1, <3>2, <3>3
    <2>6. slot[a] \in Places
      BY <2>4, <2>5 DEF Plain
    <2>7. content[slot[a]] \in Loadable /\ Resolved(a) # None
      BY <2>1, <2>3, <2>6, Observed
    <2>8. seen[a].provenance = Provenance(Resolved(a))
      BY <2>3, <2>6, <2>7, LoadableIsSeen
    <2>9. /\ Resolved(a) = slot[a] /\ slot[a] \in Variants /\ Canonical(slot[a]) = slot[a]
      BY <2>6, <2>7, ResolvedMeans DEF BeforePass
    <2>10. slot[a] = plan.variant
      BY <2>1, <2>7, <2>8, <2>9 DEF Provenance
    <2>11. content[slot[a]] # "outside"
      BY <2>9, VariantsAssumption DEF Canonical
    <2> QED
      BY <1>4, <2>4, <2>7, <2>10, <2>11 DEF Loadable
  <1> QED
    BY <1>3, <1>4

\* A report of success is true of the roots.
LEMMA SuccessHolds == Inv => SuccessIsTrue
  <1> SUFFICES ASSUME Inv, stage = "done", ~swapped, Status = "success"
               PROVE  /\ \A a \in Working(plan.targets) :
                           IF plan.op = "uninstall" THEN Entry(a) = "absent"
                           ELSE Entry(a) = plan.variant /\ content[plan.variant] = "valid"
                      /\ (plan.op = "install" /\ "opencode" \in Written /\ OutlookVerdicts = {"held"})
                           => \A hidden \in SUBSET Agents :
                                Loaded(hidden) = {plan.variant} /\ Winner(hidden) = "opencode"
    BY DEF SuccessIsTrue
  <1>1. Executable(plan) /\ Written = Working(plan.targets) /\ Verified
    BY DEF Status
  <1>2. plan.op # "uninstall" => plan.variant \in Variants
    BY <1>1 DEF Inv, PlanInv, PlanTypes
  <1>3. ASSUME NEW a \in Written
        PROVE  /\ a \in Agents /\ LinkVerdict(a) = "held"
               /\ IF plan.op = "uninstall" THEN Entry(a) = "absent"
                  ELSE /\ Entry(a) = plan.variant /\ slot[a] = plan.variant
                       /\ content[plan.variant] = "valid"
    <2>1. a \in Agents /\ LinkVerdict(a) = "held"
      BY <1>1 DEF Verified, Written
    <2> QED
      BY <1>2, <2>1, VerdictMeans DEF Inv
  <1>4. ASSUME plan.op = "install", "opencode" \in Written, OutlookVerdicts = {"held"},
               NEW hidden \in SUBSET Agents
        PROVE  Loaded(hidden) = {plan.variant} /\ Winner(hidden) = "opencode"
    <2>1. OutlookVerdicts = InstallOutlookVerdicts
      BY <1>4 DEF OutlookVerdicts
    <2>2. Resolution.kind = "selected" /\ Resolution.winner = "opencode"
      <3> DEFINE native == "opencode" \in Written /\ LinkVerdict("opencode") = "held"
                 selects == Resolution.kind = "selected" /\ Resolution.winner = "opencode"
      <3>1. native
        BY <1>3, <1>4
      <3>2. InstallOutlookVerdicts =
              IF ~HasRow \/ Resolution.kind = "unasked" THEN {}
              ELSE IF native /\ selects THEN {"held"}
              ELSE IF native /\ Resolution.kind = "incomplete" THEN {"withheld"}
              ELSE IF native THEN {"failed"}
              ELSE IF plan.outlook = NoOutlook THEN {}
              ELSE {HeldTo(plan.outlook, Outlook(Resolution))}
        BY DEF InstallOutlookVerdicts
      <3> HIDE DEF native, selects
      <3>3. selects
        BY <1>4, <2>1, <3>1, <3>2
      <3> QED
        BY <3>3 DEF selects
    <2>3. ResolutionIsTrue
      BY ResolutionHolds DEF Inv
    <2>4. /\ Resolution.kind # "nothing" /\ Resolution.kind # "conflict"
          /\ ~(Cardinality(Loaded(hidden)) > 1) /\ Winner(hidden) = "opencode"
      BY <2>2, <2>3 DEF ResolutionIsTrue
    <2>5. IsFiniteSet(Loaded(hidden))
      BY <2>2, AnswerGiven, DirectoriesFinite DEF Inv
    <2>6. plan.variant \in Loaded(hidden)
      <3>1. /\ Entry("opencode") = plan.variant /\ slot["opencode"] = plan.variant
            /\ content[plan.variant] = "valid"
        BY <1>3, <1>4
      <3>2. plan.variant \notin Plain
        BY <1>2, <1>4, VariantsAssumption
      <3>3. Loads("opencode", hidden) = {plan.variant}
        BY <3>1, <3>2 DEF Loads, Canonical, Plain
      <3> QED
        BY <3>3, AgentNames DEF Loaded
    <2>7. \A x, y \in Loaded(hidden) : x = y
      BY <2>4, <2>5, Few
    <2> QED
      BY <2>4, <2>6, <2>7
  <1> QED
    BY <1>1, <1>3, <1>4

-----------------------------------------------------------------------------
(* What Doctor offers *)

\* What was seen as a link is one, with the health it was given.
LEMMA LinkIsSeen ==
  ASSUME ScanInv, stage = "done", ~swapped, NEW a \in Agents, seen[a].object = "link"
  PROVE  /\ status[a] = "scanned" /\ a \in selected /\ Listable(a)
         /\ slot[a] \in Places \ {a} /\ Entry(a) = slot[a] /\ IsLink(a)
         /\ seen[a].health = "unreachable" <=> content[slot[a]] = "sealed"
         /\ seen[a].health = "healthy" => seen[a].provenance = slot[a] /\ Canonical(slot[a]) = slot[a]
  <1>1. NotSeen.object = "absent"
    BY DEF NotSeen, Observation
  <1>2. status[a] = "scanned"
    BY <1>1, Observed
  <1>3. a \in selected /\ Listable(a) /\ Entry(a) = slot[a] /\ slot[a] \in Plain \cup Places
    BY <1>2, Observed
  <1>4. slot[a] \in Places
    <2>1. slot[a] # "absent"
      BY <1>1, <1>2, Observed
    <2>2. slot[a] # "file"
      BY <1>2, Observed
    <2>3. slot[a] # "unreadable"
      BY <1>2, Observed
    <2> QED
      BY <1>3, <2>1, <2>2, <2>3 DEF Plain
  <1>5. slot[a] # a
    <2>1. seen[a].object = IF slot[a] = a THEN "directory" ELSE "link"
      BY <1>2, <1>4, Observed
    <2> QED
      BY <2>1
  <1>6. seen[a].health = "unreachable" <=> content[slot[a]] = "sealed"
    BY <1>2, <1>4, <1>5, Observed
  <1>7. ASSUME seen[a].health = "healthy"
        PROVE  seen[a].provenance = slot[a] /\ Canonical(slot[a]) = slot[a]
    <2>1. content[slot[a]] \in Loadable /\ Resolved(a) # None
      BY <1>2, <1>4, <1>7, Observed
    <2>2. seen[a].provenance = Provenance(Resolved(a))
      BY <1>2, <1>4, <2>1, LoadableIsSeen
    <2>3. Resolved(a) = slot[a] /\ Canonical(slot[a]) = slot[a]
      BY <1>4, <2>1, ResolvedMeans DEF BeforePass
    <2> QED
      BY <2>1, <2>2, <2>3 DEF Provenance
  <1> QED
    BY <1>2, <1>3, <1>4, <1>5, <1>6, <1>7 DEF IsLink

\* What Doctor offers, planning accepts.
LEMMA OffersHold == Inv => OffersMatchPlans
  <1> SUFFICES ASSUME ScanInv, stage = "done", ~swapped, NEW a \in Agents, seen[a].object = "link"
               PROVE  /\ RepairOffered(a) => Standing(a) \in {"proven", "root"}
                      /\ ~RepairOffered(a) => RepairPlan(a).targets[a] = "blocked"
                      /\ WrongTarget(a) => RepairPlan(a).targets[a] # "installed"
    BY DEF Inv, OffersMatchPlans
  <1>1. /\ a \in selected /\ IsLink(a)
        /\ seen[a].health = "unreachable" <=> content[slot[a]] = "sealed"
        /\ seen[a].health = "healthy" => seen[a].provenance = slot[a] /\ Canonical(slot[a]) = slot[a]
    BY LinkIsSeen
  <1>2. ASSUME RepairOffered(a) PROVE Standing(a) \in {"proven", "root"}
    BY <1>1, <1>2 DEF RepairOffered, Standing, Receipted
  <1>3. ASSUME Standing(a) = "proven" PROVE RepairOffered(a)
    <2>1. /\ content[slot[a]] # "sealed" /\ Receipted(a)
          /\ ~RegistryIncomplete(SourceOf[slot[a]])
          /\ Cardinality(Narrow(ReadableVariants, a)) = 1
      BY <1>3 DEF Standing
    <2>2. metadata
      <3>1. \E v \in ReadableVariants : TRUE
        BY <1>3, ProvenMeans
      <3> QED
        BY <3>1 DEF ReadableVariants, Offered
    <2> QED
      BY <1>1, <2>1, <2>2 DEF RepairOffered, Receipted
  <1>4. ASSUME Standing(a) # "proven" PROVE RepairPlan(a).targets[a] = "blocked"
    <2>1. RepairPlan(a) = Plan("repair", None, Blocked(a), NoOutlook, FALSE, NoStanding)
      BY <1>4 DEF RepairPlan
    <2>2. RepairPlan(a).targets = Blocked(a)
      BY <2>1 DEF Plan
    <2> QED
      BY <2>2 DEF Blocked
  <1>5. ASSUME WrongTarget(a), Standing(a) = "proven"
        PROVE  RepairPlan(a).targets[a] # "installed"
    <2> DEFINE v == CHOOSE w \in Narrow(ReadableVariants, a) : TRUE
               after == Predicted(RepairProbe, RepairContents, v, {a}, {})
               now == Predicted(RepairProbe, RepairContents, v, {}, {})
               sight(b) == IF RepairContent(b) \in {"nowhere", "unknown"} THEN {} ELSE {RepairContent(b)}
               before == UNION {sight(b) : b \in Agents}
               kept == {v} \cup UNION {sight(b) : b \in Agents \ {a}}
               replaces == ~(Leads(a) /\ Canonical(slot[a]) = v)
               stands == a = "opencode" /\ replaces /\ after.kind = "conflict"
               allowed == now.kind = "conflict" /\ kept \subseteq before
               target == CASE ~replaces -> "installed"
                           [] stands /\ ~allowed -> "blocked"
                           [] OTHER -> "replace"
    <2>1. \E outlook, said, standing :
            RepairPlan(a) = Plan("repair", v, [Blocked(a) EXCEPT ![a] = target], outlook, said, standing)
      BY <1>5 DEF RepairPlan
    <2>2. RepairPlan(a).targets = [Blocked(a) EXCEPT ![a] = target]
      BY <2>1 DEF Plan
    <2>3. RepairPlan(a).targets[a] = target
      BY <2>2 DEF Blocked
    <2>4. Canonical(slot[a]) # v
      <3>1. PICK w : Narrow(ReadableVariants, a) = {w}
        BY <1>5, ProvenMeans
      <3>2. v = w
        BY <3>1
      <3>3. Narrow(ReadableVariants, a) # {slot[a]} /\ Canonical(slot[a]) = slot[a]
        BY <1>1, <1>5 DEF WrongTarget
      <3> QED
        BY <3>1, <3>2, <3>3
    <2>5. replaces
      BY <2>4
    <2> HIDE DEF replaces, stands, allowed
    <2>6. target # "installed"
      BY <2>5
    <2> QED
      BY <2>3, <2>6
  <1> QED
    BY <1>2, <1>3, <1>4, <1>5

-----------------------------------------------------------------------------
(* What was planned, held against what is found *)

\* A plan that was carried out and that nobody interfered with.
LEMMA CarriedOut ==
  ASSUME Inv, Undisturbed
  PROVE  /\ Quiet /\ Written = Working(plan.targets) /\ Written # {}
         /\ plan.op \in Operations
         /\ plan.op # "uninstall" => plan.variant \in ReadableVariants
         /\ \A a \in Written : /\ a \in Agents /\ a \in selected
                               /\ root[a] \in {"present", "unlistable"}
                               /\ Entry(a) = slot[a]
                               /\ slot[a] = IF plan.op = "uninstall" THEN "absent" ELSE plan.variant
  <1>1. Quiet /\ stage = "done" /\ Executable(plan)
    BY DEF Undisturbed, Quiet
  <1>2. plan.op \in Operations /\ (plan.op # "uninstall" => plan.variant \in ReadableVariants)
    BY <1>1 DEF Inv, PlanInv, PlanTypes, ContentStands
  <1>3. ASSUME NEW a \in Working(plan.targets)
        PROVE  /\ steps[a] = "done" /\ a \in Agents /\ a \in selected
               /\ root[a] \in {"present", "unlistable"}
               /\ slot[a] = IF plan.op = "uninstall" THEN "absent" ELSE plan.variant
    <2>1. TargetStands(a) /\ a \in Agents
      BY <1>1 DEF Inv, PlanInv, TargetsStand, Working
    <2>2. steps[a] = "done"
      BY <1>1, <2>1 DEF TargetStands
    <2> QED
      BY <1>2, <2>1, <2>2 DEF TargetStands, Operations
  <1>4. Written = Working(plan.targets)
    <2>1. \A a \in Agents \ Working(plan.targets) : steps[a] # "done"
      BY DEF Inv, PlanInv, Attempts
    <2> QED
      BY <1>3, <2>1 DEF Written, Working
  <1>5. Written # {}
    BY <1>1, <1>4 DEF Executable
  <1>6. \A a \in Written : Entry(a) = slot[a]
    BY <1>3, <1>4 DEF Entry
  <1> QED
    BY <1>1, <1>2, <1>3, <1>4, <1>5, <1>6

\* Each written link is found as planned, wherever its root could be read.
LEMMA WrittenIsFound ==
  ASSUME Inv, Undisturbed, NEW a \in Written
  PROVE  /\ LinkVerdict(a) = IF Unscanned(a) THEN "withheld" ELSE "held"
         /\ ~Unscanned(a) /\ plan.op # "uninstall" =>
              seen[a].provenance = plan.variant /\ seen[a] # NotSeen
  <1>0. ScanInv /\ stage = "done" /\ ~swapped
    BY DEF Inv, Undisturbed
  <1>1. /\ a \in Agents /\ a \in selected /\ root[a] \in {"present", "unlistable"}
        /\ Entry(a) = slot[a]
        /\ slot[a] = IF plan.op = "uninstall" THEN "absent" ELSE plan.variant
        /\ plan.op # "uninstall" => plan.variant \in ReadableVariants
    BY CarriedOut
  <1>2. CASE Unscanned(a)
    BY <1>2 DEF LinkVerdict
  <1>3. CASE ~Unscanned(a) /\ plan.op = "uninstall"
    <2>1. status[a] \in {"scanned", "missing"}
      BY <1>3 DEF Unscanned
    <2>2. seen[a] = NotSeen
      <3>1. CASE status[a] = "scanned"
        BY <1>0, <1>1, <1>3, <3>1, Observed
      <3>2. CASE status[a] = "missing"
        BY <1>0, <1>1, <3>2, Observed
      <3> QED
        BY <2>1, <3>1, <3>2
    <2> QED
      BY <1>3, <2>2 DEF LinkVerdict
  <1>4. CASE ~Unscanned(a) /\ plan.op # "uninstall"
    <2> DEFINE v == plan.variant
    <2>1. /\ v \in Variants /\ v \in Offered /\ content[v] = "valid" /\ slot[a] = v
      BY <1>1, <1>4, ReadableFinite DEF ReadableVariants
    <2>2. v \in Places /\ v \notin Plain /\ v # a /\ v # None
      BY <1>1, <2>1, AgentNames, VariantsAssumption
    <2>3. status[a] = "scanned"
      <3>1. status[a] = "missing" => Entry(a) = "absent"
        BY <1>0, <1>1, Observed
      <3> QED
        BY <1>1, <1>4, <2>1, <2>2, <3>1 DEF Unscanned, Plain
    <2>4. v \in index /\ Canonical(v) = v
      BY <1>0, <2>1 DEF ScanInv, Indexed, BeforePass, Canonical
    <2>5. Resolved(a) = v /\ Provenance(Resolved(a)) = v
      BY <2>1, <2>2, <2>4 DEF Resolved, Provenance
    <2>6. /\ seen[a].provenance = v /\ seen[a].validated = v
      BY <1>0, <1>1, <2>1, <2>2, <2>3, <2>4, <2>5, LoadableIsSeen DEF Loadable
    <2>7. seen[a].object = "link"
      <3>1. seen[a].object = IF slot[a] = a THEN "directory" ELSE "link"
        BY <1>0, <1>1, <2>1, <2>2, <2>3, Observed
      <3> QED
        BY <2>1, <2>2, <3>1
    <2>8. seen[a].health = "healthy"
      <3>1. slot[a] \in Places /\ content[slot[a]] \in Loadable /\ Resolved(a) # None
        BY <2>1, <2>2, <2>5 DEF Loadable
      <3> QED
        BY <1>0, <1>1, <2>3, <3>1, Observed
    <2>9. seen[a] # NotSeen
      BY <2>7 DEF NotSeen, Observation
    <2>10. v # "unverified"
      BY <2>1, VariantsAssumption
    <2> QED
      BY <1>4, <2>2, <2>6, <2>7, <2>8, <2>9, <2>10 DEF LinkVerdict
  <1> QED
    BY <1>2, <1>3, <1>4

\* What was foreseen, where it could be, is what OpenCode would load
LEMMA ForeseenIsLoad ==
  ASSUME Inv, Undisturbed, NEW a \in Agents, Foreseen(plan, a) \notin {"unread", "unknown"}
  PROVE  Loads(a, {}) = IF Foreseen(plan, a) = "nowhere" THEN {} ELSE {Foreseen(plan, a)}
  <1>1. CASE a \in Working(plan.targets)
    <2>1. /\ Entry(a) = slot[a]
          /\ slot[a] = IF plan.op = "uninstall" THEN "absent" ELSE plan.variant
          /\ plan.op # "uninstall" => plan.variant \in ReadableVariants
      BY <1>1, CarriedOut
    <2>2. CASE plan.op = "uninstall"
      BY <1>1, <2>1, <2>2, ForeseenIs DEF Loads
    <2>3. CASE plan.op # "uninstall"
      <3>1. plan.variant \in Variants /\ content[plan.variant] = "valid"
        BY <2>1, <2>3, ReadableFinite DEF ReadableVariants
      <3>2. plan.variant \notin Plain /\ plan.variant # "nowhere"
        BY <3>1, VariantsAssumption
      <3>3. Loads(a, {}) = {plan.variant}
        BY <2>1, <2>3, <3>1, <3>2 DEF Loads, Canonical, Plain
      <3> QED
        BY <1>1, <2>3, <3>2, <3>3, ForeseenIs
    <2> QED
      BY <2>2, <2>3
  <1>2. CASE a \notin Working(plan.targets)
    <2>1. Foreseen(plan, a) = Current(plan, a)
      BY <1>2, ForeseenIs
    <2>2. PICK p : p = plan
      OBVIOUS
    <2>3. Current(p, a) = Foreseen(plan, a)
      BY <2>1, <2>2
    <2> QED
      BY <2>3, CurrentIsLoad DEF Inv
  <1> QED
    BY <1>1, <1>2

\* and what the pass that follows finds.
LEMMA ForeseenIsFound ==
  ASSUME Inv, Undisturbed, Known(Prospect(plan)), Known(Sightings)
  PROVE  Prospect(plan) = Sightings
  <1> SUFFICES ASSUME NEW a \in Agents PROVE Foreseen(plan, a) = Sighting(a)
    BY DEF Prospect, Sightings
  <1>1. Loads(a, {}) = IF Foreseen(plan, a) = "nowhere" THEN {} ELSE {Foreseen(plan, a)}
    BY ForeseenIsLoad DEF Known, Prospect
  <1>2. Sighting(a) \notin {"unread", "unknown"}
    BY DEF Known, Sightings
  <1>3. Loads(a, {}) = IF Sighting(a) = "nowhere" THEN {} ELSE {Sighting(a)}
    BY <1>2, SightingIsLoad DEF Inv, Undisturbed
  <1> QED
    BY <1>1, <1>3

\* Carried out undisturbed, a plan leaves opencode with what it foresaw.
LEMMA ForeseenIsLoaded ==
  ASSUME Inv, Undisturbed, Known(Prospect(plan))
  PROVE  Loaded({}) = DirectoriesOf(Prospect(plan))
  <1>1. \A a \in Agents :
          Loads(a, {}) = IF Foreseen(plan, a) = "nowhere" THEN {} ELSE {Foreseen(plan, a)}
    BY ForeseenIsLoad DEF Known, Prospect
  <1> QED
    BY <1>1 DEF Loaded, DirectoriesOf, Prospect

\* A plan that installs foresees its variant.
LEMMA VariantIsForeseen ==
  ASSUME Inv, Undisturbed, plan.op # "uninstall"
  PROVE  plan.variant \in DirectoriesOf(Prospect(plan))
  <1>1. PICK a \in Agents : a \in Working(plan.targets)
    BY CarriedOut
  <1>2. Foreseen(plan, a) = plan.variant
    BY <1>1, ForeseenIs
  <1>3. plan.variant # "nowhere"
    BY CarriedOut, ReadableFinite, VariantsAssumption
  <1> QED
    BY <1>2, <1>3 DEF DirectoriesOf, Prospect

\* The outlook a plan states is the forecast for the roots as they will be.
LEMMA StatedOutlook ==
  ASSUME Inv, Undisturbed, "opencode" \in selected, plan.outlook.kind # "unknown"
  PROVE  /\ plan.outlook = IF plan.op = "uninstall" THEN Reduced(Foresight(plan))
                           ELSE Outlook(Foresight(plan))
         /\ Foresight(plan).kind # "incomplete" /\ Known(Prospect(plan))
         /\ StandingFits(plan) /\ SaidFits(plan)
  <1>1. OutlookFits(plan) /\ StandingFits(plan) /\ SaidFits(plan)
    BY CarriedOut DEF Inv, PlanInv, Stated
  <1>2. plan.outlook = IF plan.op = "uninstall" THEN Reduced(Foresight(plan))
                       ELSE Outlook(Foresight(plan))
    BY <1>1 DEF OutlookFits
  <1>3. Foresight(plan).kind # "incomplete"
    BY <1>2 DEF Reduced, Outlook
  <1>4. PICK p : p = plan
    OBVIOUS
  <1>5. Known(Prospect(plan))
    BY <1>3, <1>4, ForesightMeans
  <1> QED
    BY <1>1, <1>2, <1>3, <1>5

\* What the plan foresaw, in the terms in which it was stated.
LEMMA PlanForesight ==
  ASSUME Foresight(plan).kind # "incomplete"
  PROVE  /\ Known(Prospect(plan))
         /\ Foresight(plan).kind = "conflict" <=> Cardinality(DirectoriesOf(Prospect(plan))) > 1
         /\ Foresight(plan).kind \in {"foreign", "incompatible"}
              <=> /\ plan.variant \in Variants /\ ~UsableBy(plan.variant, "opencode")
                  /\ DirectoriesOf(Prospect(plan)) = {plan.variant}
         /\ Foresight(plan).kind \in {"nothing", "conflict", "foreign", "incompatible", "selected"}
         /\ Foresight(plan).kind = "nothing" <=> DirectoriesOf(Prospect(plan)) = {}
         /\ DirectoriesOf(Prospect(plan)) # {} => First(Foresight(plan).winner, Prospect(plan))
  <1>1. PICK p : p = plan
    OBVIOUS
  <1> QED
    BY <1>1, ForesightMeans

\* A plan that changes what opencode loads says so.
LEMMA ChangesAreSaid == Inv => OpenCodeChangesAreSaid
  <1> SUFFICES ASSUME Inv, Undisturbed, "opencode" \in selected, plan.outlook.kind # "unknown"
               PROVE  /\ Cardinality(Loaded({})) > 1 =>
                           IF "opencode" \in Written /\ plan.op # "uninstall"
                           THEN plan.op = "repair" /\ Loaded({}) \subseteq plan.loaded /\ plan.said
                           ELSE plan.said \/ Cardinality(plan.loaded) > 1
                      /\ \A v \in Variants :
                           (Loaded({}) = {v} /\ plan.loaded # {v} /\ ~UsableBy(v, "opencode"))
                             => plan.said
    BY DEF OpenCodeChangesAreSaid
  <1> DEFINE dirs == DirectoriesOf(Prospect(plan))
  <1>1. /\ Foresight(plan).kind # "incomplete" /\ Known(Prospect(plan)) /\ SaidFits(plan)
    BY StatedOutlook
  <1>2. Loaded({}) = dirs
    BY <1>1, ForeseenIsLoaded
  <1>3. Written = Working(plan.targets) /\ plan.op \in Operations
    BY CarriedOut
  <1>4. ASSUME Cardinality(Loaded({})) > 1
        PROVE  IF "opencode" \in Written /\ plan.op # "uninstall"
               THEN plan.op = "repair" /\ Loaded({}) \subseteq plan.loaded /\ plan.said
               ELSE plan.said \/ Cardinality(plan.loaded) > 1
    <2>1. Foresight(plan).kind = "conflict"
      BY <1>1, <1>2, <1>4, PlanForesight
    <2> QED
      BY <1>1, <1>2, <1>3, <2>1 DEF SaidFits, Operations
  <1>5. ASSUME NEW v \in Variants, Loaded({}) = {v}, plan.loaded # {v}, ~UsableBy(v, "opencode")
        PROVE  plan.said
    <2>1. CASE plan.op # "uninstall"
      <3>1. plan.variant = v
        BY <1>2, <1>5, <2>1, VariantIsForeseen
      <3>2. Foresight(plan).kind \in {"foreign", "incompatible"}
        BY <1>1, <1>2, <1>5, <3>1, PlanForesight
      <3> QED
        BY <1>1, <1>5, <3>1, <3>2 DEF SaidFits
    <2>2. CASE plan.op = "uninstall" /\ Foresight(plan).kind \in {"foreign", "incompatible"}
      <3>1. DirectoriesOf(Prospect(plan)) = {plan.variant}
        BY <1>1, <2>2, PlanForesight
      <3>2. plan.variant = v
        BY <1>2, <1>5, <3>1
      <3> QED
        BY <1>1, <1>5, <2>2, <3>2 DEF SaidFits
    <2>3. CASE plan.op = "uninstall" /\ Foresight(plan).kind \notin {"foreign", "incompatible"}
      <3>1. Foresight(plan).kind = "selected"
        <4>1. ~(Cardinality(dirs) > 1)
          <5>1. IsFiniteSet(dirs) /\ \A x, y \in dirs : x = y
            BY <1>2, <1>5, DirectoriesFinite
          <5> QED
            BY <5>1, Few
        <4>2. dirs # {}
          BY <1>2, <1>5
        <4> QED
          BY <1>1, <2>3, <4>1, <4>2, PlanForesight
      <3> QED
        BY <1>1, <1>2, <1>5, <2>3, <3>1 DEF SaidFits
    <2> QED
      BY <2>1, <2>2, <2>3
  <1> QED
    BY <1>4, <1>5

\* Where there is nothing to load, nothing wins.
LEMMA NothingWins ==
  ASSUME NEW s, NEW kinds, ResolveOpenCode(s, kinds).kind = "nothing"
  PROVE  ResolveOpenCode(s, kinds).winner = None
  BY DEF ResolveOpenCode

\* An answer in the terms of an outlook: what it says, and who wins unless in conflict.
LEMMA SameOutlook ==
  ASSUME NEW r, NEW s, r.kind \notin {"incomplete", "unasked"}, s.kind \notin {"incomplete", "unasked"},
         r.kind \in {"nothing", "conflict", "foreign", "incompatible", "selected"},
         s.kind \in {"nothing", "conflict", "foreign", "incompatible", "selected"},
         r.kind = "nothing" <=> s.kind = "nothing", r.kind = "conflict" <=> s.kind = "conflict",
         r.kind # "conflict" => r.winner = s.winner
  PROVE  /\ Reduced(r) = Reduced(s)
         /\ (r.kind \in {"foreign", "incompatible"} <=> s.kind \in {"foreign", "incompatible"})
              => Outlook(r) = Outlook(s)
  BY DEF Reduced, Outlook

\* Where both are known, what was predicted and what is found are the same to OpenCode.
LEMMA AnswersAgree ==
  ASSUME Inv, Undisturbed, "opencode" \in selected, plan.outlook.kind # "unknown",
         Resolution.kind # "incomplete"
  PROVE  /\ Prospect(plan) = Sightings /\ Known(Sightings)
         /\ IF plan.op = "uninstall" THEN plan.outlook = Reduced(Resolution)
            ELSE plan.outlook = Outlook(Resolution)
  <1>0. ScanInv /\ stage = "done" /\ ~swapped
    BY DEF Inv, Undisturbed
  <1> DEFINE s == Sightings
             kinds == [a \in Agents |-> seen[a].provenance]
             dirs == DirectoriesOf(s)
             v == plan.variant
             foreign == \A a \in Agents : s[a] # "nowhere" => Foreign(kinds[a])
             excluded == \A a \in Agents : s[a] # "nowhere" => Excluded(kinds[a])
  <1>1. Resolution = ResolveOpenCode(s, kinds) /\ Resolution.kind # "unasked"
    <2>1. Resolution = ResolveOpenCode(s, kinds)
      BY DEF Resolution, Sightings
    <2>2. ResolveOpenCode(s, kinds).kind # "unasked"
      BY DEF ResolveOpenCode
    <2> QED
      BY <2>1, <2>2
  <1>2. Known(s)
    BY <1>1, IncompleteMeans
  <1>3. /\ Foresight(plan).kind # "incomplete" /\ Known(Prospect(plan))
        /\ plan.outlook = IF plan.op = "uninstall" THEN Reduced(Foresight(plan))
                          ELSE Outlook(Foresight(plan))
    BY StatedOutlook
  <1>4. Prospect(plan) = s
    BY <1>2, <1>3, ForeseenIsFound
  <1>5. /\ Resolution.kind = IF dirs = {} THEN "nothing"
                             ELSE IF Cardinality(dirs) > 1 THEN "conflict"
                             ELSE IF foreign THEN "foreign"
                             ELSE IF excluded THEN "incompatible"
                             ELSE "selected"
        /\ dirs # {} => First(Resolution.winner, s)
    BY <1>1, <1>2, AnswerMeans
  <1>6. /\ Foresight(plan).kind = "conflict" <=> Cardinality(dirs) > 1
        /\ Foresight(plan).kind \in {"foreign", "incompatible"}
             <=> v \in Variants /\ ~UsableBy(v, "opencode") /\ dirs = {v}
        /\ Foresight(plan).kind \in {"nothing", "conflict", "foreign", "incompatible", "selected"}
        /\ Foresight(plan).kind = "nothing" <=> dirs = {}
        /\ dirs # {} => First(Foresight(plan).winner, s)
    BY <1>3, <1>4, PlanForesight
  <1>7. ASSUME plan.op # "uninstall"
        PROVE  Foresight(plan).kind \in {"foreign", "incompatible"}
                 <=> Resolution.kind \in {"foreign", "incompatible"}
    <2>1. v \in dirs
      BY <1>4, <1>7, VariantIsForeseen
    <2>2. v \in Variants /\ v \in Offered /\ content[v] = "valid"
      BY <1>7, CarriedOut, ReadableFinite DEF ReadableVariants
    <2>3. CASE Cardinality(dirs) > 1
      <3>1. Resolution.kind = "conflict" /\ Foresight(plan).kind = "conflict"
        BY <1>5, <1>6, <2>1, <2>3
      <3> QED
        BY <3>1
    <2>4. CASE ~(Cardinality(dirs) > 1)
      <3>1. dirs = {v}
        <4>1. \A x, y \in dirs : x = y
          BY <2>4, DirectoriesFinite, Few
        <4> QED
          BY <2>1, <4>1
      <3>2. ASSUME NEW a \in Agents, s[a] # "nowhere" PROVE kinds[a] = v
        <4>1. Sighting(a) = v
          BY <3>1, <3>2 DEF DirectoriesOf, Sightings
        <4>2. v \notin {"nowhere", "unread", "unknown"}
          BY <2>2, VariantsAssumption
        <4>3. /\ slot[a] \in Places /\ Canonical(slot[a]) = v
              /\ seen[a].provenance = Provenance(Resolved(a))
          BY <1>0, <4>1, <4>2, OfferIsPlace
        <4>4. slot[a] = v
          BY <2>2, <4>3, VariantsAssumption DEF Canonical
        <4>5. v \in index
          BY <1>0, <2>2 DEF ScanInv, Indexed, BeforePass
        <4>6. Provenance(Resolved(a)) = v
          BY <1>0, <4>3, <4>4, <4>5, ResolvedMeans DEF BeforePass
        <4> QED
          BY <4>3, <4>6
      <3>3. \E a \in Agents : s[a] # "nowhere"
        BY <2>1 DEF DirectoriesOf
      <3>4. foreign <=> Foreign(v)
        BY <3>2, <3>3
      <3>5. excluded <=> Excluded(v)
        BY <3>2, <3>3
      <3>6. ~UsableBy(v, "opencode") <=> Foreign(v) \/ Excluded(v)
        BY <2>2 DEF Foreign, Excluded, UsableBy, ForeignTo
      <3> HIDE DEF foreign, excluded, dirs, s, kinds, v
      <3> QED
        BY <1>5, <1>6, <2>2, <2>4, <3>1, <3>4, <3>5, <3>6
    <2> QED
      BY <2>3, <2>4
  <1>8. Cardinality({}) = 0 /\ ~(0 > 1)
    BY FS_EmptySet
  <1> HIDE DEF foreign, excluded, dirs, s, kinds, v
  <1>9. /\ Resolution.kind \in {"nothing", "conflict", "foreign", "incompatible", "selected"}
        /\ Resolution.kind = "nothing" <=> dirs = {}
        /\ Resolution.kind = "conflict" <=> Cardinality(dirs) > 1
    BY <1>5, <1>8
  <1>10. Foresight(plan).winner = Resolution.winner
    <2>1. CASE dirs = {}
      <3>1. Resolution.kind = "nothing" /\ Foresight(plan).kind = "nothing"
        BY <1>6, <1>9, <2>1
      <3>2. Resolution.winner = None
        BY <1>1, <3>1, NothingWins
      <3>3. Foresight(plan).winner = None
        BY <3>1, NothingWins DEF Foresight
      <3> QED
        BY <3>2, <3>3
    <2>2. CASE dirs # {}
      BY <1>5, <1>6, <2>2, FirstIsOne
    <2> QED
      BY <2>1, <2>2
  <1>11. PICK r, t : r = Foresight(plan) /\ t = Resolution
    OBVIOUS
  <1>12. /\ r.kind \notin {"incomplete", "unasked"} /\ t.kind \notin {"incomplete", "unasked"}
         /\ r.kind \in {"nothing", "conflict", "foreign", "incompatible", "selected"}
         /\ t.kind \in {"nothing", "conflict", "foreign", "incompatible", "selected"}
         /\ r.kind = "nothing" <=> t.kind = "nothing"
         /\ r.kind = "conflict" <=> t.kind = "conflict"
         /\ r.winner = t.winner
    BY <1>6, <1>9, <1>10, <1>11
  <1>13. /\ Reduced(r) = Reduced(t)
         /\ (r.kind \in {"foreign", "incompatible"} <=> t.kind \in {"foreign", "incompatible"})
              => Outlook(r) = Outlook(t)
    BY <1>12, SameOutlook
  <1> QED
    BY <1>2, <1>3, <1>4, <1>7, <1>11, <1>13 DEF s

\* After an undisturbed installation no forecast failed.
LEMMA InstallVerdicts ==
  ASSUME Inv, Undisturbed, plan.op = "install", plan.outlook.kind # "unknown"
  PROVE  "failed" \notin InstallOutlookVerdicts
  <1>0. ScanInv /\ stage = "done" /\ ~swapped
    BY DEF Inv, Undisturbed
  <1> DEFINE native == "opencode" \in Written /\ LinkVerdict("opencode") = "held"
             selects == Resolution.kind = "selected" /\ Resolution.winner = "opencode"
  <1>1. InstallOutlookVerdicts =
          IF ~HasRow \/ Resolution.kind = "unasked" THEN {}
          ELSE IF native /\ selects THEN {"held"}
          ELSE IF native /\ Resolution.kind = "incomplete" THEN {"withheld"}
          ELSE IF native THEN {"failed"}
          ELSE IF plan.outlook = NoOutlook THEN {}
          ELSE {HeldTo(plan.outlook, Outlook(Resolution))}
    BY DEF InstallOutlookVerdicts
  <1>2. Resolution.kind # "unasked" => "opencode" \in selected
    BY DEF Resolution
  <1>3. ASSUME "opencode" \in selected
        PROVE  HeldTo(plan.outlook, Outlook(Resolution)) # "failed"
    <2>1. CASE Resolution.kind = "incomplete"
      BY <2>1 DEF HeldTo, Outlook
    <2>2. CASE Resolution.kind # "incomplete"
      <3>1. plan.outlook = Outlook(Resolution)
        BY <1>0, <1>3, <2>2, AnswersAgree
      <3> QED
        BY <3>1 DEF HeldTo
    <2> QED
      BY <2>1, <2>2
  <1>4. ASSUME native, Resolution.kind \notin {"unasked", "incomplete"} PROVE selects
    <2>0. "opencode" \in selected /\ "opencode" \in Working(plan.targets)
      BY <1>2, <1>4, CarriedOut
    <2>1. plan.outlook = Outlook(Resolution) /\ Prospect(plan) = Sightings /\ Known(Sightings)
      BY <1>4, <2>0, AnswersAgree
    <2>2. /\ Foresight(plan).kind # "incomplete" /\ SaidFits(plan)
          /\ plan.outlook = Outlook(Foresight(plan))
      BY <2>0, StatedOutlook
    <2>3. Foresight(plan).kind # "conflict"
      BY <2>0, <2>2 DEF SaidFits
    <2>4. Prospect(plan)["opencode"] = plan.variant
      BY <2>0, AgentNames, ForeseenIs DEF Prospect
    <2>5. plan.variant \in DirectoriesOf(Prospect(plan)) /\ plan.variant # "nowhere"
      BY VariantIsForeseen DEF DirectoriesOf
    <2>6. UsableBy(plan.variant, "opencode")
      BY <2>0, CarriedOut DEF Inv, PlanInv, TargetsStand, TargetStands
    <2>7. Foresight(plan).kind = "selected"
      BY <2>2, <2>3, <2>5, <2>6, PlanForesight
    <2>8. First(Foresight(plan).winner, Prospect(plan))
      BY <2>2, <2>5, PlanForesight
    <2>9. Foresight(plan).winner = "opencode"
      BY <2>4, <2>5, <2>8 DEF First, Agents
    <2>10. Outlook(Resolution) = [kind |-> "selected", winner |-> "opencode"]
      BY <2>1, <2>2, <2>7, <2>9 DEF Outlook
    <2>11. Outlook(Resolution).kind = "selected" /\ Outlook(Resolution).winner = "opencode"
      BY <2>10
    <2>12. Resolution.kind = "selected" /\ Resolution.winner = "opencode"
      BY <2>11 DEF Outlook
    <2> QED
      BY <2>12
  <1> HIDE DEF native, selects
  <1> QED
    BY <1>1, <1>2, <1>3, <1>4

\* After an undisturbed repair no forecast failed.
LEMMA RepairVerdicts ==
  ASSUME Inv, Undisturbed, plan.op = "repair", plan.outlook.kind # "unknown"
  PROVE  "failed" \notin RepairOutlookVerdicts
  <1> DEFINE told == IF HasRow THEN Resolution ELSE [kind |-> "unasked", winner |-> None]
  <1>1. RepairOutlookVerdicts =
          IF \E a \in Written : LinkVerdict(a) # "held" THEN {}
          ELSE IF told.kind = "unasked" THEN {"withheld"}
          ELSE IF /\ plan.standing # NoStanding /\ told.kind = "conflict"
                  /\ plan.standing # [a \in Agents |-> Sighting(a)]
          THEN {"failed"}
          ELSE {HeldTo(plan.outlook, Outlook(told))}
    BY DEF RepairOutlookVerdicts
  <1>2. CASE told.kind = "unasked"
    BY <1>1, <1>2
  <1>3. CASE told.kind # "unasked"
    <2>1. told = Resolution /\ "opencode" \in selected
      BY <1>3 DEF Resolution
    <2>2. told.kind = "conflict" => plan.standing = NoStanding \/ plan.standing = [a \in Agents |-> Sighting(a)]
      <3> SUFFICES ASSUME Resolution.kind = "conflict", plan.standing # NoStanding
                   PROVE  plan.standing = Sightings
        BY <2>1 DEF Sightings
      <3>1. Prospect(plan) = Sightings /\ Known(Sightings)
        BY <2>1, AnswersAgree
      <3>2. StandingFits(plan)
        BY <2>1, StatedOutlook
      <3> QED
        BY <3>1, <3>2 DEF StandingFits
    <2>3. HeldTo(plan.outlook, Outlook(told)) # "failed"
      <3>1. CASE Resolution.kind = "incomplete"
        BY <2>1, <3>1 DEF HeldTo, Outlook
      <3>2. CASE Resolution.kind # "incomplete"
        <4>1. plan.outlook = Outlook(Resolution)
          BY <2>1, <3>2, AnswersAgree
        <4> QED
          BY <2>1, <4>1 DEF HeldTo
      <3> QED
        BY <3>1, <3>2
    <2> HIDE DEF told
    <2> QED
      BY <1>1, <2>2, <2>3
  <1> QED
    BY <1>2, <1>3

\* After an undisturbed uninstallation no forecast failed.
LEMMA UninstallVerdicts ==
  ASSUME Inv, Undisturbed, plan.op = "uninstall"
  PROVE  "failed" \notin UninstallOutlookVerdicts
  <1>0. ScanInv /\ stage = "done" /\ ~swapped
    BY DEF Inv, Undisturbed
  <1>1. CASE plan.outlook = NoOutlook \/ plan.outlook.kind = "unknown"
    BY <1>1 DEF UninstallOutlookVerdicts
  <1>2. CASE plan.outlook # NoOutlook /\ plan.outlook.kind # "unknown"
    <2>0. "opencode" \in selected
      BY <1>2, CarriedOut DEF Inv, PlanInv, Stated, OutlookFits
    <2>1. CASE HasRow /\ Resolution.kind = "unasked"
      BY <1>2, <2>1 DEF UninstallOutlookVerdicts
    <2>2. CASE HasRow /\ Resolution.kind # "unasked"
      <3>1. UninstallOutlookVerdicts = {HeldTo(plan.outlook, Reduced(Resolution))}
        BY <1>2, <2>2 DEF UninstallOutlookVerdicts
      <3>2. CASE Resolution.kind = "incomplete"
        BY <3>1, <3>2 DEF HeldTo, Reduced, Outlook
      <3>3. CASE Resolution.kind # "incomplete"
        <4>1. plan.outlook = Reduced(Resolution)
          BY <1>2, <2>0, <3>3, AnswersAgree
        <4> QED
          BY <3>1, <4>1 DEF HeldTo
      <3> QED
        BY <3>2, <3>3
    <2>3. CASE ~HasRow /\ \E a \in Agents : Unscanned(a)
      BY <1>2, <2>3 DEF UninstallOutlookVerdicts
    <2>4. CASE ~HasRow /\ ~\E a \in Agents : Unscanned(a)
      <3>1. UninstallOutlookVerdicts = {IF plan.outlook.kind = "nothing" THEN "held" ELSE "failed"}
        BY <1>2, <2>4 DEF UninstallOutlookVerdicts
      <3>2. NotSeen.object = "absent"
        BY DEF NotSeen, Observation
      <3>3. \A a \in Agents : Sighting(a) = "nowhere"
        BY <2>4, <3>2 DEF HasRow, Unscanned, Sighting, Installation
      <3>4. Known(Sightings) /\ DirectoriesOf(Sightings) = {}
        BY <3>3 DEF Known, Sightings, DirectoriesOf
      <3>5. /\ Foresight(plan).kind # "incomplete" /\ Known(Prospect(plan))
            /\ plan.outlook = Reduced(Foresight(plan))
        BY <1>2, <2>0, StatedOutlook
      <3>6. Prospect(plan) = Sightings
        BY <3>4, <3>5, ForeseenIsFound
      <3>7. Foresight(plan).kind = "nothing"
        BY <3>4, <3>5, <3>6, PlanForesight
      <3>8. plan.outlook.kind = "nothing"
        BY <3>5, <3>7 DEF Reduced, Outlook
      <3> QED
        BY <3>1, <3>8
    <2> QED
      BY <2>1, <2>2, <2>3, <2>4
  <1> QED
    BY <1>1, <1>2

\* What a plan says of opencode holds once it is carried out.
LEMMA PlansHold == Inv => PlansAreTrue
  <1> SUFFICES ASSUME Inv PROVE PlansAreTrue
    OBVIOUS
  <1>1. ASSUME Undisturbed, plan.op = "uninstall" \/ plan.outlook.kind # "unknown"
        PROVE  /\ Written = Working(plan.targets)
               /\ "failed" \notin OutlookVerdicts
               /\ \A a \in Written : LinkVerdict(a) = IF Unscanned(a) THEN "withheld" ELSE "held"
    <2>1. Written = Working(plan.targets) /\ plan.op \in Operations
      BY <1>1, CarriedOut
    <2>2. "failed" \notin OutlookVerdicts
      <3>1. CASE plan.op = "install"
        BY <1>1, <3>1, InstallVerdicts DEF OutlookVerdicts
      <3>2. CASE plan.op = "repair"
        BY <1>1, <3>2, RepairVerdicts DEF OutlookVerdicts
      <3>3. CASE plan.op = "uninstall"
        BY <1>1, <3>3, UninstallVerdicts DEF OutlookVerdicts
      <3> QED
        BY <2>1, <3>1, <3>2, <3>3 DEF Operations
    <2> QED
      BY <1>1, <2>1, <2>2, WrittenIsFound
  <1> QED
    BY <1>1, ChangesAreSaid DEF PlansAreTrue, PlansAreVerified

(* A report of success by verify_install, verify_repair or verify_uninstall   *)
(* is true of the roots, whoever interfered before the rescan.                *)
THEOREM SuccessIsTrueHolds == PlanSpec => []SuccessIsTrue
  BY SuccessHolds, InvHolds, PTL

(* Doctor offers a repair exactly where planning one is not refused for want  *)
(* of proof, and calls no link wrong that a repair would leave as it is.      *)
THEOREM OffersMatchPlansHolds == PlanSpec => []OffersMatchPlans
  BY OffersHold, InvHolds, PTL

(* A plan that nothing interferes with is carried out whole and verified as   *)
(* planned, and a change for OpenCode was stated before it was made.          *)
THEOREM PlansAreTrueHolds == PlanSpec => []PlansAreTrue
  BY PlansHold, InvHolds, PTL

=============================================================================
