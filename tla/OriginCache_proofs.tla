------------------------- MODULE OriginCache_proofs -------------------------
(***************************************************************************)
(* Proofs about OriginCache for any number of processes, Git children,     *)
(* entries and generations.  The inductive invariant has three parts: who  *)
(* holds the locks (Locked), what a check has established by the time it   *)
(* reaches each place (Where), and what is true of the manager whenever no *)
(* check is between the steps of an allocation or a disposal (Settled).    *)
(***************************************************************************)
EXTENDS OriginCache, TLAPS

Exclusive == {"reclaim", "retire", "open", "clear", "unlinkentry", "movemarker",
              "unlinkmarker", "movedirectory", "unlinkdirectory", "movereceipt",
              "unlinkreceipt", "allocate", "mark", "newreceipt", "writereceipt"}
InGate == Exclusive \cup {"lockactivity", "leased", "relock"}

(* A check in its exclusive part holds the gate and is alone on the lease;    *)
(* every Git child at work holds the lease too.                               *)
Locked ==
  /\ \A p \in Procs : pc[p] \in InGate => gate = p /\ root = "owned"
  /\ \A p \in Procs : pc[p] \in Exclusive => activity = {p}
  /\ \A p \in Procs : pc[p] = "lockgate" => root = "owned"
  /\ \A c \in Children : child[c] # None => c \in activity

(* Only one check sets the manager up, and until it has nothing is in it.     *)
Founded ==
  /\ \A p \in Procs : pc[p] = "setup" => root = "bare"
  /\ \A p, q \in Procs : pc[p] = "setup" /\ pc[q] = "setup" => p = q
  /\ root # "owned" => repo = None /\ retired = None /\ disposal = None /\ receipt = None

Emptying == {"open", "clear", "unlinkentry", "movemarker", "unlinkmarker", "movedirectory",
             "unlinkdirectory", "movereceipt", "unlinkreceipt"}
Holding  == {"clear", "unlinkentry", "movemarker", "unlinkmarker", "movedirectory",
             "unlinkdirectory"}
Emptied  == {"unlinkdirectory", "movereceipt", "unlinkreceipt"}
Making   == {"allocate", "mark", "newreceipt", "writereceipt"}

(* What a check knows at each place of reclaim and allocate.                  *)
Where(p) ==
  /\ pc[p] = "retire" => retired = None /\ disposal = None
  /\ pc[p] \in Emptying => repo = None
  /\ pc[p] \in Holding => held[p] \in Gens /\ receipt = held[p]
  /\ pc[p] \in Holding \ {"unlinkdirectory"} => retired \in {held[p], Foreign}
  /\ pc[p] \in Holding \ {"unlinkdirectory"} /\ ~intruded => retired = held[p]
  /\ pc[p] \in {"clear", "unlinkentry", "movemarker"} => held[p] \in marked
  /\ pc[p] = "unlinkdirectory" => disposal \in {held[p], Foreign}
  /\ pc[p] \in Emptied => retired = None
  /\ pc[p] = "movereceipt" => disposal = None /\ receipt \in Gens
  /\ pc[p] = "unlinkreceipt" => receipt = None
  /\ pc[p] \in {"unlinkentry", "unlinkmarker", "unlinkreceipt"} => disposal = Piece
  /\ pc[p] = "movedirectory" => disposal = None
  /\ pc[p] \in Making => retired = None /\ disposal = None
  /\ pc[p] \in Making \ {"writereceipt"} => receipt = None
  /\ pc[p] = "allocate" => repo = None
  /\ pc[p] \in Making \ {"allocate"} => gen \in Gens /\ repo \in {gen, Foreign}
  /\ pc[p] \in Making \ {"allocate"} /\ ~intruded => repo = gen
  /\ pc[p] \in {"newreceipt", "writereceipt"} => gen \in marked

Settled ==
  (\A p \in Procs : pc[p] \notin Unadoptable) /\ ~interrupted /\ ~intruded /\ root # "absent"
    => Reclaimable

NeverTwo == /\ repo \notin Gens \/ retired \notin Gens
            /\ repo \notin Gens \/ disposal \notin Gens
            /\ retired \notin Gens \/ disposal \notin Gens

IInv == /\ TypeOK
        /\ Locked
        /\ Founded
        /\ \A p \in Procs : Where(p)
        /\ Settled
        /\ NeverTwo
        /\ ActiveRepositoryIntact
        /\ ForeignDirectoryKept

(* The values a directory slot or a file can hold are told apart, and neither *)
(* a process nor a generation is one of the markers: NamesApart, unfolded.    *)
LEMMA Names ==
  /\ None # Foreign /\ None # Partial /\ None # Piece
  /\ Foreign # Partial /\ Foreign # Piece /\ Partial # Piece
  /\ None \notin Gens /\ Foreign \notin Gens /\ Partial \notin Gens /\ Piece \notin Gens
  /\ None \notin Procs /\ Procs \cap Children = {}
  BY NamesApart DEF Gens

(* An empty cache root and idle children satisfy the inductive invariant.     *)
LEMMA InitIInv == Init => IInv
<1> SUFFICES ASSUME Init PROVE IInv
  OBVIOUS
<1> USE Names, BoundOnGenerations DEF Init
<1>1. TypeOK
  <2>1. gen \in 0 .. MaxGen
    OBVIOUS
  <2>2. data \in [Gens -> SUBSET Entries]
    OBVIOUS
  <2>3. QED
    BY <2>1, <2>2 DEF TypeOK, Labels, Directories
<1>2. Locked /\ Founded
  BY DEF Locked, InGate, Exclusive, Founded
<1>3. \A p \in Procs : Where(p)
  BY DEF Where, Emptying, Holding, Emptied, Making
<1>4. Settled /\ NeverTwo /\ ActiveRepositoryIntact /\ ForeignDirectoryKept
  BY DEF Settled, NeverTwo, ActiveRepositoryIntact, ForeignDirectoryKept
<1>5. QED
  BY <1>1, <1>2, <1>3, <1>4 DEF IInv

(* Every step of a child, of Git under it, of a crash and of the intruder     *)
(* keeps the inductive invariant.                                             *)
LEMMA StepIInv == IInv /\ [Next]_vars => IInv'
<1> SUFFICES ASSUME IInv, [Next]_vars PROVE IInv'
  OBVIOUS
<1> USE Names, BoundOnGenerations
    DEF IInv, TypeOK, Labels, Directories, Locked, InGate, Exclusive, Founded, Where,
        Emptying, Holding, Emptied, Making, Settled, NeverTwo, ActiveRepositoryIntact,
        ForeignDirectoryKept, Unadoptable, Reclaimable, CheckRoot, Proven, At, Goto,
        manager, locks
<1>1. ASSUME NEW p \in Procs, CreateManager(p) PROVE IInv'
  BY <1>1 DEF CreateManager
<1>2. ASSUME NEW p \in Procs, WriteOwner(p) PROVE IInv'
  BY <1>2 DEF WriteOwner
<1>3. ASSUME NEW p \in Procs, OpenManager(p) PROVE IInv'
  BY <1>3 DEF OpenManager
<1>4. ASSUME NEW p \in Procs, ReadOwner(p) PROVE IInv'
  BY <1>4 DEF ReadOwner
<1>5. ASSUME NEW p \in Procs, LockGate(p) PROVE IInv'
  BY <1>5 DEF LockGate
<1>6. ASSUME NEW p \in Procs, LockActivity(p) PROVE IInv'
  BY <1>6 DEF LockActivity
<1>7. ASSUME NEW p \in Procs, ReclaimNothing(p) PROVE IInv'
  BY <1>7 DEF ReclaimNothing, Reclaimed
<1>8. ASSUME NEW p \in Procs, ReclaimRecorded(p) PROVE IInv'
  BY <1>8 DEF ReclaimRecorded
<1>9. ASSUME NEW p \in Procs, Retire(p) PROVE IInv'
  BY <1>9 DEF Retire
<1>10. ASSUME NEW p \in Procs, OpenRetired(p) PROVE IInv'
  BY <1>10 DEF OpenRetired
<1>11. ASSUME NEW p \in Procs, ClearEntry(p) PROVE IInv'
  BY <1>11 DEF ClearEntry
<1>12. ASSUME NEW p \in Procs, Cleared(p) PROVE IInv'
  BY <1>12 DEF Cleared
<1>13. ASSUME NEW p \in Procs, MoveMarker(p) PROVE IInv'
  BY <1>13 DEF MoveMarker
<1>14. ASSUME NEW p \in Procs, MoveDirectory(p) PROVE IInv'
  BY <1>14 DEF MoveDirectory
<1>15. ASSUME NEW p \in Procs, MoveReceipt(p) PROVE IInv'
  BY <1>15 DEF MoveReceipt
<1>16. ASSUME NEW p \in Procs, UnlinkEntry(p) PROVE IInv'
  BY <1>16 DEF UnlinkEntry, Unlink
<1>17. ASSUME NEW p \in Procs, UnlinkMarker(p) PROVE IInv'
  BY <1>17 DEF UnlinkMarker, Unlink
<1>18. ASSUME NEW p \in Procs, UnlinkDirectory(p) PROVE IInv'
  BY <1>18 DEF UnlinkDirectory, Unlink
<1>19. ASSUME NEW p \in Procs, UnlinkReceipt(p) PROVE IInv'
  BY <1>19 DEF UnlinkReceipt, Reclaimed, Unlink
<1>20. ASSUME NEW p \in Procs, MakeRepository(p) PROVE IInv'
  <2>1. gen' = gen + 1 /\ gen + 1 \in Gens /\ gen + 1 \in 0 .. MaxGen
    BY <1>20 DEF MakeRepository, Gens
  <2>2. TypeOK'
    BY <1>20, <2>1 DEF MakeRepository
  <2>3. (\A q \in Procs : Where(q))'
    <3>1. /\ pc' = [pc EXCEPT ![p] = "mark"] /\ repo' = gen'
          /\ UNCHANGED <<retired, disposal, receipt, held, marked, intruded>>
      BY <1>20, <2>1 DEF MakeRepository
    <3>2. \A q \in Procs \ {p} : pc[q] \notin Exclusive
      BY <1>20 DEF MakeRepository
    <3>3. ASSUME NEW q \in Procs PROVE Where(q)'
      <4>1. CASE q = p
        BY <1>20, <2>1, <3>1, <4>1 DEF MakeRepository
      <4>2. CASE q # p
        BY <3>1, <3>2, <4>2
      <4>3. QED
        BY <4>1, <4>2
    <3>4. QED
      BY <3>3
  <2>4. (Locked /\ Founded /\ Settled)'
    BY <1>20 DEF MakeRepository
  <2>5. (NeverTwo /\ ActiveRepositoryIntact /\ ForeignDirectoryKept)'
    BY <1>20 DEF MakeRepository
  <2>6. QED
    BY <2>2, <2>3, <2>4, <2>5
<1>21. ASSUME NEW p \in Procs, WriteMarker(p) PROVE IInv'
  BY <1>21 DEF WriteMarker
<1>22. ASSUME NEW p \in Procs, NewReceipt(p) PROVE IInv'
  BY <1>22 DEF NewReceipt
<1>23. ASSUME NEW p \in Procs, WriteReceipt(p) PROVE IInv'
  BY <1>23 DEF WriteReceipt
<1>24. ASSUME NEW p \in Procs, StartGit(p) PROVE IInv'
  BY <1>24 DEF StartGit
<1>25. ASSUME NEW p \in Procs, CloseActivity(p) PROVE IInv'
  BY <1>25 DEF CloseActivity
<1>26. ASSUME NEW p \in Procs, RelockActivity(p) PROVE IInv'
  BY <1>26 DEF RelockActivity
<1>27. ASSUME NEW p \in Procs, ReleaseGate(p) PROVE IInv'
  BY <1>27 DEF ReleaseGate
<1>28. ASSUME NEW p \in Procs, ReleaseActivity(p) PROVE IInv'
  BY <1>28 DEF ReleaseActivity
<1>29. ASSUME NEW p \in Procs, Fail(p) PROVE IInv'
  <2>1. TypeOK'
    BY <1>29 DEF Fail, CutShort
  <2>2. Locked'
    BY <1>29 DEF Fail, CutShort
  <2>3. Founded'
    BY <1>29 DEF Fail, CutShort
  <2>4. (\A q \in Procs : Where(q))'
    BY <1>29 DEF Fail, CutShort
  <2>5. Settled'
    BY <1>29 DEF Fail, CutShort
  <2>6. NeverTwo'
    BY <1>29 DEF Fail, CutShort
  <2>7. ActiveRepositoryIntact'
    BY <1>29 DEF Fail, CutShort
  <2>8. ForeignDirectoryKept'
    BY <1>29 DEF Fail, CutShort
  <2>9. QED
    BY <2>1, <2>2, <2>3, <2>4, <2>5, <2>6, <2>7, <2>8
<1>30. ASSUME NEW p \in Procs, Crash(p) PROVE IInv'
  <2>1. TypeOK'
    BY <1>30 DEF Crash, CutShort
  <2>2. Locked'
    BY <1>30 DEF Crash, CutShort
  <2>3. Founded'
    BY <1>30 DEF Crash, CutShort
  <2>4. (\A q \in Procs : Where(q))'
    BY <1>30 DEF Crash, CutShort
  <2>5. Settled'
    BY <1>30 DEF Crash, CutShort
  <2>6. NeverTwo'
    BY <1>30 DEF Crash, CutShort
  <2>7. ActiveRepositoryIntact'
    BY <1>30 DEF Crash, CutShort
  <2>8. ForeignDirectoryKept'
    BY <1>30 DEF Crash, CutShort
  <2>9. QED
    BY <2>1, <2>2, <2>3, <2>4, <2>5, <2>6, <2>7, <2>8
<1>31. ASSUME NEW c \in Children, GitWrites(c) PROVE IInv'
  BY <1>31 DEF GitWrites
<1>32. ASSUME NEW c \in Children, GitExits(c) PROVE IInv'
  BY <1>32 DEF GitExits
<1>33. CASE Intrude
  BY <1>33 DEF Intrude
<1>34. CASE UNCHANGED vars
  BY <1>34 DEF vars
<1>35. QED
  BY <1>1, <1>2, <1>3, <1>4, <1>5, <1>6, <1>7, <1>8, <1>9, <1>10, <1>11, <1>12, <1>13,
       <1>14, <1>15, <1>16, <1>17, <1>18, <1>19, <1>20, <1>21, <1>22, <1>23, <1>24, <1>25,
       <1>26, <1>27, <1>28, <1>29, <1>30, <1>31, <1>32, <1>33, <1>34 DEF Next, Advance

(* The inductive invariant holds in every state of the cache.                 *)
LEMMA Invariance == Spec => []IInv
  BY InitIInv, StepIInv, PTL DEF Spec

(* Types of the manager, its locks and the checks.                            *)
THEOREM TypeCorrect == Spec => []TypeOK
  BY Invariance, PTL DEF IInv

(* The activity lease that every Git child inherits is enough: reclaim never  *)
(* runs under a child that still works in the repository.                     *)
THEOREM NoReclaimUnderGit == Spec => []ActiveRepositoryIntact
  BY Invariance, PTL DEF IInv

(* reclaim before allocate keeps one managed repository, through crashes.     *)
THEOREM OneRepository == Spec => []AtMostOneRepository
<1>1. IInv => AtMostOneRepository
  <2> SUFFICES ASSUME IInv PROVE AtMostOneRepository
    OBVIOUS
  <2> DEFINE at == [repository |-> repo, retired |-> retired, disposal |-> disposal]
  <2>1. DOMAIN at = {"repository", "retired", "disposal"}
    OBVIOUS
  <2>2. at["repository"] = repo /\ at["retired"] = retired /\ at["disposal"] = disposal
    OBVIOUS
  <2>3. ASSUME NEW n1 \in DOMAIN at, NEW n2 \in DOMAIN at, at[n1] \in Gens, at[n2] \in Gens
        PROVE  n1 = n2
    BY <2>1, <2>2, <2>3 DEF IInv, NeverTwo
  <2>4. QED
    BY <2>3 DEF AtMostOneRepository
<1>2. QED
  BY <1>1, Invariance, PTL

(* dispose and the second proof in reclaim preserve a substituted directory.  *)
THEOREM SubstitutesPreserved == Spec => []ForeignDirectoryKept
  BY Invariance, PTL DEF IInv

(* Every crash outside the documented places is recovered from.               *)
THEOREM CrashesRecoverable == Spec => []CrashResidueReclaimable
<1>1. IInv => CrashResidueReclaimable
  BY DEF IInv, Settled, CrashResidueReclaimable, Unadoptable
<1>2. QED
  BY <1>1, Invariance, PTL

(* A finish that reports success has retained nothing.                        *)
THEOREM NothingRetained == Spec => IdleRetainsNothing
<1> DEFINE Reported == \A p \in Procs :
             (ReclaimNothing(p) \/ UnlinkReceipt(p)) /\ finishing[p]
               => repo' = None /\ retired' = None /\ disposal' = None /\ receipt' = None
<1>1. IInv /\ [Next]_vars => [Reported]_vars
  <2> SUFFICES ASSUME IInv, NEW p \in Procs
               PROVE  ReclaimNothing(p) \/ UnlinkReceipt(p)
                        => repo' = None /\ retired' = None /\ disposal' = None /\ receipt' = None
    OBVIOUS
  <2>1. CASE ReclaimNothing(p)
    BY <2>1 DEF ReclaimNothing, CheckRoot, manager
  <2>2. CASE UnlinkReceipt(p)
    <3>1. repo = None /\ retired = None /\ receipt = None
      BY <2>2 DEF IInv, Where, Emptying, Emptied, UnlinkReceipt, Unlink, At
    <3>2. QED
      BY <2>2, <3>1 DEF UnlinkReceipt, Unlink
  <2>3. QED
    BY <2>1, <2>2
<1>2. QED
  BY <1>1, Invariance, PTL DEF Spec, IdleRetainsNothing


=============================================================================
