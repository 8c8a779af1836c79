--------------------- MODULE VendoredReplacement_proofs ---------------------
(***************************************************************************)
(* Proofs about the two halves of a vendored replacement, SkillReplacement *)
(* and OriginTracking, which share no state.                               *)
(*                                                                         *)
(* SkillReplacement: for any two versions, any number of objects of other  *)
(* programs and any interleaving with them.  The inductive invariant IInv  *)
(* says which objects can be where while an operation is between its       *)
(* rename and its proof.                                                   *)
(*                                                                         *)
(* OriginTracking: for any tree, documents, commits, limits and writes of  *)
(* others.  The inductive invariant TInv says, of every path of the skill, *)
(* that the walk has recorded it as it stood, or still awaits it, or that  *)
(* it has been absent since the mark; and, by phase, what the session has  *)
(* kept and what of it has stood.  ShapeInv adds that what is recorded is  *)
(* in the order of the walk with every directory before what it holds, so  *)
(* that a preview's manifest can be compared with the next walk's.         *)
(* VerdictInv says that, while nothing is written, what has stood is what  *)
(* stands and what a walk has open would be found as it was: a look that   *)
(* ends in "changed" has met a deviation from what was saved.              *)
(***************************************************************************)
EXTENDS SkillReplacement, OriginTracking, FiniteSetTheorems, SequenceTheorems, WellFoundedInduction, TLAPS

LEMMA Disjoint ==
  /\ Nothing \notin Objects /\ Folder \notin Objects /\ Folder # Nothing
  /\ Originals \subseteq Objects /\ Candidates \subseteq Objects /\ Strangers \subseteq Objects
  /\ Originals \cap Candidates = {}
  /\ Strangers \cap Originals = {} /\ Strangers \cap Candidates = {}
  BY StrangersHaveTexts DEF Objects, Originals, Candidates, Original, Candidate

LEMMA Operations ==
  \A o \in Ops : /\ o[1] \in {"clear", "folder", "exchange", "add", "remove"} /\ o[2] \in Paths
                 /\ o[1] \in {"clear", "remove"} => Old[o[2]] = "file"
                 /\ o[1] = "folder" => New[o[2]] = "folder"
  BY DEF Ops

LEMMA Making ==
  ASSUME NEW done \in SUBSET Paths, Materialized(done), staged \in [Paths -> Entries]
  PROVE  /\ staged' \in [Paths -> Entries]
         /\ \A p \in Paths : staged'[p] = staged[p] \/ staged'[p] \in Candidates \cup {Nothing, Folder}
  BY Disjoint DEF Materialized, Candidates, Candidate, Entries

-----------------------------------------------------------------------------
(* The staging directory is empty before it is filled, and nothing is at two  *)
(* places before it arrived anywhere.                                         *)
Placed ==
  /\ pc \in {"confirmed", "prepare"} => \A p \in Paths : staged[p] = Nothing
  /\ \A p \in Paths : \A s \in Strangers :
       s \in {dest[p], staged[p], backup[p]} => arrived[s] # "no"

(* Between a rename and its proof the entry it moved is known by the          *)
(* operation, and otherwise by the report.                                    *)
Accounted ==
  pc # "dead" => \A p \in Paths :
    /\ staged[p] \in Public =>
         <<"staged", p>> \in residue \/ (pc = "prove" /\ op[1] = "exchange" /\ op[2] = p)
    /\ backup[p] \in Public =>
         \/ <<"backup", p>> \in residue
         \/ pc \in {"prove", "restore"} /\ op[1] \in {"clear", "remove"} /\ op[2] = p

(* A run that has written nothing has at most an entry of its operation in    *)
(* its hands.                                                                 *)
Publishing == pc = "prove" /\ op[1] \in {"exchange", "add"}
Untouched ==
  pc # "dead" /\ wrote = FALSE /\ ~Publishing => \A p \in Paths :
    /\ dest[p] \notin Candidates /\ (dest[p] = Folder => Old[p] = "folder")
    /\ staged[p] \notin Public
    /\ backup[p] \notin Candidates \cup {Folder}
    /\ backup[p] \in Public =>
         pc \in {"prove", "restore"} /\ op[1] \in {"clear", "remove"} /\ op[2] = p

Progress ==
  /\ pc \in {"confirmed", "prepare", "recheck"} => wrote = FALSE
  /\ pc \in {"walk", "commit", "reread", "rewalk"} => status # "Blocked"
  /\ pc = "done" /\ status = "Blocked" => wrote = FALSE
  /\ failed # {} => pc \in {"rescan", "done", "dead"}

Seen ==
  /\ pc = "walk" => \A p \in Paths : p \in unread \/ AtNew(p) \/ p \in since
  /\ record = "new" \/ status = "Verified" => pc \in {"reread", "rewalk", "done", "dead"}
  /\ pc \in {"commit", "reread", "rewalk"} \/ record = "new" \/ status = "Verified" =>
       \A p \in Paths : AtNew(p) \/ p \in since

IInv == /\ TypeOK /\ Placed /\ Accounted /\ Untouched /\ Progress /\ Seen /\ NothingDestroyed

LEMMA InitIInv == Init => IInv
  <1> USE DEF Init, Entries, Objects
  <1>1. ASSUME Init PROVE TypeOK
    BY <1>1, Disjoint, VersionsAreTrees, StrangersHaveTexts, NoneIsNoOperation
    DEF TypeOK, Originals, Candidates, Statuses, Kinds
  <1>2. ASSUME Init PROVE NothingDestroyed
    BY <1>2, VersionsAreTrees DEF NothingDestroyed, Originals, Arrived, Present
  <1>3. ASSUME Init PROVE Placed
    BY <1>3, Disjoint DEF Placed, Originals
  <1>4. ASSUME Init PROVE Accounted /\ Untouched
    BY <1>4, Disjoint, VersionsAreTrees DEF Accounted, Untouched, Public, Originals, Kinds
  <1>5. ASSUME Init PROVE Progress /\ Seen
    BY <1>5 DEF Progress, Seen
  <1>6. QED BY <1>1, <1>2, <1>3, <1>4, <1>5 DEF IInv

(* What is true after every step that touches neither the directory nor the   *)
(* staging, the strangers, or what the run has seen of the directory.         *)
LEMMA SameDisk ==
  ASSUME IInv, UNCHANGED <<disk, arrived, lost>>
  PROVE  NothingDestroyed' /\ Public' = Public /\ \A p \in Paths : AtNew(p)' = AtNew(p)
  BY DEF IInv, NothingDestroyed, Arrived, Present, Public, AtNew, Content, disk

LEMMA EarlyStep == ASSUME IInv, Begin \/ Recheck PROVE IInv'
  <1>1. NothingDestroyed' /\ Public' = Public /\ \A p \in Paths : AtNew(p)' = AtNew(p)
    BY SameDisk DEF Begin, Recheck, others
  <1>2. TypeOK' /\ Placed' /\ Accounted' /\ Untouched' /\ Progress' /\ Seen'
    BY <1>1 DEF IInv, TypeOK, Placed, Accounted, Untouched, Publishing, Progress, Seen, Begin,
       Recheck, Stop, Statuses, disk, others, report, reading
  <1>3. QED BY <1>1, <1>2 DEF IInv

LEMMA PrepareStep == ASSUME IInv, Prepare PROVE IInv'
  <1> USE DEF IInv
  <1>1. PICK done \in SUBSET Paths : Materialized(done) BY DEF Prepare
  <1>2. /\ staged' \in [Paths -> Entries]
        /\ \A p \in Paths : staged[p] = Nothing
        /\ \A p \in Paths : staged'[p] \in Candidates \cup {Nothing, Folder}
    BY <1>1, Making, Disjoint DEF TypeOK, Placed, Prepare
  <1>3. UNCHANGED <<dest, backup, others, record, op, candidate, report, reading>>
    BY DEF Prepare
  <1>4. /\ pc = "prepare" /\ pc' \in {"recheck", "done"} /\ status' \in {status, "Blocked"}
    BY DEF Prepare, Stop
  <1>5. TypeOK' BY <1>2, <1>3, <1>4 DEF TypeOK, Statuses, others, report, reading
  <1>6. Placed' /\ Accounted' /\ Untouched'
    BY <1>2, <1>3, <1>4, Disjoint DEF Placed, Accounted, Untouched, Publishing, Public, Progress, others, report
  <1>7. Progress' /\ Seen'
    BY <1>3, <1>4 DEF TypeOK, Statuses, Progress, Seen, AtNew, Content, report, reading
  <1>8. NothingDestroyed'
    BY <1>2, <1>3, Disjoint DEF NothingDestroyed, Arrived, Present, others
  <1>9. QED BY <1>5, <1>6, <1>7, <1>8

(* The steps of an operation that leave every entry where it is.              *)
LEMMA ReportStep ==
  ASSUME IInv, Start \/ StartFails \/ WriteFails \/ ProveExchange \/ ProveAdd \/ ProveRemoval
               \/ RestoreFails \/ Finish
  PROVE  IInv'
  <1> USE DEF IInv
  <1>1. NothingDestroyed' /\ Public' = Public /\ \A p \in Paths : AtNew(p)' = AtNew(p)
    BY SameDisk DEF Start, StartFails, WriteFails, ProveExchange, ProveAdd, ProveRemoval,
       RestoreFails, Finish, others
  <1>2. UNCHANGED <<disk, others, record, status, reading>>
    BY DEF Start, StartFails, WriteFails, ProveExchange, ProveAdd, ProveRemoval, RestoreFails, Finish
  <1>3. CASE Start
    BY <1>1, <1>2, <1>3, Operations, NoneIsNoOperation DEF Start, TypeOK, Placed, Accounted, Untouched, Publishing,
       Progress, Seen, disk, others, report, reading
  <1>4. CASE StartFails
    BY <1>1, <1>2, <1>4, Operations, NoneIsNoOperation DEF StartFails, Fail, TypeOK, Placed, Accounted, Untouched, Publishing,
       Progress, Seen, disk, others, report, reading
  <1>5. CASE WriteFails
    BY <1>1, <1>2, <1>5, Operations, NoneIsNoOperation DEF WriteFails, Fail, TypeOK, Placed, Accounted, Untouched, Publishing,
       Progress, Seen, disk, others, report, reading
  <1> DEFINE key(half) == <<half, op[2]>>
  <1>a. op # None => op \in Ops /\ op[2] \in Paths /\ op[1] \in {"clear", "folder", "exchange", "add", "remove"}
    BY Operations DEF TypeOK
  <1>b. op # None => \A half \in {"staged", "backup"} : key(half) \in {"staged", "backup"} \X Paths
    BY <1>a
  <1>6. CASE ProveExchange
    <2>1. /\ pc = "prove" /\ op[1] = "exchange" /\ op # None /\ candidate' = candidate
          /\ wrote' = TRUE /\ op' = None /\ residue' = residue \cup {key("staged")}
          /\ failed' \in {failed, failed \cup {op}} /\ completed' \in {completed, completed \cup {op}}
          /\ pc' \in {"next", "rescan"} /\ (pc' = "next" => failed' = failed)
      BY <1>6, NoneIsNoOperation DEF ProveExchange, Fail, Succeed, TypeOK
    <2>2. TypeOK' BY <1>2, <1>a, <1>b, <2>1 DEF TypeOK, disk, others, reading
    <2>3. Placed' /\ Untouched' /\ Progress' /\ Seen'
      BY <1>1, <1>2, <2>1 DEF Placed, Untouched, Progress, Seen, disk, others, reading
    <2>4. Accounted' BY <1>1, <1>2, <1>a, <2>1 DEF Accounted, disk
    <2>5. QED BY <1>1, <2>2, <2>3, <2>4
  <1>7. CASE ProveAdd
    BY <1>1, <1>2, <1>7, Operations, NoneIsNoOperation DEF ProveAdd, Fail, Succeed, TypeOK, Placed, Accounted, Untouched, Publishing,
       Progress, Seen, disk, others, report, reading
  <1>8. CASE ProveRemoval
    <2>1. /\ pc = "prove" /\ op[1] \in {"clear", "remove"} /\ op # None /\ candidate' = candidate
          /\ \/ /\ wrote' = TRUE /\ op' = None /\ residue' = residue \cup {key("backup")}
                /\ completed' = completed \cup {op} /\ UNCHANGED failed /\ pc' = "next"
             \/ pc' = "restore" /\ UNCHANGED <<op, report>>
      BY <1>8, NoneIsNoOperation DEF ProveRemoval, Succeed, TypeOK
    <2>2. TypeOK' BY <1>2, <1>a, <1>b, <2>1 DEF TypeOK, disk, others, report, reading
    <2>3. Placed' /\ Progress' /\ Seen'
      BY <1>1, <1>2, <2>1 DEF Placed, Progress, Seen, disk, others, report, reading
    <2>4. Accounted' BY <1>1, <1>2, <1>a, <2>1 DEF Accounted, disk, report
    <2>5. Untouched' BY <1>1, <1>2, <1>a, <2>1 DEF Untouched, Publishing, disk, report
    <2>6. QED BY <1>1, <2>2, <2>3, <2>4, <2>5
  <1>9. CASE RestoreFails
    <2>1. /\ pc = "restore" /\ op # None /\ op[1] \in {"clear", "remove"} /\ candidate' = candidate
          /\ wrote' = TRUE /\ op' = None /\ residue' = residue \cup {key("backup")}
          /\ failed' = failed \cup {op} /\ UNCHANGED completed /\ pc' = "rescan"
      BY <1>9 DEF RestoreFails, Fail, TypeOK
    <2>2. TypeOK' BY <1>2, <1>a, <1>b, <2>1 DEF TypeOK, disk, others, reading
    <2>3. Placed' /\ Untouched' /\ Progress' /\ Seen'
      BY <1>1, <1>2, <2>1 DEF Placed, Untouched, Progress, Seen, disk, others, reading
    <2>4. Accounted' BY <1>1, <1>2, <1>a, <2>1 DEF Accounted, disk
    <2>5. QED BY <1>1, <2>2, <2>3, <2>4
  <1>10. CASE Finish
    BY <1>1, <1>2, <1>10 DEF Finish, Goto, TypeOK, Placed, Accounted, Untouched, Publishing,
       Progress, Seen, disk, others, report, reading
  <1>11. QED BY <1>3, <1>4, <1>5, <1>6, <1>7, <1>8, <1>9, <1>10

LEMMA WriteStep == ASSUME IInv, Write PROVE IInv'
  <1> USE DEF IInv
  <1>1. /\ op \in Ops /\ op # None /\ op[2] \in Paths
        /\ op[1] \in {"clear", "remove"} => Old[op[2]] = "file"
    BY Operations, NoneIsNoOperation DEF Write, Goto, TypeOK
  <1>2. pc = "write" /\ pc' = "prove" /\ UNCHANGED <<others, record, op, candidate, report, status, reading>>
    BY DEF Write, Goto
  <1>3. /\ dest \in [Paths -> Entries] /\ staged \in [Paths -> Entries] /\ backup \in [Paths -> Entries]
    BY DEF TypeOK
  <1>4. /\ dest' \in [Paths -> Entries] /\ staged' \in [Paths -> Entries] /\ backup' \in [Paths -> Entries]
    BY <1>1, <1>3 DEF Write, Exchange, Publish, Take, Entries
  <1>5. \A o \in Objects : o \in Present => o \in Present'
    <2>1. CASE op[1] = "exchange" /\ Exchange(op[2])
      BY <1>1, <1>3, <2>1, Disjoint DEF Exchange, Present
    <2>2. CASE op[1] = "add" /\ Publish(op[2])
      BY <1>1, <1>3, <2>2, Disjoint DEF Publish, Present
    <2>3. CASE op[1] \in {"clear", "remove"} /\ Take(op[2])
      BY <1>1, <1>3, <2>3, Disjoint DEF Take, Present
    <2>4. QED BY <2>1, <2>2, <2>3 DEF Write
  <1>6. NothingDestroyed'
    BY <1>2, <1>5, Disjoint DEF NothingDestroyed, Arrived, others
  <1>7. TypeOK' BY <1>1, <1>2, <1>4 DEF TypeOK, others, report, reading
  <1>8. Progress' /\ Seen' BY <1>2 DEF Progress, Seen, report, reading
  <1>9. Placed'
    BY <1>1, <1>2, <1>3 DEF Placed, Write, Exchange, Publish, Take, others
  <1>10. Public' = Public BY <1>2 DEF Public, others
  <1>11. Accounted' /\ Untouched'
    <2>1. CASE op[1] = "exchange" /\ Exchange(op[2])
      BY <1>1, <1>2, <1>3, <1>10, <2>1 DEF Exchange, Accounted, Untouched, Publishing, report
    <2>2. CASE op[1] = "add" /\ Publish(op[2])
      BY <1>1, <1>2, <1>3, <1>10, <2>2, Disjoint DEF Publish, Accounted, Untouched, Publishing, Public, report
    <2>3. CASE op[1] \in {"clear", "remove"} /\ Take(op[2])
      BY <1>1, <1>2, <1>3, <1>10, <2>3, Disjoint DEF Take, Accounted, Untouched, Publishing, report
    <2>4. QED BY <2>1, <2>2, <2>3 DEF Write
  <1>12. QED BY <1>6, <1>7, <1>8, <1>9, <1>11

LEMMA MakeFolderStep == ASSUME IInv, MakeFolder PROVE IInv'
  <1> USE DEF IInv
  <1>1. /\ op \in Ops /\ op # None /\ op[2] \in Paths /\ op[1] = "folder" /\ pc = "write"
    BY Operations, NoneIsNoOperation DEF MakeFolder, TypeOK
  <1>2. UNCHANGED <<staged, backup, others, record, candidate, status, reading>>
    BY DEF MakeFolder
  <1>3. /\ dest[op[2]] = Nothing /\ dest' = [dest EXCEPT ![op[2]] = Folder]
        /\ wrote' = TRUE /\ op' = None /\ residue' = residue
        /\ failed' \in {failed, failed \cup {op}} /\ completed' \in {completed, completed \cup {op}}
        /\ pc' \in {"next", "rescan"} /\ (pc' = "next" => failed' = failed)
    BY DEF MakeFolder, Fail, Succeed, TypeOK
  <1>4. dest' \in [Paths -> Entries] BY <1>1, <1>3 DEF TypeOK, Entries
  <1>5. TypeOK' BY <1>1, <1>2, <1>3, <1>4 DEF TypeOK, others, reading
  <1>6. Public' = Public BY <1>2 DEF Public, others
  <1>7. Placed' /\ Accounted' /\ Untouched' /\ Progress' /\ Seen'
    BY <1>1, <1>2, <1>3, <1>6, Disjoint DEF TypeOK, Placed, Accounted, Untouched, Progress, Seen, others, reading
  <1>8. NothingDestroyed'
    BY <1>1, <1>2, <1>3, Disjoint DEF TypeOK, NothingDestroyed, Arrived, Present, others
  <1>9. QED BY <1>5, <1>7, <1>8

LEMMA RestoreStep == ASSUME IInv, Restore PROVE IInv'
  <1> USE DEF IInv
  <1>1. /\ op \in Ops /\ op # None /\ op[2] \in Paths /\ op[1] \in {"clear", "remove"}
        /\ pc = "restore"
    BY Operations, NoneIsNoOperation DEF Restore, TypeOK
  <1>2. UNCHANGED <<staged, others, record, candidate, status, reading>> BY DEF Restore
  <1>3. /\ dest[op[2]] = Nothing
        /\ dest' = [dest EXCEPT ![op[2]] = backup[op[2]]]
        /\ backup' = [backup EXCEPT ![op[2]] = Nothing]
        /\ wrote' = wrote /\ op' = None /\ residue' = residue
        /\ failed' = failed \cup {op} /\ completed' = completed /\ pc' = "rescan"
    BY DEF Restore, Fail, TypeOK
  <1>4. dest' \in [Paths -> Entries] /\ backup' \in [Paths -> Entries]
    BY <1>1, <1>3 DEF TypeOK, Entries
  <1>5. TypeOK' BY <1>1, <1>2, <1>3, <1>4 DEF TypeOK, others, reading
  <1>6. Public' = Public BY <1>2 DEF Public, others
  <1>7. Nothing \notin Public BY Disjoint DEF Public
  <1>8. Placed' /\ Progress' /\ Seen'
    BY <1>1, <1>2, <1>3, Disjoint DEF TypeOK, Placed, Progress, Seen, others, reading
  <1>9. Accounted'
    BY <1>1, <1>2, <1>3, <1>6, <1>7 DEF TypeOK, Accounted
  <1>10. Untouched'
    <2>1. SUFFICES ASSUME wrote = FALSE PROVE Untouched'
      BY <1>3 DEF Untouched
    <2>2. \A p \in Paths :
            /\ dest[p] \notin Candidates /\ (dest[p] = Folder => Old[p] = "folder")
            /\ staged[p] \notin Public /\ backup[p] \notin Candidates \cup {Folder}
            /\ p # op[2] => backup[p] \notin Public
      BY <1>1, <2>1 DEF Untouched, Publishing
    <2>3. QED BY <1>1, <1>2, <1>3, <1>6, <1>7, <2>2, Disjoint DEF TypeOK, Untouched
  <1>11. NothingDestroyed'
    BY <1>1, <1>2, <1>3, Disjoint DEF TypeOK, NothingDestroyed, Arrived, Present, others
  <1>12. QED BY <1>5, <1>8, <1>9, <1>10, <1>11

(* From the scan after the attempt to the end.                                *)
LEMMA LateStep ==
  ASSUME IInv, Rescan \/ Walk \/ WalkFails \/ Settle \/ Commit \/ Reread \/ RereadFails
               \/ Rewalk \/ Die
  PROVE  IInv'
  <1> USE DEF IInv
  <1>1. NothingDestroyed' /\ Public' = Public /\ \A p \in Paths : AtNew(p)' = AtNew(p)
    BY SameDisk DEF Rescan, Walk, WalkFails, Settle, Commit, Reread, RereadFails, Rewalk, Die, others
  <1>2. UNCHANGED <<disk, others, report>>
    BY DEF Rescan, Walk, WalkFails, Settle, Commit, Reread, RereadFails, Rewalk, Die
  <1>3. /\ pc \notin {"write", "prove", "restore"} \/ pc' = "dead"
        /\ pc' \in {"walk", "commit", "reread", "rewalk", "done", "dead"}
        /\ op' = op \/ (pc' = "dead" /\ op' = None)
        /\ candidate' = candidate
    BY DEF Rescan, Walk, WalkFails, Settle, Commit, Reread, RereadFails, Rewalk, Die, Stop, Differs
  <1>4. /\ record' \in {"old", "new", "other"} /\ status' \in Statuses /\ rescanned' \in BOOLEAN
        /\ unread' \subseteq Paths /\ since' \subseteq Paths
    BY DEF TypeOK, Statuses, Rescan, Walk, WalkFails, Settle, Commit, Reread, RereadFails, Rewalk,
       Die, Stop, Differs, Matches, reading
  <1>a. op' = None /\ (pc' # "dead" => op = None /\ pc # "dead" /\ pc \notin {"write", "prove", "restore"})
    BY <1>3 DEF TypeOK, Rescan, Walk, WalkFails, Settle, Commit, Reread, RereadFails, Rewalk, Die
  <1>5. TypeOK'
    BY <1>2, <1>3, <1>4, <1>a DEF TypeOK, disk, others, report
  <1>b. Placed'
    BY <1>2, <1>3 DEF Placed, disk, others
  <1>c. Accounted' BY <1>1, <1>2, <1>3, <1>a DEF Accounted, disk, report
  <1>6. Untouched'
    BY <1>1, <1>2, <1>3, <1>a DEF Untouched, Publishing, disk, report
  <1>7. Progress'
    BY <1>2 DEF Progress, Statuses, Rescan, Walk, WalkFails, Settle, Commit, Reread, RereadFails,
       Rewalk, Die, Stop, Differs, report
  <1>8. Seen'
    <2>1. CASE Rescan BY <1>1, <2>1 DEF Rescan, Seen, Stop, reading
    <2>2. CASE Walk BY <1>1, <2>2 DEF Walk, Matches, Seen
    <2>3. CASE WalkFails BY <1>1, <2>3 DEF WalkFails, Differs, Stop, Seen, reading
    <2>4. CASE Settle BY <1>1, <2>4 DEF Settle, Seen, reading
    <2>5. CASE Commit BY <1>1, <2>5 DEF Commit, Seen, reading
    <2>6. CASE Reread BY <1>1, <2>6 DEF Reread, Seen
    <2>7. CASE RereadFails BY <1>1, <2>7 DEF RereadFails, Differs, Stop, Seen, reading
    <2>8. CASE Rewalk BY <1>1, <2>8 DEF Rewalk, Matches, Stop, Seen
    <2>9. CASE Die BY <1>1, <2>9 DEF Die, Seen, reading
    <2>10. QED BY <2>1, <2>2, <2>3, <2>4, <2>5, <2>6, <2>7, <2>8, <2>9
  <1>9. QED BY <1>1, <1>5, <1>b, <1>c, <1>6, <1>7, <1>8

LEMMA OtherSkillStep == ASSUME IInv, OtherChangesSkill PROVE IInv'
  <1> USE DEF IInv
  <1>1. PICK p \in Paths :
          /\ \/ TakeAway(dest, p) /\ dest' = [dest EXCEPT ![p] = Nothing]
             \/ \E s \in Strangers : PutThere(dest, p, s, "public") /\ dest' = [dest EXCEPT ![p] = s]
          /\ since' = IF pc \in Walked THEN since \cup {p} ELSE since
    BY DEF OtherChangesSkill
  <1>2. UNCHANGED <<staged, backup, steady, record, pc, op, candidate, report, status, rescanned, unread>>
    BY DEF OtherChangesSkill
  <1>3. /\ dest' \in [Paths -> Entries] /\ lost' \subseteq Objects
        /\ arrived' \in [Strangers -> {"no", "public", "private"}]
        /\ \A q \in Paths : q # p => dest'[q] = dest[q]
        /\ dest'[p] \in Strangers \cup {Nothing}
    BY <1>1, Disjoint DEF TypeOK, TakeAway, PutThere, Gone, Entries
  <1>4. TypeOK' BY <1>1, <1>2, <1>3 DEF TypeOK, report
  <1>5. Placed'
    BY <1>1, <1>2, <1>3, Disjoint DEF TypeOK, Placed, TakeAway, PutThere
  <1>6. \A q \in Paths : staged[q] \in Public' <=> staged[q] \in Public
    BY <1>1, Disjoint DEF TypeOK, Placed, Public, TakeAway, PutThere
  <1>7. \A q \in Paths : backup[q] \in Public' <=> backup[q] \in Public
    BY <1>1, Disjoint DEF TypeOK, Placed, Public, TakeAway, PutThere
  <1>8. Accounted' BY <1>2, <1>6, <1>7 DEF Accounted, report
  <1>9. Untouched'
    BY <1>2, <1>3, <1>6, <1>7, Disjoint DEF Untouched, Publishing, report
  <1>10. Progress' BY <1>2 DEF Progress, report
  <1>11. Seen'
    <2>1. \A q \in Paths : q # p => AtNew(q)' = AtNew(q) BY <1>3 DEF AtNew, Content
    <2>2. QED BY <1>1, <1>2, <2>1 DEF Seen, Walked
  <1>12. NothingDestroyed'
    <2>1. CASE TakeAway(dest, p) /\ dest' = [dest EXCEPT ![p] = Nothing]
      BY <1>2, <2>1 DEF TypeOK, NothingDestroyed, Arrived, Present, TakeAway
    <2>2. ASSUME NEW s \in Strangers, PutThere(dest, p, s, "public"), dest' = [dest EXCEPT ![p] = s]
          PROVE  NothingDestroyed'
      BY <1>2, <2>2, Disjoint DEF TypeOK, NothingDestroyed, Arrived, Present, PutThere, Gone
    <2>3. QED BY <1>1, <2>1, <2>2
  <1>13. QED BY <1>4, <1>5, <1>8, <1>9, <1>10, <1>11, <1>12

LEMMA OtherStagingStep == ASSUME IInv, OtherChangesStaging PROVE IInv'
  <1> USE DEF IInv
  <1> DEFINE Taken(entries, p, o) ==   /\ entries[p] # Folder
                                       /\ lost' = lost \cup Gone(entries[p])
                                       /\ \/ o = Nothing /\ UNCHANGED arrived /\ entries[p] \in Objects
                                          \/ /\ o \in Strangers /\ arrived[o] = "no"
                                             /\ arrived' = [arrived EXCEPT ![o] = "private"]
  <1>1. PICK p \in Paths : \E o \in Strangers \cup {Nothing} :
          \/ Taken(staged, p, o) /\ staged' = [staged EXCEPT ![p] = o] /\ UNCHANGED backup
          \/ Taken(backup, p, o) /\ backup' = [backup EXCEPT ![p] = o] /\ UNCHANGED staged
    BY Disjoint DEF OtherChangesStaging, TakeAway, PutThere, Gone
  <1>2. PICK o \in Strangers \cup {Nothing} :
          \/ Taken(staged, p, o) /\ staged' = [staged EXCEPT ![p] = o] /\ UNCHANGED backup
          \/ Taken(backup, p, o) /\ backup' = [backup EXCEPT ![p] = o] /\ UNCHANGED staged
    BY <1>1
  <1>3. /\ UNCHANGED <<dest, steady, record, pc, op, candidate, report, status, reading>>
        /\ pc \notin {"confirmed", "prepare"}
    BY DEF OtherChangesStaging
  <1>4. /\ staged' \in [Paths -> Entries] /\ backup' \in [Paths -> Entries]
        /\ lost' \subseteq Objects /\ arrived' \in [Strangers -> {"no", "public", "private"}]
        /\ \A q \in Paths : /\ staged'[q] \in {staged[q], o} /\ backup'[q] \in {backup[q], o}
    BY <1>2, Disjoint DEF TypeOK, Gone, Entries
  <1>5. TypeOK' BY <1>3, <1>4 DEF TypeOK, report, reading
  <1>6. Placed' BY <1>2, <1>3, <1>4, Disjoint DEF TypeOK, Placed
  <1>7. Public' = Public
    BY <1>2, Disjoint DEF TypeOK, Public
  <1>8. o \notin Public' /\ o \notin Candidates \cup {Folder}
    BY <1>2, <1>7, Disjoint DEF Public
  <1>9. Accounted' BY <1>3, <1>4, <1>7, <1>8 DEF Accounted, report
  <1>10. Untouched' BY <1>3, <1>4, <1>7, <1>8 DEF Untouched, Publishing, report
  <1>11. Progress' /\ Seen' BY <1>3 DEF Progress, Seen, AtNew, Content, report, reading
  <1>12. NothingDestroyed'
    <2>1. \A e \in Originals \cup Arrived : e \in Present => e \in Present' \cup lost'
      BY <1>2, <1>3, Disjoint DEF TypeOK, Present, Gone, Arrived
    <2>2. \A s \in Strangers : arrived'[s] # "no" => arrived[s] # "no" \/ s \in Present'
      BY <1>2, <1>3, Disjoint DEF TypeOK, Present
    <2>3. lost \subseteq lost' BY <1>2
    <2>4. QED BY <2>1, <2>2, <2>3 DEF NothingDestroyed, Arrived
  <1>13. QED BY <1>5, <1>6, <1>9, <1>10, <1>11, <1>12

LEMMA OtherRestStep == ASSUME IInv, OtherChangesCheckout \/ OtherChangesRecord PROVE IInv'
  <1>1. NothingDestroyed' /\ Public' = Public /\ \A p \in Paths : AtNew(p)' = AtNew(p)
    BY SameDisk DEF OtherChangesCheckout, OtherChangesRecord, others
  <1>2. /\ UNCHANGED <<disk, arrived, lost, pc, op, candidate, report, status, reading>>
        /\ steady' \in {steady, ~steady} /\ record' \in {record, "other"}
    BY DEF OtherChangesCheckout, OtherChangesRecord, others
  <1>3. TypeOK' BY <1>2 DEF IInv, TypeOK, disk, report, reading
  <1>4. Placed' /\ Accounted' /\ Untouched'
    BY <1>1, <1>2 DEF IInv, Placed, Accounted, Untouched, Publishing, disk, report
  <1>5. Progress' /\ Seen'
    BY <1>1, <1>2 DEF IInv, Progress, Seen, report, reading
  <1>6. QED BY <1>1, <1>3, <1>4, <1>5 DEF IInv

LEMMA StutterStep == ASSUME IInv, UNCHANGED vars PROVE IInv'
  <1>1. NothingDestroyed' /\ Public' = Public /\ \A p \in Paths : AtNew(p)' = AtNew(p)
    BY SameDisk DEF vars, disk
  <1>2. TypeOK' /\ Placed' /\ Accounted' /\ Untouched' /\ Progress' /\ Seen'
    BY <1>1 DEF IInv, TypeOK, Placed, Accounted, Untouched, Publishing, Progress, Seen, vars
  <1>3. QED BY <1>1, <1>2 DEF IInv

(* The invariant holds in every state of every behaviour.                     *)
THEOREM Invariance == Spec => []IInv
  <1>1. Init => IInv BY InitIInv
  <1>2. IInv /\ [Next]_vars => IInv'
    BY EarlyStep, PrepareStep, ReportStep, WriteStep, MakeFolderStep, RestoreStep, LateStep,
       OtherSkillStep, OtherStagingStep, OtherRestStep, StutterStep DEF Next, Run
  <1>3. QED BY <1>1, <1>2, PTL DEF Spec

-----------------------------------------------------------------------------
(* The variables of the replacement keep their types.                         *)
THEOREM TypeCorrect == Spec => []TypeOK
  BY Invariance, PTL DEF IInv

(* No rename of the replacement replaces an entry, so that what was in the    *)
(* skill directory, or came there, is still somewhere.                        *)
THEOREM KeepsEverything == Spec => []NothingDestroyed
  BY Invariance, PTL DEF IInv

(* A finished run names everything it carried out of the skill directory, and *)
(* one that says it was blocked before replacing files left none of its own.  *)
THEOREM ReportsTruly == Spec => []ReportIsTrue
  <1>1. IInv => ReportIsTrue
    BY DEF IInv, Accounted, Untouched, Publishing, Progress, ReportIsTrue
  <1>2. QED BY <1>1, Invariance, PTL

(* The saved record is only ever of files that were read as the new version.  *)
THEOREM RecordsTruly == Spec => []RecordFollowsFiles
  <1>1. IInv => RecordFollowsFiles BY DEF IInv, Seen, RecordFollowsFiles
  <1>2. QED BY <1>1, Invariance, PTL

(* After the first failure the run changes nothing more.                      *)
THEOREM StopsAtFailure == Spec => FirstFailureStops
  <1>1. ASSUME IInv, Run, failed # {} PROVE UNCHANGED <<disk, record>>
    BY <1>1 DEF IInv, Progress, Run, Begin, Prepare, Recheck, Start, StartFails, Write, WriteFails,
       MakeFolder, ProveExchange, ProveAdd, ProveRemoval, Restore, RestoreFails, Finish, Rescan,
       Walk, WalkFails, Settle, Commit, Reread, RereadFails, Rewalk, Die, Goto, disk
  <1>2. IInv /\ [Next]_vars => [Run /\ failed # {} => UNCHANGED <<disk, record>>]_vars
    BY <1>1
  <1>3. QED BY <1>2, Invariance, PTL DEF Spec, FirstFailureStops

LEMMA Least ==
  ASSUME NEW S \in SUBSET Nat, S # {}
  PROVE  \E n \in S : \A m \in S : n <= m
  <1> DEFINE Segments == {1..n : n \in S}
  <1>1. Segments \subseteq FiniteSubsetsOf(Nat) /\ Segments # {}
    <2>1. \A n \in S : IsFiniteSet(1..n) /\ 1..n \in SUBSET Nat
      BY FS_Interval
    <2>2. QED BY <2>1 DEF FiniteSubsetsOf
  <1>2. \E s \in Segments : \A r \in Segments : <<r, s>> \notin StrictSubsetOrdering(Nat)
    <2> HIDE DEF Segments
    <2>1. IsWellFoundedOn(StrictSubsetOrdering(Nat), FiniteSubsetsOf(Nat))
      BY FS_StrictSubsetOrderingWellFounded
    <2>2. QED BY <1>1, <2>1, WFMin
  <1>3. PICK n \in S : \A m \in S : <<1..m, 1..n>> \notin StrictSubsetOrdering(Nat)
    BY <1>2
  <1>4. ASSUME NEW m \in S, m < n PROVE FALSE
    <2>1. 1..m \subseteq 1..n /\ n \in 1..n /\ n \notin 1..m
      BY <1>4
    <2>0. 1..m \in SUBSET Nat /\ 1..n \in SUBSET Nat /\ 1..m # 1..n
      BY <2>1
    <2>2. <<1..m, 1..n>> \in StrictSubsetOrdering(Nat)
      BY <2>0, <2>1, SMT DEF StrictSubsetOrdering
    <2>3. QED BY <1>3, <2>2
  <1>5. QED BY <1>4

LEMMA PrefixSteps ==
  ASSUME NEW p \in Seq(Names), NEW q \in Seq(Names)
  PROVE  IsStrictPrefix(p, q) <=> Len(p) < Len(q) /\ \A i \in 1..Len(p) : p[i] = q[i]
  BY DEF IsStrictPrefix, IsPrefix

(* The first place at which two paths differ. *)
Parts(p, q, i) ==
  /\ i \in 1..Len(q) /\ i - 1 <= Len(p) /\ \A j \in 1..(i - 1) : p[j] = q[j]
  /\ i <= Len(p) => Rank[p[i]] < Rank[q[i]]

LEMMA OrderByParts ==
  ASSUME NEW p \in Seq(Names), NEW q \in Seq(Names)
  PROVE  Before(p, q) <=> \E i \in Nat : Parts(p, q, i)
  <1>1. IsStrictPrefix(p, q) <=> Len(p) + 1 <= Len(q) /\ Parts(p, q, Len(p) + 1)
    BY PrefixSteps DEF Parts
  <1>2. ASSUME NEW i \in 1..Len(p), i <= Len(q), SubSeq(p, 1, i - 1) = SubSeq(q, 1, i - 1), Rank[p[i]] < Rank[q[i]]
        PROVE  Parts(p, q, i)
    <2>1. \A j \in 1..(i - 1) : SubSeq(p, 1, i - 1)[j] = p[j] /\ SubSeq(q, 1, i - 1)[j] = q[j]
      BY <1>2
    <2>2. QED BY <1>2, <2>1 DEF Parts
  <1>3. ASSUME NEW i \in 1..Len(p), Parts(p, q, i)
        PROVE  i <= Len(q) /\ SubSeq(p, 1, i - 1) = SubSeq(q, 1, i - 1) /\ Rank[p[i]] < Rank[q[i]]
    BY <1>3 DEF Parts
  <1>4. ASSUME NEW i \in Nat, Parts(p, q, i) PROVE i \in 1..Len(p) \/ i = Len(p) + 1
    BY <1>4 DEF Parts
  <1>5. Len(p) + 1 \in Nat /\ Len(p) + 1 <= Len(q) => Len(p) + 1 \in 1..Len(q)
    OBVIOUS
  <1>6. Parts(p, q, Len(p) + 1) => Len(p) + 1 <= Len(q)
    BY DEF Parts
  <1>7. ASSUME Before(p, q) PROVE \E i \in Nat : Parts(p, q, i)
    <2>1. CASE IsStrictPrefix(p, q)
      <3>1. Parts(p, q, Len(p) + 1) /\ Len(p) + 1 \in Nat
        BY <1>1, <1>5, <2>1
      <3>2. QED BY <3>1
    <2>2. CASE ~IsStrictPrefix(p, q)
      <3>1. PICK i \in 1..Len(p) : i <= Len(q) /\ SubSeq(p, 1, i - 1) = SubSeq(q, 1, i - 1) /\ Rank[p[i]] < Rank[q[i]]
        BY <1>7, <2>2, Zenon DEF Before
      <3>2. Parts(p, q, i) /\ i \in Nat
        BY <1>2, <3>1
      <3>3. QED BY <3>2
    <2>3. QED BY <2>1, <2>2
  <1>8. ASSUME NEW i \in Nat, Parts(p, q, i) PROVE Before(p, q)
    <2>1. CASE i \in 1..Len(p)
      <3>1. i <= Len(q) /\ SubSeq(p, 1, i - 1) = SubSeq(q, 1, i - 1) /\ Rank[p[i]] < Rank[q[i]]
        BY <1>3, <1>8, <2>1
      <3>2. QED BY <2>1, <3>1, Zenon DEF Before
    <2>2. CASE i = Len(p) + 1
      <3>1. IsStrictPrefix(p, q)
        BY <1>1, <1>6, <1>8, <2>2
      <3>2. QED BY <3>1 DEF Before
    <2>3. QED BY <1>4, <1>8, <2>1, <2>2
  <1>9. QED BY <1>7, <1>8

LEMMA OrderIsStrict ==
  ASSUME NEW p \in Seq(Names), NEW q \in Seq(Names), NEW r \in Seq(Names)
  PROVE  ~Before(p, p) /\ (Before(p, q) /\ Before(q, r) => Before(p, r))
  <1>0. \A s \in Seq(Names) : \A i \in 1..Len(s) : Rank[s[i]] \in Nat
    BY NamesAssumption
  <1>1. ~Before(p, p)
    BY <1>0, OrderByParts DEF Parts
  <1>2. ASSUME NEW i \in Nat, NEW j \in Nat, Parts(p, q, i), Parts(q, r, j)
        PROVE  \E k \in Nat : Parts(p, r, k)
    <2>1. CASE i < j
      <3>1. Parts(p, r, i)
        BY <1>0, <1>2, <2>1 DEF Parts
      <3>2. QED BY <3>1
    <2>2. CASE i >= j
      <3>1. Parts(p, r, j)
        BY <1>0, <1>2, <2>2 DEF Parts
      <3>2. QED BY <3>1
    <2>3. QED BY <2>1, <2>2
  <1>3. QED BY <1>1, <1>2, OrderByParts

LEMMA OrderIsTotal ==
  ASSUME NEW p \in Seq(Names), NEW q \in Seq(Names), p # q
  PROVE  Before(p, q) \/ Before(q, p)
  <1> DEFINE D == {i \in Nat : i >= 1 /\ \/ i <= Len(p) /\ i <= Len(q) /\ p[i] # q[i]
                                         \/ i <= Len(p) /\ ~(i <= Len(q))
                                         \/ i <= Len(q) /\ ~(i <= Len(p))}
  <1>1. D # {}
    BY SeqEqual
  <1>2. PICK n \in D : \A m \in D : n <= m
    <2> HIDE DEF D
    <2>1. D \in SUBSET Nat BY DEF D
    <2>2. QED BY <1>1, <2>1, Least
  <1>3. n \in Nat /\ n >= 1 /\ \A j \in 1..(n - 1) : j <= Len(p) /\ j <= Len(q) /\ p[j] = q[j]
    BY <1>2
  <1>4. Parts(p, q, n) \/ Parts(q, p, n)
    BY <1>2, <1>3, NamesAssumption DEF Parts
  <1>5. QED BY <1>3, <1>4, OrderByParts

(* A path's place in a set: how many of the set come before it, and one. *)
Lower(S, p) == {q \in S : Before(q, p)}
PlaceIn(S) == [p \in S |-> Cardinality(Lower(S, p)) + 1]

LEMMA Counted ==
  ASSUME NEW S \in SUBSET Seq(Names), IsFiniteSet(S)
  PROVE  /\ Cardinality(S) \in Nat /\ PlaceIn(S) \in [S -> 1..Cardinality(S)]
         /\ \A p, q \in S : Before(p, q) => PlaceIn(S)[p] < PlaceIn(S)[q]
         /\ \A p, q \in S : PlaceIn(S)[p] = PlaceIn(S)[q] => p = q
         /\ \A i \in 1..Cardinality(S) : \E p \in S : PlaceIn(S)[p] = i
  <1>1. Cardinality(S) \in Nat
    BY FS_CardinalityType
  <1>2. ASSUME NEW p \in S PROVE Cardinality(Lower(S, p)) \in Nat /\ Cardinality(Lower(S, p)) < Cardinality(S)
    <2>1. Lower(S, p) \in SUBSET S /\ Lower(S, p) # S
      BY OrderIsStrict DEF Lower
    <2>2. QED BY <1>1, <2>1, FS_Subset, FS_CardinalityType
  <1>3. PlaceIn(S) \in [S -> 1..Cardinality(S)]
    BY <1>1, <1>2 DEF PlaceIn
  <1>4. ASSUME NEW p \in S, NEW q \in S, Before(p, q) PROVE PlaceIn(S)[p] < PlaceIn(S)[q]
    <2>1. Lower(S, p) \in SUBSET Lower(S, q) /\ Lower(S, p) # Lower(S, q)
      BY <1>4, OrderIsStrict DEF Lower
    <2>2. IsFiniteSet(Lower(S, q))
      BY FS_Subset DEF Lower
    <2>3. Cardinality(Lower(S, p)) < Cardinality(Lower(S, q))
      BY <1>2, <2>1, <2>2, FS_Subset
    <2>4. QED BY <1>2, <2>3 DEF PlaceIn
  <1>5. ASSUME NEW p \in S, NEW q \in S, PlaceIn(S)[p] = PlaceIn(S)[q] PROVE p = q
    <2>1. ~Before(p, q) /\ ~Before(q, p)
      BY <1>3, <1>4, <1>5
    <2>2. QED BY <2>1, OrderIsTotal
  <1>6. PlaceIn(S) \in Injection(S, 1..Cardinality(S))
    BY <1>3, <1>5 DEF Injection, IsInjective
  <1>7. IsFiniteSet(1..Cardinality(S)) /\ Cardinality(1..Cardinality(S)) = Cardinality(S)
    BY <1>1, FS_Interval
  <1>8. PlaceIn(S) \in Surjection(S, 1..Cardinality(S))
    BY <1>6, <1>7, FS_Injection
  <1>9. QED BY <1>1, <1>3, <1>4, <1>5, <1>8 DEF Surjection

LEMMA ByNameLists ==
  ASSUME NEW S \in SUBSET Seq(Names), IsFiniteSet(S)
  PROVE  /\ ByName(S) \in Seq(S) /\ Len(ByName(S)) = Cardinality(S)
         /\ \A p \in S : \E i \in 1..Len(ByName(S)) : ByName(S)[i] = p
         /\ \A i, j \in 1..Len(ByName(S)) : i < j => Before(ByName(S)[i], ByName(S)[j])
  <1> DEFINE n == Cardinality(S)
  <1>1. ASSUME NEW i \in 1..n PROVE ByName(S)[i] \in S /\ PlaceIn(S)[ByName(S)[i]] = i
    <2>1. \A p \in S : Cardinality(Lower(S, p)) \in Nat
      BY FS_Subset, FS_CardinalityType DEF Lower
    <2>2. ByName(S)[i] = CHOOSE p \in S : Cardinality(Lower(S, p)) = i - 1
      BY DEF ByName, Lower
    <2>3. PICK p \in S : PlaceIn(S)[p] = i
      BY Counted
    <2>4. Cardinality(Lower(S, p)) = i - 1
      BY <2>1, <2>3, Counted DEF PlaceIn
    <2>5. ByName(S)[i] \in S /\ Cardinality(Lower(S, ByName(S)[i])) = i - 1
      BY <2>2, <2>4, Zenon
    <2>6. QED BY <2>5, Counted DEF PlaceIn
  <1>2. n \in Nat
    BY Counted
  <1>3. ByName(S) \in [1..n -> S]
    <2> DEFINE Chosen(i) == CHOOSE p \in S : Cardinality({q \in S : Before(q, p)}) = i - 1
    <2>1. ByName(S) = [i \in 1..n |-> Chosen(i)]
      BY DEF ByName
    <2> HIDE DEF Chosen
    <2>2. QED BY <1>1, <2>1
  <1>4. ByName(S) \in Seq(S) /\ Len(ByName(S)) = n
    BY <1>2, <1>3
  <1>5. \A p \in S : PlaceIn(S)[p] \in 1..n /\ ByName(S)[PlaceIn(S)[p]] = p
    BY <1>1, Counted
  <1>6. ASSUME NEW i \in 1..n, NEW j \in 1..n, i < j PROVE Before(ByName(S)[i], ByName(S)[j])
    <2> DEFINE p == ByName(S)[i]
               q == ByName(S)[j]
    <2>1. p \in S /\ q \in S /\ PlaceIn(S)[p] = i /\ PlaceIn(S)[q] = j
      BY <1>1
    <2> HIDE DEF p, q
    <2>2. p # q /\ ~Before(q, p)
      BY <1>2, <1>6, <2>1, Counted
    <2>3. Before(p, q)
      BY <2>1, <2>2, OrderIsTotal
    <2>4. QED BY <2>3 DEF p, q
  <1>7. QED BY <1>4, <1>5, <1>6

LEMMA AboveAndBelow ==
  ASSUME NEW p \in Seq(Names)
  PROVE  /\ \A q \in Above(p) : q \in Seq(Names) /\ Above(q) \subseteq Above(p) /\ q # p /\ Len(q) < Len(p)
         /\ p # Root => Parent(p) \in Above(p) /\ Above(p) = Above(Parent(p)) \cup {Parent(p)} /\ Root \in Above(p)
         /\ p # Root => Parent(p) \in Seq(Names)
         /\ Above(Root) = {}
  <1>1. ASSUME NEW q \in Above(p) PROVE q \in Seq(Names) /\ Above(q) \subseteq Above(p) /\ q # p /\ Len(q) < Len(p)
    <2>1. PICK i \in 0..(Len(p) - 1) : q = SubSeq(p, 1, i)
      BY <1>1 DEF Above
    <2>2. q \in Seq(Names) /\ Len(q) = i
      BY <2>1
    <2>3. \A j \in 0..(i - 1) : SubSeq(q, 1, j) = SubSeq(p, 1, j)
      BY <2>1, <2>2
    <2>4. QED BY <2>2, <2>3 DEF Above
  <1>2. ASSUME p # Root PROVE Parent(p) \in Above(p) /\ Parent(p) \in Seq(Names) /\ Root \in Above(p)
    <2>1. Len(p) >= 1 /\ Len(p) \in Nat
      BY <1>2 DEF Root
    <2>2. Parent(p) = SubSeq(p, 1, Len(p) - 1) /\ Root = SubSeq(p, 1, 0)
      BY DEF Parent, Front, Root
    <2>3. 0 \in 0..(Len(p) - 1) /\ Len(p) - 1 \in 0..(Len(p) - 1)
      BY <2>1
    <2>4. Parent(p) \in Above(p) /\ Root \in Above(p)
      BY <2>2, <2>3, Zenon DEF Above
    <2>5. QED BY <2>1, <2>2, <2>4
  <1>3. ASSUME p # Root PROVE Above(p) = Above(Parent(p)) \cup {Parent(p)}
    <2>1. Len(p) >= 1 /\ Len(p) \in Nat
      BY <1>3 DEF Root
    <2>0. Parent(p) = SubSeq(p, 1, Len(p) - 1)
      BY DEF Parent, Front
    <2>2. Parent(p) = SubSeq(p, 1, Len(p) - 1) /\ Len(Parent(p)) = Len(p) - 1
      <3>1. \A i \in 0..Len(p) : Len(SubSeq(p, 1, i)) = i
        OBVIOUS
      <3>2. Len(p) - 1 \in 0..Len(p)
        BY <2>1
      <3>3. QED BY <2>0, <3>1, <3>2, Zenon
    <2>3. \A j \in 0..(Len(p) - 2) : SubSeq(Parent(p), 1, j) = SubSeq(p, 1, j)
      BY <2>1, <2>2
    <2>4. QED BY <2>1, <2>2, <2>3 DEF Above
  <1>4. Above(Root) = {}
    BY DEF Above, Root
  <1>5. QED BY <1>1, <1>2, <1>3, <1>4

(* The entry of a directory through which a path below it is reached. *)
Toward(d, p) == SubSeq(p, 1, Len(d) + 1)
LEMMA OnTheWay ==
  ASSUME NEW p \in Seq(Names), NEW d \in Above(p)
  PROVE  /\ Toward(d, p) \in Above(p) \cup {p} /\ Toward(d, p) \in Seq(Names)
         /\ Toward(d, p) # Root /\ Parent(Toward(d, p)) = d
  <1>1. PICK i \in 0..(Len(p) - 1) : d = SubSeq(p, 1, i)
    BY DEF Above
  <1>2. Len(d) = i /\ Len(Toward(d, p)) = i + 1 /\ Toward(d, p) \in Seq(Names)
    BY <1>1 DEF Toward
  <1>3. SubSeq(Toward(d, p), 1, i) = SubSeq(p, 1, i)
    BY <1>1, <1>2 DEF Toward
  <1>4. Parent(Toward(d, p)) = d
    BY <1>1, <1>2, <1>3 DEF Parent, Front
  <1>5. Toward(d, p) \in Above(p) \cup {p}
    <2>1. CASE i + 1 = Len(p)
      BY <1>2, <2>1, SubSeqFull DEF Toward
    <2>2. CASE i + 1 < Len(p)
      BY <1>2, <2>2 DEF Toward, Above
    <2>3. QED BY <1>1, <2>1, <2>2
  <1>6. QED BY <1>2, <1>4, <1>5 DEF Root

-----------------------------------------------------------------------------
(* The tree stays a tree whoever writes it, and a stamp is never given twice. *)

OfTree ==
  /\ IsSkill(tree) /\ allowed \in Permissions
  /\ \A p \in TreePaths : tree[p].stamp < Clock

LEMMA TreeFacts ==
  ASSUME IsSkill(tree), NEW p \in TreePaths
  PROVE  /\ p \in Seq(Names) /\ tree[p] \in Nodes /\ Above(p) \subseteq TreePaths
         /\ Root \in TreePaths /\ tree[Root].kind = "directory"
         /\ tree[p].kind = "absent" => tree[p] = Absent
         /\ Skill \in TreePaths /\ (tree[p].kind = "directory" => tree[p].bytes = <<>>)
         /\ tree[p].kind # "absent" => \A q \in Above(p) : tree[q].kind = "directory"
         /\ Absent \in Nodes /\ Absent.kind = "absent" /\ Absent.stamp = 0
  BY DEF IsSkill, TreePaths, Absent, Nodes, NodeKinds, Bytes

LEMMA ClockTicks ==
  ASSUME allowed \in Permissions, NEW kind, Changed(kind)
  PROVE  Clock \in Nat /\ Clock > 0 /\ Clock' = Clock + 1 /\ allowed' \in Permissions
  BY BoundsAssumption DEF Changed, Permissions, Clock

(* What a writer leaves: the same paths, and each as it was or with a new stamp. *)
Rewritten(p) ==
  \/ tree'[p] = tree[p]
  \/ tree'[p] = Absent
  \/ tree'[p].stamp = Clock
Unscathed ==
  /\ tree' \in [TreePaths -> Nodes] /\ DOMAIN tree' = TreePaths
  /\ \A p \in TreePaths : Rewritten(p)

LEMMA WriteFileKeeps ==
  ASSUME OfTree, Changed("tree"), NEW p \in TreePaths, WriteFile(p)
  PROVE  Unscathed /\ IsSkill(tree')
  <1>1. Clock \in Nat /\ tree[p] \in Nodes /\ tree \in [TreePaths -> Nodes]
    BY ClockTicks, TreeFacts DEF OfTree, IsSkill, TreePaths
  <1>2. /\ tree' \in [TreePaths -> Nodes] /\ \A q \in TreePaths \ {p} : tree'[q] = tree[q]
        /\ tree'[p].kind = tree[p].kind /\ tree'[p].stamp = Clock
    <2>1. CASE tree' = [tree EXCEPT ![p].executable = ~@, ![p].stamp = Clock]
      BY <1>1, <2>1 DEF Nodes
    <2>2. ASSUME NEW b \in Contents, tree' = [tree EXCEPT ![p].bytes = b, ![p].stamp = Clock]
          PROVE  <1>2!:
      BY <1>1, <2>2, WritingAssumption DEF Nodes
    <2>3. QED BY <2>1, <2>2 DEF WriteFile
  <1>3. \A q \in TreePaths : tree'[q].kind = tree[q].kind
    BY <1>2
  <1>4. IsSkill(tree')
    <2>1. ASSUME NEW r \in TreePaths
          PROVE  /\ Above(r) \subseteq TreePaths
                 /\ tree'[r].kind = "absent" => tree'[r] = Absent
                 /\ tree'[r].kind = "directory" => tree'[r].bytes = <<>>
                 /\ tree'[r].kind # "absent" => \A q \in Above(r) : tree'[q].kind = "directory"
      <3>1. tree[r].kind = "absent" => tree'[r] = tree[r] /\ tree[r] = Absent
        BY <1>2, TreeFacts DEF OfTree, WriteFile
      <3>2. tree'[r].kind = "directory" => tree'[r] = tree[r]
        BY <1>2, <1>3 DEF WriteFile
      <3>3. QED BY <1>3, <3>1, <3>2, TreeFacts DEF OfTree
    <2>2. QED BY <1>1, <1>2, <1>3, <2>1, TreeFacts DEF OfTree, IsSkill, TreePaths
  <1>5. QED BY <1>2, <1>4 DEF Unscathed, Rewritten

LEMMA CreateFileKeeps ==
  ASSUME OfTree, Changed("tree"), NEW p \in TreePaths, CreateFile(p)
  PROVE  Unscathed /\ IsSkill(tree')
  <1>1. Clock \in Nat /\ tree[p] \in Nodes /\ tree \in [TreePaths -> Nodes] /\ p \in Seq(Names) /\ p # Root
    BY ClockTicks, TreeFacts DEF OfTree, IsSkill, TreePaths, CreateFile
  <1>2. Parent(p) \in Above(p) /\ Parent(p) \in TreePaths /\ Parent(p) # p /\ tree[Parent(p)] \in Nodes
    BY <1>1, AboveAndBelow, TreeFacts DEF OfTree
  <1>3. /\ tree' \in [TreePaths -> Nodes] /\ \A q \in TreePaths \ {p, Parent(p)} : tree'[q] = tree[q]
        /\ tree'[p].kind = "file" /\ tree'[p].stamp = Clock
        /\ tree'[Parent(p)].kind = "directory" /\ tree'[Parent(p)].stamp = Clock
        /\ tree'[Parent(p)].bytes = tree[Parent(p)].bytes
    <2>1. PICK b \in Contents : tree' = [tree EXCEPT ![p] = [kind |-> "file", executable |-> FALSE, bytes |-> b, stamp |-> Clock],
                            ![Parent(p)].stamp = Clock]
      BY DEF CreateFile
    <2>2. b \in Bytes /\ tree[Parent(p)].kind = "directory"
      BY WritingAssumption DEF CreateFile
    <2>3. QED BY <1>1, <1>2, <2>1, <2>2 DEF Nodes, NodeKinds
  <1>4. \A q \in TreePaths \ {p} : tree'[q].kind = tree[q].kind
    BY <1>3 DEF CreateFile
  <1>5. \A q \in Above(p) : q # p /\ tree[q].kind = "directory"
    <2>1. \A q \in Above(Parent(p)) : tree[q].kind = "directory"
      BY <1>2, TreeFacts DEF OfTree, CreateFile
    <2>2. QED BY <1>1, <2>1, AboveAndBelow DEF CreateFile
  <1>d. ASSUME NEW r \in TreePaths, tree'[r].kind = "directory" PROVE tree'[r].bytes = <<>>
    <2>1. tree[r].kind = "directory" => tree[r].bytes = <<>>
      BY TreeFacts DEF OfTree
    <2>2. tree[Parent(p)].kind = "directory" => tree[Parent(p)].bytes = <<>>
      BY <1>2, TreeFacts DEF OfTree
    <2>3. QED BY <1>2, <1>3, <1>4, <1>d, <2>1, <2>2 DEF CreateFile, Absent
  <1>6. ASSUME NEW r \in TreePaths
        PROVE  /\ Above(r) \subseteq TreePaths
               /\ tree'[r].kind = "absent" => tree'[r] = Absent
               /\ tree'[r].kind = "directory" => tree'[r].bytes = <<>>
               /\ tree'[r].kind # "absent" => \A q \in Above(r) : tree'[q].kind = "directory"
    <2>1. Above(r) \subseteq TreePaths
      BY TreeFacts DEF OfTree
    <2>2. CASE r = p
      BY <1>3, <1>4, <1>5, <1>d, <2>1, <2>2
    <2>3. CASE r # p
      <3>1. p \in Above(r) => tree[r].kind = "absent"
        BY TreeFacts DEF OfTree, CreateFile
      <3>2. tree[r].kind = "absent" => tree[r] = Absent
        BY TreeFacts DEF OfTree
      <3>3. tree[r].kind # "absent" => \A q \in Above(r) : tree[q].kind = "directory"
        BY TreeFacts DEF OfTree
      <3>4. tree'[r].kind = "absent" => tree'[r] = Absent
        BY <1>3, <1>4, <2>3, <3>2
      <3>5. QED BY <1>4, <1>d, <2>1, <2>3, <3>1, <3>3, <3>4
    <2>4. QED BY <2>2, <2>3
  <1>7. IsSkill(tree')
    BY <1>1, <1>3, <1>4, <1>6, TreeFacts DEF OfTree, IsSkill, TreePaths
  <1>8. QED BY <1>3, <1>7 DEF Unscathed, Rewritten

LEMMA RemoveEntryKeeps ==
  ASSUME OfTree, Changed("tree"), NEW p \in TreePaths, RemoveEntry(p)
  PROVE  Unscathed /\ IsSkill(tree')
  <1>1. Clock \in Nat /\ tree[p] \in Nodes /\ tree \in [TreePaths -> Nodes] /\ p \in Seq(Names) /\ p # Root
    BY ClockTicks, TreeFacts DEF OfTree, IsSkill, TreePaths, RemoveEntry
  <1>2. /\ Parent(p) \in Above(p) /\ Parent(p) \in TreePaths /\ Parent(p) # p /\ tree[Parent(p)] \in Nodes
        /\ tree[Parent(p)].kind = "directory"
    BY <1>1, AboveAndBelow, TreeFacts DEF OfTree, RemoveEntry
  <1>3. /\ tree' \in [TreePaths -> Nodes] /\ \A q \in TreePaths \ {p, Parent(p)} : tree'[q] = tree[q]
        /\ tree'[p] = Absent
        /\ tree'[Parent(p)].kind = "directory" /\ tree'[Parent(p)].stamp = Clock
        /\ tree'[Parent(p)].bytes = tree[Parent(p)].bytes
    <2>1. Absent \in Nodes
      BY TreeFacts DEF OfTree
    <2>2. tree' = [tree EXCEPT ![p] = Absent, ![Parent(p)].stamp = Clock]
      BY DEF RemoveEntry
    <2>3. QED BY <1>1, <1>2, <2>1, <2>2 DEF Nodes
  <1>4. \A q \in TreePaths \ {p} : tree'[q].kind = tree[q].kind
    BY <1>2, <1>3
  <1>5. ASSUME NEW r \in TreePaths, p \in Above(r) PROVE tree[r].kind = "absent"
    <2> DEFINE c == Toward(p, r)
    <2>1. r \in Seq(Names) /\ Above(r) \subseteq TreePaths
      BY TreeFacts DEF OfTree
    <2>2. c \in Above(r) \cup {r} /\ c # Root /\ Parent(c) = p
      BY <1>5, <2>1, OnTheWay
    <2>3. tree[c].kind = "absent"
      BY <2>1, <2>2 DEF RemoveEntry, Children, TreePaths
    <2>4. QED BY <2>2, <2>3, TreeFacts DEF OfTree
  <1>d. ASSUME NEW r \in TreePaths, tree'[r].kind = "directory" PROVE tree'[r].bytes = <<>>
    <2>1. tree[r].kind = "directory" => tree[r].bytes = <<>>
      BY TreeFacts DEF OfTree
    <2>2. tree[Parent(p)].kind = "directory" => tree[Parent(p)].bytes = <<>>
      BY <1>2, TreeFacts DEF OfTree
    <2>3. QED BY <1>2, <1>3, <1>4, <1>d, <2>1, <2>2 DEF CreateFile, Absent
  <1>6. ASSUME NEW r \in TreePaths
        PROVE  /\ Above(r) \subseteq TreePaths
               /\ tree'[r].kind = "absent" => tree'[r] = Absent
               /\ tree'[r].kind = "directory" => tree'[r].bytes = <<>>
               /\ tree'[r].kind # "absent" => \A q \in Above(r) : tree'[q].kind = "directory"
    <2>1. Above(r) \subseteq TreePaths
      BY TreeFacts DEF OfTree
    <2>2. CASE r = p
      BY <1>3, <1>d, <2>1, <2>2 DEF Absent
    <2>3. CASE r # p
      <3>2. tree[r].kind = "absent" => tree[r] = Absent
        BY TreeFacts DEF OfTree
      <3>3. tree[r].kind # "absent" => \A q \in Above(r) : tree[q].kind = "directory"
        BY TreeFacts DEF OfTree
      <3>4. tree'[r].kind = "absent" => tree'[r] = Absent
        BY <1>2, <1>3, <1>4, <2>3, <3>2
      <3>5. QED BY <1>4, <1>5, <1>d, <2>1, <2>3, <3>3, <3>4
    <2>4. QED BY <2>2, <2>3
  <1>7. IsSkill(tree')
    BY <1>1, <1>2, <1>3, <1>4, <1>6, TreeFacts DEF OfTree, IsSkill, TreePaths
  <1>8. QED BY <1>3, <1>7 DEF Unscathed, Rewritten

LEMMA TreeChange ==
  ASSUME OfTree, Changed("tree") \/ Changed("place"), Unscathed, IsSkill(tree')
  PROVE  OfTree' /\ TreePaths' = TreePaths
  <1>1. Clock \in Nat /\ Clock > 0 /\ Clock' = Clock + 1 /\ allowed' \in Permissions
    BY ClockTicks DEF OfTree
  <1>2. ASSUME NEW p \in TreePaths PROVE tree'[p].stamp < Clock'
    BY <1>1, TreeFacts DEF OfTree, Nodes, Unscathed, Rewritten
  <1>3. QED BY <1>1, <1>2 DEF OfTree, Unscathed, TreePaths

LEMMA MovePlaceKeeps ==
  ASSUME OfTree, MovePlace
  PROVE  Unscathed /\ IsSkill(tree')
  <1>1. /\ Clock \in Nat /\ Root \in TreePaths /\ tree[Root] \in Nodes /\ tree \in [TreePaths -> Nodes]
        /\ tree[Root].kind = "directory"
    BY ClockTicks, TreeFacts DEF OfTree, IsSkill, TreePaths, MovePlace
  <1>2. /\ tree' \in [TreePaths -> Nodes] /\ \A q \in TreePaths \ {Root} : tree'[q] = tree[q]
        /\ tree'[Root].kind = tree[Root].kind /\ tree'[Root].stamp = Clock /\ tree'[Root].bytes = tree[Root].bytes
    BY <1>1 DEF MovePlace, Nodes
  <1>3. \A q \in TreePaths : tree'[q].kind = tree[q].kind
    BY <1>2
  <1>4. ASSUME NEW r \in TreePaths
        PROVE  /\ Above(r) \subseteq TreePaths
               /\ tree'[r].kind = "absent" => tree'[r] = Absent
               /\ tree'[r].kind = "directory" => tree'[r].bytes = <<>>
               /\ tree'[r].kind # "absent" => \A q \in Above(r) : tree'[q].kind = "directory"
    <2>1. tree[r].kind = "absent" => tree'[r] = tree[r] /\ tree[r] = Absent
      BY <1>1, <1>2, TreeFacts DEF OfTree
    <2>2. tree'[r].kind = "directory" => tree'[r].bytes = tree[r].bytes
      BY <1>2
    <2>3. QED BY <1>3, <2>1, <2>2, TreeFacts DEF OfTree
  <1>5. IsSkill(tree')
    BY <1>1, <1>2, <1>3, <1>4, TreeFacts DEF OfTree, IsSkill, TreePaths
  <1>6. QED BY <1>2, <1>5 DEF Unscathed, Rewritten

LEMMA OthersKeepTree ==
  ASSUME OfTree, Others
  PROVE  OfTree' /\ TreePaths' = TreePaths /\ Unscathed /\ UNCHANGED session /\ Remember
  <1>1. CASE WriteTree
    <2>1. Unscathed /\ IsSkill(tree')
      BY <1>1, WriteFileKeeps, CreateFileKeeps, RemoveEntryKeeps DEF WriteTree
    <2>2. Changed("tree") /\ UNCHANGED session /\ Remember
      BY <1>1 DEF WriteTree, Changed
    <2>3. QED BY <2>1, <2>2, TreeChange
  <1>2. CASE MovePlace
    <2>1. Changed("place") /\ UNCHANGED session /\ Remember
      BY <1>2 DEF MovePlace, Changed
    <2>2. QED BY <1>2, <2>1, TreeChange, MovePlaceKeeps
  <1>3. CASE WritePapers \/ WithholdPapers \/ WriteRecord \/ WriteRegistration \/ MoveLinks
    <2>1. UNCHANGED tree /\ UNCHANGED session /\ Remember
      BY <1>3 DEF WritePapers, WithholdPapers, WriteRecord, WriteRegistration, MoveLinks, Changed, world
    <2>2. \E kind : Changed(kind)
      BY <1>3 DEF WritePapers, WithholdPapers, WriteRecord, WriteRegistration, MoveLinks
    <2>3. Clock \in Nat /\ Clock' = Clock + 1 /\ allowed' \in Permissions
      BY <2>2, ClockTicks DEF OfTree
    <2>4. Unscathed
      BY <2>1 DEF Unscathed, Rewritten, OfTree, IsSkill, TreePaths
    <2>5. \A p \in TreePaths : tree[p].stamp \in Nat
      BY TreeFacts DEF OfTree, Nodes
    <2>6. TreePaths' = TreePaths
      BY <2>1 DEF TreePaths
    <2>7. OfTree'
      BY <2>1, <2>3, <2>5, <2>6 DEF OfTree
    <2>8. QED BY <2>1, <2>4, <2>6, <2>7
  <1>4. QED BY <1>1, <1>2, <1>3 DEF Others

-----------------------------------------------------------------------------
(* The inductive invariant. *)

Places == {"ours", "moved", "foreign", "gone"}
OfWorld ==
  /\ place \in Places /\ papers \in Papers /\ stored \in Associations \cup {Missing}
  /\ registration \in {"current", "renamed", "dropped"}
  /\ installed \subseteq Links /\ accounted \in BOOLEAN /\ alone \in BOOLEAN

(* What stands belongs to what has stood since the mark. *)
OfHistory ==
  /\ \A p \in TreePaths : EntryOf(p, tree[p]) \in stood.tree[p]
  /\ place \in stood.place /\ stored \in stood.record
  /\ papers \in stood.papers /\ stood.papers \subseteq Papers
  /\ registration \in stood.registration /\ installed \in stood.installed

Frames == [dir : TreePaths, left : Seq(TreePaths), stamp : Nat]
Looks ==
  [step : {"none", "place", "papers", "validate", "walk", "done"},
   reader : {"adoption", "check", Missing}, result : {"good", "changed", "unavailable", Missing},
   dirs : Places \cup {Missing}, evidence : Evidences \cup {Missing}, entries : Manifests,
   stack : Seq(Frames), open : Nodes \cup {Missing}]
Keeps ==
  [evidence : Evidences \cup {Missing}, dirs : Places \cup {Missing},
   manifest : Manifests \cup {Missing}, record : Associations \cup {Missing},
   links : SUBSET Links, whole : BOOLEAN, named : BOOLEAN]
Forms == [evidence : Evidences \cup {Missing}, origin : Origins \cup {Missing}]

(* How far an observation has come, by phase. *)
Adopting == {"planning", "replanning", "applying", "recording", "verifying"}
Checking == {"preparing", "rechecking", "comparing"}
Within == {"place", "papers", "validate", "walk"}
OfLook ==
  /\ look \in Looks
  /\ phase \in Adopting \cup Checking => look.step # "none"
  /\ phase \notin Adopting \cup Checking => look = NoLook
  /\ phase \in Adopting => look.reader = "adoption"
  /\ look.step \in {"place", "papers", "validate"} =>
       look.entries = <<>> /\ look.stack = <<>> /\ look.open = Missing

(* What is not yet read of the skill is listed, or below something listed. *)
Awaited(stack, p) ==
  \E i \in 1..Len(stack) : \E j \in 1..Len(stack[i].left) : stack[i].left[j] \in Above(p) \cup {p}
HasStood(entry) == entry.path \in TreePaths /\ entry \in stood.tree[entry.path]
EntriesStood == \A i \in 1..Len(look.entries) : HasStood(look.entries[i])
IsRead(p) == \E i \in 1..Len(look.entries) : look.entries[i].path = p
Covered ==
  \A p \in TreePaths : IsRead(p) \/ Awaited(look.stack, p) \/ EntryOf(p, Absent) \in stood.tree[p]
OfOpen ==
  look.open # Missing =>
    /\ look.stack # <<>> /\ Top.left # <<>>
    /\ look.open.kind = "file" /\ look.open.stamp < Clock
    /\ LET p == Head(Top.left) IN
       tree[p].kind = "file" /\ tree[p].stamp = look.open.stamp =>
         look.open = [tree[p] EXCEPT !.bytes = FirstHalf(@)]
OfWalk ==
  look.step = "walk" =>
    /\ EntriesStood
    /\ look.stack = <<>> => look.entries = <<>> /\ look.open = Missing
    /\ look.stack # <<>> => Covered
    /\ OfOpen

(* What an observation that goes well has seen, and has held against what was expected. *)
Saw == look.dirs \in stood.place \cap {"ours", "moved"} /\ kept.dirs \in {Missing, look.dirs}
SawPapers ==
  look.reader = "adoption" =>
    /\ \E q \in stood.papers : look.evidence = ReadEvidence(q)
    /\ kept.evidence \in {Missing, look.evidence}
SawContent == ContentStood(look.entries) /\ kept.manifest \in {Missing, look.entries}
NotRead == faults > 0 \/ \E q \in stood.papers : q.withheld # {}
OfReading ==
  /\ look.step \in {"papers", "validate", "walk"} => Saw
  /\ look.step \in {"validate", "walk"} => SawPapers
  /\ look.step = "done" => look.result \in {"good", "changed", "unavailable"}
  /\ look.step = "done" /\ look.result = "good" => Saw /\ SawPapers /\ SawContent
  /\ look.step = "done" /\ look.result = "unavailable" => NotRead

(* What the session keeps, by phase. *)
Previewed == {"replanning", "confirming", "applying", "recording", "saved", "verifying"}
Requested == {"asking", "rechecking", "fetching", "objects", "answered", "comparing", "scanning", "building"}
Fresh == {"idle", "form", "planning", "preparing"}
Answers == {"none", "refused", "cancelled", "preview", "verified", "failed", "incomplete"}
OfSession ==
  /\ phase \in Fresh \cup Previewed \cup Requested
  /\ kept \in Keeps /\ form \in Forms /\ faults \in Nat /\ answer \in Answers
  /\ phase \in Fresh => kept.evidence = Missing /\ kept.dirs = Missing /\ kept.manifest = Missing
  /\ phase \in Requested => kept.evidence = Missing
  /\ phase \in Previewed =>
       /\ kept.manifest # Missing /\ kept.dirs # Missing /\ kept.evidence # Missing
       /\ form.origin \in Origins /\ Resolves(kept.evidence, form.origin)
  /\ phase = "planning" => form.origin \in Origins
  /\ phase \in Requested =>
       kept.manifest # Missing /\ kept.dirs # Missing /\ kept.record.baseline = kept.manifest
  /\ locked <=> phase \in {"applying", "recording"}
  /\ locked => registration = "current"
  /\ phase = "recording" => stored = Missing
  /\ phase # "idle" => answer = "none"
  /\ phase = "verifying" => Association \in stood.record

OfCheck ==
  /\ phase \in {"comparing", "scanning", "building"} =>
       kept.record \in stood.record /\ "current" \in stood.registration
  /\ phase \in {"scanning", "building"} => kept.dirs \in stood.place /\ ContentStood(kept.manifest)
  /\ phase = "building" => kept.links \in stood.installed

(* What the verdicts other than a failure say. *)
VerifiedStood ==
  answer = "verified" =>
    /\ basis.record \in stood.record /\ basis.dirs \in stood.place
    /\ \E q \in stood.papers : ReadEvidence(q) = basis.evidence
    /\ ContentStood(basis.manifest)
OfAnswer ==
  /\ PreviewStandsAfterFetch /\ VerifiedStood
  /\ answer = "incomplete" => NotRead

TInv == OfTree /\ OfWorld /\ OfHistory /\ OfLook /\ OfWalk /\ OfReading /\ OfSession /\ OfCheck /\ OfAnswer

-----------------------------------------------------------------------------
LEMMA MissingIsApart ==
  /\ Missing \notin Nodes /\ Missing \notin Manifests /\ Missing \notin Evidences /\ Missing \notin Places
  BY MissingAssumption DEF Places

LEMMA EvidenceIsTyped ==
  ASSUME NEW q \in Papers PROVE ReadEvidence(q) \in Evidences
  <1>1. Offered(q) \in SUBSET Hints
    BY DEF Offered, HintsOf, Narrowed, Legible, Opened, Papers, Texts, Inputs
  <1>2. Fingerprints(q) \in SUBSET (Inputs \X Texts)
    BY DEF Fingerprints, Opened, Papers, Inputs
  <1>3. Problems(q) \in SUBSET ((Inputs \cup {"all"}) \X {"ambiguous", "withheld", "spoilt", "malformed", "limit"})
    BY DEF Problems, Opened, Legible, Inputs
  <1>4. QED BY <1>1, <1>2, <1>3 DEF ReadEvidence, Evidences

(* Nothing that stood is forgotten until the next mark. *)
Grows ==
  /\ TreePaths' = TreePaths
  /\ \A p \in TreePaths : stood.tree[p] \subseteq stood'.tree[p] /\ EntryOf(p, tree'[p]) \in stood'.tree[p]
  /\ stood.place \subseteq stood'.place /\ place' \in stood'.place
  /\ stood.record \subseteq stood'.record /\ stored' \in stood'.record
  /\ stood.papers \subseteq stood'.papers /\ papers' \in stood'.papers /\ stood'.papers \subseteq Papers
  /\ stood.registration \subseteq stood'.registration /\ registration' \in stood'.registration
  /\ stood.installed \subseteq stood'.installed /\ installed' \in stood'.installed

LEMMA RememberGrows ==
  ASSUME OfHistory, Remember, TreePaths' = TreePaths, papers' \in Papers
  PROVE  Grows
  <1>1. \A p \in TreePaths : stood'.tree[p] = stood.tree[p] \cup {EntryOf(p, tree'[p])}
    BY DEF Remember
  <1>2. /\ stood'.place = stood.place \cup {place'} /\ stood'.papers = stood.papers \cup {papers'}
        /\ stood'.record = stood.record \cup {stored'}
        /\ stood'.registration = stood.registration \cup {registration'}
        /\ stood'.installed = stood.installed \cup {installed'}
    BY DEF Remember
  <1>3. QED BY <1>1, <1>2 DEF Grows, OfHistory

LEMMA StoodStands ==
  ASSUME Grows, NEW manifest, ContentStood(manifest)
  PROVE  \A p \in TreePaths' : Entry(manifest, p) \in stood'.tree[p]
  BY DEF Grows, ContentStood

(* Whatever others do, what the session holds stays true of what has stood. *)
LEMMA OthersKeepLook ==
  ASSUME TInv, Grows, UNCHANGED session
  PROVE  OfHistory' /\ OfLook' /\ OfReading' /\ OfCheck' /\ OfAnswer'
  <1> USE DEF TInv, session
  <1>1. OfHistory'
    BY DEF Grows, OfHistory
  <1>2. OfLook'
    BY DEF OfLook, Grows, Looks, Frames, NoLook
  <1>3. ASSUME NEW m, ContentStood(m) PROVE ContentStood(m)'
    BY <1>3, StoodStands DEF ContentStood
  <1>4. OfReading'
    <2>1. Saw => Saw'
      BY DEF Saw, Grows
    <2>2. SawPapers => SawPapers'
      BY DEF SawPapers, Grows
    <2>3. SawContent => SawContent'
      BY <1>3 DEF SawContent
    <2>4. NotRead => NotRead'
      BY DEF NotRead, Grows
    <2>5. QED BY <2>1, <2>2, <2>3, <2>4 DEF OfReading
  <1>5. OfCheck'
    <2>1. ContentStood(kept.manifest) => ContentStood(kept.manifest)'
      BY <1>3
    <2>2. QED BY <2>1 DEF OfCheck, Grows
  <1>6. OfAnswer'
    <2>1. PreviewStandsAfterFetch'
      <3>1. ContentStood(basis.kept.manifest) => ContentStood(basis.kept.manifest)'
        BY <1>3
      <3>2. QED BY <3>1 DEF OfAnswer, PreviewStandsAfterFetch, Grows
    <2>2. VerifiedStood'
      <3>1. ContentStood(basis.manifest) => ContentStood(basis.manifest)'
        BY <1>3
      <3>2. QED BY <3>1 DEF OfAnswer, VerifiedStood, Grows
    <2>3. QED BY <2>1, <2>2 DEF OfAnswer, NotRead, Grows
  <1>7. QED BY <1>1, <1>2, <1>4, <1>5, <1>6

LEMMA OthersKeepWalk ==
  ASSUME TInv, Grows, UNCHANGED session, Unscathed, OfTree', \E kind : Changed(kind) 
  PROVE  OfWalk'
  <1> USE DEF TInv, session
  <1>1. look' = look
    OBVIOUS
  <1>2. EntriesStood => EntriesStood'
    BY <1>1 DEF EntriesStood, HasStood, Grows
  <1>3. Covered => Covered'
    BY <1>1 DEF Covered, Grows, IsRead, Awaited
  <1>4. ASSUME OfOpen, look.open # Missing, look.step = "walk" PROVE OfOpen'
    <2> DEFINE p == Head(Top.left)
    <2>0. Clock \in Nat /\ Clock' = Clock + 1
      BY ClockTicks DEF OfTree
    <2>1. look.open \in Nodes /\ look.open.stamp \in Nat /\ Top' = Top
      BY <1>1, <1>4 DEF OfLook, Looks, Nodes, Top, Last
    <2>2. p \in TreePaths
      <3>1. Top \in Frames
        BY <1>4 DEF OfOpen, OfLook, Looks, Top, Last
      <3>2. Top.left \in Seq(TreePaths) /\ Top.left # <<>>
        BY <1>4, <3>1 DEF OfOpen, Frames
      <3>3. QED BY <3>2
    <2>3. look.open.stamp < Clock
      BY <1>4 DEF OfOpen
    <2>4. ASSUME tree'[p].kind = "file", tree'[p].stamp = look.open.stamp PROVE tree'[p] = tree[p]
      BY <2>0, <2>1, <2>2, <2>3, <2>4, TreeFacts DEF Unscathed, Rewritten, Absent
    <2>5. p' = p
      BY <2>1
    <2> HIDE DEF p
    <2>6. tree'[p].kind = "file" /\ tree'[p].stamp = look.open.stamp =>
            look.open = [tree'[p] EXCEPT !.bytes = FirstHalf(@)]
      BY <1>4, <2>4 DEF OfOpen, p
    <2>7. look.open.stamp < Clock'
      BY <2>0, <2>1, <2>3
    <2>8. QED BY <1>1, <1>4, <2>1, <2>5, <2>6, <2>7 DEF OfOpen, p
  <1>5. OfOpen' \/ look.step # "walk" \/ look.open # Missing
    BY <1>1 DEF OfOpen
  <1>6. QED BY <1>1, <1>2, <1>3, <1>4, <1>5 DEF OfWalk

LEMMA OthersKeepSession ==
  ASSUME TInv, Others, Grows
  PROVE  OfWorld' /\ OfSession'
  <1> USE DEF TInv
  <1>1. UNCHANGED session
    BY OthersKeepTree
  <1>2. OfWorld'
    <2>1. CASE WriteTree
      BY <2>1 DEF OfWorld, WriteTree, metadata
    <2>2. CASE MovePlace
      BY <2>2 DEF OfWorld, MovePlace, metadata, Places
    <2>3. CASE WritePapers
      <3>1. papers' \in Papers
        BY <2>3, WritingAssumption DEF OfWorld, WritePapers, Papers
      <3>2. QED BY <2>3, <3>1 DEF OfWorld, WritePapers, metadata
    <2>4. CASE WithholdPapers
      <3>1. papers' \in Papers
        BY <2>4 DEF OfWorld, WithholdPapers, Papers
      <3>2. QED BY <2>4, <3>1 DEF OfWorld, WithholdPapers, metadata
    <2>5. CASE WriteRecord
      <3>1. [origin |-> CHOOSE o \in Origins : TRUE, baseline |-> <<>>] \in Associations
        <4>1. <<>> \in Manifests
          BY DEF Manifests
        <4>2. (CHOOSE o \in Origins : TRUE) \in Origins
          BY OriginsAssumption
        <4>3. QED BY <4>1, <4>2 DEF Associations
      <3>2. stored' \in Associations \cup {Missing}
        BY <2>5, <3>1 DEF WriteRecord
      <3>3. QED BY <2>5, <3>2 DEF OfWorld, WriteRecord, world
    <2>6. CASE WriteRegistration
      BY <2>6 DEF OfWorld, WriteRegistration, world
    <2>7. CASE MoveLinks
      BY <2>7 DEF OfWorld, MoveLinks, metadata
    <2>8. QED BY <2>1, <2>2, <2>3, <2>4, <2>5, <2>6, <2>7 DEF Others
  <1>3. OfSession'
    <2>1. locked => UNCHANGED metadata
      BY DEF Others, WriteTree, MovePlace, WritePapers, WithholdPapers, WriteRecord, WriteRegistration, MoveLinks
    <2>2. stood.record \subseteq stood'.record
      BY DEF Grows
    <2>3. Association' = Association
      BY <1>1 DEF session, Association
    <2>4. QED BY <1>1, <2>1, <2>2, <2>3 DEF OfSession, session, metadata
  <1>4. QED BY <1>2, <1>3

LEMMA OthersStep == ASSUME TInv, Others PROVE TInv'
  <1>1. OfTree' /\ TreePaths' = TreePaths /\ Unscathed /\ UNCHANGED session /\ Remember
    BY OthersKeepTree DEF TInv
  <1>2. papers' \in Papers
    <2>1. CASE WritePapers
      BY <2>1, WritingAssumption DEF WritePapers, TInv, OfWorld, Papers
    <2>2. CASE WithholdPapers
      BY <2>2 DEF WithholdPapers, TInv, OfWorld, Papers
    <2>3. CASE ~(WritePapers \/ WithholdPapers)
      BY <2>3 DEF Others, WriteTree, MovePlace, WriteRecord, WriteRegistration, MoveLinks, world, TInv, OfWorld
    <2>4. QED BY <2>1, <2>2, <2>3
  <1>3. Grows
    BY <1>1, <1>2, RememberGrows DEF TInv
  <1>4. \E kind : Changed(kind)
    BY DEF Others, WriteTree, MovePlace, WritePapers, WithholdPapers, WriteRecord, WriteRegistration, MoveLinks
  <1>5. OfHistory' /\ OfLook' /\ OfReading' /\ OfCheck' /\ OfAnswer'
    BY <1>1, <1>3, OthersKeepLook
  <1>6. OfWalk'
    BY <1>1, <1>3, <1>4, OthersKeepWalk
  <1>7. OfWorld' /\ OfSession'
    BY <1>3, OthersKeepSession
  <1>8. QED BY <1>1, <1>5, <1>6, <1>7 DEF TInv

-----------------------------------------------------------------------------
(* One step of an observation changes nothing but what is observed. *)

Aside == <<metadata, world, allowed, phase, form, kept, locked, cancelled, pinned, answer, basis, history>>

LEMMA LookKeeps ==
  ASSUME TInv, UNCHANGED Aside, faults' \in Nat, faults' >= faults
  PROVE  OfTree' /\ OfWorld' /\ OfHistory' /\ OfSession' /\ OfCheck' /\ OfAnswer'
  <1> USE DEF TInv, Aside, metadata, world, history
  <1>0. TreePaths' = TreePaths /\ \A m : ContentStood(m)' <=> ContentStood(m)
    BY DEF TreePaths, ContentStood
  <1>1. OfTree'
    BY DEF OfTree, TreePaths, Clock
  <1>2. OfWorld'
    BY DEF OfWorld
  <1>3. OfHistory'
    BY DEF OfHistory, TreePaths
  <1>4. OfSession'
    BY DEF OfSession, Association
  <1>5. OfCheck'
    BY <1>0 DEF OfCheck
  <1>6. OfAnswer'
    <2>1. NotRead => NotRead'
      BY DEF NotRead, OfSession
    <2>2. QED BY <1>0, <2>1 DEF OfAnswer, PreviewStandsAfterFetch, VerifiedStood
  <1>7. QED BY <1>1, <1>2, <1>3, <1>4, <1>5, <1>6

LEMMA LookGoesOn ==
  ASSUME TInv, UNCHANGED Aside, UNCHANGED faults, OfLook', OfWalk', OfReading'
  PROVE  TInv'
  BY LookKeeps DEF TInv, OfSession

LEMMA LookIsUnderWay ==
  ASSUME TInv, look.step # "none" PROVE phase \in Adopting \cup Checking
  BY DEF TInv, OfLook, NoLook

LEMMA LookEnds ==
  ASSUME TInv, UNCHANGED Aside, faults' \in Nat, faults' >= faults, look.step # "none",
         NEW r \in {"good", "changed", "unavailable"}, Ends(r),
         r = "good" => Saw /\ SawPapers /\ SawContent,
         r = "unavailable" => NotRead'
  PROVE  TInv'
  <1> USE DEF TInv
  <1>0. /\ TreePaths' = TreePaths /\ \A m : ContentStood(m)' <=> ContentStood(m)
        /\ phase \in Adopting \cup Checking
    BY LookIsUnderWay DEF TreePaths, ContentStood, Aside, world, history
  <1>1. /\ look' \in Looks' /\ look'.step = "done" /\ look'.result = r /\ look'.reader = look.reader
        /\ look'.dirs = look.dirs /\ look'.evidence = look.evidence /\ look'.entries = look.entries
    BY <1>0 DEF Ends, OfLook, Looks, Frames
  <1>2. OfLook'
    BY <1>0, <1>1 DEF OfLook, Aside
  <1>3. OfWalk'
    BY <1>1 DEF OfWalk
  <1>4. OfReading'
    <2>1. UNCHANGED <<stood, kept>>
      BY DEF Aside, history
    <2>2. r = "good" => Saw' /\ SawPapers' /\ SawContent'
      BY <1>0, <1>1, <2>1 DEF Saw, SawPapers, SawContent
    <2>3. QED BY <1>1, <2>2 DEF OfReading
  <1>5. QED BY <1>2, <1>3, <1>4, LookKeeps

LEMMA ObserveAside ==
  ASSUME TInv, NEW step, Looking(step), step # "none"
  PROVE  /\ UNCHANGED Aside /\ UNCHANGED faults /\ faults' \in Nat /\ faults' >= faults
         /\ look.step = step /\ phase \in Adopting \cup Checking /\ phase' = phase
         /\ TreePaths' = TreePaths /\ Looks' = Looks
         /\ UNCHANGED <<tree, stood, kept, allowed>>
  BY LookIsUnderWay DEF Looking, Aside, TInv, OfSession, TreePaths, world, history, Looks, Frames

LEMMA ReadPlaceStep == ASSUME TInv, ReadPlace PROVE TInv'
  <1> USE DEF TInv
  <1>0. Looking("place")
    BY DEF ReadPlace
  <1>1. CASE Ends("changed")
    BY <1>0, <1>1, ObserveAside, LookEnds
  <1>2. CASE ~Ends("changed")
    <2>1. /\ look' = [look EXCEPT !.dirs = place, !.step = IF look.reader = "adoption" THEN "papers" ELSE "validate"]
          /\ place \notin {"gone", "foreign"} /\ kept.dirs \in {Missing, place}
      BY <1>2 DEF ReadPlace
    <2>2. /\ look' \in Looks /\ look'.dirs = place /\ look'.reader = look.reader
          /\ look'.step = IF look.reader = "adoption" THEN "papers" ELSE "validate"
          /\ look'.entries = look.entries /\ look'.stack = look.stack /\ look'.open = look.open
      BY <2>1 DEF OfLook, Looks, OfWorld
    <2>3. OfLook'
      BY <1>0, <2>2, ObserveAside DEF OfLook
    <2>4. OfWalk'
      BY <2>2 DEF OfWalk
    <2>5. OfReading'
      BY <1>0, <2>1, <2>2, ObserveAside DEF OfReading, Saw, SawPapers, OfHistory, OfWorld, Places
    <2>6. QED BY <1>0, <2>3, <2>4, <2>5, ObserveAside, LookGoesOn
  <1>3. QED BY <1>1, <1>2

LEMMA WithheldRead ==
  ASSUME NEW q, UnavailableRead(ReadEvidence(q)) PROVE q.withheld # {}
  BY DEF UnavailableRead, ReadEvidence, Problems

LEMMA ReadPapersStep == ASSUME TInv, ReadPapers PROVE TInv'
  <1> USE DEF TInv
  <1> DEFINE e == ReadEvidence(papers)
  <1>0. Looking("papers") /\ e \in Evidences
    BY EvidenceIsTyped DEF ReadPapers, OfWorld
  <1>1. CASE kept.evidence \in {Missing, e}
    <2>1. look' = [look EXCEPT !.evidence = e, !.step = "validate"]
      BY <1>1 DEF ReadPapers
    <2>2. /\ look' \in Looks /\ look'.evidence = e /\ look'.reader = look.reader /\ look'.step = "validate"
          /\ look'.entries = look.entries /\ look'.stack = look.stack /\ look'.open = look.open
          /\ look'.dirs = look.dirs
      BY <1>0, <2>1 DEF OfLook, Looks
    <2>3. OfLook'
      BY <1>0, <2>2, ObserveAside DEF OfLook
    <2>4. OfWalk'
      BY <2>2 DEF OfWalk
    <2>5. OfReading'
      BY <1>0, <1>1, <2>1, <2>2, ObserveAside DEF OfReading, Saw, SawPapers, OfHistory
    <2>6. QED BY <1>0, <2>3, <2>4, <2>5, ObserveAside, LookGoesOn
  <1>2. CASE kept.evidence \notin {Missing, e} /\ ChangeIsUnavailable(e, kept.evidence)
    <2>1. Ends("unavailable") /\ papers.withheld # {}
      BY <1>2, WithheldRead DEF ReadPapers, ChangeIsUnavailable
    <2>2. NotRead'
      BY <1>0, <2>1, ObserveAside DEF NotRead, OfHistory
    <2>3. QED BY <1>0, <2>1, <2>2, ObserveAside, LookEnds
  <1>3. CASE kept.evidence \notin {Missing, e} /\ ~ChangeIsUnavailable(e, kept.evidence)
    BY <1>0, <1>3, ObserveAside, LookEnds DEF ReadPapers
  <1>4. QED BY <1>1, <1>2, <1>3

LEMMA ValidateStep == ASSUME TInv, Validate PROVE TInv'
  <1> USE DEF TInv
  <1>0. Looking("validate")
    BY DEF Validate
  <1>1. CASE Ends("changed")
    BY <1>0, <1>1, ObserveAside, LookEnds
  <1>2. CASE ~Ends("changed")
    <2>1. look' = [look EXCEPT !.step = "walk"]
      BY <1>2 DEF Validate
    <2>2. /\ look' \in Looks /\ look'.evidence = look.evidence /\ look'.reader = look.reader /\ look'.step = "walk"
          /\ look'.entries = <<>> /\ look'.stack = <<>> /\ look'.open = Missing
          /\ look'.dirs = look.dirs
      BY <1>0, <2>1, ObserveAside DEF OfLook, Looks
    <2>3. OfLook'
      BY <1>0, <2>2, ObserveAside DEF OfLook
    <2>4. OfWalk'
      BY <2>2 DEF OfWalk, EntriesStood, OfOpen
    <2>5. OfReading'
      BY <1>0, <2>2, ObserveAside DEF OfReading, Saw, SawPapers
    <2>6. QED BY <1>0, <2>3, <2>4, <2>5, ObserveAside, LookGoesOn
  <1>3. QED BY <1>1, <1>2

LEMMA LookFailsStep == ASSUME TInv, LookFails PROVE TInv'
  <1>1. UNCHANGED Aside /\ Ends("unavailable") /\ look.step # "none"
    BY DEF LookFails, Aside
  <1>2. faults' \in Nat /\ faults' >= faults /\ faults' > 0
    BY DEF LookFails, TInv, OfSession
  <1>3. QED BY <1>1, <1>2, LookEnds DEF NotRead

-----------------------------------------------------------------------------
(* The walk. *)

LEMMA Halves ==
  ASSUME NEW b \in Bytes PROVE FirstHalf(b) \in Bytes /\ FirstHalf(b) \o After(b, FirstHalf(b)) = b
  <1> DEFINE h == Len(b) \div 2
  <1>1. b \in Seq(Chunks) /\ h \in 0..Len(b)
    BY DEF Bytes
  <1>2. Len(SubSeq(b, 1, h)) = h /\ SubSeq(b, 1, h) \in Seq(Chunks)
    BY <1>1
  <1>3. SubSeq(b, 1, h) \o SubSeq(b, h + 1, Len(b)) = SubSeq(b, 1, Len(b))
    <2>1. 1 \in 1..(Len(b) + 1) /\ h \in (1 - 1)..Len(b) /\ Len(b) \in h..Len(b)
      BY <1>1
    <2> HIDE DEF h
    <2>2. QED BY <1>1, <2>1, ConcatAdjacentSubSeq
  <1>4. SubSeq(b, 1, Len(b)) = b
    BY <1>1, SubSeqFull
  <1>5. QED BY <1>2, <1>3, <1>4 DEF FirstHalf, After, Bytes

(* A directory's listing reaches everything below it. *)
LEMMA ListingReaches ==
  ASSUME TInv, NEW d \in TreePaths, tree[d].kind = "directory"
  PROVE  /\ Listing(d) \in Frames
         /\ \A p \in TreePaths : d \in Above(p) =>
              \/ tree[p] = Absent
              \/ \E j \in 1..Len(Listing(d).left) : Listing(d).left[j] \in Above(p) \cup {p}
  <1>1. IsSkill(tree)
    BY DEF TInv, OfTree
  <1>2. Children(d) \in SUBSET TreePaths /\ TreePaths \in SUBSET Seq(Names) /\ IsFiniteSet(TreePaths)
    BY <1>1 DEF Children, IsSkill, TreePaths
  <1>3. Children(d) \in SUBSET Seq(Names) /\ IsFiniteSet(Children(d))
    BY <1>2, FS_Subset
  <1>4. /\ ByName(Children(d)) \in Seq(Children(d))
        /\ \A c \in Children(d) : \E j \in 1..Len(ByName(Children(d))) : ByName(Children(d))[j] = c
    BY <1>3, ByNameLists
  <1>5. Listing(d).left = ByName(Children(d))
    BY DEF Listing
  <1>6. Listing(d) \in Frames
    <2>1. tree[d].stamp \in Nat
      BY <1>1, TreeFacts DEF Nodes
    <2>2. ByName(Children(d)) \in Seq(TreePaths)
      BY <1>2, <1>4, SeqMonotonic
    <2>3. QED BY <2>1, <2>2 DEF Listing, Frames
  <1>7. ASSUME NEW p \in TreePaths, d \in Above(p), tree[p] # Absent
        PROVE  \E j \in 1..Len(Listing(d).left) : Listing(d).left[j] \in Above(p) \cup {p}
    <2> DEFINE c == Toward(d, p)
    <2>1. p \in Seq(Names) /\ Above(p) \subseteq TreePaths /\ tree[p].kind # "absent"
      BY <1>1, <1>7, TreeFacts
    <2>2. c \in Above(p) \cup {p} /\ c # Root /\ Parent(c) = d
      BY <1>7, <2>1, OnTheWay
    <2>3. c \in TreePaths /\ tree[c].kind # "absent"
      BY <1>1, <2>1, <2>2, TreeFacts
    <2>4. c \in Children(d)
      BY <2>2, <2>3 DEF Children
    <2>5. QED BY <1>4, <1>5, <2>2, <2>4
  <1>8. QED BY <1>6, <1>7

LEMMA RecordedStep ==
  ASSUME TInv, Looking("walk"), NEW p \in TreePaths, tree[p].kind # "absent",
         NEW stack \in Seq(Frames), stack # <<>>,
         \A r \in TreePaths : r = p \/ IsRead(r) \/ Awaited(stack, r) \/ EntryOf(r, Absent) \in stood.tree[r],
         Recorded(EntryOf(p, tree[p]), stack)
  PROVE  TInv'
  <1> USE DEF TInv
  <1> DEFINE entry == EntryOf(p, tree[p])
             entries == Append(look.entries, entry)
  <1>1. CASE Ends("changed")
    BY <1>1, ObserveAside, LookEnds
  <1>2. CASE ~Ends("changed")
    <2>1. look' = [look EXCEPT !.entries = entries, !.stack = stack, !.open = Missing]
      BY <1>2 DEF Recorded
    <2>2. entry \in ManifestEntries /\ entry.path = p /\ entry \in stood.tree[p]
      BY TreeFacts DEF OfTree, OfHistory, EntryOf, ManifestEntries, Nodes, NodeKinds
    <2>3. entries \in Manifests /\ look.entries \in Manifests
      BY <2>2 DEF OfLook, Looks, Manifests
    <2>4. /\ look' \in Looks /\ look'.evidence = look.evidence /\ look'.reader = look.reader /\ look'.step = "walk"
          /\ look'.entries = entries /\ look'.stack = stack /\ look'.open = Missing
          /\ look'.dirs = look.dirs
      BY <2>1, <2>3, ObserveAside DEF OfLook, Looks
    <2>5. OfLook'
      BY <2>4, ObserveAside DEF OfLook
    <2>6. EntriesStood'
      <3>1. EntriesStood
        BY ObserveAside DEF OfWalk
      <3>2. QED BY <2>2, <2>3, <2>4, <3>1, ObserveAside DEF EntriesStood, HasStood, Manifests
    <2>7. Covered'
      <3>1. \A r \in TreePaths : IsRead(r) \/ r = p => IsRead(r)'
        BY <2>2, <2>3, <2>4 DEF IsRead, Manifests
      <3>2. \A r \in TreePaths : Awaited(stack, r) => Awaited(look'.stack, r)
        BY <2>4
      <3>3. QED BY <3>1, <3>2, ObserveAside DEF Covered
    <2>8. OfWalk'
      BY <2>4, <2>6, <2>7 DEF OfWalk, OfOpen
    <2>9. OfReading'
      BY <2>4, ObserveAside DEF OfReading, Saw, SawPapers
    <2>10. QED BY <2>5, <2>8, <2>9, ObserveAside, LookGoesOn
  <1>3. QED BY <1>1, <1>2

LEMMA WalkOpenStep == ASSUME TInv, WalkOpen PROVE TInv'
  <1> USE DEF TInv
  <1>0. Looking("walk") /\ look.stack = <<>> /\ look.entries = <<>>
    BY ObserveAside DEF WalkOpen, OfWalk
  <1>1. CASE Ends("changed")
    BY <1>0, <1>1, ObserveAside, LookEnds
  <1>2. CASE ~Ends("changed")
    <2>1. Recorded(EntryOf(Root, tree[Root]), <<Listing(Root)>>)
      BY <1>2 DEF WalkOpen
    <2>2. Root \in TreePaths /\ tree[Root].kind = "directory"
      BY DEF OfTree, IsSkill, TreePaths
    <2>3. Listing(Root) \in Frames
      BY <2>2, ListingReaches
    <2>4. ASSUME NEW r \in TreePaths, r # Root
          PROVE  Awaited(<<Listing(Root)>>, r) \/ EntryOf(r, Absent) \in stood.tree[r]
      <3>1. Root \in Above(r)
        BY <2>4, AboveAndBelow, TreeFacts DEF OfTree
      <3>2. tree[r] = Absent \/ \E j \in 1..Len(Listing(Root).left) : Listing(Root).left[j] \in Above(r) \cup {r}
        BY <2>2, <3>1, ListingReaches
      <3>3. QED BY <3>2 DEF Awaited, OfHistory
    <2>5. <<Listing(Root)>> \in Seq(Frames) /\ <<Listing(Root)>> # <<>>
      BY <2>3
    <2>6. QED BY <1>0, <2>1, <2>2, <2>4, <2>5, RecordedStep
  <1>3. QED BY <1>1, <1>2

(* What a step down, along or up the stack of open directories still awaits. *)
LEMMA StackTop ==
  ASSUME look \in Looks, look.stack # <<>>
  PROVE  /\ Top \in Frames /\ Top = look.stack[Len(look.stack)] /\ Len(look.stack) \in Nat \ {0}
         /\ Front(look.stack) \in Seq(Frames) /\ Len(Front(look.stack)) = Len(look.stack) - 1
         /\ \A i \in 1..(Len(look.stack) - 1) : Front(look.stack)[i] = look.stack[i]
  <1> DEFINE n == Len(look.stack)
  <1>1. look.stack \in Seq(Frames) /\ n \in Nat \ {0}
    BY DEF Looks
  <1>2. Top = look.stack[n] /\ Top \in Frames
    BY <1>1 DEF Top, Last
  <1>3. \A i \in 0..n : /\ SubSeq(look.stack, 1, i) \in Seq(Frames) /\ Len(SubSeq(look.stack, 1, i)) = i
                        /\ \A j \in 1..i : SubSeq(look.stack, 1, i)[j] = look.stack[j]
    BY <1>1
  <1>4. n - 1 \in 0..n /\ Front(look.stack) = SubSeq(look.stack, 1, n - 1)
    BY <1>1 DEF Front
  <1>5. QED BY <1>1, <1>2, <1>3, <1>4, Zenon

LEMMA AdvanceAwaits ==
  ASSUME look \in Looks, look.stack # <<>>, Top.left # <<>>
  PROVE  /\ Advance \in Seq(Frames) /\ Advance # <<>> /\ Head(Top.left) \in TreePaths
         /\ \A r \in TreePaths : Awaited(look.stack, r) =>
              Awaited(Advance, r) \/ Head(Top.left) \in Above(r) \cup {r}
  <1> DEFINE n == Len(look.stack)
             frame == [Top EXCEPT !.left = Tail(@)]
  <1>1. Top \in Frames /\ Top.left \in Seq(TreePaths) /\ Len(Top.left) \in Nat \ {0}
    BY StackTop DEF Frames
  <1>2. /\ frame \in Frames /\ Head(Top.left) \in TreePaths /\ Head(Top.left) = Top.left[1]
        /\ Len(frame.left) = Len(Top.left) - 1
        /\ \A j \in 1..(Len(Top.left) - 1) : frame.left[j] = Top.left[j + 1]
    BY <1>1 DEF Frames
  <1>3. /\ Advance = Append(Front(look.stack), frame) /\ Advance \in Seq(Frames) /\ Len(Advance) = n
        /\ Advance[n] = frame /\ \A i \in 1..(n - 1) : Advance[i] = look.stack[i]
    BY <1>2, StackTop DEF Advance
  <1>4. ASSUME NEW r \in TreePaths, NEW i \in 1..n, NEW j \in 1..Len(look.stack[i].left),
               look.stack[i].left[j] \in Above(r) \cup {r}
        PROVE  Awaited(Advance, r) \/ Head(Top.left) \in Above(r) \cup {r}
    <2>1. CASE i < n
      BY <1>3, <1>4, <2>1, StackTop DEF Awaited
    <2>2. CASE i = n /\ j = 1
      BY <1>2, <1>4, <2>2, StackTop
    <2>3. CASE i = n /\ j > 1
      <3>1. look.stack[i] = Top /\ j \in 1..Len(Top.left)
        BY <2>3, StackTop
      <3>2. j - 1 \in 1..Len(frame.left) /\ frame.left[j - 1] = Top.left[j]
        BY <1>1, <1>2, <2>3, <3>1
      <3>3. n \in 1..Len(Advance) /\ Advance[n].left[j - 1] \in Above(r) \cup {r}
        BY <1>3, <1>4, <3>1, <3>2, StackTop
      <3>4. QED BY <1>3, <3>2, <3>3 DEF Awaited
    <2>4. QED BY <1>1, <2>1, <2>2, <2>3, StackTop
  <1>5. QED BY <1>2, <1>3, <1>4, StackTop DEF Awaited

LEMMA PushAwaits ==
  ASSUME NEW s \in Seq(Frames), NEW f \in Frames
  PROVE  /\ Append(s, f) \in Seq(Frames) /\ Append(s, f) # <<>>
         /\ \A r \in TreePaths : Awaited(s, r) => Awaited(Append(s, f), r)
         /\ \A r \in TreePaths : (\E j \in 1..Len(f.left) : f.left[j] \in Above(r) \cup {r}) => Awaited(Append(s, f), r)
  BY DEF Awaited

LEMMA PopAwaits ==
  ASSUME look \in Looks, look.stack # <<>>, Top.left = <<>>
  PROVE  \A r \in TreePaths : Awaited(look.stack, r) => Awaited(Front(look.stack), r)
  <1>1. \A i \in 1..Len(look.stack) : \A j \in 1..Len(look.stack[i].left) : i # Len(look.stack)
    BY StackTop
  <1>2. QED BY <1>1, StackTop DEF Awaited

(* An entry that is not a directory has nothing below it. *)
LEMMA NothingBelow ==
  ASSUME TInv, NEW p \in TreePaths, tree[p].kind # "directory", NEW r \in TreePaths, p \in Above(r)
  PROVE  EntryOf(r, Absent) \in stood.tree[r]
  BY TreeFacts DEF TInv, OfTree, OfHistory

LEMMA WalkEntryStep == ASSUME TInv, WalkEntry PROVE TInv'
  <1> USE DEF TInv
  <1> DEFINE p == Head(Top.left)
  <1>0. /\ Looking("walk") /\ look.stack # <<>> /\ look.open = Missing /\ Top.left # <<>>
        /\ look \in Looks /\ Covered
    BY ObserveAside DEF WalkEntry, OfWalk, OfLook
  <1>1. p \in TreePaths /\ tree[p] \in Nodes /\ Advance \in Seq(Frames) /\ Advance # <<>>
    BY <1>0, AdvanceAwaits, TreeFacts DEF OfTree
  <1>2. \A r \in TreePaths :
          IsRead(r) \/ Awaited(Advance, r) \/ EntryOf(r, Absent) \in stood.tree[r] \/ r = p \/ p \in Above(r)
    BY <1>0, AdvanceAwaits DEF Covered
  <1>3. tree[p].kind \in {"absent", "link", "directory", "file"}
    BY <1>1 DEF Nodes, NodeKinds
  <1>4. CASE tree[p].kind = "absent"
    BY <1>0, <1>4, ObserveAside, LookEnds DEF WalkEntry
  <1>5. CASE tree[p].kind = "link"
    <2>1. Recorded(EntryOf(p, tree[p]), Advance)
      BY <1>5 DEF WalkEntry
    <2>2. \A r \in TreePaths : r = p \/ IsRead(r) \/ Awaited(Advance, r) \/ EntryOf(r, Absent) \in stood.tree[r]
      BY <1>1, <1>2, <1>5, NothingBelow
    <2>3. QED BY <1>0, <1>1, <1>5, <2>1, <2>2, RecordedStep
  <1>6. CASE tree[p].kind = "directory"
    <2> DEFINE stack == Append(Advance, Listing(p))
    <2>1. Recorded(EntryOf(p, tree[p]), stack)
      BY <1>6 DEF WalkEntry
    <2>2. stack \in Seq(Frames) /\ stack # <<>>
      BY <1>1, <1>6, ListingReaches, PushAwaits
    <2>3. \A r \in TreePaths : p \in Above(r) => Awaited(stack, r) \/ EntryOf(r, Absent) \in stood.tree[r]
      BY <1>1, <1>6, ListingReaches, PushAwaits DEF OfHistory
    <2>4. \A r \in TreePaths : Awaited(Advance, r) => Awaited(stack, r)
      BY <1>1, <1>6, ListingReaches, PushAwaits
    <2>5. \A r \in TreePaths : r = p \/ IsRead(r) \/ Awaited(stack, r) \/ EntryOf(r, Absent) \in stood.tree[r]
      BY <1>2, <2>3, <2>4
    <2> HIDE DEF stack
    <2>6. QED BY <1>0, <1>1, <1>6, <2>1, <2>2, <2>5, RecordedStep
  <1>7. CASE tree[p].kind = "file"
    <2>1. look' = [look EXCEPT !.open = [tree[p] EXCEPT !.bytes = FirstHalf(@)]]
      BY <1>7 DEF WalkEntry
    <2>2. FirstHalf(tree[p].bytes) \in Bytes
      BY <1>1, Halves DEF Nodes
    <2>3. [tree[p] EXCEPT !.bytes = FirstHalf(@)] \in Nodes
      BY <1>1, <2>2 DEF Nodes
    <2>4. /\ look' \in Looks /\ look'.evidence = look.evidence /\ look'.reader = look.reader /\ look'.step = "walk"
          /\ look'.entries = look.entries /\ look'.stack = look.stack
          /\ look'.open = [tree[p] EXCEPT !.bytes = FirstHalf(@)]
          /\ look'.dirs = look.dirs
      BY <1>0, <2>1, <2>3, ObserveAside DEF OfLook, Looks
    <2>5. OfLook'
      BY <1>0, <2>4, ObserveAside DEF OfLook
    <2>6. OfOpen'
      <3>1. look'.open.kind = "file" /\ look'.open.stamp = tree[p].stamp
        BY <1>1, <1>7, <2>4 DEF Nodes
      <3>2. Top' = Top /\ Head(Top'.left) = p
        BY <2>4 DEF Top, Last
      <3>3. Clock' = Clock /\ tree' = tree
        BY <1>0, ObserveAside DEF Clock
      <3>4. look'.stack # <<>> /\ Top'.left # <<>> /\ tree[p].stamp < Clock
        BY <1>0, <1>1, <2>4, <3>2 DEF OfTree
      <3> HIDE DEF p
      <3>5. QED BY <2>4, <3>1, <3>2, <3>3, <3>4 DEF OfOpen
    <2>7. OfWalk'
      <3>1. EntriesStood' /\ Covered'
        BY <1>0, <2>4, ObserveAside DEF OfWalk, EntriesStood, HasStood, Covered, IsRead
      <3>2. QED BY <1>0, <2>4, <2>6, <3>1 DEF OfWalk
    <2>8. OfReading'
      BY <1>0, <2>4, ObserveAside DEF OfReading, Saw, SawPapers
    <2>9. QED BY <1>0, <2>5, <2>7, <2>8, ObserveAside, LookGoesOn
  <1>8. QED BY <1>3, <1>4, <1>5, <1>6, <1>7

(* A file whose stamp is the same at both readings was read as it stands. *)
LEMMA WholeFile ==
  ASSUME TInv, WalkFile,
         \/ ~Ends("changed")
         \/ tree[Head(Top.left)].kind = "file" /\ tree[Head(Top.left)].stamp = look.open.stamp
  PROVE  /\ Recorded(EntryOf(Head(Top.left), tree[Head(Top.left)]), Advance)
         /\ Head(Top.left) \in TreePaths /\ tree[Head(Top.left)].kind = "file"
  <1> USE DEF TInv
  <1> DEFINE p == Head(Top.left)
  <1>0. /\ Looking("walk") /\ look.open # Missing /\ look.stack # <<>> /\ Top.left # <<>>
        /\ look \in Looks /\ OfOpen
    BY ObserveAside DEF WalkFile, OfWalk, OfLook, OfOpen
  <1>1. p \in TreePaths /\ tree[p] \in Nodes
    BY <1>0, AdvanceAwaits, TreeFacts DEF OfTree
  <1>2. /\ tree[p].kind = "file" /\ tree[p].stamp = look.open.stamp
        /\ Recorded([EntryOf(p, look.open) EXCEPT !.bytes = @ \o After(tree[p].bytes, @)], Advance)
    BY DEF WalkFile
  <1>3. look.open = [tree[p] EXCEPT !.bytes = FirstHalf(@)]
    BY <1>0, <1>2 DEF OfOpen
  <1>4. [EntryOf(p, look.open) EXCEPT !.bytes = @ \o After(tree[p].bytes, @)] = EntryOf(p, tree[p])
    <2>1. /\ look.open.kind = tree[p].kind /\ look.open.executable = tree[p].executable
          /\ look.open.bytes = FirstHalf(tree[p].bytes)
      BY <1>1, <1>3 DEF Nodes
    <2>2. FirstHalf(tree[p].bytes) \o After(tree[p].bytes, FirstHalf(tree[p].bytes)) = tree[p].bytes
      BY <1>1, Halves DEF Nodes
    <2>3. [EntryOf(p, look.open) EXCEPT !.bytes = @ \o After(tree[p].bytes, @)] =
            [EntryOf(p, look.open) EXCEPT !.bytes =
               FirstHalf(tree[p].bytes) \o After(tree[p].bytes, FirstHalf(tree[p].bytes))]
      BY <2>1 DEF EntryOf
    <2>4. [EntryOf(p, look.open) EXCEPT !.bytes = tree[p].bytes] = EntryOf(p, tree[p])
      BY <2>1 DEF EntryOf
    <2>5. QED BY <2>2, <2>3, <2>4
  <1>5. QED BY <1>1, <1>2, <1>4

LEMMA WalkFileStep == ASSUME TInv, WalkFile PROVE TInv'
  <1> USE DEF TInv
  <1> DEFINE p == Head(Top.left)
  <1>0. /\ Looking("walk") /\ look.stack # <<>> /\ Top.left # <<>> /\ look \in Looks /\ Covered
    BY ObserveAside DEF WalkFile, OfWalk, OfLook, OfOpen
  <1>1. CASE Ends("changed")
    BY <1>0, <1>1, ObserveAside, LookEnds
  <1>2. CASE ~Ends("changed")
    <2>1. p \in TreePaths /\ Advance \in Seq(Frames) /\ Advance # <<>>
      BY <1>0, AdvanceAwaits
    <2>2. Recorded(EntryOf(p, tree[p]), Advance) /\ tree[p].kind = "file"
      BY <1>2, WholeFile
    <2>3. \A r \in TreePaths : r = p \/ IsRead(r) \/ Awaited(Advance, r) \/ EntryOf(r, Absent) \in stood.tree[r]
      BY <1>0, <2>1, <2>2, AdvanceAwaits, NothingBelow DEF Covered
    <2>4. QED BY <1>0, <2>1, <2>2, <2>3, RecordedStep
  <1>3. QED BY <1>1, <1>2

LEMMA WalkCloseStep == ASSUME TInv, WalkClose PROVE TInv'
  <1> USE DEF TInv
  <1>0. /\ Looking("walk") /\ look.open = Missing /\ look.stack # <<>> /\ Top.left = <<>>
        /\ look \in Looks /\ Covered
    BY ObserveAside DEF WalkClose, OfWalk, OfLook
  <1>1. CASE Ends("changed")
    BY <1>0, <1>1, ObserveAside, LookEnds
  <1>2. CASE ~Ends("changed") /\ Len(look.stack) > 1
    <2>1. look' = [look EXCEPT !.stack = Front(@)]
      BY <1>2 DEF WalkClose
    <2>2. Front(look.stack) \in Seq(Frames) /\ Front(look.stack) # <<>>
      BY <1>0, <1>2, StackTop
    <2>3. /\ look' \in Looks /\ look'.evidence = look.evidence /\ look'.reader = look.reader /\ look'.step = "walk"
          /\ look'.entries = look.entries /\ look'.stack = Front(look.stack) /\ look'.open = Missing
          /\ look'.dirs = look.dirs
      BY <1>0, <2>1, <2>2, ObserveAside DEF OfLook, Looks
    <2>4. OfLook'
      BY <1>0, <2>3, ObserveAside DEF OfLook
    <2>5. EntriesStood'
      BY <1>0, <2>3, ObserveAside DEF OfWalk, EntriesStood, HasStood
    <2>6. Covered'
      BY <1>0, <2>3, PopAwaits, ObserveAside DEF Covered, IsRead
    <2>7. OfWalk'
      BY <2>2, <2>3, <2>5, <2>6 DEF OfWalk, OfOpen
    <2>8. OfReading'
      BY <1>0, <2>3, ObserveAside DEF OfReading, Saw, SawPapers
    <2>9. QED BY <1>0, <2>4, <2>7, <2>8, ObserveAside, LookGoesOn
  <1>3. CASE ~Ends("changed") /\ ~(Len(look.stack) > 1)
    <2>1. Ends("good") /\ kept.manifest \in {Missing, look.entries}
      BY <1>3 DEF WalkClose
    <2>2. \A r \in TreePaths : ~Awaited(look.stack, r)
      BY <1>0, <1>3, StackTop DEF Awaited
    <2>3. ContentStood(look.entries)
      <3>1. ASSUME NEW r \in TreePaths PROVE Entry(look.entries, r) \in stood.tree[r]
        <4>1. \A f \in EntriesOf(look.entries) : HasStood(f)
          BY <1>0, ObserveAside DEF OfWalk, EntriesStood, EntriesOf
        <4>2. CASE \E f \in EntriesOf(look.entries) : f.path = r
          <5>1. EntryAt(look.entries, r) \in EntriesOf(look.entries) /\ EntryAt(look.entries, r).path = r
            BY <4>2, Zenon DEF EntryAt
          <5>2. QED BY <4>1, <4>2, <5>1 DEF Entry, HasStood
        <4>3. CASE ~ \E f \in EntriesOf(look.entries) : f.path = r
          <5>1. ~IsRead(r)
            BY <4>3 DEF IsRead, EntriesOf
          <5>2. QED BY <1>0, <2>2, <4>3, <5>1 DEF Entry, Covered
        <4>4. QED BY <4>2, <4>3
      <3>2. QED BY <3>1 DEF ContentStood
    <2>4. Saw /\ SawPapers
      BY <1>0, ObserveAside DEF OfReading
    <2>5. QED BY <1>0, <2>1, <2>3, <2>4, ObserveAside, LookEnds DEF SawContent
  <1>4. QED BY <1>1, <1>2, <1>3

LEMMA ObserveStep == ASSUME TInv, Observe PROVE TInv'
  BY ReadPlaceStep, ReadPapersStep, ValidateStep, WalkOpenStep, WalkEntryStep, WalkFileStep, WalkCloseStep, LookFailsStep
  DEF Observe

-----------------------------------------------------------------------------
(* The session's own steps. *)

LEMMA SteadyFacts ==
  ASSUME TInv, Steady, UNCHANGED metadata
  PROVE  /\ UNCHANGED <<tree, place, papers, installed, accounted, alone, stored, registration, faults>>
         /\ TreePaths' = TreePaths /\ Looks' = Looks /\ OfTree' /\ OfWorld'
  BY DEF Steady, world, metadata, TInv, OfTree, OfWorld, TreePaths, Clock, Looks, Frames

LEMMA RestFacts ==
  ASSUME TInv, Steady, Rest
  PROVE  /\ UNCHANGED <<metadata, stood, touched>> /\ OfHistory' /\ (NotRead' <=> NotRead)
         /\ \A m : ContentStood(m)' <=> ContentStood(m)
  BY SteadyFacts DEF Rest, history, TInv, OfHistory, ContentStood, NotRead

LEMMA NowHistory ==
  ASSUME TInv, Steady, UNCHANGED metadata, stood' = NowStood
  PROVE  OfHistory' /\ \A p \in TreePaths : stood'.tree[p] = {EntryOf(p, tree[p])}
  BY SteadyFacts DEF NowStood, TInv, OfHistory, OfWorld, Standing

LEMMA LookStarts ==
  ASSUME TInv, TreePaths' = TreePaths, NEW reader \in {"adoption", "check"}, Look(reader),
         \/ phase' \in Checking /\ reader = "check"
         \/ phase' \in Adopting /\ reader = "adoption"
  PROVE  OfLook' /\ OfWalk' /\ OfReading'
  <1>1. /\ look' \in Looks' /\ look'.step = "place" /\ look'.reader = reader
        /\ look'.entries = <<>> /\ look'.stack = <<>> /\ look'.open = Missing
    <2>1. <<>> \in Manifests /\ <<>> \in Seq(Frames')
      BY DEF Manifests
    <2>2. NoLook \in Looks'
      BY <2>1 DEF NoLook, Looks
    <2>3. look' = [NoLook EXCEPT !.step = "place", !.reader = reader]
      BY DEF Look
    <2>4. look' \in Looks' /\ look'.step = "place" /\ look'.reader = reader
      BY <2>2, <2>3 DEF Looks
    <2>5. QED BY <2>3, <2>4 DEF NoLook
  <1>2. QED BY <1>1 DEF OfLook, OfWalk, OfReading, Adopting, Checking

LEMMA NoLookThen ==
  ASSUME TInv, TreePaths' = TreePaths, look' = NoLook, phase' \notin Adopting \cup Checking
  PROVE  OfLook' /\ OfWalk' /\ OfReading'
  <1>1. look' \in Looks' /\ look'.step = "none"
    BY DEF NoLook, Looks, Frames, Manifests
  <1>2. QED BY <1>1 DEF OfLook, OfWalk, OfReading, NoLook

(* An operation that ends keeps nothing. *)
LEMMA Closing ==
  ASSUME TInv, Close, UNCHANGED <<world, allowed, metadata, history>>, faults' \in Nat
  PROVE  /\ OfTree' /\ OfWorld' /\ OfHistory' /\ OfLook' /\ OfWalk' /\ OfReading' /\ OfCheck'
         /\ answer' \in Answers => OfSession'
  <1> USE DEF TInv
  <1>1. /\ UNCHANGED <<tree, place, papers, installed, accounted, alone, stored, registration, stood>>
        /\ TreePaths' = TreePaths /\ phase' = "idle" /\ look' = NoLook /\ kept' = NoneKept /\ form' = NoForm
        /\ locked' = FALSE
    BY DEF world, metadata, history, TreePaths, Close
  <1>2. OfTree' /\ OfWorld' /\ OfHistory'
    BY <1>1 DEF OfTree, OfWorld, OfHistory, Clock
  <1>3. OfLook' /\ OfWalk' /\ OfReading'
    BY <1>1, NoLookThen DEF Adopting, Checking
  <1>4. OfCheck'
    BY <1>1 DEF OfCheck
  <1>5. NoneKept \in Keeps /\ NoForm \in Forms
    BY DEF NoneKept, NoForm, Keeps, Forms
  <1>6. answer' \in Answers => OfSession'
    BY <1>1, <1>5 DEF OfSession, Fresh, Previewed, Requested, NoneKept
  <1>7. QED BY <1>2, <1>3, <1>4, <1>6

LEMMA AnsweredStep ==
  ASSUME TInv, UNCHANGED <<world, allowed, metadata, history>>, faults' \in Nat,
         NEW a \in {"none", "refused", "cancelled"}, Answered(a)
  PROVE  TInv'
  <1>1. Close /\ answer' = a
    BY DEF Answered
  <1>2. OfAnswer'
    BY <1>1 DEF OfAnswer, PreviewStandsAfterFetch, VerifiedStood
  <1>3. QED BY <1>1, <1>2, Closing DEF TInv, Answers

LEMMA RefusedStep ==
  ASSUME TInv, Steady, Rest, Refused PROVE TInv'
  BY AnsweredStep DEF Refused, Steady, Rest, TInv, OfSession

LEMMA BeginAdoptionStep == ASSUME TInv, BeginAdoption PROVE TInv'
  <1> USE DEF TInv
  <1>1. /\ Steady /\ Rest /\ phase = "idle" /\ phase' = "form" /\ UNCHANGED <<look, kept, locked>> /\ answer' = "none"
        /\ form' = [NoForm EXCEPT !.evidence = ReadEvidence(papers)]
    BY DEF BeginAdoption
  <1>2. look' = NoLook
    BY <1>1 DEF OfLook, Adopting, Checking
  <1>3. OfLook' /\ OfWalk' /\ OfReading'
    BY <1>1, <1>2, NoLookThen, SteadyFacts DEF Rest, Adopting, Checking
  <1>4. form' \in Forms
    BY <1>1, EvidenceIsTyped DEF NoForm, Forms, OfWorld
  <1>5. OfSession'
    BY <1>1, <1>4, RestFacts, SteadyFacts DEF OfSession, Fresh, Previewed, Requested, Answers
  <1>6. OfCheck' /\ OfAnswer'
    BY <1>1 DEF OfCheck, OfAnswer, PreviewStandsAfterFetch, VerifiedStood
  <1>7. QED BY <1>1, <1>3, <1>5, <1>6, RestFacts, SteadyFacts DEF Rest

LEMMA PreviewAdoptionStep == ASSUME TInv, PreviewAdoption PROVE TInv'
  <1> USE DEF TInv
  <1>1. /\ Steady /\ phase = "form" /\ phase' = "planning" /\ UNCHANGED <<kept, locked, answer, metadata>>
        /\ Look("adoption") /\ Mark
    BY DEF PreviewAdoption
  <1>2. form' \in Forms /\ form'.origin \in Origins
    BY DEF PreviewAdoption, OfSession, Forms
  <1>3. OfLook' /\ OfWalk' /\ OfReading'
    BY <1>1, LookStarts, SteadyFacts DEF Adopting
  <1>4. OfHistory'
    BY <1>1, NowHistory DEF Mark
  <1>5. OfSession'
    BY <1>1, <1>2, SteadyFacts DEF OfSession, Fresh, Previewed, Requested, Answers
  <1>6. OfCheck' /\ OfAnswer'
    BY <1>1 DEF OfCheck, OfAnswer, PreviewStandsAfterFetch, VerifiedStood, OfSession
  <1>7. QED BY <1>1, <1>3, <1>4, <1>5, <1>6, SteadyFacts

(* What a look that went well gives a session to keep. *)
LEMMA GoodLook ==
  ASSUME TInv, look.step = "done", Good
  PROVE  /\ phase \in Adopting \cup Checking /\ Saw /\ SawPapers /\ SawContent
         /\ look.entries \in Manifests /\ look.dirs \in {"ours", "moved"}
         /\ look.reader = "adoption" => look.evidence \in Evidences
  <1> USE DEF TInv
  <1>1. Saw /\ SawPapers /\ SawContent
    BY DEF OfReading, Good
  <1>2. look.reader = "adoption" => look.evidence \in Evidences
    BY <1>1, EvidenceIsTyped DEF SawPapers, OfHistory
  <1>3. QED BY <1>1, <1>2, LookIsUnderWay DEF OfLook, Looks, Saw

LEMMA PlannedStep == ASSUME TInv, Planned PROVE TInv'
  <1> USE DEF TInv
  <1>1. Steady /\ Rest /\ phase = "planning" /\ look.step = "done" /\ UNCHANGED <<form, locked, answer>>
    BY DEF Planned, Concluded
  <1>2. CASE BackToForm
    <2>1. phase' = "form" /\ look' = NoLook /\ kept' = NoneKept
      BY <1>2 DEF BackToForm
    <2>2. NoneKept \in Keeps /\ NoneKept.evidence = Missing /\ NoneKept.dirs = Missing /\ NoneKept.manifest = Missing
      BY DEF NoneKept, Keeps
    <2>3. OfLook' /\ OfWalk' /\ OfReading'
      BY <1>1, <2>1, NoLookThen, SteadyFacts DEF Rest, Adopting, Checking
    <2>4. OfSession'
      BY <1>1, <2>1, <2>2, RestFacts, SteadyFacts DEF OfSession, Fresh, Previewed, Requested, Answers
    <2>5. OfCheck' /\ OfAnswer'
      BY <1>1, <2>1 DEF OfCheck, OfAnswer, PreviewStandsAfterFetch, VerifiedStood, OfSession
    <2>6. QED BY <1>1, <2>3, <2>4, <2>5, RestFacts, SteadyFacts DEF Rest
  <1>3. CASE ~BackToForm
    <2>1. Good /\ Resolves(look.evidence, form.origin) /\ phase' = "replanning" /\ kept' = Expecting /\ Look("adoption")
      BY <1>3 DEF Planned
    <2>2. look.reader = "adoption"
      BY <1>1 DEF OfLook, Adopting
    <2>3. /\ Expecting \in Keeps /\ Expecting.evidence = look.evidence /\ Expecting.evidence # Missing
          /\ Expecting.dirs # Missing /\ Expecting.manifest # Missing
      BY <1>1, <2>1, <2>2, GoodLook, MissingIsApart DEF Expecting, NoneKept, Keeps, Places
    <2>4. OfLook' /\ OfWalk' /\ OfReading'
      BY <1>1, <2>1, LookStarts, SteadyFacts DEF Rest, Adopting
    <2>5. OfSession'
      BY <1>1, <2>1, <2>3, RestFacts, SteadyFacts DEF OfSession, Fresh, Previewed, Requested, Answers
    <2>6. OfCheck' /\ OfAnswer'
      BY <1>1, <2>1 DEF OfCheck, OfAnswer, PreviewStandsAfterFetch, VerifiedStood, OfSession
    <2>7. QED BY <1>1, <2>4, <2>5, <2>6, RestFacts, SteadyFacts DEF Rest
  <1>4. QED BY <1>2, <1>3

LEMMA ReplannedStep == ASSUME TInv, Replanned PROVE TInv'
  <1> USE DEF TInv
  <1>1. /\ Steady /\ Rest /\ phase = "replanning" /\ look.step = "done" /\ UNCHANGED <<form, locked, answer>>
        /\ look' = NoLook
    BY DEF Replanned, Concluded, BackToForm
  <1>2. \/ phase' = "form" /\ kept' = NoneKept
        \/ phase' = "confirming" /\ kept' = kept
    BY DEF Replanned, BackToForm
  <1>3. NoneKept \in Keeps /\ NoneKept.evidence = Missing /\ NoneKept.dirs = Missing /\ NoneKept.manifest = Missing
    BY DEF NoneKept, Keeps
  <1>4. OfLook' /\ OfWalk' /\ OfReading'
    BY <1>1, <1>2, NoLookThen, SteadyFacts DEF Rest, Adopting, Checking
  <1>5. OfSession'
    BY <1>1, <1>2, <1>3, RestFacts, SteadyFacts DEF OfSession, Fresh, Previewed, Requested, Answers
  <1>6. OfCheck' /\ OfAnswer'
    BY <1>1, <1>2 DEF OfCheck, OfAnswer, PreviewStandsAfterFetch, VerifiedStood, OfSession
  <1>7. QED BY <1>1, <1>4, <1>5, <1>6, RestFacts, SteadyFacts DEF Rest

LEMMA ConfirmAdoptionStep == ASSUME TInv, ConfirmAdoption PROVE TInv'
  <1> USE DEF TInv
  <1>1. Steady /\ Rest /\ phase = "confirming"
    BY DEF ConfirmAdoption
  <1>2. CASE Refused
    BY <1>1, <1>2, RefusedStep
  <1>3. CASE ~Refused
    <2>1. /\ registration = "current" /\ phase' = "applying" /\ locked' = TRUE /\ Look("adoption")
          /\ UNCHANGED <<form, kept, answer>>
      BY <1>3 DEF ConfirmAdoption
    <2>2. OfLook' /\ OfWalk' /\ OfReading'
      BY <1>1, <2>1, LookStarts, SteadyFacts DEF Rest, Adopting
    <2>3. OfSession'
      BY <1>1, <2>1, RestFacts, SteadyFacts DEF OfSession, Fresh, Previewed, Requested, Answers, Rest
    <2>4. OfCheck' /\ OfAnswer'
      BY <1>1, <2>1 DEF OfCheck, OfAnswer, PreviewStandsAfterFetch, VerifiedStood, OfSession
    <2>5. QED BY <1>1, <2>2, <2>3, <2>4, RestFacts, SteadyFacts DEF Rest
  <1>4. QED BY <1>2, <1>3

LEMMA RecordOriginStep == ASSUME TInv, RecordOrigin PROVE TInv'
  <1> USE DEF TInv
  <1>1. Steady /\ UNCHANGED metadata /\ phase = "applying" /\ look.step = "done"
    BY DEF RecordOrigin, Concluded
  <1>2. CASE Refused /\ UNCHANGED history
    BY <1>1, <1>2, RefusedStep DEF Rest
  <1>3. CASE ~(Refused /\ UNCHANGED history)
    <2>1. /\ Good /\ stored = Missing /\ phase' = "recording" /\ Look("adoption") /\ Mark
          /\ UNCHANGED <<form, kept, locked, answer>>
      BY <1>3 DEF RecordOrigin
    <2>2. OfLook' /\ OfWalk' /\ OfReading'
      BY <1>1, <2>1, LookStarts, SteadyFacts DEF Adopting
    <2>3. OfHistory'
      BY <1>1, <2>1, NowHistory DEF Mark
    <2>4. OfSession'
      BY <1>1, <2>1, SteadyFacts DEF OfSession, Fresh, Previewed, Requested, Answers
    <2>5. OfCheck' /\ OfAnswer'
      BY <1>1, <2>1 DEF OfCheck, OfAnswer, PreviewStandsAfterFetch, VerifiedStood, OfSession
    <2>6. QED BY <1>1, <2>2, <2>3, <2>4, <2>5, SteadyFacts
  <1>4. QED BY <1>2, <1>3

LEMMA CommitOriginStep == ASSUME TInv, CommitOrigin PROVE TInv'
  <1> USE DEF TInv
  <1>1. Steady /\ UNCHANGED registration /\ phase = "recording" /\ look.step = "done"
    BY DEF CommitOrigin, Concluded
  <1>2. CASE Refused /\ UNCHANGED <<stored, history>>
    BY <1>1, <1>2, RefusedStep DEF Rest, metadata
  <1>3. CASE ~(Refused /\ UNCHANGED <<stored, history>>)
    <2>1. /\ Good /\ stored' = Association /\ locked' = FALSE /\ phase' = "saved" /\ look' = NoLook
          /\ stood' = [NowStood EXCEPT !.record = {Association}] /\ UNCHANGED <<form, kept, answer>>
      BY <1>3 DEF CommitOrigin
    <2>2. /\ UNCHANGED <<tree, place, papers, installed, accounted, alone, faults, allowed>>
          /\ TreePaths' = TreePaths
      BY <1>1 DEF Steady, world, TreePaths
    <2>3. Association \in Associations
      BY <1>1 DEF OfSession, Previewed, Keeps, Association, Associations
    <2>4. OfTree' /\ OfWorld'
      BY <1>1, <2>1, <2>2, <2>3 DEF OfTree, OfWorld, Clock
    <2>5. OfHistory'
      BY <1>1, <2>1, <2>2 DEF OfHistory, NowStood, Standing, OfWorld
    <2>6. OfLook' /\ OfWalk' /\ OfReading'
      BY <2>1, <2>2, NoLookThen DEF Adopting, Checking
    <2>7. OfSession'
      BY <1>1, <2>1, <2>2 DEF OfSession, Fresh, Previewed, Requested, Answers
    <2>8. OfCheck' /\ OfAnswer'
      BY <1>1, <2>1 DEF OfCheck, OfAnswer, PreviewStandsAfterFetch, VerifiedStood, OfSession
    <2>9. QED BY <2>4, <2>5, <2>6, <2>7, <2>8
  <1>4. QED BY <1>2, <1>3

(* What is reported of a saved baseline. *)
LEMMA ReportedStep ==
  ASSUME TInv, Steady, Rest, NEW v \in {"verified", "failed", "incomplete"}, Reported(v),
         v = "incomplete" => NotRead,
         v = "verified" =>
           /\ Association \in stood.record /\ kept.dirs \in stood.place
           /\ \E q \in stood.papers : ReadEvidence(q) = kept.evidence
           /\ ContentStood(kept.manifest)
  PROVE  TInv'
  <1> USE DEF TInv
  <1>1. Close /\ answer' = v /\ basis' = [kept EXCEPT !.record = Association]
    BY DEF Reported
  <1>2. /\ basis'.record = Association /\ basis'.dirs = kept.dirs /\ basis'.evidence = kept.evidence
        /\ basis'.manifest = kept.manifest
    BY <1>1 DEF OfSession, Keeps
  <1>3. OfAnswer'
    BY <1>1, <1>2, RestFacts DEF OfAnswer, PreviewStandsAfterFetch, VerifiedStood
  <1>4. QED BY <1>1, <1>3, Closing DEF Steady, Rest, OfSession, Answers

LEMMA VerifyRecordStep == ASSUME TInv, VerifyRecord PROVE TInv'
  <1> USE DEF TInv
  <1>1. Steady /\ Rest /\ phase = "saved"
    BY DEF VerifyRecord
  <1>2. CASE Reported("failed")
    BY <1>1, <1>2, ReportedStep
  <1>3. CASE ~Reported("failed")
    <2>1. stored = Association /\ phase' = "verifying" /\ Look("adoption") /\ UNCHANGED <<form, kept, locked, answer>>
      BY <1>3 DEF VerifyRecord
    <2>2. OfLook' /\ OfWalk' /\ OfReading'
      BY <1>1, <2>1, LookStarts, SteadyFacts DEF Rest, Adopting
    <2>3. Association' = Association /\ Association \in stood'.record
      BY <1>1, <2>1, RestFacts DEF Association, OfHistory
    <2>4. OfSession'
      BY <1>1, <2>1, <2>3, RestFacts, SteadyFacts DEF OfSession, Fresh, Previewed, Requested, Answers, Rest
    <2>5. OfCheck' /\ OfAnswer'
      BY <1>1, <2>1 DEF OfCheck, OfAnswer, PreviewStandsAfterFetch, VerifiedStood, OfSession
    <2>6. QED BY <1>1, <2>2, <2>4, <2>5, RestFacts, SteadyFacts DEF Rest
  <1>4. QED BY <1>2, <1>3

LEMMA VerifyContentStep == ASSUME TInv, VerifyContent PROVE TInv'
  <1> USE DEF TInv
  <1>1. /\ Steady /\ Rest /\ phase = "verifying" /\ look.step = "done" /\ Reported(VerdictOf[look.result])
        /\ look.reader = "adoption" /\ look.result \in {"good", "changed", "unavailable"}
    BY DEF VerifyContent, Concluded, OfLook, Adopting, OfReading
  <1>2. CASE look.result = "good"
    <2>1. Good /\ VerdictOf[look.result] = "verified"
      BY <1>2 DEF Good, VerdictOf
    <2>2. kept.manifest # Missing /\ kept.dirs # Missing /\ kept.evidence # Missing /\ Association \in stood.record
      BY <1>1 DEF OfSession, Previewed
    <2>3. /\ kept.dirs \in stood.place /\ ContentStood(kept.manifest)
          /\ \E q \in stood.papers : ReadEvidence(q) = kept.evidence
      BY <1>1, <2>1, <2>2, GoodLook DEF Saw, SawPapers, SawContent
    <2>4. QED BY <1>1, <2>1, <2>2, <2>3, ReportedStep
  <1>3. CASE look.result = "changed"
    BY <1>1, <1>3, ReportedStep DEF VerdictOf
  <1>4. CASE look.result = "unavailable"
    BY <1>1, <1>4, ReportedStep DEF VerdictOf, OfReading
  <1>5. QED BY <1>1, <1>2, <1>3, <1>4

LEMMA AdoptionStep == ASSUME TInv, Adoption PROVE TInv'
  <1>1. CASE LeaveAdoption
    BY <1>1, AnsweredStep DEF LeaveAdoption, Steady, Rest, TInv, OfSession
  <1>2. QED BY <1>1, BeginAdoptionStep, PreviewAdoptionStep, PlannedStep, ReplannedStep, ConfirmAdoptionStep,
               RecordOriginStep, CommitOriginStep, VerifyRecordStep, VerifyContentStep DEF Adoption

LEMMA BeginCheckStep == ASSUME TInv, BeginCheck PROVE TInv'
  <1> USE DEF TInv
  <1>1. /\ Steady /\ UNCHANGED <<metadata, form, locked>> /\ phase = "idle" /\ phase' = "preparing"
        /\ Look("check") /\ Mark /\ stored # Missing /\ answer' = "none"
    BY DEF BeginCheck
  <1>2. PICK named \in {FALSE, alone} :
          kept' = [NoneKept EXCEPT !.record = stored, !.links = installed, !.whole = accounted, !.named = named]
    BY DEF BeginCheck
  <1>3. kept' \in Keeps /\ kept'.evidence = Missing /\ kept'.dirs = Missing /\ kept'.manifest = Missing
    BY <1>2 DEF NoneKept, Keeps, OfWorld
  <1>4. OfLook' /\ OfWalk' /\ OfReading'
    BY <1>1, LookStarts, SteadyFacts DEF Checking
  <1>5. OfHistory'
    BY <1>1, NowHistory DEF Mark
  <1>6. OfSession'
    BY <1>1, <1>3, SteadyFacts DEF OfSession, Fresh, Previewed, Requested, Answers
  <1>7. OfCheck' /\ OfAnswer'
    BY <1>1 DEF OfCheck, OfAnswer, PreviewStandsAfterFetch, VerifiedStood
  <1>8. QED BY <1>1, <1>4, <1>5, <1>6, <1>7, SteadyFacts

LEMMA PreparedStep == ASSUME TInv, Prepared PROVE TInv'
  <1> USE DEF TInv
  <1>1. Steady /\ Rest /\ phase = "preparing" /\ look.step = "done"
    BY DEF Prepared, Concluded
  <1>2. CASE Refused
    BY <1>1, <1>2, RefusedStep
  <1>3. CASE ~Refused
    <2>1. /\ Good /\ look.entries = kept.record.baseline /\ place # "gone" /\ phase' = "asking" /\ look' = NoLook
          /\ kept' = [kept EXCEPT !.manifest = look.entries, !.dirs = place] /\ UNCHANGED <<form, locked, answer>>
      BY <1>3 DEF Prepared
    <2>2. /\ kept' \in Keeps /\ kept'.evidence = kept.evidence /\ kept'.dirs = place
          /\ kept'.manifest = look.entries /\ kept'.record = kept.record
      BY <1>1, <2>1, GoodLook DEF OfSession, Keeps, OfWorld
    <2>3. look.entries # Missing /\ place # Missing
      BY <1>1, <2>1, GoodLook, MissingIsApart DEF OfWorld
    <2>4. OfLook' /\ OfWalk' /\ OfReading'
      BY <1>1, <2>1, NoLookThen, SteadyFacts DEF Rest, Adopting, Checking
    <2>5. OfSession'
      BY <1>1, <2>1, <2>2, <2>3, RestFacts, SteadyFacts DEF OfSession, Fresh, Previewed, Requested, Answers
    <2>6. OfCheck' /\ OfAnswer'
      BY <1>1, <2>1 DEF OfCheck, OfAnswer, PreviewStandsAfterFetch, VerifiedStood, OfSession
    <2>7. QED BY <1>1, <2>4, <2>5, <2>6, RestFacts, SteadyFacts DEF Rest
  <1>4. QED BY <1>2, <1>3

(* Between two observations a request goes on as it is, with what it has established. *)
LEMMA RequestGoesOn ==
  ASSUME TInv, Steady, Rest, phase \in Requested, phase' \in Requested, UNCHANGED <<form, kept, locked, answer>>,
         OfLook', OfWalk', OfReading', OfCheck'
  PROVE  TInv'
  <1> USE DEF TInv
  <1>1. OfSession'
    BY RestFacts, SteadyFacts DEF OfSession, Fresh, Previewed, Requested, Answers
  <1>2. OfAnswer'
    BY DEF OfAnswer, PreviewStandsAfterFetch, VerifiedStood, OfSession, Requested
  <1>3. QED BY <1>1, <1>2, RestFacts, SteadyFacts DEF Rest

LEMMA RecheckRequestStep ==
  ASSUME TInv, NEW stage, NEW next, RecheckRequest(stage, next),
         <<stage, next>> \in {<<"asking", "rechecking">>, <<"answered", "comparing">>}
  PROVE  TInv'
  <1> USE DEF TInv
  <1>1. Steady /\ Rest /\ phase = stage
    BY DEF RecheckRequest
  <1>2. CASE Refused
    BY <1>1, <1>2, RefusedStep
  <1>3. CASE ~Refused
    <2>1. RequestHolds /\ phase' = next /\ Look("check") /\ UNCHANGED <<form, kept, locked, answer>>
      BY <1>3 DEF RecheckRequest
    <2>2. OfLook' /\ OfWalk' /\ OfReading'
      BY <1>1, <2>1, LookStarts, SteadyFacts DEF Rest, Checking
    <2>3. OfCheck'
      BY <1>1, <2>1, RestFacts DEF OfCheck, OfHistory, RequestHolds
    <2>4. QED BY <1>1, <2>1, <2>2, <2>3, RequestGoesOn DEF Requested
  <1>4. QED BY <1>2, <1>3

LEMMA RecheckedStep ==
  ASSUME TInv, NEW stage, NEW next, Rechecked(stage, next),
         <<stage, next>> \in {<<"rechecking", "fetching">>, <<"comparing", "scanning">>}
  PROVE  TInv'
  <1> USE DEF TInv
  <1>1. Steady /\ Rest /\ phase = stage /\ look.step = "done"
    BY DEF Rechecked, Concluded
  <1>2. CASE Refused
    BY <1>1, <1>2, RefusedStep
  <1>3. CASE ~Refused
    <2>1. Good /\ phase' = next /\ look' = NoLook /\ UNCHANGED <<form, kept, locked, answer>>
      BY <1>3 DEF Rechecked, Step
    <2>2. OfLook' /\ OfWalk' /\ OfReading'
      BY <1>1, <2>1, NoLookThen, SteadyFacts DEF Rest, Adopting, Checking
    <2>3. kept.dirs \in stood.place /\ ContentStood(kept.manifest)
      BY <1>1, <2>1, GoodLook DEF Saw, SawContent, OfSession, Requested
    <2>4. OfCheck'
      BY <1>1, <2>1, <2>3, RestFacts DEF OfCheck
    <2>5. QED BY <1>1, <2>1, <2>2, <2>4, RequestGoesOn DEF Requested
  <1>4. QED BY <1>2, <1>3

LEMMA CancelStep == ASSUME TInv, Cancel PROVE TInv'
  <1> USE DEF TInv
  <1>1. /\ Steady /\ Rest /\ phase \in Requested /\ phase' = phase
        /\ UNCHANGED <<phase, look, form, kept, locked, answer>>
    BY DEF Cancel, Requested
  <1>2. /\ UNCHANGED <<tree, allowed, stood, faults>> /\ TreePaths' = TreePaths
    BY <1>1, SteadyFacts, RestFacts DEF Steady, Rest
  <1>3. OfLook'
    BY <1>1, <1>2 DEF OfLook, Looks, Frames
  <1>4. OfWalk'
    BY <1>1, <1>2 DEF OfWalk, EntriesStood, HasStood, Covered, IsRead, OfOpen, Top, Last, Clock
  <1>5. OfReading'
    BY <1>1, <1>2, RestFacts DEF OfReading, Saw, SawPapers, SawContent, NotRead
  <1>6. OfCheck'
    BY <1>1, RestFacts DEF OfCheck
  <1>7. QED BY <1>1, <1>3, <1>4, <1>5, <1>6, RequestGoesOn

LEMMA FetchStep == ASSUME TInv, Fetch PROVE TInv'
  <1> USE DEF TInv
  <1>1. Steady /\ UNCHANGED metadata /\ phase = "fetching"
    BY DEF Fetch
  <1>2. CASE Answered("cancelled") /\ UNCHANGED history
    BY <1>1, <1>2, AnsweredStep DEF Steady, OfSession
  <1>3. CASE ~(Answered("cancelled") /\ UNCHANGED history)
    <2>1. phase' = "objects" /\ Mark /\ UNCHANGED <<look, form, kept, locked, answer>>
      BY <1>3 DEF Fetch
    <2>2. look' = NoLook
      BY <1>1, <2>1 DEF OfLook, Adopting, Checking
    <2>3. OfLook' /\ OfWalk' /\ OfReading'
      BY <1>1, <2>1, <2>2, NoLookThen, SteadyFacts DEF Adopting, Checking
    <2>4. OfHistory'
      BY <1>1, <2>1, NowHistory DEF Mark
    <2>5. OfSession'
      BY <1>1, <2>1, SteadyFacts DEF OfSession, Fresh, Previewed, Requested, Answers
    <2>6. OfCheck' /\ OfAnswer'
      BY <1>1, <2>1 DEF OfCheck, OfAnswer, PreviewStandsAfterFetch, VerifiedStood, OfSession
    <2>7. QED BY <1>1, <2>3, <2>4, <2>5, <2>6, SteadyFacts
  <1>4. QED BY <1>2, <1>3

LEMMA ReadObjectsStep == ASSUME TInv, ReadObjects PROVE TInv'
  <1> USE DEF TInv
  <1>1. Steady /\ Rest /\ phase = "objects"
    BY DEF ReadObjects
  <1>2. CASE Refused
    BY <1>1, <1>2, RefusedStep
  <1>3. CASE ~Refused
    <2>1. phase' = "answered" /\ look' = NoLook /\ UNCHANGED <<form, kept, locked, answer>>
      BY <1>3 DEF ReadObjects, Step
    <2>2. OfLook' /\ OfWalk' /\ OfReading'
      BY <1>1, <2>1, NoLookThen, SteadyFacts DEF Rest, Adopting, Checking
    <2>3. OfCheck'
      BY <2>1 DEF OfCheck
    <2>4. QED BY <1>1, <2>1, <2>2, <2>3, RequestGoesOn DEF Requested
  <1>4. QED BY <1>2, <1>3

LEMMA RecheckInstallationsStep == ASSUME TInv, RecheckInstallations PROVE TInv'
  <1> USE DEF TInv
  <1>1. Steady /\ Rest /\ phase = "scanning"
    BY DEF RecheckInstallations
  <1>2. CASE Refused
    BY <1>1, <1>2, RefusedStep
  <1>3. CASE ~Refused
    <2>1. InstallationsHold /\ phase' = "building" /\ look' = NoLook /\ UNCHANGED <<form, kept, locked, answer>>
      BY <1>3 DEF RecheckInstallations, Step
    <2>2. OfLook' /\ OfWalk' /\ OfReading'
      BY <1>1, <2>1, NoLookThen, SteadyFacts DEF Rest, Adopting, Checking
    <2>3. OfCheck'
      BY <1>1, <2>1, RestFacts DEF OfCheck, InstallationsHold, OfHistory
    <2>4. QED BY <1>1, <2>1, <2>2, <2>3, RequestGoesOn DEF Requested
  <1>4. QED BY <1>2, <1>3

LEMMA BuildStep == ASSUME TInv, Build PROVE TInv'
  <1> USE DEF TInv
  <1>1. Steady /\ Rest /\ phase = "building"
    BY DEF Build
  <1>2. CASE Refused
    BY <1>1, <1>2, RefusedStep
  <1>3. CASE ~Refused
    <2>1. Close /\ answer' = "preview" /\ basis'.kept = kept
      BY <1>3 DEF Build
    <2>2. /\ kept.record \in stood.record /\ "current" \in stood.registration
          /\ kept.dirs \in stood.place /\ ContentStood(kept.manifest) /\ kept.links \in stood.installed
          /\ kept.record.baseline = kept.manifest
      BY <1>1 DEF OfCheck, OfSession, Requested
    <2>3. OfAnswer'
      BY <1>1, <2>1, <2>2, RestFacts DEF OfAnswer, PreviewStandsAfterFetch, VerifiedStood
    <2>4. QED BY <1>1, <2>1, <2>3, Closing DEF Steady, Rest, OfSession, Answers
  <1>4. QED BY <1>2, <1>3

LEMMA CheckStep == ASSUME TInv, Check PROVE TInv'
  <1>1. CASE FetchFails
    <2>1. UNCHANGED <<world, allowed, metadata, history>> /\ faults' \in Nat /\ Answered("refused")
      BY <1>1 DEF FetchFails, Rest, Refused, TInv, OfSession
    <2>2. QED BY <2>1, AnsweredStep
  <1>2. CASE RecheckBefore \/ RecheckAfter
    <2>1. CASE RecheckRequest("asking", "rechecking")
      BY <2>1, RecheckRequestStep
    <2>2. CASE RecheckRequest("answered", "comparing")
      BY <2>2, RecheckRequestStep
    <2>3. CASE Rechecked("rechecking", "fetching")
      BY <2>3, RecheckedStep
    <2>4. CASE Rechecked("comparing", "scanning")
      BY <2>4, RecheckedStep
    <2>5. QED BY <1>2, <2>1, <2>2, <2>3, <2>4 DEF RecheckBefore, RecheckAfter
  <1>3. QED BY <1>1, <1>2, BeginCheckStep, PreparedStep, CancelStep, FetchStep,
               ReadObjectsStep, RecheckInstallationsStep, BuildStep DEF Check

LEMMA TInvInit == ASSUME TrackingInit PROVE TInv
  <1>0. PICK i \in 1..Len(Worlds) : \E w \in Worlds[i] :
          tree = w.tree /\ papers = w.papers /\ stored = w.record /\ allowed = w.allowed
    BY DEF TrackingInit
  <1>1. PICK w \in Worlds[i] :
          tree = w.tree /\ papers = w.papers /\ stored = w.record /\ allowed = w.allowed
    BY <1>0
  <1>2. IsWorld(w)
    BY <1>1, WorldsAssumption
  <1>3. /\ phase = "idle" /\ look = NoLook /\ form = NoForm /\ kept = NoneKept /\ locked = FALSE
        /\ answer = "none" /\ faults = 0 /\ stood = NowStood /\ place = "ours" /\ registration = "current"
        /\ accounted = TRUE /\ alone = TRUE /\ installed = Links
    BY DEF TrackingInit
  <1>4. OfTree
    <2>1. Clock \in Nat /\ Clock > 0
      BY <1>1, <1>2, BoundsAssumption DEF IsWorld, Permissions, Clock
    <2>2. QED BY <1>1, <1>2, <2>1 DEF OfTree, IsWorld, TreePaths
  <1>5. OfWorld
    BY <1>1, <1>2, <1>3 DEF OfWorld, IsWorld, Places
  <1>6. OfHistory
    BY <1>3, <1>5 DEF OfHistory, NowStood, Standing, OfWorld
  <1>7. OfLook /\ OfWalk /\ OfReading
    <2>1. <<>> \in Manifests /\ <<>> \in Seq(Frames)
      BY DEF Manifests
    <2>2. NoLook \in Looks
      BY <2>1 DEF NoLook, Looks
    <2>3. QED BY <1>3, <2>2 DEF OfLook, OfWalk, OfReading, NoLook, Adopting, Checking
  <1>8. OfSession
    <2>1. NoneKept \in Keeps /\ NoForm \in Forms
      BY DEF NoneKept, NoForm, Keeps, Forms
    <2>2. QED BY <1>3, <2>1 DEF OfSession, Fresh, Previewed, Requested, Answers, NoneKept
  <1>9. OfCheck /\ OfAnswer
    BY <1>3 DEF OfCheck, OfAnswer, PreviewStandsAfterFetch, VerifiedStood
  <1>10. QED BY <1>4, <1>5, <1>6, <1>7, <1>8, <1>9 DEF TInv

LEMMA TInvStutters == ASSUME TInv, UNCHANGED trackingVars PROVE TInv'
  <1> USE DEF trackingVars, session
  <1>1. UNCHANGED Aside /\ UNCHANGED <<faults, look, tree, stood, kept, allowed, phase>>
    BY DEF Aside, world, history
  <1>2. OfLook' /\ OfWalk' /\ OfReading'
    BY <1>1 DEF TInv, OfLook, Looks, Frames, TreePaths, OfWalk, EntriesStood, HasStood, Covered, IsRead, OfOpen, Top, Last,
                Clock, OfReading, Saw, SawPapers, SawContent, ContentStood, NotRead
  <1>3. QED BY <1>1, <1>2, LookGoesOn

(* The strengthening is an invariant: a walk has read or still awaits every entry, and by *)
(* phase, what the session keeps and what of it has stood since the mark (adoption.rs,     *)
(* vendored.rs check).                                                                     *)
THEOREM TrackingInvariance == TrackingSpec => []TInv
  <1>1. TInv /\ [TrackingNext]_trackingVars => TInv'
    BY OthersStep, ObserveStep, AdoptionStep, CheckStep, TInvStutters DEF TrackingNext
  <1>2. QED BY TInvInit, <1>1, PTL DEF TrackingSpec

(* However long the fetch took and whoever wrote meanwhile: what a preview was built from    *)
(* stood at some moment after the fetch had ended, the association, the registration, the    *)
(* directories, every file and the installations (check, recheck_request).                   *)
THEOREM PreviewStands == TrackingSpec => []PreviewStandsAfterFetch
  <1>1. TInv => PreviewStandsAfterFetch
    BY DEF TInv, OfAnswer
  <1>2. QED BY <1>1, TrackingInvariance, PTL

LEMMA SessionEndsNoWalk ==
  ASSUME Adoption \/ Check PROVE look' = look \/ look'.step \in {"none", "place"}
  <1>1. ASSUME NEW reader, Look(reader) PROVE look'.step = "place"
    BY <1>1 DEF Look, NoLook
  <1>2. ASSUME look' = NoLook PROVE look'.step = "none"
    BY <1>2 DEF NoLook
  <1>3. CASE Adoption
    BY <1>1, <1>2, <1>3 DEF Adoption, BeginAdoption, LeaveAdoption, PreviewAdoption, Planned, Replanned, ConfirmAdoption,
      RecordOrigin, CommitOrigin, VerifyRecord, VerifyContent, BackToForm, Refused, Reported, Answered, Close
  <1>4. CASE Check
    BY <1>1, <1>2, <1>4 DEF Check, BeginCheck, Prepared, RecheckBefore, Cancel, Fetch, FetchFails, ReadObjects,
      RecheckAfter, RecheckInstallations, Build, RecheckRequest, Rechecked, Step, Refused, Answered, Close
  <1>5. QED BY <1>3, <1>4

(* Of any tree and any writing during the walk: each entry of a manifest that a walk returns, *)
(* and each path it does not list, stood so at one moment since the operation last marked     *)
(* what stands, at or before the walk's first entry, no file half of one writing and half of  *)
(* the next (hash_directory_bound, hash_file_bound).                                          *)
THEOREM WalksAreWhole == TrackingSpec => ManifestIsWhole
  <1>1. TInv /\ TInv' /\ [TrackingNext]_trackingVars =>
          [look.step = "walk" /\ look'.step = "done" /\ look'.result = "good" => ContentStood(look'.entries)]_trackingVars
    <2> SUFFICES ASSUME TInv, TInv', [TrackingNext]_trackingVars,
                        look.step = "walk", look'.step = "done", look'.result = "good"
                 PROVE  ContentStood(look'.entries) \/ UNCHANGED trackingVars
      OBVIOUS
    <2>1. CASE Observe
      <3>1. \/ \E step \in Within : Looking(step)
            \/ LookFails
        BY <2>1 DEF Observe, ReadPlace, ReadPapers, Validate, WalkOpen, WalkEntry, WalkFile, WalkClose, Within
      <3>2. UNCHANGED <<stood, tree>>
        BY <3>1 DEF Looking, LookFails, history, world
      <3>3. ContentStood(look.entries)'
        BY DEF TInv, OfReading, SawContent
      <3>4. QED BY <3>2, <3>3 DEF ContentStood, TreePaths
    <2>2. CASE Others
      BY <2>2, OthersKeepTree DEF TInv, session
    <2>3. CASE Adoption \/ Check
      BY <2>3, SessionEndsNoWalk
    <2>4. QED BY <2>1, <2>2, <2>3 DEF TrackingNext
  <1>2. QED BY <1>1, TrackingInvariance, PTL DEF TrackingSpec, ManifestIsWhole

(* What the reader concludes from the documents, the documents say. *)
LEMMA EvidenceSupports ==
  ASSUME NEW q \in Papers, NEW origin \in Origins, Resolves(ReadEvidence(q), origin)
  PROVE  Supported(q, origin)
  <1> DEFINE said == UNION {q.of[i].hints : i \in Opened(q)}
             e == ReadEvidence(q)
  <1>1. Problems(q) = {} /\ e.problems = {}
    BY DEF Resolves, ReadEvidence
  <1>2. /\ q.binding # "ambiguous" /\ Opened(q) \cap q.withheld = {} /\ ~TooMany(q)
        /\ \A i \in Opened(q) : q.of[i].state # "spoilt"
        /\ \A i \in Legible(q) : ~q.of[i].malformed
    BY <1>1 DEF Problems
  <1>3. ASSUME NEW i \in Opened(q)
        PROVE  /\ q.of[i] \in Texts /\ q.of[i].hints \subseteq Hints
               /\ i \in Legible(q) \/ (q.of[i].hints = {} /\ ~q.of[i].malformed)
    BY <1>2 DEF Legible, Papers, Texts, Opened, Inputs
  <1>4. e.candidates = UNION {HintsOf(q, i) : i \in Legible(q)}
    BY <1>2 DEF ReadEvidence, Offered
  <1>5. said \subseteq Hints /\ e.candidates \subseteq said
    BY <1>3, <1>4 DEF HintsOf, Narrowed, Legible
  <1>6. ASSUME NEW h \in said, h.subdirectory # Unknown PROVE h \in e.candidates
    BY <1>3, <1>4, <1>6 DEF HintsOf, Narrowed
  <1>7. ASSUME NEW h \in said
        PROVE  h \in e.candidates \/ \E g \in e.candidates : g.repository = h.repository /\ g.subdirectory # Unknown
    BY <1>3, <1>4, <1>7 DEF HintsOf, Narrowed, Pinned
  <1> HIDE DEF said, e
  <1>8. CASE e.candidates = {}
    BY <1>2, <1>3, <1>7, <1>8 DEF Supported, said
  <1>9. CASE e.candidates # {}
    <2>1. /\ HintsFor(e, origin.repository) # {}
          /\ KnownPaths(e, origin.repository) # {} => origin.subdirectory \in KnownPaths(e, origin.repository)
      BY <1>9 DEF Resolves, e
    <2>2. CASE KnownPaths(e, origin.repository) # {}
      <3>1. PICK h \in e.candidates : h.repository = origin.repository /\ h.subdirectory = origin.subdirectory
        BY <2>1, <2>2 DEF KnownPaths, HintsFor
      <3>2. h = origin
        BY <1>5, <3>1 DEF Hints, Origins
      <3>3. origin \in said
        BY <1>5, <3>1, <3>2
      <3>4. QED BY <1>2, <1>3, <3>3 DEF Supported, said
    <2>3. CASE KnownPaths(e, origin.repository) = {}
      <3>1. \E h \in said : h.repository = origin.repository
        BY <1>5, <2>1 DEF HintsFor
      <3>2. \A h \in said : h.repository = origin.repository => h.subdirectory = Unknown
        BY <1>6, <2>3 DEF KnownPaths, HintsFor
      <3>3. QED BY <1>2, <1>3, <3>1, <3>2 DEF Supported, said
    <2>4. QED BY <2>2, <2>3
  <1>10. QED BY <1>8, <1>9

(* What is committed as adopted stood after the record was inserted, under the write lock:  *)
(* the content, the directories, and documents that support the origin whatever rows they   *)
(* hold (apply, Evidence::resolve).                                                         *)
THEOREM AdoptionFounded == TrackingSpec => AdoptionIsFounded
  <1> DEFINE Founded ==
        phase = "recording" /\ stored' # stored =>
          /\ stored = Missing /\ registration = "current"
          /\ kept.dirs \in stood.place
          /\ ContentStood(stored'.baseline)
          /\ \E q \in stood.papers : Supported(q, stored'.origin)
  <1>1. TInv /\ [TrackingNext]_trackingVars => [Founded]_trackingVars
    <2> SUFFICES ASSUME TInv, TrackingNext, phase = "recording", stored' # stored PROVE Founded
      BY DEF trackingVars, metadata
    <2>1. CommitOrigin
      <3>1. locked
        BY DEF TInv, OfSession
      <3>2. ~Others
        BY <3>1 DEF Others, WriteTree, MovePlace, WritePapers, WithholdPapers, WriteRecord, WriteRegistration, MoveLinks, metadata
      <3>3. ~Observe
        BY DEF Observe, ReadPlace, ReadPapers, Validate, WalkOpen, WalkEntry, WalkFile, WalkClose, LookFails, Looking, metadata
      <3>4. ~Check
        BY DEF Check, BeginCheck, Prepared, RecheckBefore, Cancel, Fetch, FetchFails, ReadObjects, RecheckAfter,
               RecheckInstallations, Build, RecheckRequest, Rechecked, Concluded
      <3>5. QED BY <3>2, <3>3, <3>4 DEF TrackingNext, Adoption, BeginAdoption, LeaveAdoption, PreviewAdoption, Planned, Replanned,
               ConfirmAdoption, RecordOrigin, VerifyRecord, VerifyContent, Concluded
    <2>2. Good /\ look.step = "done" /\ stored' = Association
      BY <2>1 DEF CommitOrigin, Concluded
    <2>3. look.reader = "adoption" /\ phase \in Previewed /\ locked
      BY DEF TInv, OfLook, Adopting, Previewed, OfSession
    <2>4. Saw /\ SawPapers /\ SawContent
      BY <2>2, GoodLook
    <2>5. /\ kept.dirs = look.dirs /\ kept.manifest = look.entries /\ kept.evidence = look.evidence
          /\ Resolves(kept.evidence, form.origin) /\ form.origin \in Origins
      BY <2>3, <2>4 DEF TInv, OfSession, Saw, SawPapers, SawContent
    <2>6. stored'.baseline = kept.manifest /\ stored'.origin = form.origin
      BY <2>2 DEF Association
    <2>7. \E q \in stood.papers : Supported(q, form.origin)
      BY <2>3, <2>4, <2>5, EvidenceSupports DEF SawPapers, TInv, OfHistory
    <2>8. QED BY <2>3, <2>4, <2>5, <2>6, <2>7 DEF TInv, OfSession, Saw, SawContent
  <1>2. QED BY <1>1, TrackingInvariance, PTL DEF TrackingSpec, AdoptionIsFounded

-----------------------------------------------------------------------------
(* The shape of what a walk records: the entries are in its order, each of them *)
(* is in directories that are recorded too, and a directory has no bytes.       *)

DirectoryIn(entries, d) == \E i \in 1..Len(entries) : entries[i].path = d /\ entries[i].kind = "directory"
InOrder(entries) == \A i, j \in 1..Len(entries) : i < j => Before(entries[i].path, entries[j].path)
Shaped(entries) ==
  /\ entries \in Manifests /\ WithinLimits(entries) /\ InOrder(entries) /\ DirectoryIn(entries, Root)
  /\ \A i \in 1..Len(entries) :
       /\ \A d \in Above(entries[i].path) : DirectoryIn(entries, d)
       /\ entries[i].kind = "directory" => entries[i].bytes = <<>>

(* What the open directories still list comes after what is recorded, and is listed *)
(* from the innermost directory outwards.                                           *)
Queued(entries, stack) ==
  /\ \A k \in 1..Len(stack) : DirectoryIn(entries, stack[k].dir)
  /\ \A k \in 1..Len(stack) : \A j \in 1..Len(stack[k].left) :
       /\ stack[k].left[j] # Root /\ Parent(stack[k].left[j]) = stack[k].dir /\ Len(stack[k].left[j]) = k
       /\ \A i \in 1..Len(entries) : Before(entries[i].path, stack[k].left[j])
  /\ \A k, m \in 1..Len(stack) : \A i \in 1..Len(stack[k].left), j \in 1..Len(stack[m].left) :
       k > m \/ (k = m /\ i < j) => Before(stack[k].left[i], stack[m].left[j])

LEMMA ChildFollows ==
  ASSUME NEW c \in Seq(Names), c # Root
  PROVE  /\ Parent(c) \in Seq(Names) /\ Len(c) = Len(Parent(c)) + 1 /\ Before(Parent(c), c)
         /\ \A q \in Seq(Names) : Before(Parent(c), q) /\ Len(q) <= Len(Parent(c)) => Before(c, q)
  <1>1. Len(c) \in Nat \ {0}
    BY DEF Root
  <1>2. \A i \in 0..Len(c) : Len(SubSeq(c, 1, i)) = i /\ \A j \in 1..i : SubSeq(c, 1, i)[j] = c[j]
    OBVIOUS
  <1>3. Parent(c) = SubSeq(c, 1, Len(c) - 1) /\ Len(c) - 1 \in 0..Len(c)
    BY <1>1 DEF Parent, Front
  <1>4. Parent(c) \in Seq(Names)
    BY AboveAndBelow
  <1>5. Len(Parent(c)) = Len(c) - 1 /\ \A j \in 1..(Len(c) - 1) : Parent(c)[j] = c[j]
    BY <1>2, <1>3, Zenon
  <1>6. Before(Parent(c), c)
    <2>1. IsStrictPrefix(Parent(c), c)
      BY <1>1, <1>4, <1>5, PrefixSteps
    <2>2. QED BY <2>1 DEF Before
  <1>7. ASSUME NEW q \in Seq(Names), Before(Parent(c), q), Len(q) <= Len(Parent(c)) PROVE Before(c, q)
    <2>1. PICK i \in Nat : Parts(Parent(c), q, i)
      BY <1>4, <1>7, OrderByParts
    <2>2. Parts(c, q, i)
      BY <1>1, <1>4, <1>5, <1>7, <2>1 DEF Parts
    <2>3. QED BY <2>2, OrderByParts
  <1>8. QED BY <1>1, <1>4, <1>5, <1>6, <1>7

LEMMA StaysRecorded ==
  ASSUME NEW entries \in Manifests, NEW e \in ManifestEntries
  PROVE  /\ Append(entries, e) \in Manifests /\ Len(Append(entries, e)) = Len(entries) + 1
         /\ \A i \in 1..Len(entries) : Append(entries, e)[i] = entries[i]
         /\ Append(entries, e)[Len(entries) + 1] = e
         /\ \A d : DirectoryIn(entries, d) => DirectoryIn(Append(entries, e), d)
  BY DEF Manifests, DirectoryIn

(* The next entry of the innermost directory is recorded. *)
LEMMA RecordedInShape ==
  ASSUME look \in Looks, TreePaths \in SUBSET Seq(Names), look.stack # <<>>, Top.left # <<>>,
         Shaped(look.entries), Queued(look.entries, look.stack),
         NEW e \in ManifestEntries, e.path = Head(Top.left), e.kind = "directory" => e.bytes = <<>>,
         WithinLimits(Append(look.entries, e))
  PROVE  Shaped(Append(look.entries, e)) /\ Queued(Append(look.entries, e), Advance)
  <1> DEFINE n == Len(look.stack)
             m == Len(look.entries)
             p == Head(Top.left)
             after == Append(look.entries, e)
             frame == [Top EXCEPT !.left = Tail(@)]
  <1>1. /\ Top \in Frames /\ Top.left \in Seq(TreePaths) /\ Len(Top.left) \in Nat \ {0}
        /\ n \in Nat \ {0} /\ look.stack[n] = Top /\ look.stack \in Seq(Frames)
    BY StackTop DEF Frames, Looks
  <1>2. /\ frame.dir = Top.dir /\ p \in TreePaths /\ p = Top.left[1]
        /\ frame.left \in Seq(TreePaths) /\ Len(frame.left) = Len(Top.left) - 1
        /\ \A j \in 1..(Len(Top.left) - 1) : frame.left[j] = Top.left[j + 1]
    BY <1>1 DEF Frames
  <1>3. frame \in Frames
    BY <1>1, <1>2 DEF Frames
  <1>4. /\ Advance \in Seq(Frames) /\ Len(Advance) = n
        /\ Advance[n] = frame /\ \A i \in 1..(n - 1) : Advance[i] = look.stack[i]
    BY <1>3, StackTop DEF Advance
  <1>5. /\ after \in Manifests /\ m \in Nat /\ Len(after) = m + 1 /\ after[m + 1] = e
        /\ \A i \in 1..m : after[i] = look.entries[i]
        /\ \A d : DirectoryIn(look.entries, d) => DirectoryIn(after, d)
    <2>1. look.entries \in Manifests
      BY DEF Looks
    <2>2. QED BY <2>1, StaysRecorded DEF Manifests
  <1> HIDE DEF frame
  <1>6. /\ p # Root /\ Parent(p) = Top.dir /\ DirectoryIn(look.entries, Top.dir)
        /\ \A i \in 1..m : Before(look.entries[i].path, p)
    <2>1. n \in 1..Len(look.stack) /\ 1 \in 1..Len(look.stack[n].left) /\ look.stack[n].left[1] = p
      BY <1>1, <1>2
    <2>2. QED BY <1>1, <2>1 DEF Queued
  (* Each of the new queue was in the old one, at the same place or the next. *)
  <1> DEFINE at(k, j) == IF k = n THEN j + 1 ELSE j
  <1>7. ASSUME NEW k \in 1..n, NEW j \in 1..Len(Advance[k].left)
        PROVE  /\ at(k, j) \in 1..Len(look.stack[k].left) /\ Advance[k].left[j] = look.stack[k].left[at(k, j)]
               /\ Advance[k].dir = look.stack[k].dir /\ Len(look.stack[k].left) \in Nat
               /\ look.stack[k].left[at(k, j)] \in TreePaths
    <2>0. look.stack[k] \in Frames
      BY <1>1
    <2>1. CASE k = n
      <3>1. /\ at(k, j) = j + 1 /\ Advance[k].left = frame.left /\ look.stack[k].left = Top.left
            /\ Advance[k].dir = look.stack[k].dir
        BY <1>1, <1>2, <1>4, <2>1
      <3>2. j \in 1..(Len(Top.left) - 1) /\ Len(Top.left) \in Nat
        BY <1>1, <1>2, <1>7, <3>1
      <3>3. j + 1 \in 1..Len(Top.left) /\ frame.left[j] = Top.left[j + 1] /\ Top.left[j + 1] \in TreePaths
        BY <1>1, <1>2, <3>2
      <3>4. QED BY <3>1, <3>2, <3>3
    <2>2. CASE k # n
      <3>1. at(k, j) = j /\ Advance[k] = look.stack[k] /\ look.stack[k].left \in Seq(TreePaths)
        <4>1. at(k, j) = j
          BY <2>2
        <4>2. k \in 1..(n - 1)
          BY <1>1, <2>2
        <4> HIDE DEF n
        <4>3. QED BY <1>4, <2>0, <4>1, <4>2 DEF Frames
      <3>2. j \in 1..Len(look.stack[k].left)
        BY <1>7, <3>1
      <3>3. QED BY <3>1, <3>2
    <2>3. QED BY <2>1, <2>2
  <1>8. \A k \in 1..n : Advance[k].dir = look.stack[k].dir
    BY <1>1, <1>2, <1>4
  <1>9. Shaped(after)
    <2>1. InOrder(after)
      BY <1>5, <1>6 DEF InOrder, Shaped
    <2>2. DirectoryIn(after, Root)
      BY <1>5 DEF Shaped
    <2>3. \A d \in Above(p) : DirectoryIn(after, d)
      <3>1. p \in Seq(Names)
        BY <1>2
      <3>2. Above(p) = Above(Parent(p)) \cup {Parent(p)}
        BY <1>6, <3>1, AboveAndBelow
      <3>3. PICK i \in 1..m : look.entries[i].path = Top.dir
        BY <1>6 DEF DirectoryIn
      <3>4. \A d \in Above(Top.dir) : DirectoryIn(look.entries, d)
        BY <3>3 DEF Shaped
      <3>5. QED BY <1>5, <1>6, <3>2, <3>4
    <2>4. ASSUME NEW i \in 1..Len(after)
          PROVE  /\ \A d \in Above(after[i].path) : DirectoryIn(after, d)
                 /\ after[i].kind = "directory" => after[i].bytes = <<>>
      <3>1. CASE i \in 1..m
        BY <1>5, <3>1 DEF Shaped
      <3>2. CASE i = m + 1
        BY <1>5, <2>3, <3>2
      <3>3. QED BY <1>5, <3>1, <3>2
    <2>5. QED BY <1>5, <2>1, <2>2, <2>4 DEF Shaped
  <1> HIDE DEF frame, after, at
  <1>10. Queued(after, Advance)
    <2>1. \A k \in 1..Len(Advance) : DirectoryIn(after, Advance[k].dir)
      BY <1>4, <1>5, <1>8 DEF Queued
    <2>2. ASSUME NEW k \in 1..Len(Advance), NEW j \in 1..Len(Advance[k].left)
          PROVE  /\ Advance[k].left[j] # Root /\ Parent(Advance[k].left[j]) = Advance[k].dir
                 /\ Len(Advance[k].left[j]) = k
                 /\ \A i \in 1..Len(after) : Before(after[i].path, Advance[k].left[j])
      <3>1. k \in 1..n
        BY <1>4
      <3>2. /\ Advance[k].left[j] # Root /\ Parent(Advance[k].left[j]) = Advance[k].dir
            /\ Len(Advance[k].left[j]) = k
            /\ \A i \in 1..m : Before(look.entries[i].path, Advance[k].left[j])
        BY <1>7, <3>1 DEF Queued
      <3>3. Before(p, Advance[k].left[j])
        <4>1. n \in 1..n /\ 1 \in 1..Len(look.stack[n].left)
          BY <1>1
        <4>2. n > k \/ (n = k /\ 1 < at(k, j))
          BY <1>1, <3>1 DEF at
        <4>3. Before(look.stack[n].left[1], look.stack[k].left[at(k, j)])
          BY <1>7, <3>1, <4>1, <4>2 DEF Queued
        <4>4. look.stack[n].left[1] = p /\ Advance[k].left[j] = look.stack[k].left[at(k, j)]
          BY <1>1, <1>2, <1>7, <3>1
        <4>5. QED BY <4>3, <4>4, Zenon
      <3>4. e.path = p
        OBVIOUS
      <3> HIDE DEF p, n, m
      <3>5. ASSUME NEW i \in 1..Len(after) PROVE Before(after[i].path, Advance[k].left[j])
        <4>1. i \in 1..m \/ i = m + 1
          BY <1>5
        <4>2. QED BY <1>5, <3>2, <3>3, <3>4, <4>1
      <3>6. QED BY <3>2, <3>5
    <2>3. ASSUME NEW k \in 1..Len(Advance), NEW h \in 1..Len(Advance),
                 NEW i \in 1..Len(Advance[k].left), NEW j \in 1..Len(Advance[h].left), k > h \/ (k = h /\ i < j)
          PROVE  Before(Advance[k].left[i], Advance[h].left[j])
      <3>1. k \in 1..n /\ h \in 1..n
        BY <1>4
      <3>2. k > h \/ (k = h /\ at(k, i) < at(h, j))
        BY <2>3 DEF at
      <3>3. Before(look.stack[k].left[at(k, i)], look.stack[h].left[at(h, j)])
        BY <1>7, <3>1, <3>2 DEF Queued
      <3>4. QED BY <1>7, <3>1, <3>3
    <2>4. QED BY <2>1, <2>2, <2>3 DEF Queued
  <1>11. QED BY <1>9, <1>10 DEF after

(* A directory is opened and listed. *)
LEMMA ListedInShape ==
  ASSUME IsSkill(tree), NEW d \in TreePaths,
         NEW entries \in Manifests, NEW stack \in Seq(Frames), Queued(entries, stack),
         DirectoryIn(entries, d), Len(stack) = Len(d),
         \A i \in 1..Len(entries) : entries[i].path = d \/ Before(entries[i].path, d),
         \A k \in 1..Len(stack) : \A j \in 1..Len(stack[k].left) : Before(d, stack[k].left[j])
  PROVE  Queued(entries, Append(stack, Listing(d)))
  <1> DEFINE n == Len(stack)
             frame == Listing(d)
             after == Append(stack, frame)
  <1>1. d \in Seq(Names) /\ Children(d) \in SUBSET Seq(Names) /\ IsFiniteSet(Children(d))
    <2>1. TreePaths \in SUBSET Seq(Names) /\ IsFiniteSet(TreePaths)
      BY DEF IsSkill, TreePaths
    <2>2. Children(d) \in SUBSET TreePaths
      BY DEF Children
    <2>3. QED BY <2>1, <2>2, FS_Subset
  <1>2. /\ frame.left \in Seq(Children(d)) /\ frame.dir = d
        /\ \A i, j \in 1..Len(frame.left) : i < j => Before(frame.left[i], frame.left[j])
    BY <1>1, ByNameLists DEF Listing
  <1>3. /\ n \in Nat /\ Len(after) = n + 1 /\ after[n + 1] = frame
        /\ \A k \in 1..n : after[k] = stack[k]
    OBVIOUS
  <1> HIDE DEF frame, after
  <1>4. ASSUME NEW j \in 1..Len(frame.left)
        PROVE  /\ frame.left[j] \in Seq(Names) /\ frame.left[j] # Root /\ Parent(frame.left[j]) = d
               /\ Len(frame.left[j]) = n + 1 /\ Before(d, frame.left[j])
               /\ \A q \in Seq(Names) : Before(d, q) /\ Len(q) <= Len(d) => Before(frame.left[j], q)
    <2>1. frame.left[j] \in Children(d)
      BY <1>2
    <2>2. frame.left[j] \in Seq(Names) /\ frame.left[j] # Root /\ Parent(frame.left[j]) = d
      BY <1>1, <2>1 DEF Children
    <2>3. QED BY <2>2, ChildFollows
  <1>5. \A k \in 1..Len(after) : DirectoryIn(entries, after[k].dir)
    BY <1>2, <1>3 DEF Queued
  <1>6. \A i \in 1..Len(entries), j \in 1..Len(frame.left) : Before(entries[i].path, frame.left[j])
    <2>1. ASSUME NEW i \in 1..Len(entries) PROVE entries[i].path \in Seq(Names)
      <3>1. entries[i] \in ManifestEntries
        BY DEF Manifests
      <3>2. QED BY <3>1 DEF ManifestEntries
    <2>2. QED BY <1>1, <1>4, <2>1, OrderIsStrict
  <1>7. \A k \in 1..Len(after) : \A j \in 1..Len(after[k].left) :
          /\ after[k].left[j] # Root /\ Parent(after[k].left[j]) = after[k].dir /\ Len(after[k].left[j]) = k
          /\ \A i \in 1..Len(entries) : Before(entries[i].path, after[k].left[j])
    BY <1>2, <1>3, <1>4, <1>6 DEF Queued
  <1>8. ASSUME NEW k \in 1..Len(after), NEW h \in 1..Len(after),
               NEW i \in 1..Len(after[k].left), NEW j \in 1..Len(after[h].left), k > h \/ (k = h /\ i < j)
        PROVE  Before(after[k].left[i], after[h].left[j])
    <2>1. CASE k <= n /\ h <= n
      BY <1>3, <1>8, <2>1 DEF Queued
    <2>2. CASE k = n + 1 /\ h = n + 1
      BY <1>2, <1>3, <1>8, <2>2
    <2>3. CASE k = n + 1 /\ h <= n
      <3>1. h \in 1..n /\ after[h] = stack[h] /\ stack[h] \in Frames /\ j \in 1..Len(stack[h].left)
        BY <1>3, <2>3
      <3>2. stack[h].left[j] \in TreePaths /\ Len(stack[h].left[j]) = h
        BY <3>1 DEF Frames, Queued
      <3>3. stack[h].left[j] \in Seq(Names)
        BY <3>2, TreeFacts
      <3>4. i \in 1..Len(frame.left) /\ after[k].left[i] = frame.left[i]
        BY <1>3, <2>3
      <3>5. QED BY <1>3, <1>4, <2>3, <3>1, <3>2, <3>3, <3>4
    <2>4. QED BY <1>3, <1>8, <2>1, <2>2, <2>3
  <1>9. QED BY <1>5, <1>7, <1>8 DEF Queued, after, frame

LEMMA LeftInShape ==
  ASSUME look \in Looks, look.stack # <<>>, NEW entries, Queued(entries, look.stack)
  PROVE  Queued(entries, Front(look.stack))
  <1> DEFINE n == Len(look.stack)
             rest == Front(look.stack)
  <1>1. n \in Nat \ {0} /\ Len(rest) = n - 1 /\ \A k \in 1..(n - 1) : rest[k] = look.stack[k]
    BY StackTop
  <1>2. 1..Len(rest) \subseteq 1..n /\ \A k \in 1..Len(rest) : rest[k] = look.stack[k]
    BY <1>1
  <1> HIDE DEF rest
  <1>3. Queued(entries, rest)
    BY <1>2 DEF Queued
  <1>4. QED BY <1>3 DEF rest

-----------------------------------------------------------------------------
(* Every manifest a session keeps is of this shape, and the commit it proposes *)
(* passed the checks of its snapshot.                                          *)

Fetched == {"objects", "answered", "comparing", "scanning", "building"}
OfShape ==
  /\ look.step = "walk" /\ look.stack # <<>> => Shaped(look.entries) /\ Queued(look.entries, look.stack)
  /\ look.step = "done" /\ look.result = "good" => Shaped(look.entries)
  /\ phase \in Previewed \cup Requested => Shaped(kept.manifest)
OfPin ==
  /\ \A pin \in upstream : IsPin(pin)
  /\ phase \in Fetched => pinned \in upstream
  /\ phase \in Fetched \ {"objects"} =>
       SnapshotAllowed(pinned.commit, pinned.at) /\ AncestorsAllowed(pinned.commit, pinned.at)
ShapeInv == OfShape /\ OfPin

LEMMA ShapeStays ==
  ASSUME ShapeInv, UNCHANGED <<look, phase, kept, pinned, upstream>> PROVE ShapeInv'
  BY DEF ShapeInv, OfShape, OfPin

LEMMA LookShape ==
  ASSUME ShapeInv, UNCHANGED <<phase, kept, pinned, upstream>>,
         look'.step = "walk" /\ look'.stack # <<>> => Shaped(look'.entries) /\ Queued(look'.entries, look'.stack),
         look'.step = "done" /\ look'.result = "good" => Shaped(look'.entries)
  PROVE  ShapeInv'
  BY DEF ShapeInv, OfShape, OfPin

LEMMA SessionShape ==
  ASSUME ShapeInv, upstream' = upstream, look' = look \/ look'.step \in {"none", "place"},
         phase' \in Previewed \cup Requested => Shaped(kept'.manifest),
         phase' \in Fetched => pinned' \in upstream,
         phase' \in Fetched \ {"objects"} =>
           SnapshotAllowed(pinned'.commit, pinned'.at) /\ AncestorsAllowed(pinned'.commit, pinned'.at)
  PROVE  ShapeInv'
  BY DEF ShapeInv, OfShape, OfPin

LEMMA EndedInShape ==
  ASSUME TInv, ShapeInv, UNCHANGED Aside, NEW r, Ends(r), look \in Looks, r = "good" => Shaped(look.entries)
  PROVE  ShapeInv'
  <1>1. look'.step = "done" /\ look'.result = r /\ look'.entries = look.entries
    BY DEF Ends, Looks
  <1>2. UNCHANGED <<phase, kept, pinned, upstream>>
    BY DEF Aside, world
  <1>3. QED BY <1>1, <1>2, LookShape

LEMMA WalkedFacts ==
  ASSUME TInv, ShapeInv, Looking("walk")
  PROVE  /\ look \in Looks /\ IsSkill(tree) /\ TreePaths \in SUBSET Seq(Names) /\ look.entries \in Manifests
         /\ UNCHANGED Aside /\ UNCHANGED <<phase, kept, pinned, upstream>> /\ look.step = "walk"
         /\ look.stack = <<>> => look.entries = <<>>
         /\ look.stack # <<>> => Shaped(look.entries) /\ Queued(look.entries, look.stack)
  <1>1. look \in Looks /\ IsSkill(tree) /\ UNCHANGED Aside /\ look.step = "walk"
    BY ObserveAside DEF TInv, OfLook, OfTree
  <1>2. TreePaths \in SUBSET Seq(Names)
    BY <1>1 DEF IsSkill, TreePaths
  <1>3. look.entries \in Manifests
    BY <1>1 DEF Looks
  <1>4. QED BY <1>1, <1>2, <1>3 DEF TInv, OfWalk, ShapeInv, OfShape, Aside, world

(* An entry that stands is recorded, with the directories then open. *)
LEMMA EntryInShape ==
  ASSUME TInv, ShapeInv, Looking("walk"), NEW p \in TreePaths, tree[p].kind # "absent",
         NEW stack \in Seq(Frames), Recorded(EntryOf(p, tree[p]), stack),
         WithinLimits(Append(look.entries, EntryOf(p, tree[p]))) =>
           Shaped(Append(look.entries, EntryOf(p, tree[p]))) /\ Queued(Append(look.entries, EntryOf(p, tree[p])), stack)
  PROVE  ShapeInv'
  <1> DEFINE entries == Append(look.entries, EntryOf(p, tree[p]))
  <1>1. CASE Ends("changed")
    BY <1>1, WalkedFacts, EndedInShape
  <1>2. CASE ~Ends("changed")
    <2>1. WithinLimits(entries) /\ look' = [look EXCEPT !.entries = entries, !.stack = stack, !.open = Missing]
      BY <1>2 DEF Recorded
    <2>2. look'.step = "walk" /\ look'.entries = entries /\ look'.stack = stack
      BY <2>1, WalkedFacts DEF Looks
    <2>3. QED BY <2>1, <2>2, WalkedFacts, LookShape
  <1>3. QED BY <1>1, <1>2

LEMMA EntryIsTyped ==
  ASSUME IsSkill(tree), NEW p \in TreePaths, tree[p].kind # "absent"
  PROVE  /\ EntryOf(p, tree[p]) \in ManifestEntries /\ EntryOf(p, tree[p]).path = p
         /\ EntryOf(p, tree[p]).kind = tree[p].kind
         /\ EntryOf(p, tree[p]).kind = "directory" => EntryOf(p, tree[p]).bytes = <<>>
  BY TreeFacts DEF EntryOf, ManifestEntries, Nodes, NodeKinds

LEMMA WalkOpenShape == ASSUME TInv, ShapeInv, WalkOpen PROVE ShapeInv'
  <1>1. Looking("walk") /\ look.stack = <<>> /\ look.entries = <<>>
    BY WalkedFacts DEF WalkOpen
  <1>2. CASE Ends("changed")
    BY <1>1, <1>2, WalkedFacts, EndedInShape
  <1>3. CASE ~Ends("changed")
    <2> DEFINE e == EntryOf(Root, tree[Root])
    <2>1. Recorded(e, <<Listing(Root)>>)
      BY <1>3 DEF WalkOpen
    <2>2. Root \in TreePaths /\ tree[Root].kind = "directory" /\ Listing(Root) \in Frames
      <3>1. Root \in TreePaths /\ tree[Root].kind = "directory"
        BY <1>1, WalkedFacts DEF IsSkill, TreePaths
      <3>2. QED BY <3>1, ListingReaches
    <2>3. e \in ManifestEntries /\ e.path = Root /\ e.kind = "directory" /\ e.bytes = <<>>
      BY <1>1, <2>2, WalkedFacts, EntryIsTyped
    <2> HIDE DEF e
    <2> DEFINE entries == Append(look.entries, e)
    <2>4. entries \in Manifests /\ Len(entries) = 1 /\ entries[1] = e
      BY <1>1, <2>3 DEF Manifests
    <2> HIDE DEF entries
    <2>5. DirectoryIn(entries, Root)
      BY <2>3, <2>4 DEF DirectoryIn
    <2>6. WithinLimits(entries) => Shaped(entries)
      <3>1. Above(Root) = {}
        <4>1. Root \in Seq(Names)
          BY DEF Root
        <4>2. QED BY <4>1, AboveAndBelow
      <3>2. QED BY <2>3, <2>4, <2>5, <3>1 DEF Shaped, InOrder
    <2>7. Queued(entries, Append(<<>>, Listing(Root)))
      <3>1. <<>> \in Seq(Frames) /\ Len(<<>>) = Len(Root) /\ Len(<<>>) = 0
        BY DEF Root
      <3>2. Queued(entries, <<>>)
        BY <3>1 DEF Queued
      <3>3. IsSkill(tree)
        BY <1>1, WalkedFacts
      <3>4. \A i \in 1..Len(entries) : entries[i].path = Root
        BY <2>3, <2>4
      <3>5. \A k \in 1..Len(<<>>) : \A j \in 1..Len(<<>>[k].left) : Before(Root, <<>>[k].left[j])
        BY <3>1
      <3>6. QED BY <2>2, <2>4, <2>5, <3>1, <3>2, <3>3, <3>4, <3>5, ListedInShape
    <2>8. Append(<<>>, Listing(Root)) = <<Listing(Root)>> /\ <<Listing(Root)>> \in Seq(Frames)
      BY <2>2
    <2>9. QED BY <1>1, <2>1, <2>2, <2>6, <2>7, <2>8, EntryInShape DEF e, entries
  <1>4. QED BY <1>2, <1>3

LEMMA WalkEntryShape == ASSUME TInv, ShapeInv, WalkEntry PROVE ShapeInv'
  <1> DEFINE p == Head(Top.left)
             e == EntryOf(p, tree[p])
             entries == Append(look.entries, e)
  <1>1. Looking("walk") /\ look.stack # <<>> /\ Top.left # <<>>
    BY DEF WalkEntry
  <1>2. /\ look \in Looks /\ IsSkill(tree) /\ TreePaths \in SUBSET Seq(Names) /\ look.entries \in Manifests
        /\ UNCHANGED Aside /\ UNCHANGED <<phase, kept, pinned, upstream>> /\ look.step = "walk"
        /\ Shaped(look.entries) /\ Queued(look.entries, look.stack)
    BY <1>1, WalkedFacts
  <1>3. p \in TreePaths /\ tree[p] \in Nodes /\ Advance \in Seq(Frames)
    BY <1>1, <1>2, AdvanceAwaits, TreeFacts
  <1>4. tree[p].kind \in {"absent", "link", "directory", "file"}
    BY <1>3 DEF Nodes, NodeKinds
  <1>5. tree[p].kind # "absent" => e \in ManifestEntries /\ e.path = p /\ (e.kind = "directory" => e.bytes = <<>>)
    BY <1>2, <1>3, EntryIsTyped
  <1>6. tree[p].kind # "absent" /\ WithinLimits(entries) => Shaped(entries) /\ Queued(entries, Advance)
    BY <1>1, <1>2, <1>5, RecordedInShape
  <1>7. CASE tree[p].kind = "absent"
    BY <1>2, <1>7, EndedInShape DEF WalkEntry
  <1>8. CASE tree[p].kind = "link"
    <2>1. Recorded(e, Advance)
      BY <1>8 DEF WalkEntry
    <2>2. QED BY <1>1, <1>3, <1>6, <1>8, <2>1, EntryInShape
  <1>9. CASE tree[p].kind = "directory"
    <2> DEFINE stack == Append(Advance, Listing(p))
    <2>1. Recorded(e, stack)
      BY <1>9 DEF WalkEntry
    <2>2. Listing(p) \in Frames
      BY <1>3, <1>9, ListingReaches
    <2>3. stack \in Seq(Frames)
      BY <1>3, <2>2
    <2>4. ASSUME WithinLimits(entries) PROVE Queued(entries, stack)
      <3>1. Shaped(entries) /\ Queued(entries, Advance)
        BY <1>6, <1>9, <2>4
      <3>2. entries \in Manifests /\ Len(entries) = Len(look.entries) + 1 /\ Len(look.entries) \in Nat
            /\ entries[Len(look.entries) + 1] = e /\ \A i \in 1..Len(look.entries) : entries[i] = look.entries[i]
        BY <1>2, <1>5, <1>9, StaysRecorded DEF Manifests
      <3>3. e.path = p /\ e.kind = "directory"
        BY <1>2, <1>3, <1>9, EntryIsTyped
      <3>4. /\ Len(look.stack) \in Nat \ {0} /\ look.stack[Len(look.stack)] = Top
            /\ Len(Top.left) \in Nat \ {0} /\ Top.left[1] = p
        <4>1. Top \in Frames /\ look.stack[Len(look.stack)] = Top /\ Len(look.stack) \in Nat \ {0}
          BY <1>1, <1>2, StackTop
        <4>2. QED BY <1>1, <4>1 DEF Frames
      <3>5. Len(p) = Len(look.stack) /\ \A i \in 1..Len(look.entries) : Before(look.entries[i].path, p)
        <4>1. Len(look.stack) \in 1..Len(look.stack) /\ 1 \in 1..Len(look.stack[Len(look.stack)].left)
          BY <3>4
        <4>2. QED BY <1>2, <3>4, <4>1 DEF Queued
      <3>6. Len(Advance) = Len(look.stack)
        <4>1. Len(Front(look.stack)) = Len(look.stack) - 1 /\ Front(look.stack) \in Seq(Frames)
          BY <1>1, <1>2, StackTop
        <4>2. QED BY <3>4, <4>1 DEF Advance
      <3> HIDE DEF entries, e, p, stack
      <3>7. DirectoryIn(entries, p)
        BY <3>2, <3>3 DEF DirectoryIn
      <3>8. \A i \in 1..Len(entries) : entries[i].path = p \/ Before(entries[i].path, p)
        BY <3>2, <3>3, <3>5
      <3>9. \A k \in 1..Len(Advance) : \A j \in 1..Len(Advance[k].left) : Before(p, Advance[k].left[j])
        <4>1. Len(look.entries) + 1 \in 1..Len(entries)
          BY <3>2
        <4>2. QED BY <3>1, <3>2, <3>3, <4>1 DEF Queued
      <3>10. QED BY <1>2, <1>3, <3>1, <3>2, <3>5, <3>6, <3>7, <3>8, <3>9, ListedInShape DEF stack
    <2>5. QED BY <1>1, <1>3, <1>6, <1>9, <2>1, <2>3, <2>4, EntryInShape
  <1>10. CASE tree[p].kind = "file"
    <2>1. look' = [look EXCEPT !.open = [tree[p] EXCEPT !.bytes = FirstHalf(@)]]
      BY <1>10 DEF WalkEntry
    <2>2. look'.step = "walk" /\ look'.entries = look.entries /\ look'.stack = look.stack
      BY <1>2, <2>1 DEF Looks
    <2>3. QED BY <1>2, <2>2, LookShape
  <1>11. QED BY <1>4, <1>7, <1>8, <1>9, <1>10

LEMMA WalkFileShape == ASSUME TInv, ShapeInv, WalkFile PROVE ShapeInv'
  <1> DEFINE p == Head(Top.left)
             e == EntryOf(p, tree[p])
  <1>1. Looking("walk") /\ look.stack # <<>> /\ Top.left # <<>>
    BY ObserveAside DEF WalkFile, TInv, OfWalk, OfOpen
  <1>2. CASE Ends("changed")
    BY <1>1, <1>2, WalkedFacts, EndedInShape
  <1>3. CASE ~Ends("changed")
    <2>1. Recorded(e, Advance) /\ p \in TreePaths /\ tree[p].kind = "file"
      BY <1>3, WholeFile
    <2>2. /\ look \in Looks /\ IsSkill(tree) /\ TreePaths \in SUBSET Seq(Names)
          /\ Shaped(look.entries) /\ Queued(look.entries, look.stack)
      BY <1>1, WalkedFacts
    <2>3. e \in ManifestEntries /\ e.path = p /\ (e.kind = "directory" => e.bytes = <<>>)
      BY <2>1, <2>2, EntryIsTyped
    <2>4. WithinLimits(Append(look.entries, e)) => Shaped(Append(look.entries, e)) /\ Queued(Append(look.entries, e), Advance)
      BY <1>1, <2>2, <2>3, RecordedInShape
    <2>5. Advance \in Seq(Frames)
      BY <1>1, <2>2, AdvanceAwaits
    <2>6. QED BY <1>1, <2>1, <2>4, <2>5, EntryInShape
  <1>4. QED BY <1>2, <1>3

LEMMA WalkCloseShape == ASSUME TInv, ShapeInv, WalkClose PROVE ShapeInv'
  <1>1. Looking("walk") /\ look.stack # <<>>
    BY DEF WalkClose
  <1>2. /\ look \in Looks /\ UNCHANGED Aside /\ UNCHANGED <<phase, kept, pinned, upstream>>
        /\ Shaped(look.entries) /\ Queued(look.entries, look.stack) /\ look.step = "walk"
    BY <1>1, WalkedFacts
  <1>3. CASE \E r \in {"changed", "good"} : Ends(r)
    BY <1>2, <1>3, EndedInShape
  <1>4. CASE look' = [look EXCEPT !.stack = Front(@)]
    <2>1. look'.step = "walk" /\ look'.entries = look.entries /\ look'.stack = Front(look.stack)
      BY <1>2, <1>4 DEF Looks
    <2>2. QED BY <1>1, <1>2, <2>1, LeftInShape, LookShape
  <1>5. QED BY <1>3, <1>4 DEF WalkClose

LEMMA ObserveShape == ASSUME TInv, ShapeInv, Observe PROVE ShapeInv'
  <1>1. CASE ReadPlace \/ ReadPapers \/ Validate \/ LookFails
    <2>1. UNCHANGED <<phase, kept, pinned, upstream>>
      BY <1>1 DEF ReadPlace, ReadPapers, Validate, LookFails, Looking, world
    <2>2. look.step \in {"place", "papers", "validate"} \/ Ends("unavailable")
      BY <1>1 DEF ReadPlace, ReadPapers, Validate, LookFails, Looking
    <2>3. look \in Looks /\ look.step # "none"
      BY <1>1 DEF TInv, OfLook, ReadPlace, ReadPapers, Validate, LookFails, Looking
    <2>4. CASE Ends("unavailable") \/ Ends("changed")
      BY <2>1, <2>3, <2>4, LookShape DEF Ends, Looks
    <2>5. CASE ~Ends("unavailable") /\ ~Ends("changed")
      <3>1. look'.step \in {"papers", "validate", "walk"} /\ look'.stack = look.stack
        BY <1>1, <2>2, <2>3, <2>5 DEF ReadPlace, ReadPapers, Validate, LookFails, Looks
      <3>2. look.stack = <<>>
        BY <2>2, <2>5 DEF TInv, OfLook
      <3>3. QED BY <2>1, <3>1, <3>2, LookShape
    <2>6. QED BY <2>4, <2>5
  <1>2. QED BY <1>1, WalkOpenShape, WalkEntryShape, WalkFileShape, WalkCloseShape DEF Observe

LEMMA LookShapes ==
  /\ NoLook.step = "none"
  /\ \A reader \in {"adoption", "check"} : Look(reader) => look'.step = "place"
  /\ Close => look'.step = "none" /\ phase' = "idle"
  <1>1. NoLook.step = "none"
    BY DEF NoLook
  <1>2. ASSUME NEW reader \in {"adoption", "check"}, Look(reader) PROVE look'.step = "place"
    BY <1>2 DEF NoLook, Look
  <1>3. Close => look' = NoLook /\ phase' = "idle"
    BY DEF Close
  <1>4. QED BY <1>1, <1>2, <1>3

LEMMA AdoptionShape == ASSUME TInv, ShapeInv, Adoption PROVE ShapeInv'
  <1>0. kept \in Keeps
    BY DEF TInv, OfSession
  <1>1. upstream' = upstream
    BY DEF Adoption, BeginAdoption, LeaveAdoption, PreviewAdoption, Planned, Replanned, ConfirmAdoption, RecordOrigin,
           CommitOrigin, VerifyRecord, VerifyContent, Steady, world
  <1>2. CASE BeginAdoption \/ PreviewAdoption
    <2>1. phase' \in {"form", "planning"} /\ (look' = look \/ look'.step \in {"none", "place"})
      BY <1>2, LookShapes DEF BeginAdoption, PreviewAdoption
    <2>2. QED BY <1>1, <2>1, SessionShape DEF Previewed, Requested, Fetched
  <1>3. CASE Close
    BY <1>1, <1>3, LookShapes, SessionShape DEF Previewed, Requested, Fetched
  <1>4. CASE Planned /\ ~Close
    <2>1. \/ phase' = "form" /\ look' = NoLook
          \/ phase' = "replanning" /\ kept' = Expecting /\ look'.step = "place" /\ Good /\ look.step = "done"
      BY <1>4, LookShapes DEF Planned, BackToForm, Concluded
    <2>2. Good /\ look.step = "done" => Shaped(Expecting.manifest)
      BY DEF ShapeInv, OfShape, Good, Expecting, NoneKept
    <2>3. QED BY <1>1, <2>1, <2>2, LookShapes, SessionShape DEF Previewed, Requested, Fetched
  <1>5. CASE (Replanned \/ ConfirmAdoption \/ RecordOrigin \/ CommitOrigin \/ VerifyRecord \/ VerifyContent) /\ ~Close
    <2>1. /\ phase \in Previewed /\ (look' = look \/ look'.step \in {"none", "place"})
          /\ \/ phase' = "form"
             \/ phase' \in Previewed /\ kept' = kept
      BY <1>5, LookShapes DEF Replanned, ConfirmAdoption, RecordOrigin, CommitOrigin, VerifyRecord, VerifyContent, BackToForm,
         Concluded, Previewed, Refused, Answered, Reported
    <2>2. Shaped(kept.manifest)
      BY <2>1 DEF ShapeInv, OfShape
    <2>3. phase' \notin Fetched /\ (phase' \in Previewed \cup Requested => kept' = kept)
      BY <2>1 DEF Previewed, Requested, Fetched
    <2>4. QED BY <1>1, <2>1, <2>2, <2>3, SessionShape
  <1>6. LeaveAdoption => Close
    BY DEF LeaveAdoption, Answered
  <1>7. QED BY <1>2, <1>3, <1>4, <1>5, <1>6 DEF Adoption

LEMMA CheckShape == ASSUME TInv, ShapeInv, Check PROVE ShapeInv'
  <1>0. kept \in Keeps
    BY DEF TInv, OfSession
  <1>1. upstream' = upstream
    BY DEF Check, BeginCheck, Prepared, RecheckBefore, Cancel, Fetch, FetchFails, ReadObjects, RecheckAfter,
           RecheckInstallations, Build, RecheckRequest, Rechecked, Steady, world
  <1>2. CASE BeginCheck
    <2>1. phase' = "preparing" /\ look'.step = "place"
      BY <1>2, LookShapes DEF BeginCheck
    <2>2. QED BY <1>1, <2>1, SessionShape DEF Previewed, Requested, Fetched
  <1>3. CASE Close
    BY <1>1, <1>3, LookShapes, SessionShape DEF Previewed, Requested, Fetched
  <1>4. CASE Prepared /\ ~Close
    <2>1. /\ phase' = "asking" /\ look' = NoLook /\ Good /\ look.step = "done"
          /\ kept' = [kept EXCEPT !.manifest = look.entries, !.dirs = place]
      BY <1>4 DEF Prepared, Concluded, Refused, Answered
    <2>2. kept'.manifest = look.entries
      BY <1>0, <2>1 DEF Keeps
    <2>3. Shaped(look.entries)
      BY <2>1 DEF ShapeInv, OfShape, Good
    <2>4. QED BY <1>1, <2>1, <2>2, <2>3, LookShapes, SessionShape DEF Fetched
  <1>5. CASE (RecheckBefore \/ Cancel) /\ ~Close
    <2>1. /\ phase \in Requested /\ kept' = kept /\ pinned' = pinned
          /\ look' = look \/ look'.step \in {"none", "place"}
          /\ phase' = phase \/ phase' \in {"rechecking", "fetching"}
      BY <1>5, LookShapes DEF RecheckBefore, Cancel, RecheckRequest, Rechecked, Concluded, Step, Refused, Answered, Requested
    <2>2. QED BY <1>1, <2>1, SessionShape DEF Fetched, ShapeInv, OfShape, OfPin
  <1>6. CASE Fetch /\ ~Close
    <2>1. phase = "fetching" /\ phase' = "objects" /\ kept' = kept /\ look' = look /\ pinned' \in upstream
      BY <1>6 DEF Fetch, Answered
    <2>2. QED BY <1>1, <2>1, SessionShape DEF Fetched, Requested, ShapeInv, OfShape
  <1>7. CASE ReadObjects /\ ~Close
    <2>1. /\ phase = "objects" /\ phase' = "answered" /\ kept' = kept /\ look' = NoLook /\ pinned' = pinned
          /\ SnapshotAllowed(pinned.commit, pinned.at) /\ AncestorsAllowed(pinned.commit, pinned.at)
      BY <1>7 DEF ReadObjects, Refused, Answered, Step
    <2>2. QED BY <1>1, <2>1, LookShapes, SessionShape DEF Fetched, Requested, ShapeInv, OfShape, OfPin
  <1>8. CASE (RecheckAfter \/ RecheckInstallations) /\ ~Close
    <2>1. /\ phase \in Fetched \ {"objects"} /\ phase' \in Fetched \ {"objects"} /\ kept' = kept /\ pinned' = pinned
          /\ look'.step \in {"none", "place"}
      BY <1>8, LookShapes DEF RecheckAfter, RecheckInstallations, RecheckRequest, Rechecked, Concluded, Step, Refused, Answered,
         Fetched
    <2>2. QED BY <1>1, <2>1, SessionShape DEF Fetched, Requested, ShapeInv, OfShape, OfPin
  <1>9. (FetchFails \/ Build) => Close
    BY DEF FetchFails, Build, Refused, Answered
  <1>10. QED BY <1>2, <1>3, <1>4, <1>5, <1>6, <1>7, <1>8, <1>9 DEF Check

LEMMA OthersShape == ASSUME ShapeInv, Others PROVE ShapeInv'
  <1>1. UNCHANGED <<session, upstream>>
    BY DEF Others, WriteTree, MovePlace, WritePapers, WithholdPapers, WriteRecord, WriteRegistration, MoveLinks, Changed, world
  <1>2. QED BY <1>1, ShapeStays DEF session

LEMMA ShapeInit == ASSUME TrackingInit PROVE ShapeInv
  <1>1. look = NoLook /\ phase = "idle"
    BY DEF TrackingInit
  <1>2. OfShape
    BY <1>1 DEF OfShape, NoLook, Previewed, Requested
  <1>3. \A pin \in upstream : IsPin(pin)
    BY WorldsAssumption DEF TrackingInit, IsWorld
  <1>4. QED BY <1>1, <1>2, <1>3 DEF ShapeInv, OfPin, Fetched

LEMMA ShapeInvariance == TrackingSpec => []ShapeInv
  <1>1. TInv /\ ShapeInv /\ [TrackingNext]_trackingVars => ShapeInv'
    <2>1. ASSUME ShapeInv, UNCHANGED trackingVars PROVE ShapeInv'
      BY <2>1, ShapeStays DEF trackingVars, session, world
    <2>2. QED BY <2>1, OthersShape, ObserveShape, AdoptionShape, CheckShape DEF TrackingNext
  <1>2. QED BY <1>1, ShapeInit, TrackingInvariance, PTL DEF TrackingSpec

-----------------------------------------------------------------------------
(* What a preview proposes.  Sets of files by path, as snapshots, notices and *)
(* local manifests give them.                                                 *)

Files == [executable : BOOLEAN, bytes : Bytes]
FilesByPath(f) == IsFiniteSet(DOMAIN f) /\ DOMAIN f \subseteq Seq(Names) /\ f \in [DOMAIN f -> Files]

LEMMA Overlaid ==
  ASSUME NEW f, NEW g, FilesByPath(f), FilesByPath(g)
  PROVE  /\ FilesByPath(Overlay(f, g)) /\ DOMAIN Overlay(f, g) = DOMAIN f \cup DOMAIN g
         /\ \A p \in DOMAIN f : Overlay(f, g)[p] = f[p]
         /\ Agree(f, g) => \A p \in DOMAIN g : Overlay(f, g)[p] = g[p]
  <1>1. IsFiniteSet(DOMAIN f \cup DOMAIN g)
    BY FS_Union DEF FilesByPath
  <1>2. QED BY <1>1 DEF FilesByPath, Overlay, Agree

(* The image of a finite set. *)
LEMMA Imaged ==
  ASSUME NEW S, IsFiniteSet(S), NEW f, DOMAIN f = S, NEW T, \A t \in T : \E s \in S : f[s] = t
  PROVE  IsFiniteSet(T)
  <1> DEFINE R == {s \in S : f[s] \in T}
             g == [s \in R |-> f[s]]
  <1>1. IsFiniteSet(R)
    BY FS_Subset
  <1>2. g \in Surjection(R, T)
    BY DEF Surjection
  <1>3. QED BY <1>1, <1>2, FS_Surjection

(* A finite set of paths has finitely many directories above it. *)
LEMMA AboveFinite ==
  ASSUME NEW S \in SUBSET Seq(Names), IsFiniteSet(S)
  PROVE  IsFiniteSet(UNION {Above(p) : p \in S})
  <1> DEFINE U(T) == UNION {Above(p) : p \in T}
             Bad == {T \in FiniteSubsetsOf(S) : ~IsFiniteSet(U(T))}
  <1>1. SUFFICES ASSUME Bad # {} PROVE FALSE
    BY DEF FiniteSubsetsOf
  <1>2. IsWellFoundedOn(StrictSubsetOrdering(S), FiniteSubsetsOf(S))
    BY FS_StrictSubsetOrderingWellFounded
  <1>3. PICK T \in Bad : \A R \in Bad : <<R, T>> \notin StrictSubsetOrdering(S)
    <2> HIDE DEF Bad
    <2>1. Bad \subseteq FiniteSubsetsOf(S) BY DEF Bad
    <2>2. QED BY <1>1, <1>2, <2>1, WFMin
  <1>4. T \in SUBSET S /\ IsFiniteSet(T) /\ ~IsFiniteSet(U(T))
    BY DEF FiniteSubsetsOf
  <1>5. T # {}
    <2>1. T = {} => U(T) = {}
      OBVIOUS
    <2>2. QED BY <1>4, <2>1, FS_EmptySet
  <1>6. PICK p \in T : TRUE
    BY <1>5
  <1> DEFINE R == T \ {p}
  <1>7. R \in SUBSET S /\ IsFiniteSet(R) /\ R \in SUBSET T /\ R # T
    BY <1>4, <1>6, FS_Subset
  <1>8. IsFiniteSet(U(R))
    <2>1. <<R, T>> \in StrictSubsetOrdering(S)
      BY <1>4, <1>7 DEF StrictSubsetOrdering
    <2>2. R \notin Bad
      BY <1>3, <2>1
    <2>3. R \in FiniteSubsetsOf(S)
      BY <1>7 DEF FiniteSubsetsOf
    <2>4. QED BY <2>2, <2>3
  <1>9. IsFiniteSet(Above(p))
    <2> DEFINE f == [i \in 0..(Len(p) - 1) |-> SubSeq(p, 1, i)]
    <2>0. p \in Seq(Names)
      BY <1>4, <1>6
    <2>1. Len(p) - 1 \in Int /\ IsFiniteSet(0..(Len(p) - 1))
      BY <2>0, FS_Interval
    <2>2. DOMAIN f = 0..(Len(p) - 1) /\ \A t \in Above(p) : \E s \in 0..(Len(p) - 1) : f[s] = t
      BY DEF Above
    <2> HIDE DEF f
    <2>3. QED BY <2>1, <2>2, Imaged
  <1>10. U(T) = U(R) \cup Above(p)
    BY <1>6
  <1>11. QED
    <2> HIDE DEF U
    <2>1. QED BY <1>4, <1>8, <1>9, <1>10, FS_Union

-----------------------------------------------------------------------------
(* A manifest in the order of the walk. *)

LEMMA EntryTypes ==
  ASSUME NEW m \in Manifests
  PROVE  /\ m \in Seq(ManifestEntries) /\ Len(m) \in Nat
         /\ \A i \in 1..Len(m) : m[i] \in ManifestEntries /\ m[i].path \in Seq(Names) /\ m[i] \in EntriesOf(m)
         /\ \A e \in EntriesOf(m) : e \in ManifestEntries /\ e.path \in Seq(Names) /\ \E i \in 1..Len(m) : m[i] = e
  <1>1. m \in Seq(ManifestEntries) /\ Len(m) \in Nat /\ \A i \in 1..Len(m) : m[i] \in ManifestEntries
    BY DEF Manifests
  <1>2. \A e \in ManifestEntries : e.path \in Seq(Names)
    BY DEF ManifestEntries
  <1>3. QED BY <1>1, <1>2 DEF EntriesOf

LEMMA OneEntryPerPath ==
  ASSUME NEW m \in Manifests, InOrder(m)
  PROVE  /\ \A i, j \in 1..Len(m) : m[i].path = m[j].path => i = j
         /\ \A e \in EntriesOf(m) : EntryAt(m, e.path) = e /\ e \in ManifestEntries /\ e.path \in Seq(Names)
  <1>0. m \in Seq(ManifestEntries) /\ \A i \in 1..Len(m) : m[i] \in ManifestEntries /\ m[i].path \in Seq(Names)
    BY EntryTypes
  <1>1. ASSUME NEW i \in 1..Len(m), NEW j \in 1..Len(m), m[i].path = m[j].path PROVE i = j
    <2>1. ~Before(m[i].path, m[j].path) /\ ~Before(m[j].path, m[i].path)
      BY <1>0, <1>1, OrderIsStrict
    <2>2. ~(i < j) /\ ~(j < i)
      BY <2>1 DEF InOrder
    <2>3. QED BY <1>0, <2>2
  <1>2. ASSUME NEW e \in EntriesOf(m) PROVE EntryAt(m, e.path) = e
    <2>1. \A g \in EntriesOf(m) : g.path = e.path => g = e
      BY <1>1 DEF EntriesOf
    <2>2. QED BY <2>1 DEF EntryAt
  <1>3. QED BY <1>0, <1>1, <1>2 DEF EntriesOf

(* Two manifests in this order that list the same entries are the same. *)
LEMMA SameEntriesSameOrder ==
  ASSUME NEW m \in Manifests, InOrder(m), NEW n \in Manifests, InOrder(n), EntriesOf(m) = EntriesOf(n)
  PROVE  m = n
  <1> DEFINE D == {i \in Nat : i >= 1 /\ (i <= Len(m) \/ i <= Len(n)) /\ ~(i <= Len(m) /\ i <= Len(n) /\ m[i] = n[i])}
  <1>1. SUFFICES ASSUME D # {} PROVE FALSE
    <2>1. D = {} => Len(m) = Len(n) /\ \A i \in 1..Len(m) : m[i] = n[i]
      <3>1. ASSUME D = {} PROVE Len(m) = Len(n)
        <4>1. Len(m) \in Nat /\ Len(n) \in Nat
          BY DEF Manifests
        <4>2. (Len(m) < Len(n) => Len(n) \in D) /\ (Len(n) < Len(m) => Len(m) \in D)
          BY <4>1
        <4>3. QED BY <3>1, <4>1, <4>2
      <3>2. QED BY <3>1 DEF Manifests
    <2>2. QED BY <2>1, SeqEqual DEF Manifests
  <1>2. PICK i \in D : \A j \in D : i <= j
    <2> HIDE DEF D
    <2>1. D \in SUBSET Nat BY DEF D
    <2>2. QED BY <1>1, <2>1, Least
  <1>3. /\ i \in Nat /\ i >= 1 /\ Len(m) \in Nat /\ Len(n) \in Nat
        /\ \A j \in 1..(i - 1) : j <= Len(m) /\ j <= Len(n) /\ m[j] = n[j]
    BY <1>2 DEF Manifests
  <1>4. ASSUME i <= Len(m) PROVE \E j \in 1..Len(n) : n[j] = m[i] /\ j > i
    <2>1. PICK j \in 1..Len(n) : n[j] = m[i]
      <3>1. m[i] \in EntriesOf(m)
        BY <1>3, <1>4, EntryTypes
      <3>2. QED BY <3>1, EntryTypes
    <2>2. j # i
      BY <1>2, <1>4, <2>1
    <2>3. ~(j < i)
      BY <1>3, <1>4, <2>1, OneEntryPerPath
    <2>4. QED BY <1>3, <2>1, <2>2, <2>3
  <1>5. ASSUME i <= Len(n) PROVE \E j \in 1..Len(m) : m[j] = n[i] /\ j > i
    <2>1. PICK j \in 1..Len(m) : m[j] = n[i]
      <3>1. n[i] \in EntriesOf(n)
        BY <1>3, <1>5, EntryTypes
      <3>2. QED BY <3>1, EntryTypes
    <2>2. j # i
      BY <1>2, <1>5, <2>1
    <2>3. ~(j < i)
      BY <1>3, <1>5, <2>1, OneEntryPerPath
    <2>4. QED BY <1>3, <2>1, <2>2, <2>3
  <1>6. i <= Len(m) /\ i <= Len(n)
    BY <1>2, <1>3, <1>4, <1>5
  <1>7. PICK j \in 1..Len(n), k \in 1..Len(m) : n[j] = m[i] /\ j > i /\ m[k] = n[i] /\ k > i
    BY <1>4, <1>5, <1>6
  <1>8. Before(m[i].path, m[k].path) /\ Before(n[i].path, n[j].path)
    BY <1>3, <1>6, <1>7 DEF InOrder
  <1>9. m[i].path \in Seq(Names) /\ m[k].path \in Seq(Names)
    BY <1>3, <1>6, <1>7, EntryTypes
  <1>10. QED BY <1>7, <1>8, <1>9, OrderIsStrict

(* What a manifest of this shape holds. *)
LEMMA ShapedParts ==
  ASSUME NEW m, Shaped(m)
  PROVE  /\ m \in Manifests /\ InOrder(m)
         /\ FilesByPath(RegularFiles(m)) /\ DOMAIN RegularFiles(m) = PathsOf(m, "file")
         /\ \A e \in EntriesOf(m) : e.kind = "file" =>
              RegularFiles(m)[e.path] = [executable |-> e.executable, bytes |-> e.bytes]
         /\ PathsOf(m, "directory") \subseteq Seq(Names) /\ IsFiniteSet(PathsOf(m, "directory"))
         /\ Root \in PathsOf(m, "directory")
         /\ \A e \in EntriesOf(m) : Above(e.path) \subseteq PathsOf(m, "directory")
         /\ \A e \in EntriesOf(m) : e.kind = "directory" => e.bytes = <<>>
  <1>0. m \in Manifests /\ InOrder(m) /\ Len(m) \in Nat /\ \A i \in 1..Len(m) : m[i] \in ManifestEntries
    BY DEF Shaped, Manifests
  <1>1. \A d : DirectoryIn(m, d) <=> d \in PathsOf(m, "directory")
    BY DEF DirectoryIn, PathsOf, EntriesOf
  <1>2. ASSUME NEW k PROVE PathsOf(m, k) \subseteq Seq(Names) /\ IsFiniteSet(PathsOf(m, k))
    <2> DEFINE f == [i \in 1..Len(m) |-> m[i].path]
    <2>1. IsFiniteSet(1..Len(m))
      BY <1>0, FS_Interval
    <2>2. DOMAIN f = 1..Len(m) /\ \A p \in PathsOf(m, k) : \E i \in 1..Len(m) : f[i] = p
      BY DEF PathsOf, EntriesOf
    <2> HIDE DEF f
    <2>3. IsFiniteSet(PathsOf(m, k))
      BY <2>1, <2>2, Imaged
    <2>4. QED BY <1>0, <2>3 DEF PathsOf, EntriesOf, ManifestEntries
  <1>3. ASSUME NEW e \in EntriesOf(m), e.kind = "file"
        PROVE  RegularFiles(m)[e.path] = [executable |-> e.executable, bytes |-> e.bytes]
    <2>1. e.path \in PathsOf(m, "file") /\ EntryAt(m, e.path) = e
      BY <1>0, <1>3, OneEntryPerPath DEF PathsOf
    <2>2. QED BY <2>1 DEF RegularFiles
  <1>4. FilesByPath(RegularFiles(m)) /\ DOMAIN RegularFiles(m) = PathsOf(m, "file")
    <2>1. DOMAIN RegularFiles(m) = PathsOf(m, "file")
      BY DEF RegularFiles
    <2>2. ASSUME NEW p \in PathsOf(m, "file") PROVE RegularFiles(m)[p] \in Files
      <3>1. PICK e \in EntriesOf(m) : e.kind = "file" /\ e.path = p
        BY DEF PathsOf
      <3>2. e.executable \in BOOLEAN /\ e.bytes \in Bytes
        BY <1>0, EntryTypes DEF ManifestEntries
      <3>3. [executable |-> e.executable, bytes |-> e.bytes] \in Files
        BY <3>2 DEF Files
      <3>4. QED BY <1>3, <3>1, <3>3, Zenon
    <2>3. RegularFiles(m) = [p \in PathsOf(m, "file") |-> RegularFiles(m)[p]]
      BY DEF RegularFiles
    <2>4. QED BY <1>2, <2>1, <2>2, <2>3 DEF FilesByPath
  <1>5. QED BY <1>0, <1>1, <1>2, <1>3, <1>4 DEF Shaped, EntriesOf

-----------------------------------------------------------------------------
(* The snapshot of a pinned commit, and the notices above it. *)

LEMMA BelowAgain ==
  ASSUME NEW p \in Seq(Names), NEW at \in Seq(Names), IsStrictPrefix(at, p)
  PROVE  Below(at, p) \in Seq(Names) /\ at \o Below(at, p) = p
  <1>1. Len(at) < Len(p) /\ (\A i \in 1..Len(at) : at[i] = p[i]) /\ Len(at) \in Nat /\ Len(p) \in Nat
    BY PrefixSteps
  <1>2. /\ Below(at, p) \in Seq(Names) /\ Len(Below(at, p)) = Len(p) - Len(at)
        /\ \A i \in 1..(Len(p) - Len(at)) : Below(at, p)[i] = p[i + Len(at)]
    BY <1>1 DEF Below
  <1>3. at \o Below(at, p) \in Seq(Names) /\ Len(at \o Below(at, p)) = Len(p)
    BY <1>1, <1>2
  <1>4. ASSUME NEW i \in 1..Len(p) PROVE (at \o Below(at, p))[i] = p[i]
    <2>1. CASE i <= Len(at)
      BY <1>1, <1>2, <2>1
    <2>2. CASE i > Len(at)
      <3>1. i - Len(at) \in 1..(Len(p) - Len(at)) /\ (i - Len(at)) + Len(at) = i
        BY <1>1, <2>2
      <3>2. (at \o Below(at, p))[i] = Below(at, p)[i - Len(at)]
        BY <1>1, <1>2, <2>2
      <3>3. QED BY <1>2, <3>1, <3>2
    <2>3. i \in Nat /\ Len(at) \in Nat
      BY <1>1
    <2>4. i <= Len(at) \/ i > Len(at)
      BY <2>3
    <2>5. QED BY <2>1, <2>2, <2>4, Zenon
  <1>5. QED BY <1>2, <1>3, <1>4, SeqEqual

LEMMA BlobsAreFiles ==
  ASSUME NEW pin, IsPin(pin), NEW p \in DOMAIN pin.commit PROVE FileOf(pin.commit[p]) \in Files
  BY DEF IsPin, FileOf, Files

LEMMA SnapshotHolds ==
  ASSUME NEW pin, IsPin(pin)
  PROVE  LET files == SnapshotFiles(pin.commit, pin.at) IN
         /\ FilesByPath(files)
         /\ \A p \in Selected(pin.commit, pin.at) : Below(pin.at, p) \in DOMAIN files /\ files[Below(pin.at, p)] = FileOf(pin.commit[p])
  <1> DEFINE chosen == Selected(pin.commit, pin.at)
             files == SnapshotFiles(pin.commit, pin.at)
             below == [p \in chosen |-> Below(pin.at, p)]
  <1>1. /\ pin.at \in Seq(Names) /\ chosen \subseteq DOMAIN pin.commit /\ DOMAIN pin.commit \subseteq Seq(Names)
        /\ IsFiniteSet(chosen)
    BY FS_Subset DEF IsPin, Selected
  <1>2. \A p \in chosen : Below(pin.at, p) \in Seq(Names) /\ pin.at \o Below(pin.at, p) = p
    BY <1>1, BelowAgain DEF Selected
  <1>3. DOMAIN files = {Below(pin.at, p) : p \in chosen}
    BY DEF SnapshotFiles
  <1>4. \A p \in chosen : Below(pin.at, p) \in DOMAIN files /\ files[Below(pin.at, p)] = FileOf(pin.commit[p])
    BY <1>2, <1>3 DEF SnapshotFiles
  <1>5. IsFiniteSet(DOMAIN files)
    <2>1. DOMAIN below = chosen /\ \A q \in DOMAIN files : \E p \in chosen : below[p] = q
      BY <1>3
    <2> HIDE DEF below, files, chosen
    <2>2. QED BY <1>1, <2>1, Imaged
  <1>6. \A q \in DOMAIN files : files[q] \in Files
    BY <1>1, <1>3, <1>4, BlobsAreFiles
  <1>7. DOMAIN files \subseteq Seq(Names)
    BY <1>2, <1>3
  <1>8. files = [q \in DOMAIN files |-> files[q]]
    BY DEF SnapshotFiles
  <1>9. QED BY <1>4, <1>5, <1>6, <1>7, <1>8 DEF FilesByPath

LEMMA LastOfAppend ==
  ASSUME NEW d \in Seq(Names), NEW n \in Names
  PROVE  /\ Append(d, n) \in Seq(Names) /\ Append(d, n) # Root /\ Last(Append(d, n)) = n
         /\ Append(d, n)[Len(d) + 1] = n /\ IsStrictPrefix(d, Append(d, n))
  <1>1. /\ Append(d, n) \in Seq(Names) /\ Len(Append(d, n)) = Len(d) + 1 /\ Len(d) \in Nat
        /\ Append(d, n)[Len(d) + 1] = n /\ \A i \in 1..Len(d) : Append(d, n)[i] = d[i]
    OBVIOUS
  <1>2. Append(d, n) # Root
    BY <1>1 DEF Root
  <1>3. IsStrictPrefix(d, Append(d, n))
    <2> DEFINE p == Append(d, n)
    <2>1. p \in Seq(Names) /\ Len(d) < Len(p) /\ \A i \in 1..Len(d) : d[i] = p[i]
      BY <1>1
    <2> HIDE DEF p
    <2>2. IsStrictPrefix(d, p)
      BY <2>1, PrefixSteps
    <2>3. QED BY <2>2 DEF p
  <1>4. QED BY <1>1, <1>2, <1>3 DEF Last

(* Every notice above the selected directory is held, as it is in the commit. *)
LEMMA AncestorsHold ==
  ASSUME NEW pin, IsPin(pin), AncestorsAllowed(pin.commit, pin.at)
  PROVE  LET files == SnapshotFiles(pin.commit, pin.at)
             added == AncestorFiles(pin.commit, pin.at) IN
         /\ FilesByPath(added)
         /\ \A d \in Above(pin.at), n \in NoticeNames : Append(d, n) \in DOMAIN pin.commit =>
              <<n>> \in DOMAIN files \cup DOMAIN added /\ Overlay(files, added)[<<n>>] = FileOf(pin.commit[Append(d, n)])
  <1> DEFINE files == SnapshotFiles(pin.commit, pin.at)
             added == AncestorFiles(pin.commit, pin.at)
             above == NoticesAbove(pin.commit, pin.at)
             picked(q) == CHOOSE p \in above : Last(p) = q[1]
  <1>1. /\ pin.at \in Seq(Names) /\ DOMAIN pin.commit \subseteq Seq(Names) /\ IsFiniteSet(DOMAIN pin.commit)
        /\ above \subseteq DOMAIN pin.commit
    BY DEF IsPin, AncestorsAllowed
  <1>2. \A p \in above : IsNotice(p) /\ p # Root
    BY DEF NoticesAbove, IsNotice
  <1>3. \A p \in above : Last(p) \in Names /\ <<Last(p)>> \in Seq(Names) /\ <<Last(p)>>[1] = Last(p)
    <2>1. ASSUME NEW p \in Seq(Names), p # Root PROVE Last(p) \in Names
      <3>1. Len(p) \in Nat \ {0}
        BY <2>1 DEF Root
      <3>2. QED BY <3>1 DEF Last
    <2>2. QED BY <1>1, <1>2, <2>1
  <1>4. DOMAIN added = {<<Last(p)>> : p \in above} \ DOMAIN files
    BY DEF AncestorFiles
  <1>5. \A q \in DOMAIN added : added[q] = FileOf(pin.commit[picked(q)])
    BY DEF AncestorFiles
  <1>6. \A q \in DOMAIN added : picked(q) \in above /\ Last(picked(q)) = q[1]
    <2>1. \A q \in DOMAIN added : \E p \in above : Last(p) = q[1]
      BY <1>3, <1>4
    <2>2. QED BY <2>1
  <1> HIDE DEF picked
  <1>7. FilesByPath(added)
    <2> DEFINE f == [p \in above |-> <<Last(p)>>]
    <2>1. IsFiniteSet(above)
      BY <1>1, FS_Subset
    <2>2. DOMAIN f = above /\ \A q \in DOMAIN added : \E p \in above : f[p] = q
      BY <1>4
    <2>3. IsFiniteSet(DOMAIN added)
      <3> HIDE DEF f, added, above
      <3>1. QED BY <2>1, <2>2, Imaged
    <2>4. \A q \in DOMAIN added : added[q] \in Files
      BY <1>1, <1>5, <1>6, BlobsAreFiles
    <2>5. DOMAIN added \subseteq Seq(Names)
      BY <1>3, <1>4
    <2>6. added = [q \in DOMAIN added |-> added[q]]
      BY DEF AncestorFiles
    <2>7. QED BY <2>3, <2>4, <2>5, <2>6 DEF FilesByPath
  <1>8. ASSUME NEW d \in Above(pin.at), NEW n \in NoticeNames, Append(d, n) \in DOMAIN pin.commit
        PROVE  /\ <<n>> \in DOMAIN files \cup DOMAIN added
               /\ Overlay(files, added)[<<n>>] = FileOf(pin.commit[Append(d, n)])
    <2> DEFINE p == Append(d, n)
    <2>1. d \in Seq(Names) /\ pin.at # Root
      <3>1. Len(pin.at) \in Nat /\ (pin.at = Root => Len(pin.at) = 0)
        BY <1>1 DEF Root
      <3>2. QED BY <1>1, <1>8, <3>1 DEF Above
    <2>2. n \in Names
      <3>1. Append(d, n) \in Seq(Names) /\ Len(d) + 1 \in 1..Len(Append(d, n)) /\ Append(d, n)[Len(d) + 1] = n
        <4>1. Append(d, n) \in Seq(Names)
          BY <1>1, <1>8
        <4>2. d \in Seq(Names \cup {n}) /\ n \in Names \cup {n}
          BY <2>1
        <4>3. QED BY <4>1, <4>2, AppendProperties
      <3>2. QED BY <3>1
    <2>3. /\ p \in Seq(Names) /\ p # Root /\ Last(p) = n /\ p[Len(d) + 1] = n /\ IsStrictPrefix(d, p)
      BY <2>1, <2>2, LastOfAppend
    <2>4. p \in Listed(pin.commit, d)
      <3>1. p \in Selected(pin.commit, d)
        BY <1>8, <2>3 DEF Selected
      <3>2. n \in {q[Len(d) + 1] : q \in Selected(pin.commit, d)}
        BY <2>3, <3>1
      <3>3. QED BY <3>2 DEF Listed
    <2>5. p \in above
      BY <1>8, <2>1, <2>3, <2>4 DEF NoticesAbove, IsNotice
    <2>6. <<Last(p)>> = <<n>>
      BY <2>3
    <2>7. CASE <<n>> \in DOMAIN files
      <3>1. FileOf(pin.commit[p]) = files[<<n>>]
        BY <2>5, <2>6, <2>7 DEF AncestorsAllowed
      <3>2. QED BY <2>7, <3>1 DEF Overlay
    <2>8. CASE <<n>> \notin DOMAIN files
      <3>1. <<n>> \in DOMAIN added
        BY <1>4, <2>5, <2>6, <2>8
      <3>2. picked(<<n>>) \in above /\ Last(picked(<<n>>)) = n
        BY <1>6, <3>1
      <3>3. FileOf(pin.commit[picked(<<n>>)]) = FileOf(pin.commit[p])
        BY <2>3, <2>5, <3>2 DEF AncestorsAllowed
      <3>4. added[<<n>>] = FileOf(pin.commit[p])
        BY <1>5, <3>1, <3>3
      <3>5. QED BY <2>8, <3>1, <3>4 DEF Overlay
    <2>9. QED BY <2>7, <2>8
  <1>9. QED BY <1>7, <1>8

-----------------------------------------------------------------------------
(* The proposed tree. *)

LEMMA FinalHolds ==
  ASSUME NEW local, Shaped(local), NEW files, FilesByPath(files), NEW notices, FilesByPath(notices),
         FinalAllowed(local, files, notices)
  PROVE  LET final == FinalFiles(local, files, notices) IN
         /\ FilesByPath(final)
         /\ \A p \in DOMAIN files : p \in DOMAIN final /\ final[p] = files[p]
         /\ \A p \in DOMAIN files \cup DOMAIN notices : p \in DOMAIN final /\ final[p] = Overlay(files, notices)[p]
         /\ \A p \in PathsOf(local, "file") : IsNotice(p) => p \in DOMAIN final /\ final[p] = RegularFiles(local)[p]
         /\ FoldsApart(DOMAIN final) /\ PathsOf(local, "link") = {}
  <1> DEFINE joined == CandidateFiles(files, notices)
             own == LocalNotices(local)
             final == FinalFiles(local, files, notices)
  <1>1. FilesByPath(RegularFiles(local)) /\ DOMAIN RegularFiles(local) = PathsOf(local, "file")
    BY ShapedParts
  <1>2. /\ DOMAIN own = {q \in PathsOf(local, "file") : IsNotice(q)}
        /\ \A p \in DOMAIN own : own[p] = RegularFiles(local)[p]
    BY DEF LocalNotices
  <1>3. FilesByPath(own)
    <2>1. IsFiniteSet(DOMAIN own)
      BY <1>1, <1>2, FS_Subset DEF FilesByPath
    <2>2. own = [p \in DOMAIN own |-> own[p]]
      BY DEF LocalNotices
    <2>3. \A p \in DOMAIN own : own[p] \in Files
      BY <1>1, <1>2 DEF FilesByPath
    <2>4. QED BY <1>1, <1>2, <2>1, <2>2, <2>3 DEF FilesByPath
  <1>4. joined = Overlay(files, notices) /\ final = Overlay(joined, own)
    BY DEF CandidateFiles, FinalFiles
  <1>5. /\ Agree(files, notices) /\ Agree(joined, own) /\ PathsOf(local, "link") = {}
        /\ FoldsApart(DOMAIN final)
    BY DEF FinalAllowed, FinalTreeAllowed, TreeAllowed
  <1> HIDE DEF joined, own, final
  <1>6. /\ FilesByPath(joined) /\ DOMAIN joined = DOMAIN files \cup DOMAIN notices
        /\ \A p \in DOMAIN files : joined[p] = files[p]
    <2>1. FilesByPath(Overlay(files, notices)) /\ DOMAIN Overlay(files, notices) = DOMAIN files \cup DOMAIN notices
      BY Overlaid
    <2>2. \A p \in DOMAIN files : Overlay(files, notices)[p] = files[p]
      BY Overlaid
    <2>3. QED BY <1>4, <2>1, <2>2
  <1>7. /\ FilesByPath(final) /\ DOMAIN final = DOMAIN joined \cup DOMAIN own
        /\ \A p \in DOMAIN joined : final[p] = joined[p]
        /\ \A p \in DOMAIN own : final[p] = own[p]
    <2>1. FilesByPath(Overlay(joined, own)) /\ DOMAIN Overlay(joined, own) = DOMAIN joined \cup DOMAIN own
      BY <1>3, <1>6, Overlaid
    <2>2. \A p \in DOMAIN joined : Overlay(joined, own)[p] = joined[p]
      BY <1>3, <1>6, Overlaid
    <2>3. \A p \in DOMAIN own : Overlay(joined, own)[p] = own[p]
      BY <1>5 DEF Overlay, Agree
    <2>4. QED BY <1>4, <2>1, <2>2, <2>3
  <1>8. \A p \in PathsOf(local, "file") : IsNotice(p) => p \in DOMAIN final /\ final[p] = RegularFiles(local)[p]
    BY <1>2, <1>7
  <1>9. QED BY <1>4, <1>5, <1>6, <1>7, <1>8 DEF final

(* Its directories are those of the local tree and those its files are in. *)
LEMMA FinalDirectoriesClosed ==
  ASSUME NEW local, Shaped(local), NEW files, FilesByPath(files)
  PROVE  LET directories == FinalDirectories(local, files) IN
         /\ directories \subseteq Seq(Names) /\ IsFiniteSet(directories)
         /\ Root \in directories /\ PathsOf(local, "directory") \subseteq directories
         /\ \A p \in directories \cup DOMAIN files : Above(p) \subseteq directories
         /\ DOMAIN files = PathsOf(local, "file") => directories = PathsOf(local, "directory")
  <1> DEFINE directories == FinalDirectories(local, files)
             old == PathsOf(local, "directory")
             all == DOMAIN files \cup old
             above == UNION {Above(p) : p \in all}
  <1>1. /\ old \subseteq Seq(Names) /\ IsFiniteSet(old) /\ Root \in old
        /\ \A e \in EntriesOf(local) : Above(e.path) \subseteq old
        /\ DOMAIN files \subseteq Seq(Names) /\ IsFiniteSet(DOMAIN files)
    BY ShapedParts DEF FilesByPath
  <1>2. directories = old \cup {Root} \cup above
    BY DEF FinalDirectories
  <1>3. all \in SUBSET Seq(Names) /\ IsFiniteSet(all)
    BY <1>1, FS_Union
  <1>4. \A p \in Seq(Names) : \A q \in Above(p) : q \in Seq(Names) /\ Above(q) \subseteq Above(p)
    <2>1. ASSUME NEW p \in Seq(Names), NEW i \in 0..(Len(p) - 1)
          PROVE  SubSeq(p, 1, i) \in Seq(Names) /\ Above(SubSeq(p, 1, i)) \subseteq Above(p)
      <3>1. Len(p) \in Nat /\ SubSeq(p, 1, i) \in Seq(Names) /\ Len(SubSeq(p, 1, i)) = i
        BY <2>1
      <3>2. ASSUME NEW j \in 0..(i - 1) PROVE SubSeq(SubSeq(p, 1, i), 1, j) = SubSeq(p, 1, j) /\ j \in 0..(Len(p) - 1)
        <4>1. j \in 0..(Len(p) - 1)
          BY <3>1
        <4>2. /\ SubSeq(SubSeq(p, 1, i), 1, j) \in Seq(Names) /\ Len(SubSeq(SubSeq(p, 1, i), 1, j)) = j
              /\ SubSeq(p, 1, j) \in Seq(Names) /\ Len(SubSeq(p, 1, j)) = j
          BY <3>1, <4>1
        <4>3. \A k \in 1..j : SubSeq(SubSeq(p, 1, i), 1, j)[k] = SubSeq(p, 1, j)[k]
          BY <3>1, <4>1
        <4>4. QED BY <4>1, <4>2, <4>3, SeqEqual
      <3>3. QED BY <3>1, <3>2 DEF Above
    <2>2. QED BY <2>1 DEF Above
  <1>5. above \in SUBSET Seq(Names) /\ IsFiniteSet(above)
    BY <1>3, <1>4, AboveFinite
  <1>6. IsFiniteSet(directories) /\ directories \subseteq Seq(Names)
    <2>1. IsFiniteSet(old \cup {Root}) /\ Root \in Seq(Names)
      BY <1>1, FS_Union, FS_Singleton
    <2>2. QED
      <3> HIDE DEF above, directories, old
      <3>1. QED BY <1>1, <1>2, <1>5, <2>1, FS_Union
  <1>7. Above(Root) = {}
    <2>1. Len(Root) = 0
      BY DEF Root
    <2>2. QED BY <2>1 DEF Above
  <1>8. ASSUME NEW p \in directories \cup DOMAIN files PROVE Above(p) \subseteq directories
    <2>1. CASE p \in all
      BY <1>2, <2>1
    <2>2. CASE p \in above
      <3>1. PICK r \in all : p \in Above(r)
        BY <2>2
      <3>2. Above(p) \subseteq Above(r)
        BY <1>3, <1>4, <3>1
      <3>3. QED BY <1>2, <3>1, <3>2
    <2>3. QED BY <1>2, <1>7, <2>1, <2>2
  <1>9. ASSUME DOMAIN files = PathsOf(local, "file") PROVE directories = old
    <2>1. \A p \in all : Above(p) \subseteq old
      BY <1>1, <1>9 DEF PathsOf
    <2>2. QED BY <1>1, <1>2, <2>1
  <1>10. QED BY <1>1, <1>2, <1>6, <1>8, <1>9

LEMMA EntriesMade ==
  ASSUME NEW local, Shaped(local), NEW files, FilesByPath(files)
  PROVE  /\ \A d \in FinalDirectories(local, files) :
              /\ DirectoryEntry(local, d) \in ManifestEntries /\ DirectoryEntry(local, d).path = d
              /\ DirectoryEntry(local, d).kind = "directory"
         /\ \A p \in DOMAIN files :
              /\ FileEntry(files, p) \in ManifestEntries /\ FileEntry(files, p).path = p
              /\ FileEntry(files, p).kind = "file"
              /\ [executable |-> FileEntry(files, p).executable, bytes |-> FileEntry(files, p).bytes] = files[p]
         /\ \A e \in EntriesOf(local) : e.kind = "directory" => DirectoryEntry(local, e.path) = e
         /\ \A e \in EntriesOf(local) :
              e.kind = "file" /\ e.path \in DOMAIN files /\ files[e.path] = RegularFiles(local)[e.path]
                => FileEntry(files, e.path) = e
  <1>1. /\ local \in Manifests /\ InOrder(local)
        /\ \A e \in EntriesOf(local) : /\ e \in ManifestEntries /\ EntryAt(local, e.path) = e
                                       /\ e.kind = "directory" => e.bytes = <<>>
                                       /\ e.kind = "file" => RegularFiles(local)[e.path] = [executable |-> e.executable, bytes |-> e.bytes]
    BY ShapedParts, EntryTypes, OneEntryPerPath
  <1>2. FinalDirectories(local, files) \subseteq Seq(Names) /\ <<>> \in Bytes
    BY FinalDirectoriesClosed DEF Bytes
  <1>3. ASSUME NEW d \in FinalDirectories(local, files)
        PROVE  /\ DirectoryEntry(local, d) \in ManifestEntries /\ DirectoryEntry(local, d).path = d
               /\ DirectoryEntry(local, d).kind = "directory"
    <2>1. (d \in PathsOf(local, "directory") => EntryAt(local, d).executable) \in BOOLEAN
      OBVIOUS
    <2>2. QED BY <1>2, <2>1 DEF DirectoryEntry, ManifestEntries
  <1>4. ASSUME NEW p \in DOMAIN files
        PROVE  /\ FileEntry(files, p) \in ManifestEntries /\ FileEntry(files, p).path = p
               /\ FileEntry(files, p).kind = "file"
               /\ [executable |-> FileEntry(files, p).executable, bytes |-> FileEntry(files, p).bytes] = files[p]
    <2>1. files[p] \in Files /\ p \in Seq(Names)
      BY DEF FilesByPath
    <2>2. QED BY <2>1 DEF FileEntry, ManifestEntries, Files
  <1>5. ASSUME NEW e \in EntriesOf(local), e.kind = "directory" PROVE DirectoryEntry(local, e.path) = e
    <2>1. e \in ManifestEntries /\ e.bytes = <<>> /\ EntryAt(local, e.path) = e /\ e.path \in PathsOf(local, "directory")
      BY <1>1, <1>5 DEF PathsOf
    <2>2. e.executable \in BOOLEAN
      BY <2>1 DEF ManifestEntries
    <2>3. (e.path \in PathsOf(local, "directory") => EntryAt(local, e.path).executable) = e.executable
      BY <2>1, <2>2
    <2>4. e = [path |-> e.path, kind |-> "directory", bytes |-> <<>>, executable |-> e.executable]
      BY <1>5, <2>1 DEF ManifestEntries
    <2>5. QED BY <2>3, <2>4 DEF DirectoryEntry
  <1>6. ASSUME NEW e \in EntriesOf(local), e.kind = "file", e.path \in DOMAIN files,
               files[e.path] = RegularFiles(local)[e.path]
        PROVE  FileEntry(files, e.path) = e
    <2>1. files[e.path].bytes = e.bytes /\ files[e.path].executable = e.executable
      <3>1. files[e.path] = [executable |-> e.executable, bytes |-> e.bytes]
        BY <1>1, <1>6, Zenon
      <3>2. QED BY <3>1
    <2>2. e = [path |-> e.path, kind |-> "file", bytes |-> e.bytes, executable |-> e.executable]
      BY <1>1, <1>6 DEF ManifestEntries
    <2>3. QED BY <2>1, <2>2 DEF FileEntry
  <1>7. QED BY <1>3, <1>4, <1>5, <1>6

(* Its manifest lists these directories and files, and nothing else, in the order of *)
(* the walk.                                                                          *)
LEMMA FinalManifestLists ==
  ASSUME NEW local, Shaped(local), NEW files, FilesByPath(files), ManifestAllowed(local, files)
  PROVE  LET final == FinalManifest(local, files)
             directories == FinalDirectories(local, files) IN
         /\ final \in Manifests /\ InOrder(final)
         /\ EntriesOf(final) = {DirectoryEntry(local, d) : d \in directories} \cup {FileEntry(files, p) : p \in DOMAIN files}
         /\ RegularFiles(final) = files
  <1> DEFINE directories == FinalDirectories(local, files)
             all == directories \cup DOMAIN files
             paths == ByName(all)
             final == FinalManifest(local, files)
             entry(p) == IF p \in directories THEN DirectoryEntry(local, p) ELSE FileEntry(files, p)
  <1>1. directories \cap DOMAIN files = {}
    BY DEF ManifestAllowed
  <1>2. all \in SUBSET Seq(Names) /\ IsFiniteSet(all)
    BY FinalDirectoriesClosed, FS_Union DEF FilesByPath
  <1>3. /\ paths \in Seq(all) /\ Len(paths) \in Nat
        /\ \A p \in all : \E i \in 1..Len(paths) : paths[i] = p
        /\ \A i, j \in 1..Len(paths) : i < j => Before(paths[i], paths[j])
    <2> HIDE DEF all
    <2>1. QED BY <1>2, ByNameLists
  <1>4. final = [i \in 1..Len(paths) |-> entry(paths[i])]
    BY <1>3 DEF FinalManifest
  <1>5. \A p \in all : entry(p) \in ManifestEntries /\ entry(p).path = p
    BY EntriesMade
  <1>6. \A d \in directories : entry(d) = DirectoryEntry(local, d)
    OBVIOUS
  <1>7. \A p \in DOMAIN files : entry(p) = FileEntry(files, p)
    BY <1>1
  <1> HIDE DEF directories, paths, final, entry
  <1>8. \A i \in 1..Len(paths) : paths[i] \in all
    BY <1>3
  <1>9. final \in Manifests /\ Len(final) = Len(paths) /\ \A i \in 1..Len(paths) : final[i].path = paths[i]
    BY <1>3, <1>4, <1>5, <1>8 DEF Manifests
  <1>10. InOrder(final)
    BY <1>3, <1>9 DEF InOrder
  <1>11. EntriesOf(final) = {entry(p) : p \in all}
    <2>1. EntriesOf(final) = {entry(paths[i]) : i \in 1..Len(paths)}
      BY <1>4, <1>9 DEF EntriesOf
    <2>2. QED BY <1>3, <1>8, <2>1
  <1>12. EntriesOf(final) = {DirectoryEntry(local, d) : d \in directories} \cup {FileEntry(files, p) : p \in DOMAIN files}
    BY <1>6, <1>7, <1>11
  <1>13. PathsOf(final, "file") = DOMAIN files
    <2>1. \A d \in directories : DirectoryEntry(local, d).kind = "directory"
      BY EntriesMade DEF directories
    <2>2. \A p \in DOMAIN files : FileEntry(files, p).kind = "file" /\ FileEntry(files, p).path = p
      BY EntriesMade
    <2>3. QED BY <1>12, <2>1, <2>2 DEF PathsOf
  <1>14. ASSUME NEW p \in DOMAIN files PROVE RegularFiles(final)[p] = files[p]
    <2>1. FileEntry(files, p) \in EntriesOf(final) /\ FileEntry(files, p).path = p
      BY <1>12, EntriesMade
    <2>2. EntryAt(final, p) = FileEntry(files, p)
      BY <1>9, <1>10, <2>1, OneEntryPerPath
    <2>3. QED BY <1>13, <2>2, EntriesMade DEF RegularFiles
  <1>15. RegularFiles(final) = files
    <2>1. DOMAIN RegularFiles(final) = DOMAIN files /\ RegularFiles(final) = [p \in DOMAIN files |-> RegularFiles(final)[p]]
      BY <1>13 DEF RegularFiles
    <2>2. files = [p \in DOMAIN files |-> files[p]]
      BY DEF FilesByPath
    <2>3. QED BY <1>14, <2>1, <2>2
  <1>16. QED BY <1>9, <1>10, <1>12, <1>15 DEF directories, final

-----------------------------------------------------------------------------
(* Build *)

LEMMA EveryNoticeHeld ==
  ASSUME NEW local, Shaped(local), NEW pin, IsPin(pin), AncestorsAllowed(pin.commit, pin.at),
         FinalAllowed(local, SnapshotFiles(pin.commit, pin.at), AncestorFiles(pin.commit, pin.at))
  PROVE  LET files == FinalFiles(local, SnapshotFiles(pin.commit, pin.at), AncestorFiles(pin.commit, pin.at)) IN
         FilesByPath(files) /\ ProposalHoldsEveryNotice(local, files, pin.commit, pin.at)
  <1> DEFINE snapshot == SnapshotFiles(pin.commit, pin.at)
             notices == AncestorFiles(pin.commit, pin.at)
             files == FinalFiles(local, snapshot, notices)
  <1>1. /\ FilesByPath(snapshot)
        /\ \A p \in Selected(pin.commit, pin.at) : Below(pin.at, p) \in DOMAIN snapshot /\ snapshot[Below(pin.at, p)] = FileOf(pin.commit[p])
    BY SnapshotHolds
  <1>2. /\ FilesByPath(notices)
        /\ \A d \in Above(pin.at), n \in NoticeNames : Append(d, n) \in DOMAIN pin.commit =>
             <<n>> \in DOMAIN snapshot \cup DOMAIN notices /\ Overlay(snapshot, notices)[<<n>>] = FileOf(pin.commit[Append(d, n)])
    BY AncestorsHold
  <1> HIDE DEF snapshot, notices
  <1>3. /\ FilesByPath(files)
        /\ \A p \in DOMAIN snapshot : p \in DOMAIN files /\ files[p] = snapshot[p]
        /\ \A p \in DOMAIN snapshot \cup DOMAIN notices : p \in DOMAIN files /\ files[p] = Overlay(snapshot, notices)[p]
        /\ \A p \in PathsOf(local, "file") : IsNotice(p) => p \in DOMAIN files /\ files[p] = RegularFiles(local)[p]
    <2>1. FinalAllowed(local, snapshot, notices)
      BY DEF snapshot, notices
    <2>2. QED BY <1>1, <1>2, <2>1, FinalHolds
  <1> HIDE DEF files
  <1>4. ProposalHoldsEveryNotice(local, files, pin.commit, pin.at)
    <2>1. \A p \in Selected(pin.commit, pin.at) : files[Below(pin.at, p)] = FileOf(pin.commit[p])
      BY <1>1, <1>3
    <2>2. \A d \in Above(pin.at), n \in NoticeNames : Append(d, n) \in DOMAIN pin.commit =>
            files[<<n>>] = FileOf(pin.commit[Append(d, n)])
      BY <1>2, <1>3
    <2>3. QED BY <1>3, <2>1, <2>2 DEF ProposalHoldsEveryNotice
  <1>5. QED BY <1>3, <1>4 DEF files, snapshot, notices

LEMMA ProposedIsATree ==
  ASSUME NEW local, Shaped(local), NEW files, FilesByPath(files), FoldsApart(DOMAIN files),
         ManifestAllowed(local, files)
  PROVE  ProposalIsATree(local, FinalManifest(local, files))
  <1> DEFINE final == FinalManifest(local, files)
             directories == FinalDirectories(local, files)
  <1>1. EntriesOf(final) = {DirectoryEntry(local, d) : d \in directories} \cup {FileEntry(files, p) : p \in DOMAIN files}
    BY FinalManifestLists
  <1>2. /\ \A d \in directories : DirectoryEntry(local, d).path = d /\ DirectoryEntry(local, d).kind = "directory"
        /\ \A p \in DOMAIN files : FileEntry(files, p).path = p /\ FileEntry(files, p).kind = "file"
        /\ \A e \in EntriesOf(local) : e.kind = "directory" => DirectoryEntry(local, e.path) = e
    BY EntriesMade
  <1>3. /\ PathsOf(local, "directory") \subseteq directories
        /\ \A p \in directories \cup DOMAIN files : Above(p) \subseteq directories
    BY FinalDirectoriesClosed
  <1>4. \A p \in DOMAIN files, d \in directories : Folded(p) # Folded(d)
    BY DEF ManifestAllowed
  <1> HIDE DEF final, directories
  <1>5. \A e \in EntriesOf(final) : \/ e.kind = "directory" /\ e.path \in directories
                                    \/ e.kind = "file" /\ e.path \in DOMAIN files /\ e = FileEntry(files, e.path)
    BY <1>1, <1>2
  <1>6. \A e, f \in EntriesOf(final) :
          Folded(e.path) = Folded(f.path) => e = f \/ (e.kind = "directory" /\ f.kind = "directory")
    BY <1>4, <1>5 DEF FoldsApart
  <1>7. \A e \in EntriesOf(final), d \in UNION {Above(f.path) : f \in EntriesOf(final)} :
          Folded(e.path) = Folded(d) => e.kind = "directory"
    <2>1. UNION {Above(f.path) : f \in EntriesOf(final)} \subseteq directories
      BY <1>3, <1>5
    <2>2. QED BY <1>4, <1>5, <2>1
  <1>8. ASSUME NEW d \in PathsOf(local, "directory") PROVE EntryAt(local, d) \in EntriesOf(final)
    <2>1. PICK e \in EntriesOf(local) : e.kind = "directory" /\ e.path = d
      BY DEF PathsOf
    <2>2. EntryAt(local, d) = e
      BY <2>1, ShapedParts, OneEntryPerPath
    <2>3. DirectoryEntry(local, d) = e /\ d \in directories
      BY <1>2, <1>3, <2>1
    <2>4. QED BY <1>1, <2>2, <2>3
  <1>9. QED BY <1>6, <1>7, <1>8 DEF ProposalIsATree, final

(* When no file is added, removed or modified, the proposed manifest is the local one. *)
LEMMA SameFilesSameManifest ==
  ASSUME NEW local, Shaped(local), PathsOf(local, "link") = {}, NEW files, FilesByPath(files),
         ManifestAllowed(local, files)
  PROVE  FinalManifest(local, files) = local <=> files = RegularFiles(local)
  <1> DEFINE final == FinalManifest(local, files)
             directories == FinalDirectories(local, files)
  <1>1. /\ final \in Manifests /\ InOrder(final) /\ RegularFiles(final) = files
        /\ EntriesOf(final) = {DirectoryEntry(local, d) : d \in directories} \cup {FileEntry(files, p) : p \in DOMAIN files}
    BY FinalManifestLists
  <1>2. ASSUME files = RegularFiles(local) PROVE final = local
    <2>1. /\ local \in Manifests /\ InOrder(local) /\ DOMAIN files = PathsOf(local, "file")
          /\ \A e \in EntriesOf(local) : e \in ManifestEntries
      BY <1>2, ShapedParts, EntryTypes
    <2>2. directories = PathsOf(local, "directory")
      BY <2>1, FinalDirectoriesClosed
    <2>3. /\ \A e \in EntriesOf(local) : e.kind = "directory" => DirectoryEntry(local, e.path) = e
          /\ \A e \in EntriesOf(local) : e.kind = "file" => FileEntry(files, e.path) = e
      BY <1>2, <2>1, EntriesMade DEF PathsOf
    <2>4. \A e \in EntriesOf(local) : e.kind \in {"file", "directory"}
      <3>1. \A e \in EntriesOf(local) : e.kind # "link"
        BY DEF PathsOf
      <3>2. \A e \in ManifestEntries : e.kind \in {"file", "directory", "link"}
        BY DEF ManifestEntries
      <3>3. QED BY <2>1, <3>1, <3>2
    <2> HIDE DEF final, directories
    <2>5. EntriesOf(final) = EntriesOf(local)
      <3>1. ASSUME NEW e \in EntriesOf(local) PROVE e \in EntriesOf(final)
        <4>1. CASE e.kind = "directory"
          <5>1. e.path \in directories /\ DirectoryEntry(local, e.path) = e
            BY <2>2, <2>3, <4>1 DEF PathsOf
          <5>2. QED BY <1>1, <5>1
        <4>2. CASE e.kind = "file"
          <5>1. e.path \in DOMAIN files /\ FileEntry(files, e.path) = e
            BY <2>1, <2>3, <4>2 DEF PathsOf
          <5>2. QED BY <1>1, <5>1
        <4>3. QED BY <2>4, <4>1, <4>2
      <3>2. ASSUME NEW d \in directories PROVE DirectoryEntry(local, d) \in EntriesOf(local)
        <4>1. PICK e \in EntriesOf(local) : e.kind = "directory" /\ e.path = d
          BY <2>2 DEF PathsOf
        <4>2. QED BY <2>3, <4>1
      <3>3. ASSUME NEW p \in DOMAIN files PROVE FileEntry(files, p) \in EntriesOf(local)
        <4>1. PICK e \in EntriesOf(local) : e.kind = "file" /\ e.path = p
          BY <2>1 DEF PathsOf
        <4>2. QED BY <2>3, <4>1
      <3>4. QED BY <1>1, <3>1, <3>2, <3>3
    <2>6. QED BY <1>1, <2>1, <2>5, SameEntriesSameOrder
  <1>3. QED BY <1>1, <1>2

LEMMA NothingChanges ==
  ASSUME NEW local, NEW final, NEW files, RegularFiles(final) = files, FilesByPath(files), FilesByPath(RegularFiles(local))
  PROVE  (\A c \in Changes(local, final) : c[1] = "preserve") <=> files = RegularFiles(local)
  <1> DEFINE before == RegularFiles(local)
  <1>1. Changes(local, final) = {<<"add", p>> : p \in DOMAIN files \ DOMAIN before}
          \cup {<<"remove", p>> : p \in DOMAIN before \ DOMAIN files}
          \cup {<<"modify", p>> : p \in {q \in DOMAIN before \cap DOMAIN files : before[q] # files[q]}}
    BY DEF Changes
  <1>2. files = [p \in DOMAIN files |-> files[p]] /\ before = [p \in DOMAIN before |-> before[p]]
    BY DEF FilesByPath
  <1> HIDE DEF before
  <1>3. ASSUME files = before PROVE Changes(local, final) = {}
    BY <1>1, <1>3
  <1>4. ASSUME \A c \in Changes(local, final) : c[1] = "preserve" PROVE files = before
    <2>1. \A p \in DOMAIN files \ DOMAIN before : <<"add", p>> \in Changes(local, final) /\ <<"add", p>>[1] = "add"
      BY <1>1
    <2>2. \A p \in DOMAIN before \ DOMAIN files : <<"remove", p>> \in Changes(local, final) /\ <<"remove", p>>[1] = "remove"
      BY <1>1
    <2>3. \A p \in DOMAIN before \cap DOMAIN files : before[p] # files[p] =>
            <<"modify", p>> \in Changes(local, final) /\ <<"modify", p>>[1] = "modify"
      BY <1>1
    <2>4. DOMAIN files = DOMAIN before
      BY <1>4, <2>1, <2>2
    <2>5. \A p \in DOMAIN files : before[p] = files[p]
      BY <1>4, <2>3, <2>4
    <2>6. QED BY <1>2, <2>4, <2>5
  <1>5. QED BY <1>3, <1>4 DEF before

(* What a preview proposes, of the request it answers and the commit it pins. *)
Sound(b) ==
  LET local == b.kept.manifest
      proposed == b.proposed IN
  /\ ProposalHoldsEveryNotice(local, RegularFiles(proposed), b.pinned.commit, b.pinned.at)
  /\ ProposalIsATree(local, proposed)
  /\ Len(proposed) <= MaxEntries /\ BytesIn(proposed) <= MaxBytes
  /\ proposed = b.kept.record.baseline <=> \A c \in b.changes : c[1] = "preserve"

LEMMA BuildIsSound == ASSUME TInv, ShapeInv, Build, answer' = "preview" PROVE Sound(basis')
  <1> DEFINE local == kept.manifest
             snapshot == SnapshotFiles(pinned.commit, pinned.at)
             notices == AncestorFiles(pinned.commit, pinned.at)
             files == FinalFiles(local, snapshot, notices)
             proposed == FinalManifest(local, files)
             changes == Changes(local, proposed) \cup Preserved(local, snapshot, notices)
  <1>1. /\ FinalAllowed(local, snapshot, notices) /\ ManifestAllowed(local, files) /\ WithinLimits(proposed)
        /\ basis' = [kept |-> kept, pinned |-> pinned, proposed |-> proposed, changes |-> changes]
    BY DEF Build, Refused, Answered
  <1>2. phase = "building"
    BY DEF Build
  <1>3. /\ Shaped(local) /\ IsPin(pinned) /\ AncestorsAllowed(pinned.commit, pinned.at)
        /\ kept.record.baseline = local
    BY <1>2 DEF TInv, OfSession, ShapeInv, OfShape, OfPin, Requested, Fetched
  <1>4. FilesByPath(files) /\ ProposalHoldsEveryNotice(local, files, pinned.commit, pinned.at)
    BY <1>1, <1>3, EveryNoticeHeld
  <1>5. FoldsApart(DOMAIN files) /\ PathsOf(local, "link") = {}
    BY <1>1, <1>3 DEF FinalAllowed, FinalTreeAllowed, TreeAllowed
  <1>6. \A c \in Preserved(local, snapshot, notices) : c[1] = "preserve"
    BY DEF Preserved
  <1> HIDE DEF local, snapshot, notices, files
  <1>7. ProposalIsATree(local, proposed) /\ RegularFiles(proposed) = files
    BY <1>1, <1>3, <1>4, <1>5, ProposedIsATree, FinalManifestLists
  <1>8. proposed = local <=> files = RegularFiles(local)
    BY <1>1, <1>3, <1>4, <1>5, SameFilesSameManifest
  <1>9. (\A c \in Changes(local, proposed) : c[1] = "preserve") <=> files = RegularFiles(local)
    BY <1>3, <1>4, <1>7, ShapedParts, NothingChanges
  <1>10. proposed = kept.record.baseline <=> \A c \in changes : c[1] = "preserve"
    BY <1>3, <1>6, <1>8, <1>9
  <1>11. Len(proposed) <= MaxEntries /\ BytesIn(proposed) <= MaxBytes
    BY <1>1 DEF WithinLimits
  <1> HIDE DEF proposed, changes
  <1>12. /\ basis'.kept = kept /\ basis'.pinned = pinned /\ basis'.proposed = proposed /\ basis'.changes = changes
    BY <1>1
  <1>13. kept.manifest = local
    BY DEF local
  <1>14. QED BY <1>4, <1>7, <1>10, <1>11, <1>12, <1>13 DEF Sound

(* Only Build answers with a preview. *)
LEMMA OnlyBuildPreviews ==
  ASSUME TInv, TrackingNext, ~Build, answer' = "preview" PROVE answer = "preview" /\ basis' = basis
  <1>1. CASE Others
    BY <1>1 DEF Others, WriteTree, MovePlace, WritePapers, WithholdPapers, WriteRecord, WriteRegistration, MoveLinks, Changed, session
  <1>2. CASE Observe
    BY <1>2 DEF Observe, ReadPlace, ReadPapers, Validate, WalkOpen, WalkEntry, WalkFile, WalkClose, LookFails, Looking
  <1>3. CASE Adoption
    <2>1. \A r \in {"good", "changed", "unavailable"} : VerdictOf[r] # "preview"
      BY DEF VerdictOf
    <2>2. VerifyContent => look.result \in {"good", "changed", "unavailable"}
      BY DEF TInv, OfLook, VerifyContent, Concluded, Adopting, OfReading
    <2>3. QED BY <1>3, <2>1, <2>2 DEF Adoption, BeginAdoption, LeaveAdoption, PreviewAdoption, Planned, Replanned, ConfirmAdoption,
                RecordOrigin, CommitOrigin, VerifyRecord, VerifyContent, Reported, BackToForm, Refused, Answered
  <1>4. CASE Check /\ ~Build
    BY <1>4 DEF Check, BeginCheck, Prepared, RecheckBefore, Cancel, Fetch, FetchFails, ReadObjects, RecheckAfter,
                RecheckInstallations, RecheckRequest, Rechecked, Step, Refused, Answered
  <1>5. QED BY <1>1, <1>2, <1>3, <1>4 DEF TrackingNext

(* A proposed tree can be put in the place of the local one: every file of the origin and   *)
(* every notice of either side is in it unchanged, no name stands for two things on a file  *)
(* system that ignores case, save two directories whose names differ only in case, the      *)
(* limits of the next walk hold, and it is the recorded                                     *)
(* baseline exactly when no file would be written or removed (final_manifest,               *)
(* baseline_from_regular_entries_with_directory_modes, changes).                            *)
THEOREM ProposalsAreSound == TrackingSpec => []ProposalIsSound
  <1>1. ProposalIsSound <=> (answer = "preview" => Sound(basis))
    BY DEF ProposalIsSound, Sound
  <1>2. TrackingInit => ProposalIsSound
    BY <1>1 DEF TrackingInit
  <1>3. TInv /\ ShapeInv /\ ProposalIsSound /\ [TrackingNext]_trackingVars => ProposalIsSound'
    <2>0. ProposalIsSound' <=> (answer' = "preview" => Sound(basis)')
      BY DEF ProposalIsSound, Sound
    <2>1. ASSUME UNCHANGED trackingVars PROVE UNCHANGED <<answer, basis>>
      BY <2>1 DEF trackingVars, session
    <2>2. Sound(basis)' <=> Sound(basis')
      BY DEF Sound
    <2>3. QED BY <1>1, <2>0, <2>1, <2>2, BuildIsSound, OnlyBuildPreviews
  <1>4. QED BY <1>2, <1>3, TrackingInvariance, ShapeInvariance, PTL DEF TrackingSpec

-----------------------------------------------------------------------------
(* What a verdict of failure goes by: something differs from what was saved, or was *)
(* written since.                                                                    *)

Deviates(b) ==
  \/ touched
  \/ stored # b.record \/ place # b.dirs
  \/ ReadEvidence(Undisclosed(papers)) # b.evidence
  \/ \E p \in TreePaths : Standing[p] # Entry(b.manifest, p)
  \/ ~IsPortable(Entry(b.manifest, Skill))
AsSaved == [kept EXCEPT !.record = Association]

(* While nothing is written, what has stood is what stands, and a walk that went back *)
(* to what it has opened would find it as it was.                                      *)
StackStands(stack) ==
  \A k \in 1..Len(stack) :
    /\ tree[stack[k].dir].kind = "directory" /\ tree[stack[k].dir].stamp = stack[k].stamp
    /\ \A j \in 1..Len(stack[k].left) : tree[stack[k].left[j]].kind # "absent"
OpenStands ==
  look.open # Missing =>
    tree[Head(Top.left)].kind = "file" /\ tree[Head(Top.left)].stamp = look.open.stamp
OfStill ==
  ~touched =>
    /\ \A p \in TreePaths : stood.tree[p] = {EntryOf(p, tree[p])}
    /\ look.step = "walk" => StackStands(look.stack) /\ OpenStands
ListsPaths(manifest) == \A i \in 1..Len(manifest) : manifest[i].path \in TreePaths
OfKept ==
  /\ ListsPaths(look.entries)
  /\ phase \in Previewed => kept.dirs \in {"ours", "moved"} /\ ListsPaths(kept.manifest)
OfFailure ==
  /\ phase = "verifying" /\ look.step = "done" /\ look.result = "changed" => Deviates(AsSaved)
  /\ answer = "failed" => Deviates(basis)
VerdictInv == OfStill /\ OfKept /\ OfFailure

-----------------------------------------------------------------------------
(* Limits hold of less when they hold of more. *)

LEMMA FiniteUnion ==
  ASSUME NEW S, IsFiniteSet(S), NEW f, DOMAIN f = S, \A s \in S : IsFiniteSet(f[s])
  PROVE  IsFiniteSet(UNION {f[s] : s \in S})
  <1> DEFINE U(T) == UNION {f[s] : s \in T}
             Bad == {T \in FiniteSubsetsOf(S) : ~IsFiniteSet(U(T))}
  <1>1. SUFFICES ASSUME Bad # {} PROVE FALSE
    BY DEF FiniteSubsetsOf
  <1>2. IsWellFoundedOn(StrictSubsetOrdering(S), FiniteSubsetsOf(S))
    BY FS_StrictSubsetOrderingWellFounded
  <1>3. PICK T \in Bad : \A R \in Bad : <<R, T>> \notin StrictSubsetOrdering(S)
    <2> HIDE DEF Bad
    <2>1. Bad \subseteq FiniteSubsetsOf(S) BY DEF Bad
    <2>2. QED BY <1>1, <1>2, <2>1, WFMin
  <1>4. T \in SUBSET S /\ IsFiniteSet(T) /\ ~IsFiniteSet(U(T))
    BY DEF FiniteSubsetsOf
  <1>5. T # {}
    <2>1. T = {} => U(T) = {}
      OBVIOUS
    <2>2. QED BY <1>4, <2>1, FS_EmptySet
  <1>6. PICK s \in T : TRUE
    BY <1>5
  <1> DEFINE R == T \ {s}
  <1>7. R \in SUBSET S /\ IsFiniteSet(R) /\ R \in SUBSET T /\ R # T
    BY <1>4, <1>6, FS_Subset
  <1>8. IsFiniteSet(U(R))
    <2>1. <<R, T>> \in StrictSubsetOrdering(S)
      BY <1>4, <1>7 DEF StrictSubsetOrdering
    <2>2. R \notin Bad
      BY <1>3, <2>1
    <2>3. R \in FiniteSubsetsOf(S)
      BY <1>7 DEF FiniteSubsetsOf
    <2>4. QED BY <2>2, <2>3
  <1>9. IsFiniteSet(f[s])
    BY <1>4, <1>6
  <1>10. U(T) = U(R) \cup f[s]
    BY <1>6
  <1>11. QED
    <2> HIDE DEF U
    <2>1. QED BY <1>4, <1>8, <1>9, <1>10, FS_Union

LEMMA LimitsOfLess ==
  ASSUME NEW m \in Manifests, NEW n \in Manifests, WithinLimits(n), EntriesOf(m) \subseteq EntriesOf(n),
         \A i, j \in 1..Len(m) : m[i].path = m[j].path => i = j
  PROVE  WithinLimits(m)
  <1>0. Len(m) \in Nat /\ Len(n) \in Nat
    BY EntryTypes
  <1>1. IsFiniteSet(1..Len(n)) /\ Cardinality(1..Len(n)) = Len(n) /\ Cardinality(1..Len(m)) = Len(m)
    <2>1. ASSUME NEW k \in Nat PROVE IsFiniteSet(1..k) /\ Cardinality(1..k) = k
      <3>1. 1 \in Int /\ k \in Int
        OBVIOUS
      <3>2. IsFiniteSet(1..k) /\ Cardinality(1..k) = IF 1 > k THEN 0 ELSE k - 1 + 1
        BY <3>1, FS_Interval, Zenon
      <3>3. QED BY <3>2
    <2>2. QED BY <1>0, <2>1
  <1> DEFINE f == [i \in 1..Len(n) |-> n[i]]
             g == [i \in 1..Len(m) |-> m[i]]
  <1>2. f \in Surjection(1..Len(n), EntriesOf(n))
    BY DEF Surjection, EntriesOf
  <1>3. IsFiniteSet(EntriesOf(n)) /\ Cardinality(EntriesOf(n)) <= Len(n) /\ Cardinality(EntriesOf(n)) \in Nat
    <2> HIDE DEF f
    <2>1. QED BY <1>1, <1>2, FS_Surjection, FS_CardinalityType
  <1>4. g \in Injection(1..Len(m), EntriesOf(n))
    <2>1. \A i \in 1..Len(m) : m[i] \in EntriesOf(n)
      BY EntryTypes
    <2>2. QED BY <2>1 DEF Injection, IsInjective
  <1>5. Len(m) <= Cardinality(EntriesOf(n))
    <2> HIDE DEF g
    <2>1. QED BY <1>1, <1>3, <1>4, FS_Injection
  <1>6. Len(m) <= MaxEntries
    BY <1>0, <1>3, <1>5, LimitsAssumption DEF WithinLimits
  <1> DEFINE places == [e \in EntriesOf(n) |-> {e} \X (1..Len(e.bytes))]
             all == UNION {{e} \X (1..Len(e.bytes)) : e \in EntriesOf(n)}
             some == UNION {{e} \X (1..Len(e.bytes)) : e \in EntriesOf(m)}
  <1>7. \A e \in EntriesOf(n) : IsFiniteSet(places[e])
    <2>1. ASSUME NEW e \in EntriesOf(n) PROVE IsFiniteSet({e} \X (1..Len(e.bytes)))
      <3>1. e \in ManifestEntries
        BY EntryTypes
      <3>2. e.bytes \in Seq(Chunks)
        BY <3>1 DEF ManifestEntries, Bytes
      <3>3. Len(e.bytes) \in Nat
        BY <3>2
      <3>4. IsFiniteSet(1..Len(e.bytes)) /\ IsFiniteSet({e})
        <4>1. 1 \in Int /\ Len(e.bytes) \in Int
          BY <3>3
        <4>2. QED BY <4>1, FS_Interval, FS_Singleton, Zenon
      <3>5. QED BY <3>4, FS_Product
    <2>2. QED BY <2>1
  <1>8. all = UNION {places[e] : e \in EntriesOf(n)} /\ DOMAIN places = EntriesOf(n)
    OBVIOUS
  <1>9. IsFiniteSet(all)
    <2> HIDE DEF places, all
    <2>1. QED BY <1>3, <1>7, <1>8, FiniteUnion
  <1>10. some \subseteq all
    OBVIOUS
  <1>11. Cardinality(some) <= Cardinality(all) /\ Cardinality(some) \in Nat /\ Cardinality(all) \in Nat
    <2> HIDE DEF some, all
    <2>1. QED BY <1>9, <1>10, FS_Subset, FS_CardinalityType
  <1>12. BytesIn(m) <= MaxBytes
    <2>1. BytesIn(m) = Cardinality(some) /\ BytesIn(n) = Cardinality(all)
      BY DEF BytesIn
    <2> HIDE DEF some, all
    <2>2. QED BY <1>11, <2>1, LimitsAssumption DEF WithinLimits
  <1>13. QED BY <1>6, <1>12 DEF WithinLimits

(* What withholding a document changes can only be told unavailable. *)
LEMMA WithheldIsUnavailable ==
  ASSUME NEW q \in Papers, ReadEvidence(Undisclosed(q)).problems = {},
         ReadEvidence(q) # ReadEvidence(Undisclosed(q))
  PROVE  ChangeIsUnavailable(ReadEvidence(q), ReadEvidence(Undisclosed(q)))
  <1> DEFINE u == Undisclosed(q)
  <1>1. u.of = q.of /\ u.binding = q.binding /\ u.withheld = {} /\ Opened(u) = Opened(q)
    BY DEF Undisclosed, Papers, Opened
  <1>2. Problems(u) = {}
    BY DEF ReadEvidence
  <1>3. \A i \in Opened(q) : q.of[i].state # "spoilt"
    BY <1>1, <1>2 DEF Problems
  <1>4. Opened(q) \cap q.withheld # {}
    <2>1. SUFFICES ASSUME Opened(q) \cap q.withheld = {} PROVE FALSE
      OBVIOUS
    <2>2. Opened(q) \ q.withheld = Opened(u) \ u.withheld
      BY <1>1, <2>1
    <2>3. Legible(q) = Legible(u) /\ Fingerprints(q) = Fingerprints(u)
      BY <1>1, <2>2 DEF Legible, Fingerprints
    <2>4. \A i : HintsOf(q, i) = HintsOf(u, i)
      BY <1>1 DEF HintsOf
    <2>5. Offered(q) = Offered(u) /\ (TooMany(q) <=> TooMany(u))
      BY <1>1, <2>3, <2>4 DEF Offered, TooMany
    <2>6. Problems(q) = Problems(u)
      BY <1>1, <2>1, <2>2, <2>3, <2>5 DEF Problems
    <2>7. ReadEvidence(q) = ReadEvidence(u)
      BY <2>3, <2>5, <2>6 DEF ReadEvidence
    <2>8. QED BY <2>7
  <1>5. UnavailableRead(ReadEvidence(q))
    <2>1. PICK i \in Opened(q) \cap q.withheld : TRUE
      BY <1>4
    <2>2. <<i, "withheld">> \in Problems(q) /\ <<i, "withheld">>[2] = "withheld"
      BY <2>1 DEF Problems
    <2>3. QED BY <2>2 DEF UnavailableRead, ReadEvidence
  <1>6. ~InvalidRead(ReadEvidence(q))
    <2>1. \A p \in Problems(q) : p[2] # "spoilt"
      BY <1>3 DEF Problems
    <2>2. QED BY <2>1 DEF InvalidRead, ReadEvidence
  <1>7. \A f \in Fingerprints(q), g \in Fingerprints(u) : f[1] = g[1] => f[2] = g[2]
    BY <1>1 DEF Fingerprints
  <1>8. QED BY <1>5, <1>6, <1>7 DEF ChangeIsUnavailable, ReadEvidence

-----------------------------------------------------------------------------
(* Whatever others do is a deviation, or nothing that a verdict of failure could go by. *)

LEMMA DeviatesStays ==
  ASSUME NEW b, Deviates(b), TreePaths' = TreePaths, UNCHANGED <<tree, stored, place, touched>>,
         ReadEvidence(Undisclosed(papers))' = ReadEvidence(Undisclosed(papers))
  PROVE  \/ touched'
         \/ stored' # b.record \/ place' # b.dirs
         \/ ReadEvidence(Undisclosed(papers))' # b.evidence
         \/ \E p \in TreePaths : Standing'[p] # Entry(b.manifest, p)
         \/ ~IsPortable(Entry(b.manifest, Skill))
  <1>1. Standing' = Standing
    BY DEF Standing
  <1>2. QED BY <1>1 DEF Deviates

LEMMA FailureStays ==
  ASSUME OfFailure, TreePaths' = TreePaths, UNCHANGED <<tree, stored, place>>,
         ReadEvidence(Undisclosed(papers))' = ReadEvidence(Undisclosed(papers)), touched' = touched,
         UNCHANGED <<kept, form, phase, basis, answer>>,
         look' = look \/ (look'.step = "done" /\ look'.result = "changed" /\ phase = "verifying" => Deviates(AsSaved))
  PROVE  OfFailure'
  <1>1. phase' = "verifying" /\ look'.step = "done" /\ look'.result = "changed" => Deviates(AsSaved)
    BY DEF OfFailure
  <1>2. AsSaved' = AsSaved
    BY DEF AsSaved, Association
  <1>3. Deviates(AsSaved) => Deviates(AsSaved)'
    BY <1>2, DeviatesStays DEF Deviates
  <1>4. answer' = "failed" => Deviates(basis)'
    BY DeviatesStays DEF Deviates, OfFailure
  <1>5. QED BY <1>1, <1>3, <1>4 DEF OfFailure

LEMMA OthersVerdict == ASSUME TInv, VerdictInv, Others PROVE VerdictInv'
  <1> USE DEF TInv
  <1>1. OfTree' /\ TreePaths' = TreePaths /\ UNCHANGED session /\ Remember
    BY OthersKeepTree
  <1>2. UNCHANGED <<phase, look, kept, form, answer, basis>>
    BY <1>1 DEF session
  <1>3. OfKept'
    BY <1>1, <1>2 DEF VerdictInv, OfKept, ListsPaths
  <1>4. CASE touched'
    BY <1>3, <1>4 DEF VerdictInv, OfStill, OfFailure, Deviates
  <1>5. CASE ~touched'
    <2>1. WithholdPapers
      BY <1>5 DEF Others, WriteTree, MovePlace, WritePapers, WriteRecord, WriteRegistration, MoveLinks
    <2>2. UNCHANGED <<tree, place, stored, touched>>
      BY <2>1 DEF WithholdPapers, metadata
    <2>3. Undisclosed(papers)' = Undisclosed(papers)
      <3>1. PICK i \in Inputs : papers' = [papers EXCEPT !.withheld = (@ \ {i}) \cup ({i} \ @)]
        BY <2>1 DEF WithholdPapers
      <3>2. QED BY <3>1 DEF Undisclosed, OfWorld, Papers
    <2>4. ReadEvidence(Undisclosed(papers))' = ReadEvidence(Undisclosed(papers))
      <3>1. ReadEvidence(Undisclosed(papers'))  = ReadEvidence(Undisclosed(papers))
        BY <2>3
      <3>2. QED BY <3>1
    <2>5. OfFailure'
      BY <1>1, <1>2, <2>2, <2>4, FailureStays DEF VerdictInv
    <2>6. OfStill'
      <3>1. \A p \in TreePaths : stood'.tree[p] = stood.tree[p] \cup {EntryOf(p, tree[p])}
        BY <1>1, <2>2 DEF Remember
      <3>2. StackStands(look.stack) => StackStands(look.stack)'
        BY <1>2, <2>2 DEF StackStands
      <3>3. OpenStands => OpenStands'
        BY <1>2, <2>2 DEF OpenStands, Top
      <3>4. QED BY <1>1, <1>2, <2>2, <3>1, <3>2, <3>3 DEF VerdictInv, OfStill
    <2>7. QED BY <1>3, <2>5, <2>6 DEF VerdictInv
  <1>6. QED BY <1>4, <1>5

(* What a verification has before it when nothing deviates. *)
LEMMA CleanFacts ==
  ASSUME TInv, ShapeInv, VerdictInv, phase = "verifying", ~Deviates(AsSaved)
  PROVE  /\ ~touched /\ place = kept.dirs /\ place \in {"ours", "moved"}
         /\ ReadEvidence(Undisclosed(papers)) = kept.evidence /\ kept.evidence.problems = {}
         /\ Shaped(kept.manifest)
         /\ tree[Skill].kind = "file" /\ tree[Skill].bytes \in Portable
         /\ \A p \in TreePaths : tree[p].kind # "absent" => EntryOf(p, tree[p]) \in EntriesOf(kept.manifest)
         /\ \A f \in EntriesOf(kept.manifest) : f.path \in TreePaths /\ f = EntryOf(f.path, tree[f.path]) /\ f.kind # "absent"
  <1> USE DEF TInv
  <1>1. phase \in Previewed /\ kept \in Keeps /\ Resolves(kept.evidence, form.origin) /\ Shaped(kept.manifest)
    BY DEF OfSession, Previewed, ShapeInv, OfShape
  <1>2. AsSaved.dirs = kept.dirs /\ AsSaved.evidence = kept.evidence /\ AsSaved.manifest = kept.manifest
    BY <1>1 DEF AsSaved, Keeps
  <1>3. /\ ~touched /\ place = kept.dirs /\ ReadEvidence(Undisclosed(papers)) = kept.evidence
        /\ \A p \in TreePaths : Standing[p] = Entry(kept.manifest, p)
        /\ IsPortable(Entry(kept.manifest, Skill))
    BY <1>2 DEF Deviates
  <1>4. \A p \in TreePaths : EntryOf(p, tree[p]) = Entry(kept.manifest, p)
    BY <1>3 DEF Standing
  <1>5. kept.manifest \in Manifests /\ InOrder(kept.manifest) /\ ListsPaths(kept.manifest)
    BY <1>1 DEF Shaped, VerdictInv, OfKept
  <1>6. tree[Skill].kind = "file" /\ tree[Skill].bytes \in Portable
    <2>1. Skill \in TreePaths
      BY DEF OfTree, IsSkill, TreePaths
    <2>2. IsPortable(EntryOf(Skill, tree[Skill]))
      BY <1>3, <1>4, <2>1
    <2>3. QED BY <2>2 DEF IsPortable, EntryOf
  <1>7. ASSUME NEW p \in TreePaths, tree[p].kind # "absent" PROVE EntryOf(p, tree[p]) \in EntriesOf(kept.manifest)
    <2>1. EntryOf(p, tree[p]).kind # "absent"
      BY <1>7 DEF EntryOf
    <2>2. EntryOf(p, Absent).kind = "absent"
      BY DEF EntryOf, Absent
    <2>3. PICK e \in EntriesOf(kept.manifest) : e.path = p
      BY <1>4, <2>1, <2>2 DEF Entry
    <2>4. Entry(kept.manifest, p) = EntryAt(kept.manifest, p)
      BY <2>3 DEF Entry
    <2>5. EntryAt(kept.manifest, p) = e
      BY <1>5, <2>3, OneEntryPerPath
    <2>6. QED BY <1>4, <2>3, <2>4, <2>5
  <1>8. ASSUME NEW f \in EntriesOf(kept.manifest)
        PROVE  f.path \in TreePaths /\ f = EntryOf(f.path, tree[f.path]) /\ f.kind # "absent"
    <2>1. f.path \in TreePaths
      BY <1>5 DEF ListsPaths, EntriesOf
    <2>2. Entry(kept.manifest, f.path) = EntryAt(kept.manifest, f.path)
      BY DEF Entry
    <2>3. EntryAt(kept.manifest, f.path) = f /\ f \in ManifestEntries
      BY <1>5, OneEntryPerPath
    <2>4. f.kind # "absent"
      BY <2>3 DEF ManifestEntries
    <2>5. QED BY <1>4, <2>1, <2>2, <2>3, <2>4
  <1>9. place \in {"ours", "moved"} /\ kept.evidence.problems = {}
    BY <1>1, <1>3 DEF VerdictInv, OfKept, Resolves
  <1>10. QED BY <1>1, <1>3, <1>6, <1>7, <1>8, <1>9

-----------------------------------------------------------------------------
(* A look that ends in "changed" while a baseline is verified has met a deviation. *)

Verifying == TInv /\ ShapeInv /\ VerdictInv /\ phase = "verifying" /\ ~Deviates(AsSaved)
NotChanged == look'.step = "done" => look'.result # "changed"

LEMMA EndsSo ==
  ASSUME TInv, NEW r, Ends(r) PROVE look'.step = "done" /\ look'.result = r
  BY DEF Ends, TInv, OfLook, Looks

LEMMA ReadPlaceVerdict == ASSUME Verifying, ReadPlace PROVE NotChanged
  <1>1. place = kept.dirs /\ place \in {"ours", "moved"} /\ look \in Looks
    BY CleanFacts DEF Verifying, TInv, OfLook
  <1>2. look'.step \in {"papers", "validate"}
    BY <1>1 DEF ReadPlace, Looks
  <1>3. QED BY <1>2 DEF NotChanged

LEMMA ReadPapersVerdict == ASSUME Verifying, ReadPapers PROVE NotChanged
  <1> DEFINE e == ReadEvidence(papers)
  <1>1. /\ ReadEvidence(Undisclosed(papers)) = kept.evidence /\ kept.evidence.problems = {}
        /\ look \in Looks /\ papers \in Papers
    BY CleanFacts DEF Verifying, TInv, OfLook, OfWorld
  <1>2. CASE kept.evidence \in {Missing, e}
    <2>1. look' = [look EXCEPT !.evidence = e, !.step = "validate"]
      BY <1>2 DEF ReadPapers
    <2>2. look'.step = "validate"
      BY <1>1, <2>1 DEF Looks
    <2>3. QED BY <2>2 DEF NotChanged
  <1>3. CASE kept.evidence \notin {Missing, e}
    <2>1. ChangeIsUnavailable(e, kept.evidence)
      BY <1>1, <1>3, WithheldIsUnavailable
    <2>2. Ends("unavailable")
      BY <1>3, <2>1 DEF ReadPapers
    <2>3. look'.result = "unavailable"
      BY <2>2, EndsSo DEF Verifying
    <2>4. QED BY <2>3 DEF NotChanged
  <1>4. QED BY <1>2, <1>3

LEMMA ValidateVerdict == ASSUME Verifying, Validate PROVE NotChanged
  <1>1. /\ place \in {"ours", "moved"} /\ tree[Skill].kind = "file" /\ tree[Skill].bytes \in Portable
        /\ look \in Looks
    BY CleanFacts DEF Verifying, TInv, OfLook
  <1>2. look'.step = "walk"
    BY <1>1 DEF Validate, Looks
  <1>3. QED BY <1>2 DEF NotChanged

(* What the walk has recorded is what the baseline lists of it, so it fits the limits. *)
LEMMA RecordedStands ==
  ASSUME Verifying, look.step = "walk"
  PROVE  \A e \in EntriesOf(look.entries) :
           e.path \in TreePaths /\ e = EntryOf(e.path, tree[e.path]) /\ e \in EntriesOf(kept.manifest)
  <1>1. EntriesStood /\ ~touched /\ look.entries \in Manifests
    BY CleanFacts DEF Verifying, TInv, OfWalk, OfLook, Looks
  <1>2. \A p \in TreePaths : stood.tree[p] = {EntryOf(p, tree[p])}
    BY <1>1 DEF Verifying, VerdictInv, OfStill
  <1>3. ASSUME NEW e \in EntriesOf(look.entries)
        PROVE  e.path \in TreePaths /\ e = EntryOf(e.path, tree[e.path]) /\ e \in EntriesOf(kept.manifest)
    <2>1. HasStood(e)
      BY <1>1 DEF EntriesStood, EntriesOf
    <2>2. e.path \in TreePaths /\ e = EntryOf(e.path, tree[e.path])
      BY <1>2, <2>1 DEF HasStood
    <2>3. e \in ManifestEntries
      BY <1>1, EntryTypes
    <2>4. tree[e.path].kind # "absent"
      BY <2>2, <2>3 DEF ManifestEntries, EntryOf
    <2>5. EntryOf(e.path, tree[e.path]) \in EntriesOf(kept.manifest)
      BY <2>2, <2>4, CleanFacts DEF Verifying
    <2>6. QED BY <2>2, <2>5
  <1>4. QED BY <1>3

LEMMA RecordedVerdict ==
  ASSUME Verifying, Looking("walk"), NEW p \in TreePaths, tree[p].kind # "absent",
         look.stack = <<>> \/ (look.stack # <<>> /\ Top.left # <<>> /\ p = Head(Top.left)),
         NEW stack, Recorded(EntryOf(p, tree[p]), stack)
  PROVE  NotChanged
  <1> DEFINE entry == EntryOf(p, tree[p])
             entries == Append(look.entries, entry)
  <1>0. /\ look \in Looks /\ look.step = "walk" /\ IsSkill(tree) /\ TreePaths \in SUBSET Seq(Names) /\ look.entries \in Manifests
        /\ look.stack = <<>> => look.entries = <<>>
        /\ look.stack # <<>> => Shaped(look.entries) /\ Queued(look.entries, look.stack)
    BY WalkedFacts DEF Verifying
  <1>1. entry \in ManifestEntries /\ entry.path = p
    BY <1>0, EntryIsTyped
  <1>2. /\ entries \in Manifests /\ Len(entries) = Len(look.entries) + 1
        /\ \A i \in 1..Len(look.entries) : entries[i] = look.entries[i]
        /\ entries[Len(look.entries) + 1] = entry
    BY <1>0, <1>1, StaysRecorded
  <1>3. Len(look.entries) \in Nat /\ \A i \in 1..Len(look.entries) : look.entries[i].path \in Seq(Names) /\ look.entries[i] \in EntriesOf(look.entries)
    BY <1>0, EntryTypes
  <1>4. \A i \in 1..Len(look.entries) : look.entries[i].path # p
    <2>1. CASE look.stack = <<>>
      BY <1>0, <2>1
    <2>2. CASE look.stack # <<>>
      <3>1. Top = look.stack[Len(look.stack)] /\ Len(look.stack) \in Nat \ {0} /\ Top \in Frames
        BY <1>0, <2>2, StackTop
      <3>2. Top.left \in Seq(TreePaths) /\ p = Top.left[1] /\ 1 \in 1..Len(Top.left)
        BY <2>2, <3>1 DEF Frames
      <3>3. \A i \in 1..Len(look.entries) : Before(look.entries[i].path, p)
        BY <1>0, <2>2, <3>1, <3>2 DEF Queued
      <3>4. QED BY <1>0, <1>3, <3>3, OrderIsStrict
    <2>3. QED BY <2>1, <2>2
  <1>5. \A i, j \in 1..Len(look.entries) : look.entries[i].path = look.entries[j].path => i = j
    <2>1. CASE look.stack = <<>>
      BY <1>0, <2>1
    <2>2. CASE look.stack # <<>>
      BY <1>0, <2>2, OneEntryPerPath DEF Shaped
    <2>3. QED BY <2>1, <2>2
  <1>6. kept.manifest \in Manifests /\ WithinLimits(kept.manifest) /\ entry \in EntriesOf(kept.manifest)
    BY CleanFacts DEF Verifying, Shaped
  <1> HIDE DEF entry
  <1>7. EntriesOf(entries) \subseteq EntriesOf(kept.manifest)
    <2>1. ASSUME NEW i \in 1..Len(entries) PROVE entries[i] \in EntriesOf(kept.manifest)
      <3>1. CASE i = Len(look.entries) + 1
        BY <1>2, <1>6, <3>1
      <3>2. CASE i \in 1..Len(look.entries)
        BY <1>0, <1>2, <1>3, <3>2, RecordedStands
      <3>3. QED BY <1>2, <1>3, <3>1, <3>2
    <2>2. QED BY <2>1 DEF EntriesOf
  <1> HIDE DEF entries
  <1>8. \A i, j \in 1..Len(entries) : entries[i].path = entries[j].path => i = j
    <2>1. ASSUME NEW i \in 1..Len(entries), NEW j \in 1..Len(entries), entries[i].path = entries[j].path PROVE i = j
      <3>1. i \in 1..Len(look.entries) \/ i = Len(look.entries) + 1
        BY <1>2, <1>3
      <3>2. j \in 1..Len(look.entries) \/ j = Len(look.entries) + 1
        BY <1>2, <1>3
      <3>3. QED BY <1>1, <1>2, <1>4, <1>5, <2>1, <3>1, <3>2
    <2>2. QED BY <2>1
  <1>9. WithinLimits(entries)
    BY <1>2, <1>6, <1>7, <1>8, LimitsOfLess
  <1>10. look' = [look EXCEPT !.entries = entries, !.stack = stack, !.open = Missing]
    BY <1>9 DEF Recorded, entries, entry
  <1>11. look'.step = "walk"
    BY <1>0, <1>10 DEF Looks
  <1>12. QED BY <1>11 DEF NotChanged

LEMMA WalkOpenVerdict == ASSUME Verifying, WalkOpen PROVE NotChanged
  <1>1. Looking("walk") /\ look.stack = <<>> /\ place # "gone" /\ Root \in TreePaths /\ tree[Root].kind # "absent"
    BY CleanFacts DEF Verifying, WalkOpen, TInv, OfTree, IsSkill, TreePaths
  <1>2. Recorded(EntryOf(Root, tree[Root]), <<Listing(Root)>>)
    BY <1>1 DEF WalkOpen
  <1>3. QED BY <1>1, <1>2, RecordedVerdict

(* What the innermost open directory lists, and the file that is open, stand. *)
LEMMA TopStands ==
  ASSUME Verifying, look.step = "walk", look.stack # <<>>
  PROVE  /\ look \in Looks /\ tree[Top.dir].kind = "directory" /\ tree[Top.dir].stamp = Top.stamp
         /\ Top.left # <<>> => Head(Top.left) \in TreePaths /\ tree[Head(Top.left)].kind # "absent"
         /\ OpenStands
  <1>1. look \in Looks /\ ~touched
    BY CleanFacts DEF Verifying, TInv, OfLook
  <1>2. StackStands(look.stack) /\ OpenStands
    BY <1>1 DEF Verifying, VerdictInv, OfStill
  <1>3. Top = look.stack[Len(look.stack)] /\ Len(look.stack) \in Nat \ {0} /\ Top \in Frames
    BY <1>1, StackTop
  <1>4. tree[Top.dir].kind = "directory" /\ tree[Top.dir].stamp = Top.stamp
    BY <1>2, <1>3 DEF StackStands
  <1>5. ASSUME Top.left # <<>> PROVE Head(Top.left) \in TreePaths /\ tree[Head(Top.left)].kind # "absent"
    <2>1. Top.left \in Seq(TreePaths) /\ Head(Top.left) = Top.left[1] /\ 1 \in 1..Len(Top.left)
      BY <1>3, <1>5 DEF Frames
    <2>2. QED BY <1>2, <1>3, <2>1 DEF StackStands
  <1>6. QED BY <1>1, <1>2, <1>4, <1>5

LEMMA WalkEntryVerdict == ASSUME Verifying, WalkEntry PROVE NotChanged
  <1> DEFINE p == Head(Top.left)
  <1>1. Looking("walk") /\ look.step = "walk" /\ look.stack # <<>> /\ Top.left # <<>>
    BY DEF WalkEntry, Looking
  <1>2. p \in TreePaths /\ tree[p].kind # "absent" /\ look \in Looks
    BY <1>1, TopStands
  <1>3. tree[p].kind \in {"link", "directory", "file"}
    BY <1>2, TreeFacts DEF Verifying, TInv, OfTree, Nodes, NodeKinds
  <1>4. CASE tree[p].kind = "link"
    <2>1. Recorded(EntryOf(p, tree[p]), Advance)
      BY <1>4 DEF WalkEntry
    <2>2. QED BY <1>1, <1>2, <2>1, RecordedVerdict
  <1>5. CASE tree[p].kind = "directory"
    <2>1. Recorded(EntryOf(p, tree[p]), Append(Advance, Listing(p)))
      BY <1>5 DEF WalkEntry
    <2>2. QED BY <1>1, <1>2, <2>1, RecordedVerdict
  <1>6. CASE tree[p].kind = "file"
    <2>1. look' = [look EXCEPT !.open = [tree[p] EXCEPT !.bytes = FirstHalf(@)]]
      BY <1>6 DEF WalkEntry
    <2>2. look'.step = "walk"
      BY <1>1, <1>2, <2>1 DEF Looks
    <2>3. QED BY <2>2 DEF NotChanged
  <1>7. QED BY <1>3, <1>4, <1>5, <1>6

LEMMA WalkFileVerdict == ASSUME Verifying, WalkFile PROVE NotChanged
  <1> DEFINE p == Head(Top.left)
  <1>1. Looking("walk") /\ look.step = "walk" /\ look.open # Missing
    BY DEF WalkFile, Looking
  <1>2. look.stack # <<>> /\ Top.left # <<>>
    BY <1>1 DEF Verifying, TInv, OfWalk, OfOpen
  <1>3. p \in TreePaths /\ tree[p].kind = "file" /\ tree[p].stamp = look.open.stamp
    BY <1>1, <1>2, TopStands DEF OpenStands
  <1>4. Recorded(EntryOf(p, tree[p]), Advance)
    BY <1>3, WholeFile DEF Verifying
  <1>5. QED BY <1>1, <1>2, <1>3, <1>4, RecordedVerdict

LEMMA WalkCloseVerdict == ASSUME Verifying, WalkClose PROVE NotChanged
  <1>1. Looking("walk") /\ look.step = "walk" /\ look.stack # <<>> /\ look.open = Missing /\ Top.left = <<>>
    BY DEF WalkClose, Looking
  <1>2. look \in Looks /\ tree[Top.dir].kind = "directory" /\ tree[Top.dir].stamp = Top.stamp /\ place # "gone"
    BY <1>1, TopStands, CleanFacts DEF Verifying
  <1>3. CASE Len(look.stack) > 1
    <2>1. look' = [look EXCEPT !.stack = Front(@)]
      BY <1>2, <1>3 DEF WalkClose
    <2>2. look'.step = "walk"
      BY <1>1, <1>2, <2>1 DEF Looks
    <2>3. QED BY <2>2 DEF NotChanged
  <1>4. CASE ~(Len(look.stack) > 1)
    <2>1. Shaped(look.entries) /\ look.entries \in Manifests /\ InOrder(look.entries)
      BY <1>1, WalkedFacts DEF Verifying, Shaped
    <2>2. kept.manifest \in Manifests /\ InOrder(kept.manifest) /\ ~touched
      BY CleanFacts DEF Verifying, Shaped
    <2>3. \A r \in TreePaths : ~Awaited(look.stack, r)
      BY <1>1, <1>2, <1>4, StackTop DEF Awaited
    <2>4. ASSUME NEW f \in EntriesOf(kept.manifest) PROVE f \in EntriesOf(look.entries)
      <3>1. f.path \in TreePaths /\ f = EntryOf(f.path, tree[f.path]) /\ f.kind # "absent"
        BY CleanFacts DEF Verifying
      <3>2. IsRead(f.path) \/ EntryOf(f.path, Absent) \in stood.tree[f.path]
        BY <1>1, <2>3, <3>1 DEF Verifying, TInv, OfWalk, Covered
      <3>3. stood.tree[f.path] = {EntryOf(f.path, tree[f.path])}
        BY <2>2, <3>1 DEF Verifying, VerdictInv, OfStill
      <3>4. EntryOf(f.path, Absent).kind = "absent"
        BY DEF EntryOf, Absent
      <3>5. IsRead(f.path)
        BY <3>1, <3>2, <3>3, <3>4
      <3>6. PICK i \in 1..Len(look.entries) : look.entries[i].path = f.path
        BY <3>5 DEF IsRead
      <3>7. look.entries[i] \in EntriesOf(look.entries)
        BY DEF EntriesOf
      <3>8. look.entries[i] = EntryOf(f.path, tree[f.path])
        BY <1>1, <3>6, <3>7, RecordedStands
      <3>9. QED BY <3>1, <3>7, <3>8
    <2>5. EntriesOf(look.entries) = EntriesOf(kept.manifest)
      BY <1>1, <2>4, RecordedStands
    <2>6. look.entries = kept.manifest
      BY <2>1, <2>2, <2>5, SameEntriesSameOrder
    <2>7. Ends("good")
      BY <1>2, <1>4, <2>6 DEF WalkClose
    <2>8. look'.result = "good"
      BY <2>7, EndsSo DEF Verifying
    <2>9. QED BY <2>8 DEF NotChanged
  <1>5. QED BY <1>3, <1>4

LEMMA LookFailsVerdict == ASSUME Verifying, LookFails PROVE NotChanged
  <1>1. Ends("unavailable")
    BY DEF LookFails
  <1>2. look'.result = "unavailable"
    BY <1>1, EndsSo DEF Verifying
  <1>3. QED BY <1>2 DEF NotChanged

LEMMA ChangedDeviates ==
  ASSUME TInv, ShapeInv, VerdictInv, Observe, phase = "verifying", look'.step = "done", look'.result = "changed"
  PROVE  Deviates(AsSaved)
  <1>1. SUFFICES ASSUME Verifying PROVE NotChanged
    BY DEF Verifying, NotChanged
  <1>2. QED BY <1>1, ReadPlaceVerdict, ReadPapersVerdict, ValidateVerdict, WalkOpenVerdict, WalkEntryVerdict,
               WalkFileVerdict, WalkCloseVerdict, LookFailsVerdict DEF Observe

-----------------------------------------------------------------------------
(* What a walk opens stands, while nothing is written. *)

LEMMA ListingStands ==
  ASSUME TInv, NEW d \in TreePaths, tree[d].kind = "directory"
  PROVE  /\ Listing(d).dir = d /\ Listing(d).stamp = tree[d].stamp
         /\ \A j \in 1..Len(Listing(d).left) : tree[Listing(d).left[j]].kind # "absent"
  <1>1. Children(d) \in SUBSET Seq(Names) /\ IsFiniteSet(Children(d))
    <2>1. Children(d) \subseteq TreePaths /\ TreePaths \subseteq Seq(Names) /\ IsFiniteSet(TreePaths)
      BY DEF TInv, OfTree, IsSkill, TreePaths, Children
    <2>2. QED BY <2>1, FS_Subset
  <1>2. ByName(Children(d)) \in Seq(Children(d))
    BY <1>1, ByNameLists
  <1>3. \A j \in 1..Len(ByName(Children(d))) : ByName(Children(d))[j] \in Children(d)
    BY <1>2
  <1>4. QED BY <1>3 DEF Listing, Children

LEMMA AdvanceStands ==
  ASSUME look \in Looks, look.stack # <<>>, Top.left # <<>>, StackStands(look.stack)
  PROVE  StackStands(Advance) /\ Advance \in Seq(Frames)
  <1> DEFINE n == Len(look.stack)
             frame == [Top EXCEPT !.left = Tail(@)]
  <1>1. Top \in Frames /\ Top.left \in Seq(TreePaths) /\ Len(Top.left) \in Nat \ {0} /\ Top = look.stack[n] /\ n \in Nat \ {0}
    BY StackTop DEF Frames
  <1>2. /\ frame \in Frames /\ frame.dir = Top.dir /\ frame.stamp = Top.stamp
        /\ Len(frame.left) = Len(Top.left) - 1
        /\ \A j \in 1..(Len(Top.left) - 1) : frame.left[j] = Top.left[j + 1]
    <2>1. frame.left = Tail(Top.left) /\ frame.dir = Top.dir /\ frame.stamp = Top.stamp
      BY <1>1 DEF Frames
    <2>2. /\ Tail(Top.left) \in Seq(TreePaths) /\ Len(Tail(Top.left)) = Len(Top.left) - 1
          /\ \A j \in 1..(Len(Top.left) - 1) : Tail(Top.left)[j] = Top.left[j + 1]
      BY <1>1
    <2>3. frame \in Frames
      BY <1>1, <2>2 DEF Frames
    <2>4. QED BY <2>1, <2>2, <2>3
  <1>3. /\ Advance = Append(Front(look.stack), frame) /\ Advance \in Seq(Frames) /\ Len(Advance) = n
        /\ Advance[n] = frame /\ \A i \in 1..(n - 1) : Advance[i] = look.stack[i]
    BY <1>2, StackTop DEF Advance
  <1>4. \A j \in 1..Len(frame.left) : tree[frame.left[j]].kind # "absent"
    <2>1. \A j \in 1..Len(Top.left) : tree[Top.left[j]].kind # "absent"
      BY <1>1 DEF StackStands
    <2>2. ASSUME NEW j \in 1..Len(frame.left) PROVE tree[frame.left[j]].kind # "absent"
      <3>1. j + 1 \in 1..Len(Top.left) /\ frame.left[j] = Top.left[j + 1]
        BY <1>1, <1>2
      <3>2. QED BY <2>1, <3>1
    <2>3. QED BY <2>2
  <1>5. tree[Top.dir].kind = "directory" /\ tree[Top.dir].stamp = Top.stamp
    BY <1>1 DEF StackStands
  <1> HIDE DEF frame
  <1>6. ASSUME NEW k \in 1..n
        PROVE  /\ tree[Advance[k].dir].kind = "directory" /\ tree[Advance[k].dir].stamp = Advance[k].stamp
               /\ \A j \in 1..Len(Advance[k].left) : tree[Advance[k].left[j]].kind # "absent"
    <2>1. CASE k = n
      BY <1>2, <1>3, <1>4, <1>5, <2>1
    <2>2. CASE k \in 1..(n - 1)
      BY <1>3, <2>2 DEF StackStands
    <2>3. QED BY <1>1, <2>1, <2>2
  <1>7. QED BY <1>3, <1>6 DEF StackStands

LEMMA PushStands ==
  ASSUME TInv, NEW s \in Seq(Frames), StackStands(s), NEW d \in TreePaths, tree[d].kind = "directory"
  PROVE  StackStands(Append(s, Listing(d)))
  <1>1. Listing(d) \in Frames
    BY ListingReaches
  <1> DEFINE t == Append(s, Listing(d))
  <1>2. Len(t) = Len(s) + 1 /\ Len(s) \in Nat /\ t[Len(s) + 1] = Listing(d) /\ \A k \in 1..Len(s) : t[k] = s[k]
    BY <1>1
  <1> HIDE DEF t
  <1>3. ASSUME NEW k \in 1..Len(t)
        PROVE  /\ tree[t[k].dir].kind = "directory" /\ tree[t[k].dir].stamp = t[k].stamp
               /\ \A j \in 1..Len(t[k].left) : tree[t[k].left[j]].kind # "absent"
    <2>1. CASE k = Len(s) + 1
      BY <1>2, <2>1, ListingStands
    <2>2. CASE k \in 1..Len(s)
      BY <1>2, <2>2 DEF StackStands
    <2>3. QED BY <1>2, <2>1, <2>2
  <1>4. QED BY <1>3 DEF StackStands, t

LEMMA StackStays ==
  ASSUME UNCHANGED tree, NEW stack, StackStands(stack) PROVE \A s : s = stack => StackStands(s)'
  BY DEF StackStands

(* One step of an observation leaves what is open standing. *)
LEMMA RecordedStill ==
  ASSUME TInv, Looking("walk"), NEW entry, NEW stack, StackStands(stack), Recorded(entry, stack), look'.step = "walk"
  PROVE  StackStands(look.stack)' /\ OpenStands'
  <1>1. look \in Looks /\ look.step = "walk" /\ UNCHANGED tree
    BY ObserveAside DEF TInv, OfLook
  <1>2. ~Ends("changed")
    BY EndsSo
  <1>3. look' = [look EXCEPT !.entries = Append(look.entries, entry), !.stack = stack, !.open = Missing]
    BY <1>2 DEF Recorded
  <1>4. look'.stack = stack /\ look'.open = Missing
    BY <1>1, <1>3 DEF Looks
  <1>5. QED BY <1>1, <1>4 DEF StackStands, OpenStands

LEMMA ObserveStill == ASSUME TInv, OfStill, Observe PROVE OfStill'
  <1> USE DEF TInv
  <1>1. UNCHANGED Aside /\ look \in Looks
    BY DEF Observe, ReadPlace, ReadPapers, Validate, WalkOpen, WalkEntry, WalkFile, WalkClose, LookFails, Looking, Aside, OfLook
  <1>2. UNCHANGED <<tree, stood, touched>> /\ TreePaths' = TreePaths
    BY <1>1 DEF Aside, world, history, TreePaths
  <1>3. SUFFICES ASSUME ~touched, look'.step = "walk" PROVE StackStands(look.stack)' /\ OpenStands'
    BY <1>2 DEF OfStill
  <1>4. \A r : ~Ends(r)
    BY <1>3, EndsSo
  <1>5. look.step = "walk" => StackStands(look.stack) /\ OpenStands
    BY <1>3 DEF OfStill
  <1>6. CASE ReadPlace
    <2>1. look' = [look EXCEPT !.dirs = place, !.step = IF look.reader = "adoption" THEN "papers" ELSE "validate"]
      BY <1>4, <1>6 DEF ReadPlace
    <2>2. QED BY <1>1, <1>3, <2>1 DEF Looks
  <1>7. CASE ReadPapers
    <2>1. look' = [look EXCEPT !.evidence = ReadEvidence(papers), !.step = "validate"]
      BY <1>4, <1>7 DEF ReadPapers
    <2>2. QED BY <1>1, <1>3, <2>1 DEF Looks
  <1>8. CASE Validate
    <2>1. look' = [look EXCEPT !.step = "walk"] /\ look.stack = <<>> /\ look.open = Missing
      BY <1>4, <1>8 DEF Validate, Looking, OfLook
    <2>2. look'.stack = <<>> /\ look'.open = Missing
      BY <1>1, <2>1 DEF Looks
    <2>3. QED BY <2>2 DEF StackStands, OpenStands
  <1>9. CASE WalkOpen
    <2>1. Looking("walk") /\ Recorded(EntryOf(Root, tree[Root]), <<Listing(Root)>>)
      BY <1>4, <1>9 DEF WalkOpen
    <2>2. Root \in TreePaths /\ tree[Root].kind = "directory"
      BY DEF OfTree, IsSkill, TreePaths
    <2>3. <<>> \in Seq(Frames) /\ StackStands(<<>>) /\ <<Listing(Root)>> = Append(<<>>, Listing(Root))
      BY DEF StackStands
    <2>4. StackStands(<<Listing(Root)>>)
      BY <2>2, <2>3, PushStands
    <2>5. QED BY <1>3, <2>1, <2>4, RecordedStill
  <1>10. CASE WalkEntry
    <2> DEFINE p == Head(Top.left)
    <2>1. Looking("walk") /\ look.stack # <<>> /\ Top.left # <<>> /\ StackStands(look.stack)
      BY <1>5, <1>10 DEF WalkEntry, Looking
    <2>2. StackStands(Advance) /\ Advance \in Seq(Frames) /\ p \in TreePaths /\ tree[p] \in Nodes
      BY <1>1, <2>1, AdvanceStands, AdvanceAwaits, TreeFacts DEF OfTree
    <2>3. tree[p].kind \in {"absent", "link", "directory", "file"}
      BY <2>2 DEF Nodes, NodeKinds
    <2>4. tree[p].kind # "absent"
      BY <1>4, <1>10 DEF WalkEntry
    <2>5. CASE tree[p].kind = "link"
      <3>1. Recorded(EntryOf(p, tree[p]), Advance)
        BY <1>10, <2>5 DEF WalkEntry
      <3>2. QED BY <1>3, <2>1, <2>2, <3>1, RecordedStill
    <2>6. CASE tree[p].kind = "directory"
      <3>1. Recorded(EntryOf(p, tree[p]), Append(Advance, Listing(p)))
        BY <1>10, <2>6 DEF WalkEntry
      <3>2. StackStands(Append(Advance, Listing(p)))
        BY <2>2, <2>6, PushStands
      <3>3. QED BY <1>3, <2>1, <3>1, <3>2, RecordedStill
    <2>7. CASE tree[p].kind = "file"
      <3>1. look' = [look EXCEPT !.open = [tree[p] EXCEPT !.bytes = FirstHalf(@)]]
        BY <1>10, <2>7 DEF WalkEntry
      <3>2. look'.open = [tree[p] EXCEPT !.bytes = FirstHalf(@)] /\ look'.stack = look.stack
        BY <1>1, <3>1 DEF Looks
      <3>3. look'.open.stamp = tree[p].stamp /\ Top' = Top /\ Head(Top.left)' = p
        BY <2>2, <3>2 DEF Nodes, Top
      <3> HIDE DEF p
      <3>4. OpenStands'
        BY <1>2, <2>7, <3>3 DEF OpenStands
      <3>5. StackStands(look.stack)'
        BY <1>2, <2>1, <3>2 DEF StackStands
      <3>6. QED BY <3>4, <3>5
    <2>8. QED BY <2>3, <2>4, <2>5, <2>6, <2>7
  <1>11. CASE WalkFile
    <2>1. /\ Looking("walk") /\ look.stack # <<>> /\ Top.left # <<>> /\ StackStands(look.stack)
          /\ Recorded(EntryOf(Head(Top.left), tree[Head(Top.left)]), Advance)
      BY <1>4, <1>5, <1>11, WholeFile DEF WalkFile, Looking, OfWalk, OfOpen
    <2>2. StackStands(Advance)
      BY <1>1, <2>1, AdvanceStands
    <2>3. QED BY <1>3, <2>1, <2>2, RecordedStill
  <1>12. CASE WalkClose
    <2>1. Looking("walk") /\ look.stack # <<>> /\ look.open = Missing /\ StackStands(look.stack)
      BY <1>5, <1>12 DEF WalkClose, Looking
    <2>2. look' = [look EXCEPT !.stack = Front(@)]
      BY <1>4, <1>12 DEF WalkClose
    <2>3. look'.stack = Front(look.stack) /\ look'.open = Missing
      BY <1>1, <2>1, <2>2 DEF Looks
    <2>4. StackStands(Front(look.stack))
      BY <1>1, <2>1, StackTop DEF StackStands
    <2>5. QED BY <1>2, <2>3, <2>4 DEF StackStands, OpenStands
  <1>13. CASE LookFails
    BY <1>4, <1>13 DEF LookFails
  <1>14. QED BY <1>6, <1>7, <1>8, <1>9, <1>10, <1>11, <1>12, <1>13 DEF Observe

LEMMA ObserveVerdict == ASSUME TInv, TInv', ShapeInv, VerdictInv, Observe PROVE VerdictInv'
  <1>1. UNCHANGED Aside /\ look \in Looks
    BY DEF Observe, ReadPlace, ReadPapers, Validate, WalkOpen, WalkEntry, WalkFile, WalkClose, LookFails, Looking, Aside, TInv, OfLook
  <1>2. /\ UNCHANGED <<tree, stored, place, papers, touched, kept, form, phase, basis, answer>> /\ TreePaths' = TreePaths
    BY <1>1 DEF Aside, world, history, metadata, TreePaths
  <1>3. OfStill'
    BY ObserveStill DEF VerdictInv
  <1>4. OfFailure'
    <2>1. look'.step = "done" /\ look'.result = "changed" /\ phase = "verifying" => Deviates(AsSaved)
      BY ChangedDeviates
    <2>2. QED BY <1>2, <2>1, FailureStays DEF VerdictInv
  <1>5. ListsPaths(look.entries)'
    <2>1. CASE look'.step = "walk"
      BY <2>1 DEF TInv, OfWalk, EntriesStood, HasStood, ListsPaths
    <2>2. CASE look'.step # "walk"
      <3>1. look'.entries = look.entries
        <4>1. ASSUME NEW r, Ends(r) PROVE look'.entries = look.entries
          BY <1>1, <4>1 DEF Ends, Looks
        <4>2. CASE ReadPlace \/ ReadPapers \/ Validate
          BY <1>1, <4>1, <4>2 DEF ReadPlace, ReadPapers, Validate, Looks
        <4>3. ASSUME NEW e, NEW s, Looking("walk"), Recorded(e, s) PROVE look'.entries = look.entries
          <5>1. look.step = "walk"
            BY <4>3 DEF Looking
          <5>2. CASE Ends("changed")
            BY <5>2, <4>1
          <5>3. CASE ~Ends("changed")
            <6>1. look' = [look EXCEPT !.entries = Append(look.entries, e), !.stack = s, !.open = Missing]
              BY <4>3, <5>3 DEF Recorded
            <6>2. QED BY <1>1, <2>2, <5>1, <6>1 DEF Looks
          <5>4. QED BY <5>2, <5>3
        <4>4. CASE WalkOpen \/ WalkFile
          BY <4>1, <4>3, <4>4 DEF WalkOpen, WalkFile
        <4>5. CASE WalkEntry
          <5>1. tree[Head(Top.left)].kind \in {"absent", "link", "directory", "file"}
            BY <4>5, AdvanceAwaits, TreeFacts DEF WalkEntry, TInv, OfTree, OfLook, Nodes, NodeKinds
          <5>2. CASE tree[Head(Top.left)].kind = "file"
            BY <1>1, <4>5, <5>2 DEF WalkEntry, Looks
          <5>3. CASE tree[Head(Top.left)].kind # "file"
            BY <4>1, <4>3, <4>5, <5>1, <5>3 DEF WalkEntry
          <5>4. QED BY <5>2, <5>3
        <4>6. CASE WalkClose
          BY <1>1, <4>1, <4>6 DEF WalkClose, Looks
        <4>7. CASE LookFails
          BY <4>1, <4>7 DEF LookFails
        <4>8. QED BY <4>2, <4>4, <4>5, <4>6, <4>7 DEF Observe
      <3>2. QED BY <1>2, <3>1 DEF VerdictInv, OfKept, ListsPaths
    <2>3. QED BY <2>1, <2>2
  <1>6. OfKept'
    BY <1>2, <1>5 DEF VerdictInv, OfKept, ListsPaths
  <1>7. QED BY <1>3, <1>4, <1>6 DEF VerdictInv

-----------------------------------------------------------------------------
(* The session's own steps. *)

LEMMA NoWalkPaths ==
  /\ ListsPaths(NoLook.entries) /\ NoLook.step = "none"
  /\ \A reader \in {"adoption", "check"} : Look(reader) => look'.entries = <<>> /\ look'.step = "place"
  <1>1. NoLook.entries = <<>> /\ NoLook.step = "none"
    BY DEF NoLook
  <1>2. ASSUME NEW reader \in {"adoption", "check"}, Look(reader) PROVE look'.entries = <<>> /\ look'.step = "place"
    BY <1>2 DEF Look, NoLook
  <1>3. QED BY <1>1, <1>2 DEF ListsPaths

LEMMA SessionLook ==
  ASSUME Adoption \/ Check PROVE look' = look \/ look'.entries = <<>>
  <1>1. ASSUME NEW reader, Look(reader) PROVE look'.entries = <<>>
    BY <1>1 DEF Look, NoLook
  <1>2. ASSUME look' = NoLook PROVE look'.entries = <<>>
    BY <1>2 DEF NoLook
  <1>3. CASE Adoption
    BY <1>1, <1>2, <1>3 DEF Adoption, BeginAdoption, LeaveAdoption, PreviewAdoption, Planned, Replanned, ConfirmAdoption,
      RecordOrigin, CommitOrigin, VerifyRecord, VerifyContent, BackToForm, Refused, Reported, Answered, Close
  <1>4. CASE Check
    BY <1>1, <1>2, <1>4 DEF Check, BeginCheck, Prepared, RecheckBefore, Cancel, Fetch, FetchFails, ReadObjects,
      RecheckAfter, RecheckInstallations, Build, RecheckRequest, Rechecked, Step, Refused, Answered, Close
  <1>5. QED BY <1>3, <1>4

LEMMA SessionWorld ==
  ASSUME Adoption \/ Check PROVE UNCHANGED world /\ TreePaths' = TreePaths
  <1>1. UNCHANGED world
    <2>1. CASE Adoption
      BY <2>1 DEF Adoption, BeginAdoption, LeaveAdoption, PreviewAdoption, Planned, Replanned, ConfirmAdoption,
        RecordOrigin, CommitOrigin, VerifyRecord, VerifyContent, Steady
    <2>2. CASE Check
      BY <2>2 DEF Check, BeginCheck, Prepared, RecheckBefore, Cancel, Fetch, FetchFails, ReadObjects,
        RecheckAfter, RecheckInstallations, Build, RecheckRequest, Rechecked, Steady
    <2>3. QED BY <2>1, <2>2
  <1>2. QED BY <1>1 DEF world, TreePaths

(* History is left alone, or begins again from what stands, when nothing is being walked. *)
LEMMA SessionHistory ==
  ASSUME TInv, Adoption \/ Check
  PROVE  \/ UNCHANGED history
         \/ touched' = FALSE /\ stood'.tree = [p \in TreePaths |-> {Standing[p]}] /\ look'.step # "walk"
  <1>1. ASSUME Mark PROVE touched' = FALSE /\ stood'.tree = [p \in TreePaths |-> {Standing[p]}]
    BY <1>1 DEF Mark, NowStood
  <1>2. CASE PreviewAdoption \/ RecordOrigin \/ BeginCheck
    <2>1. (\E reader \in {"adoption", "check"} : Look(reader)) \/ UNCHANGED history
      BY <1>2 DEF PreviewAdoption, RecordOrigin, BeginCheck
    <2>2. (\E reader \in {"adoption", "check"} : Look(reader)) => look'.step # "walk"
      BY NoWalkPaths
    <2>3. QED BY <1>1, <1>2, <2>1, <2>2 DEF PreviewAdoption, RecordOrigin, BeginCheck
  <1>3. CASE CommitOrigin
    BY <1>3, NoWalkPaths DEF CommitOrigin, NowStood, history
  <1>4. CASE Fetch
    <2>1. look.step # "walk"
      BY <1>4, NoWalkPaths DEF Fetch, TInv, OfLook, Adopting, Checking
    <2>2. QED BY <1>1, <1>4, <2>1 DEF Fetch
  <1>5. CASE Adoption /\ ~(PreviewAdoption \/ RecordOrigin \/ CommitOrigin)
    BY <1>5 DEF Adoption, BeginAdoption, LeaveAdoption, Planned, Replanned, ConfirmAdoption, VerifyRecord, VerifyContent, Rest
  <1>6. CASE Check /\ ~(BeginCheck \/ Fetch)
    BY <1>6 DEF Check, Prepared, RecheckBefore, Cancel, FetchFails, ReadObjects,
      RecheckAfter, RecheckInstallations, Build, RecheckRequest, Rechecked, Rest
  <1>7. QED BY <1>2, <1>3, <1>4, <1>5, <1>6

LEMMA SessionStill == ASSUME TInv, OfStill, Adoption \/ Check PROVE OfStill'
  <1>1. UNCHANGED tree /\ TreePaths' = TreePaths
    BY SessionWorld DEF world
  <1>2. CASE touched' = FALSE /\ stood'.tree = [p \in TreePaths |-> {Standing[p]}] /\ look'.step # "walk"
    BY <1>1, <1>2 DEF OfStill, Standing
  <1>3. CASE UNCHANGED history
    <2>1. look'.step = "walk" => look' = look
      BY SessionEndsNoWalk
    <2>2. QED BY <1>1, <1>3, <2>1 DEF history, OfStill, StackStands, OpenStands, Top
  <1>4. QED BY <1>2, <1>3, SessionHistory

(* Only a verification fails, and by what it met. *)
LEMMA ReportedFailure ==
  ASSUME TInv, VerdictInv, VerifyRecord \/ VerifyContent, answer' = "failed" PROVE Deviates(basis)'
  <1> USE DEF TInv
  <1>1. Steady /\ Rest /\ phase \in {"saved", "verifying"}
    BY DEF VerifyRecord, VerifyContent, Concluded
  <1>2. /\ UNCHANGED <<tree, stored, place, papers, touched>> /\ TreePaths' = TreePaths
    BY <1>1, SteadyFacts, RestFacts DEF Rest
  <1>3. kept \in Keeps /\ answer = "none"
    BY <1>1 DEF OfSession
  <1>4. CASE VerifyRecord
    <2>1. stored # Association /\ Reported("failed")
      BY <1>3, <1>4 DEF VerifyRecord
    <2>2. basis'.record = Association
      BY <1>3, <2>1 DEF Reported, Keeps
    <2>3. QED BY <1>2, <2>1, <2>2 DEF Deviates
  <1>5. CASE VerifyContent
    <2>1. /\ phase = "verifying" /\ look.step = "done" /\ look.result \in {"good", "changed", "unavailable"}
          /\ Reported(VerdictOf[look.result])
      BY <1>5 DEF VerifyContent, Concluded, OfReading
    <2>2. look.result = "changed"
      BY <2>1 DEF Reported, VerdictOf
    <2>3. Deviates(AsSaved)
      BY <2>1, <2>2 DEF VerdictInv, OfFailure
    <2>4. basis' = AsSaved
      BY <2>1 DEF Reported, AsSaved
    <2>5. ReadEvidence(Undisclosed(papers))' = ReadEvidence(Undisclosed(papers))
      BY <1>2
    <2>6. Standing' = Standing
      BY <1>2 DEF Standing
    <2>7. QED BY <1>2, <2>3, <2>4, <2>5, <2>6, DeviatesStays DEF Deviates
  <1>6. QED BY <1>4, <1>5

LEMMA SessionFailure ==
  ASSUME TInv, TInv', VerdictInv, Adoption \/ Check PROVE OfFailure'
  <1>1. ASSUME answer' = "failed" PROVE VerifyRecord \/ VerifyContent
    <2>1. CASE Check
      <3>1. phase = "idle" => answer' = "none"
        BY <2>1 DEF Check, BeginCheck, Prepared, RecheckBefore, Cancel, Fetch, FetchFails, ReadObjects,
          RecheckAfter, RecheckInstallations, Build, RecheckRequest, Rechecked, Concluded
      <3>2. phase # "idle" => answer = "none"
        BY DEF TInv, OfSession
      <3>3. QED BY <1>1, <2>1, <3>1, <3>2 DEF Check, BeginCheck, Prepared, RecheckBefore, Cancel, Fetch, FetchFails, ReadObjects,
          RecheckAfter, RecheckInstallations, Build, RecheckRequest, Rechecked, Refused, Answered, Step
    <2>2. CASE Adoption
      <3>1. phase = "idle" => BeginAdoption
        BY <2>2 DEF Adoption, LeaveAdoption, PreviewAdoption, Planned, Replanned, ConfirmAdoption, RecordOrigin, CommitOrigin,
          VerifyRecord, VerifyContent, Concluded
      <3>2. phase # "idle" => answer = "none"
        BY DEF TInv, OfSession
      <3>3. QED BY <1>1, <2>2, <3>1, <3>2 DEF Adoption, BeginAdoption, LeaveAdoption, PreviewAdoption, Planned, Replanned,
          ConfirmAdoption, RecordOrigin, CommitOrigin, Refused, Answered
    <2>3. QED BY <2>1, <2>2
  <1>2. ASSUME answer' = "failed" PROVE Deviates(basis)'
    BY <1>1, <1>2, ReportedFailure
  <1>3. phase' = "verifying" => look'.step # "done"
    <2>1. CASE VerifyRecord
      <3>1. phase' = "verifying" => Look("adoption")
        BY <2>1 DEF VerifyRecord, Reported, Close
      <3>2. QED BY <3>1, NoWalkPaths
    <2>2. CASE ~VerifyRecord
      <3>1. phase' # "verifying"
        BY <2>2 DEF Adoption, BeginAdoption, LeaveAdoption, PreviewAdoption, Planned, Replanned,
          ConfirmAdoption, RecordOrigin, CommitOrigin, VerifyContent, BackToForm, Refused, Reported, Answered, Close,
          Check, BeginCheck, Prepared, RecheckBefore, Cancel, Fetch, FetchFails, ReadObjects,
          RecheckAfter, RecheckInstallations, Build, RecheckRequest, Rechecked, Concluded, Step
      <3>2. QED BY <3>1
    <2>3. QED BY <2>1, <2>2
  <1>4. QED BY <1>2, <1>3 DEF OfFailure

LEMMA SessionKept ==
  ASSUME TInv, TInv', VerdictInv, Adoption \/ Check PROVE OfKept'
  <1>1. TreePaths' = TreePaths
    BY SessionWorld
  <1>2. ListsPaths(look.entries)'
    BY <1>1, SessionLook DEF ListsPaths, VerdictInv, OfKept
  <1>3. CASE Planned
    <2>1. CASE BackToForm
      BY <1>2, <2>1 DEF BackToForm, OfKept, Previewed
    <2>2. CASE ~BackToForm
      <3>1. Good /\ look.step = "done" /\ kept' = Expecting
        BY <1>3, <2>2 DEF Planned, Concluded
      <3>2. look.dirs \in {"ours", "moved"}
        BY <3>1, GoodLook
      <3>3. kept'.dirs = look.dirs /\ kept'.manifest = look.entries
        BY <3>1 DEF Expecting, NoneKept
      <3>4. ListsPaths(look.entries)
        BY DEF VerdictInv, OfKept
      <3>5. QED BY <1>1, <1>2, <3>2, <3>3, <3>4 DEF OfKept, ListsPaths
    <2>3. QED BY <2>1, <2>2
  <1>4. CASE ~Planned
    <2>1. phase' \in Previewed => phase \in Previewed /\ kept' = kept
      BY <1>4 DEF Previewed, Adoption, BeginAdoption, LeaveAdoption, PreviewAdoption, Replanned,
          ConfirmAdoption, RecordOrigin, CommitOrigin, VerifyRecord, VerifyContent, BackToForm, Refused, Reported, Answered, Close,
          Check, BeginCheck, Prepared, RecheckBefore, Cancel, Fetch, FetchFails, ReadObjects,
          RecheckAfter, RecheckInstallations, Build, RecheckRequest, Rechecked, Concluded, Step
    <2>2. QED BY <1>1, <1>2, <2>1 DEF OfKept, ListsPaths, VerdictInv
  <1>5. QED BY <1>3, <1>4

LEMMA VerdictInit == ASSUME TrackingInit PROVE VerdictInv
  <1>1. /\ stood = NowStood /\ look = NoLook /\ phase = "idle" /\ answer = "none"
    BY DEF TrackingInit
  <1>2. OfStill
    BY <1>1, NoWalkPaths DEF OfStill, NowStood, Standing
  <1>3. QED BY <1>1, <1>2, NoWalkPaths DEF VerdictInv, OfKept, OfFailure, Previewed

LEMMA VerdictStutters == ASSUME VerdictInv, UNCHANGED trackingVars PROVE VerdictInv'
  <1>1. /\ UNCHANGED <<tree, stored, place, papers, touched, stood, kept, form, phase, basis, answer, look>>
        /\ TreePaths' = TreePaths
    BY DEF trackingVars, metadata, world, session, history, TreePaths
  <1>2. OfFailure'
    BY <1>1, FailureStays DEF VerdictInv
  <1>3. OfStill' /\ OfKept'
    BY <1>1 DEF VerdictInv, OfStill, OfKept, ListsPaths, StackStands, OpenStands, Top
  <1>4. QED BY <1>2, <1>3 DEF VerdictInv

(* Of any baseline that was saved and then read again, whoever wrote meanwhile: a verdict *)
(* that it is verified means that all of it stood since the commit; that it failed, that   *)
(* something was written since or differs from what was saved; that it is incomplete, that *)
(* something could not be read (verify_saved, ObservationFailure).                         *)
THEOREM VerdictsAreTrue == TrackingSpec => []VerdictIsTrue
  <1>1. TInv /\ TInv' /\ ShapeInv /\ VerdictInv /\ [TrackingNext]_trackingVars => VerdictInv'
    BY OthersVerdict, ObserveVerdict, SessionStill, SessionFailure, SessionKept, VerdictStutters DEF TrackingNext, VerdictInv
  <1>2. TrackingSpec => []VerdictInv
    BY VerdictInit, <1>1, TrackingInvariance, ShapeInvariance, PTL DEF TrackingSpec
  <1>3. TInv /\ VerdictInv => VerdictIsTrue
    BY DEF TInv, OfAnswer, VerifiedStood, NotRead, VerdictInv, OfFailure, Deviates, VerdictIsTrue
  <1>4. QED BY <1>2, <1>3, TrackingInvariance, PTL
=============================================================================
