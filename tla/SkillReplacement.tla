-------------------------- MODULE SkillReplacement --------------------------
(***************************************************************************)
(* The confirmed replacement of one vendored skill's files by a newer      *)
(* version (src/vendored/apply.rs, src/vendored/replacement.rs): under the *)
(* store's mutation guard the new tree is staged beside the checkout, the  *)
(* operations are done one at a time by atomic renames, the directory is   *)
(* walked, and only then is the record of its origin advanced.  Any other  *)
(* program may change a file of the skill or of the staging directory, the *)
(* repository or a link, at any moment.                                    *)
(***************************************************************************)
EXTENDS FiniteSets

CONSTANTS Paths,              \* what either version has in the skill directory
          Old, New,           \* "file", "folder" or "none" at each path
          Under,              \* the folders above each path
          Strangers,          \* what other programs put there
          StrangerText,       \* "before", "after" or "other"
          Nothing, Folder, None

Kinds == {"file", "folder", "none"}

(* The planner keeps every directory there is, and a file is below folders.   *)
ASSUME VersionsAreTrees ==
  /\ IsFiniteSet(Paths)
  /\ Old \in [Paths -> Kinds] /\ New \in [Paths -> Kinds]
  /\ Under \in [Paths -> SUBSET Paths]
  /\ \A p \in Paths : Old[p] = "folder" => New[p] = "folder"
  /\ \A p \in Paths : New[p] # "none" => \A d \in Under[p] : New[d] = "folder"

Original(p) == <<"old", p>>
Candidate(p) == <<"new", p>>
Originals == {Original(p) : p \in {q \in Paths : Old[q] = "file"}}
Candidates == {Candidate(p) : p \in {q \in Paths : New[q] = "file"}}
Objects == Originals \cup Candidates \cup Strangers

ASSUME StrangersHaveTexts ==
  /\ StrangerText \in [Strangers -> {"before", "after", "other"}]
  /\ Strangers \cap (Originals \cup Candidates) = {}
  /\ Folder # Nothing /\ {Nothing, Folder} \cap Objects = {}

Text == [o \in Objects |-> IF o \in Originals THEN "before"
                           ELSE IF o \in Candidates THEN "after" ELSE StrangerText[o]]

(* The operations of the plan.  A file in the place of a new folder is        *)
(* cleared away first.                                                        *)
Ops == {o \in {"clear", "folder", "exchange", "add", "remove"} \X Paths :
          LET old == Old[o[2]]  new == New[o[2]] IN
            \/ o[1] = "clear"    /\ old = "file" /\ new = "folder"
            \/ o[1] = "folder"   /\ old # "folder" /\ new = "folder"
            \/ o[1] = "exchange" /\ old = "file" /\ new = "file"
            \/ o[1] = "add"      /\ old = "none" /\ new = "file"
            \/ o[1] = "remove"   /\ old = "file" /\ new = "none"}

ASSUME NoneIsNoOperation == None \notin Ops

VARIABLES
  dest,             \* the skill directory
  staged, backup,   \* the staging directory: at the paths of the new version,
                    \* and at the reserved names for what is taken away
  arrived,          \* where each stranger came: "no" where, "public", "private"
  lost,             \* what other programs took away
  steady,           \* HEAD, index, links, identity and held names are as planned
  record,           \* the origin record: "old", "new", or "other" than both
  pc, op,           \* the place of the run, and the operation it is at
  candidate,        \* the object it proved before it published it
  completed, failed, residue, wrote, status,   \* the report
  rescanned,        \* the installations were found as planned afterwards
  unread,           \* what the walk has still to read
  since             \* what others changed since the walk began, or read it

disk    == <<dest, staged, backup>>
others  == <<arrived, lost, steady>>
report  == <<completed, failed, residue, wrote>>
reading == <<rescanned, unread, since>>
vars    == <<dest, staged, backup, arrived, lost, steady, record, pc, op, candidate, completed,
             failed, residue, wrote, status, rescanned, unread, since>>

Entries == Objects \cup {Nothing, Folder}
Statuses == {"Blocked", "Partial", "VerificationIncomplete", "VerificationFailed", "Verified"}

TypeOK ==
  /\ dest \in [Paths -> Entries] /\ staged \in [Paths -> Entries] /\ backup \in [Paths -> Entries]
  /\ arrived \in [Strangers -> {"no", "public", "private"}]
  /\ lost \subseteq Objects /\ steady \in BOOLEAN
  /\ record \in {"old", "new", "other"}
  /\ pc \in {"confirmed", "prepare", "recheck", "next", "write", "prove", "restore", "rescan",
             "walk", "commit", "reread", "rewalk", "done", "dead"}
  /\ op \in Ops \cup {None}
  /\ pc \in {"write", "prove", "restore"} <=> op # None
  /\ pc = "restore" => op[1] \in {"clear", "remove"}
  /\ candidate \in Entries
  /\ completed \subseteq Ops /\ failed \subseteq Ops
  /\ residue \subseteq {"staged", "backup"} \X Paths
  /\ wrote \in BOOLEAN /\ status \in Statuses /\ rescanned \in BOOLEAN
  /\ unread \subseteq Paths /\ since \subseteq Paths

Content(version, text, p) ==
  IF version[p] = "file" THEN dest[p] \in Objects /\ Text[dest[p]] = text
  ELSE dest[p] = IF version[p] = "folder" THEN Folder ELSE Nothing
AtOld(p) == Content(Old, "before", p)
AtNew(p) == Content(New, "after", p)

Init ==
  /\ dest = [p \in Paths |-> IF Old[p] = "file" THEN Original(p)
                             ELSE IF Old[p] = "folder" THEN Folder ELSE Nothing]
  /\ staged = [p \in Paths |-> Nothing] /\ backup = [p \in Paths |-> Nothing]
  /\ arrived = [s \in Strangers |-> "no"] /\ lost = {} /\ steady = TRUE
  /\ record = "old"
  /\ pc = "confirmed" /\ op = None /\ candidate = Nothing
  /\ completed = {} /\ failed = {} /\ residue = {} /\ wrote = FALSE /\ status = "Blocked"
  /\ rescanned = FALSE /\ unread = {} /\ since = {}

-----------------------------------------------------------------------------
Goto(place, next) == pc = place /\ pc' = next

(* The run ends with the status s; the store's guard is released.             *)
Stop(s) == pc' = "done" /\ status' = s

(* apply_inner takes the mutation guard and compares the registration, the    *)
(* record, the content and the repository with the plan.                      *)
AsPlanned == steady /\ record = "old" /\ \A p \in Paths : AtOld(p)

Begin ==
  /\ pc = "confirmed"
  /\ \/ AsPlanned /\ pc' = "prepare" /\ UNCHANGED status
     \/ Stop("Blocked")
  /\ UNCHANGED <<disk, others, record, op, candidate, report, reading>>

(* Stage::prepare: a tree that could not be completed, or does not match, is  *)
(* left where it is.                                                          *)
Materialized(done) ==
  staged' = [p \in Paths |-> IF p \notin done THEN staged[p]
                             ELSE IF New[p] = "file" THEN Candidate(p)
                             ELSE IF New[p] = "folder" THEN Folder ELSE Nothing]

Prepare ==
  /\ pc = "prepare"
  /\ \/ Materialized(Paths) /\ pc' = "recheck" /\ UNCHANGED status
     \/ \E done \in SUBSET Paths : Materialized(done) /\ Stop("Blocked")
  /\ UNCHANGED <<dest, backup, others, record, op, candidate, report, reading>>

(* The comparisons are repeated after staging, which took its time.           *)
Recheck ==
  /\ pc = "recheck"
  /\ \/ AsPlanned /\ pc' = "next" /\ UNCHANGED status
     \/ Stop("Blocked")
  /\ UNCHANGED <<disk, others, record, op, candidate, report, reading>>

-----------------------------------------------------------------------------
(* Stage::apply_with_guard: files in the way of folders, then folders from    *)
(* the top, then the files.                                                   *)
Pending == Ops \ completed
Ready(o) ==
  /\ o \in Pending
  /\ o[1] # "clear" => \A q \in Pending : q[1] # "clear"
  /\ o[1] = "folder" => \A q \in Pending : q[1] = "folder" => q[2] \notin Under[o[2]]
  /\ o[1] \notin {"clear", "folder"} => \A q \in Pending : q[1] # "folder"

Proves(o, text) == o \in Objects /\ Text[o] = text

(* What is proved of an operation's entries before its write.                 *)
Proved(o) ==
  /\ steady
  /\ o[1] \in {"clear", "exchange", "remove"} => Proves(dest[o[2]], "before")
  /\ o[1] \in {"exchange", "add"} => Proves(staged[o[2]], "after")

Start ==
  /\ pc = "next"
  /\ \E o \in Ops :
       /\ Ready(o) /\ Proved(o)
       /\ op' = o /\ candidate' = staged[o[2]]
       /\ pc' = "write"
  /\ UNCHANGED <<disk, others, record, report, status, reading>>

(* Fault: the operations that are left are attempted.                         *)
FailAndContinue(o, written, left) ==
  /\ failed' = failed \cup {o}
  /\ wrote' = (wrote \/ written)
  /\ residue' = residue \cup left
  /\ pc' = "next" /\ op' = None
  /\ UNCHANGED completed

(* Fault: the operation is not over.                                          *)
FailKeepsOperation(o, written, left) ==
  /\ failed' = failed \cup {o}
  /\ wrote' = (wrote \/ written)
  /\ residue' = residue \cup left
  /\ pc' = "rescan" /\ op' = o
  /\ UNCHANGED completed

(* The operation at hand fails, having written or not, and leaves a residue.  *)
(* Nothing more is attempted.                                                 *)
Fail(o, written, left) ==
  /\ failed' = failed \cup {o}
  /\ wrote' = (wrote \/ written)
  /\ residue' = residue \cup left
  /\ pc' = "rescan" /\ op' = None
  /\ UNCHANGED completed

Succeed(left) ==
  /\ completed' = completed \cup {op}
  /\ wrote' = TRUE
  /\ residue' = residue \cup left
  /\ pc' = "next" /\ op' = None
  /\ UNCHANGED failed

StartFails ==
  /\ pc = "next"
  /\ \E o \in Ops : Ready(o) /\ Fail(o, FALSE, {})
  /\ UNCHANGED <<disk, others, record, candidate, status, reading>>

(* Fault: a rename that replaces what it finds.                               *)
RenameOver(p) ==
  /\ dest' = [dest EXCEPT ![p] = staged[p]] /\ staged' = [staged EXCEPT ![p] = Nothing]
  /\ UNCHANGED backup

(* exchange_between and rename_no_replace.                                    *)
Exchange(p) ==
  /\ dest[p] # Nothing /\ staged[p] # Nothing
  /\ dest' = [dest EXCEPT ![p] = staged[p]] /\ staged' = [staged EXCEPT ![p] = dest[p]]
  /\ UNCHANGED backup

Publish(p) ==
  /\ dest[p] = Nothing /\ staged[p] # Nothing
  /\ dest' = [dest EXCEPT ![p] = staged[p]] /\ staged' = [staged EXCEPT ![p] = Nothing]
  /\ UNCHANGED backup

Take(p) ==
  /\ dest[p] # Nothing /\ backup[p] = Nothing
  /\ backup' = [backup EXCEPT ![p] = dest[p]] /\ dest' = [dest EXCEPT ![p] = Nothing]
  /\ UNCHANGED staged

Write ==
  /\ Goto("write", "prove")
  /\ \/ op[1] = "exchange" /\ Exchange(op[2])
     \/ op[1] = "add" /\ Publish(op[2])
     \/ op[1] \in {"clear", "remove"} /\ Take(op[2])
  /\ UNCHANGED <<others, record, op, candidate, report, status, reading>>

WriteFails ==
  /\ pc = "write" /\ Fail(op, FALSE, {})
  /\ UNCHANGED <<disk, others, record, candidate, status, reading>>

(* mkdirat, and the verification of what it made.                             *)
MakeFolder ==
  /\ pc = "write" /\ op[1] = "folder"
  /\ dest[op[2]] = Nothing /\ dest' = [dest EXCEPT ![op[2]] = Folder]
  /\ Succeed({}) \/ Fail(op, TRUE, {})
  /\ UNCHANGED <<staged, backup, others, record, candidate, status, reading>>

(* Both objects are proved again where they are now.                          *)
ProveExchange ==
  LET p == op[2]  left == {<<"staged", p>>} IN
    /\ pc = "prove" /\ op[1] = "exchange"
    /\ \/ /\ Proves(staged[p], "before") /\ Proves(dest[p], "after") /\ dest[p] = candidate
          /\ Succeed(left)
       \/ Fail(op, TRUE, left)
    /\ UNCHANGED <<disk, others, record, candidate, status, reading>>

ProveAdd ==
  /\ pc = "prove" /\ op[1] = "add"
  /\ \/ Proves(dest[op[2]], "after") /\ dest[op[2]] = candidate /\ Succeed({})
     \/ Fail(op, TRUE, {})
  /\ UNCHANGED <<disk, others, record, candidate, status, reading>>

ProveRemoval ==
  LET p == op[2] IN
    /\ pc = "prove" /\ op[1] \in {"clear", "remove"}
    /\ \/ Proves(backup[p], "before") /\ Succeed({<<"backup", p>>})
       \/ pc' = "restore" /\ UNCHANGED <<op, report>>
    /\ UNCHANGED <<disk, others, record, candidate, status, reading>>

(* restore_mismatched_removal: what was taken away by mistake goes back, if   *)
(* nothing else is there by now.                                              *)
Restore ==
  LET p == op[2] IN
    /\ pc = "restore" /\ dest[p] = Nothing /\ backup[p] # Nothing
    /\ dest' = [dest EXCEPT ![p] = backup[p]] /\ backup' = [backup EXCEPT ![p] = Nothing]
    /\ Fail(op, FALSE, {})
    /\ UNCHANGED <<staged, others, record, candidate, status, reading>>

(* Fault: a removal that could not be undone is reported as if it had been.   *)
RestoreFailsQuietly ==
  /\ pc = "restore" /\ Fail(op, FALSE, {})
  /\ UNCHANGED <<disk, others, record, candidate, status, reading>>

RestoreFails ==
  /\ pc = "restore" /\ Fail(op, TRUE, {<<"backup", op[2]>>})
  /\ UNCHANGED <<disk, others, record, candidate, status, reading>>

Finish ==
  /\ Pending = {} /\ Goto("next", "rescan")
  /\ UNCHANGED <<disk, others, record, op, candidate, report, status, reading>>

-----------------------------------------------------------------------------
(* Sources and installations are scanned after every attempt.  After one that *)
(* was done completely the directory is walked.                               *)
Rescan ==
  /\ pc = "rescan"
  /\ IF failed = {}
     THEN /\ pc' = "walk" /\ unread' = Paths /\ since' = {}
          /\ \/ rescanned' = TRUE /\ status' = "VerificationIncomplete"
             \/ rescanned' = FALSE /\ status' \in {"VerificationIncomplete", "VerificationFailed"}
     ELSE /\ Stop(IF wrote THEN "Partial" ELSE "Blocked")
          /\ UNCHANGED reading
  /\ UNCHANGED <<disk, others, record, op, candidate, report>>

Matches(p) ==
  /\ p \in unread /\ AtNew(p)
  /\ unread' = unread \ {p} /\ since' = since \ {p}

(* A difference, or an observation that could not be made.                    *)
Differs == Stop("VerificationFailed") \/ (pc' = "done" /\ UNCHANGED status)

Walk ==
  /\ pc = "walk"
  /\ \E p \in Paths : Matches(p)
  /\ UNCHANGED <<disk, others, record, pc, op, candidate, report, status, rescanned>>

WalkFails ==
  /\ pc \in {"walk", "rewalk"} /\ Differs
  /\ UNCHANGED <<disk, others, record, op, candidate, report, reading>>

(* Fault: the record is advanced without looking.                             *)
SettleUnread ==
  /\ pc = "walk" /\ steady /\ rescanned
  /\ pc' = "commit" /\ status' = "Partial"
  /\ UNCHANGED <<disk, others, record, op, candidate, report, reading>>

Settle ==
  /\ pc = "walk" /\ unread = {} /\ steady /\ rescanned
  /\ pc' = "commit" /\ status' = "Partial"
  /\ UNCHANGED <<disk, others, record, op, candidate, report, reading>>

(* advance_origin and the commit, which releases the store's guard.           *)
Commit ==
  /\ pc = "commit"
  /\ \/ record' = "new" /\ pc' = "reread" /\ status' = "VerificationIncomplete"
     \/ UNCHANGED <<record, status>> /\ pc' = "done"
  /\ UNCHANGED <<disk, others, op, candidate, report, reading>>

(* The record, the repository, the links and the files are read once more.    *)
Reread ==
  /\ pc = "reread" /\ record = "new" /\ steady
  /\ pc' = "rewalk" /\ unread' = Paths
  /\ UNCHANGED <<disk, others, record, op, candidate, report, status, rescanned, since>>

RereadFails ==
  /\ pc = "reread" /\ Differs
  /\ UNCHANGED <<disk, others, record, op, candidate, report, reading>>

Rewalk ==
  /\ pc = "rewalk"
  /\ \/ \E p \in Paths : Matches(p) /\ UNCHANGED <<pc, status>>
     \/ unread = {} /\ Stop("Verified") /\ UNCHANGED <<unread, since>>
  /\ UNCHANGED <<disk, others, record, op, candidate, report, rescanned>>

(* The process dies; a transaction that was not committed is rolled back.     *)
Die ==
  /\ pc \notin {"done", "dead"} /\ pc' = "dead" /\ op' = None
  /\ UNCHANGED <<disk, others, record, candidate, report, status, reading>>

-----------------------------------------------------------------------------
(* Other programs put an object of their own in the place of an entry, or     *)
(* take the entry away; folders they leave alone.                             *)
Gone(o) == {o} \cap Objects

TakeAway(entries, p) ==
  /\ entries[p] \in Objects /\ lost' = lost \cup {entries[p]}
  /\ UNCHANGED arrived

PutThere(entries, p, s, place) ==
  /\ arrived[s] = "no" /\ arrived' = [arrived EXCEPT ![s] = place]
  /\ entries[p] # Folder /\ lost' = lost \cup Gone(entries[p])

Walked == {"walk", "commit", "reread", "rewalk", "done", "dead"}

OtherChangesSkill ==
  /\ \E p \in Paths :
       /\ \A d \in Under[p] : dest[d] = Folder
       /\ \/ TakeAway(dest, p) /\ dest' = [dest EXCEPT ![p] = Nothing]
          \/ \E s \in Strangers : PutThere(dest, p, s, "public") /\ dest' = [dest EXCEPT ![p] = s]
       /\ since' = IF pc \in Walked THEN since \cup {p} ELSE since
  /\ UNCHANGED <<staged, backup, steady, record, pc, op, candidate, report, status, rescanned, unread>>

OtherChangesStaging ==
  /\ pc \notin {"confirmed", "prepare", "done", "dead"}
  /\ \E p \in Paths :
       \/ /\ \/ TakeAway(staged, p) /\ staged' = [staged EXCEPT ![p] = Nothing]
             \/ \E s \in Strangers : /\ PutThere(staged, p, s, "private")
                                    /\ staged' = [staged EXCEPT ![p] = s]
          /\ UNCHANGED backup
       \/ /\ \/ TakeAway(backup, p) /\ backup' = [backup EXCEPT ![p] = Nothing]
             \/ \E s \in Strangers : /\ PutThere(backup, p, s, "private")
                                    /\ backup' = [backup EXCEPT ![p] = s]
          /\ UNCHANGED staged
  /\ UNCHANGED <<dest, steady, record, pc, op, candidate, report, status, reading>>

(* The repository or a link is changed, or put back.                          *)
OtherChangesCheckout ==
  /\ steady' = ~steady
  /\ UNCHANGED <<disk, arrived, lost, record, pc, op, candidate, report, status, reading>>

(* Another Skilled process forgets the source or adopts again: not while this *)
(* one is in its transaction.                                                 *)
Outside == {"confirmed", "reread", "rewalk", "done", "dead"}

OtherChangesRecord ==
  /\ pc \in Outside /\ record' = "other"
  /\ UNCHANGED <<disk, others, pc, op, candidate, report, status, reading>>

Run ==
  \/ Begin \/ Prepare \/ Recheck \/ Start \/ StartFails \/ Write \/ WriteFails \/ MakeFolder
  \/ ProveExchange \/ ProveAdd \/ ProveRemoval \/ Restore \/ RestoreFails \/ Finish
  \/ Rescan \/ Walk \/ WalkFails \/ Settle \/ Commit \/ Reread \/ RereadFails \/ Rewalk \/ Die

Next == \/ Run
        \/ OtherChangesSkill \/ OtherChangesStaging \/ OtherChangesCheckout \/ OtherChangesRecord

Spec == Init /\ [][Next]_vars

-----------------------------------------------------------------------------
(* Every file that was confirmed to be replaced, and everything other         *)
(* programs put down while the run was at work, is still there unless they    *)
(* took it away themselves.  This holds after a crash too.                    *)
Public == Originals \cup {s \in Strangers : arrived[s] = "public"}
Arrived == {s \in Strangers : arrived[s] # "no"}
Present == {dest[p] : p \in Paths} \cup {staged[p] : p \in Paths} \cup {backup[p] : p \in Paths}

NothingDestroyed == Originals \cup Arrived \subseteq Present \cup lost

(* What a finished run says is so: whatever it carried out of the skill       *)
(* directory is where its report says, and if it says that it was blocked     *)
(* before replacing files it left none of its own and took none away.         *)
ReportIsTrue ==
  pc = "done" =>
    /\ \A p \in Paths : /\ staged[p] \in Public => <<"staged", p>> \in residue
                        /\ backup[p] \in Public => <<"backup", p>> \in residue
    /\ status = "Blocked" => \A p \in Paths :
         /\ dest[p] \notin Candidates /\ (dest[p] = Folder => Old[p] = "folder")
         /\ staged[p] \notin Public /\ backup[p] \notin Public

(* The record of the new version is saved, and success reported, only when    *)
(* every path had been read as the new version; what differs from it now was  *)
(* changed by somebody else since.                                            *)
RecordFollowsFiles ==
  record = "new" \/ status = "Verified" => \A p \in Paths : AtNew(p) \/ p \in since

(* After the first failure the run writes nothing more, to the directory, to  *)
(* the staging or to the record.                                              *)
FirstFailureStops == [][Run /\ failed # {} => UNCHANGED <<disk, record>>]_vars
=============================================================================
