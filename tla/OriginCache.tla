----------------------------- MODULE OriginCache -----------------------------
(***************************************************************************)
(* The origin cache (src/git/origin/cache.rs): one private directory in    *)
(* which a check fetches an upstream repository, shared by every Skilled   *)
(* process of a user.  A gate lock serialises the checks; an activity lock *)
(* is inherited by every Git child, so that a child that outlives its      *)
(* worker still keeps the repository from being reclaimed.  The repository *)
(* is reclaimed, never deleted in place: it is renamed into quarantine,    *)
(* proven again, and taken apart one entry at a time through a disposal    *)
(* slot.  One action per system call that a crash or another process can   *)
(* fall between.                                                           *)
(*                                                                         *)
(* A flock belongs to an open file description and lasts until every       *)
(* duplicate of its descriptor is closed: activity is the set of processes *)
(* and children holding a descriptor of the one locked description.        *)
(***************************************************************************)
EXTENDS Integers, FiniteSets

CONSTANTS Procs,     \* Skilled processes running origin checks
          Children,  \* Git processes they may start
          Entries,   \* entries Git writes into a repository
          MaxGen,    \* bound on the generations allocated
          None,      \* nothing at a name, nobody holding a lock
          Foreign,   \* a directory another program put at a name
          Partial,   \* a record file whose contents are not complete
          Piece      \* an entry, marker or receipt in the disposal slot

ASSUME BoundOnGenerations == MaxGen \in Nat
ASSUME NamesApart == /\ Procs \cap Children = {}
                     /\ None \notin Procs \cup Children
                     /\ None \notin {Foreign, Partial, Piece}
                     /\ Foreign \notin {Partial, Piece} /\ Partial # Piece
                     /\ {None, Foreign, Partial, Piece} \cap (1 .. MaxGen) = {}

VARIABLES
  root,                       \* the manager directory: absent, bare or owned
  repo, retired, disposal,    \* the objects at REPO, RETIRED and DISPOSAL
  receipt,                    \* the entry.json record: the generation it proves
  marked,                     \* generations whose marker is in their directory
  data,                       \* what else is in each generation's directory
  gen,                        \* generations allocated so far
  gate, activity,             \* the two locks
  child,                      \* the repository each Git child works in
  pc, held, finishing,        \* each check: its place, open directory, phase
  intruded, interrupted       \* a directory was replaced; a removal was cut short

manager == <<root, repo, retired, disposal, receipt, marked, data, gen, intruded>>
locks   == <<gate, activity, child>>
vars    == <<root, repo, retired, disposal, receipt, marked, data, gen, intruded,
             gate, activity, child, pc, held, finishing, interrupted>>

Gens == 1 .. MaxGen
At(p, label) == pc[p] = label
Goto(p, label) == pc' = [pc EXCEPT ![p] = label] /\ UNCHANGED <<held, finishing, interrupted>>

Init ==
  /\ root = "absent"
  /\ repo = None /\ retired = None /\ disposal = None /\ receipt = None
  /\ marked = {}
  /\ data = [g \in Gens |-> {}]
  /\ gen = 0
  /\ gate = None /\ activity = {}
  /\ child = [c \in Children |-> None]
  /\ pc = [p \in Procs |-> "idle"]
  /\ held = [p \in Procs |-> None]
  /\ finishing = [p \in Procs |-> FALSE]
  /\ intruded = FALSE /\ interrupted = FALSE

(* check_root refuses anything it does not know, which a disposal is.         *)
CheckRoot == root = "owned" /\ disposal = None

(* prove_repository: the identity, and the marker that says the same.         *)
Proven(directory) == directory = receipt /\ receipt \in marked

-----------------------------------------------------------------------------
(* Cache::open.  Whoever creates the manager writes its ownership record; a   *)
(* manager without one is never adopted.                                      *)
CreateManager(p) ==
  /\ At(p, "idle")
  /\ root = "absent" /\ root' = "bare"
  /\ Goto(p, "setup")
  /\ UNCHANGED <<repo, retired, disposal, receipt, marked, data, gen, intruded, locks>>

WriteOwner(p) ==
  /\ At(p, "setup")
  /\ root' = "owned"
  /\ Goto(p, "lockgate")
  /\ UNCHANGED <<repo, retired, disposal, receipt, marked, data, gen, intruded, locks>>

OpenManager(p) ==
  /\ At(p, "idle") /\ root # "absent"
  /\ Goto(p, "readowner")
  /\ UNCHANGED <<manager, locks>>

ReadOwner(p) ==
  /\ At(p, "readowner") /\ root = "owned"
  /\ Goto(p, "lockgate")
  /\ UNCHANGED <<manager, locks>>

LockGate(p) ==
  /\ At(p, "lockgate")
  /\ gate = None /\ gate' = p
  /\ Goto(p, "lockactivity")
  /\ UNCHANGED <<manager, activity, child>>

LockActivity(p) ==
  /\ At(p, "lockactivity")
  /\ activity = {} /\ activity' = {p}
  /\ Goto(p, "reclaim")
  /\ UNCHANGED <<manager, gate, child>>

-----------------------------------------------------------------------------
(* reclaim.  Nothing recorded and nothing there: there is nothing to reclaim. *)
Reclaimed(p) == Goto(p, IF finishing[p] THEN "release" ELSE "allocate")

ReclaimNothing(p) ==
  /\ At(p, "reclaim") /\ CheckRoot
  /\ receipt = None /\ repo = None /\ retired = None
  /\ Reclaimed(p)
  /\ UNCHANGED <<manager, locks>>

(* A repository, one already in quarantine, or the record alone; never both   *)
(* directories, and never a repository its record does not prove.             *)
ReclaimRecorded(p) ==
  /\ At(p, "reclaim") /\ CheckRoot
  /\ receipt \in Gens /\ ~(repo # None /\ retired # None)
  /\ \/ repo # None /\ Proven(repo) /\ Goto(p, "retire")
     \/ repo = None /\ Goto(p, IF retired # None THEN "open" ELSE "movereceipt")
  /\ UNCHANGED <<manager, locks>>

Retire(p) ==
  /\ At(p, "retire")
  /\ repo # None /\ retired = None
  /\ retired' = repo /\ repo' = None
  /\ Goto(p, "open")
  /\ UNCHANGED <<root, disposal, receipt, marked, data, gen, intruded, locks>>

(* Fault: opening what was moved without proving it again.                    *)
OpenRetiredUnproven(p) ==
  /\ At(p, "open") /\ retired # None
  /\ pc' = [pc EXCEPT ![p] = "clear"]
  /\ held' = [held EXCEPT ![p] = retired]
  /\ UNCHANGED <<manager, locks, finishing, interrupted>>

(* What the rename moved is opened and proven again before it is walked.      *)
OpenRetired(p) ==
  /\ At(p, "open") /\ Proven(retired)
  /\ pc' = [pc EXCEPT ![p] = "clear"]
  /\ held' = [held EXCEPT ![p] = retired]
  /\ UNCHANGED <<manager, locks, finishing, interrupted>>

(* Fault: disposing of the record first, as if it were not the last evidence. *)
ClearedRecordFirst(p) ==
  /\ At(p, "clear") /\ data[held[p]] = {}
  /\ Proven(held[p])
  /\ receipt' = None
  /\ Goto(p, "movemarker")
  /\ UNCHANGED <<root, repo, retired, disposal, marked, data, gen, intruded, locks>>

(* clear and dispose: one entry at a time is moved to the disposal slot, if   *)
(* that is empty, and unlinked there.                                         *)
ClearEntry(p) ==
  /\ At(p, "clear") /\ CheckRoot
  /\ \E e \in data[held[p]] : data' = [data EXCEPT ![held[p]] = @ \ {e}]
  /\ disposal' = Piece
  /\ Goto(p, "unlinkentry")
  /\ UNCHANGED <<root, repo, retired, receipt, marked, gen, intruded, locks>>

Cleared(p) ==
  /\ At(p, "clear") /\ data[held[p]] = {}
  /\ Proven(held[p])
  /\ Goto(p, "movemarker")
  /\ UNCHANGED <<manager, locks>>

MoveMarker(p) ==
  /\ At(p, "movemarker") /\ CheckRoot
  /\ marked' = marked \ {held[p]}
  /\ disposal' = Piece
  /\ Goto(p, "unlinkmarker")
  /\ UNCHANGED <<root, repo, retired, receipt, data, gen, intruded, locks>>

MoveDirectory(p) ==
  /\ At(p, "movedirectory") /\ CheckRoot
  /\ retired # None
  /\ disposal' = retired /\ retired' = None
  /\ Goto(p, "unlinkdirectory")
  /\ UNCHANGED <<root, repo, receipt, marked, data, gen, intruded, locks>>

MoveReceipt(p) ==
  /\ At(p, "movereceipt") /\ CheckRoot
  /\ receipt # None /\ receipt' = None
  /\ disposal' = Piece
  /\ Goto(p, "unlinkreceipt")
  /\ UNCHANGED <<root, repo, retired, marked, data, gen, intruded, locks>>

Unlink(p, from, next) ==
  /\ At(p, from)
  /\ disposal' = None
  /\ next
  /\ UNCHANGED <<root, repo, retired, receipt, marked, data, gen, intruded, locks>>

UnlinkEntry(p)   == Unlink(p, "unlinkentry", Goto(p, "clear"))
UnlinkMarker(p)  == Unlink(p, "unlinkmarker", Goto(p, "movedirectory"))

(* Fault: the record kept, to be overwritten by the next allocation.          *)
UnlinkReceiptKept(p) ==
  /\ At(p, "unlinkreceipt")
  /\ disposal' = None /\ receipt' = gen
  /\ Reclaimed(p)
  /\ UNCHANGED <<root, repo, retired, marked, data, gen, intruded, locks>>

UnlinkReceipt(p) == Unlink(p, "unlinkreceipt", Reclaimed(p))

(* Fault: unlinking what was moved without comparing it with what was opened. *)
UnlinkDirectoryUnverified(p) ==
  Unlink(p, "unlinkdirectory", Goto(p, "movereceipt"))

UnlinkDirectory(p) ==
  /\ Unlink(p, "unlinkdirectory", Goto(p, "movereceipt"))
  /\ disposal = held[p] /\ data[held[p]] = {}

-----------------------------------------------------------------------------
(* allocate: the directory, its marker, and last the receipt that proves it.  *)
MakeRepository(p) ==
  /\ At(p, "allocate") /\ CheckRoot
  /\ repo = None /\ gen < MaxGen
  /\ gen' = gen + 1
  /\ repo' = gen + 1
  /\ Goto(p, "mark")
  /\ UNCHANGED <<root, retired, disposal, receipt, marked, data, intruded, locks>>

WriteMarker(p) ==
  /\ At(p, "mark")
  /\ marked' = marked \cup {gen}
  /\ Goto(p, "newreceipt")
  /\ UNCHANGED <<root, repo, retired, disposal, receipt, data, gen, intruded, locks>>

NewReceipt(p) ==
  /\ At(p, "newreceipt")
  /\ receipt = None /\ receipt' = Partial
  /\ Goto(p, "writereceipt")
  /\ UNCHANGED <<root, repo, retired, disposal, marked, data, gen, intruded, locks>>

WriteReceipt(p) ==
  /\ At(p, "writereceipt")
  /\ receipt' = gen
  /\ Goto(p, "leased")
  /\ UNCHANGED <<root, repo, retired, disposal, marked, data, gen, intruded, locks>>

-----------------------------------------------------------------------------
(* repository, and a Git child that inherits its activity lease.              *)
StartGit(p) ==
  /\ At(p, "leased") /\ CheckRoot /\ Proven(repo)
  /\ \E c \in Children : /\ child[c] = None
                         /\ child' = [child EXCEPT ![c] = repo]
                         /\ activity' = activity \cup {c}
  /\ UNCHANGED <<manager, gate, pc, held, finishing, interrupted>>

GitWrites(c) ==
  /\ child[c] # None
  /\ \E e \in Entries \ data[child[c]] : data' = [data EXCEPT ![child[c]] = @ \cup {e}]
  /\ UNCHANGED <<root, repo, retired, disposal, receipt, marked, gen, intruded, locks,
                 pc, held, finishing, interrupted>>

GitExits(c) ==
  /\ child[c] # None
  /\ child' = [child EXCEPT ![c] = None]
  /\ activity' = activity \ {c}
  /\ UNCHANGED <<manager, gate, pc, held, finishing, interrupted>>

(* finish_inner: the lock file is opened independently before the worker's    *)
(* own descriptor is closed, and must then be locked.                         *)
CloseActivity(p) ==
  /\ At(p, "leased")
  /\ activity' = activity \ {p}
  /\ pc' = [pc EXCEPT ![p] = "relock"]
  /\ finishing' = [finishing EXCEPT ![p] = TRUE]
  /\ UNCHANGED <<manager, gate, child, held, interrupted>>

(* Fault: locking a duplicate, which its own description's lock never bars.   *)
RelockDuplicate(p) ==
  /\ At(p, "relock")
  /\ activity' = activity \cup {p}
  /\ Goto(p, "reclaim")
  /\ UNCHANGED <<manager, gate, child>>

RelockActivity(p) ==
  /\ At(p, "relock")
  /\ activity = {} /\ activity' = {p}
  /\ Goto(p, "reclaim")
  /\ UNCHANGED <<manager, gate, child>>

(* The fields of a dropped Cache close in order, the gate before the lease.   *)
ReleaseGate(p) ==
  /\ At(p, "release")
  /\ gate' = IF gate = p THEN None ELSE gate
  /\ Goto(p, "releaseactivity")
  /\ UNCHANGED <<manager, activity, child>>

ReleaseActivity(p) ==
  /\ At(p, "releaseactivity")
  /\ activity' = activity \ {p}
  /\ pc' = [pc EXCEPT ![p] = "idle"]
  /\ held' = [held EXCEPT ![p] = None]
  /\ finishing' = [finishing EXCEPT ![p] = FALSE]
  /\ UNCHANGED <<manager, gate, child, interrupted>>

(* The places at which stopping leaves something the next check will not      *)
(* adopt: an unfinished initialisation or allocation, an interrupted disposal *)
(* and a repository whose marker is gone.                                     *)
Unadoptable == {"setup", "mark", "newreceipt", "writereceipt", "unlinkentry",
                "unlinkmarker", "movedirectory", "unlinkdirectory", "unlinkreceipt"}
CutShort(p) == interrupted' = (interrupted \/ pc[p] \in Unadoptable)

(* Fault: waiting for the lease of a child instead of giving up on it.        *)
FailUnlessBusy(p) ==
  /\ pc[p] \notin {"idle", "leased", "relock", "release", "releaseactivity"}
  /\ CutShort(p)
  /\ pc' = [pc EXCEPT ![p] = "release"]
  /\ UNCHANGED <<manager, locks, held, finishing>>

(* A lock is busy past its 100 ms of grace, an entry fails its proof or a     *)
(* system call fails: the operation ends there and drops its locks.  Every    *)
(* failure of a leased check also runs finish, which CloseActivity is.        *)
Fail(p) ==
  /\ pc[p] \notin {"idle", "leased", "release", "releaseactivity"}
  /\ CutShort(p)
  /\ pc' = [pc EXCEPT ![p] = "release"]
  /\ UNCHANGED <<manager, locks, held, finishing>>

(* The process dies, which closes its descriptors and not its children's.     *)
Crash(p) ==
  /\ ~At(p, "idle")
  /\ CutShort(p)
  /\ gate' = IF gate = p THEN None ELSE gate
  /\ activity' = activity \ {p}
  /\ pc' = [pc EXCEPT ![p] = "idle"]
  /\ held' = [held EXCEPT ![p] = None]
  /\ finishing' = [finishing EXCEPT ![p] = FALSE]
  /\ UNCHANGED <<manager, child>>

(* Another program replaces the directory at a public name, once.             *)
Intrude ==
  /\ ~intruded /\ intruded' = TRUE
  /\ \/ repo \in Gens /\ repo' = Foreign /\ UNCHANGED retired
     \/ retired \in Gens /\ retired' = Foreign /\ UNCHANGED repo
  /\ UNCHANGED <<root, disposal, receipt, marked, data, gen, locks,
                 pc, held, finishing, interrupted>>

Advance(p) ==
  \/ WriteOwner(p) \/ ReadOwner(p) \/ LockGate(p) \/ LockActivity(p)
  \/ ReclaimNothing(p) \/ ReclaimRecorded(p) \/ Retire(p) \/ OpenRetired(p)
  \/ ClearEntry(p) \/ Cleared(p) \/ MoveMarker(p) \/ MoveDirectory(p) \/ MoveReceipt(p)
  \/ UnlinkEntry(p) \/ UnlinkMarker(p) \/ UnlinkDirectory(p) \/ UnlinkReceipt(p)
  \/ MakeRepository(p) \/ WriteMarker(p) \/ NewReceipt(p) \/ WriteReceipt(p)
  \/ RelockActivity(p) \/ ReleaseGate(p) \/ ReleaseActivity(p)
  \/ Fail(p)

Next ==
  \/ \E p \in Procs : CreateManager(p) \/ OpenManager(p) \/ StartGit(p)
                      \/ CloseActivity(p) \/ Advance(p) \/ Crash(p)
  \/ \E c \in Children : GitWrites(c) \/ GitExits(c)
  \/ Intrude

Spec == Init /\ [][Next]_vars

(* A worker's own system calls return.  How long its fetch runs is not its    *)
(* own affair (no timeout ends it, only Git or the user's cancellation), and  *)
(* neither is when a Git child that outlives it exits.                        *)
LiveSpec == Spec /\ \A p \in Procs : WF_vars(Advance(p))

-----------------------------------------------------------------------------
Labels == {"idle", "setup", "readowner", "lockgate", "lockactivity", "reclaim", "retire",
           "open", "clear",
           "unlinkentry", "movemarker", "unlinkmarker", "movedirectory", "unlinkdirectory",
           "movereceipt", "unlinkreceipt", "allocate", "mark", "newreceipt", "writereceipt",
           "leased", "relock", "release", "releaseactivity"}
Directories == Gens \cup {None, Foreign}

(* The types of the manager, the locks and the checks.                        *)
TypeOK ==
  /\ root \in {"absent", "bare", "owned"}
  /\ {repo, retired} \subseteq Directories
  /\ disposal \in Directories \cup {Piece}
  /\ receipt \in Gens \cup {None, Partial}
  /\ marked \subseteq Gens
  /\ data \in [Gens -> SUBSET Entries]
  /\ gen \in 0 .. MaxGen
  /\ gate \in Procs \cup {None}
  /\ activity \subseteq Procs \cup Children
  /\ child \in [Children -> Gens \cup {None}]
  /\ pc \in [Procs -> Labels]
  /\ held \in [Procs -> Gens \cup {None}]
  /\ finishing \in [Procs -> BOOLEAN]
  /\ intruded \in BOOLEAN /\ interrupted \in BOOLEAN

(* No check, and no crash of a worker, takes a repository apart under a Git   *)
(* process that still works in it: it stays at its name, with its marker.     *)
ActiveRepositoryIntact ==
  \A c \in Children : child[c] # None /\ ~intruded => repo = child[c] /\ repo \in marked

(* One managed repository per manager: nothing accumulates behind crashes.    *)
AtMostOneRepository ==
  LET at == [repository |-> repo, retired |-> retired, disposal |-> disposal]
  IN  \A n1, n2 \in DOMAIN at : at[n1] \in Gens /\ at[n2] \in Gens => n1 = n2

(* A directory some other program put in the place of a managed one is        *)
(* preserved, whichever check or recovery meets it and when.                  *)
ForeignDirectoryKept == intruded => Foreign \in {repo, retired, disposal}

(* What the first actions of the next check accept.                           *)
Reclaimable == /\ CheckRoot
               /\ repo = None \/ retired = None
               /\ receipt \in Gens \cup {None}
               /\ \A directory \in {repo, retired} \ {None} : Proven(directory)

(* What any crash leaves is reclaimed by the next check, except at the places *)
(* the module documents as refused: nothing else blocks the cache for good.   *)
CrashResidueReclaimable ==
  (\A p \in Procs : pc[p] = "idle") /\ ~interrupted /\ ~intruded /\ root # "absent"
    => Reclaimable

(* A check that reports success leaves no repository and no record behind.    *)
IdleRetainsNothing ==
  [][\A p \in Procs :
        (ReclaimNothing(p) \/ UnlinkReceipt(p)) /\ finishing[p]
          => repo' = None /\ retired' = None /\ disposal' = None /\ receipt' = None]_vars

(* Outside its fetch a check never waits: taking the cache and giving it back *)
(* both end, also when another check or an orphaned Git child keeps a lock    *)
(* for ever.                                                                  *)
NeverWaits == \A p \in Procs : pc[p] \notin {"idle", "leased"} ~> pc[p] \in {"idle", "leased"}
=============================================================================
