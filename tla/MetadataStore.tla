----------------------------- MODULE MetadataStore -----------------------------
(***************************************************************************)
(* The private metadata of several Skilled processes: how a process opens  *)
(* it (Store::open), how it is brought to the current schema and backed up *)
(* before a step that rebuilds tables (migrate_with, backup_database), and *)
(* the one row of it this module follows: a registered checkout with the   *)
(* baseline adopted for it, as sessions register, load, adopt and forget.  *)
(* Which catalogs and skills the checkout offers is left out.              *)
(*                                                                         *)
(* Every transaction is BEGIN IMMEDIATE: one writer over all processes.    *)
(* Reads, Git and the backup go on beside it.                              *)
(***************************************************************************)
EXTENDS Naturals

CONSTANTS
  Procs,
  Newest,        \* the schema this build supports
  Destructive,   \* the steps that rebuild what they read
  Identified,    \* the step since which a row records the checkout's identity
  Checkouts,     \* what may stand at the registered path
  Holds,      \* <<c, d>>: checkout c holds the commit that d is at
  MaxId,
  Nobody, None   \* model values

ASSUME SchemaAssumption ==
  Newest \in Nat /\ Destructive \subseteq 1..Newest /\ Identified \in 1..Newest
ASSUME NobodyAssumption == Nobody \notin Procs
ASSUME MaxIdAssumption == MaxId \in Nat \ {0}
ASSUME HoldsAssumption == \A c \in Checkouts : <<c, c>> \in Holds

VARIABLES
  directory,     \* the application-data directory is there
  database,      \* its database, or NoDatabase
  lock,          \* the process in a write transaction
  sealed,        \* the directory denies new files
  standing,      \* the checkout at the registered path
  lost,          \* a database was there, and is gone
  registered,    \* the checkouts the user registered as this source
  nextId,        \* source_id_sequence
  pc,
  opening,       \* a process on its way to a session
  session        \* what a session holds: the source as loaded, and the work in hand

world == <<sealed, standing, lost>>
disk == <<directory, database>>
sources == <<nextId, registered>>
vars == <<disk, lock, world, sources, pc, opening, session>>

NoRow == [id |-> 0, ident |-> None, head |-> None]

\* How often each schema step was applied: once up to a version, and by which steps more.
Through(version) == [v \in 1..(Newest + 1) |-> IF v <= version THEN 1 ELSE 0]
Applied(steps, more) == [v \in 1..(Newest + 1) |-> steps[v] + IF v \in more THEN 1 ELSE 0]

NoDatabase == [there |-> FALSE, version |-> 0, steps |-> Through(0), row |-> NoRow, baseline |-> None]
Empty == [NoDatabase EXCEPT !.there = TRUE]

NoBackup == [state |-> "none", image |-> NoDatabase]

\* fresh: found no directory; create: SQLITE_OPEN_CREATE; known: a database was there, or had
\* been, when it started, or was there when it looked
Starting == [fresh |-> FALSE, create |-> FALSE, known |-> FALSE,
             pending |-> {}, backup |-> NoBackup, overtaken |-> FALSE]

\* source: what a load handed out, with an identity or unavailable
NoWork == [source |-> NoRow, row |-> NoRow, saw |-> None, refresh |-> FALSE]

Free == lock = Nobody
Hold(p) == lock = Nobody /\ lock' = p
Release(p) == lock = p /\ lock' = Nobody

Goto(p, label) == pc' = [pc EXCEPT ![p] = label]
At(p, label) == pc[p] = label

Opens(p) == UNCHANGED <<world, sources, session>>
Becomes(p, state) == Goto(p, state) /\ opening' = [opening EXCEPT ![p] = Starting]
Fails(p) == Becomes(p, "off") /\ UNCHANGED disk /\ Opens(p)

-----------------------------------------------------------------------------
(* Store::open *)

Start(p) ==
  /\ At(p, "off")
  /\ opening' = [opening EXCEPT ![p].known = database.there \/ lost]
  /\ Goto(p, IF directory THEN "database" ELSE "create")
  /\ UNCHANGED <<disk, lock>> /\ Opens(p)

\* create_dir_all is content with a directory that came to be meanwhile.
CreateDirectory(p) ==
  /\ At(p, "create")
  /\ directory' = TRUE
  /\ opening' = [opening EXCEPT ![p].fresh = TRUE]
  /\ Goto(p, "database")
  /\ UNCHANGED <<database, lock>> /\ Opens(p)

\* The flag is settled here, and the file may come or go before it is opened.
LookForDatabase(p) ==
  /\ At(p, "database")
  /\ \/ /\ database.there \/ opening[p].fresh
        /\ opening' = [opening EXCEPT ![p].create = ~database.there, ![p].known = @ \/ database.there]
        /\ Goto(p, "connect")
     \/ ~database.there /\ ~opening[p].fresh /\ Becomes(p, "off")
  /\ UNCHANGED <<disk, lock>> /\ Opens(p)

\* Fault: whoever made the directory opens with SQLITE_OPEN_CREATE, whatever it found there.
MayCreateInFresh(p) == opening[p].fresh

MayCreate(p) == opening[p].create

Connect(p) ==
  /\ At(p, "connect")
  /\ database.there \/ (MayCreate(p) /\ ~sealed)
  /\ database' = IF database.there THEN database ELSE Empty
  /\ Becomes(p, "begin")
  /\ UNCHANGED <<directory, lock>> /\ Opens(p)

ConnectFails(p) ==
  /\ At(p, "connect") /\ ~database.there /\ (sealed \/ ~MayCreate(p))
  /\ Fails(p) /\ UNCHANGED lock

-----------------------------------------------------------------------------
(* migrate_with *)

BeginMigration(p) ==
  /\ At(p, "begin")
  /\ Hold(p) /\ Goto(p, "version")
  /\ UNCHANGED <<disk, opening>> /\ Opens(p)

\* The writer slot stays taken for the whole of the busy timeout.
Busy(p) ==
  /\ pc[p] \in {"begin", "snapshot"} /\ ~Free
  /\ Fails(p) /\ UNCHANGED lock

Pending == {v \in 1..Newest : v > database.version}

\* Fault: what was pending before the backup is applied after it.
PendingSinceBackup(p) ==
  IF opening[p].backup.state = "complete" THEN opening[p].pending ELSE Pending

PendingNow(p) == Pending

ReadVersion(p) ==
  /\ At(p, "version")
  /\ LET pending == PendingNow(p)
         unsafe == pending \cap Destructive # {} /\ opening[p].backup = NoBackup
         noted == opening' = [opening EXCEPT ![p].pending = pending]
     IN
     \/ /\ database.version > Newest
        /\ Becomes(p, "off") /\ Release(p)
     \/ /\ database.version <= Newest /\ pending = {}
        /\ Becomes(p, IF sealed THEN "degraded" ELSE "load") /\ Release(p)
     \/ /\ database.version <= Newest /\ unsafe
        /\ noted /\ Goto(p, "snapshot") /\ Release(p)
     \/ /\ database.version <= Newest /\ pending # {} /\ ~unsafe
        /\ noted /\ Goto(p, "apply") /\ UNCHANGED lock
  /\ UNCHANGED disk /\ Opens(p)

CommitMigration(p) ==
  /\ At(p, "apply") /\ ~sealed
  /\ database' = [database EXCEPT !.version = Newest,
                                  !.steps = Applied(@, opening[p].pending)]
  /\ Release(p) /\ Becomes(p, "load")
  /\ UNCHANGED directory /\ Opens(p)

RollBack(p) == At(p, "apply") /\ Release(p) /\ Fails(p)

-----------------------------------------------------------------------------
(* backup_database *)

Backup(p, state) == opening' = [opening EXCEPT ![p].backup.state = state]
BacksUp(p) == UNCHANGED <<disk, lock>> /\ Opens(p)

\* One consistent image, without the writer slot.
Snapshot(p) ==
  /\ At(p, "snapshot") /\ Free
  /\ opening' = [opening EXCEPT ![p].backup = [state |-> "none", image |-> database],
                                ![p].overtaken = FALSE]
  /\ Goto(p, "reserve")
  /\ BacksUp(p)

\* A new name: whatever the file becomes, it is not unlinked again.
ReserveBackup(p) ==
  /\ At(p, "reserve") /\ ~sealed
  /\ Backup(p, "partial") /\ Goto(p, "write")
  /\ BacksUp(p)

\* Written and synced through the handle, whatever the name stands for by now.
WriteBackup(p) ==
  /\ At(p, "write")
  /\ IF opening[p].backup.state = "partial" THEN Backup(p, "complete") ELSE UNCHANGED opening
  /\ Goto(p, "verify")
  /\ BacksUp(p)

BackupFails(p) ==
  /\ pc[p] \in {"snapshot", "reserve", "write", "verify"}
  /\ Fails(p) /\ UNCHANGED lock

\* Fault: the name is not read again.
VerifyBackupUnread(p) ==
  /\ At(p, "verify")
  /\ Goto(p, "begin")
  /\ UNCHANGED opening
  /\ BacksUp(p)

VerifyBackup(p) ==
  /\ At(p, "verify")
  /\ opening[p].backup.state = "complete"
  /\ Goto(p, "begin")
  /\ UNCHANGED opening
  /\ BacksUp(p)

-----------------------------------------------------------------------------
(* Sessions: one transaction at a time, reads and Git outside of it *)

InSession(p) == UNCHANGED <<directory, world, opening>>
Reads(p) == InSession(p) /\ UNCHANGED <<database, lock, sources>>
Transaction(p) == InSession(p) /\ Free /\ UNCHANGED lock
Row == database.row

\* registered_sources: the row, then the checkout, then whether it holds the stored commit.
LoadRow(p) ==
  /\ pc[p] \in {"load", "reload"} \/ (At(p, "ready") /\ Row # NoRow)
  /\ session' = [session EXCEPT ![p] = [NoWork EXCEPT !.row = Row, !.source = session[p].source,
                                                      !.refresh = ~At(p, "load")]]
  /\ Goto(p, "inspect")
  /\ Reads(p)

\* Fault: a row that recorded no identity is given that of the standing checkout.
HandedOutAsStanding(row, checkout) == checkout

\* without_repository_identity
HandedOut(row, checkout) == IF row.ident = None THEN None ELSE checkout

HandOut(p, source) ==
  session' = [session EXCEPT ![p] = [NoWork EXCEPT !.source = source]] /\ Goto(p, "ready")

InspectCheckout(p) ==
  /\ At(p, "inspect") /\ session[p].row # NoRow
  /\ session[p].row.ident \in {None, standing}
  /\ session' = [session EXCEPT ![p].saw = standing]
  /\ Goto(p, "contains")
  /\ Reads(p)

\* Another identity, a checkout without the stored commit, or one that cannot be read.
RefuseRow(p) ==
  /\ pc[p] \in {"inspect", "contains"}
  /\ HandOut(p, [session[p].row EXCEPT !.ident = None])
  /\ Reads(p)

\* contains_revision, then one UPDATE by id, which records a head and never an identity;
\* a startup load records nothing.
AcceptRow(p) ==
  /\ At(p, "contains") /\ <<standing, session[p].row.head>> \in Holds
  /\ \/ ~session[p].refresh /\ UNCHANGED <<database, lock>> /\ InSession(p)
     \/ /\ session[p].refresh /\ Transaction(p)
        /\ database' = IF Row.id = session[p].row.id
                       THEN [database EXCEPT !.row.head = session[p].saw] ELSE database
  /\ LET row == session[p].row IN
     HandOut(p, [row EXCEPT !.ident = HandedOut(row, session[p].saw), !.head = session[p].saw])
  /\ UNCHANGED sources

\* preview_local_source
PreviewSource(p) ==
  /\ At(p, "ready")
  /\ session' = [session EXCEPT ![p].saw = standing]
  /\ Goto(p, "confirm")
  /\ Reads(p)

\* revalidate_source_preview
RevalidatePreview(p) ==
  /\ At(p, "confirm")
  /\ \/ /\ standing = session[p].saw
        /\ Goto(p, "register") /\ UNCHANGED session
     \/ /\ standing # session[p].saw
        /\ Goto(p, "ready") /\ session' = [session EXCEPT ![p].saw = None]
  /\ Reads(p)

\* Fault: the baselines of a replaced checkout do not hold up its successor.
MayReplaceAlways(checkout) == TRUE

\* SourceHasOriginBaselines
MayReplace(checkout) == Row.ident # checkout => database.baseline = None

Fresh == Row = NoRow /\ nextId <= MaxId

RegisterSource(p) ==
  /\ At(p, "register") /\ MayReplace(session[p].saw)
  /\ Row # NoRow \/ Fresh
  /\ Transaction(p)
  /\ database' = [database EXCEPT !.row = [id |-> IF Row = NoRow THEN nextId ELSE Row.id,
                                           ident |-> session[p].saw, head |-> session[p].saw]]
  /\ nextId' = IF Row = NoRow THEN nextId + 1 ELSE nextId
  /\ registered' = registered \cup {session[p].saw}
  /\ session' = [session EXCEPT ![p].saw = None]
  /\ Goto(p, "reload")

RefuseSource(p) ==
  /\ At(p, "register") /\ ~MayReplace(session[p].saw)
  /\ session' = [session EXCEPT ![p].saw = None]
  /\ Goto(p, "ready")
  /\ Reads(p)

\* adoption::begin and plan: the source as loaded, its checkout and its catalog.
PlanAdoption(p) ==
  /\ At(p, "ready")
  /\ LET source == session[p].source IN
     /\ source.ident # None /\ standing = source.ident
     /\ database.baseline = None \/ Row.id # source.id
  /\ Goto(p, "adopt")
  /\ UNCHANGED session
  /\ Reads(p)

\* variant_registration_matches, and the first recheck, under the guard.
StillRegistered(p) == Row.id = session[p].source.id

\* adoption's recheck
SameCheckout(p) == standing = session[p].source.ident

GuardAdoption(p) ==
  /\ At(p, "adopt")
  /\ \/ StillRegistered(p) /\ SameCheckout(p) /\ Hold(p) /\ Goto(p, "record")
     \/ Free /\ ~(StillRegistered(p) /\ SameCheckout(p)) /\ Goto(p, "ready") /\ UNCHANGED lock
  /\ UNCHANGED <<database, sources, session>>
  /\ InSession(p)

\* record_origin has no upsert, and the second recheck precedes the commit.
RecordOrigin(p) ==
  /\ At(p, "record")
  /\ \/ database.baseline = None /\ SameCheckout(p) /\ Goto(p, "commit") /\ UNCHANGED lock
     \/ Release(p) /\ Goto(p, "ready")
  /\ UNCHANGED <<database, sources, session>>
  /\ InSession(p)

CommitAdoption(p) ==
  /\ At(p, "commit")
  /\ database' = [database EXCEPT !.baseline = session[p].source.ident]
  /\ Release(p) /\ Goto(p, "ready")
  /\ UNCHANGED <<sources, session>>
  /\ InSession(p)

\* apply_forget, of the registration as it was loaded: the row takes its baseline along.
ForgetSource(p) ==
  /\ At(p, "ready") /\ Row # NoRow
  /\ session[p].source.id = Row.id /\ session[p].source.head = Row.head
  /\ Transaction(p)
  /\ database' = [database EXCEPT !.row = NoRow, !.baseline = None]
  /\ registered' = {}
  /\ session' = [session EXCEPT ![p].source = NoRow]
  /\ UNCHANGED <<pc, nextId>>

\* A crash or an exit; SQLite rolls an open transaction back.
Stop(p) ==
  /\ ~At(p, "off")
  /\ Becomes(p, "off")
  /\ lock' = IF lock = p THEN Nobody ELSE lock
  /\ session' = [session EXCEPT ![p] = NoWork]
  /\ UNCHANGED <<disk, world, sources>>

-----------------------------------------------------------------------------
(* Other programs *)

Others == UNCHANGED <<directory, lock, sealed, pc, session>>

\* The user moves the checkout away and another one into its place.
Replace ==
  /\ standing' \in Checkouts \ {standing}
  /\ Others /\ UNCHANGED <<database, sources, opening, lost>>

\* An earlier build with the database open registers what stands at the path.
EarlierBuildRegisters ==
  /\ Free /\ database.there /\ database.version \in 1..(Identified - 1)
  /\ Fresh
  /\ database' = [database EXCEPT !.row = [id |-> nextId, ident |-> None, head |-> standing]]
  /\ nextId' = nextId + 1
  /\ opening' = [p \in Procs |-> [opening[p] EXCEPT !.overtaken = opening[p].backup.image.there]]
  /\ Others /\ UNCHANGED <<standing, lost, registered>>

\* A later build migrates; sessions of this one go on, and no new one opens.
LaterBuildMigrates ==
  /\ Free /\ database.there /\ database.version = Newest
  /\ database' = [database EXCEPT !.version = Newest + 1, !.steps = Applied(@, {Newest + 1})]
  /\ Others /\ UNCHANGED <<standing, lost, sources, opening>>

\* A backup's name is given to another file before it is verified.
Substitute(p) ==
  /\ pc[p] \in {"write", "verify"} /\ opening[p].backup.state # "foreign"
  /\ Backup(p, "foreign")
  /\ Others /\ UNCHANGED <<database, sources, standing, lost>>

\* The database file is lost while nobody has it open, be a start on its way to it or not,
\* and its sequence with it.
Unopened == {"off", "create", "database", "connect"}

Lose ==
  /\ database.there /\ \A p \in Procs : pc[p] \in Unopened
  /\ database' = NoDatabase /\ lost' = TRUE
  /\ nextId' = 1 /\ registered' = {}
  /\ Others /\ UNCHANGED <<standing, opening>>

-----------------------------------------------------------------------------

\* Nothing yet, an emptied directory, or a database of any schema with or without a row.
Init ==
  /\ sealed \in BOOLEAN /\ directory \in BOOLEAN
  /\ \/ database = NoDatabase
     \/ directory /\ \E v \in 0..Newest :
          database = [Empty EXCEPT !.version = v, !.steps = Through(v)]
     \/ directory /\ \E v \in 1..Newest, c \in Checkouts :
          database = [Empty EXCEPT !.version = v, !.steps = Through(v),
            !.row = [id |-> 1, head |-> c, ident |-> IF v < Identified THEN None ELSE c]]
  /\ nextId = database.row.id + 1
  /\ registered = {database.row.ident} \ {None}
  /\ standing \in IF database.row = NoRow THEN Checkouts ELSE {database.row.head}
  /\ lost = FALSE /\ lock = Nobody
  /\ pc = [p \in Procs |-> "off"]
  /\ opening = [p \in Procs |-> Starting]
  /\ session = [p \in Procs |-> NoWork]

Open(p) == Start(p) \/ CreateDirectory(p) \/ LookForDatabase(p) \/ Connect(p) \/ ConnectFails(p)
Migrate(p) == BeginMigration(p) \/ Busy(p) \/ ReadVersion(p) \/ CommitMigration(p) \/ RollBack(p)
BackUp(p) == Snapshot(p) \/ ReserveBackup(p) \/ WriteBackup(p) \/ VerifyBackup(p) \/ BackupFails(p)
Load(p) == LoadRow(p) \/ InspectCheckout(p) \/ RefuseRow(p) \/ AcceptRow(p)
Register(p) == PreviewSource(p) \/ RevalidatePreview(p) \/ RegisterSource(p) \/ RefuseSource(p)
Adopt(p) == PlanAdoption(p) \/ GuardAdoption(p) \/ RecordOrigin(p) \/ CommitAdoption(p)

Next ==
  \/ \E p \in Procs : Open(p) \/ Migrate(p) \/ BackUp(p) \/ Load(p) \/ Register(p) \/ Adopt(p)
                        \/ ForgetSource(p) \/ Stop(p) \/ Substitute(p)
  \/ Replace \/ EarlierBuildRegisters \/ LaterBuildMigrates \/ Lose

Spec == Init /\ [][Next]_vars

-----------------------------------------------------------------------------
(* Properties *)

Labels == {"off", "create", "database", "connect", "begin", "version",
           "apply", "snapshot", "reserve", "write", "verify", "ready", "degraded", "load", "reload", "inspect",
           "contains", "confirm", "register", "adopt", "record", "commit"}

TypeOK ==
  /\ directory \in BOOLEAN /\ sealed \in BOOLEAN
  /\ lock \in Procs \cup {Nobody}
  /\ standing \in Checkouts
  /\ database.version \in 0..(Newest + 1) /\ nextId \in 1..(MaxId + 1)
  /\ pc \in [Procs -> Labels]

\* Whoever opens the store, in whatever order and however often it is interrupted, a database
\* went through every step up to its version exactly once (migrate_with reads the version
\* again under the lock it applies the steps under), and none is made in the place of one that
\* the maker could have known of: one that was there, or had been lost, when its start began,
\* or was there when it looked (Store::open).
DatabaseIsMadeOnce ==
  [][/\ database'.steps = Through(database'.version)
     /\ \A p \in Procs :
          ~database.there /\ database'.there /\ pc'[p] # pc[p] => ~opening[p].known]_vars

Destroys(p) ==
  /\ At(p, "apply") /\ database' # database
  /\ \E v \in Destructive : database.version < v /\ v <= database'.version

\* A step that rebuilds tables is committed only by a process whose backup is complete, is
\* at the name it was written to, and holds the very contents that are rebuilt, unless an
\* earlier build wrote after the image was taken (migrate_with, backup_database).
BackupPrecedesDestruction ==
  [][\A p \in Procs : Destroys(p) =>
       /\ opening[p].backup.state = "complete"
       /\ opening[p].overtaken \/ opening[p].backup.image = database]_vars

\* The same, of every writer ("never a migration applied over an unknown state").
BackupIsWhole ==
  [][\A p \in Procs : Destroys(p) => opening[p].backup.image = database]_vars

\* While a source has a baseline, both stay what they are, whichever registrations and
\* adoptions were confirmed before it was adopted: another checkout cannot inherit it and
\* another adoption cannot replace it, until the source is forgotten (register_source,
\* record_origin).
BaselinesAreNotTransferred ==
  [][database.baseline # None /\ database'.baseline # None =>
       /\ database'.baseline = database.baseline
       /\ database'.row.id = database.row.id /\ database'.row.ident = database.row.ident]_vars

\* A baseline is taken of a checkout the user registered as this source, never of one that
\* only stands where it was, also when it holds the recorded commit (load_sources_on).
AdoptedCheckoutsWereRegistered ==
  database.baseline # None => database.baseline \in registered

\* "Changed content, paths, evidence, or registration invalidate confirmation."
BaselinesKeepTheirCheckout ==
  [][database'.baseline # database.baseline /\ database'.baseline # None =>
       database'.row.ident = database'.baseline]_vars

\* What is registered stays what its own checkout can prove: a load that began before a
\* re-registration does not write over it (load_sources_on).
RefreshKeepsRegistration ==
  database.row.ident # None => <<database.row.ident, database.row.head>> \in Holds
=============================================================================
