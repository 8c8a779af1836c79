------------------------ MODULE MetadataStore_proofs ------------------------
(***************************************************************************)
(* Proofs about MetadataStore for any number of processes, schema steps,   *)
(* checkouts and registrations.                                            *)
(*                                                                         *)
(* Control ties the writer slot to its holder's place, and says that who   *)
(* is past Store::open has a database before it.  Three invariants rest on *)
(* it: Gone (what may still make a database), Migrating (what a backup     *)
(* holds) and Owned (whose registration an identity belongs to).           *)
(***************************************************************************)
EXTENDS MetadataStore, TLAPS

Writing == {"version", "apply", "record", "commit"}
Sessions == {"load", "reload", "inspect", "contains", "ready", "confirm", "register",
             "adopt", "record", "commit"}
Connected == Sessions \cup
  {"begin", "version", "apply", "snapshot", "reserve", "write", "verify", "degraded"}

(* TypeOK leaves the records open: a backup holds an image of any contents. *)
RowShape(r) == r = [id |-> r.id, ident |-> r.ident, head |-> r.head]
StoreShape(d) == d = [there |-> d.there, version |-> d.version, steps |-> d.steps,
                      row |-> d.row, baseline |-> d.baseline]
OpeningShape(o) ==
  /\ o = [fresh |-> o.fresh, create |-> o.create, known |-> o.known, pending |-> o.pending,
           backup |-> o.backup, overtaken |-> o.overtaken]
  /\ o.backup = [state |-> o.backup.state, image |-> o.backup.image]
SessionShape(s) ==
  /\ s = [source |-> s.source, row |-> s.row, saw |-> s.saw, refresh |-> s.refresh]
  /\ RowShape(s.source) /\ RowShape(s.row)

OpeningsShaped == DOMAIN opening = Procs /\ \A p \in Procs : OpeningShape(opening[p])
SessionsShaped == DOMAIN session = Procs /\ \A p \in Procs : SessionShape(session[p])
StoreShaped == StoreShape(database) /\ database.there \in BOOLEAN /\ RowShape(database.row)

Locked(p) == lock = p <=> pc[p] \in Writing
Present(p) == pc[p] \in Connected => database.there

Control == TypeOK /\ StoreShaped /\ \A p \in Procs : Locked(p) /\ Present(p)

LEMMA EmptyShape ==
  /\ NoRow = [id |-> 0, ident |-> None, head |-> None]
  /\ NoDatabase = [there |-> FALSE, version |-> 0, steps |-> Through(0), row |-> NoRow, baseline |-> None]
  /\ Empty = [there |-> TRUE, version |-> 0, steps |-> Through(0), row |-> NoRow, baseline |-> None]
  <1>1. NoRow = [id |-> 0, ident |-> None, head |-> None] BY DEF NoRow
  <1>2. NoDatabase = [there |-> FALSE, version |-> 0, steps |-> Through(0), row |-> NoRow, baseline |-> None]
    BY DEF NoDatabase
  <1>3. ASSUME NEW e, e = Empty
        PROVE e = [there |-> TRUE, version |-> 0, steps |-> Through(0), row |-> NoRow, baseline |-> None]
    BY <1>2, <1>3 DEF Empty
  <1>4. QED BY <1>1, <1>2, <1>3

LEMMA InitControl == Init => Control /\ OpeningsShaped /\ SessionsShaped
  <1> SUFFICES ASSUME Init PROVE Control /\ OpeningsShaped /\ SessionsShaped OBVIOUS
  <1> DEFINE Sound == /\ StoreShape(database) /\ database.there \in BOOLEAN /\ RowShape(database.row)
                      /\ database.version \in 0 .. Newest + 1 /\ database.row.id \in {0, 1}
  <1>2. Sound
    <2>1. CASE database = NoDatabase
      BY EmptyShape, <2>1, SchemaAssumption DEF StoreShape, RowShape
    <2>2. ASSUME NEW v \in 0 .. Newest,
                 database = [Empty EXCEPT !.version = v, !.steps = Through(v)]
          PROVE Sound
      <3>1. database = [there |-> TRUE, version |-> v, steps |-> Through(v),
                        row |-> NoRow, baseline |-> None]
        BY EmptyShape, <2>2
      <3>2. QED BY EmptyShape, <3>1, SchemaAssumption DEF StoreShape, RowShape
    <2>3. ASSUME NEW v \in 1 .. Newest, NEW c \in Checkouts,
                 database = [Empty EXCEPT !.version = v, !.steps = Through(v),
                   !.row = [id |-> 1, head |-> c, ident |-> IF v < Identified THEN None ELSE c]]
          PROVE Sound
      <3>1. database = [there |-> TRUE, version |-> v, steps |-> Through(v),
                        row |-> [id |-> 1, head |-> c, ident |-> IF v < Identified THEN None ELSE c],
                        baseline |-> None]
        BY EmptyShape, <2>3
      <3>2. QED BY <3>1, SchemaAssumption DEF StoreShape, RowShape
    <2>4. QED BY <2>1, <2>2, <2>3 DEF Init
  <1> HIDE DEF Sound
  <1>3. TypeOK
    <2>1. standing \in Checkouts
      <3>1. CASE database.row = NoRow BY <3>1 DEF Init
      <3>2. CASE database.row # NoRow
        <4>1. ASSUME NEW v \in 0 .. Newest,
                     database = [Empty EXCEPT !.version = v, !.steps = Through(v)]
              PROVE database.row = NoRow
          BY EmptyShape, <4>1
        <4>2. ASSUME NEW v \in 1 .. Newest, NEW c \in Checkouts,
                     database = [Empty EXCEPT !.version = v, !.steps = Through(v),
                       !.row = [id |-> 1, head |-> c, ident |-> IF v < Identified THEN None ELSE c]]
              PROVE database.row.head \in Checkouts
          BY EmptyShape, <4>2
        <4>3. database = NoDatabase => database.row = NoRow BY EmptyShape
        <4>4. database.row.head \in Checkouts BY <3>2, <4>1, <4>2, <4>3 DEF Init
        <4>5. QED BY <3>2, <4>4 DEF Init
      <3>3. QED BY <3>1, <3>2
    <2>2. nextId = database.row.id + 1 BY DEF Init
    <2>3. nextId \in 1 .. MaxId + 1 BY <1>2, <2>2, MaxIdAssumption DEF Sound
    <2>4. QED BY <1>2, <2>1, <2>3, SchemaAssumption DEF Init, TypeOK, Labels, Sound
  <1>4. StoreShaped /\ OpeningsShaped /\ SessionsShaped
    BY <1>2 DEF Sound, Init, StoreShaped, OpeningsShaped, SessionsShaped, SessionShape,
       OpeningShape, RowShape, NoWork, Starting, NoBackup, NoRow
  <1>5. ASSUME NEW p \in Procs PROVE Locked(p) /\ Present(p)
    BY NobodyAssumption DEF Init, Locked, Present, Writing, Connected, Sessions
  <1>6. QED BY <1>3, <1>4, <1>5 DEF Control

(* No action breaks the shape of what a process keeps on its way to a session. *)
LEMMA OpeningsStep == ASSUME OpeningsShaped, [Next]_vars PROVE OpeningsShaped'
  <1> USE DEF At, Goto, Opens, disk, world, sources, OpeningsShaped, OpeningShape, Starting,
        NoBackup
  <1>1. ASSUME NEW p \in Procs, Start(p) PROVE OpeningsShaped'
    <2> HIDE DEF OpeningsShaped, OpeningShape, Starting, NoBackup
    <2>1. opening'[p] = [opening[p] EXCEPT !.known = database.there \/ lost]
      BY <1>1 DEF Start, OpeningsShaped
    <2>2. DOMAIN opening' = Procs /\ \A q \in Procs \ {p} : opening'[q] = opening[q]
      BY <1>1 DEF Start, OpeningsShaped
    <2>3. ASSUME NEW o, OpeningShape(o), NEW k, NEW n, n = [o EXCEPT !.known = k] PROVE OpeningShape(n)
      BY <2>3 DEF OpeningShape
    <2>4. QED BY <2>1, <2>2, <2>3 DEF OpeningsShaped
  <1>2. ASSUME NEW p \in Procs, CreateDirectory(p) PROVE OpeningsShaped'
    <2> HIDE DEF OpeningsShaped, OpeningShape, Starting, NoBackup
    <2>1. opening'[p] = [opening[p] EXCEPT !.fresh = TRUE]
      BY <1>2 DEF CreateDirectory, OpeningsShaped
    <2>2. DOMAIN opening' = Procs /\ \A q \in Procs \ {p} : opening'[q] = opening[q]
      BY <1>2 DEF CreateDirectory, OpeningsShaped
    <2>3. ASSUME NEW o, OpeningShape(o), NEW n, n = [o EXCEPT !.fresh = TRUE] PROVE OpeningShape(n)
      BY <2>3 DEF OpeningShape
    <2>4. QED BY <2>1, <2>2, <2>3 DEF OpeningsShaped
  <1>3. ASSUME NEW p \in Procs, LookForDatabase(p) PROVE OpeningsShaped'
    <2> HIDE DEF OpeningsShaped, OpeningShape, Starting, NoBackup
    <2>1. CASE opening' = [opening EXCEPT ![p] = Starting]
      BY <2>1 DEF OpeningsShaped, OpeningShape, Starting, NoBackup
    <2>2. CASE opening' = [opening EXCEPT ![p].create = ~database.there,
                                          ![p].known = @ \/ database.there]
      <3>1. PICK c, k : opening'[p] = [opening[p] EXCEPT !.create = c, !.known = k]
        BY <2>2 DEF OpeningsShaped
      <3>2. DOMAIN opening' = Procs /\ \A q \in Procs \ {p} : opening'[q] = opening[q]
        BY <2>2 DEF OpeningsShaped
      <3>3. ASSUME NEW o, OpeningShape(o), NEW n, n = [o EXCEPT !.create = c, !.known = k]
            PROVE OpeningShape(n)
        BY <3>3 DEF OpeningShape
      <3>4. OpeningShape(opening[p]) BY DEF OpeningsShaped
      <3>5. OpeningShape(opening'[p]) BY <3>1, <3>3, <3>4
      <3>6. QED BY <3>2, <3>5 DEF OpeningsShaped
    <2>3. QED BY <1>3, <2>1, <2>2 DEF LookForDatabase, Becomes
  <1>4. ASSUME NEW p \in Procs, Connect(p) PROVE OpeningsShaped'
    BY <1>4 DEF Connect, Becomes
  <1>5. ASSUME NEW p \in Procs, ConnectFails(p) PROVE OpeningsShaped'
    BY <1>5 DEF ConnectFails, Fails, Becomes
  <1>6. ASSUME NEW p \in Procs, BeginMigration(p) PROVE OpeningsShaped'
    BY <1>6 DEF BeginMigration, Hold
  <1>7. ASSUME NEW p \in Procs, Busy(p) PROVE OpeningsShaped'
    BY <1>7 DEF Busy, Fails, Becomes, Free
  <1>8. ASSUME NEW p \in Procs, ReadVersion(p) PROVE OpeningsShaped'
    <2>1. CASE opening' = [opening EXCEPT ![p] = Starting]
      BY <2>1 DEF OpeningsShaped, OpeningShape, Starting, NoBackup
    <2>2. CASE opening' = [opening EXCEPT ![p].pending = PendingNow(p)]
      BY <2>2 DEF OpeningsShaped, OpeningShape
    <2>3. QED BY <1>8, <2>1, <2>2 DEF ReadVersion, Becomes
  <1>9. ASSUME NEW p \in Procs, CommitMigration(p) PROVE OpeningsShaped'
    BY <1>9 DEF CommitMigration, Becomes, Release
  <1>10. ASSUME NEW p \in Procs, RollBack(p) PROVE OpeningsShaped'
    BY <1>10 DEF RollBack, Release, Fails, Becomes
  <1>11. ASSUME NEW p \in Procs, Snapshot(p) PROVE OpeningsShaped'
    <2> HIDE DEF OpeningsShaped, OpeningShape, Starting, NoBackup
    <2>1. opening'[p] = [opening[p] EXCEPT !.backup = [state |-> "none", image |-> database],
                                          !.overtaken = FALSE]
      BY <1>11 DEF Snapshot, OpeningsShaped
    <2>2. DOMAIN opening' = Procs /\ \A q \in Procs \ {p} : opening'[q] = opening[q]
      BY <1>11 DEF Snapshot, OpeningsShaped, BacksUp
    <2>3. ASSUME NEW o, OpeningShape(o), NEW n, NEW i,
                 n = [o EXCEPT !.backup = [state |-> "none", image |-> i], !.overtaken = FALSE]
          PROVE OpeningShape(n)
      BY <2>3 DEF OpeningShape
    <2>4. QED BY <2>1, <2>2, <2>3 DEF OpeningsShaped
  <1>12. ASSUME NEW p \in Procs, ReserveBackup(p) PROVE OpeningsShaped'
    BY <1>12 DEF ReserveBackup, BacksUp, Backup
  <1>13. ASSUME NEW p \in Procs, WriteBackup(p) PROVE OpeningsShaped'
    <2>1. CASE UNCHANGED opening BY <2>1 DEF OpeningsShaped, OpeningShape
    <2>2. CASE opening' = [opening EXCEPT ![p].backup.state = "complete"]
      BY <2>2 DEF OpeningsShaped, OpeningShape
    <2>3. QED BY <1>13, <2>1, <2>2 DEF WriteBackup, Backup
  <1>14. ASSUME NEW p \in Procs, VerifyBackup(p) PROVE OpeningsShaped'
    BY <1>14 DEF VerifyBackup, BacksUp
  <1>15. ASSUME NEW p \in Procs, BackupFails(p) PROVE OpeningsShaped'
    BY <1>15 DEF BackupFails, Fails, Becomes
  <1>16. ASSUME NEW p \in Procs, LoadRow(p) PROVE OpeningsShaped'
    BY <1>16 DEF LoadRow, Reads, InSession, Row
  <1>17. ASSUME NEW p \in Procs, InspectCheckout(p) PROVE OpeningsShaped'
    BY <1>17 DEF InspectCheckout, Reads, InSession
  <1>18. ASSUME NEW p \in Procs, RefuseRow(p) PROVE OpeningsShaped'
    BY <1>18 DEF RefuseRow, HandOut, Reads, InSession
  <1>19. ASSUME NEW p \in Procs, AcceptRow(p) PROVE OpeningsShaped'
    BY <1>19 DEF AcceptRow, HandOut, HandedOut, Transaction, InSession, Row, Free
  <1>20. ASSUME NEW p \in Procs, PreviewSource(p) PROVE OpeningsShaped'
    BY <1>20 DEF PreviewSource, Reads, InSession
  <1>21. ASSUME NEW p \in Procs, RevalidatePreview(p) PROVE OpeningsShaped'
    BY <1>21 DEF RevalidatePreview, Reads, InSession
  <1>22. ASSUME NEW p \in Procs, RegisterSource(p) PROVE OpeningsShaped'
    BY <1>22 DEF RegisterSource, Transaction, InSession, Row, Fresh, Free
  <1>23. ASSUME NEW p \in Procs, RefuseSource(p) PROVE OpeningsShaped'
    BY <1>23 DEF RefuseSource, Reads, InSession
  <1>24. ASSUME NEW p \in Procs, PlanAdoption(p) PROVE OpeningsShaped'
    BY <1>24 DEF PlanAdoption, Reads, InSession
  <1>25. ASSUME NEW p \in Procs, GuardAdoption(p) PROVE OpeningsShaped'
    BY <1>25 DEF GuardAdoption, Hold, InSession, Free
  <1>26. ASSUME NEW p \in Procs, RecordOrigin(p) PROVE OpeningsShaped'
    BY <1>26 DEF RecordOrigin, Release, InSession
  <1>27. ASSUME NEW p \in Procs, CommitAdoption(p) PROVE OpeningsShaped'
    BY <1>27 DEF CommitAdoption, Release, InSession
  <1>28. ASSUME NEW p \in Procs, ForgetSource(p) PROVE OpeningsShaped'
    BY <1>28 DEF ForgetSource, Transaction, InSession, Row, Free
  <1>29. ASSUME NEW p \in Procs, Stop(p) PROVE OpeningsShaped'
    BY <1>29 DEF Stop, Becomes
  <1>30. ASSUME NEW p \in Procs, Substitute(p) PROVE OpeningsShaped'
    BY <1>30 DEF Substitute, Others, Backup
  <1>31. ASSUME Replace PROVE OpeningsShaped'
    BY <1>31 DEF Others, Replace
  <1>32. ASSUME EarlierBuildRegisters PROVE OpeningsShaped'
    <2> HIDE DEF OpeningsShaped, OpeningShape, Starting, NoBackup
    <2>1. ASSUME NEW p \in Procs
          PROVE opening'[p] = [opening[p] EXCEPT !.overtaken = opening[p].backup.image.there]
      BY <1>32 DEF EarlierBuildRegisters
    <2>2. DOMAIN opening' = Procs BY <1>32 DEF EarlierBuildRegisters
    <2>3. ASSUME NEW o, OpeningShape(o), NEW n, NEW t, n = [o EXCEPT !.overtaken = t] PROVE OpeningShape(n)
      BY <2>3 DEF OpeningShape
    <2>4. QED BY <2>1, <2>2, <2>3 DEF OpeningsShaped
  <1>33. ASSUME LaterBuildMigrates PROVE OpeningsShaped'
    BY <1>33 DEF Others, LaterBuildMigrates, Free, Fresh, Row
  <1>34. ASSUME Lose PROVE OpeningsShaped'
    BY <1>34 DEF Others, Lose, Unopened, NoDatabase
  <1>35. CASE UNCHANGED vars BY <1>35 DEF vars
  <1>36. QED
    BY <1>1, <1>2, <1>3, <1>4, <1>5, <1>6, <1>7, <1>8, <1>9, <1>10, <1>11, <1>12, <1>13,
       <1>14, <1>15, <1>16, <1>17, <1>18, <1>19, <1>20, <1>21, <1>22, <1>23, <1>24, <1>25,
       <1>26, <1>27, <1>28, <1>29, <1>30, <1>31, <1>32, <1>33, <1>34, <1>35 DEF Next, Open,
       Migrate, BackUp, Load, Register, Adopt

(* Nor of what a session holds. *)
LEMMA SessionsStep == ASSUME SessionsShaped, RowShape(database.row), [Next]_vars PROVE SessionsShaped'
  <1> USE DEF At, Goto, Opens, disk, world, sources, SessionsShaped, SessionShape, RowShape,
        NoWork, NoRow
  <1>1. ASSUME NEW p \in Procs, Start(p) PROVE SessionsShaped'
    BY <1>1 DEF Start
  <1>2. ASSUME NEW p \in Procs, CreateDirectory(p) PROVE SessionsShaped'
    BY <1>2 DEF CreateDirectory
  <1>3. ASSUME NEW p \in Procs, LookForDatabase(p) PROVE SessionsShaped'
    BY <1>3 DEF LookForDatabase, Becomes
  <1>4. ASSUME NEW p \in Procs, Connect(p) PROVE SessionsShaped'
    BY <1>4 DEF Connect
  <1>5. ASSUME NEW p \in Procs, ConnectFails(p) PROVE SessionsShaped'
    BY <1>5 DEF ConnectFails, Fails, Becomes
  <1>6. ASSUME NEW p \in Procs, BeginMigration(p) PROVE SessionsShaped'
    BY <1>6 DEF BeginMigration, Hold
  <1>7. ASSUME NEW p \in Procs, Busy(p) PROVE SessionsShaped'
    BY <1>7 DEF Busy, Fails, Becomes, Free
  <1>8. ASSUME NEW p \in Procs, ReadVersion(p) PROVE SessionsShaped'
    BY <1>8 DEF ReadVersion, Becomes, Release, PendingNow, Pending
  <1>9. ASSUME NEW p \in Procs, CommitMigration(p) PROVE SessionsShaped'
    BY <1>9 DEF CommitMigration, Becomes, Release
  <1>10. ASSUME NEW p \in Procs, RollBack(p) PROVE SessionsShaped'
    BY <1>10 DEF RollBack, Release, Fails, Becomes
  <1>11. ASSUME NEW p \in Procs, Snapshot(p) PROVE SessionsShaped'
    BY <1>11 DEF Snapshot, BacksUp
  <1>12. ASSUME NEW p \in Procs, ReserveBackup(p) PROVE SessionsShaped'
    BY <1>12 DEF ReserveBackup, BacksUp, Backup
  <1>13. ASSUME NEW p \in Procs, WriteBackup(p) PROVE SessionsShaped'
    BY <1>13 DEF WriteBackup, BacksUp, Backup
  <1>14. ASSUME NEW p \in Procs, VerifyBackup(p) PROVE SessionsShaped'
    BY <1>14 DEF VerifyBackup, BacksUp
  <1>15. ASSUME NEW p \in Procs, BackupFails(p) PROVE SessionsShaped'
    BY <1>15 DEF BackupFails, Fails, Becomes
  <1>16. ASSUME NEW p \in Procs, LoadRow(p) PROVE SessionsShaped'
    BY <1>16 DEF LoadRow, Reads, InSession, Row
  <1>17. ASSUME NEW p \in Procs, InspectCheckout(p) PROVE SessionsShaped'
    BY <1>17 DEF InspectCheckout, Reads, InSession
  <1>18. ASSUME NEW p \in Procs, RefuseRow(p) PROVE SessionsShaped'
    BY <1>18 DEF RefuseRow, HandOut, Reads, InSession
  <1>19. ASSUME NEW p \in Procs, AcceptRow(p) PROVE SessionsShaped'
    BY <1>19 DEF AcceptRow, HandOut, HandedOut, Transaction, InSession, Row, Free
  <1>20. ASSUME NEW p \in Procs, PreviewSource(p) PROVE SessionsShaped'
    BY <1>20 DEF PreviewSource, Reads, InSession
  <1>21. ASSUME NEW p \in Procs, RevalidatePreview(p) PROVE SessionsShaped'
    <2>1. CASE UNCHANGED session BY <2>1 DEF SessionsShaped, SessionShape, RowShape
    <2>2. CASE session' = [session EXCEPT ![p].saw = None]
      BY <2>2 DEF SessionsShaped, SessionShape, RowShape
    <2>3. QED BY <1>21, <2>1, <2>2 DEF RevalidatePreview
  <1>22. ASSUME NEW p \in Procs, RegisterSource(p) PROVE SessionsShaped'
    BY <1>22 DEF RegisterSource, Transaction, InSession, Row, Fresh, Free
  <1>23. ASSUME NEW p \in Procs, RefuseSource(p) PROVE SessionsShaped'
    BY <1>23 DEF RefuseSource, Reads, InSession
  <1>24. ASSUME NEW p \in Procs, PlanAdoption(p) PROVE SessionsShaped'
    BY <1>24 DEF PlanAdoption, Reads, InSession
  <1>25. ASSUME NEW p \in Procs, GuardAdoption(p) PROVE SessionsShaped'
    BY <1>25 DEF GuardAdoption, Hold, InSession, Free
  <1>26. ASSUME NEW p \in Procs, RecordOrigin(p) PROVE SessionsShaped'
    BY <1>26 DEF RecordOrigin, Release, InSession
  <1>27. ASSUME NEW p \in Procs, CommitAdoption(p) PROVE SessionsShaped'
    BY <1>27 DEF CommitAdoption, Release, InSession
  <1>28. ASSUME NEW p \in Procs, ForgetSource(p) PROVE SessionsShaped'
    <2> HIDE DEF SessionsShaped, SessionShape, RowShape, NoWork, NoRow
    <2>1. session'[p] = [source |-> NoRow, row |-> session[p].row, saw |-> session[p].saw,
                         refresh |-> session[p].refresh]
      BY <1>28 DEF ForgetSource, SessionsShaped, SessionShape
    <2>2. DOMAIN session' = Procs /\ \A q \in Procs \ {p} : session'[q] = session[q]
      BY <1>28 DEF ForgetSource, SessionsShaped
    <2>3. RowShape(NoRow) /\ RowShape(session[p].row)
      BY DEF SessionShape, SessionsShaped, RowShape, NoRow
    <2>4. SessionShape(session'[p]) BY <2>1, <2>3 DEF SessionShape
    <2>5. QED BY <2>2, <2>4 DEF SessionsShaped
  <1>29. ASSUME NEW p \in Procs, Stop(p) PROVE SessionsShaped'
    BY <1>29 DEF Stop, Becomes
  <1>30. ASSUME NEW p \in Procs, Substitute(p) PROVE SessionsShaped'
    BY <1>30 DEF Substitute, Others, Backup
  <1>31. ASSUME Replace PROVE SessionsShaped'
    BY <1>31 DEF Others, Replace
  <1>32. ASSUME EarlierBuildRegisters PROVE SessionsShaped'
    BY <1>32 DEF Others, EarlierBuildRegisters, Free, Fresh, Row
  <1>33. ASSUME LaterBuildMigrates PROVE SessionsShaped'
    BY <1>33 DEF Others, LaterBuildMigrates, Free, Fresh, Row
  <1>34. ASSUME Lose PROVE SessionsShaped'
    BY <1>34 DEF Others, Lose, Unopened, NoDatabase
  <1>35. CASE UNCHANGED vars BY <1>35 DEF vars
  <1>36. QED
    BY <1>1, <1>2, <1>3, <1>4, <1>5, <1>6, <1>7, <1>8, <1>9, <1>10, <1>11, <1>12, <1>13,
       <1>14, <1>15, <1>16, <1>17, <1>18, <1>19, <1>20, <1>21, <1>22, <1>23, <1>24, <1>25,
       <1>26, <1>27, <1>28, <1>29, <1>30, <1>31, <1>32, <1>33, <1>34, <1>35 DEF Next, Open,
       Migrate, BackUp, Load, Register, Adopt

LEMMA ControlStep == ASSUME Control, OpeningsShaped, SessionsShaped, [Next]_vars PROVE Control'
  <1> USE DEF At, Goto, Opens, disk, world, sources, Control, TypeOK, StoreShaped, StoreShape,
        RowShape, Locked, Present, Writing, Connected, Sessions, Labels, SessionsShaped, SessionShape,
        NoRow, Starting, NoWork
  <1>1. ASSUME NEW p \in Procs, Start(p) PROVE Control'
    BY <1>1, SchemaAssumption, NobodyAssumption DEF Start
  <1>2. ASSUME NEW p \in Procs, CreateDirectory(p) PROVE Control'
    BY <1>2, SchemaAssumption, NobodyAssumption DEF CreateDirectory
  <1>3. ASSUME NEW p \in Procs, LookForDatabase(p) PROVE Control'
    BY <1>3, SchemaAssumption, NobodyAssumption DEF LookForDatabase, Becomes
  <1>4. ASSUME NEW p \in Procs, Connect(p) PROVE Control'
    <2>1. CASE database.there
      BY <1>4, <2>1 DEF Connect, Becomes, Control, TypeOK, StoreShaped, Locked, Present, Writing,
         Connected, Sessions, Labels, StoreShape, RowShape
    <2>2. CASE ~database.there
      <3>1. database' = Empty BY <1>4, <2>2 DEF Connect
      <3>2. /\ StoreShaped' /\ database'.there /\ database'.version = 0
        BY <3>1, EmptyShape DEF StoreShaped, StoreShape, RowShape
      <3>3. QED
        BY <1>4, <3>2, SchemaAssumption DEF Connect, Becomes, Control, TypeOK, StoreShaped, Locked,
           Present, Writing, Connected, Sessions, Labels
    <2>3. QED BY <2>1, <2>2
  <1>5. ASSUME NEW p \in Procs, ConnectFails(p) PROVE Control'
    BY <1>5, SchemaAssumption, NobodyAssumption DEF ConnectFails, Fails, Becomes
  <1>6. ASSUME NEW p \in Procs, BeginMigration(p) PROVE Control'
    BY <1>6, SchemaAssumption, NobodyAssumption DEF BeginMigration, Hold
  <1>7. ASSUME NEW p \in Procs, Busy(p) PROVE Control'
    BY <1>7, SchemaAssumption, NobodyAssumption DEF Busy, Fails, Becomes, Free
  <1>8. ASSUME NEW p \in Procs, ReadVersion(p) PROVE Control'
    BY <1>8, SchemaAssumption, NobodyAssumption DEF ReadVersion, Becomes, Release, PendingNow,
       Pending
  <1>9. ASSUME NEW p \in Procs, CommitMigration(p) PROVE Control'
    <2> HIDE DEF Control, TypeOK, StoreShaped, StoreShape, RowShape, Locked, Present, Writing,
        Connected, Sessions, Labels, SessionsShaped, SessionShape, NoRow, Starting, NoWork
    <2>1. /\ database'.there = database.there /\ database'.row = database.row
          /\ database'.version = Newest /\ StoreShape(database')
      BY <1>9 DEF CommitMigration, Control, StoreShaped, StoreShape
    <2>2. StoreShaped' BY <2>1 DEF Control, StoreShaped, RowShape
    <2>3. QED
      BY <1>9, <2>1, <2>2, SchemaAssumption, NobodyAssumption DEF CommitMigration, Becomes,
         Release, Control, TypeOK, StoreShaped, Locked, Present, Writing, Connected, Sessions,
         Labels
  <1>10. ASSUME NEW p \in Procs, RollBack(p) PROVE Control'
    BY <1>10, SchemaAssumption, NobodyAssumption DEF RollBack, Release, Fails, Becomes
  <1>11. ASSUME NEW p \in Procs, Snapshot(p) PROVE Control'
    BY <1>11, SchemaAssumption, NobodyAssumption DEF Snapshot, BacksUp
  <1>12. ASSUME NEW p \in Procs, ReserveBackup(p) PROVE Control'
    BY <1>12, SchemaAssumption, NobodyAssumption DEF ReserveBackup, BacksUp, Backup
  <1>13. ASSUME NEW p \in Procs, WriteBackup(p) PROVE Control'
    BY <1>13, SchemaAssumption, NobodyAssumption DEF WriteBackup, BacksUp, Backup
  <1>14. ASSUME NEW p \in Procs, VerifyBackup(p) PROVE Control'
    BY <1>14, SchemaAssumption, NobodyAssumption DEF VerifyBackup, BacksUp
  <1>15. ASSUME NEW p \in Procs, BackupFails(p) PROVE Control'
    BY <1>15, SchemaAssumption, NobodyAssumption DEF BackupFails, Fails, Becomes
  <1>16. ASSUME NEW p \in Procs, LoadRow(p) PROVE Control'
    BY <1>16, SchemaAssumption, NobodyAssumption DEF LoadRow, Reads, InSession, Row
  <1>17. ASSUME NEW p \in Procs, InspectCheckout(p) PROVE Control'
    BY <1>17, SchemaAssumption, NobodyAssumption DEF InspectCheckout, Reads, InSession
  <1>18. ASSUME NEW p \in Procs, RefuseRow(p) PROVE Control'
    BY <1>18, SchemaAssumption, NobodyAssumption DEF RefuseRow, HandOut, Reads, InSession
  <1>19. ASSUME NEW p \in Procs, AcceptRow(p) PROVE Control'
    BY <1>19, SchemaAssumption, NobodyAssumption DEF AcceptRow, HandOut, HandedOut, Transaction,
       InSession, Row, Free
  <1>20. ASSUME NEW p \in Procs, PreviewSource(p) PROVE Control'
    BY <1>20, SchemaAssumption, NobodyAssumption DEF PreviewSource, Reads, InSession
  <1>21. ASSUME NEW p \in Procs, RevalidatePreview(p) PROVE Control'
    BY <1>21, SchemaAssumption, NobodyAssumption DEF RevalidatePreview, Reads, InSession
  <1>22. ASSUME NEW p \in Procs, RegisterSource(p) PROVE Control'
    <2>1. /\ database'.there = database.there /\ database'.version = database.version
          /\ StoreShape(database')
          /\ database'.row = [id |-> IF Row = NoRow THEN nextId ELSE Row.id,
                              ident |-> session[p].saw, head |-> session[p].saw]
      BY <1>22 DEF RegisterSource, Control, StoreShaped, StoreShape
    <2>2. StoreShaped' BY <2>1 DEF Control, StoreShaped, RowShape
    <2>3. nextId' \in 1 .. MaxId + 1
      BY <1>22, MaxIdAssumption DEF RegisterSource, Fresh, Control, TypeOK
    <2>4. QED
      BY <1>22, <2>1, <2>2, <2>3 DEF RegisterSource, Transaction, InSession, Free, Control,
         TypeOK, StoreShaped, Locked, Present, Writing, Connected, Sessions, Labels
  <1>23. ASSUME NEW p \in Procs, RefuseSource(p) PROVE Control'
    BY <1>23, SchemaAssumption, NobodyAssumption DEF RefuseSource, Reads, InSession
  <1>24. ASSUME NEW p \in Procs, PlanAdoption(p) PROVE Control'
    BY <1>24, SchemaAssumption, NobodyAssumption DEF PlanAdoption, Reads, InSession
  <1>25. ASSUME NEW p \in Procs, GuardAdoption(p) PROVE Control'
    BY <1>25, SchemaAssumption, NobodyAssumption DEF GuardAdoption, Hold, InSession, Free
  <1>26. ASSUME NEW p \in Procs, RecordOrigin(p) PROVE Control'
    BY <1>26, SchemaAssumption, NobodyAssumption DEF RecordOrigin, Release, InSession
  <1>27. ASSUME NEW p \in Procs, CommitAdoption(p) PROVE Control'
    BY <1>27, SchemaAssumption, NobodyAssumption DEF CommitAdoption, Release, InSession
  <1>28. ASSUME NEW p \in Procs, ForgetSource(p) PROVE Control'
    BY <1>28, SchemaAssumption, NobodyAssumption DEF ForgetSource, Transaction, InSession, Row,
       Free
  <1>29. ASSUME NEW p \in Procs, Stop(p) PROVE Control'
    BY <1>29, SchemaAssumption, NobodyAssumption DEF Stop, Becomes
  <1>30. ASSUME NEW p \in Procs, Substitute(p) PROVE Control'
    BY <1>30, SchemaAssumption, NobodyAssumption DEF Substitute, Others, Backup
  <1>31. ASSUME Replace PROVE Control'
    BY <1>31, SchemaAssumption, NobodyAssumption DEF Others, Replace
  <1>32. ASSUME EarlierBuildRegisters PROVE Control'
    <2>1. /\ database'.there = database.there /\ database'.version = database.version
          /\ StoreShape(database')
          /\ database'.row = [id |-> nextId, ident |-> None, head |-> standing]
      BY <1>32 DEF EarlierBuildRegisters, Control, StoreShaped, StoreShape
    <2>2. StoreShaped' BY <2>1 DEF Control, StoreShaped, RowShape
    <2>3. nextId' \in 1 .. MaxId + 1
      BY <1>32, MaxIdAssumption DEF EarlierBuildRegisters, Fresh, Control, TypeOK
    <2>4. QED
      BY <1>32, <2>1, <2>2, <2>3 DEF EarlierBuildRegisters, Others, Control, TypeOK,
         StoreShaped, Locked, Present, Writing, Connected, Sessions, Labels
  <1>33. ASSUME LaterBuildMigrates PROVE Control'
    <2>1. /\ database'.there = database.there /\ database'.row = database.row
          /\ database'.version = Newest + 1 /\ StoreShape(database')
      BY <1>33 DEF LaterBuildMigrates, Control, StoreShaped, StoreShape
    <2>2. StoreShaped' BY <2>1 DEF Control, StoreShaped, RowShape
    <2>3. QED
      BY <1>33, <2>1, <2>2, SchemaAssumption DEF LaterBuildMigrates, Others, Control,
         TypeOK, StoreShaped, Locked, Present, Writing, Connected, Sessions, Labels
  <1>34. ASSUME Lose PROVE Control'
    BY <1>34, SchemaAssumption, NobodyAssumption, MaxIdAssumption DEF Others, Lose, Unopened, NoDatabase
  <1>35. CASE UNCHANGED vars BY <1>35 DEF vars
  <1>36. QED
    BY <1>1, <1>2, <1>3, <1>4, <1>5, <1>6, <1>7, <1>8, <1>9, <1>10, <1>11, <1>12, <1>13,
       <1>14, <1>15, <1>16, <1>17, <1>18, <1>19, <1>20, <1>21, <1>22, <1>23, <1>24, <1>25,
       <1>26, <1>27, <1>28, <1>29, <1>30, <1>31, <1>32, <1>33, <1>34, <1>35 DEF Next, Open,
       Migrate, BackUp, Load, Register, Adopt

Base == Control /\ OpeningsShaped /\ SessionsShaped

LEMMA BaseHolds == Spec => []Base
  <1>1. Init => Base BY InitControl DEF Base
  <1>2. Base /\ [Next]_vars => Base'
    BY ControlStep, OpeningsStep, SessionsStep DEF Base, Control, StoreShaped
  <1>3. QED BY <1>1, <1>2, PTL DEF Spec


(* A start that found no directory began before there was a database to lose, *)
(* and one that may create a database found none when it looked.              *)
Gone ==
  /\ directory \in BOOLEAN /\ lost \in BOOLEAN
  /\ database.there \/ lost => directory
  /\ \A p \in Procs :
       /\ pc[p] = "off" => ~opening[p].fresh /\ ~opening[p].create
       /\ pc[p] \notin {"off", "create"} => directory
       /\ pc[p] = "create" \/ (pc[p] = "database" /\ opening[p].fresh) => ~opening[p].known
       /\ opening[p].create => opening[p].fresh /\ ~opening[p].known

(* A process that reads the version again has a complete backup of what it    *)
(* will rebuild, if another build did not write since and there is anything   *)
(* left to rebuild.                                                           *)
Saved(p) ==
  /\ pc[p] \in {"off", "create", "database", "connect"} => opening[p].backup = NoBackup
  /\ pc[p] \in {"begin", "version", "apply"} /\ opening[p].backup # NoBackup =>
       opening[p].backup.state = "complete"
  /\ pc[p] \in {"reserve", "write", "verify"} => opening[p].backup # NoBackup
  /\ pc[p] \in {"reserve", "write", "verify", "begin", "version", "apply"} /\ opening[p].backup # NoBackup =>
       /\ opening[p].backup.image.there
       /\ \/ opening[p].overtaken
          \/ opening[p].backup.image = database
          \/ database.version >= Newest

Migrating ==
  \A p \in Procs :
    /\ Saved(p)
    /\ pc[p] \in Sessions => database.version >= Newest
    /\ pc[p] = "apply" =>
         /\ opening[p].pending = Pending /\ database.version <= Newest
         /\ Pending \cap Destructive # {} => opening[p].backup # NoBackup

(* Numbers are not used twice, so a session that holds a registration with    *)
(* the number of the row holds that registration.                             *)
Held(r) ==
  /\ r.id \in Nat /\ r.id < nextId
  /\ r.ident # None => r.id # 0
  /\ r.id = database.row.id /\ r.ident # None => r.ident \in registered

Numbered ==
  /\ Held(database.row)
  /\ database.row.id = 0 => database.row = NoRow
  /\ database.baseline # None => database.row.id # 0 /\ database.baseline \in registered

Working(p) ==
  /\ Held(session[p].source) /\ Held(session[p].row)
  /\ session[p].row.id = 0 => session[p].row = NoRow
  /\ pc[p] \notin Sessions => session[p].source = NoRow /\ session[p].row = NoRow
  /\ pc[p] = "contains" => session[p].row.id # 0 /\ session[p].row.ident \in {None, session[p].saw}
  /\ pc[p] \in {"adopt", "record", "commit"} => session[p].source.ident # None
  /\ pc[p] \in {"record", "commit"} => session[p].source.id = database.row.id
  /\ pc[p] = "commit" => database.baseline = None

Owned == Numbered /\ \A p \in Procs : Working(p)

LEMMA NoBackupShape == NoBackup = [state |-> "none", image |-> NoDatabase] /\ ~NoDatabase.there
  BY DEF NoBackup, NoDatabase

LEMMA GoneStep == ASSUME Base, Gone, [Next]_vars PROVE Gone'
  <1> USE DEF At, Goto, Opens, disk, world, sources, Base, Control, TypeOK, Present, Connected,
        OpeningsShaped, OpeningShape, StoreShaped, StoreShape, Gone, Starting
  <1>1. ASSUME NEW p \in Procs, Start(p) PROVE Gone'
    BY <1>1, EmptyShape DEF Start
  <1>2. ASSUME NEW p \in Procs, CreateDirectory(p) PROVE Gone'
    BY <1>2, EmptyShape DEF CreateDirectory
  <1>3. ASSUME NEW p \in Procs, LookForDatabase(p) PROVE Gone'
    <2>1. CASE pc' = [pc EXCEPT ![p] = "off"] /\ opening' = [opening EXCEPT ![p] = Starting]
      BY <1>3, <2>1 DEF LookForDatabase
    <2>2. CASE /\ database.there \/ opening[p].fresh
               /\ pc' = [pc EXCEPT ![p] = "connect"]
               /\ opening' = [opening EXCEPT ![p].create = ~database.there,
                                             ![p].known = @ \/ database.there]
      <3>1. /\ opening'[p].fresh = opening[p].fresh
            /\ opening'[p].create = ~database.there
            /\ opening'[p].known = (opening[p].known \/ database.there)
        BY <2>2
      <3>2. \A q \in Procs \ {p} : opening'[q] = opening[q] /\ pc'[q] = pc[q]
        BY <2>2
      <3>3. QED BY <1>3, <2>2, <3>1, <3>2 DEF LookForDatabase
    <2>3. QED BY <1>3, <2>1, <2>2 DEF LookForDatabase, Becomes
  <1>4. ASSUME NEW p \in Procs, Connect(p) PROVE Gone'
    BY <1>4 DEF Connect, Becomes
  <1>5. ASSUME NEW p \in Procs, ConnectFails(p) PROVE Gone'
    BY <1>5, EmptyShape DEF ConnectFails, Fails, Becomes
  <1>6. ASSUME NEW p \in Procs, BeginMigration(p) PROVE Gone'
    BY <1>6, EmptyShape DEF BeginMigration, Hold
  <1>7. ASSUME NEW p \in Procs, Busy(p) PROVE Gone'
    BY <1>7, EmptyShape DEF Busy, Fails, Becomes, Free
  <1>8. ASSUME NEW p \in Procs, ReadVersion(p) PROVE Gone'
    <2>1. CASE opening' = [opening EXCEPT ![p] = Starting]
      BY <1>8, <2>1 DEF ReadVersion, Becomes
    <2>2. CASE opening' = [opening EXCEPT ![p].pending = PendingNow(p)]
      BY <1>8, <2>2 DEF ReadVersion, Becomes
    <2>3. QED BY <1>8, <2>1, <2>2 DEF ReadVersion, Becomes
  <1>9. ASSUME NEW p \in Procs, CommitMigration(p) PROVE Gone'
    BY <1>9, EmptyShape DEF CommitMigration, Becomes, Release
  <1>10. ASSUME NEW p \in Procs, RollBack(p) PROVE Gone'
    BY <1>10, EmptyShape DEF RollBack, Release, Fails, Becomes
  <1>11. ASSUME NEW p \in Procs, Snapshot(p) PROVE Gone'
    BY <1>11, EmptyShape DEF Snapshot, BacksUp
  <1>12. ASSUME NEW p \in Procs, ReserveBackup(p) PROVE Gone'
    BY <1>12, EmptyShape DEF ReserveBackup, BacksUp, Backup
  <1>13. ASSUME NEW p \in Procs, WriteBackup(p) PROVE Gone'
    <2>1. CASE UNCHANGED opening
      BY <1>13, <2>1 DEF WriteBackup, BacksUp
    <2>2. CASE opening' = [opening EXCEPT ![p].backup.state = "complete"]
      BY <1>13, <2>2 DEF WriteBackup, BacksUp
    <2>3. QED BY <1>13, <2>1, <2>2 DEF WriteBackup, Backup
  <1>14. ASSUME NEW p \in Procs, VerifyBackup(p) PROVE Gone'
    BY <1>14, EmptyShape DEF VerifyBackup, BacksUp
  <1>15. ASSUME NEW p \in Procs, BackupFails(p) PROVE Gone'
    BY <1>15, EmptyShape DEF BackupFails, Fails, Becomes
  <1>16. ASSUME NEW p \in Procs, LoadRow(p) PROVE Gone'
    BY <1>16, EmptyShape DEF LoadRow, Reads, InSession, Row
  <1>17. ASSUME NEW p \in Procs, InspectCheckout(p) PROVE Gone'
    BY <1>17, EmptyShape DEF InspectCheckout, Reads, InSession
  <1>18. ASSUME NEW p \in Procs, RefuseRow(p) PROVE Gone'
    BY <1>18, EmptyShape DEF RefuseRow, HandOut, Reads, InSession
  <1>19. ASSUME NEW p \in Procs, AcceptRow(p) PROVE Gone'
    BY <1>19, EmptyShape DEF AcceptRow, HandOut, HandedOut, Transaction, InSession, Row, Free
  <1>20. ASSUME NEW p \in Procs, PreviewSource(p) PROVE Gone'
    BY <1>20, EmptyShape DEF PreviewSource, Reads, InSession
  <1>21. ASSUME NEW p \in Procs, RevalidatePreview(p) PROVE Gone'
    BY <1>21, EmptyShape DEF RevalidatePreview, Reads, InSession
  <1>22. ASSUME NEW p \in Procs, RegisterSource(p) PROVE Gone'
    BY <1>22, EmptyShape DEF RegisterSource, Transaction, InSession, Row, Fresh, Free
  <1>23. ASSUME NEW p \in Procs, RefuseSource(p) PROVE Gone'
    BY <1>23, EmptyShape DEF RefuseSource, Reads, InSession
  <1>24. ASSUME NEW p \in Procs, PlanAdoption(p) PROVE Gone'
    BY <1>24, EmptyShape DEF PlanAdoption, Reads, InSession
  <1>25. ASSUME NEW p \in Procs, GuardAdoption(p) PROVE Gone'
    BY <1>25, EmptyShape DEF GuardAdoption, Hold, InSession, Free
  <1>26. ASSUME NEW p \in Procs, RecordOrigin(p) PROVE Gone'
    BY <1>26, EmptyShape DEF RecordOrigin, Release, InSession
  <1>27. ASSUME NEW p \in Procs, CommitAdoption(p) PROVE Gone'
    BY <1>27, EmptyShape DEF CommitAdoption, Release, InSession
  <1>28. ASSUME NEW p \in Procs, ForgetSource(p) PROVE Gone'
    BY <1>28, EmptyShape DEF ForgetSource, Transaction, InSession, Row, Free
  <1>29. ASSUME NEW p \in Procs, Stop(p) PROVE Gone'
    BY <1>29, EmptyShape DEF Stop, Becomes
  <1>30. ASSUME NEW p \in Procs, Substitute(p) PROVE Gone'
    BY <1>30, EmptyShape DEF Substitute, Others, Backup
  <1>31. ASSUME Replace PROVE Gone'
    BY <1>31, EmptyShape DEF Others, Replace
  <1>32. ASSUME EarlierBuildRegisters PROVE Gone'
    <2>1. database'.there = database.there
      BY <1>32 DEF EarlierBuildRegisters, Base, Control, StoreShaped, StoreShape
    <2>2. \A p \in Procs : /\ opening'[p].fresh = opening[p].fresh
                           /\ opening'[p].create = opening[p].create
                           /\ opening'[p].known = opening[p].known
      <3>1. \A p \in Procs : opening'[p] = [opening[p] EXCEPT !.overtaken = opening[p].backup.image.there]
        BY <1>32 DEF EarlierBuildRegisters
      <3>2. ASSUME NEW p \in Procs, NEW o, OpeningShape(o), o = opening[p], NEW n, n = opening'[p],
                   n = [o EXCEPT !.overtaken = o.backup.image.there]
            PROVE n.fresh = o.fresh /\ n.create = o.create /\ n.known = o.known
        BY <3>2 DEF OpeningShape
      <3>3. QED BY <3>1, <3>2 DEF Base, OpeningsShaped
    <2>3. QED BY <1>32, <2>1, <2>2 DEF EarlierBuildRegisters, Others, Gone
  <1>33. ASSUME LaterBuildMigrates PROVE Gone'
    BY <1>33, EmptyShape DEF Others, LaterBuildMigrates, Free, Fresh, Row
  <1>34. ASSUME Lose PROVE Gone'
    BY <1>34, EmptyShape DEF Others, Lose, Unopened, NoDatabase
  <1>35. CASE UNCHANGED vars BY <1>35 DEF vars
  <1>36. QED
    BY <1>1, <1>2, <1>3, <1>4, <1>5, <1>6, <1>7, <1>8, <1>9, <1>10, <1>11, <1>12, <1>13,
       <1>14, <1>15, <1>16, <1>17, <1>18, <1>19, <1>20, <1>21, <1>22, <1>23, <1>24, <1>25,
       <1>26, <1>27, <1>28, <1>29, <1>30, <1>31, <1>32, <1>33, <1>34, <1>35 DEF Next, Open,
       Migrate, BackUp, Load, Register, Adopt

LEMMA MigratingStep == ASSUME Base, Base', Migrating, [Next]_vars PROVE Migrating'
  <1> USE DEF At, Goto, Opens, disk, world, sources, Base, Control, TypeOK, Locked, Writing,
        Present, Connected, Sessions, OpeningsShaped, OpeningShape, StoreShaped, StoreShape,
        Migrating, Saved, Pending, Starting
  <1>1. ASSUME NEW p \in Procs, Start(p) PROVE Migrating'
    BY <1>1, SchemaAssumption, NobodyAssumption, NoBackupShape DEF Start
  <1>2. ASSUME NEW p \in Procs, CreateDirectory(p) PROVE Migrating'
    BY <1>2, SchemaAssumption, NobodyAssumption, NoBackupShape DEF CreateDirectory
  <1>3. ASSUME NEW p \in Procs, LookForDatabase(p) PROVE Migrating'
    BY <1>3, SchemaAssumption, NobodyAssumption, NoBackupShape DEF LookForDatabase, Becomes
  <1>4. ASSUME NEW p \in Procs, Connect(p) PROVE Migrating'
    BY <1>4, SchemaAssumption, NobodyAssumption, NoBackupShape DEF Connect, Becomes
  <1>5. ASSUME NEW p \in Procs, ConnectFails(p) PROVE Migrating'
    BY <1>5, SchemaAssumption, NobodyAssumption, NoBackupShape DEF ConnectFails, Fails, Becomes
  <1>6. ASSUME NEW p \in Procs, BeginMigration(p) PROVE Migrating'
    BY <1>6, SchemaAssumption, NobodyAssumption, NoBackupShape DEF BeginMigration, Hold
  <1>7. ASSUME NEW p \in Procs, Busy(p) PROVE Migrating'
    BY <1>7, SchemaAssumption, NobodyAssumption, NoBackupShape DEF Busy, Fails, Becomes, Free
  <1>8. ASSUME NEW p \in Procs, ReadVersion(p) PROVE Migrating'
    <2>1. CASE opening' = [opening EXCEPT ![p] = Starting] /\ pc' = [pc EXCEPT ![p] = "off"]
      BY <1>8, <2>1, NoBackupShape DEF ReadVersion, Starting, Base, Control, TypeOK, Locked,
         Writing, Present, Connected, Sessions, OpeningsShaped, OpeningShape, Migrating, Saved,
         Pending
    <2>2. CASE /\ Pending = {} /\ database.version <= Newest
               /\ opening' = [opening EXCEPT ![p] = Starting]
               /\ \E label \in {"degraded", "load"} : pc' = [pc EXCEPT ![p] = label]
      <3>1. database.version >= Newest
        BY <2>2, SchemaAssumption DEF Pending, Base, Control, TypeOK
      <3>2. QED
        BY <1>8, <2>2, <3>1, NoBackupShape DEF ReadVersion, Starting, Base, Control, TypeOK,
           Locked, Writing, Present, Connected, Sessions, OpeningsShaped, OpeningShape,
           Migrating, Saved, Pending
    <2>3. CASE /\ opening' = [opening EXCEPT ![p].pending = Pending]
               /\ pc' = [pc EXCEPT ![p] = "snapshot"]
      BY <1>8, <2>3 DEF ReadVersion, Base, Control, TypeOK, Locked, Writing, Present, Connected,
         Sessions, OpeningsShaped, OpeningShape, Migrating, Saved, Pending
    <2>4. CASE /\ database.version <= Newest
               /\ ~(Pending \cap Destructive # {} /\ opening[p].backup = NoBackup)
               /\ opening' = [opening EXCEPT ![p].pending = Pending]
               /\ pc' = [pc EXCEPT ![p] = "apply"]
      BY <1>8, <2>4 DEF ReadVersion, Base, Control, TypeOK, Locked, Writing, Present, Connected,
         Sessions, OpeningsShaped, OpeningShape, Migrating, Saved, Pending
    <2>5. QED BY <1>8, <2>1, <2>2, <2>3, <2>4 DEF ReadVersion, PendingNow, Becomes
  <1>9. ASSUME NEW p \in Procs, CommitMigration(p) PROVE Migrating'
    <2> HIDE DEF Base, Control, TypeOK, Locked, Writing, Present, Connected, Sessions,
        OpeningsShaped, OpeningShape, StoreShaped, StoreShape, Migrating, Saved, Pending, Starting
    <2>1. database'.version = Newest /\ database'.there = database.there
      BY <1>9 DEF CommitMigration, Base, Control, StoreShaped, StoreShape
    <2>2. \A q \in Procs : pc'[q] # "apply"
      BY <1>9, NobodyAssumption DEF CommitMigration, Becomes, Release, Base, Control, TypeOK,
         Locked, Writing
    <2>3. opening'[p] = Starting /\ \A q \in Procs \ {p} : opening'[q] = opening[q]
      BY <1>9 DEF CommitMigration, Becomes, Base, OpeningsShaped
    <2>4. Starting.backup = NoBackup BY DEF Starting
    <2>5. QED
      BY <1>9, <2>1, <2>2, <2>3, <2>4, SchemaAssumption DEF CommitMigration, Becomes, Base,
         Control, TypeOK, Sessions, Migrating, Saved
  <1>10. ASSUME NEW p \in Procs, RollBack(p) PROVE Migrating'
    BY <1>10, SchemaAssumption, NobodyAssumption, NoBackupShape DEF RollBack, Release, Fails,
       Becomes
  <1>11. ASSUME NEW p \in Procs, Snapshot(p) PROVE Migrating'
    BY <1>11, SchemaAssumption, NobodyAssumption, NoBackupShape DEF Snapshot, BacksUp
  <1>12. ASSUME NEW p \in Procs, ReserveBackup(p) PROVE Migrating'
    <2> HIDE DEF Base, Control, TypeOK, Locked, Writing, Present, Connected, Sessions,
        OpeningsShaped, OpeningShape, StoreShaped, StoreShape, Migrating, Saved, Pending, Starting
    <2>1. /\ opening'[p].backup.image = opening[p].backup.image
          /\ opening'[p].backup.state \in {opening[p].backup.state, "partial", "complete", "foreign"}
          /\ opening'[p].overtaken = opening[p].overtaken
      BY <1>12 DEF ReserveBackup, Backup, Base, OpeningsShaped, OpeningShape
    <2>2. \A q \in Procs \ {p} : opening'[q] = opening[q]
      BY <1>12 DEF ReserveBackup, Backup, Base, OpeningsShaped
    <2>3. pc[p] \in {"reserve", "write", "verify"} /\ pc'[p] \in {"write", "verify"}
          /\ \A q \in Procs \ {p} : pc'[q] = pc[q]
      BY <1>12 DEF ReserveBackup, BacksUp, Base, Control, TypeOK
    <2>4. opening[p].backup # NoBackup
      BY <2>3 DEF Migrating, Saved
    <2>5. opening'[p].backup # NoBackup
      BY <2>1, <2>3, <2>4, NoBackupShape DEF Migrating, Saved
    <2>6. UNCHANGED database BY <1>12 DEF ReserveBackup, BacksUp
    <2>7. Saved(p)'
      BY <2>1, <2>3, <2>4, <2>5, <2>6 DEF Migrating, Saved
    <2>8. QED BY <2>2, <2>3, <2>6, <2>7 DEF Migrating, Saved, Sessions, Pending
  <1>13. ASSUME NEW p \in Procs, WriteBackup(p) PROVE Migrating'
    <2> HIDE DEF Base, Control, TypeOK, Locked, Writing, Present, Connected, Sessions,
        OpeningsShaped, OpeningShape, StoreShaped, StoreShape, Migrating, Saved, Pending, Starting
    <2>1. /\ opening'[p].backup.image = opening[p].backup.image
          /\ opening'[p].backup.state \in {opening[p].backup.state, "partial", "complete", "foreign"}
          /\ opening'[p].overtaken = opening[p].overtaken
      BY <1>13 DEF WriteBackup, Backup, Base, OpeningsShaped, OpeningShape
    <2>2. \A q \in Procs \ {p} : opening'[q] = opening[q]
      BY <1>13 DEF WriteBackup, Backup, Base, OpeningsShaped
    <2>3. pc[p] \in {"reserve", "write", "verify"} /\ pc'[p] \in {"write", "verify"}
          /\ \A q \in Procs \ {p} : pc'[q] = pc[q]
      BY <1>13 DEF WriteBackup, BacksUp, Base, Control, TypeOK
    <2>4. opening[p].backup # NoBackup
      BY <2>3 DEF Migrating, Saved
    <2>5. opening'[p].backup # NoBackup
      BY <2>1, <2>3, <2>4, NoBackupShape DEF Migrating, Saved
    <2>6. UNCHANGED database BY <1>13 DEF WriteBackup, BacksUp
    <2>7. Saved(p)'
      BY <2>1, <2>3, <2>4, <2>5, <2>6 DEF Migrating, Saved
    <2>8. QED BY <2>2, <2>3, <2>6, <2>7 DEF Migrating, Saved, Sessions, Pending
  <1>14. ASSUME NEW p \in Procs, VerifyBackup(p) PROVE Migrating'
    BY <1>14, SchemaAssumption, NobodyAssumption, NoBackupShape DEF VerifyBackup, BacksUp
  <1>15. ASSUME NEW p \in Procs, BackupFails(p) PROVE Migrating'
    BY <1>15, SchemaAssumption, NobodyAssumption, NoBackupShape DEF BackupFails, Fails, Becomes
  <1>16. ASSUME NEW p \in Procs, LoadRow(p) PROVE Migrating'
    BY <1>16, SchemaAssumption, NobodyAssumption, NoBackupShape DEF LoadRow, Reads, InSession,
       Row
  <1>17. ASSUME NEW p \in Procs, InspectCheckout(p) PROVE Migrating'
    BY <1>17, SchemaAssumption, NobodyAssumption, NoBackupShape DEF InspectCheckout, Reads,
       InSession
  <1>18. ASSUME NEW p \in Procs, RefuseRow(p) PROVE Migrating'
    BY <1>18, SchemaAssumption, NobodyAssumption, NoBackupShape DEF RefuseRow, HandOut, Reads,
       InSession
  <1>19. ASSUME NEW p \in Procs, AcceptRow(p) PROVE Migrating'
    BY <1>19, SchemaAssumption, NobodyAssumption, NoBackupShape DEF AcceptRow, HandOut,
       HandedOut, Transaction, InSession, Row, Free
  <1>20. ASSUME NEW p \in Procs, PreviewSource(p) PROVE Migrating'
    BY <1>20, SchemaAssumption, NobodyAssumption, NoBackupShape DEF PreviewSource, Reads,
       InSession
  <1>21. ASSUME NEW p \in Procs, RevalidatePreview(p) PROVE Migrating'
    BY <1>21, SchemaAssumption, NobodyAssumption, NoBackupShape DEF RevalidatePreview, Reads,
       InSession
  <1>22. ASSUME NEW p \in Procs, RegisterSource(p) PROVE Migrating'
    BY <1>22, SchemaAssumption, NobodyAssumption, NoBackupShape DEF RegisterSource, Transaction,
       InSession, Row, Fresh, Free
  <1>23. ASSUME NEW p \in Procs, RefuseSource(p) PROVE Migrating'
    BY <1>23, SchemaAssumption, NobodyAssumption, NoBackupShape DEF RefuseSource, Reads,
       InSession
  <1>24. ASSUME NEW p \in Procs, PlanAdoption(p) PROVE Migrating'
    BY <1>24, SchemaAssumption, NobodyAssumption, NoBackupShape DEF PlanAdoption, Reads,
       InSession
  <1>25. ASSUME NEW p \in Procs, GuardAdoption(p) PROVE Migrating'
    BY <1>25, SchemaAssumption, NobodyAssumption, NoBackupShape DEF GuardAdoption, Hold,
       InSession, Free
  <1>26. ASSUME NEW p \in Procs, RecordOrigin(p) PROVE Migrating'
    BY <1>26, SchemaAssumption, NobodyAssumption, NoBackupShape DEF RecordOrigin, Release,
       InSession
  <1>27. ASSUME NEW p \in Procs, CommitAdoption(p) PROVE Migrating'
    BY <1>27, SchemaAssumption, NobodyAssumption, NoBackupShape DEF CommitAdoption, Release,
       InSession
  <1>28. ASSUME NEW p \in Procs, ForgetSource(p) PROVE Migrating'
    BY <1>28, SchemaAssumption, NobodyAssumption, NoBackupShape DEF ForgetSource, Transaction,
       InSession, Row, Free
  <1>29. ASSUME NEW p \in Procs, Stop(p) PROVE Migrating'
    BY <1>29, SchemaAssumption, NobodyAssumption, NoBackupShape DEF Stop, Becomes
  <1>30. ASSUME NEW p \in Procs, Substitute(p) PROVE Migrating'
    <2> HIDE DEF Base, Control, TypeOK, Locked, Writing, Present, Connected, Sessions,
        OpeningsShaped, OpeningShape, StoreShaped, StoreShape, Migrating, Saved, Pending, Starting
    <2>1. /\ opening'[p].backup.image = opening[p].backup.image
          /\ opening'[p].backup.state \in {opening[p].backup.state, "partial", "complete", "foreign"}
          /\ opening'[p].overtaken = opening[p].overtaken
      BY <1>30 DEF Substitute, Backup, Base, OpeningsShaped, OpeningShape
    <2>2. \A q \in Procs \ {p} : opening'[q] = opening[q]
      BY <1>30 DEF Substitute, Backup, Base, OpeningsShaped
    <2>3. pc[p] \in {"reserve", "write", "verify"} /\ pc'[p] \in {"write", "verify"}
          /\ \A q \in Procs \ {p} : pc'[q] = pc[q]
      BY <1>30 DEF Substitute, Others, Base, Control, TypeOK
    <2>4. opening[p].backup # NoBackup
      BY <2>3 DEF Migrating, Saved
    <2>5. opening'[p].backup # NoBackup
      BY <2>1, <2>3, <2>4, NoBackupShape DEF Migrating, Saved
    <2>6. UNCHANGED database BY <1>30 DEF Substitute, Others
    <2>7. Saved(p)'
      BY <2>1, <2>3, <2>4, <2>5, <2>6 DEF Migrating, Saved
    <2>8. QED BY <2>2, <2>3, <2>6, <2>7 DEF Migrating, Saved, Sessions, Pending
  <1>31. ASSUME Replace PROVE Migrating'
    BY <1>31, SchemaAssumption, NobodyAssumption, NoBackupShape DEF Others, Replace
  <1>32. ASSUME EarlierBuildRegisters PROVE Migrating'
    <2> HIDE DEF Base, Control, TypeOK, Locked, Writing, Present, Connected, Sessions,
        OpeningsShaped, OpeningShape, StoreShaped, StoreShape, Migrating, Saved, Pending, Starting
    <2>1. database'.version = database.version
      BY <1>32 DEF EarlierBuildRegisters, Base, Control, StoreShaped, StoreShape
    <2>2. \A p \in Procs : /\ opening'[p].backup = opening[p].backup
                           /\ opening'[p].pending = opening[p].pending
                           /\ opening'[p].overtaken = opening[p].backup.image.there
      <3>1. \A p \in Procs : opening'[p] = [opening[p] EXCEPT !.overtaken = opening[p].backup.image.there]
        BY <1>32 DEF EarlierBuildRegisters
      <3>2. ASSUME NEW p \in Procs, NEW o, OpeningShape(o), o = opening[p], NEW n, n = opening'[p],
                   n = [o EXCEPT !.overtaken = o.backup.image.there]
            PROVE n.fresh = o.fresh /\ n.backup = o.backup /\ n.pending = o.pending
                  /\ n.overtaken = o.backup.image.there
        BY <3>2 DEF OpeningShape
      <3>3. QED BY <3>1, <3>2 DEF Base, OpeningsShaped
    <2>3. QED
      BY <1>32, <2>1, <2>2 DEF EarlierBuildRegisters, Others, Migrating, Saved, Pending,
         Sessions
  <1>33. ASSUME LaterBuildMigrates PROVE Migrating'
    BY <1>33, SchemaAssumption, NobodyAssumption, NoBackupShape DEF Others, LaterBuildMigrates,
       Free, Fresh, Row
  <1>34. ASSUME Lose PROVE Migrating'
    BY <1>34, SchemaAssumption, NobodyAssumption, NoBackupShape DEF Others, Lose, Unopened, NoDatabase
  <1>35. CASE UNCHANGED vars BY <1>35 DEF vars
  <1>36. QED
    BY <1>1, <1>2, <1>3, <1>4, <1>5, <1>6, <1>7, <1>8, <1>9, <1>10, <1>11, <1>12, <1>13,
       <1>14, <1>15, <1>16, <1>17, <1>18, <1>19, <1>20, <1>21, <1>22, <1>23, <1>24, <1>25,
       <1>26, <1>27, <1>28, <1>29, <1>30, <1>31, <1>32, <1>33, <1>34, <1>35 DEF Next, Open,
       Migrate, BackUp, Load, Register, Adopt

LEMMA OwnedStep == ASSUME Base, Base', Owned, [Next]_vars PROVE Owned'
  <1> USE DEF At, Goto, Opens, disk, world, sources, Base, Control, TypeOK, Locked, Writing,
        Present, Connected, Sessions, SessionsShaped, SessionShape, StoreShaped, StoreShape, RowShape,
        Numbered, Owned, Held, Working, NoWork
  <1>1. ASSUME NEW p \in Procs, Start(p) PROVE Owned'
    BY <1>1, EmptyShape, NobodyAssumption DEF Start
  <1>2. ASSUME NEW p \in Procs, CreateDirectory(p) PROVE Owned'
    BY <1>2, EmptyShape, NobodyAssumption DEF CreateDirectory
  <1>3. ASSUME NEW p \in Procs, LookForDatabase(p) PROVE Owned'
    BY <1>3, EmptyShape, NobodyAssumption DEF LookForDatabase, Becomes
  <1>4. ASSUME NEW p \in Procs, Connect(p) PROVE Owned'
    BY <1>4, EmptyShape, NobodyAssumption DEF Connect, Becomes
  <1>5. ASSUME NEW p \in Procs, ConnectFails(p) PROVE Owned'
    BY <1>5, EmptyShape, NobodyAssumption DEF ConnectFails, Fails, Becomes
  <1>6. ASSUME NEW p \in Procs, BeginMigration(p) PROVE Owned'
    BY <1>6, EmptyShape, NobodyAssumption DEF BeginMigration, Hold
  <1>7. ASSUME NEW p \in Procs, Busy(p) PROVE Owned'
    BY <1>7, EmptyShape, NobodyAssumption DEF Busy, Fails, Becomes, Free
  <1>8. ASSUME NEW p \in Procs, ReadVersion(p) PROVE Owned'
    BY <1>8, EmptyShape, NobodyAssumption DEF ReadVersion, Becomes, Release, PendingNow, Pending
  <1>9. ASSUME NEW p \in Procs, CommitMigration(p) PROVE Owned'
    BY <1>9, EmptyShape, NobodyAssumption DEF CommitMigration, Becomes, Release
  <1>10. ASSUME NEW p \in Procs, RollBack(p) PROVE Owned'
    BY <1>10, EmptyShape, NobodyAssumption DEF RollBack, Release, Fails, Becomes
  <1>11. ASSUME NEW p \in Procs, Snapshot(p) PROVE Owned'
    BY <1>11, EmptyShape, NobodyAssumption DEF Snapshot, BacksUp
  <1>12. ASSUME NEW p \in Procs, ReserveBackup(p) PROVE Owned'
    BY <1>12, EmptyShape, NobodyAssumption DEF ReserveBackup, BacksUp, Backup
  <1>13. ASSUME NEW p \in Procs, WriteBackup(p) PROVE Owned'
    BY <1>13, EmptyShape, NobodyAssumption DEF WriteBackup, BacksUp, Backup
  <1>14. ASSUME NEW p \in Procs, VerifyBackup(p) PROVE Owned'
    BY <1>14, EmptyShape, NobodyAssumption DEF VerifyBackup, BacksUp
  <1>15. ASSUME NEW p \in Procs, BackupFails(p) PROVE Owned'
    BY <1>15, EmptyShape, NobodyAssumption DEF BackupFails, Fails, Becomes
  <1>16. ASSUME NEW p \in Procs, LoadRow(p) PROVE Owned'
    BY <1>16, EmptyShape, NobodyAssumption DEF LoadRow, Reads, InSession, Row
  <1>17. ASSUME NEW p \in Procs, InspectCheckout(p) PROVE Owned'
    BY <1>17, EmptyShape, NobodyAssumption DEF InspectCheckout, Reads, InSession
  <1>18. ASSUME NEW p \in Procs, RefuseRow(p) PROVE Owned'
    BY <1>18, EmptyShape, NobodyAssumption DEF RefuseRow, HandOut, Reads, InSession
  <1>19. ASSUME NEW p \in Procs, AcceptRow(p) PROVE Owned'
    BY <1>19, EmptyShape, NobodyAssumption DEF AcceptRow, HandOut, HandedOut, Transaction,
       InSession, Row, Free
  <1>20. ASSUME NEW p \in Procs, PreviewSource(p) PROVE Owned'
    BY <1>20, EmptyShape, NobodyAssumption DEF PreviewSource, Reads, InSession
  <1>21. ASSUME NEW p \in Procs, RevalidatePreview(p) PROVE Owned'
    <2>1. CASE UNCHANGED session
      BY <1>21, <2>1 DEF RevalidatePreview, Reads, InSession, TypeOK, Base, Control, Owned,
         Numbered, Held, Working
    <2>2. CASE session' = [session EXCEPT ![p].saw = None] /\ pc' = [pc EXCEPT ![p] = "ready"]
      BY <1>21, <2>2 DEF RevalidatePreview, Reads, InSession, TypeOK, SessionsShaped,
         SessionShape, Base, Control, Owned, Numbered, Held, Working
    <2>3. QED BY <1>21, <2>1, <2>2 DEF RevalidatePreview
  <1>22. ASSUME NEW p \in Procs, RegisterSource(p) PROVE Owned'
    BY <1>22, EmptyShape, NobodyAssumption DEF RegisterSource, Transaction, InSession, Row,
       Fresh, Free
  <1>23. ASSUME NEW p \in Procs, RefuseSource(p) PROVE Owned'
    BY <1>23, EmptyShape, NobodyAssumption DEF RefuseSource, Reads, InSession
  <1>24. ASSUME NEW p \in Procs, PlanAdoption(p) PROVE Owned'
    BY <1>24, EmptyShape, NobodyAssumption DEF PlanAdoption, Reads, InSession
  <1>25. ASSUME NEW p \in Procs, GuardAdoption(p) PROVE Owned'
    <2>1. CASE StillRegistered(p) /\ pc' = [pc EXCEPT ![p] = "record"]
      BY <1>25, <2>1 DEF GuardAdoption, InSession, StillRegistered, Row, TypeOK, Base, Control,
         Owned, Numbered, Held, Working
    <2>2. CASE pc' = [pc EXCEPT ![p] = "ready"]
      BY <1>25, <2>2 DEF GuardAdoption, InSession, TypeOK, Base, Control, Owned, Numbered, Held,
         Working
    <2>3. QED BY <1>25, <2>1, <2>2 DEF GuardAdoption
  <1>26. ASSUME NEW p \in Procs, RecordOrigin(p) PROVE Owned'
    BY <1>26, EmptyShape, NobodyAssumption DEF RecordOrigin, Release, InSession
  <1>27. ASSUME NEW p \in Procs, CommitAdoption(p) PROVE Owned'
    BY <1>27, EmptyShape, NobodyAssumption DEF CommitAdoption, Release, InSession
  <1>28. ASSUME NEW p \in Procs, ForgetSource(p) PROVE Owned'
    BY <1>28, EmptyShape, NobodyAssumption DEF ForgetSource, Transaction, InSession, Row, Free
  <1>29. ASSUME NEW p \in Procs, Stop(p) PROVE Owned'
    BY <1>29, EmptyShape, NobodyAssumption DEF Stop, Becomes
  <1>30. ASSUME NEW p \in Procs, Substitute(p) PROVE Owned'
    BY <1>30, EmptyShape, NobodyAssumption DEF Substitute, Others, Backup
  <1>31. ASSUME Replace PROVE Owned'
    BY <1>31, EmptyShape, NobodyAssumption DEF Others, Replace
  <1>32. ASSUME EarlierBuildRegisters PROVE Owned'
    BY <1>32, EmptyShape, NobodyAssumption DEF Others, EarlierBuildRegisters, Free, Fresh, Row
  <1>33. ASSUME LaterBuildMigrates PROVE Owned'
    BY <1>33, EmptyShape, NobodyAssumption DEF Others, LaterBuildMigrates, Free, Fresh, Row
  <1>34. ASSUME Lose PROVE Owned'
    BY <1>34, EmptyShape, NobodyAssumption DEF Others, Lose, Unopened, NoDatabase
  <1>35. CASE UNCHANGED vars BY <1>35 DEF vars
  <1>36. QED
    BY <1>1, <1>2, <1>3, <1>4, <1>5, <1>6, <1>7, <1>8, <1>9, <1>10, <1>11, <1>12, <1>13,
       <1>14, <1>15, <1>16, <1>17, <1>18, <1>19, <1>20, <1>21, <1>22, <1>23, <1>24, <1>25,
       <1>26, <1>27, <1>28, <1>29, <1>30, <1>31, <1>32, <1>33, <1>34, <1>35 DEF Next, Open,
       Migrate, BackUp, Load, Register, Adopt

LEMMA InitGone == Init => Gone
  <1> SUFFICES ASSUME Init PROVE Gone OBVIOUS
  <1>1. directory \in BOOLEAN /\ (database # NoDatabase => directory) BY DEF Init
  <1>2. lost = FALSE /\ pc = [p \in Procs |-> "off"] /\ opening = [p \in Procs |-> Starting]
    BY DEF Init
  <1>3. ~NoDatabase.there /\ ~Starting.fresh /\ ~Starting.create BY DEF NoDatabase, Starting
  <1>4. QED BY <1>1, <1>2, <1>3 DEF Gone

LEMMA InitMigrating == Init => Migrating
  <1> SUFFICES ASSUME Init, NEW p \in Procs PROVE /\ pc[p] = "off" /\ opening[p].backup = NoBackup
    BY DEF Migrating, Saved, Sessions
  <1>1. QED BY DEF Init, Starting

LEMMA InitOwned == Init => Owned
  <1> SUFFICES ASSUME Init PROVE Owned OBVIOUS
  <1>1. database.baseline = None /\ (database.row = NoRow \/ database.row.id = 1)
    <2>1. ASSUME NEW v \in 0 .. Newest,
                 database = [Empty EXCEPT !.version = v, !.steps = Through(v)]
          PROVE database.baseline = None /\ database.row = NoRow
      BY <2>1, EmptyShape
    <2>2. ASSUME NEW v \in 1 .. Newest, NEW c \in Checkouts,
                 database = [Empty EXCEPT !.version = v, !.steps = Through(v),
                   !.row = [id |-> 1, head |-> c, ident |-> IF v < Identified THEN None ELSE c]]
          PROVE database.baseline = None /\ database.row.id = 1
      BY <2>2, EmptyShape
    <2>3. CASE database = NoDatabase BY <2>3, EmptyShape
    <2>4. QED BY <2>1, <2>2, <2>3 DEF Init
  <1>2. nextId = database.row.id + 1 /\ registered = {database.row.ident} \ {None} BY DEF Init
  <1>3. Numbered BY <1>1, <1>2, EmptyShape DEF Numbered, Held
  <1>4. ASSUME NEW p \in Procs PROVE Working(p)
    <2>1. session[p].source = NoRow /\ session[p].row = NoRow /\ pc[p] = "off"
      BY DEF Init, NoWork
    <2>2. QED BY <1>1, <1>2, <2>1, EmptyShape DEF Working, Held
  <1>5. QED BY <1>3, <1>4 DEF Owned

(* What is pending takes the count of steps from one version to the next. *)
LEMMA AppliedThrough ==
  ASSUME NEW v \in 0 .. Newest + 1, NEW w \in 0 .. Newest + 1, v <= w, NEW more,
         more = {s \in 1 .. w : s > v}
  PROVE  Applied(Through(v), more) = Through(w)
  <1>1. ASSUME NEW s \in 1 .. Newest + 1
        PROVE Through(v)[s] + (IF s \in more THEN 1 ELSE 0) = IF s <= w THEN 1 ELSE 0
    BY SchemaAssumption DEF Through
  <1>2. QED BY <1>1 DEF Applied, Through

StepsCounted == database.steps = Through(database.version)

LEMMA InitSteps == Init => StepsCounted
  <1> SUFFICES ASSUME Init PROVE StepsCounted OBVIOUS
  <1>1. ASSUME NEW v \in 0 .. Newest, database = [Empty EXCEPT !.version = v, !.steps = Through(v)]
        PROVE StepsCounted
    BY <1>1, EmptyShape DEF StepsCounted
  <1>2. ASSUME NEW v \in 1 .. Newest, NEW c \in Checkouts,
               database = [Empty EXCEPT !.version = v, !.steps = Through(v),
                 !.row = [id |-> 1, head |-> c, ident |-> IF v < Identified THEN None ELSE c]]
        PROVE StepsCounted
    BY <1>2, EmptyShape DEF StepsCounted
  <1>3. CASE database = NoDatabase BY <1>3, EmptyShape DEF StepsCounted
  <1>4. QED BY <1>1, <1>2, <1>3 DEF Init

LEMMA GoneHolds == Spec => []Gone
  <1>1. QED BY InitGone, GoneStep, BaseHolds, PTL DEF Spec

LEMMA MigratingHolds == Spec => []Migrating
  <1>1. QED BY InitMigrating, MigratingStep, BaseHolds, PTL DEF Spec

LEMMA OwnedHolds == Spec => []Owned
  <1>1. QED BY InitOwned, OwnedStep, BaseHolds, PTL DEF Spec

-----------------------------------------------------------------------------
(* Theorems *)

(* Whoever opens, migrates, loads and stops in whatever order, the store's    *)
(* variables have their types.                                                *)
THEOREM TypeCorrect == Spec => []TypeOK
  BY BaseHolds, PTL DEF Base, Control

(* A start that found no application-data directory, and has not connected.   *)
FirstLaunch(p) == pc[p] = "create" \/ opening[p].fresh

GoneForGood == lost /\ ~database.there /\ \A p \in Procs : ~FirstLaunch(p)

(* A database that is gone is not made again, however many processes are      *)
(* starting when it vanishes and whatever starts after, unless one of them    *)
(* had found no directory: only such a start may create one (Store::open).    *)
THEOREM LostIsNotMadeAgain == Spec => [](GoneForGood => []~database.there)
  <1>1. ASSUME Base, Gone, GoneForGood, [Next]_vars PROVE GoneForGood'
    <2> USE DEF GoneForGood, FirstLaunch, Gone, At, Goto, Opens, Becomes, Starting, disk, world
    <2>1. \A p \in Procs : pc[p] \in Unopened /\ pc[p] # "create"
      BY <1>1 DEF Base, Control, Present, Connected, Sessions, Unopened, TypeOK, Labels
    <2>2. DOMAIN pc = Procs /\ DOMAIN opening = Procs
      BY <1>1 DEF Base, Control, TypeOK, OpeningsShaped
    <2>3. ASSUME NEW p \in Procs, Open(p) PROVE GoneForGood'
      <3>1. CASE Start(p) BY <1>1, <2>1, <2>2, <3>1 DEF Start
      <3>2. CASE LookForDatabase(p) BY <1>1, <2>1, <2>2, <3>2 DEF LookForDatabase
      <3>3. CASE ConnectFails(p) BY <1>1, <2>1, <2>2, <3>3 DEF ConnectFails, Fails
      <3>4. ~Connect(p) /\ ~CreateDirectory(p)
        BY <1>1, <2>1 DEF Connect, MayCreate, CreateDirectory
      <3>5. QED BY <2>3, <3>1, <3>2, <3>3, <3>4 DEF Open
    <2>4. ASSUME NEW p \in Procs, Stop(p) PROVE GoneForGood'
      BY <1>1, <2>1, <2>2, <2>4 DEF Stop
    <2>5. ASSUME NEW p \in Procs
          PROVE ~(Migrate(p) \/ BackUp(p) \/ Load(p) \/ Register(p) \/ Adopt(p) \/ Substitute(p))
      BY <2>1 DEF Unopened, Migrate, BackUp, Load, Register, Adopt, Substitute, BeginMigration, Busy,
         ReadVersion, CommitMigration, RollBack, Snapshot, ReserveBackup, WriteBackup, VerifyBackup,
         BackupFails, LoadRow, InspectCheckout, RefuseRow, AcceptRow, PreviewSource,
         RevalidatePreview, RegisterSource, RefuseSource, PlanAdoption, GuardAdoption, RecordOrigin,
         CommitAdoption
    <2>6. ASSUME NEW p \in Procs PROVE ~ForgetSource(p)
      BY <2>1 DEF Unopened, ForgetSource
    <2>7. CASE Replace BY <1>1, <2>7 DEF Replace, Others
    <2>8. ~EarlierBuildRegisters /\ ~LaterBuildMigrates /\ ~Lose
      BY <1>1 DEF EarlierBuildRegisters, LaterBuildMigrates, Lose
    <2>9. CASE UNCHANGED vars BY <1>1, <2>9 DEF vars
    <2>10. QED BY <1>1, <2>3, <2>4, <2>5, <2>6, <2>7, <2>8, <2>9 DEF Next
  <1>2. GoneForGood => ~database.there
    BY DEF GoneForGood
  <1>3. QED BY <1>1, <1>2, BaseHolds, GoneHolds, PTL DEF Spec

(* Whoever opens and migrates the store, and however often it is interrupted,  *)
(* a database went through every schema step up to its version exactly once:  *)
(* the version is read under the lock under which the pending steps are       *)
(* applied.  Whoever makes one began before there was one to lose, and saw    *)
(* none when it looked (migrate_with, Store::open).                           *)
THEOREM DatabaseMadeOnce == Spec => DatabaseIsMadeOnce
  <1> USE DEF Base, Control, StoreShaped, StoreShape, StepsCounted
  <1>1. ASSUME Base, Migrating, StepsCounted, [Next]_vars PROVE StepsCounted'
    <2>1. CASE UNCHANGED database BY <1>1, <2>1
    <2>2. ASSUME NEW p \in Procs, Connect(p) PROVE StepsCounted'
      BY <1>1, <2>2, EmptyShape DEF Connect
    <2>3. ASSUME NEW p \in Procs, CommitMigration(p) PROVE StepsCounted'
      <3>1. /\ opening[p].pending = Pending /\ database.version <= Newest
            /\ database.version \in 0 .. Newest + 1
        BY <1>1, <2>3 DEF CommitMigration, At, Migrating, TypeOK
      <3>2. /\ database'.version = Newest
            /\ database'.steps = Applied(database.steps, opening[p].pending)
        BY <1>1, <2>3 DEF CommitMigration
      <3>3. Applied(Through(database.version), Pending) = Through(Newest)
        BY <3>1, AppliedThrough, SchemaAssumption DEF Pending
      <3>4. QED BY <1>1, <3>1, <3>2, <3>3
    <2>4. ASSUME NEW p \in Procs, AcceptRow(p) PROVE StepsCounted'
      BY <1>1, <2>4 DEF AcceptRow, InSession, Row, RowShape
    <2>5. ASSUME NEW p \in Procs, RegisterSource(p) PROVE StepsCounted'
      BY <1>1, <2>5 DEF RegisterSource
    <2>6. ASSUME NEW p \in Procs, CommitAdoption(p) PROVE StepsCounted'
      BY <1>1, <2>6 DEF CommitAdoption
    <2>7. ASSUME NEW p \in Procs, ForgetSource(p) PROVE StepsCounted'
      BY <1>1, <2>7 DEF ForgetSource
    <2>8. CASE EarlierBuildRegisters BY <1>1, <2>8 DEF EarlierBuildRegisters
    <2>9. CASE LaterBuildMigrates
      <3>1. database.version = Newest /\ database'.version = Newest + 1
            /\ database'.steps = Applied(database.steps, {Newest + 1})
        BY <1>1, <2>9 DEF LaterBuildMigrates
      <3>2. {Newest + 1} = {s \in 1 .. Newest + 1 : s > Newest} BY SchemaAssumption
      <3>3. Applied(Through(Newest), {Newest + 1}) = Through(Newest + 1)
        BY <3>2, AppliedThrough, SchemaAssumption
      <3>4. QED BY <1>1, <3>1, <3>3
    <2>10. CASE Lose BY <2>10, EmptyShape DEF Lose
    <2>11. QED
      BY <1>1, <2>1, <2>2, <2>3, <2>4, <2>5, <2>6, <2>7, <2>8, <2>9, <2>10
      DEF Next, Open, Migrate, BackUp, Load, Register, Adopt, vars, disk, Start, CreateDirectory,
          LookForDatabase, ConnectFails, BeginMigration, Busy, ReadVersion, RollBack, Fails, BacksUp,
          Snapshot, ReserveBackup, WriteBackup, VerifyBackup, BackupFails, Reads, LoadRow,
          InspectCheckout, RefuseRow, PreviewSource, RevalidatePreview, RefuseSource, PlanAdoption,
          GuardAdoption, RecordOrigin, Stop, Substitute, Replace
  <1>2. Spec => []StepsCounted
    BY <1>1, InitSteps, BaseHolds, MigratingHolds, PTL DEF Spec
  <1> DEFINE Unknowing == \A p \in Procs :
               ~database.there /\ database'.there /\ pc'[p] # pc[p] => ~opening[p].known
  <1>3. ASSUME Base, Gone, [Next]_vars PROVE Unknowing
    <2>1. SUFFICES ASSUME ~database.there, database'.there PROVE Unknowing
      OBVIOUS
    <2>2. database' # database
      BY <2>1
    <2>3. ASSUME NEW p \in Procs, Connect(p) PROVE Unknowing
      <3>1. opening[p].create /\ ~opening[p].known /\ \A q \in Procs \ {p} : pc'[q] = pc[q]
        BY <1>3, <2>1, <2>3 DEF Connect, MayCreate, Gone, Becomes, Goto, TypeOK
      <3>2. QED BY <3>1
    <2>4. ~\E p \in Procs : CommitMigration(p) \/ AcceptRow(p) \/ RegisterSource(p) \/ CommitAdoption(p)
                           \/ ForgetSource(p)
      BY <1>3, <2>1 DEF CommitMigration, AcceptRow, RegisterSource, CommitAdoption, ForgetSource, At,
         Present, Connected, Sessions
    <2>5. ~EarlierBuildRegisters /\ ~LaterBuildMigrates /\ ~Lose
      BY <2>1 DEF EarlierBuildRegisters, LaterBuildMigrates, Lose
    <2>6. QED
      BY <1>3, <2>2, <2>3, <2>4, <2>5
      DEF Next, Open, Migrate, BackUp, Load, Register, Adopt, vars, disk, Start, CreateDirectory,
          LookForDatabase, ConnectFails, BeginMigration, Busy, ReadVersion, RollBack, Fails, BacksUp,
          Snapshot, ReserveBackup, WriteBackup, VerifyBackup, BackupFails, Reads, LoadRow,
          InspectCheckout, RefuseRow, PreviewSource, RevalidatePreview, RefuseSource, PlanAdoption,
          GuardAdoption, RecordOrigin, Stop, Substitute, Replace
  <1>4. StepsCounted' <=> database'.steps = Through(database'.version)
    BY DEF StepsCounted, Through
  <1>5. QED BY <1>2, <1>3, <1>4, BaseHolds, GoneHolds, PTL DEF Spec, DatabaseIsMadeOnce

(* Nobody changes the schema between a process's last reading of the version  *)
(* and its commit, so what the commit rebuilds is what its backup holds, up   *)
(* to what an earlier build wrote (migrate_with, backup_database).            *)
THEOREM BackupsPrecede == Spec => BackupPrecedesDestruction
  <1> DEFINE Good == \A p \in Procs : Destroys(p) =>
               /\ opening[p].backup.state = "complete"
               /\ opening[p].overtaken \/ opening[p].backup.image = database
  <1>1. ASSUME Base, Migrating, [Next]_vars PROVE Good
    <2> SUFFICES ASSUME NEW p \in Procs, Destroys(p)
                 PROVE /\ opening[p].backup.state = "complete"
                       /\ opening[p].overtaken \/ opening[p].backup.image = database
      OBVIOUS
    <2>1. PICK v \in Destructive : database.version < v /\ v <= database'.version
      BY DEF Destroys
    <2>2. /\ v \in Nat /\ database.version \in Nat /\ v <= Newest
          /\ pc[p] = "apply" /\ lock = p /\ database.there
      BY <1>1, <2>1, SchemaAssumption
      DEF Destroys, At, Base, Control, TypeOK, Locked, Writing, Present, Connected
    <2>3. database'.version = database.version => FALSE BY <2>1, <2>2
    <2>4. v \in Pending \cap Destructive BY <2>1, <2>2, SchemaAssumption DEF Pending
    <2>5. database.version < Newest BY <2>1, <2>2, SchemaAssumption
    <2>6. opening[p].backup # NoBackup BY <1>1, <2>2, <2>4 DEF Migrating
    <2>7. QED BY <1>1, <2>2, <2>5, <2>6, SchemaAssumption DEF Migrating, Saved
  <1>2. QED BY <1>1, BaseHolds, MigratingHolds, PTL DEF Spec, BackupPrecedesDestruction

(* Re-registration, forgetting and adoption all pass through the writer slot, *)
(* and numbers are not used twice: a baseline stays what it is and with the   *)
(* registration it was adopted for (register_source, record_origin).          *)
THEOREM BaselinesStay == Spec => BaselinesAreNotTransferred
  <1> DEFINE Kept == database.baseline # None /\ database'.baseline # None =>
        /\ database'.baseline = database.baseline
        /\ database'.row.id = database.row.id /\ database'.row.ident = database.row.ident
  <1> USE DEF Base, Control, StoreShaped, StoreShape
  <1>1. ASSUME Base, Owned, [Next]_vars PROVE Kept
    <2> SUFFICES ASSUME database.baseline # None, database'.baseline # None PROVE Kept
      OBVIOUS
    <2>1. database.row.id # 0 /\ database.row # NoRow
      BY <1>1, EmptyShape DEF Owned, Numbered
    <2>2. CASE UNCHANGED database BY <2>2
    <2>3. ASSUME NEW p \in Procs, Connect(p) PROVE Kept
      BY <1>1, <2>3, EmptyShape DEF Connect
    <2>4. ASSUME NEW p \in Procs, CommitMigration(p) PROVE Kept
      BY <1>1, <2>4 DEF CommitMigration
    <2>5. ASSUME NEW p \in Procs, AcceptRow(p) PROVE Kept
      BY <1>1, <2>5 DEF AcceptRow, InSession, Row, RowShape
    <2>6. ASSUME NEW p \in Procs, RegisterSource(p) PROVE Kept
      BY <1>1, <2>1, <2>6 DEF RegisterSource, MayReplace, Row
    <2>7. ASSUME NEW p \in Procs, CommitAdoption(p) PROVE Kept
      BY <1>1, <2>7 DEF CommitAdoption, At, Owned, Working
    <2>8. ASSUME NEW p \in Procs, ForgetSource(p) PROVE Kept
      BY <2>8 DEF ForgetSource
    <2>9. CASE EarlierBuildRegisters
      BY <2>1, <2>9 DEF EarlierBuildRegisters, Fresh, Row
    <2>10. CASE LaterBuildMigrates BY <1>1, <2>10 DEF LaterBuildMigrates
    <2>11. CASE Lose BY <2>11, EmptyShape DEF Lose
    <2>12. QED
      BY <1>1, <2>2, <2>3, <2>4, <2>5, <2>6, <2>7, <2>8, <2>9, <2>10, <2>11
      DEF Next, Open, Migrate, BackUp, Load, Register, Adopt, vars, disk, Start, CreateDirectory,
          LookForDatabase, ConnectFails, BeginMigration, Busy, ReadVersion, RollBack, Fails, BacksUp,
          Snapshot, ReserveBackup, WriteBackup, VerifyBackup, BackupFails, Reads, LoadRow,
          InspectCheckout, RefuseRow, PreviewSource, RevalidatePreview, RefuseSource, PlanAdoption,
          GuardAdoption, RecordOrigin, Stop, Substitute, Replace
  <1>2. QED BY <1>1, BaseHolds, OwnedHolds, PTL DEF Spec, BaselinesAreNotTransferred

(* A checkout that only stands where the registered one was is never adopted, *)
(* though it hold the recorded commit (load_sources_on).                      *)
THEOREM AdoptedWereRegistered == Spec => []AdoptedCheckoutsWereRegistered
  BY OwnedHolds, PTL DEF Owned, Numbered, AdoptedCheckoutsWereRegistered

=============================================================================
