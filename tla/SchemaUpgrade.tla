--------------------------- MODULE SchemaUpgrade ---------------------------
(***************************************************************************)
(* The migration of the state database (StateStore.migrate and the         *)
(* functions it runs): one transaction under an advisory lock renames what *)
(* is still named as before, runs the statements of the schema file that   *)
(* the catalog does not show done, and records the version.  It is run by  *)
(* ingestion runs, each with the version its code has, and by the setup    *)
(* job, which an instance of the app starts when the database is behind.   *)
(*                                                                         *)
(* The schema is one table, with one column, index and constraint, and the *)
(* table and column it was renamed from.  A schema file is a sequence of   *)
(* statements on it; MigrationInit takes the two files of Files, the next  *)
(* version's after the first's, with every actor, and FileInit every file  *)
(* of at most FileLength statements with the setup job alone.              *)
(***************************************************************************)
EXTENDS Naturals, Sequences, FiniteSets, SequencesExt

CONSTANTS
  Upgraders,      \* the ingestion runs that migrate
  CodeOf,         \* upgrader -> the version of its code
  Files,          \* version (1 or 2) -> its schema file
  FileLength,     \* the statements of a file of FileInit, at most
  Checkers,       \* instances of the app, one check each
  MaxMigrations,  \* a bound: attempts of a migrator (MIGRATE_ATTEMPTS)
  MaxStops,       \* a bound: crashes
  NoActor

Setup == "setup"
Migrators == Upgraders \cup {Setup}
Latest == 2

ASSUME UpgradeAssumption ==
  /\ CodeOf \in [Upgraders -> 1..Latest]
  /\ FileLength \in Nat /\ MaxMigrations \in Nat \ {0} /\ MaxStops \in Nat
  /\ NoActor \notin Migrators \cup Checkers

VARIABLES
  schema,      \* the database: the table under its old and its new name, the version
  files,       \* version -> the schema file of the code
  schemaLock,  \* the migrator in its transaction
  migration,   \* migrator -> where its call is
  timeouts,    \* migrator -> attempts that have timed out on a table's lock
  draft,       \* what the open transaction would commit
  checkAt,     \* checker -> where its upgrade check is
  checkLock,   \* the checker with the upgrade lock
  startedBy,   \* who started the setup run that is going
  stops        \* crashes so far
upgradeVars == <<schema, files, schemaLock, migration, timeouts, draft, checkAt, checkLock, startedBy, stops>>

(***************************************************************************)
(* The table.  A column's value is its type, default and nullability, 0    *)
(* when there is no column; `stale` are rows an update has still to touch. *)
(***************************************************************************)
Contents == [made : BOOLEAN, was : 0..2, col : 0..2, index : BOOLEAN, check : BOOLEAN, stale : BOOLEAN, error : BOOLEAN]
NotMade == [made |-> FALSE, was |-> 0, col |-> 0, index |-> FALSE, check |-> FALSE, stale |-> FALSE, error |-> FALSE]

Do(op, to) == [op |-> op, to |-> to]
Statements ==
  {Do("alter", v) : v \in 1..2} \cup
  {Do(op, 0) : op \in {"create", "index", "column", "drop", "add", "update", "other"}}

ASSUME FilesAssumption == Files \in [1..Latest -> Seq(Statements)]

\* What Postgres does with a statement.  A column that is added leaves the
\* rows there are to an update; a constraint is refused on such rows and on
\* a table that has it; the one unrecognized statement drops the column.
After(table, s) ==
  LET done ==
        CASE s.op = "create" -> IF table.made THEN table ELSE [NotMade EXCEPT !.made = TRUE, !.col = 1]
          [] s.op = "index" -> [table EXCEPT !.index = TRUE]
          [] s.op = "column" -> IF table.col = 0 THEN [table EXCEPT !.col = 1, !.stale = TRUE] ELSE table
          [] s.op = "alter" -> [table EXCEPT !.col = s.to]
          [] s.op = "drop" -> [table EXCEPT !.check = FALSE]
          [] s.op = "add" -> [table EXCEPT !.check = TRUE]
          [] s.op = "update" -> [table EXCEPT !.stale = FALSE]
          [] s.op = "other" -> [table EXCEPT !.col = 0, !.index = FALSE, !.stale = FALSE]
      refused ==
        \/ s.op # "create" /\ ~table.made
        \/ s.op \in {"index", "alter", "update"} /\ table.col = 0
        \/ s.op = "add" /\ (table.check \/ table.stale)
  IN IF table.error \/ refused THEN [table EXCEPT !.error = TRUE] ELSE done

RunAll(table, file) == FoldLeft(After, table, file)

(***************************************************************************)
(* The renames still pending, and the statements the catalog does not show *)
(* done.                                                                   *)
(***************************************************************************)
\* A column's rename is judged on the table under the name it is given.
RenameStatements(old, new) ==
  LET moves == old.made /\ ~new.made
      table == IF moves THEN old ELSE new
  IN (IF moves THEN {"table"} ELSE {}) \cup
     (IF table.was # 0 /\ table.col = 0 THEN {"column"} ELSE {})

ColumnRenamed(table) == [table EXCEPT !.col = table.was, !.was = 0]

RunRenames(db, renames) ==
  LET moved == IF "table" \in renames THEN [db EXCEPT !.old = NotMade, !.new = db.old] ELSE db
  IN IF "column" \in renames THEN [moved EXCEPT !.new = ColumnRenamed(@)] ELSE moved

\* What the catalog shows done, and an update when its probe finds no row; a
\* constraint's definition can't be read from the catalog.
InPlace(s, catalog) ==
  /\ catalog.made
  /\ CASE s.op = "create" -> TRUE
       [] s.op = "index" -> catalog.index
       [] s.op = "column" -> catalog.col # 0
       [] s.op = "alter" -> catalog.col = s.to
       [] s.op = "drop" -> ~catalog.check
       [] s.op = "update" -> catalog.col # 0 /\ ~catalog.stale
       [] s.op \in {"add", "other"} -> FALSE

\* What a statement that runs changes.
Touched(s) ==
  CASE s.op = "create" -> {"table"}
    [] s.op = "index" -> {"index"}
    [] s.op \in {"column", "alter"} -> {"column"}
    [] s.op \in {"drop", "add"} -> {"check"}
    [] s.op = "update" -> {}
    [] s.op = "other" -> {"any"}

\* Mutant: what the statements before it change is forgotten.
LeftOutByCatalog(s, catalog, changed) == "any" \notin changed /\ InPlace(s, catalog)

LeftOut(s, catalog, changed) ==
  /\ "any" \notin changed
  /\ s.op = "update" \/ Touched(s) \cap changed = {}
  /\ InPlace(s, catalog)

\* The probe of an update reads the database before any statement has run.
ProbeFails(s, catalog, changed) ==
  s.op = "update" /\ "any" \notin changed /\ catalog.made /\ catalog.col = 0

PendingStatements(file, catalog) ==
  FoldLeft(LAMBDA judged, s :
             IF LeftOut(s, catalog, judged.changed)
               THEN judged
               ELSE [run |-> Append(judged.run, s),
                     changed |-> judged.changed \cup Touched(s),
                     error |-> judged.error \/ ProbeFails(s, catalog, judged.changed)],
           [run |-> <<>>, changed |-> {}, error |-> FALSE], file)

\* What a transaction of the code of a version makes of the database.
Migrated(db, version) ==
  LET renamed == RunRenames(db, RenameStatements(db.old, db.new))
      pending == PendingStatements(files[version], renamed.new)
      after == RunAll(renamed.new, pending.run)
  IN [renamed EXCEPT !.new = [after EXCEPT !.error = @ \/ pending.error],
                     !.version = IF version > @ THEN version ELSE @]

(***************************************************************************)
(* A migrator: the schema lock, the version under it, the statements, the  *)
(* commit.  The setup job is forced: it re-applies its own version.        *)
(***************************************************************************)
Code(m) == IF m = Setup THEN Latest ELSE CodeOf[m]

\* An ingestion run migrates when the version it reads first is behind.
Arrive(m) ==
  /\ migration[m] = "idle"
  /\ m # Setup
  /\ migration' = [migration EXCEPT ![m] = IF schema.version < Code(m) THEN "waits" ELSE "done"]
  /\ UNCHANGED <<schema, files, schemaLock, timeouts, draft, checkAt, checkLock, startedBy, stops>>

\* The lock is not given within SCHEMA_LOCK_WAIT_S: it gives up at once.
WaitsTooLong(m) ==
  /\ migration[m] = "waits"
  /\ schemaLock \notin {NoActor, m}
  /\ migration' = [migration EXCEPT ![m] = "gave up"]
  /\ startedBy' = IF m = Setup THEN NoActor ELSE startedBy
  /\ UNCHANGED <<schema, files, schemaLock, timeouts, draft, checkAt, checkLock, stops>>

Newer(m) == schema.version > Code(m)
NothingToDo(m) == schema.version = Code(m) /\ m # Setup

\* A statement of the transaction may meet a load that holds the table, and
\* times out.
Statement(m) ==
  LET renames == RenameStatements(schema.old, schema.new)
  IN renames # {} \/ PendingStatements(files[Code(m)], RunRenames(schema, renames).new).run # <<>>

BeginMigration(m) ==
  /\ migration[m] = "waits"
  /\ schemaLock = NoActor
  /\ schemaLock' = m
  /\ \/ /\ Newer(m) \/ NothingToDo(m)
        /\ migration' = [migration EXCEPT ![m] = "ends"]
        /\ UNCHANGED <<timeouts, draft>>
     \/ /\ ~Newer(m) /\ ~NothingToDo(m)
        /\ draft' = Migrated(schema, Code(m))
        /\ migration' = [migration EXCEPT ![m] = IF draft'.new.error THEN "ends" ELSE "applied"]
        /\ UNCHANGED timeouts
     \/ /\ ~Newer(m) /\ ~NothingToDo(m) /\ Statement(m)
        /\ timeouts' = [timeouts EXCEPT ![m] = @ + 1]
        /\ migration' = [migration EXCEPT ![m] = IF timeouts[m] + 1 < MaxMigrations THEN "backs off" ELSE "ends"]
        /\ UNCHANGED draft
  /\ UNCHANGED <<schema, files, checkAt, checkLock, startedBy, stops>>

\* The transaction's end, by a commit or a rollback, releases the lock.
EndMigration(m) ==
  /\ migration[m] \in {"applied", "backs off", "ends"}
  /\ schemaLock = m
  /\ schemaLock' = NoActor
  /\ schema' = IF migration[m] = "applied" THEN draft ELSE schema
  /\ migration' = [migration EXCEPT ![m] = IF @ = "backs off" THEN "waits" ELSE "done"]
  /\ startedBy' = IF m = Setup /\ migration[m] # "backs off" THEN NoActor ELSE startedBy
  /\ draft' = schema'
  /\ UNCHANGED <<files, timeouts, checkAt, checkLock, stops>>

\* A migrator that dies: the transaction is rolled back.
DieMigrating(m) ==
  /\ stops < MaxStops /\ stops' = stops + 1
  /\ migration[m] \in {"waits", "applied", "backs off"}
  /\ migration' = [migration EXCEPT ![m] = "done"]
  /\ schemaLock' = IF schemaLock = m THEN NoActor ELSE schemaLock
  /\ startedBy' = IF m = Setup THEN NoActor ELSE startedBy
  /\ draft' = IF schemaLock = m THEN schema ELSE draft
  /\ UNCHANGED <<schema, files, timeouts, checkAt, checkLock>>

(***************************************************************************)
(* The setup job: started by the deployment, or by an app's check, which   *)
(* reads the version, takes the upgrade lock, lists the runs going and     *)
(* starts one.  It runs one at a time (max_concurrent_runs).               *)
(***************************************************************************)
SetupStarts(who) ==
  /\ startedBy' = IF startedBy = NoActor THEN who ELSE startedBy
  /\ migration' = IF startedBy = NoActor THEN [migration EXCEPT ![Setup] = "waits"] ELSE migration
  /\ timeouts' = IF startedBy = NoActor THEN [timeouts EXCEPT ![Setup] = 0] ELSE timeouts

Deploy ==
  /\ migration[Setup] = "idle"
  /\ SetupStarts(Setup)
  /\ UNCHANGED <<schema, files, schemaLock, draft, checkAt, checkLock, stops>>

GoTo(c, where) == checkAt' = [checkAt EXCEPT ![c] = where]

DatabaseVersion(c) ==
  /\ checkAt[c] = "idle"
  /\ GoTo(c, IF schema.version \in 1..(Latest - 1) THEN "behind" ELSE "done")
  /\ UNCHANGED <<schema, files, schemaLock, migration, timeouts, draft, checkLock, startedBy, stops>>

TryLock(c) ==
  /\ checkAt[c] = "behind"
  /\ checkLock' = IF checkLock = NoActor THEN c ELSE checkLock
  /\ GoTo(c, IF checkLock = NoActor THEN "locked" ELSE "done")
  /\ UNCHANGED <<schema, files, schemaLock, migration, timeouts, draft, startedBy, stops>>

ActiveRuns(c) ==
  /\ checkAt[c] = "locked"
  /\ GoTo(c, IF startedBy = NoActor THEN "listed" ELSE "unlocks")
  /\ UNCHANGED <<schema, files, schemaLock, migration, timeouts, draft, checkLock, startedBy, stops>>

\* run_now may fail; the lock is released all the same.
RunNow(c) ==
  /\ checkAt[c] = "listed"
  /\ GoTo(c, "unlocks")
  /\ SetupStarts(c) \/ UNCHANGED <<migration, timeouts, startedBy>>
  /\ UNCHANGED <<schema, files, schemaLock, draft, checkLock, stops>>

Unlock(c) ==
  /\ checkAt[c] = "unlocks"
  /\ GoTo(c, "done")
  /\ checkLock' = IF checkLock = c THEN NoActor ELSE checkLock
  /\ UNCHANGED <<schema, files, schemaLock, migration, timeouts, draft, startedBy, stops>>

\* An instance stops, its session's lock with it, and checks when it is back.
RestartChecker(c) ==
  /\ stops < MaxStops /\ stops' = stops + 1
  /\ checkAt[c] # "idle"
  /\ GoTo(c, "idle")
  /\ checkLock' = IF checkLock = c THEN NoActor ELSE checkLock
  /\ UNCHANGED <<schema, files, schemaLock, migration, timeouts, draft, startedBy>>

-----------------------------------------------------------------------------
SchemaOf(old, new, version) == [old |-> old, new |-> new, version |-> version]
TableWith(was, col, index, check, stale) ==
  [NotMade EXCEPT !.made = TRUE, !.was = was, !.col = col, !.index = index, !.check = check, !.stale = stale]

\* A table has the column under one of its names, or neither; only a table
\* with the column has an index on it, and only rows have an update to come.
Tables0 == {t \in {TableWith(w, c, i, k, s) : w \in 0..1, c \in 0..2, i, k, s \in BOOLEAN} :
             /\ t.was = 0 \/ t.col = 0
             /\ t.index => t.col # 0 \/ t.was # 0
             /\ t.stale => t.col # 0 /\ ~t.check}

Quiet ==
  /\ schemaLock = NoActor /\ checkLock = NoActor
  /\ draft = schema

MigrationInit ==
  /\ schema \in {SchemaOf(TableWith(1, 0, FALSE, FALSE, FALSE), NotMade, 0),
                 SchemaOf(NotMade, TableWith(0, 0, FALSE, FALSE, FALSE), 0),
                 SchemaOf(NotMade, RunAll(NotMade, Files[1]), 1)}
  /\ files = Files
  /\ migration = [m \in Migrators |-> "idle"]
  /\ checkAt = [c \in Checkers |-> "idle"]
  /\ startedBy = NoActor
  /\ timeouts = [m \in Migrators |-> 0] /\ stops = 0
  /\ Quiet

FileInit ==
  /\ schema \in {SchemaOf(old, new, 1) : old \in {NotMade, TableWith(1, 0, FALSE, FALSE, FALSE)}, new \in Tables0 \cup {NotMade}}
  /\ files \in {[v \in 1..Latest |-> f] : f \in BoundedSeq(Statements, FileLength)}
  /\ migration = [m \in Migrators |-> IF m = Setup THEN "waits" ELSE "done"]
  /\ checkAt = [c \in Checkers |-> "done"]
  /\ startedBy = Setup
  /\ timeouts = [m \in Migrators |-> MaxMigrations - 1] /\ stops = MaxStops
  /\ Quiet

UpgradeNext ==
  \/ \E m \in Migrators :
       Arrive(m) \/ WaitsTooLong(m) \/ BeginMigration(m) \/ EndMigration(m) \/ DieMigrating(m)
  \/ Deploy
  \/ \E c \in Checkers :
       DatabaseVersion(c) \/ TryLock(c) \/ ActiveRuns(c) \/ RunNow(c) \/ Unlock(c) \/ RestartChecker(c)

-----------------------------------------------------------------------------
UpgradeTypeOK ==
  /\ schema \in [old : Contents, new : Contents, version : 0..Latest]
  /\ draft \in [old : Contents, new : Contents, version : 0..Latest]
  /\ schemaLock \in Migrators \cup {NoActor}
  /\ migration \in [Migrators -> {"idle", "waits", "applied", "backs off", "ends", "gave up", "done"}]
  /\ timeouts \in [Migrators -> 0..MaxMigrations]
  /\ checkAt \in [Checkers -> {"idle", "behind", "locked", "listed", "unlocks", "done"}]
  /\ checkLock \in Checkers \cup {NoActor}
  /\ startedBy \in Checkers \cup {Setup, NoActor}

\* The table as a reader of the schema file expects it: under its new name,
\* its column too, with every statement of the file run in order.
AsWritten(db, version) ==
  LET table == IF db.old.made /\ ~db.new.made THEN db.old ELSE db.new
      named == IF table.was # 0 /\ table.col = 0 THEN ColumnRenamed(table) ELSE table
  IN RunAll(named, files[version])

\* Statements left out as done never change what a migration leaves, however
\* they follow each other, and a version is only followed by a later one or
\* by itself: what is committed is what a code at least as new wrote.
MigratedAsWritten ==
  [][schema' # schema =>
       \E version \in 1..Latest :
         /\ version >= schema.version
         /\ schema'.version = version
         /\ schema'.new = AsWritten(schema, version)]_upgradeVars

\* Two instances that find the database behind start one setup run: no check
\* starts a run while one that a check has started goes.
SetupOnce ==
  [][\A c \in Checkers :
       checkAt[c] = "listed" /\ checkAt'[c] = "unlocks" => startedBy \in {NoActor, Setup}]_upgradeVars
=============================================================================
