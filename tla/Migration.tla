------------------------------ MODULE Migration ------------------------------
(***************************************************************************)
(* db-migrator (cmd/db-migrator): a task goes through the databases in     *)
(* their order, creates what is missing, and applies the SQL files of its  *)
(* image that table schema_migrations does not name, each in a transaction *)
(* with the row that names it.  PostgreSQL alone keeps two tasks apart,    *)
(* and a task may be started while another is still running.               *)
(***************************************************************************)
EXTENDS Naturals, Sequences

CONSTANTS
    Tasks,         \* runs of the migrator
    NumDatabases,  \* databases, numbered in the order of migrationTargets
    Releases,      \* releases of the image
    Files,         \* by release and database: its files, in the order of their names
    FirstReleases, \* releases that may be in place before the first task
    NoRelease           \* no release

Databases == 1 .. NumDatabases

\* A file is its version, which is its name, and the checksum of its contents.
AllFiles == UNION {{Files[r][d][i] : i \in DOMAIN Files[r][d]} : r \in Releases, d \in Databases}

ASSUME MigrationAssumption ==
    /\ NumDatabases \in Nat \ {0}
    /\ FirstReleases \subseteq Releases
    /\ NoRelease \notin Releases
    /\ \A r \in Releases, d \in Databases :
          /\ Files[r][d] \in Seq(AllFiles)
          /\ \A i, j \in DOMAIN Files[r][d] :
                Files[r][d][i].version = Files[r][d][j].version => i = j

VARIABLES
    exists,    \* the databases that have been created
    applied,   \* by database, the rows of schema_migrations: files
    schema,    \* by database, the files that have taken effect, in their order
    entered,   \* rows of open transactions: database, file and task
    mpc,       \* the next step of each task
    image,     \* its release
    target,    \* the database that it is at ...
    file       \* ... and the file

databases == <<exists, applied, schema, entered>>
mvars     == <<exists, applied, schema, entered, mpc, image, target, file>>

Working == {"ping", "find", "create", "open", "check", "exec", "record", "commit"}

FilesOf(t) == Files[image[t]][target[t]]
FileOf(t)  == FilesOf(t)[file[t]]

\* Nothing at all, or all of a release.
FirstSchema ==
    {[d \in Databases |-> <<>>]} \cup {[d \in Databases |-> Files[r][d]] : r \in FirstReleases}

MigrationInit ==
    /\ schema \in FirstSchema
    /\ exists = {d \in Databases : schema[d] # <<>>}
    /\ applied = [d \in Databases |-> {schema[d][i] : i \in DOMAIN schema[d]}]
    /\ entered = {}
    /\ mpc = [t \in Tasks |-> "off"]
    /\ image = [t \in Tasks |-> NoRelease]
    /\ target = [t \in Tasks |-> 1]
    /\ file = [t \in Tasks |-> 1]

Goto(t, step) == mpc' = [mpc EXCEPT ![t] = step]

\* The task ends; the transaction that it has open is rolled back.
Exit(t, how) ==
    /\ Goto(t, how)
    /\ entered' = {e \in entered : e.task # t}
    /\ target' = [target EXCEPT ![t] = 1]
    /\ file' = [file EXCEPT ![t] = 1]
    /\ UNCHANGED <<exists, applied, schema, image>>

-----------------------------------------------------------------------------
Start(t) ==
    /\ mpc[t] = "off"
    /\ Goto(t, "ping")
    /\ \E r \in Releases : image' = [image EXCEPT ![t] = r]
    /\ target' = [target EXCEPT ![t] = 1]
    /\ file' = [file EXCEPT ![t] = 1]
    /\ UNCHANGED databases

\* pingDB of the admin connection.
Ping(t) ==
    /\ mpc[t] = "ping"
    /\ Goto(t, "find")
    /\ UNCHANGED <<databases, image, target, file>>

\* ensureDatabase: is it there?
FindDatabase(t) ==
    /\ mpc[t] = "find"
    /\ Goto(t, IF target[t] \in exists THEN "open" ELSE "create")
    /\ UNCHANGED <<databases, image, target, file>>

\* ensureDatabase: CREATE DATABASE, an error if another task was faster.
CreateDatabase(t) ==
    /\ mpc[t] = "create"
    /\ \/ /\ target[t] \notin exists
          /\ exists' = exists \cup {target[t]}
          /\ Goto(t, "open")
          /\ UNCHANGED <<applied, schema, entered, image, target, file>>
       \/ /\ target[t] \in exists
          /\ Exit(t, "failed")

\* applyDatabaseMigrations: the connection, and the table of rows if need be.
OpenDatabase(t) ==
    /\ mpc[t] = "open"
    /\ Goto(t, "check")
    /\ UNCHANGED <<databases, image, target, file>>

\* Mutant of CheckFile: a file is taken by its name, whatever its checksum.
CheckFileByName(t) ==
    /\ mpc[t] = "check" /\ file[t] \in DOMAIN FilesOf(t)
    /\ \/ /\ \E f \in applied[target[t]] : f.version = FileOf(t).version
          /\ file' = [file EXCEPT ![t] = @ + 1]
          /\ UNCHANGED <<databases, mpc, image, target>>
       \/ /\ ~ \E f \in applied[target[t]] : f.version = FileOf(t).version
          /\ Goto(t, "exec")
          /\ UNCHANGED <<databases, image, target, file>>

\* applyMigrationFile: a row with the same checksum, another checksum, no row.
CheckFile(t) ==
    /\ mpc[t] = "check" /\ file[t] \in DOMAIN FilesOf(t)
    /\ \/ /\ FileOf(t) \in applied[target[t]]
          /\ file' = [file EXCEPT ![t] = @ + 1]
          /\ UNCHANGED <<databases, mpc, image, target>>
       \/ /\ \E f \in applied[target[t]] : f.version = FileOf(t).version /\ f # FileOf(t)
          /\ Exit(t, "failed")
       \/ /\ ~ \E f \in applied[target[t]] : f.version = FileOf(t).version
          /\ Goto(t, "exec")
          /\ UNCHANGED <<databases, image, target, file>>

\* The files of a database are done: the next database, or the end.
NextDatabase(t) ==
    /\ mpc[t] = "check" /\ file[t] \notin DOMAIN FilesOf(t)
    /\ \/ /\ target[t] < NumDatabases
          /\ Goto(t, "find")
          /\ target' = [target EXCEPT ![t] = @ + 1]
          /\ file' = [file EXCEPT ![t] = 1]
          /\ UNCHANGED <<databases, image>>
       \/ /\ target[t] = NumDatabases
          /\ Exit(t, "succeeded")

\* The transaction executes the file's statements.
ExecFile(t) ==
    /\ mpc[t] = "exec"
    /\ Goto(t, "record")
    /\ UNCHANGED <<databases, image, target, file>>

\* Rows of the file's version in open transactions: the INSERT waits for them.
Rivals(t) == {e \in entered : e.database = target[t] /\ e.file.version = FileOf(t).version}

Enter(t) ==
    /\ entered' = entered \cup {[database |-> target[t], file |-> FileOf(t), task |-> t]}
    /\ Goto(t, "commit")
    /\ UNCHANGED <<exists, applied, schema, image, target, file>>

\* Mutant of RecordFile: ON CONFLICT DO NOTHING.
RecordFileOnConflict(t) ==
    /\ mpc[t] = "record" /\ Rivals(t) = {}
    /\ Enter(t)

\* The INSERT into schema_migrations, whose key is the version.
RecordFile(t) ==
    /\ mpc[t] = "record" /\ Rivals(t) = {}
    /\ \/ /\ ~ \E f \in applied[target[t]] : f.version = FileOf(t).version
          /\ Enter(t)
       \/ /\ \E f \in applied[target[t]] : f.version = FileOf(t).version
          /\ Exit(t, "failed")

\* COMMIT: the file's effects and its row.  Its answer may be lost.
CommitFile(t) ==
    /\ mpc[t] = "commit"
    /\ applied' = [applied EXCEPT ![target[t]] = @ \cup {FileOf(t)}]
    /\ schema' = [schema EXCEPT ![target[t]] = Append(@, FileOf(t))]
    /\ entered' = {e \in entered : e.task # t}
    /\ \/ /\ Goto(t, "check")
          /\ file' = [file EXCEPT ![t] = @ + 1]
          /\ UNCHANGED target
       \/ /\ Goto(t, "failed")
          /\ target' = [target EXCEPT ![t] = 1]
          /\ file' = [file EXCEPT ![t] = 1]
    /\ UNCHANGED <<exists, image>>

\* Any statement may fail: an error, a statement timeout, SIGTERM, a crash.
Fail(t) ==
    /\ mpc[t] \in Working
    /\ Exit(t, "failed")

Advance(t) ==
    \/ Ping(t) \/ FindDatabase(t) \/ CreateDatabase(t) \/ OpenDatabase(t)
    \/ CheckFile(t) \/ NextDatabase(t) \/ ExecFile(t) \/ RecordFile(t) \/ CommitFile(t)

MigrationNext == \E t \in Tasks : Start(t) \/ Advance(t) \/ Fail(t)

MigrationSpec == MigrationInit /\ [][MigrationNext]_mvars

-----------------------------------------------------------------------------
\* Properties.

\* The type invariant of the tables and of the tasks.
MigrationTypeOK ==
    /\ exists \subseteq Databases
    /\ applied \in [Databases -> SUBSET AllFiles]
    /\ schema \in [Databases -> Seq(AllFiles)]
    /\ entered \subseteq [database : Databases, file : AllFiles, task : Tasks]
    /\ mpc \in [Tasks -> Working \cup {"off", "succeeded", "failed"}]
    /\ image \in [Tasks -> Releases \cup {NoRelease}]
    /\ target \in [Tasks -> Databases]
    /\ file \in [Tasks -> Nat \ {0}]

(***************************************************************************)
(* schema_migrations tells the truth: its rows are the files that have     *)
(* taken effect, and no version has taken effect twice, whatever tasks ran *)
(* at once, failed, or did not learn that they had committed.              *)
(***************************************************************************)
AppliedOnce ==
    \A d \in Databases :
        /\ \A f \in applied[d] : \E i \in DOMAIN schema[d] : schema[d][i] = f
        /\ \A i \in DOMAIN schema[d] : schema[d][i] \in applied[d]
        /\ \A i, j \in DOMAIN schema[d] :
              schema[d][i].version = schema[d][j].version => i = j

Migrated(r) ==
    \A d \in Databases : \A i \in DOMAIN Files[r][d] : Files[r][d][i] \in applied[d]

(***************************************************************************)
(* Exit code 0 means that every file of the task's own release is in, with *)
(* the contents that its image has.                                        *)
(***************************************************************************)
SuccessMeansMigrated == \A t \in Tasks : mpc[t] = "succeeded" => Migrated(image[t])

-----------------------------------------------------------------------------
\* The invariant of the proofs.

FilesIn(r, d) == \A i \in DOMAIN Files[r][d] : Files[r][d][i] \in applied[d]

\* What a task has gone past is in.
BehindIsIn ==
    \A t \in Tasks :
        /\ mpc[t] \in Working => image[t] \in Releases
        /\ mpc[t] \in Working => \A d \in Databases : d < target[t] => FilesIn(image[t], d)
        /\ mpc[t] \in Working =>
              \A i \in DOMAIN FilesOf(t) : i < file[t] => FilesOf(t)[i] \in applied[target[t]]
        /\ mpc[t] \in {"exec", "record", "commit"} => file[t] \in DOMAIN FilesOf(t)

\* A row in an open transaction is its task's, and keeps its version to itself.
EnteredIsAlone ==
    /\ \A e \in entered : /\ mpc[e.task] = "commit"
                          /\ e.database = target[e.task]
                          /\ e.file = FileOf(e.task)
                          /\ \A f \in applied[e.database] : f.version # e.file.version
    /\ \A e, g \in entered :
          (e.database = g.database /\ e.file.version = g.file.version) => e = g
    /\ \A t \in Tasks : mpc[t] = "commit" => \E e \in entered : e.task = t

MigrationInv ==
    MigrationTypeOK /\ AppliedOnce /\ SuccessMeansMigrated /\ BehindIsIn /\ EnteredIsAlone

(***************************************************************************)
(* Check-then-act on names and versions implements a history in which each *)
(* version takes effect once and in order, and 0 is said of what is there. *)
(***************************************************************************)
History == INSTANCE SchemaHistory WITH
    Tasks <- Tasks, Databases <- Databases, Releases <- Releases, Files <- Files,
    FirstSchema <- FirstSchema, None <- NoRelease, schema <- schema,
    installed <- [t \in Tasks |-> IF mpc[t] = "succeeded" THEN image[t] ELSE NoRelease]
ImplementsSchemaHistory == History!Spec
=============================================================================
