-------------------------- MODULE SqliteSettingsStore --------------------------
(***************************************************************************)
(* The sandbox bot's settings store over one SQLite database that several  *)
(* processes share.  Opening it brings its schema up to date, and every    *)
(* write is a conditional statement, each in an immediate transaction: one *)
(* that takes SQLite's write lock at once, or gives up when another process*)
(* holds it for longer than the busy timeout.  A process may die between   *)
(* any two steps; SQLite then rolls its transaction back.                  *)
(*                                                                         *)
(* node:sqlite is synchronous: a process does one thing at a time.         *)
(***************************************************************************)
EXTENDS Naturals, Sequences

CONSTANTS
    Processes,          \* the processes that open the database
    NoProcess,
    RecordKeys,         \* (guildId, moduleId) pairs
    Migrations          \* the length of SQLITE_MIGRATIONS

ASSUME ProcessAssumption == NoProcess \notin Processes
ASSUME MigrationsAssumption == Migrations \in Nat \ {0}

VARIABLES
    database,           \* what is committed: user_version, the schema, the rows
    lock,               \* the process that holds the write lock
    draft,              \* the database as its transaction has changed it
    connection          \* connection[p]: where p stands with its database

sqliteVars == <<database, lock, draft, connection>>

Port == INSTANCE SettingsStore
            WITH Writers <- Processes, Copies <- {}, records <- database.rows

Absent == Port!Absent
NoCall == [kind |-> "none", key |-> NoProcess, expected |-> 0, record |-> Absent]
Closed == [at |-> "closed", step |-> 0, call |-> NoCall, result |-> "none"]

At(p) == connection[p].at
Becomes(p, c) == connection' = [connection EXCEPT ![p] = c]

(* A database some earlier build left at one of its schemas.               *)
SqliteInit(version, rows) ==
    /\ version = 0 => \A k \in RecordKeys : rows[k] = Absent
    /\ database = [version |-> version, schema |-> [i \in 1 .. version |-> i], rows |-> rows]
    /\ lock = NoProcess
    /\ draft = database
    /\ connection = [p \in Processes |-> Closed]

-------------------------------------------------------------------------------
(* Transactions.                                                           *)
Begin(p) ==
    /\ lock = NoProcess
    /\ lock' = p
    /\ draft' = database
    /\ UNCHANGED database

Commit(p, changed) ==
    /\ lock = p
    /\ database' = changed
    /\ draft' = changed
    /\ lock' = NoProcess

Rollback(p) ==
    /\ lock = p
    /\ lock' = NoProcess
    /\ draft' = database
    /\ UNCHANGED database

Ready(c, result) == [c EXCEPT !.at = "ready", !.step = 0, !.call = NoCall, !.result = result]
Unopened == [Closed EXCEPT !.result = "failed"]

-------------------------------------------------------------------------------
(* createSqliteSettingsStore: migrate reads user_version in its transaction*)
(* and runs the steps from there.                                          *)
Open(p) ==
    /\ At(p) = "closed" /\ connection[p].result = "none"
    /\ Becomes(p, [Closed EXCEPT !.at = "opening"])
    /\ UNCHANGED <<database, lock, draft>>

BeginMigration(p) ==
    /\ At(p) = "opening"
    /\ Begin(p)
    /\ Becomes(p, [connection[p] EXCEPT !.at = "migrating", !.step = database.version])

(* Faulty: each step is committed on its own.                              *)
RunStepAlone(p) ==
    LET step == connection[p].step + 1 IN
    /\ At(p) = "migrating" /\ step <= Migrations
    /\ \A i \in DOMAIN draft.schema : draft.schema[i] # step
    /\ draft' = [draft EXCEPT !.schema = Append(@, step)]
    /\ database' = draft'
    /\ Becomes(p, [connection[p] EXCEPT !.step = step])
    /\ UNCHANGED lock

(* A step that finds what it creates already there fails.                  *)
RunStep(p) ==
    LET step == connection[p].step + 1 IN
    /\ At(p) = "migrating" /\ step <= Migrations
    /\ \A i \in DOMAIN draft.schema : draft.schema[i] # step
    /\ draft' = [draft EXCEPT !.schema = Append(@, step)]
    /\ Becomes(p, [connection[p] EXCEPT !.step = step])
    /\ UNCHANGED <<database, lock>>

EndMigration(p) ==
    /\ At(p) = "migrating" /\ connection[p].step >= Migrations
    /\ Commit(p, [draft EXCEPT !.version = Migrations])
    /\ Becomes(p, Ready(connection[p], "none"))

(* A statement of the migration, or its commit, throws.                    *)
FailMigration(p) ==
    /\ At(p) = "migrating"
    /\ Rollback(p)
    /\ Becomes(p, Unopened)

-------------------------------------------------------------------------------
(* write and delete.                                                       *)
Call(p, kind, k, expected, record) ==
    /\ At(p) = "ready"
    /\ Becomes(p, [connection[p] EXCEPT !.at = "calling", !.result = "none",
                       !.call = [kind |-> kind, key |-> k, expected |-> expected, record |-> record]])
    /\ UNCHANGED <<database, lock, draft>>

BeginWrite(p) ==
    /\ At(p) = "calling" /\ connection[p].call.kind = "write"
    /\ Begin(p)
    /\ Becomes(p, [connection[p] EXCEPT !.at = "writing"])

(* Faulty: a create replaces the row that holds its key.                   *)
InsertOrReplace(p) ==
    LET call == connection[p].call IN
    /\ At(p) = "writing"
    /\ call.expected = 0 \/ draft.rows[call.key].revision = call.expected
    /\ draft' = [draft EXCEPT !.rows[call.key] = call.record]
    /\ Becomes(p, [connection[p] EXCEPT !.at = "written"])
    /\ UNCHANGED <<database, lock>>

(* INSERT ... ON CONFLICT DO NOTHING, or UPDATE ... WHERE revision = ?.    *)
ChangeRow(p) ==
    LET call == connection[p].call IN
    /\ At(p) = "writing"
    /\ draft.rows[call.key].revision = call.expected
    /\ draft' = [draft EXCEPT !.rows[call.key] = call.record]
    /\ Becomes(p, [connection[p] EXCEPT !.at = "written"])
    /\ UNCHANGED <<database, lock>>

(* No row changed: the transaction is rolled back, with a ConflictError.   *)
Conflict(p) ==
    /\ At(p) = "writing"
    /\ draft.rows[connection[p].call.key].revision # connection[p].call.expected
    /\ Rollback(p)
    /\ Becomes(p, Ready(connection[p], "conflict"))

EndWrite(p) ==
    /\ At(p) = "written"
    /\ Commit(p, draft)
    /\ Becomes(p, Ready(connection[p], "committed"))

(* The statement or the commit fails (a full disk, an I/O error).          *)
FailWrite(p) ==
    /\ At(p) \in {"writing", "written"}
    /\ Rollback(p)
    /\ Becomes(p, Ready(connection[p], "failed"))

(* One statement, a transaction of its own.                                *)
DeleteRow(p) ==
    /\ At(p) = "calling" /\ connection[p].call.kind = "delete"
    /\ lock = NoProcess
    /\ database' = [database EXCEPT !.rows[connection[p].call.key] = Absent]
    /\ draft' = database'
    /\ Becomes(p, Ready(connection[p], "committed"))
    /\ UNCHANGED lock

(* The lock is not free within the busy timeout.                           *)
Busy(p) ==
    /\ lock \notin {p, NoProcess}
    /\ \/ /\ At(p) = "opening"
          /\ Becomes(p, Unopened)
       \/ /\ At(p) = "calling"
          /\ Becomes(p, Ready(connection[p], "failed"))
    /\ UNCHANGED <<database, lock, draft>>

(* The process ends, and may be started again.                             *)
Die(p) ==
    /\ connection' = [connection EXCEPT ![p] = Closed]
    /\ lock' = IF lock = p THEN NoProcess ELSE lock
    /\ draft' = IF lock = p THEN database ELSE draft
    /\ UNCHANGED database

Sqlite(p) ==
    \/ BeginMigration(p)
    \/ RunStep(p)
    \/ EndMigration(p)
    \/ FailMigration(p)
    \/ BeginWrite(p)
    \/ ChangeRow(p)
    \/ Conflict(p)
    \/ EndWrite(p)
    \/ FailWrite(p)
    \/ DeleteRow(p)
    \/ Busy(p)

===============================================================================
