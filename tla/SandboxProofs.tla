----------------------------- MODULE SandboxProofs -----------------------------
(***************************************************************************)
(* Proofs about Sandbox, for any number of bot processes, any modules,     *)
(* records, commands and migrations.                                       *)
(*                                                                         *)
(* The database: whoever holds SQLite's write lock is the only one whose   *)
(* draft differs from what is committed, and only as far as its own step   *)
(* has come; so a commit is one change of the database, checked against it.*)
(* The copy: a record is untouched, converged or the bot's, and nothing is *)
(* told of one before that holds for good.  The deployment, the events and *)
(* the assembly each keep an invariant of their own.                       *)
(***************************************************************************)
EXTENDS Sandbox, SequenceTheorems, FiniteSetTheorems, TLAPS

(* Modules as they can be declared and built: lists are lists, and a part  *)
(* is one of the parts there are.                                          *)
IsList(s) == s \in Seq(ToSet(s))
WellFormed(modules) ==
    /\ IsList(modules)
    /\ \A m \in ToSet(modules) :
          /\ IsList(m.settings) /\ "parts" \in DOMAIN m
          /\ DOMAIN m.parts \subseteq MODULE_PARTS /\ DOMAIN m.built \subseteq MODULE_PARTS
          /\ IsList(PartOf(m.parts, "events")) /\ IsList(PartOf(m.built, "events"))

(* The records found, and those the bot writes: no record is the only one  *)
(* of revision 0.                                                          *)
Found == UNION {Range(Scenarios[i].source) \cup Range(Scenarios[i].target) : i \in DOMAIN Scenarios}
Records == Found \cup {Absent} \cup [revision : Nat \ {0}, by : Bots]

(* The instances: modules are well formed, the database found is no newer  *)
(* than the programs, and what the JSON store holds are records.           *)
Instances ==
    /\ \A i \in DOMAIN Scenarios :
          /\ WellFormed(Scenarios[i].modules)
          /\ Scenarios[i].versions \subseteq 0 .. Migrations
          /\ DOMAIN Scenarios[i].source \subseteq RecordKeys
          /\ \A k \in DOMAIN Scenarios[i].source : Scenarios[i].source[k] # Absent
          /\ Scenarios[i].target \in [RecordKeys -> Found]
          /\ Scenarios[i].calls \in Nat
    /\ \A r \in Found : r = Absent \/ r.revision \in Nat \ {0}

Calls == [kind : {"write", "delete"}, key : RecordKeys, expected : Nat, record : Records]
Connections ==
    [at : {"closed", "opening", "migrating", "ready", "calling", "writing", "written"},
     step : Nat, call : Calls \cup {NoCall},
     result : {"none", "failed", "conflict", "committed"}]
Databases == [version : 0 .. Migrations, schema : Seq(Nat), rows : [RecordKeys -> Records]]

StoreTypeOK ==
    /\ scenario \in DOMAIN Scenarios
    /\ database \in Databases /\ draft \in Databases
    /\ lock \in Processes \cup {NoProcess}
    /\ connection \in [Processes -> Connections]

(* A process holds the lock exactly while it is in a transaction.          *)
LockHeld == \A p \in Processes : lock = p <=> At(p) \in {"migrating", "writing", "written"}

(* The schema that the first n migrations make.                            *)
Made(n) == [i \in 1 .. n |-> i]

(* What a transaction has changed so far.                                  *)
Drafted ==
    /\ lock = NoProcess => draft = database
    /\ \A p \in Processes :
          /\ At(p) = "migrating" =>
                /\ connection[p].step \in database.version .. Migrations
                /\ draft.rows = database.rows /\ draft.schema = Made(connection[p].step)
          /\ At(p) = "writing" => draft = database
          /\ At(p) = "written" =>
                /\ draft = [database EXCEPT !.rows[connection[p].call.key] = connection[p].call.record]
                /\ database.rows[connection[p].call.key].revision = connection[p].call.expected

(* Who calls for what: the bot its own records, the copy one of the JSON   *)
(* store's.                                                                *)
Asked ==
    \A p \in Processes : At(p) \in {"calling", "writing", "written"} =>
        LET call == connection[p].call IN
        /\ call \in Calls
        /\ At(p) # "calling" => call.kind = "write"
        /\ \/ p \in Bots /\ (call.kind = "write" => call.record = [revision |-> call.expected + 1, by |-> p])
           \/ /\ p = COPY /\ call.kind = "write" /\ call.expected = 0
              /\ call.key \in DOMAIN Source /\ call.record = Source[call.key]

StoreInv == Instances /\ StoreTypeOK /\ LockHeld /\ Drafted /\ Asked /\ SchemaWhole

-------------------------------------------------------------------------------
(* A record the bot left alone is as it was found, or copied; and once it  *)
(* is what the copy is to make of it, the copy does not change it again.   *)
Converged(k) == k \in touched \/ database.rows[k] = IF Target[k] = Absent THEN Source[k] ELSE Target[k]
FoundOrCopied ==
    \A k \in RecordKeys :
        \/ k \in touched
        \/ database.rows[k] = Target[k]
        \/ k \in DOMAIN Source /\ Converged(k)

CopyTypeOK ==
    /\ copying \in [at : {"none", "next", "writing", "stopped", "done"}, left : SUBSET DOMAIN Source,
                    copied : SUBSET DOMAIN Source, skipped : SUBSET DOMAIN Source]
    /\ touched \subseteq RecordKeys

(* Each record of the JSON store is to be copied, was, was skipped, or is  *)
(* the one whose write is under way or has just been answered.             *)
InHand ==
    /\ copying.left \cap (copying.copied \cup copying.skipped) = {}
    /\ copying.copied \cap copying.skipped = {}
    /\ copying.at \in {"next", "done"} => Handled = {}
    /\ copying.at = "done" => copying.left = {}
    /\ At(COPY) \in {"calling", "writing", "written"} => copying.at = "writing"
    /\ copying.at = "writing" => \E k \in DOMAIN Source :
          /\ Handled = {k}
          /\ \/ At(COPY) \in {"calling", "writing", "written"} /\ connection[COPY].call.key = k
             \/ At(COPY) = "ready" /\ connection[COPY].result = "failed"
             \/ At(COPY) = "ready" /\ connection[COPY].result \in {"committed", "conflict"} /\ Converged(k)

CopyInv ==
    /\ FoundOrCopied /\ CopyTypeOK /\ InHand
    /\ \A k \in copying.copied \cup copying.skipped : Converged(k)

(* What a deployment is to put, and has put.                               *)
Declared == {r \in Registered(Built) : r.command.body}
ToPut == {Global} \cup UNION {r.command.guilds : r \in Declared}
DeployInv ==
    /\ scopes = [s \in Scopes |-> scopes[s]]
    /\ deployment \in [pc : {"idle", "putting", "failed", "done"}, commands : {{}, Declared}, left : SUBSET ToPut]
    /\ \A s \in Scopes : scopes[s] \in {Stale, MeantFor(s)} /\ (s \notin ToPut => scopes[s] = Stale)
    /\ deployment.pc \in {"putting", "done"} =>
          /\ deployment.commands = Declared
          /\ \A s \in Scopes \cap (ToPut \ deployment.left) : scopes[s] = MeantFor(s)
    /\ deployment.pc = "done" => deployment.left = {}

(* An event is only let through to a module that is set up, and one heard  *)
(* once is let through once.                                               *)
EventInv ==
    /\ DOMAIN ran = DOMAIN handling /\ listeners \subseteq DOMAIN handling
    /\ \A l \in DOMAIN handling :
          /\ l[1] \in DOMAIN status /\ ran[l] \in Nat
          /\ handling[l] # "idle" \/ ran[l] > 0 => status[l[1]] = "ready"
          /\ EventOf(Built, l).once =>
                /\ ran[l] <= 1
                /\ l \in listeners \/ handling[l] = "gate" => ran[l] = 0
                /\ l \in listeners => handling[l] = "idle"

(* A refusal names a module at fault; nothing is made of modules that a    *)
(* check refuses, and nothing subscribes for it.                           *)
RefusalErrors == {"ModuleRegistrationError", "DuplicateModuleError"}
Refusals(modules) == [error : RefusalErrors, by : {i \in DOMAIN modules : AtFault(modules, i)}]

AssemblyInv ==
    /\ DOMAIN bot = Assembling
    /\ \A p \in Assembling :
          /\ bot[p].at \in {"assembled", "created"} => AssembleModules(Modules) = <<>>
          /\ bot[p].at = "created" => BuildRefused(Modules) = <<>>
          /\ bot[p].at = "refused" => bot[p].refusal \in Seq(Refusals(Modules)) \ {<<>>}
          /\ bot[p].subscribed <=> bot[p].at \in {"assembled", "created"}

-------------------------------------------------------------------------------
LEMMA RecordFacts ==
    ASSUME Instances
    PROVE  /\ Absent \in Records /\ Absent.revision = 0
           /\ \A r \in Records : r.revision \in Nat /\ (r.revision = 0 => r = Absent)
           /\ \A i \in DOMAIN Scenarios :
                 /\ Scenarios[i].target \in [RecordKeys -> Records]
                 /\ \A k \in DOMAIN Scenarios[i].source :
                       Scenarios[i].source[k] \in Records /\ Scenarios[i].source[k].revision # 0
<1>1. Absent.revision = 0 /\ Absent \in Records
  BY DEF Absent, Port!Absent, Records
<1>2. \A r \in Records : r.revision \in Nat /\ (r.revision = 0 => r = Absent)
  BY <1>1 DEF Records, Instances
<1>3. ASSUME NEW i \in DOMAIN Scenarios, NEW k \in DOMAIN Scenarios[i].source
      PROVE  Scenarios[i].source[k] \in Found
  BY DEF Found, Range
<1>4. ASSUME NEW i \in DOMAIN Scenarios, NEW k \in DOMAIN Scenarios[i].source
      PROVE  Scenarios[i].source[k] \in Records /\ Scenarios[i].source[k].revision # 0
  BY <1>2, <1>3 DEF Instances, Records
<1>5. \A i \in DOMAIN Scenarios : Scenarios[i].target \in [RecordKeys -> Records]
  BY DEF Instances, Records
<1> QED BY <1>1, <1>2, <1>4, <1>5

(* The schema grows by one migration at a time.                            *)
LEMMA MadeFacts ==
    ASSUME NEW n \in Nat
    PROVE  /\ Made(n) \in Seq(Nat) /\ Len(Made(n)) = n
           /\ Append(Made(n), n + 1) = Made(n + 1)
<1>1. Made(n) \in Seq(Nat) /\ Len(Made(n)) = n
  BY DEF Made
<1>2. Append(Made(n), n + 1) = Made(n + 1)
  BY <1>1 DEF Made
<1> QED BY <1>1, <1>2

LEMMA ConnectionFacts ==
    /\ Closed \in Connections /\ Unopened \in Connections
    /\ Closed.at = "closed" /\ Unopened.at = "closed"
    /\ \A c \in Connections, result \in {"none", "failed", "conflict", "committed"} :
          /\ Ready(c, result) \in Connections
          /\ Ready(c, result).at = "ready" /\ Ready(c, result).result = result
<1>1. Closed \in Connections /\ Closed.at = "closed"
  BY DEF Closed, Connections
<1>2. Unopened \in Connections /\ Unopened.at = "closed"
  BY DEF Closed, Unopened, Connections
<1>3. ASSUME NEW c \in Connections, NEW result \in {"none", "failed", "conflict", "committed"}
      PROVE  /\ Ready(c, result) \in Connections
             /\ Ready(c, result).at = "ready" /\ Ready(c, result).result = result
  BY DEF Ready, Connections
<1> QED BY <1>1, <1>2, <1>3

-------------------------------------------------------------------------------
(* What SQLite does for a process is one step of that process's own, and   *)
(* of the lock, the draft and the database if it holds or takes the lock.  *)
LEMMA StoreInit == Instances /\ Init => StoreInv
<1> SUFFICES ASSUME Instances, Init PROVE StoreInv
  OBVIOUS
<1>1. PICK v \in Scenarios[scenario].versions : SqliteInit(v, Target)
  BY DEF Init
<1>2. /\ scenario \in DOMAIN Scenarios /\ v \in 0 .. Migrations /\ v \in Nat
      /\ Target \in [RecordKeys -> Records]
  BY RecordFacts, MigrationsAssumption DEF Init, Instances, Target
<1>3. /\ database = [version |-> v, schema |-> Made(v), rows |-> Target]
      /\ draft = database /\ lock = NoProcess
      /\ connection = [p \in Processes |-> Closed]
  BY <1>1 DEF SqliteInit, Made
<1>4. database \in Databases
  BY <1>2, <1>3, MadeFacts DEF Databases
<1>5. StoreTypeOK
  BY <1>2, <1>3, <1>4, ConnectionFacts DEF StoreTypeOK
<1>6. \A p \in Processes : At(p) = "closed"
  BY <1>3, ConnectionFacts DEF At
<1>7. LockHeld
  BY <1>3, <1>6, ProcessAssumption DEF LockHeld
<1>8. Drafted
  BY <1>3, <1>6 DEF Drafted
<1>9. Asked
  BY <1>6 DEF Asked
<1>10. SchemaWhole
  BY <1>3, <1>6 DEF SchemaWhole, Made
<1> QED BY <1>5, <1>7, <1>8, <1>9, <1>10 DEF StoreInv

(* A step that only concerns where one process stands, outside of any      *)
(* transaction before and after.                                           *)
LEMMA OutsideStep ==
    ASSUME StoreInv, NEW p \in Processes, NEW c \in Connections, Becomes(p, c),
           UNCHANGED <<database, lock, draft, scenario>>,
           At(p) \in {"closed", "opening", "ready", "calling"},
           \/ c.at \in {"closed", "opening"}
           \/ At(p) \in {"ready", "calling"} /\ c.at \in {"ready", "calling"},
           c.at = "calling" =>
               /\ c.call \in Calls
               /\ \/ p \in Bots /\ (c.call.kind = "write" =>
                                        c.call.record = [revision |-> c.call.expected + 1, by |-> p])
                  \/ /\ p = COPY /\ c.call.kind = "write" /\ c.call.expected = 0
                     /\ c.call.key \in DOMAIN Source /\ c.call.record = Source[c.call.key]
    PROVE  StoreInv'
<1>1. /\ connection' = [connection EXCEPT ![p] = c]
      /\ connection'[p] = c /\ \A q \in Processes \ {p} : connection'[q] = connection[q]
  BY DEF Becomes, StoreInv, StoreTypeOK
<1>2. StoreTypeOK'
  BY <1>1 DEF StoreInv, StoreTypeOK
<1>3. LockHeld'
  BY <1>1 DEF StoreInv, LockHeld, At
<1>4. Drafted'
  BY <1>1 DEF StoreInv, Drafted, At
<1>5. Asked'
  BY <1>1 DEF StoreInv, Asked, At, Source
<1>6. SchemaWhole'
  BY <1>1 DEF StoreInv, SchemaWhole, At
<1> QED BY <1>2, <1>3, <1>4, <1>5, <1>6 DEF StoreInv

(* A process that takes the free lock starts from what is committed.       *)
LEMMA BeginStep ==
    ASSUME StoreInv, NEW p \in Processes, NEW c \in Connections, Becomes(p, c), Begin(p),
           UNCHANGED scenario,
           \/ c.at = "migrating" /\ c.step = database.version
           \/ /\ At(p) = "calling" /\ connection[p].call.kind = "write"
              /\ c = [connection[p] EXCEPT !.at = "writing"]
    PROVE  StoreInv'
<1>1. /\ connection' = [connection EXCEPT ![p] = c]
      /\ connection'[p] = c /\ \A q \in Processes \ {p} : connection'[q] = connection[q]
      /\ lock = NoProcess /\ lock' = p /\ draft' = database /\ database' = database
  BY DEF Becomes, Begin, StoreInv, StoreTypeOK
<1>2. c.at = "writing" => c.call = connection[p].call
  BY DEF StoreInv, StoreTypeOK, Connections
<1>3. c.at \in {"migrating", "writing"}
  BY DEF StoreInv, StoreTypeOK, Connections
<1>4. database \in Databases /\ database.version \in 0 .. Migrations /\ database.version \in Nat
      /\ database.schema = Made(database.version)
  BY MigrationsAssumption DEF StoreInv, StoreTypeOK, Databases, SchemaWhole, Made
<1>5. StoreTypeOK'
  BY <1>1 DEF StoreInv, StoreTypeOK
<1>6. \A q \in Processes : At(q) \notin {"migrating", "writing", "written"}
  BY <1>1, ProcessAssumption DEF StoreInv, LockHeld
<1>7. LockHeld'
  BY <1>1, <1>3, <1>6, ProcessAssumption DEF LockHeld, At
<1>8. Drafted'
  <2>1. c.at = "migrating" => c.step \in database.version .. Migrations
    BY <1>2, <1>3, <1>4, MigrationsAssumption DEF StoreInv, StoreTypeOK, Connections
  <2>2. c.at # "written"
    BY <1>3
  <2>3. c.at = "migrating" => c.step = database.version
    BY DEF StoreInv, StoreTypeOK, Connections
  <2> QED BY <1>1, <1>4, <1>6, <2>1, <2>2, <2>3, ProcessAssumption DEF Drafted, At
<1>9. Asked'
  BY <1>1, <1>2, <1>3 DEF StoreInv, Asked, At, Source
<1>10. SchemaWhole'
  <2>1. c.at = "writing" => database.version = Migrations
    BY <1>3 DEF StoreInv, SchemaWhole, StoreTypeOK, Connections
  <2> QED BY <1>1, <1>3, <2>1 DEF StoreInv, SchemaWhole, At
<1> QED BY <1>5, <1>7, <1>8, <1>9, <1>10 DEF StoreInv

(* A step within a transaction changes the draft of the one process.       *)
LEMMA WithinStep ==
    ASSUME StoreInv, NEW p \in Processes, NEW c \in Connections, Becomes(p, c), lock = p,
           UNCHANGED <<database, lock, scenario>>, draft' \in Databases,
           \/ /\ At(p) = "migrating" /\ c.at = "migrating"
              /\ c.step \in database.version .. Migrations
              /\ draft'.rows = database.rows /\ draft'.schema = Made(c.step)
           \/ /\ At(p) = "writing" /\ c.at = "written" /\ c.call = connection[p].call
              /\ draft' = [database EXCEPT !.rows[c.call.key] = c.call.record]
              /\ database.rows[c.call.key].revision = c.call.expected
    PROVE  StoreInv'
<1>1. /\ connection' = [connection EXCEPT ![p] = c]
      /\ connection'[p] = c /\ \A q \in Processes \ {p} : connection'[q] = connection[q]
  BY DEF Becomes, StoreInv, StoreTypeOK
<1>2. StoreTypeOK'
  BY <1>1 DEF StoreInv, StoreTypeOK
<1>3. \A q \in Processes \ {p} : At(q) \notin {"migrating", "writing", "written"}
  BY DEF StoreInv, LockHeld
<1>4. LockHeld'
  BY <1>1 DEF StoreInv, LockHeld, At
<1>5. Drafted'
  BY <1>1, <1>3, ProcessAssumption DEF Drafted, At
<1>6. Asked'
  BY <1>1 DEF StoreInv, Asked, At, Source
<1>7. SchemaWhole'
  BY <1>1 DEF StoreInv, SchemaWhole, At
<1> QED BY <1>2, <1>4, <1>5, <1>6, <1>7 DEF StoreInv

(* A transaction ends: what was committed is the database of everyone, and *)
(* what was rolled back never was.                                         *)
LEMMA EndTransactionStep ==
    ASSUME StoreInv, NEW p \in Processes, NEW c \in Connections, Becomes(p, c),
           lock = p \/ (lock = NoProcess /\ At(p) = "calling"),
           lock' = NoProcess, draft' = database', UNCHANGED scenario,
           database' \in Databases, c.at \in {"closed", "ready"},
           \/ /\ database'.version = database.version /\ database'.schema = database.schema
              /\ (c.at = "closed" \/ At(p) \in {"calling", "writing", "written"})
           \/ database'.version = Migrations /\ database'.schema = Made(Migrations)
    PROVE  StoreInv'
<1>1. /\ connection' = [connection EXCEPT ![p] = c]
      /\ connection'[p] = c /\ \A q \in Processes \ {p} : connection'[q] = connection[q]
  BY DEF Becomes, StoreInv, StoreTypeOK
<1>2. StoreTypeOK'
  BY <1>1 DEF StoreInv, StoreTypeOK
<1>3. \A q \in Processes \ {p} : At(q) \notin {"migrating", "writing", "written"}
  BY ProcessAssumption DEF StoreInv, LockHeld
<1>4. LockHeld'
  BY <1>1, <1>3, ProcessAssumption DEF LockHeld, At
<1>5. Drafted'
  BY <1>1, <1>3 DEF Drafted, At
<1>6. Asked'
  BY <1>1 DEF StoreInv, Asked, At, Source
<1>7. SchemaWhole'
  BY <1>1 DEF StoreInv, SchemaWhole, At, Made
<1> QED BY <1>2, <1>4, <1>5, <1>6, <1>7 DEF StoreInv

LEMMA StoreTypes ==
    ASSUME StoreInv, NEW p \in Processes
    PROVE  /\ connection[p] \in Connections /\ At(p) = connection[p].at
           /\ database \in Databases /\ draft \in Databases
           /\ database.version \in Nat /\ Migrations \in Nat
           /\ connection[p].step \in Nat
BY MigrationsAssumption DEF StoreInv, StoreTypeOK, At, Connections, Databases

(* Whatever SQLite does for a process, by itself or for the store.         *)
LEMMA SqliteKeeps ==
    ASSUME StoreInv, NEW p \in Processes, Sqlite(p), UNCHANGED scenario
    PROVE  StoreInv'
<1>0. /\ connection[p] \in Connections /\ At(p) = connection[p].at
      /\ database \in Databases /\ draft \in Databases
      /\ database.version \in Nat /\ Migrations \in Nat
      /\ connection[p].step \in Nat
  BY StoreTypes
<1>1. CASE BeginMigration(p)
  <2>1. PICK c : c = [connection[p] EXCEPT !.at = "migrating", !.step = database.version]
    OBVIOUS
  <2>2. c \in Connections /\ c.at = "migrating" /\ c.step = database.version
    BY <1>0, <2>1 DEF Connections
  <2> QED BY <1>1, <2>1, <2>2, BeginStep DEF BeginMigration
<1>2. CASE RunStep(p)
  <2>1. PICK step : step = connection[p].step + 1
    OBVIOUS
  <2>2. PICK c : c = [connection[p] EXCEPT !.step = step]
    OBVIOUS
  <2>3. /\ At(p) = "migrating" /\ step <= Migrations
        /\ draft' = [draft EXCEPT !.schema = Append(@, step)]
        /\ Becomes(p, c) /\ UNCHANGED <<database, lock>>
    BY <1>2, <2>1, <2>2 DEF RunStep
  <2>4. /\ connection[p].step \in database.version .. Migrations
        /\ draft.rows = database.rows /\ draft.schema = Made(connection[p].step)
    BY <2>3 DEF StoreInv, Drafted
  <2>5. step \in Nat /\ step \in database.version .. Migrations
    BY <1>0, <2>1, <2>3, <2>4
  <2>6. Append(Made(connection[p].step), step) = Made(step) /\ Made(step) \in Seq(Nat)
    BY <1>0, <2>1, <2>5, MadeFacts
  <2>7. draft' \in Databases /\ draft'.rows = database.rows /\ draft'.schema = Made(step)
    BY <1>0, <2>3, <2>4, <2>6 DEF Databases
  <2>8. c \in Connections /\ c.at = "migrating" /\ c.step = step
    BY <1>0, <2>2, <2>3, <2>5 DEF Connections
  <2>9. lock = p
    BY <2>3 DEF StoreInv, LockHeld
  <2> QED BY <2>3, <2>5, <2>7, <2>8, <2>9, WithinStep
<1>3. CASE EndMigration(p)
  <2>1. /\ At(p) = "migrating" /\ connection[p].step >= Migrations /\ lock = p
        /\ database' = [draft EXCEPT !.version = Migrations]
        /\ draft' = database' /\ lock' = NoProcess
        /\ Becomes(p, Ready(connection[p], "none"))
    BY <1>3 DEF EndMigration, Commit
  <2>2. connection[p].step = Migrations /\ draft.schema = Made(Migrations)
    BY <1>0, <2>1 DEF StoreInv, Drafted
  <2>3. database' \in Databases /\ database'.version = Migrations /\ database'.schema = Made(Migrations)
    <3>1. Migrations \in 0 .. Migrations
      BY <1>0
    <3> QED BY <1>0, <2>1, <2>2, <3>1 DEF Databases
  <2> QED BY <1>0, <2>1, <2>3, ConnectionFacts, EndTransactionStep
<1>4. CASE FailMigration(p)
  BY <1>0, <1>4, ConnectionFacts, EndTransactionStep DEF FailMigration, Rollback
<1>5. CASE BeginWrite(p)
  <2>1. PICK c : c = [connection[p] EXCEPT !.at = "writing"]
    OBVIOUS
  <2>2. c \in Connections
    BY <1>0, <2>1 DEF Connections
  <2> QED BY <1>5, <2>1, <2>2, BeginStep DEF BeginWrite
<1>6. CASE ChangeRow(p)
  <2>1. PICK c : c = [connection[p] EXCEPT !.at = "written"]
    OBVIOUS
  <2>2. c \in Connections /\ c.at = "written" /\ c.call = connection[p].call
    BY <1>0, <2>1 DEF Connections
  <2>3. /\ At(p) = "writing" /\ draft = database /\ lock = p
        /\ Becomes(p, c) /\ UNCHANGED <<database, lock>>
        /\ draft.rows[c.call.key].revision = c.call.expected
        /\ draft' = [draft EXCEPT !.rows[c.call.key] = c.call.record]
    BY <1>6, <2>1, <2>2 DEF ChangeRow, StoreInv, Drafted, LockHeld
  <2>4. c.call \in Calls
    BY <2>2, <2>3 DEF StoreInv, Asked
  <2>5. draft' \in Databases
    BY <1>0, <2>3, <2>4 DEF Databases, Calls
  <2> QED BY <2>2, <2>3, <2>5, WithinStep
<1>7. CASE Conflict(p) \/ FailWrite(p)
  BY <1>0, <1>7, ConnectionFacts, EndTransactionStep DEF Conflict, FailWrite, Rollback
<1>8. CASE EndWrite(p)
  <2>1. /\ At(p) = "written" /\ lock = p
        /\ database' = draft /\ draft' = database' /\ lock' = NoProcess
        /\ Becomes(p, Ready(connection[p], "committed"))
    BY <1>8 DEF EndWrite, Commit
  <2>2. draft.version = database.version /\ draft.schema = database.schema
    BY <1>0, <2>1 DEF StoreInv, Drafted, Databases
  <2> QED BY <1>0, <2>1, <2>2, ConnectionFacts, EndTransactionStep
<1>9. CASE DeleteRow(p)
  <2>1. /\ At(p) = "calling" /\ lock = NoProcess /\ lock' = NoProcess
        /\ database' = [database EXCEPT !.rows[connection[p].call.key] = Absent]
        /\ draft' = database'
        /\ Becomes(p, Ready(connection[p], "committed"))
    BY <1>9 DEF DeleteRow
  <2>2. connection[p].call.key \in RecordKeys /\ Absent \in Records
    BY <2>1, RecordFacts DEF StoreInv, Asked, Calls
  <2>3. /\ database' \in Databases
        /\ database'.version = database.version /\ database'.schema = database.schema
    BY <1>0, <2>1, <2>2 DEF Databases
  <2> QED BY <1>0, <2>1, <2>3, ConnectionFacts, EndTransactionStep
<1>10. CASE Busy(p)
  BY <1>0, <1>10, ConnectionFacts, OutsideStep DEF Busy
<1> QED BY <1>1, <1>2, <1>3, <1>4, <1>5, <1>6, <1>7, <1>8, <1>9, <1>10 DEF Sqlite

(* A process that dies while it holds the lock leaves what was committed.  *)
LEMMA DieKeeps ==
    ASSUME StoreInv, NEW p \in Processes, Die(p), UNCHANGED scenario
    PROVE  StoreInv'
<1>0. /\ connection[p] \in Connections /\ At(p) = connection[p].at
      /\ database \in Databases /\ Becomes(p, Closed)
      /\ Closed \in Connections /\ Closed.at = "closed"
  BY StoreTypes, ConnectionFacts DEF Die, Becomes
<1>1. CASE lock = p
  BY <1>0, <1>1, EndTransactionStep DEF Die
<1>2. CASE lock # p
  <2>1. At(p) \in {"closed", "opening", "ready", "calling"}
    BY <1>0, <1>2 DEF StoreInv, LockHeld, Connections
  <2> QED BY <1>0, <1>2, <2>1, OutsideStep DEF Die
<1> QED BY <1>1, <1>2

LEMMA CallKeeps ==
    ASSUME StoreInv, NEW p \in Processes, NEW kind \in {"write", "delete"}, NEW k \in RecordKeys,
           NEW expected \in Nat, NEW record \in Records,
           Call(p, kind, k, expected, record), UNCHANGED scenario,
           \/ p \in Bots /\ (kind = "write" => record = [revision |-> expected + 1, by |-> p])
           \/ /\ p = COPY /\ kind = "write" /\ expected = 0
              /\ k \in DOMAIN Source /\ record = Source[k]
    PROVE  StoreInv'
<1>1. PICK call : call = [kind |-> kind, key |-> k, expected |-> expected, record |-> record]
  OBVIOUS
<1>2. PICK c : c = [connection[p] EXCEPT !.at = "calling", !.result = "none", !.call = call]
  OBVIOUS
<1>3. call \in Calls
  BY <1>1 DEF Calls
<1>4. c \in Connections /\ c.at = "calling" /\ c.call = call
  BY <1>2, <1>3, StoreTypes DEF Connections
<1>5. At(p) = "ready" /\ Becomes(p, c) /\ UNCHANGED <<database, lock, draft>>
  BY <1>1, <1>2 DEF Call
<1>6. call.kind = kind /\ call.key = k /\ call.expected = expected /\ call.record = record
  BY <1>1
<1> QED BY <1>3, <1>4, <1>5, <1>6, OutsideStep

(* What a program asks of its store is a call of the one or of the other.  *)
LEMMA AskedCalls ==
    ASSUME StoreInv, CopyTypeOK
    PROVE  /\ \A p \in Bots : WriteSettings(p) => StoreInv'
           /\ \A k \in RecordKeys : CopyRecord(k) => StoreInv'
<1>0. /\ scenario \in DOMAIN Scenarios /\ Scenarios[scenario].calls \in Nat /\ Bots \subseteq Processes
      /\ Instances /\ 0 \in Nat
  BY DEF StoreInv, StoreTypeOK, Instances, Bots
<1>1. ASSUME NEW p \in Bots, WriteSettings(p) PROVE StoreInv'
  <2>1. ASSUME NEW k \in RecordKeys, NEW expected \in 0 .. Scenarios[scenario].calls,
               Call(p, "write", k, expected, [revision |-> expected + 1, by |-> p])
        PROVE  StoreInv'
    <3>1. expected \in Nat /\ expected + 1 \in Nat \ {0}
      BY <1>0
    <3>2. [revision |-> expected + 1, by |-> p] \in Records
      BY <3>1 DEF Records
    <3> QED BY <1>0, <1>1, <2>1, <3>1, <3>2, CallKeeps DEF WriteSettings
  <2>2. ASSUME NEW k \in RecordKeys, Call(p, "delete", k, 0, Absent) PROVE StoreInv'
    <3>1. Absent \in Records /\ UNCHANGED scenario /\ p \in Processes
      BY <1>0, <1>1, RecordFacts DEF WriteSettings
    <3> QED BY <1>0, <2>2, <3>1, CallKeeps
  <2> QED BY <1>1, <2>1, <2>2 DEF WriteSettings
<1>2. ASSUME NEW k \in RecordKeys, CopyRecord(k) PROVE StoreInv'
  <2>1. k \in DOMAIN Source
    BY <1>2 DEF CopyRecord, CopyTypeOK
  <2>2. Source[k] \in Records
    BY <1>0, <2>1, RecordFacts DEF Source
  <2> QED BY <1>2, <2>1, <2>2, ProgramsAssumption, CallKeeps DEF CopyRecord
<1> QED BY <1>1, <1>2

(* Of the steps of a process, those that touch neither its store nor which *)
(* instance is played.                                                     *)
LEMMA OtherSteps ==
    ASSUME \/ \E p \in Assembling : Assemble(p) \/ Build(p)
           \/ Deploy \/ SetUpModule \/ HearEvent \/ HandleEvent
           \/ BeginCopy \/ RecordCopied \/ EndCopy
    PROVE  UNCHANGED <<database, lock, draft, connection, scenario, touched>>
BY DEF Assemble, Build, Deploy, SetUpModule, HearEvent, HandleEvent, BeginCopy, RecordCopied, EndCopy,
       sqliteVars, sandboxVars

LEMMA StoreStep == StoreInv /\ CopyTypeOK /\ [Next]_vars => StoreInv'
<1> SUFFICES ASSUME StoreInv, CopyTypeOK, [Next]_vars PROVE StoreInv'
  OBVIOUS
<1>0. Bots \subseteq Processes
  BY DEF Bots
<1>1. ASSUME UNCHANGED <<database, lock, draft, connection, scenario>> PROVE StoreInv'
  BY <1>1 DEF StoreInv, StoreTypeOK, LockHeld, Drafted, Asked, SchemaWhole, At, Source
<1>2. ASSUME NEW p \in Processes, Start(p) PROVE StoreInv'
  <2>1. PICK c : c = [Closed EXCEPT !.at = "opening"]
    OBVIOUS
  <2>2. c \in Connections /\ c.at = "opening"
    BY <2>1 DEF Closed, Connections
  <2>3. At(p) = "closed" /\ Becomes(p, c) /\ UNCHANGED <<database, lock, draft, scenario>>
    BY <1>2, <2>1 DEF Start, Open
  <2> QED BY <2>2, <2>3, OutsideStep
<1>3. ASSUME NEW p \in Processes, Store(p) \/ End(p) PROVE StoreInv'
  BY <1>3, SqliteKeeps, DieKeeps DEF Store, End
<1>4. CASE UNCHANGED vars
  BY <1>1, <1>4 DEF vars, sqliteVars, sandboxVars
<1> QED BY <1>1, <1>2, <1>3, <1>4, OtherSteps, AskedCalls DEF Next

(* The rows only change when a write is committed, or a row deleted.       *)
LEMMA RowsChange ==
    ASSUME StoreInv, NEW p \in Processes, Sqlite(p), database'.rows # database.rows
    PROVE  LET call == connection[p].call IN
           /\ call \in Calls
           /\ \/ /\ EndWrite(p) /\ call.kind = "write"
                 /\ database.rows[call.key].revision = call.expected
                 /\ database'.rows = [database.rows EXCEPT ![call.key] = call.record]
              \/ /\ DeleteRow(p) /\ call.kind = "delete"
                 /\ database'.rows = [database.rows EXCEPT ![call.key] = Absent]
<1>0. database \in Databases /\ draft \in Databases
  BY StoreTypes
<1>1. database' # database
  OBVIOUS
<1>2. CASE EndMigration(p)
  <2>1. database' = [draft EXCEPT !.version = Migrations] /\ draft.rows = database.rows
    BY <1>2 DEF EndMigration, Commit, StoreInv, Drafted
  <2>2. database'.rows = database.rows
    BY <1>0, <2>1 DEF Databases
  <2> QED BY <2>2
<1>3. CASE EndWrite(p)
  <2>1. /\ At(p) = "written" /\ database' = draft
        /\ draft = [database EXCEPT !.rows[connection[p].call.key] = connection[p].call.record]
        /\ database.rows[connection[p].call.key].revision = connection[p].call.expected
        /\ connection[p].call \in Calls /\ connection[p].call.kind = "write"
    BY <1>3 DEF EndWrite, Commit, StoreInv, Drafted, Asked
  <2>2. database'.rows = [database.rows EXCEPT ![connection[p].call.key] = connection[p].call.record]
    BY <1>0, <2>1 DEF Databases
  <2> QED BY <1>3, <2>1, <2>2
<1>4. CASE DeleteRow(p)
  <2>1. /\ At(p) = "calling" /\ connection[p].call.kind = "delete"
        /\ database' = [database EXCEPT !.rows[connection[p].call.key] = Absent]
        /\ connection[p].call \in Calls
    BY <1>4 DEF DeleteRow, StoreInv, Asked
  <2>2. database'.rows = [database.rows EXCEPT ![connection[p].call.key] = Absent]
    BY <1>0, <2>1 DEF Databases
  <2> QED BY <1>4, <2>1, <2>2
<1> QED BY <1>1, <1>2, <1>3, <1>4
        DEF Sqlite, BeginMigration, RunStep, FailMigration, BeginWrite, ChangeRow, Conflict, FailWrite,
            Busy, Begin, Rollback

(* Such a change is one of the port's: a record of the bot's own on the    *)
(* revision it expects, a record of the JSON store where there is none, or *)
(* a delete.                                                               *)
LEMMA SharedStep ==
    ASSUME StoreInv, NEW p \in Processes, Sqlite(p), database'.rows # database.rows
    PROVE  Shared!Next
<1> DEFINE call == connection[p].call
<1>1. call \in Calls /\ call.key \in RecordKeys /\ call.kind \in {"write", "delete"}
  BY RowsChange DEF Calls
<1>2. CASE DeleteRow(p) /\ call.kind = "delete"
  <2>1. database'.rows = [database.rows EXCEPT ![call.key] = Absent]
    BY <1>2, RowsChange
  <2>2. Absent = Shared!Absent
    BY DEF Absent, Port!Absent, Shared!Absent
  <2> QED BY <1>1, <2>1, <2>2 DEF Shared!Next, Shared!Delete
<1>3. CASE EndWrite(p) /\ call.kind = "write"
  <2>1. /\ database.rows[call.key].revision = call.expected
        /\ database'.rows = [database.rows EXCEPT ![call.key] = call.record]
    BY <1>3, RowsChange
  <2>2. At(p) = "written"
    BY <1>3 DEF EndWrite
  <2>3. CASE p \in Bots /\ call.record = [revision |-> call.expected + 1, by |-> p]
    <3>1. /\ database.rows[call.key].revision = call.expected
          /\ Shared!Write(call.key, call.expected, [revision |-> call.expected + 1, by |-> p])
      BY <2>1, <2>3 DEF Shared!Write
    <3>2. p \in Bots /\ call.key \in RecordKeys
      BY <1>1, <2>3
    <3> HIDE DEF call
    <3> QED BY <3>1, <3>2 DEF Shared!Next
  <2>4. CASE call.expected = 0 /\ call.key \in DOMAIN Source /\ call.record = Source[call.key]
    <3>1. call.record \in UNION {Range(Scenarios[i].source) : i \in DOMAIN Scenarios}
      BY <2>4 DEF Source, Range, StoreInv, StoreTypeOK
    <3>2. Shared!Absent.revision = 0
      BY DEF Shared!Absent
    <3>3. Shared!Write(call.key, Shared!Absent.revision, call.record)
      BY <2>1, <2>4, <3>2 DEF Shared!Write
    <3>4. call.key \in RecordKeys
      BY <1>1
    <3> HIDE DEF call
    <3> QED BY <3>1, <3>3, <3>4 DEF Shared!Next
  <2> QED BY <1>3, <2>2, <2>3, <2>4 DEF StoreInv, Asked
<1> QED BY <1>2, <1>3, RowsChange

LEMMA Changer ==
    ASSUME [Next]_vars, database' # database
    PROVE  \E p \in Processes : Store(p)
<1>1. ASSUME NEW p \in Processes, Start(p) \/ End(p) PROVE UNCHANGED database
  BY <1>1 DEF Start, Open, End, Die
<1>2. ASSUME NEW p \in Bots, WriteSettings(p) PROVE UNCHANGED database
  BY <1>2 DEF WriteSettings, Call
<1>3. ASSUME NEW k \in RecordKeys, CopyRecord(k) PROVE UNCHANGED database
  BY <1>3 DEF CopyRecord, Call
<1>4. CASE UNCHANGED vars
  BY <1>4 DEF vars, sqliteVars
<1> QED BY <1>1, <1>2, <1>3, <1>4, OtherSteps DEF Next

LEMMA AtomicStep == StoreInv /\ [Next]_vars => [Shared!Next]_(database.rows)
<1> SUFFICES ASSUME StoreInv, [Next]_vars, database'.rows # database.rows PROVE Shared!Next
  OBVIOUS
<1>1. database' # database
  OBVIOUS
<1>2. PICK p \in Processes : Store(p)
  BY <1>1, Changer
<1> QED BY <1>2, SharedStep DEF Store

-------------------------------------------------------------------------------
(* The copy only writes where there is no record, so it undoes nothing of  *)
(* its own; and what it makes of a record is one.                          *)
LEMMA CopyInit == Instances /\ Init => CopyInv
<1> SUFFICES ASSUME Instances, Init PROVE CopyInv
  OBVIOUS
<1>1. /\ copying = [at |-> "none", left |-> {}, copied |-> {}, skipped |-> {}]
      /\ touched = {} /\ database.rows = Target /\ At(COPY) = "closed"
  BY ProgramsAssumption DEF Init, SqliteInit, NotCopying, At, Closed
<1> QED BY <1>1 DEF CopyInv, FoundOrCopied, CopyTypeOK, InHand

LEMMA CopyRecords ==
    ASSUME StoreInv
    PROVE  /\ \A k \in RecordKeys : database.rows[k] \in Records /\ Target[k] \in Records
           /\ \A k \in DOMAIN Source :
                 k \in RecordKeys /\ Source[k] \in Records /\ Source[k] # Absent
BY RecordFacts DEF StoreInv, StoreTypeOK, Databases, Instances, Source, Target

(* What a write of the copy finds: nothing, or what it is to leave alone.  *)
LEMMA FoundByCopy ==
    ASSUME StoreInv, CopyInv, NEW k \in DOMAIN Source
    PROVE  /\ database.rows[k].revision = 0 => (k \in touched \/ Target[k] = Absent)
           /\ database.rows[k].revision # 0 => Converged(k)
           /\ Converged(k) /\ database.rows[k].revision = 0 => k \in touched
<1>1. /\ k \in RecordKeys /\ database.rows[k] \in Records /\ Target[k] \in Records
      /\ Source[k] \in Records /\ Source[k] # Absent
  BY CopyRecords
<1>2. /\ Absent.revision = 0
      /\ database.rows[k].revision = 0 => database.rows[k] = Absent
  BY <1>1, RecordFacts DEF StoreInv
<1>3. k \in touched \/ database.rows[k] = Target[k] \/ Converged(k)
  BY <1>1 DEF CopyInv, FoundOrCopied
<1> QED BY <1>1, <1>2, <1>3 DEF Converged

(* Once a record has converged it stays so, until the bot changes it.      *)
LEMMA ConvergedStays ==
    ASSUME StoreInv, CopyInv, [Next]_vars
    PROVE  /\ scenario' = scenario /\ touched \subseteq touched' /\ touched' \subseteq RecordKeys
           /\ \A k \in DOMAIN Source : Converged(k) => Converged(k)'
           /\ FoundOrCopied'
<1>1. /\ scenario' = scenario /\ Source' = Source /\ Target' = Target
  <2>1. ASSUME NEW p \in Processes, Start(p) \/ Store(p) \/ End(p) PROVE UNCHANGED scenario
    BY <2>1 DEF Start, Store, End
  <2>2. ASSUME NEW p \in Bots, WriteSettings(p) PROVE UNCHANGED scenario
    BY <2>2 DEF WriteSettings
  <2>3. ASSUME NEW k \in RecordKeys, CopyRecord(k) PROVE UNCHANGED scenario
    BY <2>3 DEF CopyRecord
  <2>4. ASSUME UNCHANGED vars PROVE UNCHANGED scenario
    BY <2>4 DEF vars, sandboxVars
  <2>5. UNCHANGED scenario
    BY <2>1, <2>2, <2>3, <2>4, OtherSteps DEF Next
  <2> QED BY <2>5 DEF Source, Target
<1>2. CASE database'.rows = database.rows
  <2>1. touched' = touched
    <3>1. ASSUME NEW p \in Processes, Start(p) \/ Store(p) \/ End(p) PROVE UNCHANGED touched
      BY <1>2, <3>1 DEF Start, Store, End
    <3>2. ASSUME NEW p \in Bots, WriteSettings(p) PROVE UNCHANGED touched
      BY <3>2 DEF WriteSettings
    <3>3. ASSUME NEW k \in RecordKeys, CopyRecord(k) PROVE UNCHANGED touched
      BY <3>3 DEF CopyRecord
    <3>4. CASE UNCHANGED vars
      BY <3>4 DEF vars, sandboxVars
    <3> QED BY <3>1, <3>2, <3>3, <3>4, OtherSteps DEF Next
  <2> QED BY <1>1, <1>2, <2>1 DEF Converged, CopyInv, FoundOrCopied, CopyTypeOK
<1>3. CASE database'.rows # database.rows
  <2>1. PICK p \in Processes : Store(p)
    BY <1>3, Changer
  <2>2. PICK call : call = connection[p].call
    OBVIOUS
  <2>3. /\ call \in Calls /\ call.key \in RecordKeys
        /\ \A k \in RecordKeys \ {call.key} : database'.rows[k] = database.rows[k]
    <3>1. PICK r : database'.rows = [database.rows EXCEPT ![call.key] = r]
      BY <1>3, <2>1, <2>2, RowsChange DEF Store
    <3> QED BY <1>3, <2>1, <2>2, <3>1, RowsChange DEF Store, Calls, StoreInv, StoreTypeOK, Databases
  <2>4. CASE p \in Bots
    <3>1. touched' = touched \cup {call.key}
      BY <1>3, <2>1, <2>2, <2>4 DEF Store
    <3> QED BY <1>1, <2>3, <3>1, CopyRecords DEF Converged, CopyInv, FoundOrCopied, CopyTypeOK
  <2>5. CASE p \notin Bots
    <3>1. touched' = touched
      BY <2>1, <2>5 DEF Store
    <3>2. /\ At(p) \in {"calling", "written"}
          /\ call.kind = "write" => At(p) = "written"
      BY <1>3, <2>1, <2>2, RowsChange DEF Store, EndWrite, DeleteRow
    <3>3. /\ p = COPY /\ call.kind = "write" /\ call.expected = 0
          /\ call.key \in DOMAIN Source /\ call.record = Source[call.key]
      BY <2>2, <2>5, <3>2 DEF StoreInv, Asked
    <3>4. /\ database.rows[call.key].revision = 0
          /\ database'.rows = [database.rows EXCEPT ![call.key] = Source[call.key]]
      BY <1>3, <2>1, <2>2, <3>3, RowsChange DEF Store
    <3>5. database'.rows[call.key] = Source[call.key]
      BY <2>3, <3>4 DEF StoreInv, StoreTypeOK, Databases
    <3>6. /\ Converged(call.key) => call.key \in touched
          /\ call.key \in touched \/ Target[call.key] = Absent
      BY <3>3, <3>4, FoundByCopy
    <3>7. Converged(call.key)'
      BY <1>1, <3>1, <3>5, <3>6 DEF Converged
    <3>8. \A k \in DOMAIN Source : Converged(k) => Converged(k)'
      BY <1>1, <2>3, <3>1, <3>7, CopyRecords DEF Converged
    <3>9. FoundOrCopied'
      <4> SUFFICES ASSUME NEW k \in RecordKeys
                   PROVE  \/ k \in touched' \/ database'.rows[k] = Target'[k]
                          \/ k \in DOMAIN Source' /\ Converged(k)'
        BY DEF FoundOrCopied
      <4> QED BY <1>1, <2>3, <3>1, <3>3, <3>7, <3>8 DEF CopyInv, FoundOrCopied
    <3> QED BY <1>1, <3>1, <3>8, <3>9 DEF CopyInv, CopyTypeOK
  <2> QED BY <2>4, <2>5
<1> QED BY <1>2, <1>3

(* A step that leaves the copy and its connection alone.                   *)
LEMMA HandsOff ==
    ASSUME CopyInv, UNCHANGED <<copying, scenario>>,
           \A k \in DOMAIN Source : Converged(k) => Converged(k)',
           \/ connection'[COPY] = connection[COPY]
           \/ /\ At(COPY) \in {"closed", "opening", "migrating"}
              /\ connection'[COPY].at \notin {"calling", "writing", "written"}
           \/ connection'[COPY].at = "closed" /\ copying.at # "writing"
    PROVE  InHand'
<1>1. /\ Source' = Source /\ copying' = copying /\ Handled' = Handled
      /\ InHand
  BY DEF Source, Handled, CopyInv
<1>2. /\ At(COPY)' \in {"calling", "writing", "written"} => copying.at = "writing"
      /\ copying.at = "writing" => connection'[COPY] = connection[COPY]
  BY <1>1 DEF InHand, At
<1>3. copying.at = "writing" => \E k \in DOMAIN Source :
          /\ Handled = {k}
          /\ \/ At(COPY)' \in {"calling", "writing", "written"} /\ connection'[COPY].call.key = k
             \/ At(COPY)' = "ready" /\ connection'[COPY].result = "failed"
             \/ At(COPY)' = "ready" /\ connection'[COPY].result \in {"committed", "conflict"} /\ Converged(k)'
  BY <1>1, <1>2 DEF InHand, At
<1> QED BY <1>1, <1>2, <1>3 DEF InHand

(* What SQLite does for the copy: until it has committed the record, or    *)
(* refused it because there is one, nothing is told of it.                 *)
LEMMA CopySqlite ==
    ASSUME StoreInv, CopyInv, Sqlite(COPY), UNCHANGED <<copying, scenario>>, touched \subseteq touched',
           \A k \in DOMAIN Source : Converged(k) => Converged(k)'
    PROVE  InHand'
<1>0. /\ COPY \in Processes /\ connection \in [Processes -> Connections]
      /\ Source' = Source /\ Target' = Target /\ Handled' = Handled /\ copying' = copying
  BY ProgramsAssumption DEF StoreInv, StoreTypeOK, Source, Target, Handled
<1>1. PICK c : Becomes(COPY, c)
  BY DEF Sqlite, BeginMigration, RunStep, EndMigration, FailMigration, BeginWrite, ChangeRow, Conflict,
         EndWrite, FailWrite, DeleteRow, Busy
<1>2. connection'[COPY] = c
  BY <1>0, <1>1 DEF Becomes
<1>3. CASE At(COPY) \in {"opening", "migrating"}
  <2>1. CASE BeginMigration(COPY) \/ RunStep(COPY)
    <3>1. c.at = "migrating"
      BY <1>0, <1>2, <2>1 DEF BeginMigration, RunStep, Becomes, At, Connections
    <3> QED BY <1>2, <1>3, <3>1, HandsOff
  <2>2. CASE EndMigration(COPY) \/ FailMigration(COPY) \/ Busy(COPY)
    <3>1. c \in {Unopened, Ready(connection[COPY], "none"), Ready(connection[COPY], "failed")}
      BY <1>0, <1>2, <2>2 DEF EndMigration, FailMigration, Busy, Becomes
    <3>2. c.at \notin {"calling", "writing", "written"}
      BY <1>0, <3>1, ConnectionFacts
    <3> QED BY <1>2, <1>3, <3>2, HandsOff
  <2> QED BY <1>3, <2>1, <2>2
          DEF Sqlite, BeginWrite, ChangeRow, Conflict, EndWrite, FailWrite, DeleteRow
<1>4. CASE At(COPY) \in {"calling", "writing", "written"}
  <2>1. PICK k \in DOMAIN Source : Handled = {k} /\ connection[COPY].call.key = k
    BY <1>4 DEF CopyInv, InHand
  <2>2. /\ connection[COPY].call.kind = "write" /\ connection[COPY].call.expected = 0
        /\ connection[COPY].call.record = Source[k]
        /\ At(COPY) = "written" => database.rows[k].revision = 0
    <3>1. COPY \notin Bots
      BY DEF Bots
    <3> QED BY <1>0, <1>4, <2>1, <3>1 DEF StoreInv, Asked, Drafted
  <2>3. \/ c.at \in {"calling", "writing", "written"} /\ c.call.key = k
        \/ c.at = "ready" /\ c.result = "failed"
        \/ c.at = "ready" /\ c.result \in {"committed", "conflict"} /\ Converged(k)'
    <3>1. CASE BeginWrite(COPY) \/ ChangeRow(COPY)
      BY <1>0, <1>2, <2>1, <3>1 DEF BeginWrite, ChangeRow, Becomes, Connections
    <3>2. CASE FailWrite(COPY) \/ Busy(COPY)
      BY <1>0, <1>2, <1>4, <3>2, ConnectionFacts DEF FailWrite, Busy, Becomes, At
    <3>3. CASE Conflict(COPY)
      <4>1. c.at = "ready" /\ c.result = "conflict"
        BY <1>0, <1>2, <3>3, ConnectionFacts DEF Conflict, Becomes
      <4>2. database.rows[k].revision # 0
        BY <1>0, <2>1, <2>2, <3>3 DEF Conflict, StoreInv, Drafted
      <4> QED BY <4>1, <4>2, FoundByCopy
    <3>4. CASE EndWrite(COPY)
      <4>1. c.at = "ready" /\ c.result = "committed"
        BY <1>0, <1>2, <3>4, ConnectionFacts DEF EndWrite, Becomes
      <4>2. /\ database.rows[k].revision = 0
            /\ database'.rows = [database.rows EXCEPT ![k] = Source[k]]
        <5>1. At(COPY) = "written" /\ database' = draft
          BY <3>4 DEF EndWrite, Commit
        <5>2. draft = [database EXCEPT !.rows[k] = Source[k]] /\ database \in Databases
          BY <1>0, <2>1, <2>2, <5>1 DEF StoreInv, Drafted, StoreTypeOK
        <5> QED BY <2>2, <5>1, <5>2 DEF Databases
      <4>3. database'.rows[k] = Source[k]
        BY <4>2, CopyRecords DEF StoreInv, StoreTypeOK, Databases
      <4>4. k \in touched \/ Target[k] = Absent
        BY <4>2, FoundByCopy
      <4>5. Converged(k)'
        BY <1>0, <4>3, <4>4 DEF Converged
      <4> QED BY <4>1, <4>5
    <3> QED BY <1>4, <2>2, <3>1, <3>2, <3>3, <3>4
            DEF Sqlite, BeginMigration, RunStep, EndMigration, FailMigration, DeleteRow
  <2>4. copying.at = "writing"
    BY <1>4 DEF CopyInv, InHand
  <2> QED BY <1>0, <1>2, <2>1, <2>3, <2>4 DEF CopyInv, InHand, At
<1>5. At(COPY) \in {"opening", "migrating", "calling", "writing", "written"}
  BY DEF Sqlite, BeginMigration, RunStep, EndMigration, FailMigration, BeginWrite, ChangeRow, Conflict,
         EndWrite, FailWrite, DeleteRow, Busy
<1> QED BY <1>3, <1>4, <1>5

LEMMA ProgramsDiffer ==
    /\ BOT \in Processes /\ REGISTER \in Processes /\ COPY \in Processes
    /\ BOT # REGISTER /\ BOT # COPY /\ REGISTER # COPY
    /\ BOT \in Bots /\ COPY \notin Bots /\ REGISTER \notin Bots
    /\ Bots \subseteq Processes /\ COPY \notin Assembling /\ Assembling \subseteq Processes
BY ProgramsAssumption DEF BOT, REGISTER, COPY, Bots, Assembling

LEMMA CopyStep == StoreInv /\ CopyInv /\ [Next]_vars => CopyInv'
<1> SUFFICES ASSUME StoreInv, CopyInv, [Next]_vars PROVE CopyInv'
  OBVIOUS
<1>0. /\ scenario' = scenario /\ Source' = Source /\ touched \subseteq touched' /\ touched' \subseteq RecordKeys
      /\ \A k \in DOMAIN Source : Converged(k) => Converged(k)'
      /\ FoundOrCopied'
      /\ connection \in [Processes -> Connections]
  BY ConvergedStays DEF Source, StoreInv, StoreTypeOK
<1>1. /\ CopyTypeOK /\ InHand /\ \A k \in copying.copied \cup copying.skipped : Converged(k)
      /\ copying.left \subseteq DOMAIN Source /\ copying.copied \subseteq DOMAIN Source
      /\ copying.skipped \subseteq DOMAIN Source
  BY DEF CopyInv, CopyTypeOK
<1>2. ASSUME copying' = copying, InHand' PROVE CopyInv'
  BY <1>0, <1>1, <1>2 DEF CopyInv, CopyTypeOK
<1>3. ASSUME UNCHANGED copying, connection'[COPY] = connection[COPY] PROVE CopyInv'
  BY <1>0, <1>2, <1>3, HandsOff
<1>4. ASSUME NEW p \in Processes, Start(p) PROVE CopyInv'
  <2>1. CASE p = COPY
    <3>1. UNCHANGED copying /\ At(COPY) = "closed" /\ connection'[COPY].at = "opening"
      BY <1>0, <1>4, <2>1, ProgramsDiffer DEF Start, Open, Becomes, Closed
    <3> QED BY <1>0, <1>2, <3>1, HandsOff
  <2>2. CASE p # COPY
    BY <1>0, <1>3, <1>4, <2>2, ProgramsDiffer DEF Start, Open, Becomes
  <2> QED BY <2>1, <2>2
<1>5. ASSUME NEW p \in Processes, Store(p) PROVE CopyInv'
  <2>1. CASE p = COPY
    BY <1>0, <1>2, <1>5, <2>1, CopySqlite DEF Store
  <2>2. CASE p # COPY
    <3>1. PICK c : Becomes(p, c)
      BY <1>5 DEF Store, Sqlite, BeginMigration, RunStep, EndMigration, FailMigration, BeginWrite,
                  ChangeRow, Conflict, EndWrite, FailWrite, DeleteRow, Busy
    <3>2. connection'[COPY] = connection[COPY]
      BY <1>0, <2>2, <3>1, ProgramsDiffer DEF Becomes
    <3> QED BY <1>3, <1>5, <3>2 DEF Store
  <2> QED BY <2>1, <2>2
<1>6. ASSUME NEW p \in Processes, End(p) PROVE CopyInv'
  <2>1. CASE p = COPY
    <3>1. /\ copying' = [at |-> "none", left |-> {}, copied |-> {}, skipped |-> {}]
          /\ At(COPY)' = "closed"
      BY <1>0, <1>6, <2>1, ProgramsDiffer, ConnectionFacts DEF End, Die, NotCopying, At
    <3>2. CopyTypeOK' /\ InHand'
      BY <1>0, <3>1 DEF CopyTypeOK, InHand
    <3> QED BY <1>0, <3>1, <3>2 DEF CopyInv
  <2>2. CASE p # COPY
    BY <1>0, <1>3, <1>6, <2>2, ProgramsDiffer DEF End, Die
  <2> QED BY <2>1, <2>2
<1>7. ASSUME NEW p \in Bots, WriteSettings(p) PROVE CopyInv'
  BY <1>0, <1>3, <1>7, ProgramsDiffer DEF WriteSettings, Call, Becomes
<1>8. CASE BeginCopy
  <2>1. /\ copying' = [at |-> "next", left |-> DOMAIN Source, copied |-> {}, skipped |-> {}]
        /\ At(COPY) = "ready" /\ connection' = connection
    BY <1>8 DEF BeginCopy, NotCopying, sqliteVars
  <2>2. CopyTypeOK' /\ Handled' = {}
    BY <1>0, <2>1 DEF CopyTypeOK, Handled
  <2>3. InHand'
    BY <2>1, <2>2 DEF InHand, At
  <2> QED BY <1>0, <2>1, <2>2, <2>3 DEF CopyInv
<1>9. ASSUME NEW k \in RecordKeys, CopyRecord(k) PROVE CopyInv'
  <2>1. /\ copying.at = "next" /\ k \in copying.left /\ k \in DOMAIN Source
        /\ copying'.at = "writing" /\ copying'.left = copying.left \ {k}
        /\ copying'.copied = copying.copied /\ copying'.skipped = copying.skipped
        /\ copying' \in [at : {"none", "next", "writing", "stopped", "done"}, left : SUBSET DOMAIN Source,
                         copied : SUBSET DOMAIN Source, skipped : SUBSET DOMAIN Source]
    BY <1>1, <1>9 DEF CopyRecord, CopyTypeOK
  <2>2. At(COPY)' = "calling" /\ connection'[COPY].call.key = k
    <3>1. PICK call : call = [kind |-> "write", key |-> k, expected |-> 0, record |-> Source[k]]
      OBVIOUS
    <3>2. connection' = [connection EXCEPT ![COPY] =
                             [connection[COPY] EXCEPT !.at = "calling", !.result = "none", !.call = call]]
      BY <1>9, <3>1 DEF CopyRecord, Call, Becomes
    <3>3. connection[COPY] \in Connections /\ COPY \in Processes
      BY <1>0, ProgramsDiffer
    <3> QED BY <1>0, <3>1, <3>2, <3>3 DEF At, Connections
  <2>3. Handled = {} /\ k \notin copying.copied /\ k \notin copying.skipped
    BY <1>1, <2>1 DEF InHand
  <2>4. Handled' = {k}
    BY <1>0, <2>1, <2>3 DEF Handled
  <2>5. InHand'
    BY <1>0, <1>1, <2>1, <2>2, <2>4 DEF InHand
  <2> QED BY <1>0, <1>1, <2>1, <2>5 DEF CopyInv, CopyTypeOK
<1>10. CASE RecordCopied
  <2> DEFINE result == connection[COPY].result
  <2>1. /\ copying.at = "writing" /\ At(COPY) = "ready" /\ connection' = connection
        /\ copying'.at = IF result = "failed" THEN "stopped" ELSE "next"
        /\ copying'.left = copying.left
        /\ copying'.copied = IF result = "committed" THEN copying.copied \cup Handled ELSE copying.copied
        /\ copying'.skipped = IF result = "conflict" THEN copying.skipped \cup Handled ELSE copying.skipped
    BY <1>1, <1>10 DEF RecordCopied, CopyTypeOK, sqliteVars
  <2>2. PICK k \in DOMAIN Source :
            /\ Handled = {k}
            /\ result = "failed" \/ (result \in {"committed", "conflict"} /\ Converged(k))
    BY <1>1, <2>1 DEF InHand
  <2>3. k \notin copying.left /\ k \notin copying.copied /\ k \notin copying.skipped
    BY <2>2 DEF Handled
  <2>4. CopyTypeOK'
    <3>1. copying' = [copying EXCEPT !.at = copying'.at, !.copied = copying'.copied, !.skipped = copying'.skipped]
      BY <1>1, <1>10 DEF RecordCopied, CopyTypeOK
    <3>2. copying'.copied \subseteq DOMAIN Source /\ copying'.skipped \subseteq DOMAIN Source
      BY <1>1, <2>1, <2>2
    <3>3. copying'.at \in {"stopped", "next"}
      BY <2>1
    <3> HIDE DEF result
    <3> QED BY <1>0, <1>1, <3>1, <3>2, <3>3 DEF CopyTypeOK
  <2>5. At(COPY)' = "ready"
    BY <2>1 DEF At
  <2>6. /\ copying'.left \cap (copying'.copied \cup copying'.skipped) = {}
        /\ copying'.copied \cap copying'.skipped = {}
    BY <1>1, <2>1, <2>2, <2>3 DEF InHand
  <2>7. copying'.at = "next" => Handled' = {}
    <3>1. result # "failed" => copying'.copied \cup copying'.skipped = copying.copied \cup copying.skipped \cup {k}
      BY <2>1, <2>2
    <3>2. Handled' = DOMAIN Source \ (copying'.left \cup copying'.copied \cup copying'.skipped)
      BY <1>0 DEF Handled
    <3> QED BY <2>1, <2>2, <3>1, <3>2 DEF Handled
  <2>8. InHand'
    BY <2>1, <2>5, <2>6, <2>7 DEF InHand
  <2>9. \A r \in copying'.copied \cup copying'.skipped : Converged(r)'
    BY <1>0, <1>1, <2>1, <2>2
  <2> QED BY <1>0, <2>4, <2>8, <2>9 DEF CopyInv
<1>11. CASE EndCopy
  <2>1. /\ copying.at = "next" /\ copying.left = {} /\ connection' = connection
        /\ copying'.at = "done" /\ copying'.left = copying.left
        /\ copying'.copied = copying.copied /\ copying'.skipped = copying.skipped
        /\ copying' = [copying EXCEPT !.at = "done"]
    BY <1>1, <1>11 DEF EndCopy, CopyTypeOK, sqliteVars
  <2>2. CopyTypeOK'
    BY <1>0, <1>1, <2>1 DEF CopyTypeOK
  <2>3. Handled' = Handled /\ At(COPY)' = At(COPY)
    BY <1>0, <2>1 DEF Handled, At
  <2>4. InHand'
    BY <1>1, <2>1, <2>3 DEF InHand
  <2> QED BY <1>0, <1>1, <2>1, <2>2, <2>4 DEF CopyInv
<1>12. CASE \/ \E p \in Assembling : Assemble(p) \/ Build(p)
            \/ Deploy \/ SetUpModule \/ HearEvent \/ HandleEvent \/ UNCHANGED vars
  BY <1>3, <1>12
     DEF Assemble, Build, Deploy, SetUpModule, HearEvent, HandleEvent, sqliteVars, sandboxVars, vars
<1> QED BY <1>4, <1>5, <1>6, <1>7, <1>8, <1>9, <1>10, <1>11, <1>12 DEF Next

LEMMA Converges == CopyInv => CopyConverges
<1> SUFFICES ASSUME CopyInv, copying.at = "done"
             PROVE  /\ copying.copied \cup copying.skipped = DOMAIN Source
                    /\ copying.copied \cap copying.skipped = {}
                    /\ \A k \in DOMAIN Source \ touched :
                          database.rows[k] = IF Target[k] = Absent THEN Source[k] ELSE Target[k]
  BY DEF CopyConverges
<1>1. copying.copied \cup copying.skipped = DOMAIN Source
  BY DEF CopyInv, InHand, Handled, CopyTypeOK
<1>2. copying.copied \cap copying.skipped = {}
  BY DEF CopyInv, InHand
<1>3. \A k \in DOMAIN Source : Converged(k)
  BY <1>1 DEF CopyInv
<1> QED BY <1>1, <1>2, <1>3 DEF Converged

-------------------------------------------------------------------------------
(* What a step of another part of the programs leaves alone.               *)
LEMMA InstanceStays ==
    ASSUME StoreInv, CopyInv, [Next]_vars
    PROVE  Modules' = Modules /\ Built' = Built /\ Declared' = Declared /\ ToPut' = ToPut
BY ConvergedStays DEF Modules, Built, Declared, ToPut

LEMMA MeantForFacts ==
    /\ MeantFor(Global) = {r \in Declared : r.command.guilds = {}}
    /\ \A s \in Scopes \ {Global} : MeantFor(s) = {r \in Declared : s \in r.command.guilds}
    /\ \A s : MeantFor(s) = BucketOf(Declared, s)
BY DEF MeantFor, BucketOf, Declared

(* A deployment puts each scope it has to, with what is meant for it.      *)
LEMMA DeployInvInit == Init => DeployInv
BY DEF Init, DeployInit, NotDeploying, DeployInv

LEMMA DeploySteps == DeployInv /\ Deploy /\ Built' = Built => DeployInv'
<1> SUFFICES ASSUME DeployInv, Deploy, Built' = Built PROVE DeployInv'
  OBVIOUS
<1>1. /\ Declared' = Declared /\ ToPut' = ToPut /\ \A s : MeantFor(s)' = MeantFor(s)
  BY DEF Declared, ToPut, MeantFor
<1>2. deployment \in [pc : {"idle", "putting", "failed", "done"}, commands : {{}, Declared}, left : SUBSET ToPut]
  BY DEF DeployInv
<1>3. CASE deployment.pc = "idle" /\ BeginDeployment(Built)
  <2>1. scopes' = scopes /\ deployment' = [pc |-> "putting", commands |-> Declared, left |-> ToPut]
    BY <1>3 DEF BeginDeployment, Declared, ToPut
  <2> QED BY <1>1, <2>1 DEF DeployInv
<1>4. ASSUME NEW s \in deployment.left, Put(s) PROVE DeployInv'
  <2>1. /\ deployment.pc = "putting" /\ deployment.commands = Declared /\ s \in ToPut
        /\ scopes' = [scopes EXCEPT ![s] = MeantFor(s)]
        /\ deployment' = [deployment EXCEPT !.left = @ \ {s},
                              !.pc = IF deployment.left = {s} THEN "done" ELSE @]
    BY <1>2, <1>4, MeantForFacts DEF Put, DeployInv
  <2>2. /\ scopes' = [q \in Scopes |-> scopes'[q]]
        /\ \A q \in Scopes : scopes'[q] = IF q = s THEN MeantFor(s) ELSE scopes[q]
    BY <2>1 DEF DeployInv
  <2>3. /\ deployment' \in [pc : {"idle", "putting", "failed", "done"}, commands : {{}, Declared}, left : SUBSET ToPut]
        /\ deployment'.commands = Declared /\ deployment'.left = deployment.left \ {s}
        /\ deployment'.pc = "done" => deployment'.left = {}
    BY <1>2, <2>1
  <2> QED BY <1>1, <2>1, <2>2, <2>3 DEF DeployInv
<1>5. CASE PutFails
  <2>1. scopes' = scopes /\ deployment' = [deployment EXCEPT !.pc = "failed"]
    BY <1>5 DEF PutFails
  <2> QED BY <1>1, <1>2, <2>1 DEF DeployInv
<1> QED BY <1>3, <1>4, <1>5 DEF Deploy

LEMMA DeployStep == StoreInv /\ CopyInv /\ DeployInv /\ [Next]_vars => DeployInv'
<1> SUFFICES ASSUME StoreInv, CopyInv, DeployInv, [Next]_vars PROVE DeployInv'
  OBVIOUS
<1>1. Built' = Built /\ Declared' = Declared /\ ToPut' = ToPut /\ \A s : MeantFor(s)' = MeantFor(s)
  BY InstanceStays DEF MeantFor
<1>2. ASSUME UNCHANGED scopes, deployment' = deployment \/ deployment' = NotDeploying PROVE DeployInv'
  BY <1>1, <1>2 DEF DeployInv, NotDeploying
<1>3. CASE Deploy
  BY <1>1, <1>3, DeploySteps
<1>4. ASSUME NEW p \in Processes, End(p) PROVE DeployInv'
  BY <1>2, <1>4 DEF End, deployVars
<1>5. ASSUME NEW p \in Processes, Start(p) \/ Store(p) PROVE DeployInv'
  BY <1>2, <1>5 DEF Start, Store, deployVars
<1>6. CASE \/ \E p \in Assembling : Assemble(p) \/ Build(p)
           \/ \E p \in Bots : WriteSettings(p)
           \/ SetUpModule \/ HearEvent \/ HandleEvent
  BY <1>2, <1>6 DEF Assemble, Build, WriteSettings, SetUpModule, HearEvent, HandleEvent, deployVars
<1>7. CASE BeginCopy \/ (\E k \in RecordKeys : CopyRecord(k)) \/ RecordCopied \/ EndCopy \/ UNCHANGED vars
  BY <1>2, <1>7 DEF BeginCopy, CopyRecord, RecordCopied, EndCopy, deployVars, vars
<1> QED BY <1>3, <1>4, <1>5, <1>6, <1>7 DEF Next

LEMMA Deployed == DeployInv => DeployedAsDeclared
<1> SUFFICES ASSUME DeployInv PROVE DeployedAsDeclared
  OBVIOUS
<1>1. ASSUME deployment.pc = "done", NEW s \in Scopes
      PROVE  scopes[s] = IF s = Global \/ MeantFor(s) # {} THEN MeantFor(s) ELSE Stale
  <2>1. s \in ToPut <=> s = Global \/ MeantFor(s) # {}
    BY MeantForFacts DEF ToPut
  <2> QED BY <1>1, <2>1 DEF DeployInv
<1> QED BY <1>1 DEF DeployedAsDeclared, DeployInv

-------------------------------------------------------------------------------
(* An event passes its module's status once, and the gate once more.       *)
LEMMA EventInvInit == Init => EventInv
BY DEF Init, EventInit, EventInv

LEMMA BindKeeps ==
    ASSUME Bind(Built), Built' = Built
    PROVE  EventInv'
<1>1. /\ DOMAIN status' = DOMAIN Built
      /\ DOMAIN handling' = listeners' /\ DOMAIN ran' = listeners'
      /\ \A l \in listeners' : handling'[l] = "idle" /\ ran'[l] = 0
  BY DEF Bind
<1>2. \A l \in listeners' : l[1] \in DOMAIN Built
  BY DEF Bind
<1> QED BY <1>1, <1>2 DEF EventInv

LEMMA HearKeeps ==
    ASSUME EventInv, NEW name, Emit(Built, name), Built' = Built
    PROVE  EventInv'
<1> DEFINE fired == {l \in listeners : EventOf(Built, l).name = name}
<1>1. /\ \A l \in fired : handling[l] = "idle"
      /\ listeners' = listeners \ {l \in fired : EventOf(Built, l).once}
      /\ handling' = [l \in DOMAIN handling |->
                         IF l \in fired /\ status[l[1]] = "ready" THEN "gate" ELSE handling[l]]
      /\ status' = status /\ ran' = ran
  BY DEF Emit
<1>2. \A l : EventOf(Built, l)' = EventOf(Built, l)
  BY DEF EventOf
<1>3. fired \subseteq listeners
  OBVIOUS
<1> HIDE DEF fired
<1> QED BY <1>1, <1>2, <1>3 DEF EventInv

LEMMA EventSteps ==
    ASSUME EventInv, Built' = Built,
           \/ \E i \in DOMAIN status, result \in {"ready", "unavailable"} : SetUp(i, result)
           \/ \E l \in DOMAIN handling :
                 (\E enabled \in BOOLEAN : GateAnswers(Built, l, enabled)) \/ HandlerEnds(l)
    PROVE  EventInv'
<1>0. \A l : EventOf(Built, l)' = EventOf(Built, l)
  BY DEF EventOf
<1>1. ASSUME NEW i \in DOMAIN status, NEW result \in {"ready", "unavailable"}, SetUp(i, result)
      PROVE  EventInv'
  BY <1>0, <1>1 DEF SetUp, EventInv
<1>2. ASSUME NEW l \in DOMAIN handling, NEW enabled \in BOOLEAN, GateAnswers(Built, l, enabled)
      PROVE  EventInv'
  <2>1. /\ handling[l] = "gate" /\ status' = status /\ listeners' = listeners
        /\ handling' = [handling EXCEPT ![l] = IF enabled THEN "executing" ELSE "idle"]
        /\ ran' = [ran EXCEPT ![l] = IF enabled THEN @ + 1 ELSE @]
    BY <1>2 DEF GateAnswers
  <2>2. /\ DOMAIN ran = DOMAIN handling /\ status[l[1]] = "ready" /\ ran[l] \in Nat
        /\ EventOf(Built, l).once => ran[l] = 0 /\ l \notin listeners
    BY <2>1 DEF EventInv
  <2>3. ran'[l] \in Nat /\ (EventOf(Built, l).once => ran'[l] <= 1)
    BY <2>1, <2>2
  <2>4. \A q \in DOMAIN handling : q # l => handling'[q] = handling[q] /\ ran'[q] = ran[q]
    BY <2>1, <2>2
  <2>5. DOMAIN ran' = DOMAIN handling /\ DOMAIN handling' = DOMAIN handling /\ handling'[l] # "gate"
    BY <2>1, <2>2
  <2> QED BY <1>0, <2>1, <2>2, <2>3, <2>4, <2>5 DEF EventInv
<1>3. ASSUME NEW l \in DOMAIN handling, HandlerEnds(l) PROVE EventInv'
  BY <1>0, <1>3 DEF HandlerEnds, EventInv
<1> QED BY <1>1, <1>2, <1>3

LEMMA EventStep == StoreInv /\ CopyInv /\ EventInv /\ [Next]_vars => EventInv'
<1> SUFFICES ASSUME StoreInv, CopyInv, EventInv, [Next]_vars PROVE EventInv'
  OBVIOUS
<1>1. Built' = Built /\ Modules' = Modules /\ \A l : EventOf(Built, l)' = EventOf(Built, l)
  BY InstanceStays DEF EventOf
<1>2. ASSUME UNCHANGED eventVars PROVE EventInv'
  BY <1>1, <1>2 DEF EventInv, eventVars
<1>3. ASSUME NEW p \in Assembling, Build(p) PROVE EventInv'
  BY <1>1, <1>2, <1>3, BindKeeps DEF Build, Built
<1>4. CASE SetUpModule \/ HandleEvent
  BY <1>1, <1>4, EventSteps DEF SetUpModule, HandleEvent
<1>5. CASE HearEvent
  BY <1>1, <1>5, HearKeeps DEF HearEvent
<1>6. ASSUME NEW p \in Processes, End(p) PROVE EventInv'
  <2>1. CASE p = BOT
    BY <1>6, <2>1 DEF End, EventInv
  <2>2. CASE p # BOT
    BY <1>2, <1>6, <2>2 DEF End
  <2> QED BY <2>1, <2>2
<1>7. ASSUME NEW p \in Processes, Start(p) \/ Store(p) PROVE EventInv'
  BY <1>2, <1>7 DEF Start, Store
<1>8. CASE \/ \E p \in Assembling : Assemble(p)
           \/ \E p \in Bots : WriteSettings(p)
           \/ Deploy
  BY <1>2, <1>8 DEF Assemble, WriteSettings, Deploy
<1>9. CASE BeginCopy \/ (\E k \in RecordKeys : CopyRecord(k)) \/ RecordCopied \/ EndCopy \/ UNCHANGED vars
  BY <1>2, <1>9 DEF BeginCopy, CopyRecord, RecordCopied, EndCopy, vars
<1> QED BY <1>3, <1>4, <1>5, <1>6, <1>7, <1>8, <1>9 DEF Next

-------------------------------------------------------------------------------
(* The assembly.  The first of some positions is one of them.              *)
LEMMA MinIsThere ==
    ASSUME NEW S \in SUBSET Nat, S # {}
    PROVE  Min(S) \in S /\ \A i \in S : Min(S) <= i
<1>1. PICK R : R = OpToRel(<, Nat)
  OBVIOUS
<1>2. IsWellFoundedOn(R, Nat)
  BY <1>1, NatLessThanWellFounded
<1>3. \A x, y \in Nat : x < y => <<x, y>> \in R
  BY <1>1 DEF OpToRel
<1>4. PICK x \in S : \A y \in S : <<y, x>> \notin R
  BY <1>2, WFMin
<1>5. \A y \in S : x <= y
  <2> TAKE y \in S
  <2>1. x \in Nat /\ y \in Nat
    OBVIOUS
  <2>2. ~(y < x)
    BY <1>3, <1>4, <2>1
  <2> QED BY <2>1, <2>2
<1> QED BY <1>5 DEF Min

LEMMA ListFacts ==
    ASSUME NEW s, IsList(s)
    PROVE  /\ Len(s) \in Nat /\ DOMAIN s = 1 .. Len(s) /\ DOMAIN s \subseteq Nat
           /\ \A e \in ToSet(s) : \E i \in DOMAIN s : s[i] = e
           /\ \A i \in DOMAIN s : s[i] \in ToSet(s)
BY DEF IsList, ToSet

LEMMA JoinedLists ==
    ASSUME NEW a, NEW b, IsList(a), IsList(b)
    PROVE  ToSet(a \o b) = ToSet(a) \cup ToSet(b)
<1>1. PICK S : S = ToSet(a) \cup ToSet(b)
  OBVIOUS
<1>2. a \in Seq(S) /\ b \in Seq(S)
  BY <1>1, SeqDef DEF IsList
<1>3. /\ a \o b \in Seq(S) /\ Len(a \o b) = Len(a) + Len(b)
      /\ \A i \in 1 .. Len(a) : (a \o b)[i] = a[i]
      /\ \A i \in 1 .. Len(b) : (a \o b)[Len(a) + i] = b[i]
  BY <1>2
<1>4. ToSet(a \o b) \subseteq S
  BY <1>3 DEF ToSet
<1>5. ToSet(a) \subseteq ToSet(a \o b)
  BY <1>2, <1>3 DEF ToSet
<1>6. ToSet(b) \subseteq ToSet(a \o b)
  <2>0. ToSet(b) = {b[i] : i \in 1 .. Len(b)}
    BY <1>2 DEF ToSet
  <2> SUFFICES ASSUME NEW i \in 1 .. Len(b) PROVE b[i] \in ToSet(a \o b)
    BY <2>0
  <2>1. Len(a) + i \in DOMAIN (a \o b)
    BY <1>2, <1>3
  <2> QED BY <1>3, <2>1 DEF ToSet
<1> QED BY <1>1, <1>4, <1>5, <1>6

(* Of the first modules, those before one.                                 *)
LEMMA Before ==
    ASSUME NEW modules, IsList(modules), NEW i \in DOMAIN modules
    PROVE  ToSet(SubSeq(modules, 1, i - 1)) = {modules[j] : j \in Owned(modules, i)}
<1>1. /\ modules \in Seq(ToSet(modules)) /\ i \in Nat /\ i >= 1 /\ i <= Len(modules)
      /\ DOMAIN modules = 1 .. Len(modules) /\ Len(modules) \in Nat
  BY ListFacts DEF IsList
<1>2. i - 1 \in Nat /\ i - 1 <= Len(modules)
  BY <1>1
<1>3. PICK n \in Nat : n = i - 1 /\ n <= Len(modules)
  BY <1>2
<1>4. /\ Len(SubSeq(modules, 1, n)) = n /\ DOMAIN SubSeq(modules, 1, n) = 1 .. n
      /\ \A j \in 1 .. n : SubSeq(modules, 1, n)[j] = modules[j]
  BY <1>1, <1>3
<1>5. Owned(modules, i) = 1 .. n
  BY <1>1, <1>3 DEF Owned
<1> QED BY <1>3, <1>4, <1>5 DEF ToSet

(* No id is repeated exactly when there are as many ids as declarations.   *)
LEMMA RepeatedIds ==
    ASSUME NEW m, IsList(m.settings)
    PROVE  Cardinality(Ids(m)) < Len(m.settings)
           <=> \E i \in DOMAIN m.settings : \E j \in 1 .. i - 1 : m.settings[j].id = m.settings[i].id
<1>1. PICK n \in Nat : n = Len(m.settings) /\ DOMAIN m.settings = 1 .. n
  BY ListFacts
<1>2. PICK id : id = [i \in 1 .. n |-> m.settings[i].id]
  OBVIOUS
<1>3. id \in Surjection(1 .. n, Ids(m))
  BY <1>1, <1>2 DEF Surjection, Ids, ToSet
<1>4. IsFiniteSet(1 .. n) /\ Cardinality(1 .. n) = n
  BY FS_Interval
<1>5. /\ Cardinality(Ids(m)) <= n /\ IsFiniteSet(Ids(m))
      /\ Cardinality(Ids(m)) = n <=> id \in Injection(1 .. n, Ids(m))
  BY <1>3, <1>4, FS_Surjection
<1>6. Cardinality(Ids(m)) \in Nat
  BY <1>5, FS_CardinalityType
<1>7. id \in Injection(1 .. n, Ids(m)) <=> \A i, j \in 1 .. n : id[i] = id[j] => i = j
  BY <1>3 DEF Injection, Surjection, IsInjective
<1>8. (\A i, j \in 1 .. n : id[i] = id[j] => i = j)
      <=> ~ \E i \in 1 .. n : \E j \in 1 .. i - 1 : id[j] = id[i]
  OBVIOUS
<1>9. (\E i \in 1 .. n : \E j \in 1 .. i - 1 : id[j] = id[i])
      <=> \E i \in DOMAIN m.settings : \E j \in 1 .. i - 1 : m.settings[j].id = m.settings[i].id
  <2>1. \A i \in 1 .. n : \A j \in 1 .. i - 1 : j \in 1 .. n
    OBVIOUS
  <2> QED BY <1>1, <1>2, <2>1
<1> QED BY <1>1, <1>5, <1>6, <1>7, <1>8, <1>9

LEMMA FirstRefusedFacts ==
    ASSUME NEW modules, IsList(modules), NEW error \in RefusalErrors, NEW S, S \subseteq DOMAIN modules
    PROVE  /\ FirstRefused(error, S) = <<>> <=> S = {}
           /\ S # {} => /\ FirstRefused(error, S)[1] = [error |-> error, by |-> Min(S)]
                        /\ Min(S) \in S
           /\ (\A i \in S : AtFault(modules, i)) => FirstRefused(error, S) \in Seq(Refusals(modules))
<1>1. S \subseteq Nat
  BY ListFacts
<1>2. S # {} => Min(S) \in S
  BY <1>1, MinIsThere
<1>3. PICK r : r = [error |-> error, by |-> Min(S)]
  OBVIOUS
<1>4. FirstRefused(error, S) = IF S = {} THEN <<>> ELSE <<r>>
  BY <1>3 DEF FirstRefused
<1>5. ASSUME S # {}, \A i \in S : AtFault(modules, i) PROVE r \in Refusals(modules)
  BY <1>2, <1>3, <1>5 DEF Refusals
<1> QED BY <1>2, <1>3, <1>4, <1>5

(* What is at fault, by the checks that find it.                           *)
LEMMA Reserved ==
    ASSUME NEW m, IsList(PartOf(m.parts, "events")), IsList(PartOf(m.built, "events")), "parts" \in DOMAIN m
    PROVE  (\E e \in ToSet(PartOf(m.parts, "events") \o PartOf(m.built, "events")) : e.name = InteractionCreate)
           <=> (ReservesInteractions(m.parts) \/ ReservesInteractions(m.built))
BY JoinedLists DEF ReservesInteractions

LEMMA ReservedMerged ==
    ASSUME NEW m, "parts" \in DOMAIN m
    PROVE  /\ ReservesInteractions(m.built) => ReservesInteractions(Merged(m).parts)
           /\ ReservesInteractions(Merged(m).parts) =>
                  ReservesInteractions(m.parts) \/ ReservesInteractions(m.built)
<1>1. PICK parts : parts = [p \in DOMAIN m.built \cup DOMAIN m.parts |->
                               IF p \in DOMAIN m.built THEN m.built[p] ELSE m.parts[p]]
  OBVIOUS
<1>2. Merged(m).parts = parts
  BY <1>1 DEF Merged
<1>3. PartOf(parts, "events") =
          IF "events" \in DOMAIN m.built THEN PartOf(m.built, "events") ELSE PartOf(m.parts, "events")
  BY <1>1 DEF PartOf
<1>4. "events" \notin DOMAIN m.built => ToSet(PartOf(m.built, "events")) = {}
  BY DEF PartOf, ToSet
<1> QED BY <1>2, <1>3, <1>4 DEF ReservesInteractions

LEMMA PartsTwice ==
    ASSUME NEW m, DOMAIN m.parts \subseteq MODULE_PARTS, DOMAIN m.built \subseteq MODULE_PARTS
    PROVE  (\E p \in MODULE_PARTS : p \in GivenParts(m.parts) /\ p \in GivenParts(m.built))
           <=> GivenParts(m.parts) \cap GivenParts(m.built) # {}
BY DEF GivenParts

LEMMA CatalogClash ==
    ASSUME NEW modules, IsList(modules), NEW i \in DOMAIN modules
    PROVE  modules[i].translations \cap Known(SubSeq(modules, 1, i - 1)) # {}
           <=> \/ modules[i].translations \cap KernelKeys # {}
               \/ \E j \in Owned(modules, i) : modules[j].translations \cap modules[i].translations # {}
<1>1. Known(SubSeq(modules, 1, i - 1))
          = KernelKeys \cup UNION {m.translations : m \in {modules[j] : j \in Owned(modules, i)}}
  BY Before DEF Known
<1> QED BY <1>1

LEMMA UntoldTexts ==
    ASSUME NEW modules, NEW m, IsList(m.settings)
    PROVE  (\E t \in Texts(m) \ KernelKeys : \A other \in ToSet(modules) : t \notin other.translations)
           <=> \/ m.gated /\ ~(m.label \subseteq Known(modules))
               \/ \E i \in DOMAIN m.settings : ~(CatalogKeys(m.settings[i]) \subseteq Known(modules))
<1>1. (\E t \in Texts(m) \ KernelKeys : \A other \in ToSet(modules) : t \notin other.translations)
      <=> ~(Texts(m) \subseteq Known(modules))
  BY DEF Known
<1>2. PICK known : known = Known(modules)
  OBVIOUS
<1>3. PICK told : told = UNION {CatalogKeys(d) : d \in ToSet(m.settings)}
  OBVIOUS
<1>4. PICK label : label = IF m.gated THEN m.label ELSE {}
  OBVIOUS
<1>5. Texts(m) = told \cup label
  BY <1>3, <1>4 DEF Texts
<1>6. told \subseteq known <=> \A i \in DOMAIN m.settings : CatalogKeys(m.settings[i]) \subseteq known
  <2>1. ASSUME told \subseteq known, NEW i \in DOMAIN m.settings PROVE CatalogKeys(m.settings[i]) \subseteq known
    BY <1>3, <2>1 DEF ToSet
  <2>2. ASSUME \A i \in DOMAIN m.settings : CatalogKeys(m.settings[i]) \subseteq known PROVE told \subseteq known
    BY <1>3, <2>2 DEF ToSet
  <2> QED BY <2>1, <2>2
<1>7. label \subseteq known <=> (m.gated => m.label \subseteq known)
  <2>1. CASE m.gated
    BY <1>4, <2>1
  <2>2. CASE ~m.gated
    BY <1>4, <2>2
  <2> QED BY <2>1, <2>2
<1>8. Texts(m) \subseteq known <=> told \subseteq known /\ label \subseteq known
  BY <1>5
<1> QED BY <1>1, <1>2, <1>6, <1>7, <1>8

(* Each check refuses a module at fault, and none is at fault that none    *)
(* refuses.                                                                *)
LEMMA RegistryJudges ==
    ASSUME NEW modules, NEW m, IsList(m.settings)
    PROVE  RegistryRefuses(m, Known(modules))
           <=> \/ KERNEL_SETTINGS_ID \in Ids(m) \/ Cardinality(Ids(m)) < Len(m.settings)
               \/ \E t \in Texts(m) \ KernelKeys : \A other \in ToSet(modules) : t \notin other.translations
<1>1. KERNEL_SETTINGS_ID \in Ids(m) <=> \E i \in DOMAIN m.settings : m.settings[i].id = KERNEL_SETTINGS_ID
  BY DEF Ids, ToSet
<1>2. RegistryRefuses(m, Known(modules))
      <=> \/ \E i \in DOMAIN m.settings : m.settings[i].id = KERNEL_SETTINGS_ID
          \/ \E i \in DOMAIN m.settings : \E j \in 1 .. i - 1 : m.settings[j].id = m.settings[i].id
          \/ \/ m.gated /\ ~(m.label \subseteq Known(modules))
             \/ \E i \in DOMAIN m.settings : ~(CatalogKeys(m.settings[i]) \subseteq Known(modules))
  BY DEF RegistryRefuses
<1> QED BY <1>1, <1>2, UntoldTexts, RepeatedIds

LEMMA BuildJudges ==
    ASSUME NEW modules, WellFormed(modules), NEW m \in ToSet(modules)
    PROVE  /\ BuildRefuses(m) => OwnFault(modules, m)
           /\ OwnFault(modules, m) <=>
                 \/ BuildRefuses(m) \/ ReservesInteractions(m.parts)
                 \/ m.translations \cap KernelKeys # {}
                 \/ RegistryRefuses(m, Known(modules))
<1>1. /\ IsList(m.settings) /\ "parts" \in DOMAIN m
      /\ DOMAIN m.parts \subseteq MODULE_PARTS /\ DOMAIN m.built \subseteq MODULE_PARTS
      /\ IsList(PartOf(m.parts, "events")) /\ IsList(PartOf(m.built, "events"))
  BY DEF WellFormed
<1>2. OwnFault(modules, m) <=>
          \/ m.buildThrows
          \/ GivenParts(m.parts) \cap GivenParts(m.built) # {}
          \/ ReservesInteractions(m.parts) \/ ReservesInteractions(m.built)
          \/ m.translations \cap KernelKeys # {}
          \/ RegistryRefuses(m, Known(modules))
  BY <1>1, PartsTwice, Reserved, RegistryJudges DEF OwnFault
<1> QED BY <1>1, <1>2, ReservedMerged DEF BuildRefuses

LEMMA FaultOf ==
    ASSUME NEW modules, WellFormed(modules), NEW i \in DOMAIN modules
    PROVE  AtFault(modules, i) <=>
               \/ BuildRefuses(modules[i]) \/ ReservesInteractions(modules[i].parts)
               \/ modules[i].translations \cap Known(SubSeq(modules, 1, i - 1)) # {}
               \/ RegistryRefuses(modules[i], Known(modules))
               \/ \E j \in Owned(modules, i) : modules[j].name = modules[i].name
               \/ \E j \in Owned(modules, i) : Ids(modules[j]) \cap Ids(modules[i]) # {}
<1>1. modules[i] \in ToSet(modules) /\ IsList(modules)
  BY DEF WellFormed, ToSet
<1>2. (\E j \in Owned(modules, i) : Clash(modules[j], modules[i]))
      <=> \/ \E j \in Owned(modules, i) : modules[j].name = modules[i].name
          \/ \E j \in Owned(modules, i) : modules[j].translations \cap modules[i].translations # {}
          \/ \E j \in Owned(modules, i) : Ids(modules[j]) \cap Ids(modules[i]) # {}
  BY DEF Clash
<1> QED BY <1>1, <1>2, BuildJudges, CatalogClash DEF AtFault

LEMMA NamesJudged ==
    ASSUME NEW modules, WellFormed(modules)
    PROVE  /\ NamesRefused(modules) \in Seq(Refusals(modules))
           /\ NamesRefused(modules) = <<>> => \A i \in DOMAIN modules :
                 /\ ~ReservesInteractions(modules[i].parts)
                 /\ ~ \E j \in Owned(modules, i) : modules[j].name = modules[i].name
<1>1. PICK repeated : repeated = {i \in DOMAIN modules : \E j \in Owned(modules, i) : modules[j].name = modules[i].name}
  OBVIOUS
<1>2. PICK reserving : reserving = {i \in DOMAIN modules : ReservesInteractions(modules[i].parts)}
  OBVIOUS
<1>3. \A i \in repeated \cup reserving : AtFault(modules, i)
  BY <1>1, <1>2, FaultOf
<1>4. PICK first : first = FirstRefused("ModuleRegistrationError", repeated \cup reserving)
  OBVIOUS
<1>5. NamesRefused(modules) = IF first # <<>> /\ first[1].by \in repeated
                              THEN FirstRefused("DuplicateModuleError", repeated) ELSE first
  BY <1>1, <1>2, <1>4 DEF NamesRefused
<1>6. IsList(modules) /\ repeated \subseteq DOMAIN modules /\ reserving \subseteq DOMAIN modules
  BY <1>1, <1>2 DEF WellFormed
<1>7. /\ first \in Seq(Refusals(modules)) /\ FirstRefused("DuplicateModuleError", repeated) \in Seq(Refusals(modules))
      /\ first = <<>> <=> repeated \cup reserving = {}
      /\ FirstRefused("DuplicateModuleError", repeated) = <<>> <=> repeated = {}
  <2>1. "ModuleRegistrationError" \in RefusalErrors /\ "DuplicateModuleError" \in RefusalErrors
    BY DEF RefusalErrors
  <2>2. repeated \cup reserving \subseteq DOMAIN modules
    BY <1>6
  <2>3. /\ first \in Seq(Refusals(modules))
        /\ first = <<>> <=> repeated \cup reserving = {}
    BY <1>3, <1>4, <1>6, <2>1, <2>2, FirstRefusedFacts
  <2>4. /\ FirstRefused("DuplicateModuleError", repeated) \in Seq(Refusals(modules))
        /\ FirstRefused("DuplicateModuleError", repeated) = <<>> <=> repeated = {}
    BY <1>3, <1>6, <2>1, FirstRefusedFacts
  <2> QED BY <2>3, <2>4
<1>8. NamesRefused(modules) = <<>> => repeated \cup reserving = {}
  BY <1>5, <1>7
<1> QED BY <1>1, <1>2, <1>5, <1>7, <1>8

(* A check that refuses the first of the modules that are so and so.       *)
LEMMA CheckJudges ==
    ASSUME NEW modules, WellFormed(modules)
    PROVE  /\ CatalogsRefused(modules) \in Seq(Refusals(modules))
           /\ SettingsRefused(modules) \in Seq(Refusals(modules))
           /\ RegistryRefused(modules) \in Seq(Refusals(modules))
           /\ BuildRefused(modules) \in Seq(Refusals(modules))
           /\ CatalogsRefused(modules) = <<>> => \A i \in DOMAIN modules :
                 modules[i].translations \cap Known(SubSeq(modules, 1, i - 1)) = {}
           /\ SettingsRefused(modules) = <<>> => \A i \in DOMAIN modules :
                 ~RegistryRefuses(modules[i], Known(modules))
           /\ RegistryRefused(modules) = <<>> => \A i \in DOMAIN modules :
                 ~ \E j \in Owned(modules, i) : Ids(modules[j]) \cap Ids(modules[i]) # {}
           /\ BuildRefused(modules) = <<>> => \A i \in DOMAIN modules : ~BuildRefuses(modules[i])
<1>1. IsList(modules)
  BY DEF WellFormed
<1>2. ASSUME NEW S, S \subseteq DOMAIN modules, \A i \in S : AtFault(modules, i)
      PROVE  /\ FirstRefused("ModuleRegistrationError", S) \in Seq(Refusals(modules))
             /\ FirstRefused("ModuleRegistrationError", S) = <<>> => S = {}
  <2>1. "ModuleRegistrationError" \in RefusalErrors
    BY DEF RefusalErrors
  <2> QED BY <1>1, <1>2, <2>1, FirstRefusedFacts
<1>3. /\ CatalogsRefused(modules) \in Seq(Refusals(modules))
      /\ CatalogsRefused(modules) = <<>> => \A i \in DOMAIN modules :
            modules[i].translations \cap Known(SubSeq(modules, 1, i - 1)) = {}
  <2>1. PICK S : S = {i \in DOMAIN modules : modules[i].translations \cap Known(SubSeq(modules, 1, i - 1)) # {}}
    OBVIOUS
  <2>2. S \subseteq DOMAIN modules /\ \A i \in S : AtFault(modules, i)
    BY <2>1, FaultOf
  <2>3. CatalogsRefused(modules) = FirstRefused("ModuleRegistrationError", S)
    BY <2>1 DEF CatalogsRefused
  <2> QED BY <1>2, <2>1, <2>2, <2>3
<1>4. /\ SettingsRefused(modules) \in Seq(Refusals(modules))
      /\ SettingsRefused(modules) = <<>> => \A i \in DOMAIN modules :
            ~RegistryRefuses(modules[i], Known(modules))
  <2>1. PICK S : S = {i \in DOMAIN modules : RegistryRefuses(modules[i], Known(modules))}
    OBVIOUS
  <2>2. S \subseteq DOMAIN modules /\ \A i \in S : AtFault(modules, i)
    BY <2>1, FaultOf
  <2>3. SettingsRefused(modules) = FirstRefused("ModuleRegistrationError", S)
    BY <2>1 DEF SettingsRefused
  <2> QED BY <1>2, <2>1, <2>2, <2>3
<1>5. /\ RegistryRefused(modules) \in Seq(Refusals(modules))
      /\ RegistryRefused(modules) = <<>> => \A i \in DOMAIN modules :
            ~ \E j \in Owned(modules, i) : Ids(modules[j]) \cap Ids(modules[i]) # {}
  <2>1. PICK S : S = {i \in DOMAIN modules : \E j \in Owned(modules, i) : Ids(modules[j]) \cap Ids(modules[i]) # {}}
    OBVIOUS
  <2>2. S \subseteq DOMAIN modules /\ \A i \in S : AtFault(modules, i)
    BY <2>1, FaultOf
  <2>3. RegistryRefused(modules) = FirstRefused("ModuleRegistrationError", S)
    BY <2>1 DEF RegistryRefused
  <2> QED BY <1>2, <2>1, <2>2, <2>3
<1>6. /\ BuildRefused(modules) \in Seq(Refusals(modules))
      /\ BuildRefused(modules) = <<>> => \A i \in DOMAIN modules : ~BuildRefuses(modules[i])
  <2>1. PICK S : S = {i \in DOMAIN modules : BuildRefuses(modules[i])}
    OBVIOUS
  <2>2. S \subseteq DOMAIN modules /\ \A i \in S : AtFault(modules, i)
    BY <2>1, FaultOf
  <2>3. BuildRefused(modules) = FirstRefused("ModuleRegistrationError", S)
    BY <2>1 DEF BuildRefused
  <2> QED BY <1>2, <2>1, <2>2, <2>3
<1> QED BY <1>3, <1>4, <1>5, <1>6

(* What createBot makes of its modules, in whatever order they are.        *)
LEMMA AssemblyJudges ==
    ASSUME NEW modules, WellFormed(modules)
    PROVE  /\ AssembleModules(modules) \in Seq(Refusals(modules))
           /\ AssembleModules(modules) = <<>> /\ BuildRefused(modules) = <<>> =>
                 \A i \in DOMAIN modules : ~AtFault(modules, i)
<1>1. PICK R : R = Refusals(modules)
  OBVIOUS
<1>2. PICK refusals : refusals = NamesRefused(modules) \o CatalogsRefused(modules) \o SettingsRefused(modules)
                                 \o RegistryRefused(modules)
  OBVIOUS
<1>3. /\ refusals \in Seq(R)
      /\ refusals = <<>> => /\ NamesRefused(modules) = <<>> /\ CatalogsRefused(modules) = <<>>
                            /\ SettingsRefused(modules) = <<>> /\ RegistryRefused(modules) = <<>>
  <2>1. /\ NamesRefused(modules) \in Seq(R) /\ CatalogsRefused(modules) \in Seq(R)
        /\ SettingsRefused(modules) \in Seq(R) /\ RegistryRefused(modules) \in Seq(R)
    BY <1>1, NamesJudged, CheckJudges
  <2>2. ASSUME NEW a \in Seq(R), NEW b \in Seq(R), NEW c \in Seq(R), NEW d \in Seq(R)
        PROVE  /\ a \o b \o c \o d \in Seq(R)
               /\ a \o b \o c \o d = <<>> => a = <<>> /\ b = <<>> /\ c = <<>> /\ d = <<>>
    OBVIOUS
  <2> QED BY <1>2, <2>1, <2>2
<1>4. AssembleModules(modules) = SubSeq(refusals, 1, Min({1, Len(refusals)}))
  BY <1>2 DEF AssembleModules, FirstOf
<1>5. Min({1, Len(refusals)}) = IF refusals = <<>> THEN 0 ELSE 1
  <2>1. PICK n \in Nat : n = Len(refusals)
    BY <1>3
  <2>2. Min({1, n}) \in {1, n} /\ Min({1, n}) <= 1 /\ Min({1, n}) <= n
    BY MinIsThere
  <2>3. refusals = <<>> <=> n = 0
    BY <1>3, <2>1
  <2>4. 1 \in Nat
    OBVIOUS
  <2> QED BY <2>1, <2>2, <2>3
<1>6. /\ SubSeq(refusals, 1, 0) = <<>> /\ SubSeq(refusals, 1, 0) \in Seq(R)
      /\ refusals # <<>> => SubSeq(refusals, 1, 1) \in Seq(R) /\ SubSeq(refusals, 1, 1) # <<>>
  BY <1>3
<1>7. /\ AssembleModules(modules) \in Seq(R)
      /\ AssembleModules(modules) = <<>> => refusals = <<>>
  BY <1>4, <1>5, <1>6
<1> QED BY <1>1, <1>3, <1>7, NamesJudged, CheckJudges, FaultOf

-------------------------------------------------------------------------------
LEMMA AssemblyStep == StoreInv /\ CopyInv /\ AssemblyInv /\ [Next]_vars => AssemblyInv'
<1> SUFFICES ASSUME StoreInv, CopyInv, AssemblyInv, [Next]_vars PROVE AssemblyInv'
  OBVIOUS
<1>1. PICK modules : modules = Modules
  OBVIOUS
<1>2. modules' = modules /\ Modules' = modules
  BY <1>1, InstanceStays
<1>3. WellFormed(modules)
  BY <1>1 DEF StoreInv, StoreTypeOK, Instances, Modules
<1>4. ASSUME UNCHANGED bot PROVE AssemblyInv'
  BY <1>1, <1>2, <1>4 DEF AssemblyInv
<1>5. ASSUME NEW p \in Assembling, Assemble(p) PROVE AssemblyInv'
  <2>1. PICK refusal : refusal = AssembleModules(modules)
    OBVIOUS
  <2>2. PICK b : b = [at |-> IF refusal = <<>> THEN "assembled" ELSE "refused",
                      refusal |-> refusal, subscribed |-> refusal = <<>>]
    OBVIOUS
  <2>3. bot' = [bot EXCEPT ![p] = b]
    BY <1>1, <1>5, <2>1, <2>2 DEF Assemble
  <2>4. refusal \in Seq(Refusals(modules))
    BY <1>3, <2>1, AssemblyJudges
  <2>5. /\ b.at \in {"assembled", "created"} => AssembleModules(modules) = <<>>
        /\ b.at # "created" /\ (b.subscribed <=> b.at \in {"assembled", "created"})
        /\ b.at = "refused" => b.refusal \in Seq(Refusals(modules)) \ {<<>>}
    BY <2>1, <2>2, <2>4
  <2> QED BY <1>1, <1>2, <2>3, <2>5 DEF AssemblyInv
<1>6. ASSUME NEW p \in Assembling, Build(p) PROVE AssemblyInv'
  <2>1. PICK refusal : refusal = BuildRefused(modules)
    OBVIOUS
  <2>2. PICK b : b = [at |-> IF refusal = <<>> THEN "created" ELSE "refused",
                      refusal |-> refusal,
                      subscribed |-> refusal = <<>> /\ bot[p].subscribed]
    OBVIOUS
  <2>3. bot' = [bot EXCEPT ![p] = b] /\ bot[p].at = "assembled"
    BY <1>1, <1>6, <2>1, <2>2 DEF Build
  <2>4. refusal \in Seq(Refusals(modules)) /\ AssembleModules(modules) = <<>>
    BY <1>1, <1>3, <2>1, <2>3, CheckJudges DEF AssemblyInv
  <2>5. /\ b.at = "created" => BuildRefused(modules) = <<>>
        /\ b.at = "refused" => b.refusal \in Seq(Refusals(modules)) \ {<<>>}
        /\ b.at \in {"created", "refused"}
    BY <2>1, <2>2, <2>4
  <2>6. b.subscribed <=> b.at = "created"
    <3>1. bot[p].subscribed
      BY <2>3 DEF AssemblyInv
    <3> QED BY <2>2, <3>1
  <2> QED BY <1>1, <1>2, <2>3, <2>4, <2>5, <2>6 DEF AssemblyInv
<1>7. ASSUME NEW p \in Processes, End(p) PROVE AssemblyInv'
  <2>1. CASE p \in Assembling
    <3>1. bot' = [bot EXCEPT ![p] = NoBot]
      BY <1>7, <2>1 DEF End
    <3>2. NoBot.at = "none" /\ ~NoBot.subscribed
      BY DEF NoBot
    <3> QED BY <1>1, <1>2, <3>1, <3>2 DEF AssemblyInv
  <2>2. CASE p \notin Assembling
    BY <1>4, <1>7, <2>2 DEF End
  <2> QED BY <2>1, <2>2
<1>8. ASSUME NEW p \in Processes, Start(p) \/ Store(p) PROVE AssemblyInv'
  BY <1>4, <1>8 DEF Start, Store
<1>9. CASE \/ \E p \in Bots : WriteSettings(p)
           \/ Deploy \/ SetUpModule \/ HearEvent \/ HandleEvent
  BY <1>4, <1>9 DEF WriteSettings, Deploy, SetUpModule, HearEvent, HandleEvent, sandboxVars
<1>10. CASE BeginCopy \/ (\E k \in RecordKeys : CopyRecord(k)) \/ RecordCopied \/ EndCopy \/ UNCHANGED vars
  BY <1>4, <1>10 DEF BeginCopy, CopyRecord, RecordCopied, EndCopy, sandboxVars, vars
<1> QED BY <1>5, <1>6, <1>7, <1>8, <1>9, <1>10 DEF Next

LEMMA Judged == StoreInv /\ AssemblyInv => AssemblyJudged
<1> SUFFICES ASSUME StoreInv, AssemblyInv, NEW p \in Assembling
             PROVE  /\ Created(p) => \A i \in DOMAIN Modules : ~AtFault(Modules, i)
                    /\ bot[p].at = "refused" => AtFault(Modules, bot[p].refusal[1].by)
                    /\ bot[p].subscribed <=> bot[p].at \in {"assembled", "created"}
  BY DEF AssemblyJudged
<1>1. WellFormed(Modules)
  BY DEF StoreInv, StoreTypeOK, Instances, Modules
<1>2. Created(p) => \A i \in DOMAIN Modules : ~AtFault(Modules, i)
  BY <1>1, AssemblyJudges DEF Created, AssemblyInv
<1>3. bot[p].at = "refused" => AtFault(Modules, bot[p].refusal[1].by)
  <2>1. \A s \in Seq(Refusals(Modules)) \ {<<>>} : s[1] \in Refusals(Modules)
    OBVIOUS
  <2> QED BY <2>1 DEF AssemblyInv, Refusals
<1> QED BY <1>2, <1>3 DEF Created, AssemblyInv

-------------------------------------------------------------------------------
IInv == StoreInv /\ CopyInv /\ DeployInv /\ EventInv /\ AssemblyInv

LEMMA InvInit == Instances /\ Init => IInv
<1>1. Init => AssemblyInv
  BY DEF Init, NoBot, AssemblyInv
<1> QED BY <1>1, StoreInit, CopyInit, DeployInvInit, EventInvInit DEF IInv

LEMMA InvStep == IInv /\ [Next]_vars => IInv'
<1>1. CopyInv => CopyTypeOK
  BY DEF CopyInv
<1> QED BY <1>1, StoreStep, CopyStep, DeployStep, EventStep, AssemblyStep DEF IInv

(* The inductive invariant holds of every behaviour of the programs.       *)
THEOREM Invariance == Instances /\ Spec => []IInv
BY InvInit, InvStep, PTL DEF Spec

(* However many processes open the database at once, fail and die: its     *)
(* schema is always one that whole migrations made, each run once, and     *)
(* nobody works on another than its own (sqlite-settings-store.ts migrate).*)
THEOREM OneSchema == Instances /\ Spec => []SchemaWhole
<1>1. IInv => SchemaWhole
  BY DEF IInv, StoreInv
<1> QED BY <1>1, Invariance, PTL

(* The rows of the database implement the SettingsStore port, whichever    *)
(* processes share it: each change is one atomic compare-and-set, copy or  *)
(* delete of the port (sqlite-settings-store.ts write, delete).            *)
THEOREM ImplementsPort == Instances /\ Spec => SqliteAtomic
<1>1. IInv /\ [Next]_vars => [Shared!Next]_(database.rows)
  BY AtomicStep DEF IInv
<1> QED BY <1>1, Invariance, PTL DEF Spec, SqliteAtomic

(* However often the copy is killed, stopped and run again, beside bots    *)
(* that write: what it has done once it is done                            *)
(* (copy-settings-records.ts copySettingsRecords).                         *)
THEOREM CopyDone == Instances /\ Spec => []CopyConverges
<1>1. IInv => CopyConverges
  BY Converges DEF IInv
<1> QED BY <1>1, Invariance, PTL

(* For any modules: createBot makes a bot of them exactly when none is at  *)
(* fault, and refuses them in the name of one that is                      *)
(* (assemble-modules.ts, create-bot.ts).                                   *)
THEOREM AssemblyRight == Instances /\ Spec => []AssemblyJudged
<1>1. IInv => AssemblyJudged
  BY Judged DEF IInv
<1> QED BY <1>1, Invariance, PTL

(* For any commands and guilds: a scope holds what it held or all that is  *)
(* meant for it, and after a deployment everyone of them does              *)
(* (router.ts deployCommands).                                             *)
THEOREM DeploymentRight == Instances /\ Spec => []DeployedAsDeclared
<1>1. IInv => DeployedAsDeclared
  BY Deployed DEF IInv
<1> QED BY <1>1, Invariance, PTL

(* For any modules and events: a handler only runs in a module that is set *)
(* up, and one for a single event only once (event-router.ts).             *)
THEOREM OnlyWhenReady == Instances /\ Spec => []HandlersRunWhenReady
<1>1. IInv => HandlersRunWhenReady
  BY DEF IInv, EventInv, HandlersRunWhenReady
<1> QED BY <1>1, Invariance, PTL

===============================================================================
