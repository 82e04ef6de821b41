-------------------------------- MODULE Sandbox --------------------------------
(***************************************************************************)
(* The sandbox bot's programs over one SQLite database: the bot (main.ts,  *)
(* maybe twice at once, as when it is redeployed), the script that         *)
(* registers its commands (register.ts) and the one that copies the JSON   *)
(* store's records into the database (copy-settings.ts).  The first two    *)
(* assemble the same bot from the same modules.  Each may die and be       *)
(* started again.                                                          *)
(***************************************************************************)
EXTENDS SqliteSettingsStore, CommandDeployment, EventRouter

CONSTANTS
    Scenarios           \* the modules, JSON records and rows of an instance, the
                        \* user_version found, how often each program starts, the
                        \* bot's calls and its events

BOT == "bot"            \* the bot whose events are followed
REGISTER == "register"
COPY == "copy"
ASSUME ProgramsAssumption == {BOT, REGISTER, COPY} \subseteq Processes

VARIABLES
    scenario,           \* which of Scenarios is played
    starts,             \* starts[p]: how often p was started
    bot,                \* bot[p]: what createBot made, in each process that calls it
    copying,            \* copySettingsRecords: what is left, copied and skipped
    calls, emitted,     \* how often the bot called its store, and events came in
    touched             \* history: the records the bot changed

sandboxVars == <<scenario, starts, bot, copying, calls, emitted, touched>>
vars == <<sqliteVars, deployVars, eventVars, sandboxVars>>

Bots == Processes \ {REGISTER, COPY}
Modules == Scenarios[scenario].modules
Source == Scenarios[scenario].source
Target == Scenarios[scenario].target
Shared == INSTANCE SettingsStore
            WITH Writers <- Bots, records <- database.rows,
                 Copies <- UNION {Range(Scenarios[i].source) : i \in DOMAIN Scenarios}

Assembling == Bots \cup {REGISTER}
NoBot == [at |-> "none", refusal |-> <<>>, subscribed |-> FALSE]
NotCopying == [at |-> "none", left |-> {}, copied |-> {}, skipped |-> {}]

Init ==
    /\ scenario \in DOMAIN Scenarios
    /\ \E v \in Scenarios[scenario].versions : SqliteInit(v, Target)
    /\ DeployInit
    /\ EventInit
    /\ starts = [p \in Processes |-> 0]
    /\ bot = [p \in Assembling |-> NoBot]
    /\ copying = NotCopying
    /\ calls = 0 /\ emitted = 0 /\ touched = {}

-------------------------------------------------------------------------------
Start(p) ==
    /\ starts[p] < Scenarios[scenario].starts[p]
    /\ Open(p)
    /\ starts' = [starts EXCEPT ![p] = @ + 1]
    /\ UNCHANGED <<deployVars, eventVars, scenario, bot, copying, calls, emitted, touched>>

(* What the process does with its database goes on in SqliteSettingsStore. *)
Store(p) ==
    /\ Sqlite(p)
    /\ touched' = IF p \in Bots /\ database'.rows # database.rows
                  THEN touched \cup {connection[p].call.key} ELSE touched
    /\ UNCHANGED <<deployVars, eventVars, scenario, starts, bot, copying, calls, emitted>>

(* createBot: the modules are assembled before anything subscribes; then   *)
(* the settings service listens to the notifier.                           *)
Assemble(p) ==
    /\ At(p) = "ready" /\ bot[p].at = "none"
    /\ bot' = [bot EXCEPT ![p] =
                  LET refusal == AssembleModules(Modules) IN
                  [at |-> IF refusal = <<>> THEN "assembled" ELSE "refused",
                   refusal |-> refusal, subscribed |-> refusal = <<>>]]
    /\ UNCHANGED <<sqliteVars, deployVars, eventVars, scenario, starts, copying, calls, emitted, touched>>

(* The modules build; the catch of createBot undoes what has subscribed.   *)
Build(p) ==
    /\ bot[p].at = "assembled"
    /\ LET refusal == BuildRefused(Modules) IN
       /\ bot' = [bot EXCEPT ![p] =
                     [at |-> IF refusal = <<>> THEN "created" ELSE "refused",
                      refusal |-> refusal,
                      subscribed |-> refusal = <<>> /\ bot[p].subscribed]]
       /\ IF p = BOT /\ refusal = <<>> THEN Bind(BuildModules(Modules)) ELSE UNCHANGED eventVars
    /\ UNCHANGED <<sqliteVars, deployVars, scenario, starts, copying, calls, emitted, touched>>

Created(p) == bot[p].at = "created"
Built == BuildModules(Modules)

-------------------------------------------------------------------------------
(* register.ts                                                             *)
Deploy ==
    /\ Created(REGISTER)
    /\ \/ deployment.pc = "idle" /\ BeginDeployment(Built)
       \/ \E s \in deployment.left : Put(s)
       \/ PutFails
    /\ UNCHANGED <<sqliteVars, eventVars, sandboxVars>>

(* main.ts: the bot writes its settings, sets its modules up and hears     *)
(* events.                                                                 *)
WriteSettings(p) ==
    /\ Created(p) /\ calls < Scenarios[scenario].calls
    /\ \/ \E k \in RecordKeys, expected \in 0 .. Scenarios[scenario].calls :
             Call(p, "write", k, expected, [revision |-> expected + 1, by |-> p])
       \/ \E k \in RecordKeys : Call(p, "delete", k, 0, Absent)
    /\ calls' = calls + 1
    /\ UNCHANGED <<deployVars, eventVars, scenario, starts, bot, copying, emitted, touched>>

SetUpModule ==
    /\ Created(BOT)
    /\ \E i \in DOMAIN status, result \in {"ready", "unavailable"} : SetUp(i, result)
    /\ UNCHANGED <<sqliteVars, deployVars, sandboxVars>>

HearEvent ==
    /\ Created(BOT) /\ emitted < Scenarios[scenario].events
    /\ \E l \in listeners : Emit(Built, EventOf(Built, l).name)
    /\ emitted' = emitted + 1
    /\ UNCHANGED <<sqliteVars, deployVars, scenario, starts, bot, copying, calls, touched>>

HandleEvent ==
    /\ Created(BOT)
    /\ \E l \in DOMAIN handling :
          (\E enabled \in BOOLEAN : GateAnswers(Built, l, enabled)) \/ HandlerEnds(l)
    /\ UNCHANGED <<sqliteVars, deployVars, sandboxVars>>

-------------------------------------------------------------------------------
(* copy-settings.ts: each record of the JSON file, which nothing writes    *)
(* meanwhile, is created in the database.                                  *)
BeginCopy ==
    /\ At(COPY) = "ready" /\ copying.at = "none"
    /\ copying' = [NotCopying EXCEPT !.at = "next", !.left = DOMAIN Source]
    /\ UNCHANGED <<sqliteVars, deployVars, eventVars, scenario, starts, bot, calls, emitted, touched>>

CopyRecord(k) ==
    /\ copying.at = "next" /\ k \in copying.left
    /\ Call(COPY, "write", k, 0, Source[k])
    /\ copying' = [copying EXCEPT !.at = "writing", !.left = @ \ {k}]
    /\ UNCHANGED <<deployVars, eventVars, scenario, starts, bot, calls, emitted, touched>>

Handled == DOMAIN Source \ (copying.left \cup copying.copied \cup copying.skipped)

(* Faulty: whatever keeps a record from being written skips it.            *)
CopiedOrSkipped ==
    /\ copying.at = "writing" /\ At(COPY) = "ready"
    /\ copying' = [copying EXCEPT !.at = "next",
                      !.copied = IF connection[COPY].result = "committed" THEN @ \cup Handled ELSE @,
                      !.skipped = IF connection[COPY].result = "committed" THEN @ ELSE @ \cup Handled]
    /\ UNCHANGED <<sqliteVars, deployVars, eventVars, scenario, starts, bot, calls, emitted, touched>>

(* A conflict skips the record; any other failure stops the copy.          *)
RecordCopied ==
    /\ copying.at = "writing" /\ At(COPY) = "ready"
    /\ copying' = [copying EXCEPT
                      !.at = IF connection[COPY].result = "failed" THEN "stopped" ELSE "next",
                      !.copied = IF connection[COPY].result = "committed" THEN @ \cup Handled ELSE @,
                      !.skipped = IF connection[COPY].result = "conflict" THEN @ \cup Handled ELSE @]
    /\ UNCHANGED <<sqliteVars, deployVars, eventVars, scenario, starts, bot, calls, emitted, touched>>

EndCopy ==
    /\ copying.at = "next" /\ copying.left = {}
    /\ copying' = [copying EXCEPT !.at = "done"]
    /\ UNCHANGED <<sqliteVars, deployVars, eventVars, scenario, starts, bot, calls, emitted, touched>>

-------------------------------------------------------------------------------
(* A program is killed, or ends; what it had in memory is gone.            *)
End(p) ==
    /\ connection[p] # Closed
    /\ Die(p)
    /\ bot' = IF p \in Assembling THEN [bot EXCEPT ![p] = NoBot] ELSE bot
    /\ copying' = IF p = COPY THEN NotCopying ELSE copying
    /\ IF p = REGISTER
       THEN deployment' = NotDeploying /\ UNCHANGED scopes ELSE UNCHANGED deployVars
    /\ IF p = BOT
       THEN status' = <<>> /\ listeners' = {} /\ handling' = <<>> /\ ran' = <<>> ELSE UNCHANGED eventVars
    /\ UNCHANGED <<scenario, starts, calls, emitted, touched>>

Next ==
    \/ \E p \in Processes : Start(p) \/ Store(p) \/ End(p)
    \/ \E p \in Assembling : Assemble(p) \/ Build(p)
    \/ Deploy
    \/ \E p \in Bots : WriteSettings(p)
    \/ SetUpModule
    \/ HearEvent
    \/ HandleEvent
    \/ BeginCopy
    \/ \E k \in RecordKeys : CopyRecord(k)
    \/ RecordCopied
    \/ EndCopy

Spec == Init /\ [][Next]_vars

-------------------------------------------------------------------------------
(* The rows of the database are the records of a SettingsStore, whoever    *)
(* shares it, and whatever fails or dies: a write lands on the revision it *)
(* expects, in one step, and touches no other row                          *)
(* (sqlite-settings-store.ts write, copy-settings-records.ts).             *)
SqliteAtomic == [][Shared!Next]_(database.rows)

(* The schema is always one that a whole number of migrations made, each   *)
(* run once, and the one user_version tells; no process works on another   *)
(* than its own (sqlite-settings-store.ts migrate).                        *)
SchemaWhole ==
    /\ database.schema = [i \in 1 .. database.version |-> i]
    /\ \A p \in Processes :
          At(p) \in {"ready", "calling", "writing", "written"} => database.version = Migrations

(* However often the copy was stopped or killed and run again: once it is  *)
(* done, it has told of each record what became of it, and a record the    *)
(* bot left alone is the target's own, or else the source's                *)
(* (copy-settings-records.ts copySettingsRecords).                         *)
CopyConverges ==
    copying.at = "done" =>
        /\ copying.copied \cup copying.skipped = DOMAIN Source
        /\ copying.copied \cap copying.skipped = {}
        /\ \A k \in DOMAIN Source \ touched :
              database.rows[k] = IF Target[k] = Absent THEN Source[k] ELSE Target[k]

(* createBot refuses exactly the modules that cannot make a bot, names one *)
(* at fault (never the first to use what a later one repeats), and leaves  *)
(* no subscription behind, whichever check refused them; a bot that it     *)
(* creates has kept its own (assemble-modules.ts, create-bot.ts).          *)
AssemblyJudged ==
    \A p \in Assembling :
        /\ Created(p) => \A i \in DOMAIN Modules : ~AtFault(Modules, i)
        /\ bot[p].at = "refused" => AtFault(Modules, bot[p].refusal[1].by)
        /\ bot[p].subscribed <=> bot[p].at \in {"assembled", "created"}

(* A finished deployment left in every scope it put exactly the commands   *)
(* meant for it, nothing stale, and other guilds alone; a scope always     *)
(* holds a whole deployment (router.ts deployCommands).                    *)
MeantFor(s) == BucketOf({r \in Registered(Built) : r.command.body}, s)
DeployedAsDeclared ==
    /\ \A s \in Scopes : scopes[s] \in {Stale, MeantFor(s)}
    /\ deployment.pc = "done" =>
          \A s \in Scopes : scopes[s] = IF s = Global \/ MeantFor(s) # {} THEN MeantFor(s) ELSE Stale

(* No handler runs in a module that is not set up, whenever the event came *)
(* in, and a handler for one event runs for one (event-router.ts).         *)
HandlersRunWhenReady ==
    \A l \in DOMAIN handling :
        /\ ran[l] > 0 => status[l[1]] = "ready"
        /\ EventOf(Built, l).once => ran[l] <= 1

===============================================================================
