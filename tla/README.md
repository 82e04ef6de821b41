# discord-kernel: TLA+ specifications

`discord-kernel` (TypeScript) is a framework for Discord bots. A bot hands it
modules (commands, components, events, jobs, settings declarations) and ports
(databases, a settings store, a change notifier); the kernel starts them,
routes interactions to them, keeps their settings and shuts them down. The
repository also holds a demonstration bot (`src/apps/sandbox-bot`), with two
adapters of the settings store.

The program is single-threaded JavaScript. Nothing interrupts a function between
two awaits, and anything may happen at an await: **an action of these
specifications is the code between two awaits**, named for the function it
belongs to. What is not the kernel's (a store, an adapter, Discord, the clock, a
job) answers when and how it likes, within what its port allows.

Paths below are relative to `src/packages/kernel/src/`, or to
`src/apps/sandbox-bot/src/` where they begin with `sandbox:`.
`PROJECT.json` maps every definition to its lines, and lists the runs, the
hazards and the theorems.

## 1. The system

### Components, their state and their operations

| Component | State | Operations | Talks to |
|---|---|---|---|
| Settings service (`settings/settings-service.ts`) | none of its own | `get`, `getForSurface`, `status`, `validate`, `set`, `reset`, `suggest`, `label` | store port, cache, notifier, migrations of the declarations |
| Settings cache (`settings/cache.ts`) | `entries`, `generations` | `read`, `invalidate` | the clock; subscribed to the notifier |
| Change notifier (`settings/in-memory/in-process-notifier.ts`; adapters) | listeners | `notify`, `subscribe` | caches, modules |
| Settings store (`settings/ports/settings-store.ts`) | the records | `read`, `write` (compare-and-set), `delete` | in-memory, JSON file and SQLite adapters |
| JSON file store (`sandbox:shared/settings/json-file-settings-store.ts`) | the file, `pending` | the port, `drain` | keyed queue, file system |
| Keyed queue (`concurrency/keyed-queue.ts`) | `chains`: a promise per key | `run` | whoever serialises work |
| Bot lifecycle (`bot/lifecycle.ts`, `process-handlers.ts`, `module-status.ts`) | state, connected databases, module status, cleanup budget, report | `start`, `stop`, signals, crashes | databases, migrations, gateway, modules, scheduler, process |
| Lifecycle dispatcher (`bot/lifecycle-dispatcher.ts`) | reads the lifecycle state | answers interactions while the bot is not running | first in the interaction chain |
| Scheduler (`scheduler/scheduler.ts`) | `tasks`, timers, `running` | `start`, `rescheduleCron`, `stop` | node-cron, timers, the jobs of modules |
| Interaction routing (`discord/interaction`, `discord/command`, `discord/components/component-router.ts`) | registries | `register`, `handle`, `dispatch`, `deployCommands` | gate, guards, handlers, Discord |
| Guards (`discord/command/*-guard.ts`, `authz/`, `discord/settings/require-configured.ts`) | cooldown windows | `check` | settings service, authorizer |
| Module gate (`settings/system/module-gate.ts`) | none | `isEnabled`, failing open | settings service |
| Events (`discord/events/event-router.ts`) | registrations | `bind`, the listener | gate, availability |
| Interactive messages, paginators (`discord/components`) | the state of one screen | clicks, `update`, `stop`, idle end | Discord collectors |
| Settings editor (`discord/components/settings-editor`) | screen state: subject, path, notice, confirmation | pick, submit, reset, navigate | modal prompts, settings service |
| Modal prompts (`discord/interaction/prompt-modal.ts`, `modal.ts`) | one wait per opening | `promptModal` | Discord, the settings editor |
| Declarations, registry, validation, suggestions (`settings/`) | none | `defineSettings`, `validate`, `suggest` | zod, guild directory |
| Resilience (`resilience/retry.ts`, `concurrency/run-with-concurrency.ts`) | per call | `withRetry`, `runWithConcurrency` | whoever calls |
| Sandbox bot (`sandbox:main.ts`, `register.ts`, `copy-settings.ts`) | the SQLite database they share | start, register commands, copy the JSON records | assembly, SQLite store, Discord |
| Assembly (`bot/create-bot.ts`, `assemble-modules.ts`) | none | compose a bot, once | everything |
| i18n, views, colours, dates, configuration, ports | none | pure functions | - |

### What is hard, and what makes each part correct

* **Settings.** Every process of a bot (shards, an HTTP API) has its own service
  and cache over one store. `get` may read, migrate, write back and read again,
  with other callers at every await; `set` and `reset` read, then write what they
  read. Correct means: no update is lost, a process that has announced a change
  never answers with an older record, the cache never keeps a load that an
  invalidation overtook, a record of a newer declaration survives a rollback, and
  lost notifications only cost staleness for a while.
* **File store.** A write reads, checks and replaces the whole file in several
  file operations, any of which may fail or be the last of the process. Correct
  means that, seen from outside, the file is the port's compare-and-set.
* **Keyed queue.** Chains outlive their tasks and tasks reject. Correct means
  order, no poisoning, no leak, no loss.
* **Lifecycle.** `start` is a chain of adapter calls that may fail, hang or be
  overtaken by `stop`, which has a deadline, and may itself be asked for by a
  caller, a failing start, a signal and a crash at once. Correct means that what
  was acquired is released exactly once, in an order and within a time, that the
  report and the exit code do not lie, and that nobody waits for ever.
* **Scheduler.** Runs are never awaited, so `stop` and `rescheduleCron` meet runs
  in flight. Correct means no orphan timer, no overlap, and jobs that go on.
* **Interactions.** One interaction passes lifecycle, gate,
  authorization, guard and handler, each asynchronous and able to fail. Correct
  means one initial response, the same one for everybody when the module is off,
  nobody left without an answer unnoticed, and no failure of a handler that takes
  the bot down by itself (a view that does not render does).
* **Screens.** The controls, levels and modals of a settings screen are computed
  from the declaration; its handlers capture state, await, and write it back,
  while other clicks, modals, writers and the idle timer do the same. Correct
  means that whatever is declared can be shown within Discord's limits, that what
  a modal opens on means, sent back, what is stored, that a modal changes only
  what was changed in it, and that every click ends.
* **The SQLite store and the programs around it.** Several processes open,
  migrate, read and change one database, the copy of the older store and the
  registration of commands may stop half-way and be run again. Correct means
  that the rows are the port's compare-and-set, the schema is always whole, and
  running a program again ends where one run without failure would have.
* **Assembly and events.** Everything is checked once, in a fixed order, and
  bound before the bot logs in, while modules are set up after it. Correct means
  that a bot is refused exactly when it should be, and that no handler runs in a
  module that is not set up.
* **Fan-out and retry.** Lanes share an index across awaits, and one that gives
  up does not stop the others. Correct means each item once and a result only
  when all of them are in.

## 2. Modules

| Module | Models | Checked by |
|---|---|---|
| `SettingsData` | the record of one module and guild; `decodeStored`, `migrateStored`, `readable`, `assertWritable`, the merge of a patch | (used by the next three) |
| `SettingsRecord` | abstract: what the service promises of a record | refined by `SettingsService` |
| `SettingsService` | the service and the cache in every process, the notifier, the clock, restarts | `settings_single`, `settings_bridged` |
| `SettingsServiceProofs` | theorems about `SettingsService` | tlapm |
| `KeyedQueueProofs` | theorems about `KeyedQueue` | tlapm |
| `JsonSettingsStoreProofs` | theorems about `JsonSettingsStore`, on top of those of the queue (INSTANCE) | tlapm |
| `BotLifecycleProofs` | theorems about `BotLifecycle` | tlapm |
| `ConcurrencyProofs` | theorems about `Scheduler` and `FanOut` | tlapm |
| `InteractionPipelineProofs` | theorems about `InteractionPipeline` | tlapm |
| `SandboxProofs` | theorems about `Sandbox` and the four modules it composes | tlapm |
| `ScreenProofs` | theorems about `SettingsScreen`, `ScreenLayout`, `EditorView` and `Paginators` | tlapm |
| `SettingsStore` | abstract: the store port, several keys | refined by `JsonSettingsStore` and by `SqliteSettingsStore` (in `Sandbox`) |
| `KeyedQueue` | `createKeyedQueue` | `concurrency` |
| `FanOut` | `runWithConcurrency` over calls that `withRetry` repeats | `concurrency` |
| `JsonSettingsStore` | the JSON file adapter, on top of `KeyedQueue` (INSTANCE) | `json_store` |
| `BotLifecycle` | lifecycle, process handlers, module status, dispatcher | `lifecycle` |
| `Scheduler` | `CronScheduler` | `scheduler`, `scheduler_overlap` |
| `InteractionPipeline` | lifecycle dispatcher, command, autocomplete and component routers, gate, authorization, guards, handler, failure rendering, `sendView` | `pipeline`, `pipeline_outage` |
| `SettingsFields` | declarations, validation, field order, the spellings of a value | `screen` (pure) |
| `DeclarationControls` | the controls of a declaration; a value's way through one | `screen` (pure) |
| `ScreenLayout` | entries, levels and modals; the path | `screen` (pure) |
| `EditorView` | what the message shows, as a card or as embeds | `screen` (pure) |
| `ModalForms` | what a modal opens on, may be sent with, and is read as | `screen` (pure) |
| `SettingsScreen` | a settings screen from the command that opens it to its end, on top of these five | `screen`, `screen_untouched` |
| `Paginators` | `mountPaginator` and the persistent paginator | `screen` |
| `SqliteSettingsStore` | the SQLite adapter in several processes | `sandbox` |
| `CommandDeployment` | the command maps and `deployCommands` | `sandbox` |
| `BotAssembly` | `assembleModules`, `buildModules`, the declarations' registry | `sandbox` |
| `EventRouter` | event listeners, module status, the gate | `sandbox` |
| `Sandbox` | composes these four: the bot, `register.ts` and `copy-settings.ts` | `sandbox` |
| `MC...` | instances for TLC | |

Operators marked *Faulty* in a comment are plausible mistakes in the operator
that follows; each property is known to fail when one of them replaces it.

### SettingsService

One pair of guild and module is modelled: store, cache and generations are keyed
by the pair and never mix two. State: `store` is the record; per process, the
`version` of the declaration it runs, its `cache` entry and `generation`, the
`events` on their way to it; per caller, `req` holds the program counter and the
locals that survive an await. `acked` and the `floor` of a request are history.

| Code | Actions |
|---|---|
| `cache.read`, a miss, up to the store call | `GetMiss` |
| `load`: `store.read`, `readable` | `LoadRead` |
| `writeBack`: the write, its conflict and second read, its other failures | `WriteBackLands`, `WriteBackConflicts`, `Reread`, `WriteBackFails` |
| `cache.read` after the load | `Fill` |
| `set`, `reset` up to their read; the read; the write | `Set`, `Reset`, `WriterReads`, `WriterTurnedAway`, `WriteLands`, `WriteConflicts` |
| `write` after its await: `invalidate`, `notify` | `Announce` |
| a rejecting store | `StoreFails` |
| events of other processes, the clock, deploys and crashes | `Deliver`, `Tick`, `Restart` |

A cache hit changes nothing and has no action; what it may answer with is what
the invariants say of `cache`. Values, their validity per version and the
migration are constants, so a run covers migrations that succeed, throw, or
produce values the new version rejects.

An event a bridge loses is one that `Deliver` never takes: no fairness is stated
for it.

A store call takes effect once and then resolves, or has no effect and rejects.
A store that rejects a write it did perform is outside the port's contract and
is not modelled.

### JsonSettingsStore

The queue's variables are those of `KeyedQueue`, whose actions begin and end a
task. The steps of a task follow `loadRecords` and `saveRecords`: load (and the
revision check), mkdir, write of the temporary file (which may be left half
full), rename. `Fail` may strike at each, `Crash` anywhere; after a crash only
the file is left. The refinement mapping takes the file, as the code reads it,
to the records of `SettingsStore`.

### BotLifecycle

`startSequence` and `stopSequence` are two plans, sequences of steps computed
from the declared databases and modules, and two variables, `startup` and
`shutdown`, that say at which step each chain is and what it awaits. A step of
startup is *acting* (the adapter was called), *settled* (it answered),
*releasing* (it was acquired too late and is being released), or startup is over.
`held` and `releases` record what the adapters were asked to acquire and release:
they are what the properties are about.

| Code | Actions |
|---|---|
| `start` | `Start`, `StartFails`, `StartReturns`, `StartSettles` |
| `startSequence`, `recordAcquisition` | `StepSettles`, `ReadyCancelled`, `Retain`, `ReleaseLate`, `NothingToRelease`, `Disable`, `StartupFails`, `LateReleaseSettles`, `LateReleaseAbandoned` |
| `stop`, `stopSequence`, `runStep` with a deadline | `Stop`, `Joined`, `StopStepSettles`, `Abandon`, `NextStopStep`, `Stopped` |
| `process-handlers.ts` | `Signal`, `Crash`, `Exit` |
| `lifecycle-dispatcher.ts` | `Serve`, `Served` |
| the clock | `Tick` |

The clock tells apart what the code tells apart: before the deadline, at it, at
the grace deadline, and after. It only advances while every pending promise is
one that may really be pending: microtasks take no time.

### KeyedQueue, FanOut and Scheduler

`KeyedQueue` has one action per promise reaction: `Run`, `Begin` (the settled
tail in front, resolved or rejected alike, starts the task), `Settle` (the task
resolves or rejects), `Drop`. In `FanOut`, a lane takes the
next index (`RunNext`), and its call succeeds (`Succeed`), fails for now
(`FailForNow`, then `Retry`) or for good (`GiveUp`), which rejects the whole and
leaves the other lanes running, as in the code. The two utilities are put
together by their callers; the fan-out over retried calls is the largest such
combination. `Scheduler` gives each
registration of a job a generation, so that a run of a stopped or replaced
registration can be told from one of the current registration; `Start`,
`RescheduleCron` and `Stop` are whole methods, `Fire`, `EndRun` and `EndBootRun`
are the timers and the runs.

### The settings screen

The five pure modules follow the data of a screen; `SettingsScreen` is the
screen itself. A *round* is one click from the collector to the answer to it:
its program counter, the modal it opened and what it captured before an await.
`state` is the screen's store, `message` what Discord shows of it (the live
controls, the notice that can be read), `modals` the ones open at the member's.

| Code | Operators and actions |
|---|---|
| `define-settings.ts`, `fields/`, `field-order.ts`, `validate.ts`, `duration.ts` | `DefineSettings`, `DisplayOrder`, `ValidateSettings`, `ParseFieldValue` |
| `from-declaration-controls.ts`, `-search.ts`, `-values.ts`, `-stored.ts`, `-subject.ts`, `-display.ts` | `DisplayedControls`, `LoadSearchOptions`, `ControlValue`, `SubmittedValue`, `LoadSubject`, `ControlDisplay` |
| `from-declaration-layout.ts`, `navigation.ts` | `LayoutDeclaration`, `Packed`, `PushLevel`, `PopLevel` |
| `settings-editor.view.ts`, `settings-editor-card.view.ts`, `ui/card.ts` | `LiveControls`, `Reads`, `RendersWithin`, `ViewRefuses` |
| `settings-editor-field-modal.ts`, `modal.ts` | `FormOf`, `Answers`, `Read` |
| `mountSettingsEditor` | `Open` |
| `editField`, `editGroup`, `stepBack`, the reset and its confirmation | `Ask`, `Descend`, `Return`, `AskReset`, `CancelReset`, `ConfirmReset` |
| `promptModal`, `awaitModalSubmit`, the member | `Submit`, `Dismiss`, `Expire` |
| `applyChange`, `saveControl`, `saveGroupControls` | `Write`, `WriteReset`, `Refuse`, `Fail` |
| `reload`, `onWritten`, `ctx.update` | `Load`, `Show`, `Answer` |
| the collector: idle end, `stop` | `End`, `Disable` |
| another surface or process | `WriteOutside` |

A value is a record of what it is and the strings it is made of; the parsers of
numbers, colours and durations are tables over a small set of spellings, in
both directions.

`Paginators` is checked in place of one of the screens. A mounted paginator has
its page in memory (`Flip`, `End`, `DisableOnEnd`); the persistent one reads
(`FetchPage`), reads again when the page is not there (`FetchAgain`) and edits the
message (`Land`), over a source that may change (`SourceChanges`) or miscount
itself at any of these, and across restarts (`Restart`).

### The sandbox bot's programs

`Sandbox` runs four processes over one database: two bots (as during a
redeployment), the script that registers the commands and the copy of the JSON
store. Each may end at any step and be started again.

| Code | Actions |
|---|---|
| `sqlite-settings-store.ts`: opening and `migrate` | `Open`, `BeginMigration`, `RunStep`, `EndMigration`, `FailMigration` |
| its `write` and `delete` | `Call`, `BeginWrite`, `ChangeRow`, `Conflict`, `EndWrite`, `FailWrite`, `DeleteRow` |
| the busy timeout; the end of a process | `Busy`, `Die` |
| `assembleModules`, `buildModules`, `createBot` | `AssembleModules`, `BuildRefused`; `Assemble`, `Build` |
| `router.ts`: `deployCommands` | `BeginDeployment`, `Put`, `PutFails` |
| `event-router.ts` and the module status | `Bind`, `SetUp`, `Emit`, `GateAnswers`, `HandlerEnds` |
| `copy-settings-records.ts` | `BeginCopy`, `CopyRecord`, `RecordCopied`, `EndCopy` |

node:sqlite is synchronous, so within a process nothing interleaves with a
transaction; between processes each statement is a step. A transaction works on
a `draft` that a kill or a failure discards. `AssembleModules` is written as the
code is, loop by loop; the property compares it with `AtFault`, which says what
a module may be refused for without saying in which order it is looked for.

### InteractionPipeline

What is registered under a name or customId is a *route*: who serves it, of which
module, gated or not, with which guard. An interaction keeps its program counter,
what discord.js keeps of it (`deferred`, `replied`), the kernel's own answer if
there is one, and history: initial responses taken, a send tried, the handler
returned, what failed (guard, handler, view), a read that failed, the module off
all along. Commands and context
menus differ in nothing the properties see.

| Code | Actions |
|---|---|
| `InteractionRouter.dispatch`, `LifecycleDispatcher.handle` | `Arrive` |
| `handle` of the three other dispatchers, `passesGate` | `Claim`, `GateAnswers`, `GateFailsOpen` |
| `passesAuthorization` | part of `PastGate` |
| `passesGuard`, `requireConfigured`, `createCooldownGuard` | `Allowed`, `Denied`, `GuardThrows`, `CooldownPasses`, `CooldownDenies` |
| `executeRoute`, the dispatch of a context menu | `DeferReply`, `BuildContext`, `HandlerReturns`, `HandlerThrows` |
| the handler's responders, or its own calls to Discord | `HandlerSends`, `HandlerDefers`, `HandlerSuggests` |
| `renderCommandFailure`, denials, and `sendView` for them | `Failed`, `SendView`, `ViewThrows` |
| `interaction.respond([])` | `RespondEmpty` |
| a rejected `dispatch`, and the process handlers | `escaped`, `Forget` |
| the lifecycle, an administrator, the clock | `BotMoves`, `Toggle`, `Tick` |

`replyLocale` cannot fail and only chooses words, so it is no step of its own.
The kernel's own answers may fail in two ways, as `sendView` has it: a delivery
that fails is logged, while a view that cannot be built or rendered is thrown, and
none of its callers catches that (`ViewThrows`). Nothing bounds what is rendered:
the presenter is the bot's, and the text that of a guard, a command or a
`BusinessError`, which `buildEmbed` does not cut. The switches are read as the
settings service of the process answers them. The clock does not run backwards.

## 3. Runs

| Run | Instance | Shows |
|---|---|---|
| `settings_single` | one process, three callers, restarts on either version, no bridge | a read never answers with less than what the process announced (`ReadsSeeAnnounced`); an entry of the current revision is what the record reads as (`CacheFaithful`) |
| `settings_bridged` | two processes on any two versions, a caller each, a bridge that delays, reorders and loses | `AtomicRecord`: the service implements `SettingsRecord`; `NewerVersionKept` (FR-019); a stale entry exists only while its announcement is owed (`CacheCoherent`); every request settles, and caches become and stay current, though every event be lost (`RequestsSettle`, `EventuallyCurrent`) |
| `json_store` | 3 mutations, 2 records, expected revisions 0 and 1 | the file implements the port (`AtomicCompareAndSet`); a drain leaves nothing behind and reports every rejection (`DrainComplete`) |
| `concurrency` | 4 tasks on 2 keys; or a fan-out of 1, 3 or 5 items | order and mutual exclusion per key, chains exactly for work in flight, every task runs and settles whatever became of those before it; each item taken once, results in place and complete (`FanOutSound`) |
| `lifecycle` | a database, a required and an optional module, both with teardown | the six lifecycle properties, below |
| `scheduler` | an interval job, a cron job, a malformed interval job with a boot run; 3 registrations of each, 2 runs in flight | no orphan, no overlap of timed runs, interval jobs keep running |
| `scheduler_overlap` | the same, 2 registrations | a violation: see Findings |
| `pipeline` | two interactions at a time, nine routes over a module and one whose setup failed, two cooldown keys | one initial response each (`AnsweredOnce`); a module that is off answers alike, before permissions, guard or handler (`DisabledAnswersAlike`); an interaction over without an answer tried or a handler completed is in one of four known cases, escaped dispatches included (`NobodyLeftOut`); after a handler's failure only a view of it that does not render rejects the dispatch (`HandlersContained`); `CooldownRespected` |
| `pipeline_outage` | the same | a violation: see Findings |
| `screen` | seven declarations, two clicks handled at once; or a paginated message of up to three pages | the seven properties of screens, below |
| `screen_untouched` | one of them, one click at a time | a violation: see Findings |
| `sandbox` | four processes, two records, three guilds, twenty-one scenarios | the six properties of the sandbox bot, below |

The lifecycle properties: `ReleasedOnce` (all that is acquired is released, and
once; a login that completes after the gateway was destroyed needs, and gets, a
second destroy), `CleanMeansClean` (a clean report or exit code 0 means startup
is over and nothing is held), `BoundedShutdown` (stopped once deadline and one
grace have passed), `ClosesUnderNobody` (before the grace is over no database is
closed under a startup still at work), `ServesWhole` (handlers are let in only
while everything they need is up) and `StopEnds` (a stop ends, and by then
`start()` was answered or the process is gone).

The screen properties: `LayoutSound` (every field is offered once, in a tree of
levels, within Discord's limits, a select with its free entry), `RoundTripFaithful`
(what a control opens on, sent back, means what is stored), `UntouchedMembersKept`
(a group's modal changes only what was changed in it, with the two exceptions the
property names), `AnswersItsOwnModal` (a round hears the submission of its own
opening), `RendersSound` (however often a button is clicked again, the path leads
back to the root; every state can be rendered, and a refusal is always read),
`RoundsSettle`, and of the paginators `PagesSound` (the page shown, and those its
buttons lead to, were there when it was read, and a message of several pages is
no dead end, unless the source changed between the two reads of one click).

The sandbox properties: `SqliteAtomic` (the rows implement the port, whoever
shares them and whoever dies), `SchemaWhole` (the schema is a whole number of
migrations, each run once, and the one `user_version` tells), `CopyConverges`
(once the copy is done, each record is the target's own or else the source's,
however often it was stopped before), `AssemblyJudged` (a bot is refused exactly
when a module is at fault, for one that is, and a refusal undoes the subscription
the settings service had made by then),
`DeployedAsDeclared` (a finished deployment leaves each scope it put exactly its
commands), `HandlersRunWhenReady` (no handler runs in a module that is not set
up, and a handler for one event runs once).

`SettingsService`, `KeyedQueue` and `SettingsScreen` also state a `TypeOK`. The
first two are theorems, as is the one of `JsonSettingsStoreProofs`; that of the
screen documents its variables, and can be checked by adding `INVARIANT TypeOK`
to `screen.cfg`.

### Bounds, and why they are enough

* *Callers and processes.* A race in the service is between one request and what
  changes the record, the cache or the generation under it. Three callers in one
  process give a load, a write that overtakes it and a second load that meets
  both. Two processes are all that an announcement or a compare-and-set involves.
* *`MaxRevision` = 2*: no `set` or `reset` starts from revision 2 on, though
  those under way and migrations still land, so records up to revision 5 occur.
  `TTL` = 1: an entry is fresh or not.
* *Values.* Two fields, one of them unknown to version 1; one value only version
  1 accepts and the migration replaces; one that the migration keeps and version
  2 rejects. Initial records: none, migratable, unmigratable, current.
* *`concurrency`*: a chain of three on one key next to another, and a fourth task
  for the moment an entry is dropped. Five items over two lanes and over five
  lanes, limits below one and above the number of items, attempts of zero, two
  and not a finite number. A limit that is not a number is left out, see
  Findings.
* *`json_store`*: a third mutation meets a queue, a running task and a drain.
  `MaxExpected` = 1 tells apart create, update and conflict. Symmetric in the
  mutations and in the records: neither is compared or ordered.
* *`lifecycle`*: one resource of each kind in each role the code distinguishes;
  further databases or modules repeat the same loop. `AfterGrace` ends the clock.
* *`scheduler`*: `MaxGeneration` registrations suffice for a run of the first
  that ends after the second and the third; `MaxRuns` in flight for an overlap.
* *`pipeline`*: interactions meet only in the lifecycle state, the switches and
  the cooldowns, and two suffice for each; they are symmetric. `Window` = 2 lets
  two keys have different ages within it. The routes are one of each combination
  the code treats differently.
* *`screen`*: `MaxClicks` = 2 and two `Rounds` put every handler beside every
  other one; `MaxClients` = 2 lets a modal be dismissed and opened again before
  either is sent; `MaxOutside` = 1 is the write that comes between. The
  declarations hold every kind of field at the edges of its values, each kind in
  a group, more entries than two levels hold, a group of more than fifty
  controls with a search at the end of a modal, a toggles field of 26, and a
  search that answers, fails or leaves the current value out. `PickedEntities` =
  1: a member changes at most one member of a form in a submission. Three pages
  are a first, a middle and a last; `Openings` are below, at and beyond them.
* *`sandbox`*: `Migrations` = 2, though the code has one step today, so that a
  process can die between two. Two bots, a copy and a registration, each started
  once or twice, and up to three writes or deletes, cover a conflict, a
  busy lock, a kill inside a transaction and a second run of each script.
  Fifteen assemblies: each fault on its own, the orders in which two compete,
  and the right ones next to them. Three guilds, one of which no command names.

Deadlock is not checked where the system may really stop: a queue without
further tasks, a process that exited, a stopped scheduler whose registrations
are used up, programs that ended. It is checked in every settings run but is
never reached there, as a caller can always read; a screen that has ended, or
was refused, is allowed to stutter.

### Fairness

* `SettingsService`: `WF(Proceed(c))` - a store call settles, one way or the
  other, and the event loop resumes its caller; `WF(Tick)` - time passes. No
  request, delivery or restart is forced. The service has no timeout of its own:
  with a store that never answers, a request never settles.
* `KeyedQueue`: the reactions run and tasks settle. A task that hangs holds its
  key for ever, in the code as in the model.
* `BotLifecycle`: only the kernel's own steps, the clock and synchronous calls
  are fair. Adapters may hang: `StopEnds` holds all the same.
* `Scheduler`: timers fire and runs end.
* `SettingsScreen`: `WF(Progress(r))` - the deadline of a modal
  (`MODAL_PROMPT_TIMEOUT_MS`) passes, and the settings service and Discord answer
  or fail. The member is not forced to anything, nor is the end of the collector.
* `FanOut` and `Sandbox` state none: their properties are about safety.

## 4. Proofs

Every safety property the passing runs check is also a theorem, for every value
of the constants that meets the named assumptions, but for the three of the
screen that are about what the text of a value or a key is (below). Each proof
module states an inductive invariant `IInv`, proves `Init => IInv`, one lemma per action (or family of actions) that the
action keeps it, and what it implies; each `IInv` was checked by TLC on the
instance of its run first.

| Module | Theorem | States |
|---|---|---|
| `SettingsServiceProofs` | `TypeCorrect` | `TypeOK` |
| | `ReadYourWrites` | `ReadsSeeAnnounced` |
| | `CacheHoldsWhatReads` | `CacheFaithful` |
| | `NoLostUpdate` | `AtomicRecord`, the refinement of `SettingsRecord` |
| | `NewerVersionsAreKept` | `NewerVersionKept` |
| | `StaleOnlyWhileOwed` | `EveryWriteHeard => CacheCoherent` |
| `KeyedQueueProofs` | `TypeCorrect` | `TypeOK` |
| | `QueueOrder` | `OneAtATimeInOrder` |
| | `QueueTracksWork` | `ChainsTrackWork` |
| `JsonSettingsStoreProofs` | `TypeCorrect` | `TypeOK` |
| | `ImplementsPort` | `AtomicCompareAndSet`, the refinement of `SettingsStore` |
| | `DrainTellsAll` | `DrainComplete` |
| `BotLifecycleProofs` | `EachReleasedOnce`, `CleanExit`, `ShutdownBounded`, `NothingClosedUnderStartup`, `ServedWhole` | `ReleasedOnce`, `CleanMeansClean`, `BoundedShutdown`, `ClosesUnderNobody`, `ServesWhole` |
| `ConcurrencyProofs` | `NothingOrphaned`, `NeverOverlaps` | `NoOrphan`, `TimedRunsNeverOverlap` |
| | `SilentOnceStopped` | no timer is armed between a `stop` and the next `start` |
| | `FanOutSoundness` | `FanOutSound` |
| `InteractionPipelineProofs` | `OneResponse`, `DisabledAlike`, `EveryoneSeenTo`, `OnlyViewsEscape`, `WindowsKept` | `AnsweredOnce`, `DisabledAnswersAlike`, `NobodyLeftOut`, `HandlersContained`, `CooldownRespected` |
| `SandboxProofs` | `OneSchema` | `SchemaWhole` |
| | `ImplementsPort` | `SqliteAtomic`, the refinement of `SettingsStore` |
| | `CopyDone`, `AssemblyRight`, `DeploymentRight`, `OnlyWhenReady` | `CopyConverges`, `AssemblyJudged`, `DeployedAsDeclared`, `HandlersRunWhenReady` |
| `ScreenProofs` | `EachItsOwnModal`, `EveryStateRenders` | `AnswersItsOwnModal`, `RendersSound` |
| | `EachModalTakenOnce` | no two rounds go on from one modal |
| | `EveryWayLeadsOn` | a layout has no level longer than a card holds, and each way leads to a level made before |
| | `EveryControlHasAPlace` | its entries offer the declared controls and nothing else, and each level has a way to it |
| | `CardsAreMounted` | no screen shown as a card is refused at its opening |
| | `PagesAreThere` | `PagesSound` |

### The arguments

**Settings service.** Whether a `Fill` is right depends on what its load read and
when. `IInv` adds, besides `TypeOK`:

* `WriteInv(c)`: the record a request read is an older revision than the stored
  one, or the very stored record (a compare-and-set that succeeds replaces the
  record that was read); the revision a write expects is one that record can
  meet; and that record allowed the write, or needed the write-back, under the
  version of its process;
* `LoadInv(c)`: a load has read at least what its process had announced when it
  began, and, while the generation is still the one it captured, at least what
  has been announced by now;
* `ProcessInv(p)`: nothing was announced beyond the store's revision, nor is
  anything on its way; a fresh entry is neither older than what was announced nor
  newer than the store, and at the store's revision it is what the record reads
  as.

`InvStep` has one step per action, and under it the parts of `IInv` the action
can disturb; what they share (an action that only moves its own request, one that
ends it, one that lands a write, one that invalidates) is in the lemmas
`OwnStep`, `EndStep`, `LandStep`, `InvalidateStep` and `LoadSurvives`. The lemma
behind the last of them is the point of the generations: an invalidation raises
the generation, so a load it overtakes no longer owes anything to the cache.
`RecordStep` maps the writes that land to the two actions of `SettingsRecord`
and every other action to a stutter.

`CacheCoherent` needs one thing more (`Coherent`): not only an entry, but a load
that may still become one, is behind the store only while an announcement that
will drop it is on its way. It is a theorem under `EveryWriteHeard`: one process,
or a bridge and no restarts. Without it the property is false, and no bug: a
process that dies between its write and its announcement, or that listens to
nobody, leaves an entry behind until it expires.

**Keyed queue.** The code keeps no list of the tasks of a key: the order is only
in the promises. `Linked` says that each task waits for the one that arrived
before it, unless that one was dropped; `HoldsLast` that the map holds the last
one until it is dropped; `Recorded` that the history of arrivals lists every task
once, under its own key.

**File store.** `JsonSettingsStoreProofs` uses the theorems of the queue by
INSTANCE: every step of the store is a step of its queue or none, and a crash
leaves the queue's invariant true with nobody in it. One task at a time then
stands between its load and its rename, so what it loaded is still what the file
holds (`Current`) and what it filled the temporary file with is that and its own
record (`Filled`): the rename is the port's write. `Told` says of a drain that
what it has told apart already has left `pending` and will not change.

**SQLite store.** `StoreInv` ties the transaction to the lock: whoever is between
a `BEGIN IMMEDIATE` and its end holds the lock, its draft is the database with
the steps it has run so far, and nothing but the end of that transaction changes
the database meanwhile (a delete, too, waits for the lock). So the revision checked at the
beginning is the revision at the commit, and a schema is only ever one that whole
migrations made. The copy's part (`CopyInv`) is that a record is what was found,
or was touched by a bot, or has converged, and that what has converged stays so:
the copy writes on revision 0 only.

**Lifecycle.** The properties count releases, which no single step decides: a
resource that comes in is released by startup, or by the shutdown, never by both.
`HeldIsKnown` says of all that is held that it is on its way in, or that it is
retained and the shutdown has not come to its release (`Ahead`); `RetainedIsPast`
that only what startup has done with is retained; `ReleasesCounted` that a
release counted is behind one of the two. They rest on the first lemmas of the
module, about the two plans: what stands at which place (`StartPlanAt`,
`StopPlanAt`), and that each resource has one place in each (`StartOnce`,
`StopOnce`).
`Clocked` and `StartupJoined` bound what is waited for; `JobsStartAtOnce`, that
the jobs start within one turn of the event loop, is why the scheduler is never
stopped before it starts.

**Scheduler.** A timer that is armed, and an interval run that will arm one, are
the registered generation's (`TimersRegistered`, `RunsRegistered`), and of an
interval registration there is either a timer or a run (`EitherTimerOrRun`).

**Interactions.** The code at each place knows nothing of the places before it.
`Sound` says of every interaction, by the place it is at, what has and what
cannot have been done for it: which kinds come there (`Placed`), what can have
failed by then and which view answers for it (`Blamed`), that `deferred` and
`replied` tell whether something was sent (`Counted`), that one that is over was
seen to or in which case it is not (`SeenTo`), and that one whose module was off all along comes no
further than the gate (`TurnedAtGate`). `Remembered` says of the cooldowns that a
missing entry is an expired one, whatever the bound of the table clears.

**Fan-out.** An item is in the hands of the one lane that took it below the
index, or its result is in its place (`ItemsTaken`, `ItemsAccounted`); a lane
only ends behind the last item, or with the whole (`EndedBehindLast`).

**Assembly, deployment, events.** That a bot is refused exactly when a module is
at fault, for one that is, is the lemma of the fixed order of the checks, for any
list of modules. What a scope of the deployment holds is what it held or what is
meant for it, and which of both follows the puts that are left. A handler
runs, or is about to, only past the check of its module's status, which no step
takes back.

**The screen.** Two invariants, for which TLC found no exception on the instance of
`screen`. `AskedInv` is about modals. The code tells the openings of a modal
apart by a sequence number in its custom id; the invariant says that every open
modal and every round that waits carries its own number, below the next, and the
id made of it. A modal that is sent then reaches the round that showed it, if it
still waits, and no other (`EachItsOwnModal`); and as it is gone once it is sent,
no other takes it later (`EachModalTakenOnce`).

`ScreenInv` is about the states: the one in the store and those the rounds began
from and are about to show. Rounds overlap, and one that ends late puts back the
path it began with; so of all of them it says that they stand on a path of the
layout (`OnPath`: from the root, over levels there are, none twice), which `Return`
and `Descend` keep (`PopKeeps`, `PushKeeps`), and which no step makes invalid, as
the layout is made once. That the layout deserves it is `EveryWayLeadsOn`, by
induction over the sections and, for the pages of a long list, over the entries
that are left: levels are made from the inside out, so an entry that opens a level
opens one that is in the list already, and none of the levels holds more than ten.
`EveryControlHasAPlace` is the other direction: nothing is lost on the way. Units
hold the controls, chunks the units of their group, sections the entries of both
(`UnitsHold`, `PackedHold`, `SectionsHold`); folding and paging move entries to
levels and add nothing but ways (`Adds`), and the way to a level stays where it was
put until the level it stands on gets a way of its own (`Reached`, `NewLevelHolds`).

`RendersSound` then is arithmetic. A level costs at most `3 * 10` components as
sections, or `4 * (1 + 5)` as rows of buttons; the notice, the buttons of the
screen and what separates them cost the rest; and what the bot's author adds fits
in what is left (`ChromeAssumption`, below). `CardCost` is what makes the sums possible:
the cost of blocks laid end to end is the sum of the costs, by induction over the
blocks (`JoinedCost`, `UniformCost`).

The recursive functions in these modules (the packing, the folding, the pages,
the cost) are reasoned about by showing that the function exists, one index at a
time (`UpTo`, strong induction over the numbers up to one).

**Paginators.** `PagingInv` says of the page in memory, and of every edit under way,
that it was within the pages when it was read; of a mounted paginator their number
never changes, and of the persistent one the flip remembers whether the source
changed after it was read, which is the exception `PagesSound` makes.

### What is assumed

The assumptions are the ASSUMEs of the modules, which TLC evaluates on the
instances of the runs, and two hypotheses that stand in the theorems and, as they
speak of constants, in the inductive invariants:

* `EveryWriteHeard`, above: the deployment of `settings_bridged`, the run that
  checks `CacheCoherent`, meets it;
* `Instances` (`SandboxProofs`): lists of modules are lists and a module's parts
  are those it can have; the records of the JSON store are records; and the
  database found is no newer than the programs. `MCSandbox` meets it. Its last
  part is needed: `migrate` (`sandbox:shared/settings/sqlite-settings-store.ts`,
  32-40) sets `user_version` to its own number of steps, and so lowers that of a
  newer database (see the observations below), after which the version no longer
  tells the schema.

Of the ASSUMEs, two of `SettingsScreen` are worth a word. `OrderAssumption` says
that the display order of a declaration lists places and that a place lists keys
of the declaration, and is what a typed array gives. `ChromeAssumption` is a
demand on the bot's author which the code words but does not enforce before the
message is built: `settings-editor-card.view.ts` (31-63) counts "roughly a dozen"
components of fixed chrome, and reserves room for a number of the author's action
buttons. It says that what frames the entries of a card fits that count, which leaves
one component of the forty, and that the controls around an embed leave it two of
its five rows. Without it `createCard` throws, as it should.

### What is only model-checked

* Liveness (`RequestsSettle`, `EventuallyCurrent`, `EveryTaskSettles`, `StopEnds`,
  `KeepsRunning`, `RoundsSettle`): the prover has no rule for fairness, nor for
  ENABLED.
* `LayoutSound`, `RoundTripFaithful` and `UntouchedMembersKept` of the screen. The
  keys of entries and levels are concatenated strings (`level#1`, `group#2`) and
  the spellings of values are tables of strings, in both directions; whether two
  keys are equal, or a value is read back as what was shown, is a fact about
  strings the provers have no theory of. The parts of `LayoutSound` that do not
  depend on them are `EveryWayLeadsOn` and `EveryControlHasAPlace`; that no two
  levels have the same key, and no control stands twice, TLC checks.

## 5. Findings

* **A boot run may overlap the first timed run** (`scheduler_overlap`).
  `scheduler.ts:145-148` says of interval jobs that 'the contract is "at most one
  run at a time"'. `start` fires the boot run of a `runOnStart` job without
  awaiting it (lines 95-97), when the first timer is armed already: a boot run
  longer than the interval meets the first timed run. Timed runs among
  themselves never overlap (`TimedRunsNeverOverlap`).
* **A store outage may leave a member without an answer** (`pipeline_outage`).
  `discord/interaction/reply-locale.ts:18-19` catches a failed settings read "so a
  store outage never leaves a member without an answer", and the gate fails open
  (`module-gate.ts:42`); but `requireConfigured` lets the rejection of
  `service.status` through (`require-configured.ts:45`), and `passesGuard` is
  awaited outside every `try` (`component-router.ts:192`, `create-command.ts:240`
  and `:271`). The dispatch rejects, nothing was sent, and the rejection reaches
  the process handlers, which stop the bot. Any guard that throws does the same.
* **An untouched search may be cleared** (`screen_untouched`).
  `from-declaration-search.ts:18-20` says that the current value leads the list
  of a search "so a modal opened and sent back unchanged keeps it". The list is
  made once, when the screen opens (line 31). After another value was saved
  through the free entry next to the select, the group's modal opens with nothing
  selected, and sent back untouched it clears the field. `UntouchedMembersKept`
  makes an exception for searched members for this reason alone.

Observations made while modelling, which no run shows:

* A handler's failure can stop the bot after all, by way of its view. A
  `BusinessError` whose message is empty or longer than an embed holds goes uncut
  through `render-command-failure.ts` (39-45) and `buildEmbed` to `sendView`, which
  rejects, as it says it does; that happens inside the `catch` of the dispatch
  (`create-command.ts`, 220-232), which rejects in turn, and the process handlers
  stop the bot. `sendView` documents the exception and calls it the author's bug,
  so it is no disagreement and no finding: it is the one case `HandlersContained`
  leaves open.
* A modal's answers are compared with what the screen holds when it is *sent*,
  not with what it opened on. A save of another round meanwhile is reverted by a
  box that was prefilled with the older value. This is the other exception of
  `UntouchedMembersKept`. Likewise a reload that ends late shows its own, older
  subject, until the next one.
* A loose control's save is unconditional, and that of a part of a large toggles
  field writes the whole field from what the screen holds.
* `collector.ts:191-192`: the controls, disabled at the end of the collector, are
  enabled again by the edit of a click that is answered after it. The idle time
  and the deadline of a modal are the same, so this is the normal end of a modal
  left open.
* Keys of entries are derived from the keys of groups and fields
  (`level#1`, `group#1`, `field#1`), which `mount-settings-editor.ts` (about line
  227) takes to be unique across the screen. A declaration can make two of them
  equal.
* `{ ...module, ...parts }` in `buildModules`: a part that `build` gives as an
  explicit `undefined` removes the module's static part.
* A user and a message context menu of one name share an entry of the map, and
  the last wins. Guilds that no command names any more keep what was deployed to
  them.
* A listener for one event (`once`) is consumed by an event that comes in while
  its module is pending: bound before the login, a `clientReady` handler of a
  module that is set up after it never runs.
* `migrate` sets `user_version` to its own number of steps even in a database
  that a newer build migrated further.
* `runWithConcurrency` rejects as soon as one call does, while the other lanes go
  on; and a limit that is not a number makes no lane, and resolves with holes.
* The persistent paginator clamps the page after its first read only
  (`persistent-paginator.ts`, 144-158, "costs one extra read rather than an empty
  page"): a source that shrinks again between the two reads leaves an empty page,
  and one of a single page no button to leave it. `PagesSound` makes an exception
  for this.

## 6. Not modelled, and why

* Autocompletion as it is typed, the labels of suggestions, the command options
  builder, image fields and file uploads, localisations and command bodies: they
  shape data no property tells apart.
* The permission, level and all-required guards: pure functions of an
  interaction, standing behind the guard that allows, denies or throws.
* The wiring of routers and the declaration of the kernel's own settings:
  synchronous and done once.
* Views, colours, dates, i18n, configuration, errors: pure functions on text,
  for which examples are the better test. Of the screen's views, what is
  rendered and what is refused is modelled; the character budget of a card and
  the length of custom ids are not.
* Ports without an implementation here, and in-memory twins that exist for tests.
* In `BotLifecycle`: an adapter that calls `stop` back from inside the call that
  `start` or `stop` makes to it, before that call returns.
* In `SettingsStore`, `delete` is modelled; in `SettingsService` it is not, as
  nothing in the kernel calls it. A record deleted and created again from outside
  would restart its revisions.
* In the screen: bounds a declaration puts on the items of a list, and bounds
  below zero; surrounding spaces in a typed line and line breaks in a list item;
  an empty list of channel types; group legends; keys that collide; a modal
  Discord refuses to show. That a select sends its values in the order of its
  options is an assumption about Discord.
* In the sandbox: reads, which change nothing; processes of different builds; a
  JSON store that is written while it is copied (the file is read before the
  database is opened; the model reads it after, which is the same when nobody
  writes it); the bot's state while events come in, which the listeners do not
  look at. A listener handles one event at a time, a command names each guild
  once, and the order of the guilds' puts is left open. The puts of the guilds
  are assumed to be independent of each other.
* The delays between retries, and the clock of `withRetry`.

## 7. Plan

Done: all modules of section 2, and the theorems of section 4. Left, most
important first:

1. The autocompletion of a settings field as it is typed, with its timed search.
2. The character budget of a card, next to its component budget.
3. `LayoutSound` with keys as pairs (a group and a number) in place of strings,
   which would make their uniqueness provable.

## Running

    tlc -workers 2 -config settings_single.cfg MCSettingsService
    tlapm SettingsServiceProofs.tla

and likewise for the other runs, with the module `PROJECT.json` names, and for
each `...Proofs` module. Each run takes at most two minutes, and the proofs of a
module between a few seconds and a few minutes from scratch.
