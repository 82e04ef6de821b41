----------------------------- MODULE BotLifecycle -----------------------------
(***************************************************************************)
(* One bot's life: start acquires databases, gateway, modules and jobs in  *)
(* order; stop, asked for by anyone at any time, releases them within one  *)
(* shutdown budget.  The two are chains of promises that interleave at     *)
(* every await.  What the adapters do (connect, login, setup, teardown...) *)
(* is not the kernel's: each such call resolves, rejects or hangs.         *)
(***************************************************************************)
EXTENDS Naturals, Sequences

CONSTANTS
    Databases,          \* the databases, in declaration order
    Modules,            \* the modules, in declaration order
    Optional,           \* the modules whose failed setup only disables them
    WithTeardown        \* the modules that have a teardown

Each(seq) == {seq[i] : i \in DOMAIN seq}

ASSUME ModuleAssumption == Optional \subseteq Each(Modules) /\ WithTeardown \subseteq Each(Modules)

(* A connection is listed once, and a module's name is its own             *)
(* (assemble-modules.ts: DuplicateModuleError).                            *)
ASSUME PlanAssumption ==
    /\ Databases \in Seq(Each(Databases)) /\ Modules \in Seq(Each(Modules))
    /\ \A i, j \in DOMAIN Databases : Databases[i] = Databases[j] => i = j
    /\ \A i, j \in DOMAIN Modules : Modules[i] = Modules[j] => i = j
    /\ Each(Databases) \cap Each(Modules) = {}
    /\ {"gateway", "scheduler", "none"} \cap (Each(Databases) \cup Each(Modules)) = {}

(* The shutdown clock: 0 is before the deadline, and every unit of it one  *)
(* of the instants the code tells apart.                                   *)
DEADLINE == 1
GRACE_DEADLINE == 2
AfterGrace == 3         \* bound: the clock stops here

Step(name, target) == [name |-> name, target |-> target]
Resources == Each(Databases) \cup Each(Modules) \cup {"gateway", "scheduler"}

(* startSequence: its steps in order.                                      *)
StartPlan ==
    [i \in 1 .. Len(Databases) |-> Step("databases.connect", Databases[i])]
    \o << Step("migrations.run", "none"),
          Step("gateway.login", "gateway"),
          Step("gateway.ready", "none") >>
    \o [i \in 1 .. Len(Modules) |-> Step("module.setup", Modules[i])]
    \o << Step("jobs.start", "scheduler") >>

(* stopSequence: its steps in order, the second join of startup included.  *)
StopPlan ==
    << Step("start.settle", "none"), Step("jobs.stop", "scheduler") >>
    \o [i \in 1 .. Len(Modules) |->
            Step("module.teardown", Modules[Len(Modules) + 1 - i])]
    \o << Step("start.join", "none") >>
    \o [i \in 1 .. Len(Databases) |->
            Step("databases.close", Databases[Len(Databases) + 1 - i])]
    \o << Step("gateway.destroy", "gateway"),
          Step("flush", "none"),
          Step("settings.unsubscribe", "none") >>

VARIABLES
    state,              \* currentState
    start,              \* the promise start() returned, and what it awaits
    startup,            \* startSequence: its step, and where it stands in it
    status,             \* ModuleStatus
    connected,          \* the databases retained for closing
    loginCalled,
    shutdown,           \* stopSequence: its step, and where it stands in it
    budget,             \* the deadline later steps get; cleanup once traversal began
    failed, abandoned,  \* names of the steps in the stop report
    now,                \* the shutdown clock
    held,               \* held[r]: r was acquired, and not released since
    releases,           \* releases[r]: how often r was released
    handlers,           \* the process handlers: installed, and what they saw
    exited,             \* the exit code, or "no"
    serving             \* a module's handler is answering an interaction

startVars == <<start, startup, status, connected, loginCalled>>
stopVars == <<shutdown, budget, failed, abandoned>>
resourceVars == <<held, releases>>
hostVars == <<handlers, exited, serving>>
vars == <<state, startVars, stopVars, now, resourceVars, hostVars>>

NotStarted == [at |-> 0, phase |-> "none", ok |-> TRUE, deadline |-> 0]
NotStopping == [at |-> 0, phase |-> "none", deadline |-> 0]

Init ==
    /\ state = "created"
    /\ start = "none"
    /\ startup = NotStarted
    /\ status = [m \in Each(Modules) |-> "pending"]
    /\ connected = {}
    /\ loginCalled = FALSE
    /\ shutdown = NotStopping
    /\ budget = [deadline |-> DEADLINE, cleanup |-> FALSE]
    /\ failed = {}
    /\ abandoned = {}
    /\ now = 0
    /\ held = [r \in Resources |-> FALSE]
    /\ releases = [r \in Resources |-> 0]
    /\ handlers = [installed |-> FALSE, stopping |-> FALSE, crashed |-> FALSE]
    /\ exited = "no"
    /\ serving = FALSE

StartStep == StartPlan[startup.at]
StopStep == StopPlan[shutdown.at]
StartupSettled == startup.phase \in {"done", "failed"}

-------------------------------------------------------------------------------
(* startSequence.                                                          *)

(* The startup promise settles; start() learns of it if it still races.    *)
EndStartup(result) ==
    /\ startup' = [startup EXCEPT !.phase = result]
    /\ start' = IF start = "racing" THEN result ELSE start

(* The i-th step begins.  scheduler.start is synchronous, and counts as    *)
(* started even if it throws half way.                                     *)
BeginStep(i) ==
    /\ startup' = [at |-> i, phase |-> "acting", ok |-> TRUE, deadline |-> 0]
    /\ loginCalled' = (loginCalled \/ StartPlan[i].name = "gateway.login")
    /\ held' = [held EXCEPT !["scheduler"] = @ \/ StartPlan[i].name = "jobs.start"]

(* Between two steps: give up after a stop, else begin the next one.       *)
Proceed(i) ==
    \/ /\ state # "starting"
       /\ EndStartup("done")
       /\ UNCHANGED <<state, loginCalled, held>>
    \/ /\ state = "starting" /\ i <= Len(StartPlan)
       /\ BeginStep(i)
       /\ UNCHANGED <<state, start>>
    \/ /\ state = "starting" /\ i > Len(StartPlan)
       /\ state' = "running"
       /\ EndStartup("done")
       /\ UNCHANGED <<loginCalled, held>>

(* start: once, and the handlers go in first.                              *)
Start ==
    /\ state = "created"
    /\ state' = "starting"
    /\ start' = "racing"
    /\ handlers' = [handlers EXCEPT !.installed = TRUE]
    /\ BeginStep(1)
    /\ UNCHANGED <<status, connected, stopVars, now, releases, exited, serving>>

(* The adapter answers the pending step; what it acquired is now held.     *)
(* The wait for clientReady never rejects.                                 *)
StepSettles(ok) ==
    /\ startup.phase = "acting"
    /\ StartStep.name = "gateway.ready" => ok
    /\ startup' = [startup EXCEPT !.phase = "settled", !.ok = ok]
    /\ held' = IF ok /\ StartStep.target \in Resources
               THEN [held EXCEPT ![StartStep.target] = TRUE] ELSE held
    /\ UNCHANGED <<state, start, status, connected, loginCalled, stopVars, now,
                   releases, hostVars>>

(* stop calls cancelReady: a wait for clientReady ends at once.            *)
ReadyCancelled ==
    /\ startup.phase = "acting"
    /\ StartStep.name = "gateway.ready"
    /\ state # "starting"
    /\ startup' = [startup EXCEPT !.phase = "settled"]
    /\ UNCHANGED <<state, start, status, connected, loginCalled, stopVars, now,
                   resourceVars, hostVars>>

(* recordAcquisition before cleanup began: retain, for cleanup to find.    *)
Retain ==
    /\ startup.phase = "settled" /\ startup.ok
    /\ ~budget.cleanup
    /\ connected' = IF StartStep.name = "databases.connect"
                    THEN connected \cup {StartStep.target} ELSE connected
    /\ status' = IF StartStep.name = "module.setup"
                 THEN [status EXCEPT ![StartStep.target] = "ready"] ELSE status
    /\ Proceed(startup.at + 1)
    /\ UNCHANGED <<stopVars, now, releases, hostVars>>

Releasable == StartStep.target \in Resources \ (Each(Modules) \ WithTeardown)

(* recordAcquisition after: nobody would find it, so release it here.      *)
ReleaseLate ==
    /\ startup.phase = "settled" /\ startup.ok
    /\ budget.cleanup
    /\ Releasable
    /\ startup' = [startup EXCEPT !.phase = "releasing", !.deadline = budget.deadline]
    /\ held' = [held EXCEPT ![StartStep.target] = FALSE]
    /\ releases' = [releases EXCEPT ![StartStep.target] = @ + 1]
    /\ UNCHANGED <<state, start, status, connected, loginCalled, stopVars, now, hostVars>>

NothingToRelease ==
    /\ startup.phase = "settled" /\ startup.ok
    /\ budget.cleanup
    /\ ~Releasable
    /\ Proceed(startup.at + 1)
    /\ UNCHANGED <<status, connected, stopVars, now, releases, hostVars>>

SetupOptional == StartStep.name = "module.setup" /\ StartStep.target \in Optional

Disable ==
    /\ startup.phase = "settled" /\ ~startup.ok
    /\ SetupOptional
    /\ status' = [status EXCEPT ![StartStep.target] = "unavailable"]
    /\ Proceed(startup.at + 1)
    /\ UNCHANGED <<connected, stopVars, now, releases, hostVars>>

StartupFails ==
    /\ startup.phase = "settled" /\ ~startup.ok
    /\ ~SetupOptional
    /\ EndStartup("failed")
    /\ UNCHANGED <<state, status, connected, loginCalled, stopVars, now,
                   resourceVars, hostVars>>

-------------------------------------------------------------------------------
(* stopSequence.                                                           *)

(* Faulty: a startup left behind is not joined a second time.              *)
DueWithoutJoin(step) ==
    CASE step.name = "start.settle" -> startup.phase # "none"
      [] step.name = "jobs.stop" -> held["scheduler"]
      [] step.name = "module.teardown" ->
            status[step.target] = "ready" /\ step.target \in WithTeardown
      [] step.name = "start.join" -> FALSE
      [] step.name = "databases.close" -> step.target \in connected
      [] step.name = "gateway.destroy" -> loginCalled
      [] OTHER -> TRUE

(* The steps that have something to do.  The second join is for a startup  *)
(* the first one abandoned.                                                *)
Due(step) ==
    CASE step.name = "start.settle" -> startup.phase # "none"
      [] step.name = "jobs.stop" -> held["scheduler"]
      [] step.name = "module.teardown" ->
            status[step.target] = "ready" /\ step.target \in WithTeardown
      [] step.name = "start.join" -> "start.settle" \in abandoned
      [] step.name = "databases.close" -> step.target \in connected
      [] step.name = "gateway.destroy" -> loginCalled
      [] OTHER -> TRUE

IsNext(from, i) ==
    /\ i \in from .. Len(StopPlan)
    /\ Due(StopPlan[i])
    /\ \A j \in from .. i - 1 : ~Due(StopPlan[j])

(* The i-th step is called: it releases its resource, and is waited for    *)
(* until the deadline the budget has by now.  The join has no other        *)
(* deadline than the grace.                                                *)
BeginStopStep(i) ==
    LET step == StopPlan[i] IN
    /\ shutdown' = [at |-> i, phase |-> "waiting",
                    deadline |-> IF step.name = "start.join"
                                 THEN GRACE_DEADLINE ELSE budget.deadline]
    /\ IF step.target \in Resources
       THEN /\ held' = [held EXCEPT ![step.target] = FALSE]
            /\ releases' = [releases EXCEPT ![step.target] = @ + 1]
       ELSE UNCHANGED resourceVars

(* Faulty: cleanup only counts as begun once the second join is over.      *)
CleanupFromJoin(i) ==
    budget.cleanup \/ i > Len(Modules) + 3

(* Cleanup begins once the first join of startup is over.                  *)
CleanupFrom(i) == budget.cleanup \/ i > 1

(* On to the next step that has something to do.                           *)
Advance(from) ==
    \E i \in from .. Len(StopPlan) :
        /\ IsNext(from, i)
        /\ BeginStopStep(i)
        /\ budget' = [budget EXCEPT !.cleanup = CleanupFrom(i)]

(* stop: one shutdown whoever asks first; others get the same promise.     *)
StopNow ==
    \/ /\ state \in {"created", "starting", "running"}
       /\ state' = "stopping"
       /\ start' = IF start = "racing" THEN "interrupted" ELSE start
       /\ Advance(1)
    \/ /\ state \in {"stopping", "stopped"}
       /\ UNCHANGED <<state, start, shutdown, budget, resourceVars>>

Stop ==
    /\ StopNow
    /\ UNCHANGED <<startup, status, connected, loginCalled, failed, abandoned,
                   now, hostVars>>

(* Steps that do not wait for an adapter's promise.                        *)
Synchronous == {"jobs.start", "jobs.stop", "settings.unsubscribe"}
JoinsStartup == shutdown.phase = "waiting" /\ StopStep.name \in {"start.settle", "start.join"}

Joined ==
    /\ JoinsStartup
    /\ StartupSettled
    /\ shutdown' = [shutdown EXCEPT !.phase = "settled"]
    /\ UNCHANGED <<state, startVars, budget, failed, abandoned, now, resourceVars, hostVars>>

StopStepSettles(ok) ==
    /\ shutdown.phase = "waiting"
    /\ ~JoinsStartup
    /\ shutdown' = [shutdown EXCEPT !.phase = "settled"]
    /\ failed' = IF ok THEN failed ELSE failed \cup {StopStep.name}
    /\ UNCHANGED <<state, startVars, budget, abandoned, now, resourceVars, hostVars>>

(* Faulty: every overdue step is given one more unit of grace.             *)
ExtendedAnew == [budget EXCEPT !.deadline = now + 1]

(* Once a step is overdue, all that is left shares the one grace.          *)
Extended == [budget EXCEPT !.deadline = GRACE_DEADLINE]

(* Faulty: an overdue step is left behind without a word in the report.    *)
AbandonSilently ==
    /\ shutdown.phase = "waiting"
    /\ StopStep.name \notin Synchronous
    /\ now >= shutdown.deadline
    /\ shutdown' = [shutdown EXCEPT !.phase = "settled"]
    /\ budget' = Extended
    /\ UNCHANGED <<state, startVars, failed, abandoned, now, resourceVars, hostVars>>

(* Faulty: startup is waited for without a deadline.                       *)
AbandonReleasesOnly ==
    /\ shutdown.phase = "waiting"
    /\ StopStep.name \notin Synchronous \cup {"start.settle"}
    /\ now >= shutdown.deadline
    /\ shutdown' = [shutdown EXCEPT !.phase = "settled"]
    /\ abandoned' = abandoned \cup {StopStep.name}
    /\ budget' = Extended
    /\ UNCHANGED <<state, startVars, failed, now, resourceVars, hostVars>>

(* The deadline passes first: the step goes on, and shutdown without it.   *)
(* The second join is not reported again.                                  *)
Abandon ==
    /\ shutdown.phase = "waiting"
    /\ StopStep.name \notin Synchronous
    /\ now >= shutdown.deadline
    /\ shutdown' = [shutdown EXCEPT !.phase = "settled"]
    /\ IF StopStep.name = "start.join"
       THEN UNCHANGED <<abandoned, budget>>
       ELSE /\ abandoned' = abandoned \cup {StopStep.name}
            /\ budget' = Extended
    /\ UNCHANGED <<state, startVars, failed, now, resourceVars, hostVars>>

NextStopStep ==
    /\ shutdown.phase = "settled"
    /\ Advance(shutdown.at + 1)
    /\ UNCHANGED <<state, startVars, failed, abandoned, now, hostVars>>

(* The end: stopped, and the process handlers removed.                     *)
Stopped ==
    /\ shutdown.phase = "settled"
    /\ \A i \in shutdown.at + 1 .. Len(StopPlan) : ~Due(StopPlan[i])
    /\ state' = "stopped"
    /\ shutdown' = [shutdown EXCEPT !.phase = "done"]
    /\ handlers' = [handlers EXCEPT !.installed = FALSE]
    /\ UNCHANGED <<startVars, budget, failed, abandoned, now, resourceVars, exited, serving>>

(* The late release startup waits for; a report that is out stays as it is.*)
LateReleaseName ==
    CASE StartStep.name = "databases.connect" -> "databases.close"
      [] StartStep.name = "gateway.login" -> "gateway.destroy"
      [] StartStep.name = "module.setup" -> "module.teardown"

LateReleaseSettles(ok) ==
    /\ startup.phase = "releasing"
    /\ failed' = IF ok \/ state = "stopped" THEN failed ELSE failed \cup {LateReleaseName}
    /\ EndStartup("done")
    /\ UNCHANGED <<state, status, connected, loginCalled, shutdown, budget, abandoned,
                   now, resourceVars, hostVars>>

LateReleaseAbandoned ==
    /\ startup.phase = "releasing"
    /\ now >= startup.deadline
    /\ IF state = "stopped"
       THEN UNCHANGED <<abandoned, budget>>
       ELSE /\ abandoned' = abandoned \cup {LateReleaseName}
            /\ budget' = Extended
    /\ EndStartup("done")
    /\ UNCHANGED <<state, status, connected, loginCalled, shutdown, failed, now,
                   resourceVars, hostVars>>

-------------------------------------------------------------------------------
(* start() itself, the process around it, and the clock.                   *)

(* The race of startup against stopRequested is decided: a failed startup  *)
(* asks for the stop itself.                                               *)
StartFails ==
    /\ start = "failed"
    /\ \/ /\ state = "starting"
          /\ state' = "stopping"
          /\ Advance(1)
       \/ /\ state # "starting"
          /\ UNCHANGED <<state, shutdown, budget, resourceVars>>
    /\ start' = "failing"
    /\ UNCHANGED <<startup, status, connected, loginCalled, failed, abandoned, now, hostVars>>

StartReturns ==
    /\ start \in {"done", "interrupted"}
    /\ start' = IF state \in {"stopping", "stopped"} THEN "awaiting" ELSE "resolved"
    /\ UNCHANGED <<state, startup, status, connected, loginCalled, stopVars, now,
                   resourceVars, hostVars>>

StartSettles ==
    /\ start \in {"failing", "awaiting"}
    /\ state = "stopped"
    /\ start' = IF start = "failing" THEN "rejected" ELSE "resolved"
    /\ UNCHANGED <<state, startup, status, connected, loginCalled, stopVars, now,
                   resourceVars, hostVars>>

(* SIGINT or SIGTERM, an uncaught exception or an unhandled rejection: the *)
(* first one asks for the stop, and for the exit after it.                 *)
Signal ==
    /\ handlers.installed
    /\ ~handlers.stopping
    /\ handlers' = [handlers EXCEPT !.stopping = TRUE]
    /\ StopNow
    /\ UNCHANGED <<startup, status, connected, loginCalled, failed, abandoned, now,
                   exited, serving>>

Crash ==
    /\ handlers.installed
    /\ ~handlers.crashed
    /\ handlers' = [handlers EXCEPT !.stopping = TRUE, !.crashed = TRUE]
    /\ StopNow
    /\ UNCHANGED <<startup, status, connected, loginCalled, failed, abandoned, now,
                   exited, serving>>

ReportOk == failed = {} /\ abandoned = {}

Exit ==
    /\ handlers.stopping
    /\ state = "stopped"
    /\ exited' = IF ReportOk /\ ~handlers.crashed THEN "success" ELSE "failure"
    /\ UNCHANGED <<state, startVars, stopVars, now, resourceVars, handlers, serving>>

(* Faulty: interactions get through from the start.                        *)
ServeStarting ==
    /\ state \in {"starting", "running"}
    /\ ~serving
    /\ serving' = TRUE
    /\ UNCHANGED <<state, startVars, stopVars, now, resourceVars, handlers, exited>>

(* LifecycleDispatcher lets an interaction through to the modules.         *)
Serve ==
    /\ state = "running"
    /\ ~serving
    /\ serving' = TRUE
    /\ UNCHANGED <<state, startVars, stopVars, now, resourceVars, handlers, exited>>

Served ==
    /\ serving
    /\ serving' = FALSE
    /\ UNCHANGED <<state, startVars, stopVars, now, resourceVars, handlers, exited>>

(* Time passes while promises are pending: no timer is due, and no chain   *)
(* could go on.                                                            *)
StartupWaits ==
    CASE startup.phase = "acting" ->
            /\ StartStep.name \notin Synchronous
            /\ StartStep.name # "gateway.ready"
      [] startup.phase = "settled" -> FALSE
      [] startup.phase = "releasing" -> startup.deadline > now
      [] OTHER -> TRUE

ShutdownWaits ==
    CASE shutdown.phase = "waiting" ->
            /\ shutdown.deadline > now
            /\ StopStep.name \notin Synchronous
            /\ ~(JoinsStartup /\ StartupSettled)
      [] OTHER -> shutdown.phase = "done"

Tick ==
    /\ now < AfterGrace
    /\ StartupWaits /\ ShutdownWaits
    /\ now' = now + 1
    /\ UNCHANGED <<state, startVars, stopVars, resourceVars, hostVars>>

-------------------------------------------------------------------------------
Adapters ==
    \/ \E ok \in BOOLEAN : StepSettles(ok)
    \/ \E ok \in BOOLEAN : StopStepSettles(ok)
    \/ \E ok \in BOOLEAN : LateReleaseSettles(ok)

Kernel ==
    \/ ReadyCancelled
    \/ Retain
    \/ ReleaseLate
    \/ NothingToRelease
    \/ Disable
    \/ StartupFails
    \/ Joined
    \/ Abandon
    \/ NextStopStep
    \/ Stopped
    \/ LateReleaseAbandoned
    \/ StartFails
    \/ StartReturns
    \/ StartSettles
    \/ Exit
    \/ Tick

World == Start \/ Stop \/ Signal \/ Crash \/ Serve \/ Served

Next == exited = "no" /\ (Adapters \/ Kernel \/ World)

Spec == Init /\ [][Next]_vars

(* The event loop goes on and synchronous calls return; an adapter's       *)
(* promise may stay pending for ever.                                      *)
CallsReturn ==
    \/ startup.phase = "acting" /\ StartStep.name \in Synchronous
         /\ \E ok \in BOOLEAN : StepSettles(ok)
    \/ shutdown.phase = "waiting" /\ StopStep.name \in Synchronous
         /\ \E ok \in BOOLEAN : StopStepSettles(ok)

FairSpec ==
    /\ Spec
    /\ WF_vars(exited = "no" /\ (Kernel \/ CallsReturn))

-------------------------------------------------------------------------------
Names == {StartPlan[i].name : i \in DOMAIN StartPlan} \cup {StopPlan[i].name : i \in DOMAIN StopPlan}

(* Whatever startup acquires is released, before the shutdown or after it, *)
(* and released once: nothing is closed twice, except that a login that    *)
(* comes in after the gateway was destroyed needs a second destroy         *)
(* (lifecycle.ts recordAcquisition, stopSequence).                         *)
HasRelease(r) == r \notin Each(Modules) \ WithTeardown
ReleasedOnce ==
    /\ \A r \in Resources : releases[r] <= IF r = "gateway" THEN 2 ELSE 1
    /\ state = "stopped" /\ startup.phase \in {"none", "done", "failed"} =>
          \A r \in Resources : HasRelease(r) => ~held[r]

(* A clean report, and an exit code of success, mean that startup is over  *)
(* and nothing is left behind (lifecycle.ts:305-313, process-handlers.ts). *)
CleanMeansClean ==
    (state = "stopped" /\ ReportOk) \/ exited = "success" =>
        /\ startup.phase \in {"none", "done", "failed"}
        /\ \A r \in Resources : HasRelease(r) => ~held[r]

(* However many steps hang, shutdown ends by the deadline and one grace    *)
(* (README "Lifecycle"; lifecycle.ts:330-333).                             *)
BoundedShutdown == now = AfterGrace => state = "stopped"

(* Before the grace is over, no database is closed and no gateway destroyed*)
(* by the shutdown while startup, or the cleanup of what it acquired late, *)
(* is still at work (lifecycle.ts:266-273).                                *)
ClosesUnderNobody ==
    [][shutdown' # shutdown /\ shutdown'.phase = "waiting"
         /\ StopPlan[shutdown'.at].name \in {"databases.close", "gateway.destroy"}
         /\ now < GRACE_DEADLINE
       => startup.phase \in {"none", "done", "failed"}]_vars

(* A module's handler is only let in while the bot is whole: databases and *)
(* gateway are held, every module it needs is set up and jobs are started  *)
(* (lifecycle-dispatcher.ts:26-29).                                        *)
ServesWhole ==
    [][~serving /\ serving' =>
        /\ \A r \in Resources \ Optional : held[r]
        /\ \A m \in Each(Modules) \ Optional : status[m] = "ready"]_vars

(* A stop ends, though every adapter hangs, and start() is answered though *)
(* it never got to the end of its own startup: the stop that awaits the    *)
(* startup and the start that races it do not wait for each other          *)
(* (lifecycle.ts:85-102, 266-273).                                         *)
StopEnds ==
    state = "stopping" ~>
        state = "stopped" /\ (start \in {"none", "resolved", "rejected"} \/ exited # "no")

===============================================================================
