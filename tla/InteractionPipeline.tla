-------------------------- MODULE InteractionPipeline --------------------------
(***************************************************************************)
(* The way of an interaction from the gateway to its answer: the lifecycle *)
(* dispatcher, the command, autocomplete and component routers, the module *)
(* gate, authorization, guards, the handler, and the views that answer for *)
(* it.  Interactions run concurrently; they share the bot's state, the     *)
(* modules' switches and the cooldown windows.  Settings reads, guards,    *)
(* handlers, the rendering of views and deliveries may fail.               *)
(***************************************************************************)
EXTENDS Naturals

CONSTANTS
    Interactions,       \* interactions in flight at a time
    Routes,             \* what an interaction may be for
    Modules,
    Unavailable,        \* the modules whose setup failed
    CooldownKeys,       \* who a cooldown counts for
    Window              \* windowMs, in ticks of the clock

(* The switch of a module whose setup failed is never read.                *)
Switched == Modules \ Unavailable

(* A route: who serves it and what stands before it (unroutable: no handler*)
(* of the grouped command is for this subcommand).  permitted tells whether*)
(* the member holds the permissions the component requires, key whom the   *)
(* cooldown counts the use for.                                            *)
Kinds == {"command", "component", "autocomplete", "unknown"}
Guards == {"none", "custom", "configured", "cooldown", "unroutable"}
RouteType ==
    [kind : Kinds, module : Modules, gated : BOOLEAN, permitted : BOOLEAN,
     guard : Guards, defer : BOOLEAN, key : CooldownKeys]

ASSUME RouteAssumption ==
    /\ Routes \subseteq RouteType
    /\ \A r \in Routes : r.kind = "autocomplete" => r.guard = "none"
    /\ \A r \in Routes : r.guard = "cooldown" => r.kind = "command"
    /\ \A r \in Routes : r.guard = "unroutable" => r.kind = "command"
ASSUME ModuleAssumption == Unavailable \subseteq Modules
ASSUME WindowAssumption == Window \in Nat \ {0}

VARIABLES
    bot,                \* BotLifecycle.state
    enabled,            \* enabled[m]: the guild's switch of module m
    interaction,        \* where each interaction stands, and its state at Discord
    cooldowns,          \* the keys the guard's Map holds an entry of
    age                 \* age[k]: time since k last passed the cooldown, up to Window

vars == <<bot, enabled, interaction, cooldowns, age>>

PCs == {"idle", "route", "gate", "guard", "execute", "handler", "answer",
        "respond", "done", "escaped"}
Answers == {"none", "restarting", "unavailable", "disabled", "denied",
            "unroutable", "failure"}

(* deferred and replied are discord.js's; responses counts the initial     *)
(* responses Discord took.  History: whether a send was tried, or the      *)
(* handler returned; what threw, of its guard, its handler (with the       *)
(* deferral before it) and the view that answers for it; whether the read  *)
(* its gate or guard hangs on failed; and whether its module has been off  *)
(* since it came in.                                                       *)
Idle(r) ==
    [pc |-> "idle", route |-> r, answer |-> "none", deferred |-> FALSE,
     replied |-> FALSE, responses |-> 0, tried |-> FALSE, returned |-> FALSE,
     failed |-> {}, outage |-> FALSE, off |-> FALSE]

Nothing == Idle(CHOOSE r \in Routes : TRUE)

Init ==
    /\ bot \in {"starting", "running"}
    /\ enabled \in [Switched -> BOOLEAN]
    /\ interaction = [i \in Interactions |-> Nothing]
    /\ cooldowns = {}
    /\ age = [k \in CooldownKeys |-> Window]

PC(i) == interaction[i].pc
Route(i) == interaction[i].route
Becomes(i, r) == interaction' = [interaction EXCEPT ![i] = r]

shared == <<bot, enabled, cooldowns, age>>

-------------------------------------------------------------------------------
(* A view to answer with.  replyLocale, which words it, has no failure: a  *)
(* language that cannot be read is the interaction's own.                  *)
Answering(r, what) == [r EXCEPT !.pc = "answer", !.answer = what]

(* An autocomplete request is answered with an empty list instead.         *)
TurnedAway(r, what) ==
    IF r.route.kind = "autocomplete"
    THEN [r EXCEPT !.pc = "respond", !.answer = what]
    ELSE Answering(r, what)

(* InteractionRouter.dispatch, and LifecycleDispatcher first of all, which *)
(* answers for interactions nobody would claim as well.                    *)
Arrive(i, r) ==
    LET new == [Idle(r) EXCEPT !.off = r.module \in Switched /\ ~enabled[r.module]] IN
    /\ PC(i) = "idle"
    /\ Becomes(i, IF bot = "running" THEN [new EXCEPT !.pc = "route"]
                  ELSE TurnedAway(new, "restarting"))
    /\ UNCHANGED shared

(* Past the gate: a component's permissions come before its guard, and an  *)
(* autocomplete has neither.                                               *)
PastGate(r) ==
    IF r.route.kind = "autocomplete" THEN [r EXCEPT !.pc = "handler"]
    ELSE IF r.route.kind = "component" /\ ~r.route.permitted THEN Answering(r, "denied")
    ELSE IF r.route.guard = "unroutable" THEN Answering(r, "unroutable")
    ELSE [r EXCEPT !.pc = "guard"]

(* Faulty: the member's permissions are looked at before the gate.         *)
ClaimAfterPermissions(i) ==
    LET r == interaction[i] IN
    /\ PC(i) = "route"
    /\ Becomes(i, IF r.route.kind = "unknown" THEN [r EXCEPT !.pc = "done"]
                  ELSE IF r.route.module \in Unavailable THEN TurnedAway(r, "unavailable")
                  ELSE IF r.route.kind = "component" /\ ~r.route.permitted THEN Answering(r, "denied")
                  ELSE IF r.route.gated THEN [r EXCEPT !.pc = "gate"]
                  ELSE PastGate(r))
    /\ UNCHANGED shared

(* The router that knows the route claims it, and looks at its module.     *)
Claim(i) ==
    LET r == interaction[i] IN
    /\ PC(i) = "route"
    /\ Becomes(i, IF r.route.kind = "unknown" THEN [r EXCEPT !.pc = "done"]
                  ELSE IF r.route.module \in Unavailable THEN TurnedAway(r, "unavailable")
                  ELSE IF r.route.gated THEN [r EXCEPT !.pc = "gate"]
                  ELSE PastGate(r))
    /\ UNCHANGED shared

(* ModuleGate.isEnabled: a failed read lets the module run.                *)
GateAnswers(i) ==
    LET r == interaction[i] IN
    /\ PC(i) = "gate"
    /\ Becomes(i, IF enabled[r.route.module] THEN PastGate(r) ELSE TurnedAway(r, "disabled"))
    /\ UNCHANGED shared

GateFailsOpen(i) ==
    /\ PC(i) = "gate"
    /\ Becomes(i, PastGate([interaction[i] EXCEPT !.outage = TRUE]))
    /\ UNCHANGED shared

-------------------------------------------------------------------------------
(* passesGuard.                                                            *)

(* Past the guard: executeRoute of a command; a component's handler.       *)
PastGuard(r) ==
    [r EXCEPT !.pc = IF r.route.kind = "component" THEN "handler" ELSE "execute"]

Allowed(i) ==
    /\ PC(i) = "guard"
    /\ Route(i).guard # "cooldown"
    /\ Becomes(i, PastGuard(interaction[i]))
    /\ UNCHANGED shared

Denied(i) ==
    /\ PC(i) = "guard"
    /\ Route(i).guard \in {"custom", "configured"}
    /\ Becomes(i, Answering(interaction[i], "denied"))
    /\ UNCHANGED shared

(* The guard throws, or rejects: nothing on the way back to the client's   *)
(* listener catches it.  requireConfigured does so when the settings it    *)
(* asks for cannot be read.                                                *)
GuardThrows(i) ==
    /\ PC(i) = "guard"
    /\ Route(i).guard \in {"custom", "configured"}
    /\ Becomes(i, [interaction[i] EXCEPT !.pc = "escaped", !.failed = @ \cup {"guard"},
                                         !.outage = @ \/ Route(i).guard = "configured"])
    /\ UNCHANGED shared

Expired(k) == age[k] >= Window

(* Faulty: an entry counts as expired once any other one is used.          *)
PrunedToOne(k) == {k}

(* pruneExpired, after the entry of k was renewed.                         *)
Pruned(k) == {x \in cooldowns : ~Expired(x)} \cup {k}

(* The cooldown guard, whose check is synchronous.                         *)
CooldownPasses(i) ==
    LET k == Route(i).key IN
    /\ PC(i) = "guard"
    /\ Route(i).guard = "cooldown"
    /\ k \notin cooldowns \/ Expired(k)
    /\ cooldowns' = Pruned(k)
    /\ age' = [age EXCEPT ![k] = 0]
    /\ Becomes(i, PastGuard(interaction[i]))
    /\ UNCHANGED <<bot, enabled>>

CooldownDenies(i) ==
    /\ PC(i) = "guard"
    /\ Route(i).guard = "cooldown"
    /\ Route(i).key \in cooldowns /\ ~Expired(Route(i).key)
    /\ Becomes(i, Answering(interaction[i], "denied"))
    /\ UNCHANGED shared

-------------------------------------------------------------------------------
(* The handler, and what is done for it: executeRoute and its catch, the   *)
(* component router's, the autocomplete dispatcher's.                      *)

(* Faulty: the catch does not reach as far as the deferral.                *)
FailedUncaught(r) ==
    LET t == [r EXCEPT !.failed = @ \cup {"handler"}] IN
    CASE r.route.kind = "command" /\ r.pc = "execute" -> [t EXCEPT !.pc = "escaped"]
      [] r.route.kind = "command" -> Answering(t, "failure")
      [] OTHER -> [t EXCEPT !.pc = "done"]

(* Faulty: a failure is only logged, for commands too.                     *)
FailedQuietly(r) == [r EXCEPT !.pc = "done", !.failed = @ \cup {"handler"}]

(* renderCommandFailure words an answer; the other two only log.           *)
Failed(r) ==
    LET t == [r EXCEPT !.failed = @ \cup {"handler"}]
    IN  IF r.route.kind = "command" THEN Answering(t, "failure") ELSE [t EXCEPT !.pc = "done"]

(* Options, the deferral if the route asks for one, the context.           *)
DeferReply(i) ==
    /\ PC(i) = "execute"
    /\ Route(i).defer
    /\ Becomes(i, [interaction[i] EXCEPT !.pc = "handler", !.deferred = TRUE,
                                         !.tried = TRUE, !.responses = @ + 1])
    /\ UNCHANGED shared

BuildContext(i) ==
    /\ PC(i) = "execute"
    /\ ~Route(i).defer
    /\ Becomes(i, [interaction[i] EXCEPT !.pc = "handler"])
    /\ UNCHANGED shared

(* Faulty: an initial response each time.                                  *)
SentAsReply(r) ==
    [r EXCEPT !.tried = TRUE, !.replied = TRUE, !.responses = @ + 1]

(* sendView: the initial reply, unless there was one or it was deferred:   *)
(* then an edit of it, or a follow-up.                                     *)
Sent(r) ==
    [r EXCEPT !.tried = TRUE, !.replied = TRUE,
              !.responses = IF r.deferred \/ r.replied THEN @ ELSE @ + 1]

(* The handler answers, through its context or by itself; a delivery that  *)
(* fails is logged.  It may defer first.  A view of its own that does not  *)
(* render, and a second initial response, which discord.js refuses before  *)
(* it is sent, are a HandlerThrows.                                        *)
HandlerSends(i, ok) ==
    LET r == interaction[i] IN
    /\ PC(i) = "handler"
    /\ Route(i).kind # "autocomplete"
    /\ Becomes(i, IF ok THEN Sent(r) ELSE [r EXCEPT !.tried = TRUE])
    /\ UNCHANGED shared

HandlerDefers(i) ==
    LET r == interaction[i] IN
    /\ PC(i) = "handler"
    /\ r.route.kind # "autocomplete"
    /\ ~r.deferred /\ ~r.replied
    /\ Becomes(i, [r EXCEPT !.deferred = TRUE, !.tried = TRUE, !.responses = @ + 1])
    /\ UNCHANGED shared

(* The suggestions of an option.                                           *)
HandlerSuggests(i) ==
    LET r == interaction[i] IN
    /\ PC(i) = "handler"
    /\ r.route.kind = "autocomplete" /\ ~r.replied
    /\ Becomes(i, [r EXCEPT !.replied = TRUE, !.tried = TRUE, !.responses = @ + 1])
    /\ UNCHANGED shared

HandlerReturns(i) ==
    /\ PC(i) = "handler"
    /\ Becomes(i, [interaction[i] EXCEPT !.pc = "done", !.returned = TRUE])
    /\ UNCHANGED shared

(* The handler throws, or before it an option or the deferral.             *)
HandlerThrows(i) ==
    /\ PC(i) \in {"execute", "handler"}
    /\ Becomes(i, Failed(interaction[i]))
    /\ UNCHANGED shared

-------------------------------------------------------------------------------
(* The kernel's own answers: a delivery that fails is logged.              *)
SendView(i, ok) ==
    LET r == [interaction[i] EXCEPT !.pc = "done"] IN
    /\ PC(i) = "answer"
    /\ Becomes(i, IF ok THEN Sent(r) ELSE [r EXCEPT !.tried = TRUE])
    /\ UNCHANGED shared

(* The view cannot be built or rendered: its presenter is the bot's, and   *)
(* the text a guard's, a BusinessError's or a command's own, which nothing *)
(* cuts to what an embed holds.  sendView renders outside its catch, and   *)
(* so do all who call it: no send is tried and the dispatch rejects.       *)
ViewThrows(i) ==
    /\ PC(i) = "answer"
    /\ Becomes(i, [interaction[i] EXCEPT !.pc = "escaped", !.failed = @ \cup {"view"}])
    /\ UNCHANGED shared

(* respond([]): the autocomplete dispatcher catches its failure, the       *)
(* lifecycle dispatcher does not.                                          *)
RespondEmpty(i, ok) ==
    LET r == [interaction[i] EXCEPT !.tried = TRUE] IN
    /\ PC(i) = "respond"
    /\ Becomes(i, [r EXCEPT !.pc = IF ok \/ r.answer # "restarting" THEN "done" ELSE "escaped",
                            !.responses = IF ok THEN @ + 1 ELSE @])
    /\ UNCHANGED shared

-------------------------------------------------------------------------------
(* The next interaction takes the place of one that is over.  One that     *)
(* escaped rejects dispatch in the client's listener, and so reaches the   *)
(* process handlers, which stop the bot.                                   *)
Forget(i) ==
    /\ PC(i) \in {"done", "escaped"}
    /\ bot' = IF PC(i) = "escaped" THEN "stopping" ELSE bot
    /\ Becomes(i, Nothing)
    /\ UNCHANGED <<enabled, cooldowns, age>>

BotMoves ==
    /\ \/ bot = "starting" /\ bot' \in {"running", "stopping"}
       \/ bot = "running" /\ bot' = "stopping"
    /\ UNCHANGED <<enabled, interaction, cooldowns, age>>

(* A guild switches a module on or off (settings of the kernel).           *)
Toggle(m) ==
    /\ enabled' = [enabled EXCEPT ![m] = ~@]
    /\ interaction' = [i \in Interactions |->
                          IF Route(i).module = m THEN [interaction[i] EXCEPT !.off = FALSE]
                          ELSE interaction[i]]
    /\ UNCHANGED <<bot, cooldowns, age>>

Tick ==
    /\ \E k \in CooldownKeys : ~Expired(k)
    /\ age' = [k \in CooldownKeys |-> IF Expired(k) THEN age[k] ELSE age[k] + 1]
    /\ UNCHANGED <<bot, enabled, interaction, cooldowns>>

-------------------------------------------------------------------------------
Step(i) ==
    \/ \E r \in Routes : Arrive(i, r)
    \/ Claim(i)
    \/ GateAnswers(i)
    \/ GateFailsOpen(i)
    \/ Allowed(i)
    \/ Denied(i)
    \/ GuardThrows(i)
    \/ CooldownPasses(i)
    \/ CooldownDenies(i)
    \/ DeferReply(i)
    \/ BuildContext(i)
    \/ \E ok \in BOOLEAN : HandlerSends(i, ok)
    \/ HandlerDefers(i)
    \/ HandlerSuggests(i)
    \/ HandlerReturns(i)
    \/ HandlerThrows(i)
    \/ \E ok \in BOOLEAN : SendView(i, ok)
    \/ ViewThrows(i)
    \/ \E ok \in BOOLEAN : RespondEmpty(i, ok)
    \/ Forget(i)

Next ==
    \/ \E i \in Interactions : Step(i)
    \/ BotMoves
    \/ \E m \in Switched : Toggle(m)
    \/ Tick

Spec == Init /\ [][Next]_vars

-------------------------------------------------------------------------------
(* Discord takes one initial response per interaction, from whichever of   *)
(* the handler, a deferral, its failure view or the kernel's refusals sends*)
(* first: all go through sendView, which edits or follows up afterwards.   *)
AnsweredOnce == \A i \in Interactions : interaction[i].responses <= 1

(* An interaction for a module that was off when it came in, and has been  *)
(* off ever since, is answered the same way whoever sent it and never      *)
(* reaches permissions, guard or handler, unless the switch could not be   *)
(* read ("a disabled module answers the same way whoever clicks").         *)
DisabledAnswersAlike ==
    \A i \in Interactions :
        LET r == interaction[i] IN
        /\ r.off /\ r.route.gated /\ ~r.outage
        /\ r.route.module \notin Unavailable /\ r.answer # "restarting"
        => /\ r.answer \in {"none", "disabled"}
           /\ r.pc \notin {"guard", "execute", "handler"}
           /\ ~r.returned /\ r.failed \subseteq {"view"}

(* An interaction that is over, whether its dispatch returned or rejected, *)
(* is left with nothing, neither an answer that was tried nor a handler    *)
(* that ran to its end, in four cases only.  No dispatcher claimed it; or  *)
(* the handler of a component or an option failed, which is logged; or its *)
(* dispatch rejected, because a guard of the bot's own or one that reads   *)
(* settings threw, or because the view to answer with did not render.      *)
LoggedOnly(r) ==
    r.pc = "done" /\ r.route.kind \in {"component", "autocomplete"} /\ r.failed = {"handler"}
Rejected(r) ==
    /\ r.pc = "escaped"
    /\ \/ r.failed = {"guard"} /\ r.route.guard \in {"custom", "configured"}
       \/ r.failed = {"view"} /\ r.answer \in Answers \ {"none", "failure"}
       \/ r.failed = {"handler", "view"} /\ r.answer = "failure"

NobodyLeftOut ==
    \A i \in Interactions :
        LET r == interaction[i] IN
        r.pc \in {"done", "escaped"} /\ ~r.tried /\ ~r.returned =>
            \/ r.route.kind = "unknown" /\ r.answer = "none"
            \/ LoggedOnly(r)
            \/ Rejected(r)

(* What a handler throws, a deferral that fails before it and an answer    *)
(* that is not delivered never reject the dispatch, which would stop the   *)
(* bot.  After a handler's failure one thing alone does: the view of a     *)
(* command's failure, when it does not render.  A component's or an        *)
(* option's handler cannot stop the bot at all.                            *)
HandlersContained ==
    \A i \in Interactions :
        LET r == interaction[i] IN
        r.pc = "escaped" /\ "handler" \in r.failed =>
            r.route.kind = "command" /\ r.answer = "failure" /\ "view" \in r.failed

(* Two interactions of one key pass a cooldown guard no closer than its    *)
(* window, whatever other keys are used or pruned in between.              *)
CooldownRespected ==
    [][\A i \in Interactions :
          PC(i) = "guard" /\ Route(i).guard = "cooldown" /\ PC(i)' = "execute"
          => age[Route(i).key] >= Window]_vars

(* "A store outage never leaves a member without an answer": one for whom  *)
(* settings could not be read has been sent an answer, should its dispatch *)
(* reject without a handler, a view or a guard of the bot's own having     *)
(* failed.                                                                 *)
OutageAnswered ==
    \A i \in Interactions :
        LET r == interaction[i] IN
        r.pc = "escaped" /\ r.outage /\ r.failed \subseteq {"guard"} /\ r.route.guard # "custom"
            => r.tried

===============================================================================
