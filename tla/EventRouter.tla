------------------------------ MODULE EventRouter ------------------------------
(***************************************************************************)
(* The gateway events of a bot's modules: bound when the bot is created,   *)
(* before it logs in, and answered by a listener each, which looks at the  *)
(* module's status, awaits its switch in the event's guild, and runs the   *)
(* handler.                                                                *)
(***************************************************************************)
EXTENDS BotAssembly

VARIABLES
    status,             \* status[i]: ModuleStatus of the i-th module
    listeners,          \* the listeners the client holds: <<module, event>> positions
    handling,           \* handling[l]: where the listener stands with an event
    ran                 \* history: how often each handler was run

eventVars == <<status, listeners, handling, ran>>

Event(name, once) == [name |-> name, once |-> once]
EventOf(modules, l) == PartOf(modules[l[1]].parts, "events")[l[2]]

EventInit == status = <<>> /\ listeners = {} /\ handling = <<>> /\ ran = <<>>

(* registerAll and bind.                                                   *)
Bind(modules) ==
    /\ status' = [i \in DOMAIN modules |-> "pending"]
    /\ listeners' = UNION {{<<i, j>> : j \in DOMAIN PartOf(modules[i].parts, "events")} : i \in DOMAIN modules}
    /\ handling' = [l \in listeners' |-> "idle"]
    /\ ran' = [l \in listeners' |-> 0]

(* A module's setup settles while the bot starts; an optional module whose *)
(* setup fails is unavailable for good.                                    *)
SetUp(i, result) ==
    /\ status[i] = "pending"
    /\ status' = [status EXCEPT ![i] = result]
    /\ UNCHANGED <<listeners, handling, ran>>

(* Faulty: a module that is not set up yet is let through.                 *)
EmitUnlessUnavailable(modules, name) ==
    LET fired == {l \in listeners : EventOf(modules, l).name = name} IN
    /\ fired # {} /\ \A l \in fired : handling[l] = "idle"
    /\ listeners' = listeners \ {l \in fired : EventOf(modules, l).once}
    /\ handling' = [l \in DOMAIN handling |->
                       IF l \in fired /\ status[l[1]] # "unavailable" THEN "gate" ELSE handling[l]]
    /\ UNCHANGED <<status, ran>>

(* The client emits an event: what listens to it once is removed, and each *)
(* listener looks at its module's status.  A listener handles one event at *)
(* a time here.                                                            *)
Emit(modules, name) ==
    LET fired == {l \in listeners : EventOf(modules, l).name = name} IN
    /\ fired # {} /\ \A l \in fired : handling[l] = "idle"
    /\ listeners' = listeners \ {l \in fired : EventOf(modules, l).once}
    /\ handling' = [l \in DOMAIN handling |->
                       IF l \in fired /\ status[l[1]] = "ready" THEN "gate" ELSE handling[l]]
    /\ UNCHANGED <<status, ran>>

(* isModuleDisabled: only a gated module can be off in the event's guild.  *)
GateAnswers(modules, l, enabled) ==
    /\ handling[l] = "gate"
    /\ ~modules[l[1]].gated => enabled
    /\ handling' = [handling EXCEPT ![l] = IF enabled THEN "executing" ELSE "idle"]
    /\ ran' = [ran EXCEPT ![l] = IF enabled THEN @ + 1 ELSE @]
    /\ UNCHANGED <<status, listeners>>

(* The handler returns, or throws and is logged.                           *)
HandlerEnds(l) ==
    /\ handling[l] = "executing"
    /\ handling' = [handling EXCEPT ![l] = "idle"]
    /\ UNCHANGED <<status, listeners, ran>>

===============================================================================
