--------------------------- MODULE CommandDeployment ---------------------------
(***************************************************************************)
(* The commands a bot's modules register, and their deployment to Discord: *)
(* one put per scope, the global one first, each replacing what Discord    *)
(* held there.  A put that fails leaves the scopes after it as they were;  *)
(* the deployment may be run again.                                        *)
(***************************************************************************)
EXTENDS BotAssembly

CONSTANT GuildIds

Global == "global"
Scopes == GuildIds \cup {Global}

VARIABLES
    scopes,             \* scopes[s]: the commands Discord holds in scope s
    deployment          \* deployCommands: where it stands, and what is left to put

deployVars == <<scopes, deployment>>

(* A command: its name, the guilds it is for, each named once, and whether *)
(* its data has a body to deploy.                                          *)
Command(name, guilds) == [name |-> name, guilds |-> guilds, body |-> TRUE, version |-> 1]

(* What an earlier deployment left.                                        *)
Stale == {[kind |-> "commands", command |-> Command("stale", {})]}

NotDeploying == [pc |-> "idle", commands |-> {}, left |-> {}]

DeployInit ==
    /\ scopes = [s \in Scopes |-> Stale]
    /\ deployment = NotDeploying

(* CommandRouter.register and registerContextMenu: two maps by name, where *)
(* the last registration of a name wins.                                   *)
LastOfEachName(commands) ==
    {commands[i] : i \in {i \in DOMAIN commands :
                             \A j \in DOMAIN commands : j > i => commands[j].name # commands[i].name}}

Registered(modules) ==
    UNION {{[kind |-> p, command |-> c] :
                c \in LastOfEachName(FlattenSeq([i \in DOMAIN modules |-> PartOf(modules[i].parts, p)]))} :
           p \in {"commands", "contextMenuCommands"}}

(* The buckets of deployCommands.                                          *)
BucketOf(commands, scope) ==
    {r \in commands : IF scope = Global THEN r.command.guilds = {} ELSE scope \in r.command.guilds}

BeginDeployment(modules) ==
    /\ deployment.pc # "putting"
    /\ LET all == {r \in Registered(modules) : r.command.body} IN
       deployment' = [pc |-> "putting", commands |-> all,
                      left |-> {Global} \cup UNION {r.command.guilds : r \in all}]
    /\ UNCHANGED scopes

(* Faulty: a scope without a command is not put.                           *)
PutUnlessEmpty(s) ==
    /\ deployment.pc = "putting" /\ s \in deployment.left
    /\ s = Global \/ Global \notin deployment.left
    /\ scopes' = IF BucketOf(deployment.commands, s) = {} THEN scopes
                 ELSE [scopes EXCEPT ![s] = BucketOf(deployment.commands, s)]
    /\ deployment' = [deployment EXCEPT !.left = @ \ {s},
                          !.pc = IF deployment.left = {s} THEN "done" ELSE @]

(* One put: the global scope, empty or not, then each guild's.             *)
Put(s) ==
    /\ deployment.pc = "putting" /\ s \in deployment.left
    /\ s = Global \/ Global \notin deployment.left
    /\ scopes' = [scopes EXCEPT ![s] = BucketOf(deployment.commands, s)]
    /\ deployment' = [deployment EXCEPT !.left = @ \ {s},
                          !.pc = IF deployment.left = {s} THEN "done" ELSE @]

PutFails ==
    /\ deployment.pc = "putting"
    /\ deployment' = [deployment EXCEPT !.pc = "failed"]
    /\ UNCHANGED scopes

===============================================================================
