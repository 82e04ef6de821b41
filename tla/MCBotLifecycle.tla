---------------------------- MODULE MCBotLifecycle ----------------------------
(* An instance of BotLifecycle for TLC: one database, a required module    *)
(* and an optional one.                                                    *)
EXTENDS BotLifecycle, TLC

CONSTANTS db, core, extra

MCDatabases == <<db>>
MCModules == <<core, extra>>

===============================================================================
