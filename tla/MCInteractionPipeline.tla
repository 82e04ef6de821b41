-------------------------- MODULE MCInteractionPipeline ------------------------
(* Two interactions at a time, for the routes of two modules of which one's*)
(* setup failed, and two members with a cooldown each.                     *)
EXTENDS InteractionPipeline, TLC

MCModules == {"shop", "broken"}
MCUnavailable == {"broken"}
MCSymmetry == Permutations(Interactions)
MCKeys == {"u1", "u2"}

R(kind, module, gated, permitted, guard, defer, key) ==
    [kind |-> kind, module |-> module, gated |-> gated, permitted |-> permitted,
     guard |-> guard, defer |-> defer, key |-> key]

MCRoutes ==
    {R("command", "shop", TRUE, TRUE, "cooldown", TRUE, k) : k \in MCKeys}
    \cup {R("command", "shop", FALSE, TRUE, "configured", FALSE, "u1"),
          R("component", "shop", TRUE, FALSE, "none", FALSE, "u1"),
          R("component", "shop", TRUE, TRUE, "custom", FALSE, "u1"),
          R("autocomplete", "shop", TRUE, TRUE, "none", FALSE, "u1"),
          R("autocomplete", "broken", TRUE, TRUE, "none", FALSE, "u1"),
          R("command", "shop", FALSE, TRUE, "unroutable", FALSE, "u1"),
          R("unknown", "shop", FALSE, TRUE, "none", FALSE, "u1")}

===============================================================================
