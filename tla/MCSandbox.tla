------------------------------- MODULE MCSandbox -------------------------------
(* The sandbox bot with a few sets of modules, in and out of order.        *)
EXTENDS Sandbox

Rows(a, b) == [k \in {"a", "b"} |-> IF k = "a" THEN a ELSE b]
NoRows == Rows(Absent, Absent)
Record(revision, by) == [revision |-> revision, by |-> by]

Starts(bots, others, registers, copies) ==
    (BOT :> bots) @@ ("other bot" :> others) @@ (REGISTER :> registers) @@ (COPY :> copies)

(* Modules that cannot be assembled or built are seen by the bot alone.    *)
Judged(modules) ==
    [modules |-> modules, source |-> <<>>, target |-> NoRows,
     versions |-> {Migrations}, starts |-> Starts(1, 0, 0, 0), calls |-> 0, events |-> 0]

First == BotModule("first")
Second == BotModule("second")
Third == BotModule("third")
Settings(id, key) == Declaration(id, {key}, <<>>)

Modes == LabelledField("enum", {"second.field"}, {"second.choice"})
Roles == [LabelledField("list", {"second.field"}, {}) EXCEPT !.item.texts = {"second.item"}]
Labelled(fields) ==
    <<[First EXCEPT !.settings = <<Declaration("first", {"second.title"}, fields)>>],
      [Second EXCEPT !.translations = {"second.title", "second.field", "second.choice"}]>>

Assemblies ==
    <<<<First, [Second EXCEPT !.name = "first"]>>,
     <<First, [Second EXCEPT !.parts = "events" :> Part(<<Event(InteractionCreate, FALSE)>>)]>>,
     <<First, [Second EXCEPT !.built = "events" :> Part(<<Event(InteractionCreate, FALSE)>>)]>>,
     <<[First EXCEPT !.translations = {"core"}]>>,
     <<[First EXCEPT !.translations = {"k"}], Second, [Third EXCEPT !.translations = {"k"}]>>,
     <<[First EXCEPT !.settings = <<Settings("x", "core")>>],
       [Second EXCEPT !.settings = <<Settings("y", "core")>>],
       [Third EXCEPT !.settings = <<Settings("y", "core"), Settings("x", "core")>>]>>,
     <<[First EXCEPT !.settings = <<Settings("x", "core"), Settings("x", "core")>>]>>,
     <<First, [Second EXCEPT !.settings = <<Settings(KERNEL_SETTINGS_ID, "core")>>]>>,
     <<[First EXCEPT !.label = {"untold"}]>>,
     <<[First EXCEPT !.label = {"untold"}, !.gated = FALSE]>>,
     Labelled(<<Modes>>), Labelled(<<Roles>>),
     <<First, [Second EXCEPT !.buildThrows = TRUE]>>,
     <<First, [Second EXCEPT !.parts = "jobs" :> Part(<<>>), !.built = "jobs" :> Part(<<>>)]>>,
     <<First, [Second EXCEPT !.parts = "jobs" :> Part(<<>>), !.built = "jobs" :> Undefined]>>>>

(* Commands in every kind of scope, one of them named twice.               *)
Deploying ==
    [Judged(<<[First EXCEPT !.parts = ("commands" :> Part(<<Command("one", {}), Command("two", {"g1"})>>))
                                      @@ ("contextMenuCommands" :> Part(<<Command("one", {"g1"})>>))],
              [Second EXCEPT !.built = "commands" :> Part(<<[Command("one", {"g1", "g2"}) EXCEPT !.version = 2],
                                                            [Command("three", {}) EXCEPT !.body = FALSE]>>)]>>)
     EXCEPT !.starts = Starts(0, 0, 2, 0)]

Hearing ==
    [Judged(<<[First EXCEPT !.parts = "events" :> Part(<<Event("ready", TRUE), Event("message", FALSE)>>)],
              [Second EXCEPT !.gated = FALSE, !.built = "events" :> Part(<<Event("message", FALSE)>>)]>>)
     EXCEPT !.events = 3]

(* The bot and the copy over a database that holds one of the JSON store's *)
(* records already, or none; and the three programs opening it at once.    *)
Copying ==
    [Judged(<<>>) EXCEPT
        !.source = Rows(Record(2, "author"), Record(1, "author")), !.target = Rows(Absent, Record(1, "other")),
        !.starts = Starts(1, 0, 0, 2), !.calls = 2]
FreshCopy == [Copying EXCEPT !.target = NoRows, !.calls = 1, !.versions = {0}]
Opening == [Judged(<<>>) EXCEPT !.versions = 0 .. Migrations, !.starts = Starts(1, 0, 1, 1), !.source = "a" :> Record(1, "author")]
Sharing == [Judged(<<>>) EXCEPT !.starts = Starts(1, 1, 0, 0), !.calls = 3]

MCScenarios ==
    [i \in DOMAIN Assemblies |-> Judged(Assemblies[i])] \o <<Deploying, Hearing, Copying, FreshCopy, Opening, Sharing>>
MCProcesses == {"bot", "other bot", "register", "copy"}
===============================================================================
