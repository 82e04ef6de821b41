---------------------------- MODULE MCSettingsScreen ----------------------------
(* A guild with a few channels, roles and members, and the declarations    *)
(* opened over it; or, in place of one of the screens, a message that shows*)
(* a collection page by page.                                              *)
EXTENDS SettingsScreen, Paginators

MCDirectory == ("c1" :> "text") @@ ("c2" :> "voice") @@ ("k1" :> "category") @@ ("r1" :> "role")
               @@ ("r2" :> "role") @@ ("u1" :> "user")
MCSnowflakes == {"c1", "c2", "k1", "r1", "r2", "u1", "gone"}
MCColorOf == ("#FFF" :> "#ffffff") @@ ("#ffffff" :> "#ffffff") @@ ("red" :> "#ff0000")
             @@ ("#ff0000" :> "#ff0000")
MCDecimals == ("0" :> 0) @@ ("1" :> 10) @@ ("1.0" :> 10) @@ ("1.5" :> 15) @@ ("7" :> 70)
              @@ ("-1" :> -10) @@ ("90" :> 900) @@ ("3661" :> 36610) @@ ("86400" :> 864000)
MCNumberTexts == DOMAIN MCDecimals \ {"1.0"}
MCAmounts == {0, 1, 30}

Declared(fields, groups) ==
    [fields |-> fields, groups |-> groups, groupOrder |-> <<>>,
     orders |-> [g \in ToSet(groups) |-> Unbounded], version |-> 1, migrates |-> FALSE]
In(f, group) == [f EXCEPT !.group = group]
Number(t) == V("number", <<t>>)
Bool(b) == V("boolean", <<b>>)

Scenario(declaration, records) ==
    [declaration |-> declaration, records |-> records, chromes |-> {Chrome("card")},
     answering |-> {TRUE}, clicked |-> {}, patches |-> {}]

(* Every kind of field, over values at their edges.                        *)
KindFields ==
    <<Field("title", "text"), Field("ratio", "number"), [Field("count", "integer") EXCEPT !.min = 0],
      Field("delay", "duration"), Field("accent", "color"), Field("on", "boolean"),
      Field("token", "secret"), [Field("mode", "enum") EXCEPT !.choices = <<"a", "b">>],
      [Field("place", "channel") EXCEPT !.types = {"text"}], Field("who", "user"),
      [Field("roles", "list") EXCEPT !.item = "role"],
      [Field("modes", "list") EXCEPT !.item = "enum", !.choices = <<"a", "b">>],
      [Field("words", "list") EXCEPT !.item = "text", !.search = "strict", !.knows = {"one", "two"}], [Field("sizes", "list") EXCEPT !.item = "integer"],
      [Field("flags", "toggles") EXCEPT !.choices = <<"x", "y">>, !.default = Toggled(<<"x">>, {"y"})]>>
KindValues ==
    [title |-> Text("hello"), ratio |-> Number("1.5"), count |-> Number("0"), delay |-> Number("3661"),
     accent |-> Text("#ffffff"), on |-> Bool("true"), token |-> Text("hello"), mode |-> Text("b"),
     place |-> Text("c1"), who |-> Text("u1"), roles |-> V("texts", <<"r2", "r1">>),
     modes |-> V("texts", <<"b", "a">>), words |-> V("texts", <<"one", "two">>),
     sizes |-> V("numbers", <<"7", "1">>), flags |-> Toggled(<<"y">>, {"x"})]
KindUnset == [k \in DOMAIN KindValues |-> Unset]
Edges == [delay : {Number("0"), Number("90"), Number("86400"), Number("3661")},
          place : {Text("c1"), Text("c2"), Text("gone")}]
AllKinds == Declared(KindFields, <<>>)
Kinds15 == Scenario(AllKinds, {KindUnset} \cup {e @@ KindValues : e \in Edges})
Grouped == Scenario(Declared([i \in DOMAIN KindFields |-> In(KindFields[i], "g")], <<"g">>), {KindValues})

(* More entries than two levels hold, around a group of more than fifty    *)
(* controls, with a searched field at the end of a modal.                  *)
Wide(n) == [i \in 1..n |-> Field("f" \o ToString(i), "boolean")]
Searched(key) == [Field(key, "text") EXCEPT !.search = "free", !.offers = <<"A", "B">>, !.knows = {"A", "B"}]
WideFields ==
    Wide(12) \o <<In(Searched("s1"), "g")>> \o
    [i \in 1..52 |-> IF i = 3 THEN In(Searched("s2"), "g") ELSE In(Field("g" \o ToString(i), "boolean"), "g")]
    \o <<Searched("s3"), [Field("many", "toggles") EXCEPT !.choices = [i \in 1..26 |-> "t" \o ToString(i)]]>>
WideDeclaration == Declared(WideFields, <<"g">>)
WideScreen ==
    [Scenario(WideDeclaration, {[k \in Keys(WideDeclaration) |-> Unset]}) EXCEPT
        !.chromes = {Chrome("card"), Chrome("embeds")}, !.answering = {TRUE, FALSE},
        !.clicked = {"level#1", "level#2", "level#3", BackButton}]

(* A group's modal, and another's write to one of its fields.              *)
EditedFields ==
    <<In([Field("place", "channel") EXCEPT !.types = {"text"}], "g"), In(Field("token", "secret"), "g")>>
EditedValues == [place |-> Text("gone"), token |-> Text("1")]
Edited ==
    [Scenario(Declared(EditedFields, <<"g">>), {EditedValues}) EXCEPT
        !.clicked = {"g#1"}, !.patches = {"place" :> Text("c1")}]

(* A control whose value is stored in another form than typed, beside the  *)
(* reset.                                                                  *)
Coloured ==
    [Scenario(Declared(<<Field("accent", "color")>>, <<>>), {[accent |-> Text("#ffffff")]}) EXCEPT
        !.chromes = {[Chrome(l) EXCEPT !.resets = TRUE] : l \in {"card", "embeds"}},
        !.clicked = {"accent"} \cup EditorButtons]

(* A searched field in a group, and a strict one that may not answer.      *)
Searching ==
    [Scenario(Declared(<<In(Searched("s1"), "g"), In(Field("on", "boolean"), "g")>>, <<"g">>),
              {[s1 |-> Text("A"), on |-> Unset]}) EXCEPT
        !.chromes = {Chrome("embeds")}, !.clicked = {"g#1"}]
Strict ==
    [Scenario(Declared(<<[Searched("s2") EXCEPT !.search = "strict"]>>, <<>>), {[s2 |-> Text("B")]}) EXCEPT
        !.answering = {TRUE, FALSE}, !.clicked = {"s2"}]

MCScenarios == <<Kinds15, Grouped, WideScreen, Edited, Coloured, Searching, Strict>>
MCTypedTexts == {"", "1", "red"}
MCRounds == {1, 2}

MCOpenings == {-1, 1, 9}
MCFlips == {1, 2}

(* A paginator takes the place of the screen that searches.                *)
MCInit == Init /\ PagingInit /\ (book.kind # "none" => Scenarios[scenario] = Searching)

MCNext ==
    \/ book.kind = "none" /\ Next /\ UNCHANGED pagingVars
    \/ PagingNext /\ UNCHANGED vars

MCSpec == MCInit /\ [][MCNext]_<<vars, pagingVars>>
MCFairSpec == MCSpec /\ Fairness

UntouchedScenarios == <<Searching>>
MCOneRound == {1}
===============================================================================
