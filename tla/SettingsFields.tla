---------------------------- MODULE SettingsFields ----------------------------
(***************************************************************************)
(* What a module declares as its settings, and what a surface may submit   *)
(* for them: the checks of a declaration, the two stages of validation,    *)
(* the spellings of a number, a duration and a colour, and the order in    *)
(* which every surface shows the fields.  Pure operators.                  *)
(*                                                                         *)
(* A value is a record: what it is, the strings it is made of (a text, a   *)
(* number in decimal, the items of a list, the toggles that are on), and,  *)
(* for toggles, the ones it says are off.                                  *)
(***************************************************************************)
EXTENDS Integers, SequencesExt, FiniteSetsExt

CONSTANTS
    Directory,          \* the kind of each channel, role and member of the guild
    Snowflakes,         \* the identifiers that read as a snowflake
    ColorOf,            \* ColorOf[text]: the #rrggbb that parseColor makes of text
    Decimals,           \* Decimals[text]: ten times the number text denotes
    NumberTexts,        \* the texts String(number) writes, one per number
    Amounts             \* the amounts a typed duration gives of a unit

(* The limits Discord puts on a declaration (FIELD_LIMITS).                *)
MaxText == 4000
MaxListItems == 25
MaxChoices == 25

EntityKinds == {"channel", "role", "user"}
ItemKinds == EntityKinds \cup {"enum", "integer", "text"}
Kinds == ItemKinds \cup {"color", "duration", "number", "boolean", "secret", "list", "toggles"}

Unbounded == -1         \* a bound the declaration leaves out
None == ""              \* no group, no item, no search

ASSUME FieldsAssumption ==
    /\ DOMAIN Directory \subseteq Snowflakes
    /\ NumberTexts \subseteq DOMAIN Decimals
    /\ \A t \in DOMAIN Decimals : \E n \in NumberTexts : Decimals[n] = Decimals[t]

V(is, of) == [is |-> is, of |-> of, off |-> {}]
Unset == V("unset", <<>>)
Text(t) == V("text", <<t>>)
Toggled(on, off) == [is |-> "toggles", of |-> on, off |-> off]

(* A field: its spec, flattened, and the hints that place it.  choices are *)
(* an enum's values or a toggles field's keys; a list has its item's       *)
(* choices, channel types and search.  offers is what its search answers to an     *)
(* empty query, knows what the search has a label for.                     *)
Field(key, kind) ==
    [key |-> key, kind |-> kind, item |-> None, group |-> None, order |-> Unbounded,
     required |-> FALSE, default |-> Unset, min |-> Unbounded, max |-> Unbounded,
     choices |-> <<>>, types |-> {}, search |-> None, offers |-> <<>>, knows |-> {}]

(* A declaration: its fields and groups in declared order, the order its   *)
(* ui wants the groups in, and the order each group asks for itself.       *)
FieldAt(D, key) == CHOOSE f \in ToSet(D.fields) : f.key = key
Keys(D) == {f.key : f \in ToSet(D.fields)}

(* fieldSearch: only an integer or a text searches on the server.          *)
Searchable(kind) == kind \in {"integer", "text"}
Searches(f) == Searchable(f.kind) /\ f.search # None

-------------------------------------------------------------------------------
(* Durations: units from days to seconds, each at most once.  SecondsOf is *)
(* parseDuration, over the texts that spell a duration.                    *)
UnitSeconds == <<86400, 3600, 60, 1>>
UnitSuffix == <<"d", "h", "m", "s">>

Spelled(parts) ==
    LET part(i) == IF parts[i] = Unbounded THEN "" ELSE ToString(parts[i]) \o UnitSuffix[i]
    IN  part(1) \o part(2) \o part(3) \o part(4)

Total(parts) ==
    LET part(i) == IF parts[i] = Unbounded THEN 0 ELSE parts[i] * UnitSeconds[i]
    IN  part(1) + part(2) + part(3) + part(4)

Spellings == [1..4 -> Amounts \cup {Unbounded}] \ {[i \in 1..4 |-> Unbounded]}
SecondsOf == [t \in {Spelled(p) : p \in Spellings} |->
                  Total(CHOOSE p \in Spellings : Spelled(p) = t)]

(* Faulty: what is left of a unit is not carried to the next one.          *)
FormatWithoutCarry(seconds) ==
    LET amount(i) == seconds \div UnitSeconds[i]
    IN  IF seconds = 0 THEN "0s"
        ELSE Spelled([i \in 1..4 |-> IF amount(i) = 0 THEN Unbounded ELSE amount(i)])

(* formatDuration: the largest units first, none of amount zero.           *)
FormatDuration(seconds) ==
    LET left(i) == IF i = 1 THEN seconds ELSE seconds % UnitSeconds[i - 1]
        amount(i) == left(i) \div UnitSeconds[i]
    IN  IF seconds = 0 THEN "0s"
        ELSE Spelled([i \in 1..4 |-> IF amount(i) = 0 THEN Unbounded ELSE amount(i)])

(* typedNumber: the number a text denotes, or the text itself.             *)
TypedNumber(text) ==
    IF text \in DOMAIN Decimals
    THEN V("number", <<CHOOSE n \in NumberTexts : Decimals[n] = Decimals[text]>>)
    ELSE Text(text)

NumberOf(v) == Decimals[v.of[1]]
Whole(v) == NumberOf(v) % 10 = 0
NumberText(n) == CHOOSE t \in NumberTexts : Decimals[t] = 10 * n

-------------------------------------------------------------------------------
(* Stage 1, parseFieldValue: the stored form of a value, or the codes of   *)
(* what is wrong with it.                                                  *)
Stored(v) == [ok |-> TRUE, value |-> v, codes |-> {}]
Refused(codes) == [ok |-> FALSE, value |-> Unset, codes |-> codes]
Checked(v, codes) == IF codes = {} THEN Stored(v) ELSE Refused(codes)

OutOf(n, min, max, tooLow, tooHigh) ==
    (IF min # Unbounded /\ n < min THEN {tooLow} ELSE {})
    \cup (IF max # Unbounded /\ n > max THEN {tooHigh} ELSE {})

OrElse(bound, limit) == IF bound = Unbounded THEN limit ELSE bound
InTenths(bound) == IF bound = Unbounded THEN Unbounded ELSE 10 * bound

ParsedNumber(f, v, whole) ==
    IF v.is # "number" \/ (whole /\ ~Whole(v)) THEN Refused({"type"})
    ELSE Checked(v, OutOf(NumberOf(v), InTenths(f.min), InTenths(f.max), "min", "max"))

(* A duration may come as its spelling, and is never negative.             *)
SecondsIn(v) ==
    IF v.is = "text" /\ v.of[1] \in DOMAIN SecondsOf
    THEN V("number", <<NumberText(SecondsOf[v.of[1]])>>) ELSE v

NotNegative(v, parsed) ==
    IF v.is = "number" /\ NumberOf(v) < 0 THEN Refused({"min"} \cup parsed.codes) ELSE parsed

ParsedDuration(f, v) == NotNegative(SecondsIn(v), ParsedNumber(f, SecondsIn(v), TRUE))

(* Toggles: each a declared key; a key not submitted takes its default.    *)
ParsedToggles(f, v) ==
    LET known == ToSet(f.choices)
        on == ToSet(v.of) \cup (ToSet(f.default.of) \ v.off)
    IN  IF v.is # "toggles" THEN Refused({"type"})
        ELSE IF ~((ToSet(v.of) \cup v.off) \subseteq known) THEN Refused({"unknownChoice"})
        ELSE Stored(Toggled(SelectSeq(f.choices, LAMBDA k : k \in on), known \ on))

ParsedScalar(f, kind, v) ==
    CASE kind \in EntityKinds ->
            IF v.is = "text" /\ v.of[1] \in Snowflakes THEN Stored(v) ELSE Refused({"type"})
      [] kind = "enum" ->
            IF v.is = "text" /\ Contains(f.choices, v.of[1]) THEN Stored(v)
            ELSE Refused({"unknownChoice"})
      [] kind = "color" ->
            IF v.is = "text" /\ v.of[1] \in DOMAIN ColorOf THEN Stored(Text(ColorOf[v.of[1]]))
            ELSE Refused({"type"})
      [] kind = "text" ->
            IF v.is # "text" THEN Refused({"type"})
            ELSE Checked(v, OutOf(Len(v.of[1]), f.min, OrElse(f.max, MaxText), "minLength", "maxLength"))
      [] kind \in {"boolean", "secret"} ->
            IF v.is = (IF kind = "secret" THEN "text" ELSE kind) THEN Stored(v) ELSE Refused({"type"})
      [] kind = "duration" -> ParsedDuration(f, v)
      [] kind = "number" -> ParsedNumber(f, v, FALSE)
      [] kind = "integer" -> ParsedNumber(f, v, TRUE)
      [] kind = "toggles" -> ParsedToggles(f, v)

(* The items of a list are all texts or all numbers, or it is "mixed"; the *)
(* items' own bounds are left out.  Duplicates are looked for among items  *)
(* that are each of their kind.                                            *)
ItemOf(v, i) == V(IF v.is = "numbers" THEN "number" ELSE "text", <<v.of[i]>>)

WrongItems(f, v) ==
    LET itemField == [Field(f.key, f.item) EXCEPT !.choices = f.choices]
    IN  IF v.is = "mixed" THEN {"type"}
        ELSE UNION {ParsedScalar(itemField, f.item, ItemOf(v, i)).codes : i \in DOMAIN v.of}

SizedList(f, v, wrong) ==
    Checked(v, wrong \cup OutOf(Len(v.of), f.min, OrElse(f.max, MaxListItems), "minItems", "maxItems")
               \cup (IF wrong = {} /\ ~IsInjective(v.of) THEN {"duplicate"} ELSE {}))

ParsedList(f, v) ==
    IF v.is \notin {"texts", "numbers", "mixed"} THEN Refused({"type"})
    ELSE SizedList(f, v, WrongItems(f, v))

ParseFieldValue(f, v) ==
    IF f.kind = "list" THEN ParsedList(f, v) ELSE ParsedScalar(f, f.kind, v)

-------------------------------------------------------------------------------
(* Stage 2: what a value names must be on the guild, and of a type the     *)
(* field takes; a strict search must know it, and knows nothing while it   *)
(* does not answer.                                                        *)
CheckEntity(f, kind, id) ==
    IF kind \notin EntityKinds THEN {}
    ELSE IF id \notin DOMAIN Directory THEN {"notFound"}
    ELSE IF kind = "channel"
         THEN IF Directory[id] \in {"role", "user"} THEN {"notFound"}
              ELSE IF f.types # {} /\ Directory[id] \notin f.types THEN {"channelType"} ELSE {}
    ELSE IF Directory[id] = kind THEN {} ELSE {"notFound"}

CheckValue(f, kind, id, answering) ==
    IF Searchable(kind) /\ f.search = "strict"
    THEN IF answering /\ id \in f.knows THEN {} ELSE {"unknownChoice"}
    ELSE CheckEntity(f, kind, id)

(* Of a list, each item, with the search that its item declares.           *)
CheckReferences(f, v, answering) ==
    IF v = Unset THEN {}
    ELSE UNION {CheckValue(f, IF f.kind = "list" THEN f.item ELSE f.kind, id, answering) :
                    id \in ToSet(v.of)}

(* Faulty: what the guild has is checked first, and alone.                 *)
OnlyReferences(f, v, answering) == Checked(v, CheckReferences(f, v, answering))

(* One field of a submission: parseEntry, then checkEntry.                 *)
OnTheGuild(f, parsed, answering) ==
    IF parsed.ok THEN Checked(parsed.value, CheckReferences(f, parsed.value, answering)) ELSE parsed

CheckEntry(f, v, answering) ==
    IF v = Unset THEN IF f.required /\ f.default = Unset THEN Refused({"required"}) ELSE Stored(Unset)
    ELSE OnTheGuild(f, ParseFieldValue(f, v), answering)

(* validateSettings: every field of the patch in its stored form, or every *)
(* issue found; a key the declaration lacks is one.                        *)
ValidateSettings(D, patch, answering) ==
    [k \in DOMAIN patch |-> IF k \in Keys(D) THEN CheckEntry(FieldAt(D, k), patch[k], answering)
                            ELSE Refused({"unknownField"})]

Accepted(checked) == \A k \in DOMAIN checked : checked[k].ok
StoredForms(checked) == [k \in DOMAIN checked |-> checked[k].value]

-------------------------------------------------------------------------------
(* What a surface reads of a stored value: its default when it is unset,   *)
(* and of a secret only whether it is set.                                 *)
Effective(f, stored) == IF stored = Unset THEN f.default ELSE stored
ForSurface(f, stored) ==
    IF f.kind = "secret" THEN V("secret", IF stored = Unset THEN <<>> ELSE <<"set">>)
    ELSE Effective(f, stored)

(* A required field without a default is missing until it is set.          *)
Missing(D, stored) == {k \in Keys(D) : FieldAt(D, k).required
                                       /\ Effective(FieldAt(D, k), stored[k]) = Unset}

(* defineSettings: the checks of a declaration that need no guild.         *)
CheckSpec(f, kind) ==
    /\ kind = "enum" => Len(f.choices) \in 1..MaxChoices
    /\ kind = "text" => f.max <= MaxText
    /\ kind = "list" => f.max <= MaxListItems /\ f.item \in ItemKinds
    /\ kind = "toggles" => IsInjective(f.choices)

CheckField(D, f) ==
    /\ f.group # None => Contains(D.groups, f.group)
    /\ f.kind = "secret" => f.default = Unset
    /\ CheckSpec(f, f.kind)
    /\ f.kind = "list" => CheckSpec(f, f.item)
    /\ f.default # Unset => ParseFieldValue(f, f.default).ok

DefineSettings(D) ==
    /\ D.version \in Nat \ {0}
    /\ D.version > 1 => D.migrates
    /\ \A f \in ToSet(D.fields) : CheckField(D, f)

-------------------------------------------------------------------------------
(* displayOrder: loose fields by their order, groups by the ui's order,    *)
(* then their own, then where they are declared; each place on the screen  *)
(* is kept by its kind.                                                    *)
Unranked == 1000000
Rank(n) == OrElse(n, Unranked)
Before(a, b) ==
    \E i \in DOMAIN a : a[i] < b[i] /\ \A j \in 1..(i - 1) : a[j] = b[j]

SortedItems(items, rank) == SortSeq(items, LAMBDA a, b : Before(rank[a], rank[b]))

FieldRanks(D) ==
    [k \in Keys(D) |-> LET i == SelectInSeq(D.fields, LAMBDA f : f.key = k)
                       IN  <<Rank(D.fields[i].order), i>>]

Members(D, g) ==
    LET members == SelectSeq(D.fields, LAMBDA f : f.group = g)
    IN  SortedItems([i \in DOMAIN members |-> members[i].key], FieldRanks(D))
FirstField(D, g) == SelectInSeq(D.fields, LAMBDA f : f.group = g)

RankedGroups(D) ==
    LET position(g) == SelectInSeq(D.groupOrder, LAMBDA h : h = g)
        declared(g) == SelectInSeq(D.groups, LAMBDA h : h = g)
        rank == [g \in ToSet(D.groups) |->
                    <<IF position(g) = 0 THEN Unranked ELSE position(g), Rank(D.orders[g]),
                      IF FirstField(D, g) = 0 THEN Len(D.fields) + declared(g)
                      ELSE FirstField(D, g)>>]
    IN  SortedItems(D.groups, rank)

DisplayOrder(D) ==
    LET slots == SelectSeq([i \in DOMAIN D.fields |-> i],
                           LAMBDA i : \/ D.fields[i].group = None
                                      \/ FirstField(D, D.fields[i].group) = i)
        ofGroup(s) == D.fields[slots[s]].group # None
        place(s) == Cardinality({t \in 1..s : ofGroup(t) = ofGroup(s)})
        filled == SelectSeq(RankedGroups(D), LAMBDA g : FirstField(D, g) # 0)
        loose == Members(D, None)
        entry(s) == IF ofGroup(s)
                    THEN [group |-> filled[place(s)], fields |-> Members(D, filled[place(s)])]
                    ELSE [group |-> None, fields |-> <<loose[place(s)]>>]
    IN  [s \in DOMAIN slots |-> entry(s)]

===============================================================================
