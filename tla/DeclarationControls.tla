-------------------------- MODULE DeclarationControls --------------------------
(***************************************************************************)
(* The controls a settings screen offers for a declaration, and how a value*)
(* moves through them: what the modal of a control opens on, what counts as*)
(* unchanged, what a submission puts in the patch, and what the screen     *)
(* shows of it.  Pure operators.                                           *)
(*                                                                         *)
(* A text box holds lines, <<>> when it holds nothing (null); a picker     *)
(* holds the ids picked, <<>> when none is.                                *)
(***************************************************************************)
EXTENDS SettingsFields

MaxSelectOptions == 25
MaxAutocompleteChoices == 25

Control(key, f, shape, kind) ==
    [key |-> key, field |-> f.key, group |-> f.group, shape |-> shape, kind |-> kind,
     numeric |-> FALSE, keys |-> <<>>, options |-> <<>>, types |-> {},
     min |-> 0, max |-> 1, maxLength |-> MaxText]

IsPickerField(c) == c.kind \in {"role", "category", "user", "channel", "choice"}
IsFreeEntry(c) == c.shape = "other"

-------------------------------------------------------------------------------
(* The first 25 results of a field's search for an empty query, its current*)
(* value first when they miss it.                                          *)
SuggestChoices(f, answering) ==
    IF answering THEN SubSeq(f.offers, 1, Min({Len(f.offers), MaxAutocompleteChoices})) ELSE <<>>

WithCurrent(results, value) ==
    IF results = <<>> \/ value = Unset \/ Contains(results, value.of[1]) THEN results
    ELSE value.of \o results

LoadSearchOptions(D, values, answering) ==
    [k \in {g.key : g \in {h \in ToSet(D.fields) : Searches(h)}} |->
        LET options == WithCurrent(SuggestChoices(FieldAt(D, k), answering), values[k])
        IN  SubSeq(options, 1, Min({Len(options), MaxSelectOptions}))]

(* The searches answered at once, or not at all: a search that fails or is *)
(* slow offers nothing.                                                    *)
Offered(f, options) == IF Searches(f) THEN options[f.key] ELSE <<>>

Chunked(s, size) ==
    [i \in 1..((Len(s) + size - 1) \div size) |->
        SubSeq(s, (i - 1) * size + 1, Min({i * size, Len(s)}))]

(* A toggles field as selects of at most 25 keys; split ones are numbered. *)
TogglesControls(f) ==
    LET chunks == Chunked(f.choices, MaxSelectOptions)
        key(i) == IF Len(chunks) = 1 THEN f.key ELSE f.key \o "#" \o ToString(i)
    IN  [i \in DOMAIN chunks |->
            [Control(key(i), f, "toggles", "choice") EXCEPT
                !.keys = chunks[i], !.options = chunks[i], !.max = Len(chunks[i])]]

PickerEntry(f, kind, c) ==
    CASE kind = "enum" -> [c EXCEPT !.kind = "choice", !.options = f.choices]
      [] kind = "channel" -> IF f.types = {"category"} THEN [c EXCEPT !.kind = "category"]
                             ELSE [c EXCEPT !.kind = "channel", !.types = f.types]
      [] kind \in {"role", "user"} -> [c EXCEPT !.kind = kind]

ListControl(f) ==
    IF f.item \in {"integer", "text"}
    THEN [Control(f.key, f, "lines", "text") EXCEPT !.numeric = f.item = "integer"]
    ELSE PickerEntry(f, f.item, [Control(f.key, f, "many", f.item) EXCEPT
                !.min = OrElse(f.min, 0), !.max = OrElse(f.max, MaxListItems)])

SingleControl(f) ==
    CASE f.kind = "text" -> [Control(f.key, f, "text", "text") EXCEPT !.maxLength = OrElse(f.max, MaxText)]
      [] f.kind = "color" -> Control(f.key, f, "text", "text")
      [] f.kind \in {"integer", "number"} -> Control(f.key, f, "number", "text")
      [] f.kind \in {"duration", "secret"} -> Control(f.key, f, f.kind, "text")
      [] f.kind = "boolean" -> [Control(f.key, f, "boolean", "choice") EXCEPT !.options = <<"true", "false">>]
      [] f.kind \in EntityKinds \cup {"enum"} -> PickerEntry(f, f.kind, Control(f.key, f, "single", f.kind))
      [] f.kind = "list" -> ListControl(f)

(* A search that offers something is a select, and, when it is not strict, *)
(* a free entry beside it.                                                 *)
SearchControls(f, options) ==
    LET numeric == f.kind = "integer"
        select == [Control(f.key, f, "search", "choice") EXCEPT !.numeric = numeric, !.options = options]
        free == [Control(f.key \o "#other", f, "other", "text") EXCEPT !.numeric = numeric,
                    !.maxLength = IF f.kind = "text" THEN OrElse(f.max, MaxText) ELSE MaxText]
    IN  IF f.search = "strict" THEN <<select>> ELSE <<select, free>>

FieldControls(f, options) ==
    IF f.kind = "toggles" THEN TogglesControls(f)
    ELSE IF Offered(f, options) # <<>> THEN SearchControls(f, Offered(f, options))
    ELSE <<SingleControl(f)>>

(* displayedControls: the controls in the display order of their fields.   *)
DisplayedControls(D, options) ==
    LET places == DisplayOrder(D)
        keys == FlattenSeq([i \in DOMAIN places |-> places[i].fields])
    IN  FlattenSeq([i \in DOMAIN keys |-> FieldControls(FieldAt(D, keys[i]), options)])

-------------------------------------------------------------------------------
(* What the screen holds of a guild: the values as a surface reads them,   *)
(* and the stored entities the guild no longer has.                        *)
StoredIds(v) == IF v.is \in {"text", "texts"} THEN v.of ELSE <<>>

UnavailableIds(D, f, v) ==
    LET one(id) == IF f.kind = "list" THEN V("texts", <<id>>) ELSE Text(id)
        codes(id) == ValidateSettings(D, f.key :> one(id), TRUE)[f.key].codes
    IN  IF (IF f.kind = "list" THEN f.item ELSE f.kind) \notin EntityKinds THEN <<>>
        ELSE SelectSeq(StoredIds(v), LAMBDA id : codes(id) \cap {"notFound", "channelType"} # {})

LoadSubject(D, stored) ==
    LET values == [k \in Keys(D) |-> ForSurface(FieldAt(D, k), stored[k])]
    IN  [values |-> values,
         unavailable |-> [k \in Keys(D) |-> UnavailableIds(D, FieldAt(D, k), values[k])]]

Opening(text, picked) == [text |-> text, picked |-> picked]
SecretState(v) == IF v.of = <<>> THEN "secretNotSet" ELSE "secretSet"

(* controlValue: what the modal of a control opens on.                     *)
ControlValue(c, subject) ==
    LET v == subject.values[c.field]
        missing == ToSet(subject.unavailable[c.field])
    IN  CASE c.shape = "text" -> Opening(IF v.is = "text" THEN v.of ELSE <<>>, <<>>)
          [] c.shape = "number" -> Opening(IF v.is = "number" THEN v.of ELSE <<>>, <<>>)
          [] c.shape = "duration" -> Opening(IF v.is = "number"
                                             THEN <<FormatDuration(NumberOf(v) \div 10)>> ELSE <<>>, <<>>)
          [] c.shape = "secret" -> Opening(<<SecretState(v)>>, <<>>)
          [] c.shape = "lines" -> Opening(v.of, <<>>)
          [] c.shape \in {"boolean", "search"} -> Opening(<<>>, v.of)
          [] c.shape \in {"single", "many"} ->
                Opening(IF missing = {} THEN <<>> ELSE <<"valueUnavailable">>,
                        SelectSeq(StoredIds(v), LAMBDA id : id \notin missing))
          [] c.shape = "toggles" -> Opening(<<>>, SelectSeq(c.keys, LAMBDA k : k \in ToSet(v.of)))
          [] c.shape = "other" -> Opening(<<>>, <<>>)

(* What a modal comes back with, and whether it is what it opened on: a box*)
(* left empty and no value are alike.                                      *)
Submission(value, ids) == [value |-> value, ids |-> ids]
Blank(lines) == IF lines = <<>> THEN <<"">> ELSE lines
IsUnchanged(c, submission, current) ==
    IF IsPickerField(c) THEN submission.ids = current.picked
    ELSE Blank(submission.value) = Blank(current.text)

TypedLines(c, lines) ==
    LET items == SelectSeq(lines, LAMBDA l : l # "")
        numbers == [i \in DOMAIN items |-> TypedNumber(items[i])]
    IN  IF items = <<>> THEN Unset
        ELSE IF ~c.numeric THEN V("texts", items)
        ELSE IF \A i \in DOMAIN items : numbers[i].is = "number"
             THEN V("numbers", [i \in DOMAIN items |-> numbers[i].of[1]])
        ELSE V("mixed", items)

One(ids) == IF Len(ids) = 1 THEN Text(ids[1]) ELSE V("texts", ids)

(* The toggles of one select over the ones the patch or the screen holds.  *)
PickedToggles(c, ids, current) ==
    LET held == IF current.is = "toggles" THEN current ELSE Toggled(<<>>, {})
        shown == ToSet(c.keys)
    IN  Toggled(SelectSeq(held.of, LAMBDA k : k \notin shown \cup ToSet(ids)) \o ids,
                (held.off \cup shown) \ ToSet(ids))

SubmittedValue(c, submission, current) ==
    LET value == submission.value
        ids == submission.ids
    IN  CASE c.shape \in {"text", "duration", "secret"} -> IF value = <<>> THEN Unset ELSE V("text", value)
          [] c.shape \in {"number"} -> IF value = <<>> THEN Unset ELSE TypedNumber(value[1])
          [] c.shape = "lines" -> TypedLines(c, value)
          [] c.shape = "boolean" -> IF ids = <<>> THEN Unset ELSE V("boolean", <<ids[1]>>)
          [] c.shape = "single" -> IF ids = <<>> THEN Unset ELSE One(ids)
          [] c.shape = "many" -> IF ids = <<>> THEN Unset ELSE V("texts", ids)
          [] c.shape = "toggles" -> PickedToggles(c, ids, current)
          [] c.shape = "search" -> IF ids = <<>> THEN Unset
                                   ELSE IF c.numeric /\ Len(ids) = 1 THEN TypedNumber(ids[1]) ELSE One(ids)
          [] c.shape = "other" -> IF value = <<>> THEN Unset
                                  ELSE IF c.numeric THEN TypedNumber(value[1]) ELSE V("text", value)

(* Add what one control came back with to a patch.                         *)
WithSubmission(c, submission, subject, patch) ==
    LET current == IF c.field \in DOMAIN patch THEN patch[c.field] ELSE subject.values[c.field]
    IN  (c.field :> SubmittedValue(c, submission, current)) @@ patch

-------------------------------------------------------------------------------
(* controlDisplay: what the screen shows of a control's value, each item as*)
(* what it reads as: a text, a mention, a label, or a message of its own.  *)
Shown(as, of) == <<[as |-> as, of |-> of]>>

PickedDisplay(c, subject, v) ==
    LET ids == StoredIds(v)
        item(id) == IF Contains(subject.unavailable[c.field], id) THEN Shown("message", "valueUnavailable")
                    ELSE IF c.kind # "choice" THEN Shown("mention", id)
                    ELSE Shown(IF Contains(c.options, id) THEN "label" ELSE "text", id)
    IN  IF ids = <<>> THEN Shown("message", "valueNotSet")
        ELSE FlattenSeq([i \in DOMAIN ids |-> item(ids[i])])

TogglesDisplay(c, v) ==
    LET on == SelectSeq(c.keys, LAMBDA k : k \in ToSet(v.of))
    IN  IF on = <<>> THEN Shown("message", "valueNone")
        ELSE FlattenSeq([i \in DOMAIN on |-> Shown("label", on[i])])

ControlDisplay(c, subject) ==
    LET v == subject.values[c.field]
    IN  CASE c.shape = "secret" -> Shown("message", SecretState(v))
          [] c.shape # "secret" /\ v = Unset -> Shown("message", "valueNotSet")
          [] c.shape \in {"single", "many"} /\ v # Unset -> PickedDisplay(c, subject, v)
          [] c.shape = "toggles" /\ v # Unset -> TogglesDisplay(c, v)
          [] c.shape = "duration" /\ v # Unset -> Shown("text", FormatDuration(NumberOf(v) \div 10))
          [] OTHER -> FlattenSeq([i \in DOMAIN v.of |-> Shown("text", v.of[i])])

===============================================================================
