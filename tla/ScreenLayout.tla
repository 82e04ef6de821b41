------------------------------ MODULE ScreenLayout ------------------------------
(***************************************************************************)
(* Where the controls of a declaration stand on its settings screen: the   *)
(* entries of the root, the levels nested below it, the modals a group is  *)
(* split into, and the path from the root to the level being shown.  Pure  *)
(* operators.                                                              *)
(***************************************************************************)
EXTENDS DeclarationControls

MaxLevelEntries == 10
MaxModalComponents == 5
Root == "root"

(* One place on a level: a control of its own, a modal of several controls,*)
(* or the way into another level.                                          *)
Entry(kind, key, members) == [kind |-> kind, key |-> key, members |-> members]
ControlEntry(c) == Entry("control", c.key, <<c>>)

(* A select and its free entry are one unit, any other control is one.     *)
WithControl(units, c) ==
    IF IsFreeEntry(c) /\ units # <<>> /\ Last(units)[1].field = c.field
    THEN Append(Front(units), Append(Last(units), c))
    ELSE Append(units, <<c>>)

ControlUnits(controls) ==
    LET units[i \in 0..Len(controls)] ==
            IF i = 0 THEN <<>> ELSE WithControl(units[i - 1], controls[i])
    IN  units[Len(controls)]

(* Faulty: the controls of a unit are packed one by one.                   *)
PackedApart(units, group, size) ==
    Chunked(FlattenSeq(SelectSeq(units, LAMBDA u : u[1].group = group)), size)

(* The units of a group, packed in order; one that does not fit starts the *)
(* next chunk.                                                             *)
WithUnit(chunks, unit, size) ==
    IF chunks # <<>> /\ Len(Last(chunks)) + Len(unit) <= size
    THEN Append(Front(chunks), Last(chunks) \o unit)
    ELSE Append(chunks, unit)

Packed(units, group, size) ==
    LET chunks[i \in 0..Len(units)] ==
            IF i = 0 THEN <<>>
            ELSE IF units[i][1].group # group THEN chunks[i - 1]
            ELSE WithUnit(chunks[i - 1], units[i], size)
    IN  chunks[Len(units)]

(* A section is the entries one place of the root stands for: a control, a *)
(* searched field's modal, or the modals of a group, which stands where its*)
(* first control does; its other controls stand for nothing.               *)
SearchSection(unit) == <<Entry("group", unit[1].field \o "#search", unit)>>

GroupSection(units, group) ==
    LET chunks == Packed(units, group, MaxModalComponents)
    IN  [i \in DOMAIN chunks |-> Entry("group", group \o "#" \o ToString(i), chunks[i])]

DeclarationSections(controls) ==
    LET units == ControlUnits(controls)
        section(i) ==
            LET first == units[i][1]
            IN  IF first.group = None
                THEN IF Len(units[i]) = 1 THEN <<ControlEntry(first)>> ELSE SearchSection(units[i])
                ELSE IF SelectInSeq(units, LAMBDA u : u[1].group = first.group) = i
                     THEN GroupSection(units, first.group)
                     ELSE <<>>
    IN  [i \in DOMAIN units |-> section(i)]

(* Levels are made from the inside out, and numbered as they are made: what*)
(* does not fit is put behind a "more settings" level, which may itself    *)
(* not fit.                                                                *)
NewLevel(inner) ==
    LET key == "level#" \o ToString(Len(inner.levels) + 1)
    IN  [entry |-> Entry("level", key, <<>>),
         levels |-> Append(inner.levels, [key |-> key, fields |-> inner.fields])]

(* paged[n]: the last n entries.                                           *)
Paged(entries, levels) ==
    LET kept == MaxLevelEntries - 1
        paged[n \in 0..Len(entries)] ==
            LET before == Len(entries) - n
                more == NewLevel(paged[n - kept])
            IN  IF n <= MaxLevelEntries
                THEN [fields |-> SubSeq(entries, before + 1, Len(entries)), levels |-> levels]
                ELSE [fields |-> Append(SubSeq(entries, before + 1, before + kept), more.entry),
                      levels |-> more.levels]
    IN  paged[Len(entries)]

NestedLevel(entries, levels) == NewLevel(Paged(entries, levels))

(* A group split over several modals becomes a level of its own.           *)
WithSection(folded, section) ==
    LET nested == NestedLevel(section, folded.levels)
    IN  IF Len(section) <= 1 THEN [folded EXCEPT !.fields = @ \o section]
        ELSE [fields |-> Append(folded.fields, nested.entry), levels |-> nested.levels]

FoldedEntries(sections) ==
    LET folded[i \in 0..Len(sections)] ==
            IF i = 0 THEN [fields |-> <<>>, levels |-> <<>>]
            ELSE WithSection(folded[i - 1], sections[i])
    IN  folded[Len(sections)]

LayoutDeclaration(controls) ==
    LET sections == DeclarationSections(controls)
        flat == FlattenSeq(sections)
        folded == FoldedEntries(sections)
    IN  IF Len(flat) <= MaxLevelEntries THEN [fields |-> flat, levels |-> <<>>]
        ELSE Paged(folded.fields, folded.levels)

-------------------------------------------------------------------------------
(* Navigation: every level, the root first, and the path to the one shown. *)
AllLevels(layout) == <<[key |-> Root, fields |-> layout.fields]>> \o layout.levels

(* A key no level has falls back to the root.                              *)
LevelAt(layout, key) ==
    LET i == SelectInSeq(AllLevels(layout), LAMBDA l : l.key = key)
    IN  AllLevels(layout)[IF i = 0 THEN 1 ELSE i]

AllFields(layout) == FlattenSeq([i \in DOMAIN AllLevels(layout) |-> AllLevels(layout)[i].fields])

CurrentLevelKey(path) == Last(path)
CanReturn(path) == Len(path) > 1

(* Faulty: a level is stacked again when it is entered again.              *)
PushLevelAgain(path, key) == Append(path, key)

(* Entering a level already on the path unwinds to it.                     *)
PushLevel(path, key) ==
    IF Contains(path, key) THEN SubSeq(path, 1, SelectInSeq(path, LAMBDA k : k = key))
    ELSE Append(path, key)

PopLevel(path) == IF CanReturn(path) THEN Front(path) ELSE path

-------------------------------------------------------------------------------
(* What a layout has to be, whatever is declared: the levels form a tree   *)
(* below the root, every control is offered once, and nothing exceeds what *)
(* Discord lets a card, a modal or a select hold.                          *)
Ways(layout) == SelectSeq(AllFields(layout), LAMBDA e : e.kind = "level")
Offering(layout) ==
    LET offers == SelectSeq(AllFields(layout), LAMBDA e : e.kind # "level")
    IN  FlattenSeq([i \in DOMAIN offers |-> offers[i].members])

TreeOfLevels(layout) ==
    LET ways == [i \in DOMAIN Ways(layout) |-> Ways(layout)[i].key]
        keys == [i \in DOMAIN layout.levels |-> layout.levels[i].key]
        number(key) == SelectInSeq(keys, LAMBDA k : k = key)
    IN  /\ IsInjective(ways) /\ ToSet(ways) = ToSet(keys)
        /\ \A i \in DOMAIN layout.levels : \A e \in ToSet(layout.levels[i].fields) :
              e.kind = "level" => number(e.key) < i

WithinLimits(layout) ==
    /\ \A level \in ToSet(AllLevels(layout)) : Len(level.fields) \in 1..MaxLevelEntries
    /\ \A e \in ToSet(AllFields(layout)) :
          /\ e.kind # "level" => Len(e.members) \in 1..MaxModalComponents
          /\ \A c \in ToSet(e.members) :
                c.kind = "choice" => Len(c.options) \in 1..MaxSelectOptions

(* A free entry is asked for right after the select it goes with.          *)
KeptTogether(layout) ==
    \A e \in ToSet(AllFields(layout)) : \A i \in DOMAIN e.members :
        IsFreeEntry(e.members[i]) =>
            /\ i > 1
            /\ e.members[i - 1].field = e.members[i].field
            /\ ~IsFreeEntry(e.members[i - 1])

OfferedOnce(layout, controls) ==
    LET keys(s) == [i \in DOMAIN s |-> s[i].key]
    IN  /\ IsInjective(keys(Offering(layout)))
        /\ ToSet(Offering(layout)) = ToSet(controls)
        /\ IsInjective(keys(AllFields(layout)))

===============================================================================
