------------------------------- MODULE ModalForms -------------------------------
(***************************************************************************)
(* The modal of an entry: what each of its boxes and pickers opens on, what*)
(* a member may send back, and how it is read.  Pure operators.  A modal   *)
(* asks for one value per control; image fields, which no declaration      *)
(* makes, are left out.                                                    *)
(***************************************************************************)
EXTENDS EditorView

CONSTANTS
    TypedTexts,         \* the texts a member may type into a box
    PickedEntities      \* the most entities a member picks in one picker

(* The custom id of one opening.                                           *)
CustomId(entry, state) == <<entry.kind, entry.key, state>>

PickerRequired(c) == c.min # 0

(* A picker of a closed set marks the options held, one of entities is     *)
(* handed the ids; a box opens on its text.                                *)
Preselected(c, held) ==
    IF c.kind = "choice" THEN SelectSeq(c.options, LAMBDA o : Contains(held, o)) ELSE held

FieldDef(c, current) ==
    [required |-> IsPickerField(c) /\ PickerRequired(c),
     text     |-> IF IsPickerField(c) THEN <<>> ELSE current.text,
     picked   |-> IF IsPickerField(c) THEN Preselected(c, current.picked) ELSE <<>>]

(* The modal of an entry over a subject: a form per member.                *)
FormOf(entry, subject) ==
    [i \in DOMAIN entry.members |->
        FieldDef(entry.members[i], ControlValue(entry.members[i], subject))]

(* readOptionalField and its likes: nothing entered reads as no value.     *)
Read(c, lines, ids) == Submission(IF lines \in {<<>>, <<"">>} THEN <<>> ELSE lines, ids)

(* What a form sent back as it opened is read as.                          *)
Untouched(c, form) == Read(c, form.text, form.picked)

(* What Discord lets a member pick: entities of the right kind and type, or*)
(* the options, as many as the picker's bounds.                            *)
Pickable(c) ==
    CASE c.kind = "choice" -> ToSet(c.options)
      [] c.kind \in {"role", "user"} -> {id \in DOMAIN Directory : Directory[id] = c.kind}
      [] c.kind = "category" -> {id \in DOMAIN Directory : Directory[id] = "category"}
      [] c.kind = "channel" -> {id \in DOMAIN Directory :
                                   /\ Directory[id] \notin {"role", "user"}
                                   /\ c.types = {} \/ Directory[id] \in c.types}

Picks(c) ==
    LET most == Min({c.max, PickedEntities})
        ids == {s \in UNION {[1..n -> Pickable(c)] : n \in c.min..most} : IsInjective(s)}
    IN  {Preselected(c, s) : s \in ids}

Sendable(c, form) ==
    {Untouched(c, form)}
    \cup (IF IsPickerField(c) THEN {Read(c, <<>>, s) : s \in Picks(c)}
          ELSE {Read(c, <<t>>, <<>>) : t \in TypedTexts})

(* A member changes at most one of the values a modal asks for.            *)
Answers(entry, form) ==
    LET asIs == [i \in DOMAIN entry.members |-> Untouched(entry.members[i], form[i])]
    IN  UNION {{[asIs EXCEPT ![i] = s] : s \in Sendable(entry.members[i], form[i])}
                   : i \in DOMAIN form}

-------------------------------------------------------------------------------
(* Saving: one control on its own, or the changed members of a modal.  A   *)
(* secret sent back untouched is not replaced by what was shown of it.     *)
SaveControl(c, submission, subject) ==
    IF c.shape = "secret" /\ IsUnchanged(c, submission, ControlValue(c, subject)) THEN <<>>
    ELSE WithSubmission(c, submission, subject, <<>>)

(* Faulty: every member of the modal is written.                           *)
SaveGroupWhole(members, answers, subject) ==
    FoldLeft(LAMBDA patch, i : WithSubmission(members[i], answers[i], subject, patch),
             <<>>, [i \in DOMAIN members |-> i])

SaveGroupControls(members, answers, subject) ==
    FoldLeft(LAMBDA patch, i :
                IF IsUnchanged(members[i], answers[i], ControlValue(members[i], subject)) THEN patch
                ELSE WithSubmission(members[i], answers[i], subject, patch),
             <<>>, [i \in DOMAIN members |-> i])

PatchOf(entry, answers, subject) ==
    IF entry.kind = "group" THEN SaveGroupControls(entry.members, answers, subject)
    ELSE SaveControl(entry.members[1], answers[1], subject)

(* The notice a save earns: a field cleared on its own is said to be.      *)
NoticeKey(entry, answers) ==
    LET empty == IF IsPickerField(entry.members[1]) THEN answers[1].ids = <<>>
                 ELSE answers[1].value = <<>>
    IN  IF entry.kind = "control" /\ empty THEN "fieldCleared" ELSE "fieldSaved"

===============================================================================
