----------------------------- MODULE SettingsScreen -----------------------------
(***************************************************************************)
(* A settings screen of one guild, from the command that opens it to the   *)
(* end of its collector: the clicks it routes, the modals it asks with, the*)
(* writes through the settings service and the message they are answered on*)
(*                                                                         *)
(* A click starts a round that runs to its answer beside the others: what  *)
(* it awaits (the modal, the write, the read back, the edit of the message)*)
(* are the steps between which the rounds, and whoever else writes the     *)
(* guild's settings, interleave.  Image fields and the files of a message, *)
(* and a modal Discord refuses to show, which changes nothing, are left    *)
(* out.                                                                    *)
(***************************************************************************)
EXTENDS ModalForms

CONSTANTS
    Scenarios,          \* what may be opened: a sequence of declarations, with
                        \* their chromes, records, clicked controls, others' writes
    Rounds,             \* the rounds that may be running at once
    MaxClicks,          \* the clicks of one opening
    MaxClients,         \* the modals the member has open at once
    MaxOutside          \* the writes of others

ASSUME ScreenAssumption ==
    /\ {MaxClicks, MaxClients, MaxOutside} \cup Rounds \subseteq Nat
    /\ \A s \in ToSet(Scenarios) :
          /\ DefineSettings(s.declaration)
          /\ IsInjective([i \in DOMAIN s.declaration.fields |-> s.declaration.fields[i].key])
          /\ \A record \in s.records : DOMAIN record = Keys(s.declaration)

(* The display order lists places, and each place fields of the declaration*)
ASSUME OrderAssumption ==
    \A s \in ToSet(Scenarios) :
        LET order == DisplayOrder(s.declaration)
        IN  /\ order \in Seq(ToSet(order))
            /\ \A place \in ToSet(order) : place.fields \in Seq(Keys(s.declaration))
            /\ \A f \in ToSet(s.declaration.fields) : f.choices \in Seq(ToSet(f.choices))

(* What the bot's author frames the editor with leaves room for it, which  *)
(* the code asks for and only createCard checks: ten sections of three     *)
(* components, or four rows of five buttons, and a dozen around them, are  *)
(* what a card carries (MAX_CARD_LEVEL_ENTRIES, ENTRY_ACTIONS_RESERVE).    *)
ASSUME ChromeAssumption ==
    \A s \in ToSet(Scenarios) : \A c \in s.chromes :
        /\ c.layout \in {"card", "embeds"} /\ {c.extra, c.preview, c.actions} \subseteq Nat
        /\ c.layout = "card" => 2 * c.extra + c.preview <= 1 /\ c.actions <= EntryActionsReserve
        /\ c.layout = "embeds" => c.extra + 2 <= MaxRows

VARIABLES
    scenario,           \* which of Scenarios is opened
    chrome, answering,  \* what frames the screen; whether searches answer
    stored,             \* stored[key]: the guild's record
    phase,              \* closed, open, ending, ended, or refused
    layout,             \* the entries and levels, laid out when it opens
    state,              \* the state store of the screen
    message,            \* what the message shows: its live controls, its notice
    opening,            \* modalOpenSequence
    rounds,             \* rounds[r]: a click being handled
    modals,             \* the modals the member has before them
    clicks, outside

vars == <<scenario, chrome, answering, stored, phase, layout, state, message, opening,
          rounds, modals, clicks, outside>>

D == Scenarios[scenario].declaration
NoEntry == Entry(None, None, <<>>)
NoLayout == [fields |-> <<>>, levels |-> <<>>]
NoState == ScreenState([values |-> <<>>, unavailable |-> <<>>])

Idle == [at |-> "free", entry |-> NoEntry, id |-> <<>>, serial |-> 0, heard |-> 0, form |-> <<>>,
         answers |-> <<>>, from |-> NoState, patch |-> <<>>, next |-> NoState]

Rendered(next) == [live |-> LiveControls(chrome, layout, next), reads |-> Reads(chrome, layout, next)]

Init ==
    /\ scenario \in DOMAIN Scenarios
    /\ chrome \in Scenarios[scenario].chromes
    /\ answering \in Scenarios[scenario].answering
    /\ stored \in Scenarios[scenario].records
    /\ phase = "closed" /\ layout = NoLayout /\ state = NoState
    /\ message = [live |-> {}, reads |-> {}]
    /\ opening = 0 /\ rounds = [r \in Rounds |-> Idle] /\ modals = {}
    /\ clicks = 0 /\ outside = 0

-------------------------------------------------------------------------------
(* settingsEditorFromDeclaration and mountSettingsEditor: the subject and  *)
(* the searches are read, and the layout made, once.                       *)
OpeningLayout(subject) ==
    LayoutDeclaration(DisplayedControls(D, LoadSearchOptions(D, subject.values, answering)))

Open ==
    /\ phase = "closed"
    /\ layout' = OpeningLayout(LoadSubject(D, stored))
    /\ IF ViewRefuses(chrome, layout')
       THEN phase' = "refused" /\ UNCHANGED <<state, message>>
       ELSE /\ phase' = "open"
            /\ state' = ScreenState(LoadSubject(D, stored))
            /\ message' = [live |-> LiveControls(chrome, layout', state'),
                           reads |-> Reads(chrome, layout', state')]
    /\ UNCHANGED <<scenario, chrome, answering, stored, opening, rounds, modals, clicks, outside>>

(* A click on a live control, taken by a round of its own.                 *)
Click(r, control) ==
    /\ phase = "open" /\ clicks < MaxClicks
    /\ rounds[r].at = "free" /\ \A q \in Rounds : q < r => rounds[q].at # "free"
    /\ control \in message.live \cap Scenarios[scenario].clicked
    /\ clicks' = clicks + 1
    /\ UNCHANGED <<scenario, chrome, answering, stored, phase, layout, message, outside>>

(* ctx.update: the state is stored at once, the message edited later.      *)
Update(r, next) ==
    /\ state' = next
    /\ rounds' = [rounds EXCEPT ![r] = [Idle EXCEPT !.at = "answering", !.next = next]]

Answered(notice, of, next) == [next EXCEPT !.notice = Notice(notice, of)]

AskReset(r) ==
    /\ Click(r, ResetButton)
    /\ Update(r, [state EXCEPT !.confirming = "reset"])
    /\ UNCHANGED <<opening, modals>>

CancelReset(r) ==
    /\ Click(r, CancelButton)
    /\ Update(r, Answered("confirmation", "resetCancelled", [state EXCEPT !.confirming = None]))
    /\ UNCHANGED <<opening, modals>>

ConfirmReset(r) ==
    /\ Click(r, ConfirmButton)
    /\ rounds' = [rounds EXCEPT ![r] = [Idle EXCEPT !.at = "resetting", !.from = state]]
    /\ UNCHANGED <<state, opening, modals>>

(* stepBack                                                                *)
Return(r) ==
    /\ Click(r, BackButton)
    /\ Update(r, [state EXCEPT !.path = PopLevel(@), !.notice = Silence, !.confirming = None])
    /\ UNCHANGED <<opening, modals>>

(* editField, for the entry that opens a level.                            *)
Descend(r) ==
    \E e \in ToSet(AllFields(layout)) :
        /\ e.kind = "level" /\ Click(r, e.key)
        /\ Update(r, [state EXCEPT !.path = PushLevel(@, e.key), !.notice = Silence, !.confirming = None])
        /\ UNCHANGED <<opening, modals>>

(* Faulty: an opening is told apart by its entry alone.                    *)
OneModalOpenState(n) == 0

NextModalOpenState(n) == n + 1

(* editField and editGroup, up to the modal they show: it opens on the     *)
(* subject the click found.                                                *)
Ask(r) ==
    \E e \in ToSet(AllFields(layout)) :
        LET id == CustomId(e, NextModalOpenState(opening))
        IN  /\ e.kind # "level" /\ Cardinality(modals) < MaxClients
            /\ Click(r, e.key)
            /\ opening' = opening + 1
            /\ modals' = modals \cup {[id |-> id, serial |-> opening', entry |-> e,
                                       form |-> FormOf(e, state.subject)]}
            /\ rounds' = [rounds EXCEPT ![r] = [Idle EXCEPT !.at = "asking", !.entry = e, !.id = id,
                                                            !.serial = opening', !.form = FormOf(e, state.subject)]]
            /\ UNCHANGED state

(* The member closes a modal: the bot is told nothing.                     *)
Dismiss ==
    \E m \in modals :
        /\ modals' = modals \ {m}
        /\ UNCHANGED <<scenario, chrome, answering, stored, phase, layout, state, message, opening,
                       rounds, clicks, outside>>

(* The member sends a modal: whoever waits for its id goes on, from the    *)
(* state as it is now.                                                     *)
Submit ==
    \E m \in modals : \E answers \in Answers(m.entry, m.form) :
        LET taken(round) ==
                LET patch == PatchOf(round.entry, answers, state.subject)
                IN  [round EXCEPT !.at = IF patch = <<>> THEN "loading" ELSE "writing",
                                  !.answers = answers, !.heard = m.serial,
                                  !.from = state, !.patch = patch]
        IN  /\ modals' = modals \ {m}
            /\ rounds' = [r \in Rounds |-> IF rounds[r].at = "asking" /\ rounds[r].id = m.id
                                           THEN taken(rounds[r]) ELSE rounds[r]]
            /\ UNCHANGED <<scenario, chrome, answering, stored, phase, layout, state, message,
                           opening, clicks, outside>>

(* Faulty: a modal never answered is waited for.                           *)
ExpireNever(r) == rounds[r].at = "expired" /\ UNCHANGED vars

(* awaitModalSubmit gives up: dismissed, and nothing happened.             *)
Expire(r) ==
    /\ rounds[r].at = "asking"
    /\ rounds' = [rounds EXCEPT ![r] = Idle]
    /\ UNCHANGED <<scenario, chrome, answering, stored, phase, layout, state, message, opening,
                   modals, clicks, outside>>

-------------------------------------------------------------------------------
(* applyChange.  service.set lands whole, or is refused: by validation, or *)
(* by a writer that came first.                                            *)
Settle(r) ==
    /\ UNCHANGED <<scenario, chrome, answering, phase, layout, opening, modals, clicks, outside>>

Write(r) ==
    LET checked == ValidateSettings(D, rounds[r].patch, answering)
    IN  /\ rounds[r].at = "writing" /\ Accepted(checked)
        /\ stored' = StoredForms(checked) @@ stored
        /\ rounds' = [rounds EXCEPT ![r].at = "loading"]
        /\ Settle(r) /\ UNCHANGED <<state, message>>

WriteReset(r) ==
    /\ rounds[r].at = "resetting"
    /\ stored' = [k \in Keys(D) |-> Unset]
    /\ rounds' = [rounds EXCEPT ![r].at = "loading"]
    /\ Settle(r) /\ UNCHANGED <<state, message>>

(* A refusal changes nothing but the notice, and, of a reset, the question.*)
Resetting(round) == round.entry = NoEntry

Refuse(r) ==
    /\ rounds[r].at \in {"writing", "resetting"}
    /\ Update(r, LET refused == Answered("refusal", "refused", rounds[r].from)
                 IN  IF Resetting(rounds[r]) THEN [refused EXCEPT !.confirming = None] ELSE refused)
    /\ Settle(r) /\ UNCHANGED <<stored, message>>

(* Anything else that throws is logged, and the click left unanswered.     *)
Fail(r) ==
    /\ rounds[r].at \in {"writing", "resetting", "loading"}
    /\ rounds' = [rounds EXCEPT ![r] = Idle]
    /\ Settle(r) /\ UNCHANGED <<stored, state, message>>

(* reload, and the next state made of it; onWritten is awaited before it is*)
(* stored, and may fail.                                                   *)
Load(r) ==
    LET round == rounds[r]
        notice == IF Resetting(round) THEN "resetDone" ELSE NoticeKey(round.entry, round.answers)
        next == Answered("confirmation", notice, [round.from EXCEPT !.subject = LoadSubject(D, stored)])
    IN  /\ round.at = "loading"
        /\ rounds' = [rounds EXCEPT ![r].at = "written",
                         ![r].next = IF Resetting(round) THEN [next EXCEPT !.confirming = None] ELSE next]
        /\ Settle(r) /\ UNCHANGED <<stored, state, message>>

Show(r) ==
    /\ rounds[r].at = "written"
    /\ Update(r, rounds[r].next)
    /\ Settle(r) /\ UNCHANGED <<stored, message>>

(* The edit of the message lands, even on a screen that has ended, or fails*)
Answer(r) ==
    /\ rounds[r].at = "answering"
    /\ message' \in {Rendered(rounds[r].next), message}
    /\ rounds' = [rounds EXCEPT ![r] = Idle]
    /\ Settle(r) /\ UNCHANGED <<stored, state>>

-------------------------------------------------------------------------------
(* The collector is idle long enough, or is stopped by the caller, who has *)
(* rendered what it wanted; only the first disables the controls.          *)
End(by) ==
    /\ phase = "open"
    /\ phase' = by
    /\ UNCHANGED <<scenario, chrome, answering, stored, layout, state, message, opening, rounds,
                   modals, clicks, outside>>

Disable ==
    /\ phase = "ending"
    /\ phase' = "ended"
    /\ message' \in {[message EXCEPT !.live = {}], message}
    /\ UNCHANGED <<scenario, chrome, answering, stored, layout, state, opening, rounds, modals,
                   clicks, outside>>

(* Another surface, another process or a command writes a field.           *)
WriteOutside ==
    /\ outside < MaxOutside
    /\ outside' = outside + 1
    /\ \E patch \in Scenarios[scenario].patches : stored' = patch @@ stored
    /\ UNCHANGED <<scenario, chrome, answering, phase, layout, state, message, opening, rounds,
                   modals, clicks>>

Progress(r) ==
    Expire(r) \/ Refuse(r) \/ Fail(r) \/ Show(r) \/ Answer(r) \/ WriteReset(r) \/ Load(r) \/ Write(r)

Finished == phase \in {"ended", "refused"} /\ UNCHANGED vars

Next ==
    \/ Open
    \/ \E r \in Rounds : AskReset(r) \/ CancelReset(r) \/ ConfirmReset(r) \/ Return(r) \/ Descend(r)
                         \/ Ask(r) \/ Progress(r)
    \/ Dismiss \/ Submit
    \/ End("ending") \/ End("ended") \/ Disable
    \/ WriteOutside
    \/ Finished

Spec == Init /\ [][Next]_vars

(* The modal's deadline passes, and the service and Discord answer or fail.*)
Fairness == \A r \in Rounds : WF_vars(Progress(r))

-------------------------------------------------------------------------------
Mounted == phase \in {"open", "ending", "ended"} /\ layout # NoLayout

(* Every variable stays in its type, and what is stored is in its stored   *)
(* form: written again, it would be stored the same (validateSettings).    *)
TypeOK ==
    /\ phase \in {"closed", "refused", "open", "ending", "ended"}
    /\ opening \in 0..MaxClicks /\ clicks \in 0..MaxClicks /\ outside \in 0..MaxOutside
    /\ state.notice.tone \in {"none", "confirmation", "refusal"}
    /\ \A r \in Rounds : rounds[r].at \in
          {"free", "asking", "writing", "resetting", "loading", "written", "answering"}
    /\ \A k \in Keys(D) : stored[k] # Unset => ParseFieldValue(FieldAt(D, k), stored[k]) = Stored(stored[k])

(* Whatever is declared, every field is offered, each control in one place,*)
(* the levels form a tree below the root, a select keeps its free entry,   *)
(* and Discord's limits hold (layoutDeclaration).                          *)
LayoutSound ==
    [][phase = "closed" /\ phase' = "open" =>
        /\ {c.field : c \in ToSet(Offering(layout'))} = Keys(D)
        /\ OfferedOnce(layout', Offering(layout')) /\ TreeOfLevels(layout')
        /\ WithinLimits(layout') /\ KeptTogether(layout')]_vars

(* What a control opens on, sent back as it is, denotes the value the field*)
(* holds: a number, a duration, a colour or a list survives being shown and*)
(* typed again (controlValue, submittedValue).  A secret is never shown, a *)
(* free entry holds nothing, an entity that is gone and a value the search *)
(* did not offer cannot be picked.                                         *)
SameValue(a, b) == a.is = b.is /\ Len(a.of) = Len(b.of) /\ ToSet(a.of) = ToSet(b.of)

Shows(c, subject) ==
    LET v == subject.values[c.field]
    IN  /\ v # Unset /\ c.shape \notin {"secret", "other"}
        /\ subject.unavailable[c.field] = <<>>
        /\ c.shape = "search" => Contains(c.options, v.of[1])

Survives(c, subject) ==
    LET f == FieldAt(D, c.field)
        v == subject.values[c.field]
        sent == Untouched(c, FieldDef(c, ControlValue(c, subject)))
        again == CheckEntry(f, SubmittedValue(c, sent, v), answering)
    IN  Shows(c, subject) /\ CheckEntry(f, v, answering).ok => again.ok /\ SameValue(again.value, v)

RoundTripFaithful ==
    [][state'.subject # state.subject =>
          \A c \in ToSet(Offering(layout')) : Survives(c, state'.subject)]_vars

(* The path starts at the root and never holds a level twice, however fast *)
(* a button is clicked again: as many returns as levels lead to the root.  *)
OnItsPath ==
    /\ state.path[1] = Root /\ IsInjective(state.path)
    /\ ToSet(state.path) \subseteq {l.key : l \in ToSet(AllLevels(layout))}

(* Every state the screen reaches stands on a path that leads back, can be *)
(* rendered, and lets a refusal, which has no other trace, be read         *)
(* (navigation.ts, createCard, createEditorView).                          *)
RendersSound ==
    Mounted => /\ OnItsPath
               /\ RendersWithin(chrome, layout, state)
               /\ state.notice.tone = "refusal" /\ ~ConfirmingReset(state)
                      => "refusal" \in Reads(chrome, layout, state)

(* A round acts on the modal it opened itself, never on another opening of *)
(* it (promptModal).                                                       *)
AnswersItsOwnModal == \A r \in Rounds : rounds[r].heard # 0 => rounds[r].heard = rounds[r].serial

(* The fields a round may change: those of its entry the member changed.   *)
Changed(k) == ~SameValue(stored'[k], stored[k])
Written(r) == rounds[r].at = "writing" /\ rounds'[r].at = "loading"
Touched(round, i) == round.answers[i] # Untouched(round.entry.members[i], round.form[i])

(* A group's modal changes no field but those touched in it: another's     *)
(* write, a secret, an entity that is gone stay as they are, unless the    *)
(* screen moved on under the modal, or the value is a search's, which only *)
(* the options of the opening can show (saveGroupControls).                *)
Stale(round, i) ==
    \/ round.entry.members[i].shape = "search"
    \/ FieldDef(round.entry.members[i], ControlValue(round.entry.members[i], round.from.subject))
          # round.form[i]

UntouchedMembersKept ==
    [][\A r \in Rounds : Written(r) => \A k \in Keys(D) : Changed(k) =>
          \E i \in DOMAIN rounds[r].answers :
              /\ rounds[r].entry.members[i].field = k
              /\ rounds[r].entry.kind = "group" => Touched(rounds[r], i) \/ Stale(rounds[r], i)]_vars

(* What the code says of a group's modal without those exceptions: a value *)
(* left untouched in it keeps what is stored.                              *)
UntouchedKeepsStored ==
    [][\A r \in Rounds : Written(r) => \A k \in Keys(D) : Changed(k) =>
          \E i \in DOMAIN rounds[r].answers :
              /\ rounds[r].entry.members[i].field = k
              /\ rounds[r].entry.kind = "group" => Touched(rounds[r], i)]_vars

(* No click is handled for ever: a modal nobody sends is given up, a write *)
(* or an edit ends one way or the other.                                   *)
RoundsSettle == \A r \in Rounds : (rounds[r].at # "free") ~> (rounds[r].at = "free")

===============================================================================
