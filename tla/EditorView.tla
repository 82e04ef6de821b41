------------------------------- MODULE EditorView -------------------------------
(***************************************************************************)
(* What the message of a settings screen shows of its state, in either     *)
(* layout: as a card, with a button per entry, or as embeds, with one menu *)
(* of the level's entries.  Pure operators.                                *)
(*                                                                         *)
(* The chrome is what the bot's author puts around the editor: its layout, *)
(* whether anything can be reset, how many blocks it draws above and as the*)
(* preview, whether the root's entries are rows of buttons, how many       *)
(* buttons it adds to such rows, and whether it has an intro to show.      *)
(***************************************************************************)
EXTENDS ScreenLayout

MaxCardComponents == 40
MaxButtonLevelEntries == 20
EntryActionsReserve == 2
ButtonsPerRow == 5
MaxRows == 5            \* action rows a message of embeds may carry

(* The editor's own controls; every other control is named by its entry.   *)
ResetButton == "reset"
ConfirmButton == "resetConfirm"
CancelButton == "resetCancel"
BackButton == "back"
EditorButtons == {ResetButton, ConfirmButton, CancelButton, BackButton}

Chrome(layout) ==
    [layout |-> layout, resets |-> FALSE, extra |-> 0, preview |-> 1,
     rootAsButtons |-> FALSE, actions |-> 0, intro |-> FALSE]

(* The state a screen is rendered from.  confirming is None or what waits  *)
(* for its second click.                                                   *)
Notice(tone, of) == [tone |-> tone, of |-> of]
Silence == Notice("none", None)
ScreenState(subject) ==
    [subject |-> subject, notice |-> Silence, confirming |-> None, path |-> <<Root>>]
ConfirmingReset(state) == state.confirming = "reset"

CurrentLevel(layout, state) == LevelAt(layout, CurrentLevelKey(state.path))
AsButtons(chrome, level) == level.key = Root /\ chrome.rootAsButtons

(* hasOverrides is the chrome's own reading of the subject: here, that a   *)
(* field holds something.                                                  *)
HasOverrides(state) ==
    \E k \in DOMAIN state.subject.values : state.subject.values[k].of # <<>>

ResetButtons(chrome, state) ==
    IF chrome.resets /\ HasOverrides(state) THEN <<ResetButton>> ELSE <<>>

(* What the caller of either view is refused when the screen is mounted.   *)
ViewRefuses(chrome, layout) ==
    \E level \in ToSet(AllLevels(layout)) :
        LET reserve == IF chrome.actions = 0 THEN 0 ELSE EntryActionsReserve
            count == Len(level.fields)
        IN  CASE chrome.layout = "card" /\ AsButtons(chrome, level) ->
                    count + reserve > MaxButtonLevelEntries
              [] chrome.layout = "card" /\ ~AsButtons(chrome, level) -> count > MaxLevelEntries
              [] chrome.layout = "embeds" ->
                    \/ count > MaxSelectOptions
                    \/ \E e \in ToSet(level.fields) : Len(e.members) > MaxModalComponents

-------------------------------------------------------------------------------
(* The card: its blocks, top to bottom, and the components they cost.      *)
Block(kind, of) == [kind |-> kind, of |-> of]

ComponentCount(block) ==
    CASE block.kind \in {"text", "separator", "gallery"} -> 1
      [] block.kind = "entry" -> IF block.of = <<>> THEN 1 ELSE 3
      [] block.kind = "controls" -> 1 + Len(block.of)
      [] block.kind = "select" -> 2

(* A row of buttons: the level's own, or what the chrome asks while        *)
(* anything waits for its second click.                                    *)
LevelButtons(chrome, level, state) ==
    LET own == [i \in DOMAIN level.fields |-> level.fields[i].key]
        actions(n) == [i \in 1..n |-> "action"]
    IN  CASE chrome.actions = 0 /\ state.confirming # None -> <<>>
          [] chrome.actions # 0 /\ state.confirming # None -> actions(EntryActionsReserve)
          [] state.confirming = None -> own \o actions(chrome.actions)

(* Faulty: only a confirmation is said.                                    *)
NoticeBlocksOfSuccess(chrome, state) ==
    IF ConfirmingReset(state) THEN <<Block("entry", <<>>)>>
    ELSE IF state.notice.tone = "confirmation" THEN <<Block("text", <<"confirmation">>)>> ELSE <<>>

NoticeBlocks(chrome, state) ==
    IF ConfirmingReset(state) THEN <<Block("entry", <<>>)>>
    ELSE IF state.notice # Silence THEN <<Block("text", <<state.notice.tone>>)>> ELSE <<>>

OpenBlocks(chrome, layout, state) ==
    LET level == CurrentLevel(layout, state)
        rows == Chunked(LevelButtons(chrome, level, state), ButtonsPerRow)
        entries == IF AsButtons(chrome, level)
                   THEN [i \in DOMAIN rows |-> Block("controls", rows[i])]
                   ELSE [i \in DOMAIN level.fields |-> Block("entry", <<level.fields[i].key>>)]
    IN  <<Block("text", <<>>)>> \o NoticeBlocks(chrome, state)
        \o [i \in 1..chrome.extra |-> Block("controls", <<"extra">>)]
        \o <<Block("separator", <<>>)>> \o [i \in 1..chrome.preview |-> Block("text", <<>>)]
        \o <<Block("separator", <<>>)>> \o entries \o <<Block("text", <<>>)>>

(* createCard throws past the limit; the row outside the card counts too,  *)
(* though nothing here checks it.                                          *)
CardComponents(blocks) ==
    LET cost[i \in 0..Len(blocks)] ==
            IF i = 0 THEN 1 ELSE cost[i - 1] + ComponentCount(blocks[i])
    IN  cost[Len(blocks)]

OuterButtons(chrome, state) ==
    IF ConfirmingReset(state) THEN <<CancelButton, ConfirmButton>>
    ELSE ResetButtons(chrome, state) \o (IF CanReturn(state.path) THEN <<BackButton>> ELSE <<>>)

-------------------------------------------------------------------------------
(* The embeds: a header over the preview, the menu of the level, a row.    *)
HeaderEmbed(chrome, state) ==
    IF ConfirmingReset(state) THEN <<"question">>
    ELSE IF ~CanReturn(state.path)
         THEN IF state.notice.tone = "refusal" THEN <<"refusal">> ELSE <<>>
    ELSE <<"trail">> \o (IF state.notice = Silence THEN <<>> ELSE <<state.notice.tone>>)
         \o (IF chrome.intro THEN <<"intro">> ELSE <<>>)

EmbedRows(chrome, state) ==
    chrome.extra + 1 + (IF OuterButtons(chrome, state) = <<>> THEN 0 ELSE 1)

-------------------------------------------------------------------------------
(* What a member may use on the message, and what they read on it.  Every  *)
(* entry is frozen while the reset waits for its second click.             *)
EntryKeys(level) == {e.key : e \in ToSet(level.fields)}

LiveControls(chrome, layout, state) ==
    ToSet(OuterButtons(chrome, state))
    \cup (IF ConfirmingReset(state) THEN {}
          ELSE IF chrome.layout = "card" /\ AsButtons(chrome, CurrentLevel(layout, state))
               THEN ToSet(LevelButtons(chrome, CurrentLevel(layout, state), state)) \ {"action"}
          ELSE EntryKeys(CurrentLevel(layout, state)))

Reads(chrome, layout, state) ==
    IF chrome.layout = "embeds" THEN ToSet(HeaderEmbed(chrome, state))
    ELSE UNION {ToSet(b.of) : b \in ToSet(NoticeBlocks(chrome, state))}

RendersWithin(chrome, layout, state) ==
    IF chrome.layout = "embeds" THEN EmbedRows(chrome, state) <= MaxRows
    ELSE LET outer == Len(OuterButtons(chrome, state))
         IN  CardComponents(OpenBlocks(chrome, layout, state))
                 + (IF outer = 0 THEN 0 ELSE 1 + outer) <= MaxCardComponents

===============================================================================
