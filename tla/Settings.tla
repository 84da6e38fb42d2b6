------------------------------ MODULE Settings ------------------------------
(***************************************************************************)
(* What belongs to a presentation and to none of its slides: the title in  *)
(* the editor's header, its colours in the design panel and its music in   *)
(* the sound panel, in a tab whose presentation other clients change too.  *)
(*                                                                         *)
(* A colour is its luminance in thousandths, which is all that its         *)
(* contrast depends on; the background image is a field of the design like *)
(* the colours and is left out.  Slides only add to the revision.          *)
(***************************************************************************)
EXTENDS Integers, FiniteSets

CONSTANTS
  Shades,       \* luminances, White and Slate among them
  Tunes,        \* addresses of music
  Names,        \* titles
  FirstRow,     \* the presentation when the editor opens
  Foreign,      \* what other clients may send, by the fields it names
  SaveBudgets        \* bounds: saves of the tab, and changes by other clients

White == 1000
Slate == 9

ASSUME SettingsAssumption ==
  /\ {White, Slate} \subseteq Shades /\ Shades \subseteq 0..1000
  /\ FirstRow \in [rev: {1}, title: Names, bg: Shades, ink: Shades, music: Tunes]
  /\ SaveBudgets \subseteq [saves: Nat, foreign: Nat]

VARIABLES
  saved,     \* the presentation's row
  quiz,      \* the presentation the route holds
  inspector,     \* the open panel: its base and draft, conflictPending, saving
  told,      \* editorStatus.dirty: what the panels have reported
  header,    \* the title field
  patches,  \* PATCH requests under way
  reload,    \* the load under way, and who awaits it
  bounds     \* what the bounds have left

settingsVars == <<saved, quiz, inspector, told, header, patches, reload, bounds>>

NoPanel == [kind |-> "none"]
NothingTold == [design |-> FALSE, sound |-> FALSE]
NoReload == [step |-> "none", row |-> 0, waits |-> {}]
HeaderOf(q) == [editing |-> FALSE, saving |-> FALSE, text |-> q.title]

SettingsInit ==
  /\ saved = FirstRow /\ quiz = saved
  /\ inspector = NoPanel /\ told = NothingTold /\ header = HeaderOf(quiz)
  /\ patches = {} /\ reload = NoReload
  /\ bounds \in SaveBudgets

\* The error screen and the skeleton replace the editor.
Editing == reload.step \notin {"failed", "again", "reading"}
-----------------------------------------------------------------------------
(* Colours.                                                                *)

Lighter(a, b) == (IF a > b THEN a ELSE b) + 50
Darker(a, b) == (IF a > b THEN b ELSE a) + 50

\* A contrast of at least 4.5.
Readable(a, b) == 10 * Lighter(a, b) >= 45 * Darker(a, b)

\* presentationTheme: the text colour asked for, or the better of two.
Foreground(bg, ink) ==
  IF Readable(bg, ink) THEN ink
  ELSE IF Lighter(bg, White) * Darker(bg, Slate) >= Lighter(bg, Slate) * Darker(bg, White)
  THEN White ELSE Slate
-----------------------------------------------------------------------------
(* Drafts of the panels.                                                   *)

PanelDraft(kind, q) ==
  IF kind = "design" THEN [rev |-> q.rev, bg |-> q.bg, ink |-> Foreground(q.bg, q.ink)]
  ELSE [rev |-> q.rev, music |-> q.music]

Clean(kind, q) ==
  [kind |-> kind, base |-> PanelDraft(kind, q), draft |-> PanelDraft(kind, q),
   conflict |-> FALSE, saving |-> FALSE]

Unsaved(p) == p.kind # "none" /\ p.draft # p.base

\* reconcileAudioDraftState: unsaved music stays, on a newer revision when the
\* stored music is still the one it began with.
Reconciled(p, q) ==
  LET new == PanelDraft("sound", q)
  IN IF p.draft.music = p.base.music THEN [p EXCEPT !.base = new, !.draft = new]
     ELSE IF new.music = p.base.music /\ new.rev > p.base.rev
     THEN [p EXCEPT !.base = new, !.draft.rev = new.rev]
     ELSE p

\* The open panel once the route shows q.  The design starts again from every
\* new presentation object; a new revision ends the conflict.
Synced(p, q) ==
  LET new == CASE p.kind = "none" -> p
               [] p.kind = "sound" -> Reconciled(p, q)
               [] OTHER -> [p EXCEPT !.base = PanelDraft("design", q), !.draft = PanelDraft("design", q)]
  IN IF p.kind = "none" \/ new.draft.rev = p.draft.rev THEN new ELSE [new EXCEPT !.conflict = FALSE]

\* The panel's effect reports when what it reports changes, and whenever the
\* editor's status does: the callback is a new one then.  flags is what the
\* handlers of this step have written.
Bug_StableCallback(p, flags) ==
  IF Unsaved(p) # Unsaved(inspector) THEN [flags EXCEPT ![p.kind] = Unsaved(p)] ELSE flags
Report(p, flags) ==
  IF p.kind # "none" /\ (p.kind # inspector.kind \/ Unsaved(p) # Unsaved(inspector) \/ flags # told)
  THEN [flags EXCEPT ![p.kind] = Unsaved(p)]
  ELSE flags

\* The draft provider wraps the whole editor when the design panel is open, so
\* that opening and closing it mounts the header anew.
Remounts(p) == (inspector.kind = "design") # (p.kind = "design")

\* The title field follows the title.
Followed(h, q) == IF q.title # quiz.title THEN [h EXCEPT !.text = q.title] ELSE h

\* Requests outlive what sent them: those of the title's field, of the panel.
Orphaned(title, panel) ==
  {[r EXCEPT !.from = IF r.from = "sender" /\ (IF r.kind = "title" THEN title ELSE panel)
                        THEN "editor" ELSE @] : r \in patches}

\* The panel becomes p: opened, or closed by its buttons or its tab.
PanelBecomes(p, flags, h) ==
  /\ inspector' = p /\ told' = Report(p, flags)
  /\ header' = IF Remounts(p) THEN HeaderOf(quiz) ELSE h
  /\ patches' = Orphaned(Remounts(p), TRUE)

\* updateQuiz with q, where the panel and the field have become p and h.
ShowQuiz(q, p, flags, h) ==
  /\ quiz' = q
  /\ inspector' = (IF Editing THEN Synced(p, q) ELSE p)
  /\ told' = Report(inspector', flags)
  /\ header' = Followed(h, q)
-----------------------------------------------------------------------------
(* The manager.                                                            *)

\* toggleTab: unsaved changes are discarded after a confirmation, even those
\* being saved.
ToggleTab(kind) ==
  /\ Editing
  /\ PanelBecomes(IF inspector.kind = kind THEN NoPanel ELSE Clean(kind, quiz),
                  IF Unsaved(inspector) THEN [told EXCEPT ![inspector.kind] = FALSE] ELSE told, header)
  /\ UNCHANGED <<saved, quiz, reload, bounds>>

FieldsEnabled == Editing /\ inspector.kind # "none" /\ ~inspector.saving /\ ~inspector.conflict

\* The panel's fields change.
Draw(d) ==
  /\ inspector' = [inspector EXCEPT !.draft = d] /\ inspector' # inspector
  /\ told' = Report(inspector', told)
  /\ UNCHANGED <<saved, quiz, header, patches, reload, bounds>>

\* A new background is drawn with a text that can be read on it.
Bug_KeepsInk(d, b) == [d EXCEPT !.bg = b]
OnBackground(d, b) == [d EXCEPT !.bg = b, !.ink = Foreground(b, d.ink)]

SetBackground(b) == FieldsEnabled /\ inspector.kind = "design" /\ Draw(OnBackground(inspector.draft, b))
SetInk(i) ==
  /\ FieldsEnabled /\ inspector.kind = "design"
  /\ Draw([inspector.draft EXCEPT !.ink = Foreground(inspector.draft.bg, i)])
SetMusic(m) == FieldsEnabled /\ inspector.kind = "sound" /\ Draw([inspector.draft EXCEPT !.music = m])

PatchOf(kind, rev, fields) ==
  [no |-> bounds.saves, kind |-> kind, rev |-> rev, fields |-> fields, title |-> quiz.title,
   step |-> "sent", from |-> "sender", reply |-> 0]

Patch(kind, rev, fields) ==
  /\ bounds.saves > 0 /\ bounds' = [bounds EXCEPT !.saves = @ - 1]
  /\ patches' = patches \union {PatchOf(kind, rev, fields)}

SavePanel ==
  /\ FieldsEnabled /\ Unsaved(inspector)
  /\ Patch(inspector.kind, inspector.draft.rev, inspector.draft)
  /\ inspector' = [inspector EXCEPT !.saving = TRUE]
  /\ UNCHANGED <<saved, quiz, told, header, reload>>

\* The panel's own buttons wait for a save; unsaved changes are confirmed away.
LeavePanel ==
  /\ Editing /\ inspector.kind # "none" /\ ~inspector.saving
  /\ PanelBecomes(NoPanel, [told EXCEPT ![inspector.kind] = FALSE], header)
  /\ UNCHANGED <<saved, quiz, reload, bounds>>

\* The button of the conflict notice; the panel closes when the load ends.
\* A load that replaces another one also answers who waited for that.
Await(who) == [step |-> "asked", row |-> 0, waits |-> reload.waits \union who]

LoadNewer ==
  /\ Editing /\ inspector.kind # "none" /\ inspector.conflict /\ "panel" \notin reload.waits
  /\ reload' = Await({"panel"})
  /\ UNCHANGED <<saved, quiz, inspector, told, header, patches, bounds>>

EditTitle ==
  /\ Editing /\ ~header.saving
  /\ \/ ~header.editing /\ header' = [header EXCEPT !.editing = TRUE]
     \/ header.editing /\ \E t \in Names : header' = [header EXCEPT !.text = t]
     \/ header.editing /\ header' = HeaderOf(quiz)
  /\ header' # header
  /\ UNCHANGED <<saved, quiz, inspector, told, patches, reload, bounds>>

\* handleUpdateQuizName.
SaveTitle ==
  /\ Editing /\ header.editing /\ ~header.saving
  /\ IF header.text = quiz.title
     THEN header' = [header EXCEPT !.editing = FALSE] /\ UNCHANGED <<patches, bounds>>
     ELSE /\ Patch("title", quiz.rev, [title |-> header.text])
          /\ header' = [header EXCEPT !.saving = TRUE]
  /\ UNCHANGED <<saved, quiz, inspector, told, reload>>
-----------------------------------------------------------------------------
(* The server, the network and the other clients.                          *)

Moves(r, new) == patches' = (patches \ {r}) \union {new}

\* The settings that a request names are merged over those stored.
Merged(fields) ==
  [f \in DOMAIN saved |-> IF f = "rev" THEN saved.rev + 1
                          ELSE IF f \in DOMAIN fields THEN fields[f] ELSE saved[f]]

ServePatch(r) ==
  /\ r.step = "sent"
  /\ IF r.rev = saved.rev
     THEN saved' = Merged(r.fields) /\ Moves(r, [r EXCEPT !.step = "stored"])
     ELSE UNCHANGED saved /\ Moves(r, [r EXCEPT !.step = "conflict"])
  /\ UNCHANGED <<quiz, inspector, told, header, reload, bounds>>

\* FindOwned, in a statement of its own after the update.
ReadBack(r) ==
  /\ r.step = "stored" /\ Moves(r, [r EXCEPT !.step = "ok", !.reply = saved])
  /\ UNCHANGED <<saved, quiz, inspector, told, header, reload, bounds>>

LoseSave(r) ==
  /\ r.step # "lost" /\ Moves(r, [r EXCEPT !.step = "lost", !.reply = 0])
  /\ UNCHANGED <<saved, quiz, inspector, told, header, reload, bounds>>

ForeignChange ==
  /\ bounds.foreign > 0 /\ bounds' = [bounds EXCEPT !.foreign = @ - 1]
  /\ \E fields \in Foreign : saved' = Merged(fields)
  /\ UNCHANGED <<quiz, inspector, told, header, patches, reload>>
-----------------------------------------------------------------------------
(* Replies.                                                                *)

\* markSaved, onQuizUpdated and onDirtyChange(false); the panel that sent the
\* request may have closed meanwhile, and another one opened.
PanelSaved(r) ==
  /\ r.kind # "title" /\ r.step = "ok"
  /\ ShowQuiz(r.reply,
          IF r.from = "sender" THEN Clean(r.kind, r.reply) ELSE inspector,
          IF r.from # "nobody" THEN [told EXCEPT ![r.kind] = FALSE] ELSE told, header)
  /\ UNCHANGED reload

\* The draft stays: after a conflict it waits for the reload.
PanelRefused(r) ==
  /\ r.kind # "title" /\ r.step \in {"conflict", "lost"}
  /\ inspector' = IF r.from = "sender"
              THEN [inspector EXCEPT !.saving = FALSE, !.conflict = @ \/ r.step = "conflict"]
              ELSE inspector
  /\ UNCHANGED <<quiz, told, header, reload>>

TitleSaved(r) ==
  /\ r.kind = "title" /\ r.step = "ok"
  /\ ShowQuiz(r.reply, inspector, told,
          IF r.from = "sender" THEN [header EXCEPT !.saving = FALSE, !.editing = FALSE] ELSE header)
  /\ UNCHANGED reload

\* recoverConflict: the load is awaited before the field closes.
TitleRefused(r) ==
  /\ r.kind = "title"
  /\ \/ /\ r.step = "conflict" /\ r.from # "nobody"
        /\ reload' = Await(IF r.from = "sender" THEN {"title"} ELSE {})
        /\ UNCHANGED header
     \/ /\ r.step = "lost" \/ (r.step = "conflict" /\ r.from = "nobody")
        /\ header' = IF r.from = "sender"
                     THEN [editing |-> FALSE, saving |-> FALSE, text |-> r.title] ELSE header
        /\ UNCHANGED reload
  /\ UNCHANGED <<quiz, inspector, told>>

HandleSave(r) ==
  /\ PanelSaved(r) \/ PanelRefused(r) \/ TitleSaved(r) \/ TitleRefused(r)
  /\ patches' = patches \ {r}
  /\ UNCHANGED <<saved, bounds>>
-----------------------------------------------------------------------------
(* Loading.                                                                *)

ReadRow ==
  /\ reload.step \in {"asked", "again"}
  /\ reload' = [reload EXCEPT !.step = IF @ = "asked" THEN "read" ELSE "reading", !.row = saved]
  /\ UNCHANGED <<saved, quiz, inspector, told, header, patches, bounds>>

\* The load ends, and then who awaited it goes on: the panel of the conflict
\* closes, and the title's field.
ReloadDone ==
  /\ reload.step = "read" /\ reload' = NoReload
  /\ LET closes == "panel" \in reload.waits /\ inspector.kind # "none"
         p == IF closes THEN NoPanel ELSE Synced(inspector, reload.row)
         h == Followed(header, reload.row)
         ended == IF "title" \in reload.waits THEN [h EXCEPT !.saving = FALSE, !.editing = FALSE] ELSE h
     IN /\ quiz' = reload.row
        /\ inspector' = p
        /\ told' = Report(p, IF closes THEN [told EXCEPT ![inspector.kind] = FALSE] ELSE told)
        /\ header' = IF Remounts(p) THEN HeaderOf(reload.row) ELSE ended
        /\ patches' = Orphaned(Remounts(p), closes)
  /\ UNCHANGED <<saved, bounds>>

\* The error screen takes the editor away, with its panels and its status.
ReloadFails ==
  /\ reload.step \in {"asked", "read", "again", "reading"}
  /\ reload' = [NoReload EXCEPT !.step = "failed"]
  /\ inspector' = NoPanel /\ told' = NothingTold /\ header' = HeaderOf(quiz)
  /\ patches' = {[r EXCEPT !.from = "nobody"] : r \in patches}
  /\ UNCHANGED <<saved, quiz, bounds>>

RetryLoad ==
  /\ reload.step = "failed" /\ reload' = [NoReload EXCEPT !.step = "again"]
  /\ UNCHANGED <<saved, quiz, inspector, told, header, patches, bounds>>

RetryDone ==
  /\ reload.step = "reading" /\ reload' = NoReload
  /\ quiz' = reload.row /\ header' = HeaderOf(reload.row)
  /\ UNCHANGED <<saved, inspector, told, patches, bounds>>
-----------------------------------------------------------------------------
SettingsNext ==
  \/ \E k \in {"design", "sound"} : ToggleTab(k)
  \/ \E c \in Shades : SetBackground(c) \/ SetInk(c)
  \/ \E m \in Tunes : SetMusic(m)
  \/ SavePanel \/ LeavePanel \/ LoadNewer \/ EditTitle \/ SaveTitle
  \/ \E r \in patches : ServePatch(r) \/ ReadBack(r) \/ LoseSave(r) \/ HandleSave(r)
  \/ ForeignChange
  \/ ReadRow \/ ReloadDone \/ ReloadFails \/ RetryLoad \/ RetryDone

SettingsSpec == SettingsInit /\ [][SettingsNext]_settingsVars
-----------------------------------------------------------------------------
(* Properties.                                                             *)

\* While a panel holds unsaved changes the editor knows, so that presenting,
\* structural changes and leaving stay guarded: a late reply to a save of a
\* panel closed since cannot make it forget those of the next one.
UnsavedIsGuarded == Unsaved(inspector) => told[inspector.kind]

\* Colours that the editor stores are drawn as they were chosen: no page
\* replaces the text colour by a more readable one afterwards.
StoredColoursAreDrawn ==
  [][\A r \in patches : (r.kind = "design" /\ ServePatch(r) /\ saved' # saved)
       => Foreground(saved'.bg, saved'.ink) = saved'.ink]_settingsVars
=============================================================================
