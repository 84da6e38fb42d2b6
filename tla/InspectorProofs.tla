-------------------------- MODULE InspectorProofs --------------------------
(***************************************************************************)
(* Two parts of the editor's page.                                         *)
(*                                                                         *)
(* The settings of a presentation.  For any colours, tunes, titles,        *)
(* numbers of saves and other clients: the editor knows of unsaved         *)
(* changes, and stores no colour that it would not draw.  Neither is       *)
(* inductive.  The first needs to know what a panel is, so that a change   *)
(* of its flags is no change of its draft; the second that every design    *)
(* draft, and every request made of one, has a text that can be read on    *)
(* its background or is the better of white and slate.                     *)
(*                                                                         *)
(* What one slide says.  For any options, texts, images, limits and other  *)
(* clients: no save is refused, what is stored can start, what was saved   *)
(* comes back as it was shown, and no image is stored that did not load.   *)
(* The invariant says what a draft may be: what is shown can start, an     *)
(* inspector holds only what its inputs offer, a request carries only what *)
(* the server accepts, and the picker previews only what loaded.           *)
(***************************************************************************)
EXTENDS Settings, Drafts, FiniteSetTheorems, TLAPS

-----------------------------------------------------------------------------
(* Settings.                                                               *)

\* Everything a colour, a tune or a title may be, other clients' included.
Values ==
  Shades \cup Tunes \cup Names \cup UNION {{fields[f] : f \in DOMAIN fields} : fields \in Foreign}

PresentationRows == [rev: Nat, title: Values, bg: Values, ink: Values, music: Values]
Flags == [design: BOOLEAN, sound: BOOLEAN]
Headers == [editing: BOOLEAN, saving: BOOLEAN, text: Values]

\* Drafts of the design panel are as the page draws them.
DesignDrafts == {d \in [rev: Nat, bg: Values, ink: Values] : Foreground(d.bg, d.ink) = d.ink}
SoundDrafts == [rev: Nat, music: Values]

OpenPanels(kind, drafts) ==
  [kind: {kind}, base: drafts, draft: drafts, conflict: BOOLEAN, saving: BOOLEAN]
Panels == {NoPanel} \cup OpenPanels("design", DesignDrafts) \cup OpenPanels("sound", SoundDrafts)

Requests(kind, fields) ==
  [no: Nat, kind: {kind}, rev: Nat, fields: fields, title: Values,
   step: {"sent", "stored", "conflict", "ok", "lost"}, from: {"sender", "editor", "nobody"},
   reply: {0} \cup PresentationRows]
AllRequests ==
  Requests("design", DesignDrafts) \cup Requests("sound", SoundDrafts)
    \cup Requests("title", [title: Values])

Reloads ==
  [step: {"none", "asked", "read", "failed", "again", "reading"}, row: {0} \cup PresentationRows,
   waits: SUBSET {"panel", "title"}]

SettingsTypeOK ==
  /\ saved \in PresentationRows /\ quiz \in PresentationRows
  /\ inspector \in Panels /\ told \in Flags /\ header \in Headers
  /\ patches \subseteq AllRequests
  /\ \A r \in patches : r.step = "ok" => r.reply \in PresentationRows
  /\ reload \in Reloads
  /\ reload.step \in {"read", "reading"} => reload.row \in PresentationRows
  /\ bounds \in [saves: Nat, foreign: Nat]

SettingsInv == SettingsTypeOK /\ UnsavedIsGuarded
-----------------------------------------------------------------------------
(* The operators.                                                          *)

\* A corrected text colour needs no correction.
LEMMA ForegroundSettles ==
  ASSUME NEW b, NEW i
  PROVE  Foreground(b, Foreground(b, i)) = Foreground(b, i)
BY DEF Foreground

LEMMA ForegroundIsValue ==
  ASSUME NEW b, NEW i \in Values
  PROVE  Foreground(b, i) \in Values
<1>1. White \in Values /\ Slate \in Values
  BY SettingsAssumption DEF SettingsAssumption, Values
<1> QED
  BY <1>1 DEF Foreground

\* What a panel starts from.
LEMMA PanelDraftIsDrawn ==
  ASSUME NEW q \in PresentationRows
  PROVE  /\ PanelDraft("design", q) \in DesignDrafts
         /\ PanelDraft("sound", q) \in SoundDrafts
         /\ PanelDraft("design", q).rev = q.rev /\ PanelDraft("sound", q).rev = q.rev
<1>1. q.rev \in Nat /\ q.bg \in Values /\ q.ink \in Values /\ q.music \in Values
  BY DEF PresentationRows
<1>2. Foreground(q.bg, q.ink) \in Values
  BY <1>1, ForegroundIsValue
<1>3. Foreground(q.bg, Foreground(q.bg, q.ink)) = Foreground(q.bg, q.ink)
  BY ForegroundSettles
<1> QED
  BY <1>1, <1>2, <1>3 DEF PanelDraft, DesignDrafts, SoundDrafts

LEMMA CleanIsPanel ==
  ASSUME NEW q \in PresentationRows, NEW kind \in {"design", "sound"}
  PROVE  Clean(kind, q) \in Panels /\ Clean(kind, q).kind = kind
BY PanelDraftIsDrawn DEF Clean, Panels, OpenPanels

\* A panel that follows the presentation stays the panel it is.
LEMMA SyncedIsPanel ==
  ASSUME NEW p \in Panels, NEW q \in PresentationRows
  PROVE  Synced(p, q) \in Panels /\ Synced(p, q).kind = p.kind
<1>1. PanelDraft("design", q) \in DesignDrafts /\ PanelDraft("sound", q) \in SoundDrafts
  BY PanelDraftIsDrawn
<1>2. CASE p = NoPanel
  BY <1>2 DEF Synced, NoPanel, Panels
<1>3. CASE p \in OpenPanels("sound", SoundDrafts)
  <2>1. Reconciled(p, q) \in OpenPanels("sound", SoundDrafts)
    BY <1>1, <1>3 DEF Reconciled, OpenPanels, SoundDrafts
  <2>2. [Reconciled(p, q) EXCEPT !.conflict = FALSE] \in OpenPanels("sound", SoundDrafts)
    BY <2>1 DEF OpenPanels
  <2>3. p.kind = "sound"
    BY <1>3 DEF OpenPanels
  <2> QED
    BY <2>1, <2>2, <2>3 DEF Synced, Panels, OpenPanels
<1>4. CASE p \in OpenPanels("design", DesignDrafts)
  <2> DEFINE new == [p EXCEPT !.base = PanelDraft("design", q), !.draft = PanelDraft("design", q)]
  <2>1. new \in OpenPanels("design", DesignDrafts)
    BY <1>1, <1>4 DEF OpenPanels
  <2>2. [new EXCEPT !.conflict = FALSE] \in OpenPanels("design", DesignDrafts)
    BY <2>1 DEF OpenPanels
  <2>3. p.kind = "design"
    BY <1>4 DEF OpenPanels
  <2> QED
    BY <2>1, <2>2, <2>3 DEF Synced, Panels, OpenPanels
<1> QED
  BY <1>2, <1>3, <1>4 DEF Panels

\* The effect of a panel, in a render where it, its draft or the flags have
\* become others, leaves the flags true to it.
LEMMA ReportTells ==
  ASSUME told \in Flags, inspector \in Panels, UnsavedIsGuarded,
         NEW p \in Panels, NEW flags \in Flags
  PROVE  /\ Report(p, flags) \in Flags
         /\ Unsaved(p) => Report(p, flags)[p.kind]
<1>1. p.kind \in {"none", "design", "sound"}
  BY DEF Panels, OpenPanels, NoPanel
<1>2. Unsaved(p) \in BOOLEAN
  BY DEF Unsaved
<1>3. CASE p.kind = "none"
  BY <1>3 DEF Report, Unsaved
<1>4. CASE p.kind # "none" /\ Report(p, flags) = [flags EXCEPT ![p.kind] = Unsaved(p)]
  BY <1>1, <1>2, <1>4 DEF Flags
<1>5. CASE /\ p.kind # "none" /\ Report(p, flags) = flags
           /\ p.kind = inspector.kind /\ Unsaved(p) = Unsaved(inspector) /\ flags = told
  BY <1>5 DEF UnsavedIsGuarded
<1> QED
  BY <1>3, <1>4, <1>5 DEF Report

LEMMA OrphanedAreRequests ==
  ASSUME patches \subseteq AllRequests, NEW t \in BOOLEAN, NEW c \in BOOLEAN,
         \A r \in patches : r.step = "ok" => r.reply \in PresentationRows
  PROVE  /\ Orphaned(t, c) \subseteq AllRequests
         /\ \A r \in Orphaned(t, c) : r.step = "ok" => r.reply \in PresentationRows
<1> SUFFICES ASSUME NEW x \in Orphaned(t, c)
             PROVE  x \in AllRequests /\ (x.step = "ok" => x.reply \in PresentationRows)
  OBVIOUS
<1>1. PICK r \in patches : \E f \in {"sender", "editor", "nobody"} : x = [r EXCEPT !.from = f]
  <2>1. PICK r \in patches :
          x = [r EXCEPT !.from = IF r.from = "sender" /\ (IF r.kind = "title" THEN t ELSE c)
                                 THEN "editor" ELSE @]
    BY DEF Orphaned
  <2>2. r.from \in {"sender", "editor", "nobody"}
    BY DEF AllRequests, Requests
  <2> QED
    BY <2>1, <2>2
<1>2. r \in AllRequests /\ (r.step = "ok" => r.reply \in PresentationRows)
  OBVIOUS
<1> QED
  BY <1>1, <1>2 DEF AllRequests, Requests
-----------------------------------------------------------------------------
(* Steps that several actions share.                                       *)

\* The route shows q.
LEMMA ShowQuizKeeps ==
  ASSUME SettingsInv, NEW q \in PresentationRows, NEW p \in Panels, NEW flags \in Flags,
         NEW h \in Headers, ShowQuiz(q, p, flags, h)
  PROVE  /\ quiz' \in PresentationRows /\ inspector' \in Panels /\ told' \in Flags
         /\ header' \in Headers /\ UnsavedIsGuarded'
<1>1. quiz' \in PresentationRows
  BY DEF ShowQuiz
<1>2. inspector' \in Panels
  BY SyncedIsPanel DEF ShowQuiz
<1>3. told' \in Flags /\ (Unsaved(inspector') => told'[inspector'.kind])
  BY <1>2, ReportTells DEF ShowQuiz, SettingsInv, SettingsTypeOK
<1>4. header' \in Headers
  <2>1. q.title \in Values
    BY DEF PresentationRows
  <2> QED
    BY <2>1 DEF ShowQuiz, Followed, Headers
<1> QED
  BY <1>1, <1>2, <1>3, <1>4 DEF UnsavedIsGuarded, Unsaved

\* The panel is opened or closed.
LEMMA PanelBecomesKeeps ==
  ASSUME SettingsInv, NEW p \in Panels, NEW flags \in Flags, NEW h \in Headers,
         PanelBecomes(p, flags, h)
  PROVE  /\ inspector' \in Panels /\ told' \in Flags /\ header' \in Headers
         /\ patches' \subseteq AllRequests
         /\ \A r \in patches' : r.step = "ok" => r.reply \in PresentationRows
         /\ UnsavedIsGuarded'
<1>1. inspector' \in Panels
  BY DEF PanelBecomes
<1>2. told' \in Flags /\ (Unsaved(inspector') => told'[inspector'.kind])
  BY ReportTells DEF PanelBecomes, SettingsInv, SettingsTypeOK
<1>3. header' \in Headers
  BY DEF PanelBecomes, HeaderOf, Headers, PresentationRows, SettingsInv, SettingsTypeOK
<1>4. Remounts(p) \in BOOLEAN
  BY DEF Remounts
<1>5. /\ patches' \subseteq AllRequests
      /\ \A r \in patches' : r.step = "ok" => r.reply \in PresentationRows
  BY <1>4, OrphanedAreRequests DEF PanelBecomes, SettingsInv, SettingsTypeOK
<1> QED
  BY <1>1, <1>2, <1>3, <1>5 DEF UnsavedIsGuarded, Unsaved

\* A request is replaced by one of the same kind.
LEMMA MovesKeeps ==
  ASSUME SettingsTypeOK, NEW r \in patches, NEW new \in AllRequests,
         new.step = "ok" => new.reply \in PresentationRows, Moves(r, new)
  PROVE  /\ patches' \subseteq AllRequests
         /\ \A x \in patches' : x.step = "ok" => x.reply \in PresentationRows
BY DEF Moves, SettingsTypeOK

\* Fields of a request merged over a row make a row.
LEMMA MergedIsRow ==
  ASSUME saved \in PresentationRows, NEW fields,
         \A f \in DOMAIN fields : f # "rev" => fields[f] \in Values
  PROVE  Merged(fields) \in PresentationRows
<1>1. DOMAIN saved = {"rev", "title", "bg", "ink", "music"} /\ saved.rev \in Nat
  BY DEF PresentationRows
<1>2. \A f \in {"title", "bg", "ink", "music"} : saved[f] \in Values
  BY DEF PresentationRows
<1>3. /\ Merged(fields) = [f \in {"rev", "title", "bg", "ink", "music"} |-> Merged(fields)[f]]
      /\ Merged(fields)["rev"] = saved.rev + 1
      /\ \A f \in {"title", "bg", "ink", "music"} :
           Merged(fields)[f] = IF f \in DOMAIN fields THEN fields[f] ELSE saved[f]
  BY <1>1 DEF Merged
<1>4. \A f \in {"title", "bg", "ink", "music"} : Merged(fields)[f] \in Values
  BY <1>2, <1>3
<1> QED
  BY <1>1, <1>3, <1>4 DEF PresentationRows

LEMMA RequestsMerge ==
  ASSUME saved \in PresentationRows, NEW r \in AllRequests
  PROVE  Merged(r.fields) \in PresentationRows
<1>1. \A f \in DOMAIN r.fields : f # "rev" => r.fields[f] \in Values
  BY DEF AllRequests, Requests, DesignDrafts, SoundDrafts
<1> QED
  BY <1>1, MergedIsRow
-----------------------------------------------------------------------------
(* The invariant.                                                          *)

LEMMA SettingsStart == SettingsInit => SettingsInv
<1> SUFFICES ASSUME SettingsInit PROVE SettingsInv
  OBVIOUS
<1>1. saved \in PresentationRows /\ quiz \in PresentationRows
  BY SettingsAssumption DEF SettingsInit, SettingsAssumption, PresentationRows, Values
<1>2. inspector \in Panels /\ told \in Flags /\ header \in Headers
  BY <1>1 DEF SettingsInit, Panels, Flags, NothingTold, Headers, HeaderOf, PresentationRows
<1>3. reload \in Reloads /\ reload.step = "none"
  BY DEF SettingsInit, NoReload, Reloads
<1>4. bounds \in [saves: Nat, foreign: Nat]
  BY SettingsAssumption DEF SettingsInit, SettingsAssumption
<1>5. UnsavedIsGuarded
  BY DEF SettingsInit, UnsavedIsGuarded, Unsaved, NoPanel
<1> QED
  BY <1>1, <1>2, <1>3, <1>4, <1>5 DEF SettingsInv, SettingsTypeOK, SettingsInit

\* What the manager does with the panels.
LEMMA ToggleTabKeeps ==
  ASSUME SettingsInv, NEW k \in {"design", "sound"}, ToggleTab(k)
  PROVE  SettingsInv'
<1> DEFINE p == IF inspector.kind = k THEN NoPanel ELSE Clean(k, quiz)
           flags == IF Unsaved(inspector) THEN [told EXCEPT ![inspector.kind] = FALSE] ELSE told
<1>1. p \in Panels
  BY CleanIsPanel DEF Panels, SettingsInv, SettingsTypeOK
<1>2. flags \in Flags
  BY DEF Flags, SettingsInv, SettingsTypeOK
<1>3. PanelBecomes(p, flags, header)
  BY DEF ToggleTab
<1> QED
  BY <1>1, <1>2, <1>3, PanelBecomesKeeps DEF ToggleTab, SettingsInv, SettingsTypeOK

LEMMA LeavePanelKeeps ==
  ASSUME SettingsInv, LeavePanel
  PROVE  SettingsInv'
<1>1. [told EXCEPT ![inspector.kind] = FALSE] \in Flags
  BY DEF Flags, SettingsInv, SettingsTypeOK
<1>2. NoPanel \in Panels
  BY DEF Panels
<1> QED
  BY <1>1, <1>2, PanelBecomesKeeps DEF LeavePanel, SettingsInv, SettingsTypeOK

LEMMA DrawKeeps ==
  ASSUME SettingsInv, inspector.kind # "none", NEW d, Draw(d),
         inspector.kind = "design" => d \in DesignDrafts,
         inspector.kind = "sound" => d \in SoundDrafts
  PROVE  SettingsInv'
<1>1. inspector' \in Panels
  BY DEF Draw, Panels, OpenPanels, NoPanel, SettingsInv, SettingsTypeOK
<1>2. told' \in Flags /\ (Unsaved(inspector') => told'[inspector'.kind])
  BY <1>1, ReportTells DEF Draw, SettingsInv, SettingsTypeOK
<1> QED
  BY <1>1, <1>2 DEF Draw, SettingsInv, SettingsTypeOK, UnsavedIsGuarded, Unsaved

LEMMA SetColourKeeps ==
  ASSUME SettingsInv, NEW c \in Shades, SetBackground(c) \/ SetInk(c)
  PROVE  SettingsInv'
<1> DEFINE d == inspector.draft
<1>1. inspector.kind = "design"
  BY DEF SetBackground, SetInk
<1>2. d \in [rev: Nat, bg: Values, ink: Values]
  BY <1>1 DEF Panels, OpenPanels, NoPanel, DesignDrafts, SettingsInv, SettingsTypeOK
<1>3. c \in Values
  BY DEF Values
<1>4. CASE SetBackground(c)
  <2>1. OnBackground(d, c) \in DesignDrafts
    BY <1>2, <1>3, ForegroundSettles, ForegroundIsValue DEF OnBackground, DesignDrafts
  <2> QED
    BY <1>1, <1>4, <2>1, DrawKeeps DEF SetBackground
<1>5. CASE SetInk(c)
  <2>1. [d EXCEPT !.ink = Foreground(d.bg, c)] \in DesignDrafts
    BY <1>2, <1>3, ForegroundSettles, ForegroundIsValue DEF DesignDrafts
  <2> QED
    BY <1>1, <1>5, <2>1, DrawKeeps DEF SetInk
<1> QED
  BY <1>4, <1>5

LEMMA SetMusicKeeps ==
  ASSUME SettingsInv, NEW m \in Tunes, SetMusic(m)
  PROVE  SettingsInv'
<1>1. inspector.kind = "sound"
  BY DEF SetMusic
<1>2. [inspector.draft EXCEPT !.music = m] \in SoundDrafts
  BY <1>1 DEF Panels, OpenPanels, NoPanel, SoundDrafts, Values, SettingsInv, SettingsTypeOK
<1> QED
  BY <1>1, <1>2, DrawKeeps DEF SetMusic

\* A request that is made is one of its kind.
LEMMA PatchKeeps ==
  ASSUME SettingsTypeOK, NEW kind, NEW rev \in Nat, NEW fields, Patch(kind, rev, fields),
         \/ kind = "design" /\ fields \in DesignDrafts
         \/ kind = "sound" /\ fields \in SoundDrafts
         \/ kind = "title" /\ fields \in [title: Values]
  PROVE  /\ patches' \subseteq AllRequests
         /\ \A r \in patches' : r.step = "ok" => r.reply \in PresentationRows
         /\ bounds' \in [saves: Nat, foreign: Nat]
<1>1. bounds.saves \in Nat /\ quiz.title \in Values
  BY DEF SettingsTypeOK, PresentationRows
<1>2. PatchOf(kind, rev, fields) \in AllRequests /\ PatchOf(kind, rev, fields).step = "sent"
  BY <1>1 DEF PatchOf, AllRequests, Requests
<1>3. bounds' \in [saves: Nat, foreign: Nat]
  BY <1>1 DEF Patch, SettingsTypeOK
<1> QED
  BY <1>2, <1>3 DEF Patch, SettingsTypeOK

LEMMA SavePanelKeeps ==
  ASSUME SettingsInv, SavePanel
  PROVE  SettingsInv'
<1>1. inspector \in Panels /\ inspector.kind \in {"design", "sound"}
  BY DEF SavePanel, FieldsEnabled, SettingsInv, SettingsTypeOK, Panels, OpenPanels, NoPanel
<1>2. /\ inspector.draft.rev \in Nat
      /\ inspector.kind = "design" => inspector.draft \in DesignDrafts
      /\ inspector.kind = "sound" => inspector.draft \in SoundDrafts
  BY <1>1 DEF Panels, OpenPanels, NoPanel, DesignDrafts, SoundDrafts
<1>3. /\ patches' \subseteq AllRequests
      /\ \A r \in patches' : r.step = "ok" => r.reply \in PresentationRows
      /\ bounds' \in [saves: Nat, foreign: Nat]
  BY <1>1, <1>2, PatchKeeps DEF SavePanel, SettingsInv
<1>4. /\ inspector' \in Panels /\ inspector'.kind = inspector.kind
      /\ inspector'.draft = inspector.draft /\ inspector'.base = inspector.base
  BY <1>1 DEF SavePanel, Panels, OpenPanels, NoPanel
<1> QED
  BY <1>3, <1>4 DEF SavePanel, SettingsInv, SettingsTypeOK, UnsavedIsGuarded, Unsaved
LEMMA TitleKeeps ==
  ASSUME SettingsInv, EditTitle \/ SaveTitle
  PROVE  SettingsInv'
<1>1. header \in Headers /\ quiz.title \in Values /\ quiz.rev \in Nat
  BY DEF SettingsInv, SettingsTypeOK, PresentationRows
<1>2. CASE EditTitle
  <2>1. Names \subseteq Values
    BY DEF Values
  <2>2. header' \in Headers
    <3>1. CASE header' = [header EXCEPT !.editing = TRUE]
      BY <1>1, <3>1 DEF Headers
    <3>2. ASSUME NEW t \in Names, header' = [header EXCEPT !.text = t] PROVE header' \in Headers
      BY <1>1, <2>1, <3>2 DEF Headers
    <3>3. CASE header' = HeaderOf(quiz)
      BY <1>1, <3>3 DEF Headers, HeaderOf
    <3> QED
      BY <1>2, <3>1, <3>2, <3>3 DEF EditTitle
  <2> QED
    BY <1>2, <2>2 DEF EditTitle, SettingsInv, SettingsTypeOK, UnsavedIsGuarded, Unsaved
<1>3. CASE SaveTitle /\ header.text = quiz.title
  <2>1. header' \in Headers
    BY <1>1, <1>3 DEF SaveTitle, Headers
  <2> QED
    BY <1>3, <2>1 DEF SaveTitle, SettingsInv, SettingsTypeOK, UnsavedIsGuarded, Unsaved
<1>4. CASE SaveTitle /\ header.text # quiz.title
  <2>1. header' \in Headers /\ [title |-> header.text] \in [title: Values]
    BY <1>1, <1>4 DEF SaveTitle, Headers
  <2>2. /\ patches' \subseteq AllRequests
        /\ \A r \in patches' : r.step = "ok" => r.reply \in PresentationRows
        /\ bounds' \in [saves: Nat, foreign: Nat]
    BY <1>1, <1>4, <2>1, PatchKeeps DEF SaveTitle, SettingsInv
  <2> QED
    BY <1>4, <2>1, <2>2 DEF SaveTitle, SettingsInv, SettingsTypeOK, UnsavedIsGuarded, Unsaved
<1> QED
  BY <1>2, <1>3, <1>4

\* What the server and the network do.
LEMMA ServeKeeps ==
  ASSUME SettingsInv, NEW r \in patches, ServePatch(r) \/ ReadBack(r) \/ LoseSave(r)
  PROVE  SettingsInv'
<1>1. r \in AllRequests /\ saved \in PresentationRows /\ SettingsTypeOK
  BY DEF SettingsInv, SettingsTypeOK
<1>2. saved' \in PresentationRows
  BY <1>1, RequestsMerge DEF ServePatch, ReadBack, LoseSave
<1>3. PICK new \in AllRequests : Moves(r, new) /\ (new.step = "ok" => new.reply \in PresentationRows)
  <2>1. /\ [r EXCEPT !.step = "stored"] \in AllRequests
        /\ [r EXCEPT !.step = "conflict"] \in AllRequests
        /\ [r EXCEPT !.step = "ok", !.reply = saved] \in AllRequests
        /\ [r EXCEPT !.step = "lost", !.reply = 0] \in AllRequests
    BY <1>1 DEF AllRequests, Requests
  <2>2. /\ [r EXCEPT !.step = "stored"].step = "stored"
        /\ [r EXCEPT !.step = "conflict"].step = "conflict"
        /\ [r EXCEPT !.step = "ok", !.reply = saved].reply = saved
        /\ [r EXCEPT !.step = "lost", !.reply = 0].step = "lost"
    BY <1>1 DEF AllRequests, Requests
  <2> QED
    BY <1>1, <2>1, <2>2 DEF ServePatch, ReadBack, LoseSave
<1>4. /\ patches' \subseteq AllRequests
      /\ \A x \in patches' : x.step = "ok" => x.reply \in PresentationRows
  BY <1>1, <1>3, MovesKeeps
<1>5. UNCHANGED <<quiz, inspector, told, header, reload, bounds>>
  BY DEF ServePatch, ReadBack, LoseSave
<1> QED
  BY <1>2, <1>4, <1>5 DEF SettingsInv, SettingsTypeOK, UnsavedIsGuarded, Unsaved

LEMMA ForeignKeeps ==
  ASSUME SettingsInv, ForeignChange
  PROVE  SettingsInv'
<1>1. PICK fields \in Foreign : saved' = Merged(fields)
  BY DEF ForeignChange
<1>2. \A f \in DOMAIN fields : fields[f] \in Values
  BY DEF Values
<1>3. saved' \in PresentationRows
  BY <1>1, <1>2, MergedIsRow DEF SettingsInv, SettingsTypeOK
<1>4. bounds' \in [saves: Nat, foreign: Nat]
  BY DEF ForeignChange, SettingsInv, SettingsTypeOK
<1> QED
  BY <1>3, <1>4 DEF ForeignChange, SettingsInv, SettingsTypeOK, UnsavedIsGuarded, Unsaved

\* Replies.
LEMMA PanelSavedKeeps ==
  ASSUME SettingsInv, NEW r \in patches, HandleSave(r), PanelSaved(r)
  PROVE  SettingsInv'
<1> DEFINE p == IF r.from = "sender" THEN Clean(r.kind, r.reply) ELSE inspector
           flags == IF r.from # "nobody" THEN [told EXCEPT ![r.kind] = FALSE] ELSE told
<1>1. r.kind \in {"design", "sound"} /\ r.reply \in PresentationRows
  BY DEF PanelSaved, SettingsInv, SettingsTypeOK, AllRequests, Requests
<1>2. p \in Panels
  BY <1>1, CleanIsPanel DEF SettingsInv, SettingsTypeOK
<1>3. flags \in Flags
  BY DEF Flags, SettingsInv, SettingsTypeOK
<1>4. ShowQuiz(r.reply, p, flags, header)
  BY DEF PanelSaved
<1>5. /\ quiz' \in PresentationRows /\ inspector' \in Panels /\ told' \in Flags
      /\ header' \in Headers /\ UnsavedIsGuarded'
  BY <1>1, <1>2, <1>3, <1>4, ShowQuizKeeps DEF SettingsInv, SettingsTypeOK
<1> QED
  BY <1>5 DEF HandleSave, PanelSaved, SettingsInv, SettingsTypeOK

LEMMA PanelRefusedKeeps ==
  ASSUME SettingsInv, NEW r \in patches, HandleSave(r), PanelRefused(r)
  PROVE  SettingsInv'
<1>1. /\ inspector' \in Panels /\ inspector'.kind = inspector.kind
      /\ Unsaved(inspector') = Unsaved(inspector)
  <2>1. CASE inspector = NoPanel
    <3>1. inspector' = NoPanel
      BY <2>1 DEF PanelRefused, NoPanel
    <3> QED
      BY <2>1, <3>1 DEF Panels
  <2>2. CASE inspector # NoPanel
    <3>1. /\ inspector' \in Panels /\ inspector'.kind = inspector.kind
          /\ inspector'.draft = inspector.draft /\ inspector'.base = inspector.base
      BY <2>2 DEF PanelRefused, Panels, OpenPanels, SettingsInv, SettingsTypeOK
    <3> QED
      BY <3>1 DEF Unsaved
  <2> QED
    BY <2>1, <2>2
<1>2. Unsaved(inspector)' = Unsaved(inspector')
  BY DEF Unsaved
<1> QED
  BY <1>1, <1>2 DEF HandleSave, PanelRefused, SettingsInv, SettingsTypeOK, UnsavedIsGuarded

LEMMA TitleSavedKeeps ==
  ASSUME SettingsInv, NEW r \in patches, HandleSave(r), TitleSaved(r)
  PROVE  SettingsInv'
<1> DEFINE h == IF r.from = "sender" THEN [header EXCEPT !.saving = FALSE, !.editing = FALSE] ELSE header
<1>1. h \in Headers /\ r.reply \in PresentationRows
  BY DEF TitleSaved, Headers, SettingsInv, SettingsTypeOK
<1>2. ShowQuiz(r.reply, inspector, told, h)
  BY DEF TitleSaved
<1>3. /\ quiz' \in PresentationRows /\ inspector' \in Panels /\ told' \in Flags
      /\ header' \in Headers /\ UnsavedIsGuarded'
  BY <1>1, <1>2, ShowQuizKeeps DEF SettingsInv, SettingsTypeOK
<1> QED
  BY <1>3 DEF HandleSave, TitleSaved, SettingsInv, SettingsTypeOK

LEMMA AwaitIsReload ==
  ASSUME SettingsTypeOK, NEW who \in SUBSET {"panel", "title"}
  PROVE  Await(who) \in Reloads /\ Await(who).step = "asked"
BY DEF Await, Reloads, SettingsTypeOK

LEMMA TitleRefusedKeeps ==
  ASSUME SettingsInv, NEW r \in patches, HandleSave(r), TitleRefused(r)
  PROVE  SettingsInv'
<1>1. r.title \in Values
  BY DEF SettingsInv, SettingsTypeOK, AllRequests, Requests
<1>2. header' \in Headers
  <2>1. header \in Headers
    BY DEF SettingsInv, SettingsTypeOK
  <2>2. [editing |-> FALSE, saving |-> FALSE, text |-> r.title] \in Headers
    BY <1>1 DEF Headers
  <2> QED
    BY <2>1, <2>2 DEF TitleRefused
<1>3. reload' = reload \/ (reload' \in Reloads /\ reload'.step = "asked")
  <2>1. (IF r.from = "sender" THEN {"title"} ELSE {}) \in SUBSET {"panel", "title"}
    OBVIOUS
  <2> QED
    BY <2>1, AwaitIsReload DEF TitleRefused, SettingsInv
<1> QED
  BY <1>2, <1>3 DEF HandleSave, TitleRefused, SettingsInv, SettingsTypeOK, UnsavedIsGuarded, Unsaved

\* Loads.
LEMMA LoadKeeps ==
  ASSUME SettingsInv, LoadNewer \/ ReadRow \/ RetryLoad
  PROVE  SettingsInv'
<1>1. /\ reload' \in Reloads
      /\ reload'.step \in {"read", "reading"} => reload'.row \in PresentationRows
  <2>1. CASE LoadNewer
    BY <2>1, AwaitIsReload DEF LoadNewer, SettingsInv
  <2>2. CASE ReadRow
    BY <2>2 DEF ReadRow, Reloads, SettingsInv, SettingsTypeOK
  <2>3. CASE RetryLoad
    BY <2>3 DEF RetryLoad, NoReload, Reloads
  <2> QED
    BY <2>1, <2>2, <2>3
<1>2. UNCHANGED <<saved, quiz, inspector, told, header, patches, bounds>>
  BY DEF LoadNewer, ReadRow, RetryLoad
<1> QED
  BY <1>1, <1>2 DEF SettingsInv, SettingsTypeOK, UnsavedIsGuarded, Unsaved

LEMMA ReloadDoneKeeps ==
  ASSUME SettingsInv, ReloadDone
  PROVE  SettingsInv'
<1> DEFINE closes == "panel" \in reload.waits /\ inspector.kind # "none"
           p == IF closes THEN NoPanel ELSE Synced(inspector, reload.row)
           flags == IF closes THEN [told EXCEPT ![inspector.kind] = FALSE] ELSE told
           h == Followed(header, reload.row)
           ended == IF "title" \in reload.waits THEN [h EXCEPT !.saving = FALSE, !.editing = FALSE] ELSE h
<1>1. reload.row \in PresentationRows
  BY DEF ReloadDone, SettingsInv, SettingsTypeOK
<1>2. p \in Panels /\ flags \in Flags
  BY <1>1, SyncedIsPanel DEF Panels, Flags, SettingsInv, SettingsTypeOK
<1>3. ended \in Headers /\ HeaderOf(reload.row) \in Headers
  BY <1>1 DEF Followed, Headers, HeaderOf, PresentationRows, SettingsInv, SettingsTypeOK
<1>4. /\ saved' = saved /\ bounds' = bounds /\ reload' = NoReload
      /\ quiz' = reload.row /\ inspector' = p /\ told' = Report(p, flags)
      /\ header' = (IF Remounts(p) THEN HeaderOf(reload.row) ELSE ended)
      /\ patches' = Orphaned(Remounts(p), closes)
  BY DEF ReloadDone
<1>5. told' \in Flags /\ (Unsaved(inspector') => told'[inspector'.kind])
  BY <1>2, <1>4, ReportTells DEF SettingsInv, SettingsTypeOK
<1>6. Remounts(p) \in BOOLEAN /\ closes \in BOOLEAN
  BY DEF Remounts
<1>7. /\ patches' \subseteq AllRequests
      /\ \A r \in patches' : r.step = "ok" => r.reply \in PresentationRows
  <2> DEFINE t == Remounts(p)
  <2>1. t \in BOOLEAN /\ closes \in BOOLEAN /\ patches' = Orphaned(t, closes)
    BY <1>4, <1>6
  <2>2. patches \subseteq AllRequests /\ \A r \in patches : r.step = "ok" => r.reply \in PresentationRows
    BY DEF SettingsInv, SettingsTypeOK
  <2> HIDE DEF closes, t
  <2>3. /\ Orphaned(t, closes) \subseteq AllRequests
        /\ \A r \in Orphaned(t, closes) : r.step = "ok" => r.reply \in PresentationRows
    BY <2>1, <2>2, OrphanedAreRequests
  <2> QED
    BY <2>1, <2>3
<1>8. NoReload \in Reloads /\ NoReload.step = "none"
  BY DEF NoReload, Reloads
<1>9. SettingsTypeOK'
  BY <1>1, <1>2, <1>3, <1>4, <1>5, <1>7, <1>8 DEF SettingsInv, SettingsTypeOK
<1> QED
  BY <1>5, <1>9 DEF SettingsInv, UnsavedIsGuarded, Unsaved

LEMMA ReloadFailsKeeps ==
  ASSUME SettingsInv, ReloadFails
  PROVE  SettingsInv'
<1>1. inspector' \in Panels /\ told' \in Flags /\ header' \in Headers
  BY DEF ReloadFails, Panels, NothingTold, Flags, HeaderOf, Headers, PresentationRows, SettingsInv,
         SettingsTypeOK
<1>2. \A r \in AllRequests : /\ [r EXCEPT !.from = "nobody"] \in AllRequests
                             /\ [r EXCEPT !.from = "nobody"].step = r.step
                             /\ [r EXCEPT !.from = "nobody"].reply = r.reply
  BY DEF AllRequests, Requests
<1>3. /\ patches' \subseteq AllRequests
      /\ \A r \in patches' : r.step = "ok" => r.reply \in PresentationRows
  <2> SUFFICES ASSUME NEW x \in patches'
               PROVE  x \in AllRequests /\ (x.step = "ok" => x.reply \in PresentationRows)
    OBVIOUS
  <2>1. PICK r \in patches : x = [r EXCEPT !.from = "nobody"]
    BY DEF ReloadFails
  <2>2. r \in AllRequests /\ (r.step = "ok" => r.reply \in PresentationRows)
    BY DEF SettingsInv, SettingsTypeOK
  <2> QED
    BY <1>2, <2>1, <2>2
<1>4. reload' \in Reloads /\ reload'.step = "failed"
  BY DEF ReloadFails, NoReload, Reloads
<1>5. UnsavedIsGuarded'
  BY DEF ReloadFails, NoPanel, UnsavedIsGuarded, Unsaved
<1> QED
  BY <1>1, <1>3, <1>4, <1>5 DEF ReloadFails, SettingsInv, SettingsTypeOK

LEMMA RetryDoneKeeps ==
  ASSUME SettingsInv, RetryDone
  PROVE  SettingsInv'
<1>1. reload.row \in PresentationRows
  BY DEF RetryDone, SettingsInv, SettingsTypeOK
<1>2. header' \in Headers
  BY <1>1 DEF RetryDone, HeaderOf, Headers, PresentationRows
<1>3. reload' \in Reloads /\ reload'.step = "none"
  BY DEF RetryDone, NoReload, Reloads
<1> QED
  BY <1>1, <1>2, <1>3 DEF RetryDone, SettingsInv, SettingsTypeOK, UnsavedIsGuarded, Unsaved

LEMMA SettingsStep == SettingsInv /\ [SettingsNext]_settingsVars => SettingsInv'
<1> SUFFICES ASSUME SettingsInv, [SettingsNext]_settingsVars PROVE SettingsInv'
  OBVIOUS
<1>1. CASE UNCHANGED settingsVars
  BY <1>1 DEF settingsVars, SettingsInv, SettingsTypeOK, UnsavedIsGuarded, Unsaved
<1>2. ASSUME NEW k \in {"design", "sound"}, ToggleTab(k) PROVE SettingsInv'
  BY <1>2, ToggleTabKeeps
<1>3. ASSUME NEW c \in Shades, SetBackground(c) \/ SetInk(c) PROVE SettingsInv'
  BY <1>3, SetColourKeeps
<1>4. ASSUME NEW m \in Tunes, SetMusic(m) PROVE SettingsInv'
  BY <1>4, SetMusicKeeps
<1>5. CASE SavePanel \/ LeavePanel
  BY <1>5, SavePanelKeeps, LeavePanelKeeps
<1>6. CASE EditTitle \/ SaveTitle
  BY <1>6, TitleKeeps
<1>7. ASSUME NEW r \in patches, ServePatch(r) \/ ReadBack(r) \/ LoseSave(r) PROVE SettingsInv'
  BY <1>7, ServeKeeps
<1>8. ASSUME NEW r \in patches, HandleSave(r) PROVE SettingsInv'
  BY <1>8, PanelSavedKeeps, PanelRefusedKeeps, TitleSavedKeeps, TitleRefusedKeeps DEF HandleSave
<1>9. CASE ForeignChange
  BY <1>9, ForeignKeeps
<1>10. CASE LoadNewer \/ ReadRow \/ RetryLoad
  BY <1>10, LoadKeeps
<1>11. CASE ReloadDone \/ ReloadFails \/ RetryDone
  BY <1>11, ReloadDoneKeeps, ReloadFailsKeeps, RetryDoneKeeps
<1> QED
  BY <1>1, <1>2, <1>3, <1>4, <1>5, <1>6, <1>7, <1>8, <1>9, <1>10, <1>11 DEF SettingsNext
-----------------------------------------------------------------------------
(* The theorems.                                                           *)

LEMMA SettingsInvariant == SettingsSpec => []SettingsInv
BY SettingsStart, SettingsStep, PTL DEF SettingsSpec

\* Whatever is drawn, saved, refused, lost, reloaded and closed, and whatever
\* other clients store meanwhile, the editor knows of unsaved changes of the
\* open panel (onDirtyChange), so that every guard that asks it asks first.
THEOREM UnsavedStaysGuarded == SettingsSpec => []UnsavedIsGuarded
BY SettingsInvariant, PTL DEF SettingsInv

\* A save of the design panel, of however old a draft, stores a text colour
\* that presentationTheme leaves as it is.
THEOREM StoredColoursStay == SettingsSpec => StoredColoursAreDrawn
<1>1. SettingsInv /\ [SettingsNext]_settingsVars =>
        [\A r \in patches : (r.kind = "design" /\ ServePatch(r) /\ saved' # saved)
           => Foreground(saved'.bg, saved'.ink) = saved'.ink]_settingsVars
  <2> SUFFICES ASSUME SettingsInv, NEW r \in patches, r.kind = "design", ServePatch(r), saved' # saved
               PROVE  Foreground(saved'.bg, saved'.ink) = saved'.ink
    OBVIOUS
  <2>1. r.fields \in DesignDrafts
    BY DEF SettingsInv, SettingsTypeOK, AllRequests, Requests
  <2>2. DOMAIN saved = {"rev", "title", "bg", "ink", "music"}
    BY DEF SettingsInv, SettingsTypeOK, PresentationRows
  <2>3. DOMAIN r.fields = {"rev", "bg", "ink"}
    BY <2>1 DEF DesignDrafts
  <2>4. saved' = Merged(r.fields)
    BY DEF ServePatch
  <2>5. saved'.bg = r.fields.bg /\ saved'.ink = r.fields.ink
    BY <2>2, <2>3, <2>4 DEF Merged
  <2> QED
    BY <2>1, <2>5 DEF DesignDrafts
<1> QED
  BY <1>1, SettingsInvariant, PTL DEF SettingsSpec, StoredColoursAreDrawn
-----------------------------------------------------------------------------
(* Drafts.                                                                 *)

MarkedOptions == [id: OptionNames, text: DraftTexts, image: Images, correct: BOOLEAN]
Sketches == Questions(MarkedOptions) \cup TextActivities \cup Contents

\* What the editor shows: it can start, and its marks are on the options.
IsSlide(s) == s \in Sketches /\ ClientAccepts(s) /\ (s.kind = "choice" => s.key = {})

\* What an inspector edits: whatever an input does not offer is not there.
IsSketch(w) ==
  /\ w \in Sketches
  /\ w.kind = "choice" =>
       /\ w.key = {}
       /\ w.scoring = "none" => w.min = 0 /\ w.max = 0 /\ ~w.faster /\ ~w.board
       /\ w.partial => w.scoring = "points" /\ w.type = "multiple"
       /\ w.evaluation = "none" => Marked(w.options) = {}

IsItem(d) == d \in Items /\ ServerAccepts(d)

SlideIsShown ==
  /\ item.rev \in Nat /\ slide.rev \in Nat
  /\ item.rev > 0 => IsItem(item.def)
  /\ slide.rev = 0 => slide.def = None /\ sketch = None
  /\ slide.rev > 0 => /\ item.rev > 0
                      /\ IsSlide(slide.def) /\ IsSketch(sketch)
                      /\ sketch.kind = slide.def.kind
  /\ warned => item.rev > 0

\* No request carries what the server would refuse.
Calls ==
  [step: {"sent", "ok", "conflict", "failed"}, kind: {"create", "save", "convert"}, rev: Nat,
   def: Items, shown: Sketches \cup {None}]

RequestIsSound ==
  \/ sending = NoSending
  \/ /\ sending \in Calls
     /\ IsItem(sending.def)
     /\ sending.kind # "create" => item.rev > 0
     /\ sending.step = "ok" => sending.rev > 0 /\ item.rev > 0
     /\ sending.kind = "save" =>
          /\ IsSketch(sending.shown) /\ SketchIsValid(sending.shown)
          /\ sending.def = ToDefinition(ToEditorSlide(sending.shown))

\* A preview is of an address that loads.
Pickers ==
  [target: OptionNames \cup {"none", "slide"}, url: Images, preview: Images \ {"broken"},
   checking: BOOLEAN, asked: Images]

PickerFits ==
  /\ picker \in Pickers
  /\ picker.target # "none" => slide.rev > 0
  /\ picker.target \notin {"none", "slide"} => sketch.kind = "choice"

DraftsInv == SlideIsShown /\ RequestIsSound /\ PickerFits

\* No address in it is one that does not load.
AllLoad(w) ==
  /\ w.image # "broken"
  /\ w.kind = "choice" => \A i \in DOMAIN w.options : w.options[i].image # "broken"

ImagesLoad ==
  /\ item.rev > 0 => AllLoad(item.def)
  /\ slide.rev > 0 => AllLoad(slide.def) /\ AllLoad(sketch)
  /\ sending # NoSending => AllLoad(sending.def)
  /\ sending # NoSending /\ sending.kind = "save" => AllLoad(sending.shown)
-----------------------------------------------------------------------------
(* Options and marks.                                                      *)

LEMMA SequenceOf ==
  ASSUME NEW A, NEW B, NEW f \in Seq(A), NEW g, g = [i \in DOMAIN f |-> g[i]],
         \A i \in DOMAIN f : g[i] \in B
  PROVE  g \in Seq(B) /\ Len(g) = Len(f) /\ DOMAIN g = DOMAIN f
<1>1. PICK n \in Nat : n = Len(f) /\ DOMAIN f = 1..n
  OBVIOUS
<1>2. g \in [1..n -> B]
  BY <1>1
<1>3. g \in Seq(B)
  BY <1>1, <1>2
<1> QED  BY <1>1, <1>2, <1>3

\* A definition with other options is one if they are options.
LEMMA OptionsDiffer ==
  ASSUME NEW f \in Seq(Options) \cup Seq(MarkedOptions), NEW g,
         DOMAIN g = DOMAIN f, \A i \in DOMAIN f : g[i].id = f[i].id
  PROVE  Distinct(f) <=> Distinct(g)
BY DEF Distinct

LEMMA MarksAreKnown ==
  ASSUME NEW options \in Seq(Options), NEW key
  PROVE  /\ WithMarks(options, key) \in Seq(MarkedOptions)
         /\ Len(WithMarks(options, key)) = Len(options)
         /\ DOMAIN WithMarks(options, key) = DOMAIN options
         /\ \A i \in DOMAIN options :
              /\ WithMarks(options, key)[i].id = options[i].id
              /\ WithMarks(options, key)[i].text = options[i].text
              /\ WithMarks(options, key)[i].image = options[i].image
              /\ WithMarks(options, key)[i].correct = (options[i].id \in key)
<1> DEFINE g == WithMarks(options, key)
<1>1. g = [i \in DOMAIN options |-> g[i]]
  BY DEF WithMarks
<1>2. \A i \in DOMAIN options :
        g[i] = [id |-> options[i].id, text |-> options[i].text, image |-> options[i].image,
                correct |-> options[i].id \in key]
  BY DEF WithMarks
<1>3. \A i \in DOMAIN options : g[i] \in MarkedOptions
  <2> TAKE i \in DOMAIN options
  <2>1. options[i] \in Options
    OBVIOUS
  <2>2. PICK c : c = (options[i].id \in key)
    OBVIOUS
  <2>3. c \in BOOLEAN
    BY <2>2
  <2>4. g[i] = [id |-> options[i].id, text |-> options[i].text, image |-> options[i].image,
                correct |-> c]
    BY <1>2, <2>2
  <2> HIDE DEF g
  <2> QED  BY <2>1, <2>3, <2>4 DEF Options, MarkedOptions
<1>4. g \in Seq(MarkedOptions) /\ Len(g) = Len(options) /\ DOMAIN g = DOMAIN options
  <2> HIDE DEF g
  <2> QED  BY <1>1, <1>3, SequenceOf
<1> QED  BY <1>2, <1>4
-----------------------------------------------------------------------------
(* What the server let in can start.                                       *)

LEMMA MarkedKey ==
  ASSUME NEW options \in Seq(Options), NEW key,
         key \subseteq {options[i].id : i \in DOMAIN options}
  PROVE  SetOf(WithMarks(options, key)) = key
<1> DEFINE g == WithMarks(options, key)
<1>1. DOMAIN g = DOMAIN options /\ \A i \in DOMAIN options : g[i].id = options[i].id
                                     /\ g[i].correct = (options[i].id \in key)
  BY MarksAreKnown
<1>2. SetOf(g) = {g[i].id : i \in {n \in DOMAIN g : g[n].correct}}
  BY DEF SetOf, Marked
<1> HIDE DEF g
<1>3. \A x \in SetOf(g) : x \in key
  BY <1>1, <1>2
<1>4. \A x \in key : x \in SetOf(g)
  <2> TAKE x \in key
  <2>1. PICK i \in DOMAIN options : options[i].id = x
    OBVIOUS
  <2> QED  BY <1>1, <1>2, <2>1
<1>5. SetOf(g) = key
  BY <1>3, <1>4
<1> QED  BY <1>5 DEF g

LEMMA StoredQuestion ==
  ASSUME NEW d \in Questions(Options), ServerAccepts(d)
  PROVE  IsSlide(FromTransport(d)) /\ FromTransport(d).kind = "choice"
<1>1. PICK s : s = FromTransport(d)
  OBVIOUS
<1>2. PICK o : o = WithMarks(d.options, d.key)
  OBVIOUS
<1>3. s = [d EXCEPT !.options = o, !.partial = d.type = "multiple" /\ @, !.key = {}]
  BY <1>1, <1>2 DEF FromTransport, Questions
<1>4. d.options \in Seq(Options)
  BY DEF Questions
<1>5. o \in Seq(MarkedOptions) /\ Len(o) = Len(d.options) /\ DOMAIN o = DOMAIN d.options
      /\ \A i \in DOMAIN o : o[i].id = d.options[i].id /\ o[i].text = d.options[i].text
  BY <1>2, <1>4, MarksAreKnown
<1>6. s \in Questions(MarkedOptions) /\ s.key = {}
  BY <1>3, <1>5 DEF Questions
<1>7. ~Blank(d.text) /\ Duration(d.time) /\ ServerAcceptsChoice(d)
  BY DEF ServerAccepts, Questions
<1>8. SetOf(o) = d.key
  <2>1. d.key \subseteq {d.options[i].id : i \in DOMAIN d.options}
    BY <1>7 DEF ServerAcceptsChoice
  <2> QED  BY <1>2, <1>4, <2>1, MarkedKey
<1>9. /\ s.kind = "choice" /\ s.text = d.text /\ s.time = d.time /\ s.options = o
      /\ s.type = d.type /\ s.evaluation = d.evaluation /\ s.scoring = d.scoring
      /\ s.min = d.min /\ s.max = d.max /\ s.faster = d.faster /\ s.board = d.board
      /\ s.partial = (d.type = "multiple" /\ d.partial)
  BY <1>3 DEF Questions
<1>10. Distinct(o)
  BY <1>4, <1>5, <1>7, OptionsDiffer DEF ServerAcceptsChoice
<1>11. ValidScoring(s)
  BY <1>7, <1>9 DEF ServerAcceptsChoice, ValidScoring, Questions
<1>12. LegalKey(SetOf(s.options), s.type, s.evaluation)
  BY <1>7, <1>8, <1>9 DEF ServerAcceptsChoice
<1>13. \A i \in DOMAIN o : ~Blank(o[i].text)
  BY <1>5, <1>7 DEF ServerAcceptsChoice
<1>14. Len(o) \in 2..MaxOptions
  BY <1>5, <1>7 DEF ServerAcceptsChoice
<1>15. ValidQuestion(s)
  BY <1>7, <1>9, <1>10, <1>11, <1>12, <1>13, <1>14 DEF ValidQuestion
<1>16. ~(s.board /\ s.scoring = "none")
  BY <1>7, <1>9 DEF ServerAcceptsChoice
<1> QED  BY <1>1, <1>6, <1>9, <1>15, <1>16 DEF IsSlide, Sketches, ClientAccepts

LEMMA StoredIsSlide ==
  ASSUME NEW d, IsItem(d)
  PROVE  IsSlide(FromTransport(d)) /\ FromTransport(d).kind = d.kind
<1>1. CASE d \in Questions(Options)
  BY <1>1, StoredQuestion DEF IsItem, Questions
<1>2. CASE d \in TextActivities
  <2>1. FromTransport(d) = d /\ d.kind = "text"
    BY <1>2 DEF FromTransport, TextActivities
  <2>2. ValidTextActivity(d)
    BY <2>1 DEF IsItem, ServerAccepts, ServerAcceptsText, ValidTextActivity
  <2> QED  BY <1>2, <2>1, <2>2 DEF IsSlide, ClientAccepts, Sketches
<1>3. CASE d \in Contents
  <2>1. FromTransport(d) = d /\ d.kind = "content"
    BY <1>3 DEF FromTransport, Contents
  <2>2. ValidContent(d)
    BY <2>1 DEF IsItem, ServerAccepts, ValidContent
  <2> QED  BY <1>3, <2>1, <2>2 DEF IsSlide, ClientAccepts, Sketches
<1> QED  BY <1>1, <1>2, <1>3 DEF IsItem, Items
-----------------------------------------------------------------------------
(* What the editor shows can be edited, and saved.                         *)

LEMMA RemarkedOptions ==
  ASSUME NEW f \in Seq(MarkedOptions), NEW places, NEW g, g = Remarked(f, places)
  PROVE  /\ g \in Seq(MarkedOptions) /\ Len(g) = Len(f) /\ DOMAIN g = DOMAIN f
         /\ \A i \in DOMAIN f : /\ g[i].id = f[i].id /\ g[i].text = f[i].text
                                /\ g[i].image = f[i].image
         /\ Marked(g) = {i \in DOMAIN f : i \in places}
<1>1. \A i \in DOMAIN f : /\ g[i] \in MarkedOptions
                          /\ g[i].id = f[i].id /\ g[i].text = f[i].text
                          /\ g[i].image = f[i].image
                          /\ g[i].correct <=> i \in places
  <2> TAKE i \in DOMAIN f
  <2>1. f[i] \in MarkedOptions
    OBVIOUS
  <2>2. PICK c : c = (i \in places)
    OBVIOUS
  <2>3. c \in BOOLEAN
    BY <2>2
  <2>4. g[i] = [f[i] EXCEPT !.correct = c]
    BY <2>2 DEF Remarked
  <2>5. /\ g[i] \in MarkedOptions
        /\ g[i].id = f[i].id /\ g[i].text = f[i].text
        /\ g[i].image = f[i].image
        /\ g[i].correct = c
    BY <2>1, <2>3, <2>4 DEF MarkedOptions
  <2> QED  BY <2>2, <2>5
<1>2. g = [i \in DOMAIN f |-> g[i]]
  BY DEF Remarked
<1>3. g \in Seq(MarkedOptions) /\ Len(g) = Len(f) /\ DOMAIN g = DOMAIN f
  BY <1>1, <1>2, SequenceOf
<1>4. Marked(g) = {i \in DOMAIN f : i \in places}
  BY <1>1, <1>3 DEF Marked
<1> QED  BY <1>1, <1>3, <1>4

LEMMA CountingOptions ==
  ASSUME NEW f \in Seq(MarkedOptions), NEW evaluation, NEW g, g = Counting(f, evaluation)
  PROVE  /\ g \in Seq(MarkedOptions) /\ Len(g) = Len(f) /\ DOMAIN g = DOMAIN f
         /\ \A i \in DOMAIN f : /\ g[i].id = f[i].id /\ g[i].text = f[i].text
                                /\ g[i].image = f[i].image
         /\ Marked(g) = IF evaluation = "correctness" THEN Marked(f) ELSE {}
<1>1. PICK places : places = IF evaluation = "correctness" THEN Marked(f) ELSE {}
  OBVIOUS
<1>2. g = Remarked(f, places)
  BY <1>1 DEF Counting
<1>3. /\ g \in Seq(MarkedOptions) /\ Len(g) = Len(f) /\ DOMAIN g = DOMAIN f
      /\ \A i \in DOMAIN f : /\ g[i].id = f[i].id /\ g[i].text = f[i].text
                             /\ g[i].image = f[i].image
      /\ Marked(g) = {i \in DOMAIN f : i \in places}
  BY <1>2, RemarkedOptions
<1>4. places \subseteq DOMAIN f
  BY <1>1 DEF Marked
<1> QED  BY <1>1, <1>3, <1>4

LEMMA DraftQuestion ==
  ASSUME NEW s \in Questions(MarkedOptions), IsSlide(s)
  PROVE  IsSketch(DraftOf(s)) /\ DraftOf(s).kind = "choice"
<1>1. PICK w : w = DraftOf(s)
  OBVIOUS
<1>2. PICK o : o = Counting(s.options, s.evaluation)
  OBVIOUS
<1>3. s.kind = "choice" /\ s.options \in Seq(MarkedOptions)
  BY DEF Questions
<1>4. w = [s EXCEPT !.board = s.scoring = "points" /\ @, !.partial = s.type = "multiple" /\ @,
                    !.options = o]
  BY <1>1, <1>2, <1>3 DEF DraftOf
<1>5. /\ o \in Seq(MarkedOptions)
      /\ Marked(o) = IF s.evaluation = "correctness" THEN Marked(s.options) ELSE {}
  BY <1>2, <1>3, CountingOptions
<1>6. w \in Questions(MarkedOptions)
  BY <1>4, <1>5 DEF Questions
<1>7. /\ w.kind = "choice" /\ w.key = s.key /\ w.scoring = s.scoring /\ w.type = s.type
      /\ w.evaluation = s.evaluation /\ w.min = s.min /\ w.max = s.max /\ w.faster = s.faster
      /\ w.board = (s.scoring = "points" /\ s.board)
      /\ w.partial = (s.type = "multiple" /\ s.partial)
      /\ w.options = o
  BY <1>4 DEF Questions
<1>8. ValidScoring(s) /\ s.key = {}
  BY <1>3 DEF IsSlide, ClientAccepts, ValidQuestion
<1>9. s.scoring \in {"none", "points"} /\ s.type \in {"single", "multiple"}
  BY DEF Questions
<1>10. w.scoring = "none" => w.min = 0 /\ w.max = 0 /\ ~w.faster /\ ~w.board
  BY <1>7, <1>8, <1>9 DEF ValidScoring
<1>11. w.partial => w.scoring = "points" /\ w.type = "multiple"
  BY <1>7, <1>8, <1>9 DEF ValidScoring
<1>12. w.evaluation = "none" => Marked(w.options) = {}
  BY <1>5, <1>7
<1> QED  BY <1>1, <1>6, <1>7, <1>8, <1>10, <1>11, <1>12 DEF IsSketch, Sketches

LEMMA SlideIsSketched ==
  ASSUME NEW s, IsSlide(s)
  PROVE  IsSketch(DraftOf(s)) /\ DraftOf(s).kind = s.kind
<1>1. CASE s \in Questions(MarkedOptions)
  BY <1>1, DraftQuestion DEF Questions
<1>2. CASE s \in TextActivities
  <2>1. s.kind = "text"
    BY <1>2 DEF TextActivities
  <2>2. DraftOf(s) \in TextActivities
    <3>1. PICK l : l = IF s.length = 0 THEN 80 ELSE s.length
      OBVIOUS
    <3>2. PICK n : n = IF s.words = 0 THEN 3 ELSE s.words
      OBVIOUS
    <3>3. PICK t : t = IF s.time = 0 THEN 30 ELSE s.time
      OBVIOUS
    <3>4. l \in Int /\ n \in Int /\ t \in Int
      BY <1>2, <3>1, <3>2, <3>3 DEF TextActivities
    <3>5. DraftOf(s) = [s EXCEPT !.length = l, !.words = n, !.time = t]
      BY <2>1, <3>1, <3>2, <3>3 DEF DraftOf
    <3> QED  BY <1>2, <3>4, <3>5 DEF TextActivities
  <2> QED  BY <2>1, <2>2 DEF IsSketch, Sketches, TextActivities
<1>3. CASE s \in Contents
  <2>1. DraftOf(s) = s /\ s.kind = "content"
    BY <1>3 DEF DraftOf, Contents
  <2> QED  BY <1>3, <2>1 DEF IsSketch, Sketches
<1> QED  BY <1>1, <1>2, <1>3 DEF IsSlide, Sketches
-----------------------------------------------------------------------------
(* What the editor sends the server accepts.                               *)

LEMMA TrimmedOptions ==
  ASSUME NEW f \in Seq(MarkedOptions), NEW g, g = Trimmed(f)
  PROVE  /\ g \in Seq(MarkedOptions) /\ Len(g) = Len(f) /\ DOMAIN g = DOMAIN f
         /\ \A i \in DOMAIN f : /\ g[i].id = f[i].id /\ g[i].text = Trim[f[i].text]
                                /\ g[i].image = f[i].image /\ g[i].correct = f[i].correct
         /\ Marked(g) = Marked(f)
<1>1. \A i \in DOMAIN f : /\ g[i] \in MarkedOptions
                          /\ g[i].id = f[i].id /\ g[i].text = Trim[f[i].text]
                          /\ g[i].image = f[i].image
                          /\ g[i].correct = f[i].correct
  <2> TAKE i \in DOMAIN f
  <2>1. f[i] \in MarkedOptions
    OBVIOUS
  <2>2. PICK t : t = Trim[f[i].text]
    OBVIOUS
  <2>3. t \in DraftTexts
    BY <2>1, <2>2 DEF Trim, DraftTexts, MarkedOptions
  <2>4. g[i] = [f[i] EXCEPT !.text = t]
    BY <2>2 DEF Trimmed
  <2>5. /\ g[i] \in MarkedOptions
        /\ g[i].id = f[i].id /\ g[i].text = t
        /\ g[i].image = f[i].image
        /\ g[i].correct = f[i].correct
    BY <2>1, <2>3, <2>4 DEF MarkedOptions
  <2> QED  BY <2>2, <2>5
<1>2. g = [i \in DOMAIN f |-> g[i]]
  BY DEF Trimmed
<1>3. g \in Seq(MarkedOptions) /\ Len(g) = Len(f) /\ DOMAIN g = DOMAIN f
  BY <1>1, <1>2, SequenceOf
<1>4. Marked(g) = Marked(f)
  BY <1>1, <1>3 DEF Marked
<1> QED  BY <1>1, <1>3, <1>4

LEMMA TrimsOnce ==
  ASSUME NEW t \in DraftTexts
  PROVE  Trim[t] \in DraftTexts /\ Trim[Trim[t]] = Trim[t] /\ (Blank(Trim[t]) <=> Blank(t))
<1>1. Trim[t] \in {"", "word"}
  BY DEF Trim, DraftTexts
<1>2. \A u \in {"", "word"} : u \in DraftTexts /\ Trim[u] = u
  BY DEF Trim, DraftTexts
<1> QED  BY <1>1, <1>2 DEF Blank

LEMMA UnmarkedOptions ==
  ASSUME NEW f \in Seq(MarkedOptions), NEW g, g = Unmarked(f)
  PROVE  /\ g \in Seq(Options) /\ Len(g) = Len(f) /\ DOMAIN g = DOMAIN f
         /\ \A i \in DOMAIN f : /\ g[i].id = f[i].id /\ g[i].text = f[i].text
                                /\ g[i].image = f[i].image
<1>1. \A i \in DOMAIN f : /\ g[i] \in Options
                          /\ g[i].id = f[i].id /\ g[i].text = f[i].text
                          /\ g[i].image = f[i].image
  <2> TAKE i \in DOMAIN f
  <2>1. f[i] \in MarkedOptions
    OBVIOUS
  <2>2. g[i] = [id |-> f[i].id, text |-> f[i].text, image |-> f[i].image]
    BY DEF Unmarked
  <2> QED  BY <2>1, <2>2 DEF MarkedOptions, Options
<1>2. g = [i \in DOMAIN f |-> g[i]]
  BY DEF Unmarked
<1>3. g \in Seq(Options) /\ Len(g) = Len(f) /\ DOMAIN g = DOMAIN f
  BY <1>1, <1>2, SequenceOf
<1> QED  BY <1>1, <1>3

\* The definition that is made of a question, field by field.
LEMMA TransportOf ==
  ASSUME NEW s \in Questions(MarkedOptions), NEW d, d = ToDefinition(s)
  PROVE  /\ d \in Questions(Options)
         /\ d.text = s.text /\ d.image = s.image /\ d.type = s.type /\ d.time = s.time
         /\ d.evaluation = s.evaluation /\ d.scoring = s.scoring
         /\ d.key = IF s.evaluation = "none" THEN {} ELSE SetOf(s.options)
         /\ d.min = IF s.scoring # "none" THEN s.min ELSE 0
         /\ d.max = IF s.scoring # "none" THEN s.max ELSE 0
         /\ d.faster <=> s.scoring # "none" /\ s.faster
         /\ d.board <=> s.scoring # "none" /\ s.board
         /\ d.partial <=> s.scoring # "none" /\ s.type = "multiple" /\ s.partial
         /\ d.options = Unmarked(s.options)
<1>1. s.kind = "choice" /\ s.options \in Seq(MarkedOptions)
  BY DEF Questions
<1>2. PICK o : o = Unmarked(s.options)
  OBVIOUS
<1>3. PICK k : k = IF s.evaluation = "none" THEN {} ELSE SetOf(s.options)
  OBVIOUS
<1>4. PICK least : least = IF s.scoring # "none" THEN s.min ELSE 0
  OBVIOUS
<1>5. PICK most : most = IF s.scoring # "none" THEN s.max ELSE 0
  OBVIOUS
<1>6. PICK f : f = (s.scoring # "none" /\ s.faster)
  OBVIOUS
<1>7. PICK b : b = (s.scoring # "none" /\ s.board)
  OBVIOUS
<1>8. PICK p : p = (s.scoring # "none" /\ s.type = "multiple" /\ s.partial)
  OBVIOUS
<1>9. f \in BOOLEAN /\ b \in BOOLEAN /\ p \in BOOLEAN
  BY <1>6, <1>7, <1>8
<1>10. least \in Int /\ most \in Int
  BY <1>4, <1>5 DEF Questions
<1>11. k \in SUBSET OptionNames
  <2>1. SetOf(s.options) \subseteq OptionNames
    <3> SUFFICES ASSUME NEW x \in SetOf(s.options) PROVE x \in OptionNames
      OBVIOUS
    <3>1. PICK i \in DOMAIN s.options : x = s.options[i].id
      BY DEF SetOf, Marked
    <3>2. s.options[i] \in MarkedOptions
      BY <1>1
    <3> QED  BY <3>1, <3>2 DEF MarkedOptions
  <2> QED  BY <1>3, <2>1
<1>12. o \in Seq(Options)
  BY <1>1, <1>2, UnmarkedOptions
<1>13. d = [s EXCEPT !.key = k, !.min = least, !.max = most, !.faster = f, !.board = b,
                     !.partial = p, !.options = o]
  BY <1>1, <1>2, <1>3, <1>4, <1>5, <1>6, <1>7, <1>8 DEF ToDefinition
<1>14. d \in Questions(Options)
  BY <1>9, <1>10, <1>11, <1>12, <1>13 DEF Questions
<1>15. /\ d.text = s.text /\ d.image = s.image /\ d.type = s.type /\ d.time = s.time
       /\ d.evaluation = s.evaluation /\ d.scoring = s.scoring
       /\ d.key = k /\ d.min = least /\ d.max = most /\ d.faster = f /\ d.board = b
       /\ d.partial = p /\ d.options = o
  BY <1>13 DEF Questions
<1> QED  BY <1>2, <1>3, <1>4, <1>5, <1>6, <1>7, <1>8, <1>14, <1>15

\* What the editor calls valid, the server accepts.
LEMMA ValidIsAccepted ==
  ASSUME NEW s \in Questions(MarkedOptions), ValidQuestion(s)
  PROVE  IsItem(ToDefinition(s)) /\ ToDefinition(s).kind = "choice"
<1>1. PICK d : d = ToDefinition(s)
  OBVIOUS
<1>2. PICK o : o = Unmarked(s.options)
  OBVIOUS
<1>3. s.options \in Seq(MarkedOptions)
  BY DEF Questions
<1>4. /\ d \in Questions(Options)
      /\ d.text = s.text /\ d.type = s.type /\ d.time = s.time
      /\ d.evaluation = s.evaluation /\ d.scoring = s.scoring
      /\ d.key = IF s.evaluation = "none" THEN {} ELSE SetOf(s.options)
      /\ d.min = IF s.scoring # "none" THEN s.min ELSE 0
      /\ d.max = IF s.scoring # "none" THEN s.max ELSE 0
      /\ d.faster <=> s.scoring # "none" /\ s.faster
      /\ d.board <=> s.scoring # "none" /\ s.board
      /\ d.partial <=> s.scoring # "none" /\ s.type = "multiple" /\ s.partial
      /\ d.options = o
  BY <1>1, <1>2, TransportOf
<1>5. /\ Len(o) = Len(s.options) /\ DOMAIN o = DOMAIN s.options
      /\ \A i \in DOMAIN s.options : o[i].id = s.options[i].id /\ o[i].text = s.options[i].text
  BY <1>2, <1>3, UnmarkedOptions
<1>6. /\ ~Blank(s.text) /\ Duration(s.time)
      /\ Len(s.options) \in 2..MaxOptions /\ Distinct(s.options)
      /\ \A i \in DOMAIN s.options : ~Blank(s.options[i].text)
      /\ LegalKey(SetOf(s.options), s.type, s.evaluation)
      /\ ValidScoring(s)
  BY DEF ValidQuestion
<1>7. s.scoring \in {"none", "points"} /\ s.evaluation \in {"none", "correctness"}
  BY DEF Questions
<1>8. Distinct(o)
  BY <1>3, <1>5, <1>6, OptionsDiffer
<1>9. d.key \subseteq {o[i].id : i \in DOMAIN o}
  <2>1. SetOf(s.options) \subseteq {o[i].id : i \in DOMAIN o}
    BY <1>5 DEF SetOf, Marked
  <2> QED  BY <1>4, <2>1
<1>10. LegalKey(d.key, d.type, d.evaluation)
  BY <1>4, <1>6, <1>7 DEF LegalKey
<1>11. CASE s.scoring = "none"
  <2>1. d.min = 0 /\ d.max = 0 /\ ~d.faster /\ ~d.partial /\ ~d.board
    BY <1>4, <1>11
  <2>2. ServerAcceptsChoice(d)
    BY <1>4, <1>5, <1>6, <1>8, <1>9, <1>10, <1>11, <2>1 DEF ServerAcceptsChoice
  <2> QED  BY <1>1, <1>4, <1>6, <2>2 DEF IsItem, Items, ServerAccepts, Questions
<1>12. CASE s.scoring = "points"
  <2>1. d.evaluation = "correctness" /\ 0 <= d.min /\ 1 <= d.max /\ d.min <= d.max
    BY <1>4, <1>6, <1>12 DEF ValidScoring
  <2>2. ~(d.type = "single" /\ d.partial)
    BY <1>4
  <2>3. ServerAcceptsChoice(d)
    BY <1>4, <1>5, <1>6, <1>8, <1>9, <1>10, <1>12, <2>1, <2>2 DEF ServerAcceptsChoice
  <2> QED  BY <1>1, <1>4, <1>6, <2>3 DEF IsItem, Items, ServerAccepts, Questions
<1> QED  BY <1>7, <1>11, <1>12

\* The scoring policy of what was edited, field by field.
LEMMA QuestionedOf ==
  ASSUME NEW w \in Questions(MarkedOptions), NEW q, q = Questioned(w)
  PROVE  /\ q \in Questions(MarkedOptions)
         /\ q.text = w.text /\ q.image = w.image /\ q.type = w.type /\ q.time = w.time
         /\ q.evaluation = w.evaluation /\ q.scoring = w.scoring /\ q.key = w.key
         /\ q.min = IF w.scoring = "points" THEN w.min ELSE 0
         /\ q.max = IF w.scoring = "points" THEN w.max ELSE 0
         /\ q.faster <=> w.scoring = "points" /\ w.faster
         /\ q.board <=> w.board
         /\ q.partial <=> w.scoring = "points" /\ w.type = "multiple" /\ w.partial
         /\ q.options = Counting(w.options, w.evaluation)
<1>1. w.options \in Seq(MarkedOptions)
  BY DEF Questions
<1>2. PICK o : o = Counting(w.options, w.evaluation)
  OBVIOUS
<1>3. PICK least : least = IF w.scoring = "points" THEN w.min ELSE 0
  OBVIOUS
<1>4. PICK most : most = IF w.scoring = "points" THEN w.max ELSE 0
  OBVIOUS
<1>5. PICK f : f = (w.scoring = "points" /\ w.faster)
  OBVIOUS
<1>6. PICK p : p = (w.scoring = "points" /\ w.type = "multiple" /\ w.partial)
  OBVIOUS
<1>7. f \in BOOLEAN /\ p \in BOOLEAN
  BY <1>5, <1>6
<1>8. least \in Int /\ most \in Int
  BY <1>3, <1>4 DEF Questions
<1>9. o \in Seq(MarkedOptions)
  BY <1>1, <1>2, CountingOptions
<1>10. q = [w EXCEPT !.min = least, !.max = most, !.faster = f, !.partial = p, !.options = o]
  BY <1>2, <1>3, <1>4, <1>5, <1>6 DEF Questioned
<1>11. q \in Questions(MarkedOptions)
  BY <1>7, <1>8, <1>9, <1>10 DEF Questions
<1>12. /\ q.text = w.text /\ q.image = w.image /\ q.type = w.type /\ q.time = w.time
       /\ q.evaluation = w.evaluation /\ q.scoring = w.scoring /\ q.key = w.key
       /\ q.min = least /\ q.max = most /\ q.faster = f /\ q.board = w.board
       /\ q.partial = p /\ q.options = o
  BY <1>10 DEF Questions
<1> QED  BY <1>2, <1>3, <1>4, <1>5, <1>6, <1>11, <1>12

LEMMA EditedOf ==
  ASSUME NEW w \in Questions(MarkedOptions), NEW s, s = ToEditorSlide(w)
  PROVE  /\ s \in Questions(MarkedOptions)
         /\ s.text = Trim[w.text] /\ s.image = w.image /\ s.type = w.type /\ s.time = w.time
         /\ s.evaluation = w.evaluation /\ s.scoring = w.scoring /\ s.key = w.key
         /\ s.min = IF w.scoring = "points" THEN w.min ELSE 0
         /\ s.max = IF w.scoring = "points" THEN w.max ELSE 0
         /\ s.faster <=> w.scoring = "points" /\ w.faster
         /\ s.board <=> w.scoring = "points" /\ w.board
         /\ s.partial <=> w.scoring = "points" /\ w.type = "multiple" /\ w.partial
         /\ s.options = Trimmed(Counting(w.options, w.evaluation))
<1>1. w.kind = "choice" /\ w.text \in DraftTexts
  BY DEF Questions
<1>2. PICK q : q = Questioned(w)
  OBVIOUS
<1>3. /\ q \in Questions(MarkedOptions)
      /\ q.text = w.text /\ q.image = w.image /\ q.type = w.type /\ q.time = w.time
      /\ q.evaluation = w.evaluation /\ q.scoring = w.scoring /\ q.key = w.key
      /\ q.min = IF w.scoring = "points" THEN w.min ELSE 0
      /\ q.max = IF w.scoring = "points" THEN w.max ELSE 0
      /\ q.faster <=> w.scoring = "points" /\ w.faster
      /\ q.board <=> w.board
      /\ q.partial <=> w.scoring = "points" /\ w.type = "multiple" /\ w.partial
      /\ q.options = Counting(w.options, w.evaluation)
  BY <1>2, QuestionedOf
<1>4. PICK t : t = Trim[q.text]
  OBVIOUS
<1>5. PICK o : o = Trimmed(q.options)
  OBVIOUS
<1>6. PICK b : b = (w.scoring = "points" /\ q.board)
  OBVIOUS
<1>7. b \in BOOLEAN
  BY <1>6
<1>8. t \in DraftTexts
  BY <1>1, <1>3, <1>4, TrimsOnce
<1>9. o \in Seq(MarkedOptions)
  <2>1. q.options \in Seq(MarkedOptions)
    BY <1>3 DEF Questions
  <2> QED  BY <1>5, <2>1, TrimmedOptions
<1>10. s = [q EXCEPT !.text = t, !.board = b, !.options = o]
  BY <1>1, <1>2, <1>4, <1>5, <1>6 DEF ToEditorSlide
<1>11. s \in Questions(MarkedOptions)
  BY <1>3, <1>7, <1>8, <1>9, <1>10 DEF Questions
<1>12. /\ s.text = t /\ s.image = q.image /\ s.type = q.type /\ s.time = q.time
       /\ s.evaluation = q.evaluation /\ s.scoring = q.scoring /\ s.key = q.key
       /\ s.min = q.min /\ s.max = q.max /\ s.faster = q.faster /\ s.board = b
       /\ s.partial = q.partial /\ s.options = o
  BY <1>3, <1>10 DEF Questions
<1> QED  BY <1>3, <1>4, <1>5, <1>6, <1>11, <1>12

\* Nothing that is valid as it was typed becomes invalid when it is trimmed.
LEMMA TrimmedIsValid ==
  ASSUME NEW w \in Questions(MarkedOptions), ValidQuestion(Questioned(w))
  PROVE  ValidQuestion(ToEditorSlide(w))
<1>1. PICK q : q = Questioned(w)
  OBVIOUS
<1>2. PICK s : s = ToEditorSlide(w)
  OBVIOUS
<1>3. /\ q \in Questions(MarkedOptions)
      /\ q.text = w.text /\ q.type = w.type /\ q.time = w.time
      /\ q.evaluation = w.evaluation /\ q.scoring = w.scoring
      /\ q.min = IF w.scoring = "points" THEN w.min ELSE 0
      /\ q.max = IF w.scoring = "points" THEN w.max ELSE 0
      /\ q.faster <=> w.scoring = "points" /\ w.faster
      /\ q.partial <=> w.scoring = "points" /\ w.type = "multiple" /\ w.partial
      /\ q.options = Counting(w.options, w.evaluation)
  BY <1>1, QuestionedOf
<1>4. /\ s.text = Trim[w.text] /\ s.type = w.type /\ s.time = w.time
      /\ s.evaluation = w.evaluation /\ s.scoring = w.scoring
      /\ s.min = IF w.scoring = "points" THEN w.min ELSE 0
      /\ s.max = IF w.scoring = "points" THEN w.max ELSE 0
      /\ s.faster <=> w.scoring = "points" /\ w.faster
      /\ s.partial <=> w.scoring = "points" /\ w.type = "multiple" /\ w.partial
      /\ s.options = Trimmed(q.options)
  BY <1>2, <1>3, EditedOf
<1>5. PICK f : f = q.options
  OBVIOUS
<1>6. PICK g : g = Trimmed(f)
  OBVIOUS
<1>7. f \in Seq(MarkedOptions)
  BY <1>3, <1>5 DEF Questions
<1>8. /\ Len(g) = Len(f) /\ DOMAIN g = DOMAIN f
      /\ \A i \in DOMAIN f : g[i].id = f[i].id /\ g[i].text = Trim[f[i].text]
      /\ Marked(g) = Marked(f)
  BY <1>6, <1>7, TrimmedOptions
<1>9. /\ ~Blank(q.text) /\ Duration(q.time)
      /\ Len(f) \in 2..MaxOptions /\ Distinct(f)
      /\ \A i \in DOMAIN f : ~Blank(f[i].text)
      /\ LegalKey(SetOf(f), q.type, q.evaluation)
      /\ ValidScoring(q)
  BY <1>1, <1>5 DEF ValidQuestion
<1>10. ~Blank(s.text)
  BY <1>3, <1>4, <1>9, TrimsOnce DEF Questions
<1>11. \A i \in DOMAIN g : ~Blank(g[i].text)
  <2> TAKE i \in DOMAIN g
  <2>1. f[i] \in MarkedOptions
    BY <1>7, <1>8
  <2> QED  BY <1>8, <1>9, <2>1, TrimsOnce DEF MarkedOptions
<1>12. Distinct(g)
  BY <1>7, <1>8, <1>9, OptionsDiffer
<1>13. SetOf(g) = SetOf(f)
  <2>1. \A i \in Marked(f) : g[i].id = f[i].id
    BY <1>8 DEF Marked
  <2> QED  BY <1>8, <2>1 DEF SetOf
<1>14. ValidScoring(s)
  BY <1>3, <1>4, <1>9 DEF ValidScoring
<1>15. s.options = g
  BY <1>4, <1>5, <1>6
<1> QED  BY <1>2, <1>3, <1>4, <1>8, <1>9, <1>10, <1>11, <1>12, <1>13, <1>14, <1>15 DEF ValidQuestion

LEMMA SavedIsAccepted ==
  ASSUME NEW w, IsSketch(w), SketchIsValid(w)
  PROVE  IsItem(ToDefinition(ToEditorSlide(w))) /\ ToDefinition(ToEditorSlide(w)).kind = w.kind
<1>1. CASE w \in Questions(MarkedOptions)
  <2>1. w.kind = "choice"
    BY <1>1 DEF Questions
  <2>2. ValidQuestion(ToEditorSlide(w))
    BY <1>1, <2>1, TrimmedIsValid DEF SketchIsValid
  <2>3. ToEditorSlide(w) \in Questions(MarkedOptions)
    BY <1>1, EditedOf
  <2> QED  BY <2>1, <2>2, <2>3, ValidIsAccepted
<1>2. CASE w \in TextActivities
  <2>1. w.kind = "text" /\ ToDefinition(ToEditorSlide(w)) = w
    BY <1>2 DEF TextActivities, ToDefinition, ToEditorSlide
  <2>2. ValidTextActivity(w)
    BY <2>1 DEF SketchIsValid
  <2>3. ServerAccepts(w)
    BY <2>1, <2>2 DEF ValidTextActivity, ServerAccepts, ServerAcceptsText
  <2> QED  BY <1>2, <2>1, <2>3 DEF IsItem, Items
<1>3. CASE w \in Contents
  <2>1. w.kind = "content" /\ ToDefinition(ToEditorSlide(w)) = w
    BY <1>3 DEF Contents, ToDefinition, ToEditorSlide
  <2>2. ValidContent(w)
    BY <2>1 DEF SketchIsValid
  <2>3. ServerAccepts(w)
    BY <2>1, <2>2 DEF ValidContent, ServerAccepts
  <2> QED  BY <1>3, <2>1, <2>3 DEF IsItem, Items
<1> QED  BY <1>1, <1>2, <1>3 DEF IsSketch, Sketches
-----------------------------------------------------------------------------
(* New slides and conversions.                                             *)

LEMMA NewQuestionIsValid ==
  ASSUME NEW type \in {"single", "multiple"}, NEW choice \in TypeChoices
  PROVE  /\ NewQuestion(type, Policy(choice)) \in Questions(MarkedOptions)
         /\ ValidQuestion(NewQuestion(type, Policy(choice)))
<1>1. PICK v : v = Policy(choice).evaluation
  OBVIOUS
<1>2. PICK c : c = Policy(choice).scoring
  OBVIOUS
<1>3. \/ v = "none" /\ c = "none"
      \/ v = "correctness" /\ c = "points"
  BY <1>1, <1>2 DEF Policy
<1>4. PICK m : m = (v = "correctness")
  OBVIOUS
<1>5. m \in BOOLEAN
  BY <1>4
<1>6. PICK most : most = IF c = "points" THEN 100 ELSE 0
  OBVIOUS
<1>7. PICK a : a = [id |-> "o1", text |-> "word", image |-> "", correct |-> m]
  OBVIOUS
<1>8. PICK b : b = [id |-> "o2", text |-> "word", image |-> "", correct |-> FALSE]
  OBVIOUS
<1>9. PICK o : o = <<a, b>>
  OBVIOUS
<1>10. PICK q : q = NewQuestion(type, Policy(choice))
  OBVIOUS
<1>11. q = [kind |-> "choice", text |-> "word", image |-> "", type |-> type, key |-> {},
            evaluation |-> v, scoring |-> c, time |-> 10, min |-> 0, max |-> most,
            faster |-> FALSE, partial |-> FALSE, board |-> FALSE, options |-> o]
  BY <1>1, <1>2, <1>4, <1>6, <1>7, <1>8, <1>9, <1>10 DEF NewQuestion
<1>12. a \in MarkedOptions /\ b \in MarkedOptions
  BY <1>5, <1>7, <1>8, DraftsAssumption DEF MarkedOptions, DraftTexts, Images
<1>13. o \in Seq(MarkedOptions) /\ Len(o) = 2 /\ DOMAIN o = 1..2 /\ o[1] = a /\ o[2] = b
  BY <1>9, <1>12
<1>13a. /\ o[1].id = "o1" /\ o[1].text = "word" /\ o[1].correct = m
       /\ o[2].id = "o2" /\ o[2].text = "word" /\ o[2].correct = FALSE
  <2>1. a.id = "o1" /\ a.text = "word" /\ a.correct = m
    BY <1>7
  <2>2. b.id = "o2" /\ b.text = "word" /\ b.correct = FALSE
    BY <1>8
  <2> QED  BY <1>13, <2>1, <2>2
<1>13b. \A i \in DOMAIN o : i = 1 \/ i = 2
  BY <1>13
<1>14. q \in Questions(MarkedOptions)
  <2>1. most \in Int /\ 10 \in Int /\ 0 \in Int
    BY <1>6
  <2>2. "word" \in DraftTexts /\ "" \in Images
    BY DEF DraftTexts, Images
  <2>3. v \in {"none", "correctness"} /\ c \in {"none", "points"}
    BY <1>3
  <2>4. {} \in SUBSET OptionNames /\ FALSE \in BOOLEAN
    OBVIOUS
  <2>5. o \in Seq(MarkedOptions)
    BY <1>13
  <2>6. PICK none : none = {}
    OBVIOUS
  <2>7. PICK no : no = FALSE
    OBVIOUS
  <2>8. PICK ten : ten = 10
    OBVIOUS
  <2>9. PICK zero : zero = 0
    OBVIOUS
  <2>10. q = [kind |-> "choice", text |-> "word", image |-> "", type |-> type, key |-> none,
              evaluation |-> v, scoring |-> c, time |-> ten, min |-> zero, max |-> most,
              faster |-> no, partial |-> no, board |-> no, options |-> o]
    BY <1>11, <2>6, <2>7, <2>8, <2>9
  <2>11. none \in SUBSET OptionNames /\ no \in BOOLEAN /\ ten \in Int /\ zero \in Int
    <3>1. none \in SUBSET OptionNames
      BY <2>6
    <3>2. no \in BOOLEAN
      BY <2>7
    <3>3. ten \in Int /\ zero \in Int
      BY <2>8, <2>9
    <3> QED  BY <3>1, <3>2, <3>3
  <2> QED  BY <2>1, <2>2, <2>3, <2>5, <2>10, <2>11 DEF Questions
<1>15. /\ q.text = "word" /\ q.type = type /\ q.evaluation = v /\ q.scoring = c /\ q.time = 10
       /\ q.min = 0 /\ q.max = most /\ q.faster = FALSE /\ q.partial = FALSE /\ q.options = o
  BY <1>11
<1>16. ~Blank("word")
  BY DEF Blank, Trim, DraftTexts
<1>17. Len(o) \in 2..MaxOptions
  BY <1>13, DraftsAssumption
<1>18. Distinct(o)
  BY <1>13a, <1>13b DEF Distinct
<1>19. \A i \in DOMAIN o : ~Blank(o[i].text)
  BY <1>16, <1>13a, <1>13b
<1>20. SetOf(o) = IF m THEN {"o1"} ELSE {}
  <2>1. Marked(o) = IF m THEN {1} ELSE {}
    <3>1. 1 \in DOMAIN o
      BY <1>13
    <3>2. CASE m
      <4>1. \A i : i \in Marked(o) <=> i = 1
        BY <1>13a, <1>13b, <3>1, <3>2 DEF Marked
      <4> QED  BY <3>2, <4>1
    <3>3. CASE ~m
      <4>1. \A i : i \notin Marked(o)
        BY <1>13a, <1>13b, <3>3 DEF Marked
      <4> QED  BY <3>3, <4>1
    <3> QED  BY <3>2, <3>3
  <2> QED  BY <1>13a, <2>1 DEF SetOf
<1>21. LegalKey(SetOf(o), type, v)
  BY <1>3, <1>4, <1>20, FS_Singleton DEF LegalKey
<1>22. ValidScoring(q)
  BY <1>3, <1>6, <1>15 DEF ValidScoring
<1>23. Duration(10)
  BY DEF Duration, MaxDuration
<1>24. ValidQuestion(q)
  BY <1>15, <1>16, <1>17, <1>18, <1>19, <1>21, <1>22, <1>23 DEF ValidQuestion
<1> QED  BY <1>10, <1>14, <1>24

LEMMA NewIsAccepted ==
  ASSUME NEW choice \in TypeChoices
  PROVE  IsItem(ToDefinition(NewSlide(choice)))
<1>1. CASE choice = "content"
  <2>1. PICK n : n = NewContent
    OBVIOUS
  <2>2. ToDefinition(NewSlide(choice)) = n
    BY <1>1, <2>1 DEF NewSlide, NewContent, ToDefinition
  <2>3. n \in Contents
    BY <2>1 DEF NewContent, Contents, DraftTexts, Images
  <2>4. ServerAccepts(n)
    BY <2>1 DEF NewContent, ServerAccepts, Blank, Trim, DraftTexts
  <2> QED  BY <2>2, <2>3, <2>4 DEF IsItem, Items
<1>2. CASE choice = "word-cloud"
  <2>1. PICK n : n = NewTextActivity
    OBVIOUS
  <2>2. ToDefinition(NewSlide(choice)) = n
    BY <1>2, <2>1 DEF NewSlide, NewTextActivity, ToDefinition
  <2>3. n \in TextActivities
    <3>1. PICK l \in Int, k \in Int, t \in Int : l = 80 /\ k = 3 /\ t = 30
      OBVIOUS
    <3>2. n = [kind |-> "text", title |-> "", text |-> "word", image |-> "", length |-> l,
               words |-> k, time |-> t]
      BY <2>1, <3>1 DEF NewTextActivity
    <3>3. "" \in DraftTexts /\ "word" \in DraftTexts /\ "" \in Images
      BY DEF DraftTexts, Images
    <3> QED  BY <3>2, <3>3 DEF TextActivities
  <2>4. ~Blank(n.text) /\ Duration(n.time) /\ ServerAcceptsText(n) /\ n.kind = "text"
    <3>1. n.text = "word" /\ n.time = 30 /\ n.length = 80 /\ n.words = 3 /\ n.kind = "text"
      BY <2>1 DEF NewTextActivity
    <3>2. ~Blank("word")
      BY DEF Blank, Trim, DraftTexts
    <3> QED  BY <3>1, <3>2 DEF ServerAcceptsText, Duration, MaxDuration, MaxLength
  <2>5. ServerAccepts(n)
    BY <2>4 DEF ServerAccepts
  <2> QED  BY <2>2, <2>3, <2>5 DEF IsItem, Items
<1>3. CASE choice \notin {"content", "word-cloud"}
  <2>1. SelectionOf(choice) \in {"single", "multiple"}
    BY DEF SelectionOf
  <2>2. NewSlide(choice) = NewQuestion(SelectionOf(choice), Policy(choice))
    BY <1>3 DEF NewSlide
  <2> QED  BY <2>1, <2>2, NewQuestionIsValid, ValidIsAccepted
<1> QED  BY <1>1, <1>2, <1>3

\* A set of numbers has a least one.
LEMMA LeastNumber ==
  ASSUME NEW S, S \subseteq Nat, S # {}
  PROVE  \E m \in S : \A n \in S : m <= n
<1> DEFINE R == {p \in Nat \X Nat : p[1] < p[2]}
<1>1. IsWellFoundedOn(R, Nat)
  BY NatLessThanWellFounded DEF OpToRel
<1>2. PICK m \in S : \A n \in S : <<n, m>> \notin R
  <2> HIDE DEF R
  <2> QED  BY <1>1, WFMin
<1>3. \A n \in S : ~(n < m)
  BY <1>2
<1> QED  BY <1>3

LEMMA FirstIsAPlace ==
  ASSUME NEW o \in Seq(MarkedOptions), Len(o) >= 2
  PROVE  FirstMarked(o) \in DOMAIN o
<1>1. DOMAIN o = 1..Len(o) /\ Len(o) \in Nat
  OBVIOUS
<1>2. Marked(o) \subseteq 1..Len(o)
  BY <1>1 DEF Marked
<1>3. CASE Marked(o) = {}
  BY <1>1, <1>3 DEF FirstMarked
<1>4. CASE Marked(o) # {}
  <2>1. \E i \in Marked(o) : \A j \in Marked(o) : i <= j
    <3>1. PICK n \in Nat : n \in Marked(o)
      BY <1>1, <1>2, <1>4
    <3>2. Marked(o) \in SUBSET Nat
      BY <1>2
    <3> QED  BY <3>1, <3>2, <1>4, LeastNumber
  <2>2. FirstMarked(o) \in Marked(o)
    BY <1>4, <2>1 DEF FirstMarked
  <2> QED  BY <1>1, <1>2, <2>2
<1> QED  BY <1>3, <1>4

LEMMA ConvertedIsValid ==
  ASSUME NEW s \in Questions(MarkedOptions), IsSlide(s), NEW type \in {"single", "multiple"},
         NEW choice \in TypeChoices
  PROVE  /\ AsQuestion(s, type, Policy(choice)) \in Questions(MarkedOptions)
         /\ ValidQuestion(AsQuestion(s, type, Policy(choice)))
<1>1. PICK v : v = Policy(choice).evaluation
  OBVIOUS
<1>2. PICK c : c = Policy(choice).scoring
  OBVIOUS
<1>3. \/ v = "none" /\ c = "none"
      \/ v = "correctness" /\ c = "points"
  BY <1>1, <1>2 DEF Policy
<1>4. PICK places : places = Places(s, type, Policy(choice))
  OBVIOUS
<1>5. PICK o : o = Remarked(s.options, places)
  OBVIOUS
<1>6. PICK most : most = IF c # "points" THEN 0 ELSE IF s.max = 0 THEN 100 ELSE s.max
  OBVIOUS
<1>7. PICK least : least = IF c # "points" THEN 0 ELSE IF s.min > most THEN most ELSE s.min
  OBVIOUS
<1>8. PICK f : f = (c = "points" /\ s.faster)
  OBVIOUS
<1>9. PICK b : b = (c = "points" /\ s.board)
  OBVIOUS
<1>10. PICK p : p = (c = "points" /\ type = "multiple" /\ s.partial)
  OBVIOUS
<1>11. PICK q : q = AsQuestion(s, type, Policy(choice))
  OBVIOUS
<1>12. q = [s EXCEPT !.type = type, !.evaluation = v, !.scoring = c, !.max = most, !.min = least,
                     !.faster = f, !.board = b, !.partial = p, !.options = o]
  <2>1. PICK policy : policy = Policy(choice)
    OBVIOUS
  <2>2. v = policy.evaluation /\ c = policy.scoring /\ places = Places(s, type, policy)
    BY <1>1, <1>2, <1>4, <2>1
  <2>3. most = MostPoints(s, policy)
    BY <1>6, <2>2 DEF MostPoints
  <2>4. q = AsQuestion(s, type, policy)
    BY <1>11, <2>1
  <2>5. q = [s EXCEPT !.type = type, !.evaluation = policy.evaluation, !.scoring = policy.scoring,
                      !.max = MostPoints(s, policy),
                      !.min = IF policy.scoring # "points" THEN 0
                              ELSE IF @ > MostPoints(s, policy) THEN MostPoints(s, policy) ELSE @,
                      !.faster = policy.scoring = "points" /\ @,
                      !.board = policy.scoring = "points" /\ @,
                      !.partial = policy.scoring = "points" /\ type = "multiple" /\ @,
                      !.options = Remarked(@, Places(s, type, policy))]
    BY <2>4 DEF AsQuestion
  <2> QED  BY <1>5, <1>7, <1>8, <1>9, <1>10, <2>2, <2>3, <2>5
<1>13. s.kind = "choice" /\ s.options \in Seq(MarkedOptions) /\ s.min \in Int /\ s.max \in Int
       /\ s.scoring \in {"none", "points"}
  BY DEF Questions
<1>14. /\ ~Blank(s.text) /\ Duration(s.time)
       /\ Len(s.options) \in 2..MaxOptions /\ Distinct(s.options)
       /\ \A i \in DOMAIN s.options : ~Blank(s.options[i].text)
       /\ ValidScoring(s)
  BY <1>13 DEF IsSlide, ClientAccepts, ValidQuestion
<1>15. /\ o \in Seq(MarkedOptions) /\ Len(o) = Len(s.options) /\ DOMAIN o = DOMAIN s.options
       /\ \A i \in DOMAIN s.options : o[i].id = s.options[i].id /\ o[i].text = s.options[i].text
       /\ Marked(o) = {i \in DOMAIN s.options : i \in places}
  BY <1>5, <1>13, RemarkedOptions
<1>16. f \in BOOLEAN /\ b \in BOOLEAN /\ p \in BOOLEAN
  BY <1>8, <1>9, <1>10
<1>17. least \in Int /\ most \in Int
  BY <1>6, <1>7, <1>13
<1>18. q \in Questions(MarkedOptions)
  <2>1. v \in {"none", "correctness"} /\ c \in {"none", "points"}
    BY <1>3
  <2> QED  BY <1>12, <1>15, <1>16, <1>17, <2>1 DEF Questions
<1>19. /\ q.text = s.text /\ q.time = s.time /\ q.type = type /\ q.evaluation = v
       /\ q.scoring = c /\ q.max = most /\ q.min = least /\ q.faster = f /\ q.board = b
       /\ q.partial = p /\ q.options = o
  BY <1>12 DEF Questions
<1>20. Distinct(o)
  BY <1>13, <1>14, <1>15, OptionsDiffer
<1>21. ValidScoring(q)
  <2>1. 0 <= s.min /\ (s.max = 0 \/ 1 <= s.max)
    BY <1>13, <1>14 DEF ValidScoring
  <2>2. CASE c = "none"
    BY <1>3, <1>6, <1>7, <1>8, <1>10, <1>19, <2>2 DEF ValidScoring
  <2>3. CASE c = "points"
    <3>1. 1 <= most /\ 0 <= least /\ least <= most
      BY <1>6, <1>7, <1>13, <2>1, <2>3
    <3>2. v = "correctness" /\ ~(q.type = "single" /\ q.partial)
      BY <1>3, <1>10, <1>19, <2>3
    <3> QED  BY <1>19, <2>3, <3>1, <3>2 DEF ValidScoring
  <2> QED  BY <1>3, <2>2, <2>3
<1>22. LegalKey(SetOf(o), type, v)
  <2>1. CASE v = "none"
    <3>1. places = {}
      BY <1>1, <1>4, <2>1 DEF Places
    <3>2. SetOf(o) = {}
      BY <1>15, <3>1 DEF SetOf
    <3> QED  BY <2>1, <3>2 DEF LegalKey
  <2>2. CASE v = "correctness" /\ (type = "single" \/ Marked(s.options) = {})
    <3>1. PICK i : i = FirstMarked(s.options)
      OBVIOUS
    <3>2. i \in DOMAIN s.options
      BY <1>13, <1>14, <3>1, FirstIsAPlace
    <3>3. places = {i}
      BY <1>1, <1>4, <2>2, <3>1 DEF Places
    <3>4. Marked(o) = {i}
      BY <1>15, <3>2, <3>3
    <3>5. SetOf(o) = {o[i].id}
      BY <3>4 DEF SetOf
    <3> QED  BY <2>2, <3>5, FS_Singleton DEF LegalKey
  <2>3. CASE v = "correctness" /\ type = "multiple" /\ Marked(s.options) # {}
    <3>1. places = Marked(s.options)
      BY <1>1, <1>4, <2>3 DEF Places
    <3>2. Marked(o) = Marked(s.options)
      BY <1>15, <3>1 DEF Marked
    <3>3. SetOf(o) # {}
      BY <2>3, <3>2 DEF SetOf
    <3> QED  BY <2>3, <3>3 DEF LegalKey
  <2> QED  BY <1>3, <2>1, <2>2, <2>3
<1>23. \A i \in DOMAIN o : ~Blank(o[i].text)
  BY <1>14, <1>15
<1> QED  BY <1>11, <1>14, <1>15, <1>18, <1>19, <1>20, <1>21, <1>22, <1>23 DEF ValidQuestion

LEMMA ConvertedIsAccepted ==
  ASSUME NEW s, IsSlide(s), NEW choice \in TypeChoices
  PROVE  IsItem(ToDefinition(Converted(s, choice)))
<1>1. CASE s.kind # "choice" \/ choice \in {"content", "word-cloud"}
  BY <1>1, NewIsAccepted DEF Converted
<1>2. CASE s.kind = "choice" /\ choice \notin {"content", "word-cloud"}
  <2>1. s \in Questions(MarkedOptions)
    BY <1>2 DEF IsSlide, Sketches, TextActivities, Contents
  <2>2. PICK type : type = IF choice = "poll" THEN s.type ELSE SelectionOf(choice)
    OBVIOUS
  <2>3. type \in {"single", "multiple"}
    BY <2>1, <2>2 DEF Questions, SelectionOf
  <2>4. Converted(s, choice) = AsQuestion(s, type, Policy(choice))
    BY <1>2, <2>2 DEF Converted
  <2> QED  BY <2>1, <2>3, <2>4, ConvertedIsValid, ValidIsAccepted
<1> QED  BY <1>1, <1>2
-----------------------------------------------------------------------------
(* A save comes back as it was shown.                                      *)

LEMMA SameOptions ==
  ASSUME NEW f \in Seq(MarkedOptions), NEW g \in Seq(MarkedOptions),
         DOMAIN g = DOMAIN f, Marked(g) = Marked(f),
         \A i \in DOMAIN f : /\ g[i].id = f[i].id /\ g[i].text = f[i].text
                             /\ g[i].image = f[i].image
  PROVE  g = f
<1>1. Len(g) = Len(f)
  OBVIOUS
<1>2. \A i \in 1..Len(f) : g[i] = f[i]
  <2> TAKE i \in 1..Len(f)
  <2>1. i \in DOMAIN f
    OBVIOUS
  <2>2. PICK a \in MarkedOptions : a = f[i]
    BY <2>1
  <2>3. PICK b \in MarkedOptions : b = g[i]
    BY <2>1
  <2>4. a.correct <=> b.correct
    BY <2>1, <2>2, <2>3 DEF Marked
  <2>5. a.id = b.id /\ a.text = b.text /\ a.image = b.image
    BY <2>1, <2>2, <2>3
  <2>6. a = [id |-> a.id, text |-> a.text, image |-> a.image, correct |-> a.correct]
        /\ a.correct \in BOOLEAN
    BY DEF MarkedOptions
  <2>7. b = [id |-> b.id, text |-> b.text, image |-> b.image, correct |-> b.correct]
        /\ b.correct \in BOOLEAN
    BY DEF MarkedOptions
  <2>8. a.correct = b.correct
    BY <2>4, <2>6, <2>7
  <2>9. a = b
    BY <2>5, <2>6, <2>7, <2>8
  <2> QED  BY <2>2, <2>3, <2>9
<1>3. f = [i \in 1..Len(f) |-> f[i]] /\ g = [i \in 1..Len(f) |-> g[i]]
  BY <1>1
<1> QED  BY <1>2, <1>3

LEMMA SameQuestion ==
  ASSUME NEW a \in Questions(MarkedOptions), NEW b \in Questions(MarkedOptions),
         a.text = b.text, a.image = b.image, a.type = b.type, a.evaluation = b.evaluation,
         a.scoring = b.scoring, a.key = b.key, a.time = b.time, a.min = b.min, a.max = b.max,
         a.faster <=> b.faster, a.partial <=> b.partial, a.board <=> b.board,
         a.options = b.options
  PROVE  a = b
<1>1. a.faster = b.faster /\ a.partial = b.partial /\ a.board = b.board
  BY DEF Questions
<1>2. a = [kind |-> "choice", text |-> a.text, image |-> a.image, type |-> a.type,
           evaluation |-> a.evaluation, scoring |-> a.scoring, key |-> a.key, time |-> a.time,
           min |-> a.min, max |-> a.max, faster |-> a.faster, partial |-> a.partial,
           board |-> a.board, options |-> a.options]
  BY DEF Questions
<1>3. b = [kind |-> "choice", text |-> b.text, image |-> b.image, type |-> b.type,
           evaluation |-> b.evaluation, scoring |-> b.scoring, key |-> b.key, time |-> b.time,
           min |-> b.min, max |-> b.max, faster |-> b.faster, partial |-> b.partial,
           board |-> b.board, options |-> b.options]
  BY DEF Questions
<1> QED  BY <1>1, <1>2, <1>3

\* The marks that become ids are the ids that become marks.
LEMMA OptionsComeBack ==
  ASSUME NEW f \in Seq(MarkedOptions), Distinct(f), NEW evaluation \in {"none", "correctness"},
         evaluation = "none" => Marked(f) = {},
         NEW g, g = Trimmed(Counting(f, evaluation)),
         NEW key, key = IF evaluation = "none" THEN {} ELSE SetOf(g),
         NEW h, h = WithMarks(Unmarked(g), key)
  PROVE  Trimmed(Counting(h, evaluation)) = Trimmed(f)
<1>1. PICK c : c = Counting(f, evaluation)
  OBVIOUS
<1>2. /\ c \in Seq(MarkedOptions) /\ DOMAIN c = DOMAIN f
      /\ \A i \in DOMAIN f : /\ c[i].id = f[i].id /\ c[i].text = f[i].text
                             /\ c[i].image = f[i].image
      /\ Marked(c) = Marked(f)
  <2>1. /\ c \in Seq(MarkedOptions) /\ DOMAIN c = DOMAIN f
        /\ \A i \in DOMAIN f : /\ c[i].id = f[i].id /\ c[i].text = f[i].text
                               /\ c[i].image = f[i].image
        /\ Marked(c) = IF evaluation = "correctness" THEN Marked(f) ELSE {}
    BY <1>1, CountingOptions
  <2>2. Marked(c) = Marked(f)
    BY <2>1
  <2> QED  BY <2>1, <2>2
<1>3. /\ g \in Seq(MarkedOptions) /\ DOMAIN g = DOMAIN f
      /\ \A i \in DOMAIN f : /\ g[i].id = f[i].id /\ g[i].text = Trim[f[i].text]
                             /\ g[i].image = f[i].image
      /\ Marked(g) = Marked(f)
  BY <1>1, <1>2, TrimmedOptions
<1>4. PICK u : u = Unmarked(g)
  OBVIOUS
<1>5. /\ u \in Seq(Options) /\ DOMAIN u = DOMAIN f
      /\ \A i \in DOMAIN f : /\ u[i].id = f[i].id /\ u[i].text = Trim[f[i].text]
                             /\ u[i].image = f[i].image
  <2>1. /\ u \in Seq(Options) /\ DOMAIN u = DOMAIN g
        /\ \A i \in DOMAIN g : /\ u[i].id = g[i].id /\ u[i].text = g[i].text
                               /\ u[i].image = g[i].image
    BY <1>3, <1>4, UnmarkedOptions
  <2> QED  BY <1>3, <2>1
<1>6. /\ h \in Seq(MarkedOptions) /\ DOMAIN h = DOMAIN f
      /\ \A i \in DOMAIN f : /\ h[i].id = f[i].id /\ h[i].text = Trim[f[i].text]
                             /\ h[i].image = f[i].image
                             /\ h[i].correct = (f[i].id \in key)
  BY <1>4, <1>5, MarksAreKnown
<1>7. Marked(h) = Marked(f)
  <2>1. CASE evaluation = "none"
    BY <1>6, <2>1 DEF Marked
  <2>2. CASE evaluation = "correctness"
    <3>1. key = {g[i].id : i \in Marked(f)}
      BY <1>3, <2>2 DEF SetOf
    <3>2. Marked(f) \subseteq DOMAIN f
      BY DEF Marked
    <3>3. \A i \in DOMAIN f : f[i].id \in key <=> i \in Marked(f)
      BY <1>3, <3>1, <3>2 DEF Distinct
    <3> QED  BY <1>6, <3>2, <3>3 DEF Marked
  <2> QED  BY <2>1, <2>2
<1>8. PICK k : k = Counting(h, evaluation)
  OBVIOUS
<1>9. /\ k \in Seq(MarkedOptions) /\ DOMAIN k = DOMAIN f
      /\ \A i \in DOMAIN f : /\ k[i].id = f[i].id /\ k[i].text = Trim[f[i].text]
                             /\ k[i].image = f[i].image
      /\ Marked(k) = Marked(f)
  <2>1. /\ k \in Seq(MarkedOptions) /\ DOMAIN k = DOMAIN h
        /\ \A i \in DOMAIN h : /\ k[i].id = h[i].id /\ k[i].text = h[i].text
                               /\ k[i].image = h[i].image
        /\ Marked(k) = IF evaluation = "correctness" THEN Marked(h) ELSE {}
    <3>1. h \in Seq(MarkedOptions)
      BY <1>6
    <3>2. Marked(k) = IF evaluation = "correctness" THEN Marked(h) ELSE {}
      BY <1>8, <3>1, CountingOptions
    <3>3. k \in Seq(MarkedOptions) /\ DOMAIN k = DOMAIN h
      BY <1>8, <3>1, CountingOptions
    <3>4. \A i \in DOMAIN h : /\ k[i].id = h[i].id /\ k[i].text = h[i].text
                              /\ k[i].image = h[i].image
      BY <1>8, <3>1, CountingOptions
    <3> QED  BY <3>1, <3>2, <3>3, <3>4
  <2>2. Marked(k) = Marked(f)
    BY <1>7, <2>1
  <2> QED  BY <1>6, <2>1, <2>2
<1>10. PICK a : a = Trimmed(k)
  OBVIOUS
<1>11. /\ a \in Seq(MarkedOptions) /\ DOMAIN a = DOMAIN f
       /\ \A i \in DOMAIN f : /\ a[i].id = f[i].id /\ a[i].text = Trim[Trim[f[i].text]]
                              /\ a[i].image = f[i].image
       /\ Marked(a) = Marked(f)
  BY <1>9, <1>10, TrimmedOptions
<1>12. PICK b : b = Trimmed(f)
  OBVIOUS
<1>13. /\ b \in Seq(MarkedOptions) /\ DOMAIN b = DOMAIN f
       /\ \A i \in DOMAIN f : /\ b[i].id = f[i].id /\ b[i].text = Trim[f[i].text]
                              /\ b[i].image = f[i].image
       /\ Marked(b) = Marked(f)
  BY <1>12, TrimmedOptions
<1>14. \A i \in DOMAIN b : a[i].id = b[i].id /\ a[i].text = b[i].text /\ a[i].image = b[i].image
  <2> TAKE i \in DOMAIN b
  <2>1. f[i] \in MarkedOptions
    BY <1>13
  <2>2. f[i].text \in DraftTexts
    BY <2>1 DEF MarkedOptions
  <2> QED  BY <1>11, <1>13, <2>2, TrimsOnce
<1>15. a = b
  BY <1>11, <1>13, <1>14, SameOptions
<1> QED  BY <1>8, <1>10, <1>12, <1>15

\* What the server stored of a question, field by field.
LEMMA TransportedOf ==
  ASSUME NEW d \in Questions(Options), NEW t, t = FromTransport(d)
  PROVE  /\ t \in Questions(MarkedOptions)
         /\ t.text = d.text /\ t.image = d.image /\ t.type = d.type /\ t.time = d.time
         /\ t.evaluation = d.evaluation /\ t.scoring = d.scoring /\ t.key = {}
         /\ t.min = d.min /\ t.max = d.max /\ t.faster = d.faster /\ t.board = d.board
         /\ t.partial <=> d.type = "multiple" /\ d.partial
         /\ t.options = WithMarks(d.options, d.key)
<1>1. PICK o : o = WithMarks(d.options, d.key)
  OBVIOUS
<1>2. PICK p : p = (d.type = "multiple" /\ d.partial)
  OBVIOUS
<1>3. PICK none : none = {}
  OBVIOUS
<1>4. t = [d EXCEPT !.options = o, !.partial = p, !.key = none]
  BY <1>1, <1>2, <1>3 DEF FromTransport, Questions
<1>5. o \in Seq(MarkedOptions) /\ p \in BOOLEAN /\ none \in SUBSET OptionNames
  BY <1>1, <1>2, <1>3, MarksAreKnown DEF Questions
<1>6. t \in Questions(MarkedOptions)
  BY <1>4, <1>5 DEF Questions
<1>7. /\ t.text = d.text /\ t.image = d.image /\ t.type = d.type /\ t.time = d.time
      /\ t.evaluation = d.evaluation /\ t.scoring = d.scoring /\ t.key = none
      /\ t.min = d.min /\ t.max = d.max /\ t.faster = d.faster /\ t.board = d.board
      /\ t.partial = p /\ t.options = o
  BY <1>4 DEF Questions
<1> QED  BY <1>1, <1>2, <1>3, <1>6, <1>7

\* The draft of a question, field by field.
LEMMA DraftOfFields ==
  ASSUME NEW s \in Questions(MarkedOptions), NEW w, w = DraftOf(s)
  PROVE  /\ w \in Questions(MarkedOptions)
         /\ w.text = s.text /\ w.image = s.image /\ w.type = s.type /\ w.time = s.time
         /\ w.evaluation = s.evaluation /\ w.scoring = s.scoring /\ w.key = s.key
         /\ w.min = s.min /\ w.max = s.max /\ w.faster = s.faster
         /\ w.board <=> s.scoring = "points" /\ s.board
         /\ w.partial <=> s.type = "multiple" /\ s.partial
         /\ w.options = Counting(s.options, s.evaluation)
<1>1. PICK o : o = Counting(s.options, s.evaluation)
  OBVIOUS
<1>2. PICK p : p = (s.type = "multiple" /\ s.partial)
  OBVIOUS
<1>3. PICK b : b = (s.scoring = "points" /\ s.board)
  OBVIOUS
<1>4. s.kind = "choice" /\ s.options \in Seq(MarkedOptions)
  BY DEF Questions
<1>5. w = [s EXCEPT !.board = b, !.partial = p, !.options = o]
  BY <1>1, <1>2, <1>3, <1>4 DEF DraftOf
<1>6. o \in Seq(MarkedOptions) /\ p \in BOOLEAN /\ b \in BOOLEAN
  BY <1>1, <1>2, <1>3, <1>4, CountingOptions
<1>7. w \in Questions(MarkedOptions)
  BY <1>5, <1>6 DEF Questions
<1>8. /\ w.text = s.text /\ w.image = s.image /\ w.type = s.type /\ w.time = s.time
      /\ w.evaluation = s.evaluation /\ w.scoring = s.scoring /\ w.key = s.key
      /\ w.min = s.min /\ w.max = s.max /\ w.faster = s.faster
      /\ w.board = b /\ w.partial = p /\ w.options = o
  BY <1>5 DEF Questions
<1> QED  BY <1>1, <1>2, <1>3, <1>7, <1>8

LEMMA TidyOf ==
  ASSUME NEW w \in Questions(MarkedOptions), NEW v, v = Tidy(w)
  PROVE  /\ v \in Questions(MarkedOptions)
         /\ v.text = Trim[w.text] /\ v.image = w.image /\ v.type = w.type /\ v.time = w.time
         /\ v.evaluation = w.evaluation /\ v.scoring = w.scoring /\ v.key = w.key
         /\ v.min = w.min /\ v.max = w.max /\ v.faster = w.faster
         /\ v.board = w.board /\ v.partial = w.partial /\ v.options = Trimmed(w.options)
<1>1. PICK o : o = Trimmed(w.options)
  OBVIOUS
<1>2. PICK t : t = Trim[w.text]
  OBVIOUS
<1>3. w.kind = "choice" /\ w.options \in Seq(MarkedOptions) /\ w.text \in DraftTexts
  BY DEF Questions
<1>4. v = [w EXCEPT !.text = t, !.options = o]
  BY <1>1, <1>2, <1>3 DEF Tidy
<1>5. o \in Seq(MarkedOptions) /\ t \in DraftTexts
  BY <1>1, <1>2, <1>3, TrimmedOptions, TrimsOnce
<1>6. v \in Questions(MarkedOptions)
  BY <1>4, <1>5 DEF Questions
<1>7. /\ v.text = t /\ v.image = w.image /\ v.type = w.type /\ v.time = w.time
      /\ v.evaluation = w.evaluation /\ v.scoring = w.scoring /\ v.key = w.key
      /\ v.min = w.min /\ v.max = w.max /\ v.faster = w.faster
      /\ v.board = w.board /\ v.partial = w.partial /\ v.options = o
  BY <1>4 DEF Questions
<1> QED  BY <1>1, <1>2, <1>6, <1>7

LEMMA QuestionComesBack ==
  ASSUME NEW w \in Questions(MarkedOptions), IsSketch(w), SketchIsValid(w)
  PROVE  Tidy(DraftOf(FromTransport(ToDefinition(ToEditorSlide(w))))) = Tidy(w)
<1>1. PICK s : s = ToEditorSlide(w)
  OBVIOUS
<1>2. PICK d : d = ToDefinition(s)
  OBVIOUS
<1>3. PICK t : t = FromTransport(d)
  OBVIOUS
<1>4. PICK u : u = DraftOf(t)
  OBVIOUS
<1>5. /\ s \in Questions(MarkedOptions)
      /\ s.text = Trim[w.text] /\ s.image = w.image /\ s.type = w.type /\ s.time = w.time
      /\ s.evaluation = w.evaluation /\ s.scoring = w.scoring /\ s.key = w.key
      /\ s.min = IF w.scoring = "points" THEN w.min ELSE 0
      /\ s.max = IF w.scoring = "points" THEN w.max ELSE 0
      /\ s.faster <=> w.scoring = "points" /\ w.faster
      /\ s.board <=> w.scoring = "points" /\ w.board
      /\ s.partial <=> w.scoring = "points" /\ w.type = "multiple" /\ w.partial
      /\ s.options = Trimmed(Counting(w.options, w.evaluation))
  BY <1>1, EditedOf
<1>6. /\ d \in Questions(Options)
      /\ d.text = s.text /\ d.image = s.image /\ d.type = s.type /\ d.time = s.time
      /\ d.evaluation = s.evaluation /\ d.scoring = s.scoring
      /\ d.key = IF s.evaluation = "none" THEN {} ELSE SetOf(s.options)
      /\ d.min = IF s.scoring # "none" THEN s.min ELSE 0
      /\ d.max = IF s.scoring # "none" THEN s.max ELSE 0
      /\ d.faster <=> s.scoring # "none" /\ s.faster
      /\ d.board <=> s.scoring # "none" /\ s.board
      /\ d.partial <=> s.scoring # "none" /\ s.type = "multiple" /\ s.partial
      /\ d.options = Unmarked(s.options)
  BY <1>2, <1>5, TransportOf
<1>7. /\ t \in Questions(MarkedOptions)
      /\ t.text = d.text /\ t.image = d.image /\ t.type = d.type /\ t.time = d.time
      /\ t.evaluation = d.evaluation /\ t.scoring = d.scoring /\ t.key = {}
      /\ t.min = d.min /\ t.max = d.max /\ t.faster = d.faster /\ t.board = d.board
      /\ t.partial <=> d.type = "multiple" /\ d.partial
      /\ t.options = WithMarks(d.options, d.key)
  BY <1>3, <1>6, TransportedOf
<1>8. /\ u \in Questions(MarkedOptions)
      /\ u.text = t.text /\ u.image = t.image /\ u.type = t.type /\ u.time = t.time
      /\ u.evaluation = t.evaluation /\ u.scoring = t.scoring /\ u.key = t.key
      /\ u.min = t.min /\ u.max = t.max /\ u.faster = t.faster
      /\ u.board <=> t.scoring = "points" /\ t.board
      /\ u.partial <=> t.type = "multiple" /\ t.partial
      /\ u.options = Counting(t.options, t.evaluation)
  BY <1>4, <1>7, DraftOfFields
<1>9. /\ w.key = {}
      /\ w.scoring = "none" => w.min = 0 /\ w.max = 0 /\ ~w.faster /\ ~w.board
      /\ w.partial => w.scoring = "points" /\ w.type = "multiple"
      /\ w.evaluation = "none" => Marked(w.options) = {}
  BY DEF IsSketch, Questions
<1>10. /\ w.scoring \in {"none", "points"} /\ w.evaluation \in {"none", "correctness"}
       /\ w.text \in DraftTexts /\ w.options \in Seq(MarkedOptions) /\ w.kind = "choice"
  BY DEF Questions
<1>11. Distinct(w.options)
  <2>1. PICK c : c = Counting(w.options, w.evaluation)
    OBVIOUS
  <2>2. Questioned(w).options = c
    BY <2>1, QuestionedOf
  <2>3. Distinct(c)
    BY <1>10, <2>2 DEF SketchIsValid, ValidQuestion
  <2>4. /\ c \in Seq(MarkedOptions) /\ DOMAIN c = DOMAIN w.options
        /\ \A i \in DOMAIN w.options : c[i].id = w.options[i].id
    BY <1>10, <2>1, CountingOptions
  <2> QED  BY <1>10, <2>3, <2>4, OptionsDiffer
<1>12. Trimmed(u.options) = Trimmed(w.options)
  <2>1. PICK o : o = w.options
    OBVIOUS
  <2>2. PICK g : g = Trimmed(Counting(o, w.evaluation))
    OBVIOUS
  <2>3. PICK key : key = IF w.evaluation = "none" THEN {} ELSE SetOf(g)
    OBVIOUS
  <2>4. PICK h : h = WithMarks(Unmarked(g), key)
    OBVIOUS
  <2>5. u.options = Counting(h, w.evaluation)
    BY <1>5, <1>6, <1>7, <1>8, <2>1, <2>2, <2>3, <2>4
  <2>6. Trimmed(Counting(h, w.evaluation)) = Trimmed(o)
    BY <1>9, <1>10, <1>11, <2>1, <2>2, <2>3, <2>4, OptionsComeBack
  <2> QED  BY <2>1, <2>5, <2>6
<1>13. PICK a : a = Tidy(u)
  OBVIOUS
<1>14. PICK b : b = Tidy(w)
  OBVIOUS
<1>15. /\ a \in Questions(MarkedOptions)
       /\ a.text = Trim[u.text] /\ a.image = u.image /\ a.type = u.type /\ a.time = u.time
       /\ a.evaluation = u.evaluation /\ a.scoring = u.scoring /\ a.key = u.key
       /\ a.min = u.min /\ a.max = u.max /\ a.faster = u.faster
       /\ a.board = u.board /\ a.partial = u.partial /\ a.options = Trimmed(u.options)
  BY <1>8, <1>13, TidyOf
<1>16. /\ b \in Questions(MarkedOptions)
       /\ b.text = Trim[w.text] /\ b.image = w.image /\ b.type = w.type /\ b.time = w.time
       /\ b.evaluation = w.evaluation /\ b.scoring = w.scoring /\ b.key = w.key
       /\ b.min = w.min /\ b.max = w.max /\ b.faster = w.faster
       /\ b.board = w.board /\ b.partial = w.partial /\ b.options = Trimmed(w.options)
  BY <1>14, TidyOf
<1>17. /\ a.text = b.text /\ a.image = b.image /\ a.type = b.type /\ a.time = b.time
       /\ a.evaluation = b.evaluation /\ a.scoring = b.scoring /\ a.key = b.key
       /\ a.options = b.options
  BY <1>5, <1>6, <1>7, <1>8, <1>9, <1>10, <1>12, <1>15, <1>16, TrimsOnce
<1>18. a.min = b.min /\ a.max = b.max
  BY <1>5, <1>6, <1>7, <1>8, <1>9, <1>10, <1>15, <1>16
<1>19. (a.faster <=> b.faster) /\ (a.partial <=> b.partial) /\ (a.board <=> b.board)
  BY <1>5, <1>6, <1>7, <1>8, <1>9, <1>10, <1>15, <1>16
<1>20. a = b
  BY <1>15, <1>16, <1>17, <1>18, <1>19, SameQuestion
<1> QED  BY <1>1, <1>2, <1>3, <1>4, <1>13, <1>14, <1>20

\* What a valid draft is sent as, stored and shown again differs in nothing
\* but the spaces around its texts.
LEMMA SketchComesBack ==
  ASSUME NEW w, IsSketch(w), SketchIsValid(w)
  PROVE  Tidy(DraftOf(FromTransport(ToDefinition(ToEditorSlide(w))))) = Tidy(w)
<1>1. CASE w \in Questions(MarkedOptions)
  BY <1>1, QuestionComesBack
<1>2. CASE w \in TextActivities
  <2>1. w.kind = "text" /\ FromTransport(ToDefinition(ToEditorSlide(w))) = w
    BY <1>2 DEF TextActivities, ToDefinition, ToEditorSlide, FromTransport
  <2>2. w.length # 0 /\ w.words # 0 /\ w.time # 0
    <3>1. ValidTextActivity(w)
      BY <2>1 DEF SketchIsValid
    <3>2. w.length \in 1..MaxLength /\ w.words \in 1..10 /\ Duration(w.time)
      BY <3>1, SMT DEF ValidTextActivity
    <3>3. ~Duration(0)
      BY SMT DEF Duration
    <3>4. w.time # 0
      BY <3>2, <3>3, SMT
    <3>5. w.length # 0 /\ w.words # 0
      BY <3>2, SMT
    <3> QED  BY <3>4, <3>5
  <2>3. DraftOf(w) = [w EXCEPT !.length = w.length, !.words = w.words, !.time = w.time]
    BY <2>1, <2>2 DEF DraftOf
  <2>4. DraftOf(w) = w
    BY <1>2, <2>3 DEF TextActivities
  <2> QED  BY <2>1, <2>4
<1>3. CASE w \in Contents
  <2>1. w.kind = "content" /\ FromTransport(ToDefinition(ToEditorSlide(w))) = w
    BY <1>3 DEF Contents, ToDefinition, ToEditorSlide, FromTransport
  <2>2. DraftOf(w) = w
    BY <2>1 DEF DraftOf
  <2> QED  BY <2>1, <2>2
<1> QED  BY <1>1, <1>2, <1>3 DEF IsSketch, Sketches
-----------------------------------------------------------------------------
(* Edits.                                                                  *)

LEMMA KindsDiffer ==
  ASSUME NEW w \in Sketches
  PROVE  /\ w.kind = "choice" <=> w \in Questions(MarkedOptions)
         /\ w.kind = "text" <=> w \in TextActivities
         /\ w.kind = "content" <=> w \in Contents
BY DEF Sketches, Questions, TextActivities, Contents

\* An edit leaves a draft of the same kind, with no new address that is broken.
Follows(w, v) == IsSketch(v) /\ v.kind = w.kind /\ (AllLoad(w) => AllLoad(v))

LEMMA QuestionEdited ==
  ASSUME NEW w \in Questions(MarkedOptions), IsSketch(w), NEW v \in Questions(MarkedOptions),
         v.key = w.key, v.type = w.type, v.evaluation = w.evaluation, v.scoring = w.scoring,
         v.options = w.options, v.image = w.image \/ v.image = "",
         \/ w.scoring = "points" /\ (v.partial => w.type = "multiple")
         \/ /\ v.min = w.min /\ v.max = w.max /\ v.faster = w.faster /\ v.board = w.board
            /\ v.partial = w.partial
  PROVE  Follows(w, v)
<1>1. w.kind = "choice" /\ v.kind = "choice"
  BY DEF Questions
<1>2. AllLoad(w) => AllLoad(v)
  BY <1>1 DEF AllLoad
<1>3. IsSketch(v)
  BY <1>1 DEF IsSketch, Sketches
<1> QED  BY <1>1, <1>2, <1>3 DEF Follows

\* The options that a draft may hold.
Allowed(evaluation, loaded) ==
  {o \in MarkedOptions : /\ evaluation = "none" => ~o.correct
                         /\ loaded => o.image # "broken"}

LEMMA AllowedOptions ==
  ASSUME NEW f \in Seq(MarkedOptions), NEW evaluation, NEW loaded,
         evaluation = "none" => Marked(f) = {},
         loaded => \A i \in DOMAIN f : f[i].image # "broken"
  PROVE  f \in Seq(Allowed(evaluation, loaded))
<1>1. \A i \in DOMAIN f : f[i] \in Allowed(evaluation, loaded)
  BY DEF Allowed, Marked
<1>2. f = [i \in DOMAIN f |-> f[i]]
  OBVIOUS
<1> QED  BY <1>1, <1>2, SequenceOf

LEMMA OptionsEdited ==
  ASSUME NEW w \in Questions(MarkedOptions), IsSketch(w),
         NEW o \in Seq(Allowed(w.evaluation, AllLoad(w))),
         NEW v, v = [w EXCEPT !.options = o]
  PROVE  Follows(w, v)
<1>1. \A i \in DOMAIN o : /\ o[i] \in MarkedOptions
                          /\ w.evaluation = "none" => ~o[i].correct
                          /\ AllLoad(w) => o[i].image # "broken"
  BY DEF Allowed
<1>2. o \in Seq(MarkedOptions)
  <2>1. o = [i \in DOMAIN o |-> o[i]]
    OBVIOUS
  <2> QED  BY <1>1, <2>1, SequenceOf
<1>3. v \in Questions(MarkedOptions)
  BY <1>2 DEF Questions
<1>4. /\ v.kind = "choice" /\ w.kind = "choice" /\ v.key = w.key /\ v.type = w.type
      /\ v.evaluation = w.evaluation /\ v.scoring = w.scoring /\ v.options = o
      /\ v.image = w.image /\ v.min = w.min /\ v.max = w.max /\ v.faster = w.faster
      /\ v.board = w.board /\ v.partial = w.partial
  BY DEF Questions
<1>5. w.evaluation = "none" => Marked(o) = {}
  BY <1>1 DEF Marked
<1>6. IsSketch(v)
  BY <1>3, <1>4, <1>5 DEF IsSketch, Sketches
<1>7. AllLoad(w) => AllLoad(v)
  BY <1>1, <1>4 DEF AllLoad
<1> QED  BY <1>4, <1>6, <1>7 DEF Follows

LEMMA SketchOptions ==
  ASSUME NEW w \in Questions(MarkedOptions), IsSketch(w)
  PROVE  /\ w.options \in Seq(MarkedOptions)
         /\ w.options \in Seq(Allowed(w.evaluation, AllLoad(w)))
         /\ w.evaluation = "none" => Marked(w.options) = {}
         /\ AllLoad(w) => \A i \in DOMAIN w.options : w.options[i].image # "broken"
<1>1. w.kind = "choice" /\ w.options \in Seq(MarkedOptions)
  BY DEF Questions
<1>2. w.evaluation = "none" => Marked(w.options) = {}
  BY <1>1 DEF IsSketch
<1>3. AllLoad(w) => \A i \in DOMAIN w.options : w.options[i].image # "broken"
  BY <1>1 DEF AllLoad
<1>4. PICK o \in Seq(MarkedOptions) : o = w.options
  BY <1>1
<1>5. o \in Seq(Allowed(w.evaluation, AllLoad(w)))
  BY <1>2, <1>3, <1>4, AllowedOptions
<1> QED  BY <1>1, <1>2, <1>3, <1>4, <1>5

\* The question's own fields.
LEMMA QuestionTyped ==
  ASSUME NEW w \in Questions(MarkedOptions), IsSketch(w)
  PROVE  /\ \A t \in DraftTexts : Follows(w, [w EXCEPT !.text = t])
         /\ \A n \in Int : Follows(w, [w EXCEPT !.time = n])
         /\ Follows(w, [w EXCEPT !.image = ""])
<1>1. ASSUME NEW t \in DraftTexts, NEW v, v = [w EXCEPT !.text = t]
      PROVE  Follows(w, v)
  <2>1. v \in Questions(MarkedOptions)
    BY <1>1 DEF Questions
  <2>2. /\ v.key = w.key /\ v.type = w.type /\ v.evaluation = w.evaluation
        /\ v.scoring = w.scoring /\ v.options = w.options /\ v.image = w.image
        /\ v.min = w.min /\ v.max = w.max /\ v.faster = w.faster /\ v.board = w.board
        /\ v.partial = w.partial
    BY <1>1 DEF Questions
  <2> QED  BY <2>1, <2>2, QuestionEdited
<1>2. ASSUME NEW n \in Int, NEW x, x = [w EXCEPT !.time = n]
      PROVE  Follows(w, x)
  <2>1. x \in Questions(MarkedOptions)
    BY <1>2 DEF Questions
  <2>2. /\ x.key = w.key /\ x.type = w.type /\ x.evaluation = w.evaluation
        /\ x.scoring = w.scoring /\ x.options = w.options /\ x.image = w.image
        /\ x.min = w.min /\ x.max = w.max /\ x.faster = w.faster /\ x.board = w.board
        /\ x.partial = w.partial
    BY <1>2 DEF Questions
  <2> QED  BY <2>1, <2>2, QuestionEdited
<1>3. ASSUME NEW y, y = [w EXCEPT !.image = ""]
      PROVE  Follows(w, y)
  <2>1. y \in Questions(MarkedOptions)
    BY <1>3 DEF Questions, Images
  <2>2. /\ y.key = w.key /\ y.type = w.type /\ y.evaluation = w.evaluation
        /\ y.scoring = w.scoring /\ y.options = w.options /\ y.image = ""
        /\ y.min = w.min /\ y.max = w.max /\ y.faster = w.faster /\ y.board = w.board
        /\ y.partial = w.partial
    BY <1>3 DEF Questions
  <2> QED  BY <2>1, <2>2, QuestionEdited
<1> QED  BY <1>1, <1>2, <1>3

\* The scoring section.
LEMMA ScoringTyped ==
  ASSUME NEW w \in Questions(MarkedOptions), IsSketch(w), w.scoring = "points"
  PROVE  /\ \A n \in Int : Follows(w, [w EXCEPT !.max = n]) /\ Follows(w, [w EXCEPT !.min = n])
         /\ \A b \in BOOLEAN : /\ Follows(w, [w EXCEPT !.faster = b])
                               /\ Follows(w, [w EXCEPT !.board = b])
         /\ \A p \in BOOLEAN : (p => w.type = "multiple") => Follows(w, [w EXCEPT !.partial = p])
<1>1. w.partial => w.type = "multiple"
  BY DEF IsSketch, Questions
<1>2. ASSUME NEW n \in Int, NEW b \in BOOLEAN, NEW p \in BOOLEAN, p => w.type = "multiple",
             NEW v \in Questions(MarkedOptions),
             v \in {[w EXCEPT !.max = n], [w EXCEPT !.min = n], [w EXCEPT !.faster = b],
                    [w EXCEPT !.board = b], [w EXCEPT !.partial = p]}
      PROVE  Follows(w, v)
  <2>1. /\ v.key = w.key /\ v.type = w.type /\ v.evaluation = w.evaluation
        /\ v.scoring = w.scoring /\ v.options = w.options /\ v.image = w.image
    BY <1>2 DEF Questions
  <2>2. v.partial => w.type = "multiple"
    BY <1>1, <1>2 DEF Questions
  <2> QED  BY <2>1, <2>2, QuestionEdited
<1>3. ASSUME NEW n \in Int, NEW b \in BOOLEAN, NEW p \in BOOLEAN
      PROVE  /\ [w EXCEPT !.max = n] \in Questions(MarkedOptions)
             /\ [w EXCEPT !.min = n] \in Questions(MarkedOptions)
             /\ [w EXCEPT !.faster = b] \in Questions(MarkedOptions)
             /\ [w EXCEPT !.board = b] \in Questions(MarkedOptions)
             /\ [w EXCEPT !.partial = p] \in Questions(MarkedOptions)
  BY DEF Questions
<1>4. ASSUME NEW n \in Int
      PROVE  Follows(w, [w EXCEPT !.max = n]) /\ Follows(w, [w EXCEPT !.min = n])
  <2>1. PICK no \in BOOLEAN : ~no
    OBVIOUS
  <2> QED  BY <1>2, <1>3, <2>1
<1>5. ASSUME NEW b \in BOOLEAN
      PROVE  Follows(w, [w EXCEPT !.faster = b]) /\ Follows(w, [w EXCEPT !.board = b])
  <2>1. PICK no \in BOOLEAN : ~no
    OBVIOUS
  <2>2. PICK n \in Int : TRUE
    OBVIOUS
  <2> QED  BY <1>2, <1>3, <2>1, <2>2
<1>6. ASSUME NEW p \in BOOLEAN, p => w.type = "multiple"
      PROVE  Follows(w, [w EXCEPT !.partial = p])
  <2>1. PICK n \in Int : TRUE
    OBVIOUS
  <2> QED  BY <1>2, <1>3, <1>6, <2>1
<1> QED  BY <1>4, <1>5, <1>6

LEMMA TextActivityTyped ==
  ASSUME NEW w \in TextActivities, IsSketch(w)
  PROVE  /\ \A t \in DraftTexts : /\ Follows(w, [w EXCEPT !.title = t])
                                  /\ Follows(w, [w EXCEPT !.text = t])
         /\ \A n \in Int : /\ Follows(w, [w EXCEPT !.words = n])
                           /\ Follows(w, [w EXCEPT !.length = n])
                           /\ Follows(w, [w EXCEPT !.time = n])
<1>1. ASSUME NEW v \in TextActivities, v.image = w.image
      PROVE  Follows(w, v)
  <2>1. v.kind = "text" /\ w.kind = "text"
    BY DEF TextActivities
  <2> QED  BY <1>1, <2>1 DEF Follows, IsSketch, Sketches, AllLoad
<1>2. ASSUME NEW t \in DraftTexts
      PROVE  Follows(w, [w EXCEPT !.title = t]) /\ Follows(w, [w EXCEPT !.text = t])
  <2>1. PICK a : a = [w EXCEPT !.title = t]
    OBVIOUS
  <2>2. PICK b : b = [w EXCEPT !.text = t]
    OBVIOUS
  <2>3. a \in TextActivities /\ a.image = w.image /\ b \in TextActivities /\ b.image = w.image
    BY <2>1, <2>2 DEF TextActivities
  <2> QED  BY <1>1, <2>1, <2>2, <2>3
<1>3. ASSUME NEW n \in Int
      PROVE  /\ Follows(w, [w EXCEPT !.words = n]) /\ Follows(w, [w EXCEPT !.length = n])
             /\ Follows(w, [w EXCEPT !.time = n])
  <2>1. PICK c : c = [w EXCEPT !.words = n]
    OBVIOUS
  <2>2. PICK d : d = [w EXCEPT !.length = n]
    OBVIOUS
  <2>3. PICK e : e = [w EXCEPT !.time = n]
    OBVIOUS
  <2>4. /\ c \in TextActivities /\ c.image = w.image /\ d \in TextActivities /\ d.image = w.image
        /\ e \in TextActivities /\ e.image = w.image
    BY <2>1, <2>2, <2>3 DEF TextActivities
  <2> QED  BY <1>1, <2>1, <2>2, <2>3, <2>4
<1> QED  BY <1>2, <1>3

LEMMA ContentTyped ==
  ASSUME NEW w \in Contents, IsSketch(w)
  PROVE  /\ \A t \in DraftTexts : /\ Follows(w, [w EXCEPT !.title = t])
                                  /\ Follows(w, [w EXCEPT !.text = t])
         /\ Follows(w, [w EXCEPT !.image = ""])
<1>1. ASSUME NEW v \in Contents, v.image = w.image \/ v.image = ""
      PROVE  Follows(w, v)
  <2>1. v.kind = "content" /\ w.kind = "content"
    BY DEF Contents
  <2> QED  BY <1>1, <2>1 DEF Follows, IsSketch, Sketches, AllLoad
<1>2. ASSUME NEW t \in DraftTexts
      PROVE  Follows(w, [w EXCEPT !.title = t]) /\ Follows(w, [w EXCEPT !.text = t])
  <2>1. PICK a : a = [w EXCEPT !.title = t]
    OBVIOUS
  <2>2. PICK b : b = [w EXCEPT !.text = t]
    OBVIOUS
  <2>3. a \in Contents /\ a.image = w.image /\ b \in Contents /\ b.image = w.image
    BY <2>1, <2>2 DEF Contents
  <2> QED  BY <1>1, <2>1, <2>2, <2>3
<1>3. PICK c : c = [w EXCEPT !.image = ""]
  OBVIOUS
<1>4. c \in Contents /\ c.image = ""
  BY <1>3 DEF Contents, Images
<1> QED  BY <1>1, <1>2, <1>3, <1>4

LEMMA RemoveKeeps ==
  ASSUME NEW S, NEW f \in Seq(S), NEW i \in 1..Len(f)
  PROVE  SQ!RemoveAt(f, i) \in Seq(S) /\ Len(SQ!RemoveAt(f, i)) = Len(f) - 1
<1>1. PICK n \in Nat : n = Len(f)
  OBVIOUS
<1>2. PICK a : a = SubSeq(f, 1, i - 1)
  OBVIOUS
<1>3. PICK b : b = SubSeq(f, i + 1, Len(f))
  OBVIOUS
<1>4. a \in Seq(S) /\ Len(a) = i - 1
  BY <1>1, <1>2
<1>5. b \in Seq(S) /\ Len(b) = n - i
  BY <1>1, <1>3
<1>6. SQ!RemoveAt(f, i) = a \o b
  BY <1>2, <1>3 DEF SQ!RemoveAt
<1>7. a \o b \in Seq(S) /\ Len(a \o b) = Len(a) + Len(b)
  <2>1. a \in Seq(S) /\ b \in Seq(S)
    BY <1>4, <1>5
  <2>2. a \o b \in Seq(S)
    BY <2>1
  <2>3. Len(a \o b) = Len(a) + Len(b)
    BY <2>1
  <2> QED  BY <2>2, <2>3
<1> QED  BY <1>1, <1>4, <1>5, <1>6, <1>7

LEMMA InsertKeeps ==
  ASSUME NEW S, NEW f \in Seq(S), NEW i \in 1..(Len(f) + 1), NEW e \in S
  PROVE  SQ!InsertAt(f, i, e) \in Seq(S)
<1>1. PICK n \in Nat : n = Len(f)
  OBVIOUS
<1>2. PICK a : a = SubSeq(f, 1, i - 1)
  OBVIOUS
<1>3. PICK b : b = SubSeq(f, i, Len(f))
  OBVIOUS
<1>4. a \in Seq(S)
  BY <1>1, <1>2
<1>5. b \in Seq(S)
  BY <1>1, <1>3
<1>6. PICK c : c = <<e>>
  OBVIOUS
<1>7. c \in Seq(S)
  BY <1>6
<1>8. SQ!InsertAt(f, i, e) = a \o c \o b
  BY <1>2, <1>3, <1>6 DEF SQ!InsertAt
<1>9. PICK d : d = a \o c
  OBVIOUS
<1>10. d \in Seq(S)
  BY <1>4, <1>7, <1>9
<1>11. d \o b \in Seq(S)
  BY <1>5, <1>10
<1> QED  BY <1>8, <1>9, <1>11

LEMMA RemarkedAllowed ==
  ASSUME NEW evaluation, NEW loaded, NEW f \in Seq(Allowed(evaluation, loaded)), NEW places,
         evaluation = "none" => places = {}
  PROVE  Remarked(f, places) \in Seq(Allowed(evaluation, loaded))
<1>1. \A i \in DOMAIN f : f[i] \in MarkedOptions /\ (loaded => f[i].image # "broken")
  BY DEF Allowed
<1>2. f \in Seq(MarkedOptions)
  <2>1. f = [i \in DOMAIN f |-> f[i]]
    OBVIOUS
  <2> QED  BY <1>1, <2>1, SequenceOf
<1>3. PICK g : g = Remarked(f, places)
  OBVIOUS
<1>4. /\ g \in Seq(MarkedOptions) /\ DOMAIN g = DOMAIN f
      /\ \A i \in DOMAIN f : g[i].image = f[i].image
      /\ Marked(g) = {i \in DOMAIN f : i \in places}
  BY <1>2, <1>3, RemarkedOptions
<1>5. evaluation = "none" => Marked(g) = {}
  BY <1>4
<1>6. loaded => \A i \in DOMAIN g : g[i].image # "broken"
  BY <1>1, <1>4
<1> QED  BY <1>3, <1>4, <1>5, <1>6, AllowedOptions

LEMMA EnsureKeeps ==
  ASSUME NEW evaluation \in {"none", "correctness"}, NEW loaded,
         NEW f \in Seq(Allowed(evaluation, loaded)), NEW type
  PROVE  EnsureCorrectOption(f, type, evaluation) \in Seq(Allowed(evaluation, loaded))
<1>1. CASE evaluation = "none"
  <2>1. EnsureCorrectOption(f, type, evaluation) = Remarked(f, {})
    BY <1>1 DEF EnsureCorrectOption
  <2> QED  BY <2>1, RemarkedAllowed
<1>2. CASE evaluation # "none"
  <2>1. \/ EnsureCorrectOption(f, type, evaluation) = Remarked(f, {1})
        \/ EnsureCorrectOption(f, type, evaluation) = f
    BY <1>2 DEF EnsureCorrectOption
  <2>2. Remarked(f, {1}) \in Seq(Allowed(evaluation, loaded))
    BY <1>2, RemarkedAllowed
  <2> QED  BY <2>1, <2>2
<1> QED  BY <1>1, <1>2

\* One option is replaced by another.
LEMMA ReplacedKeeps ==
  ASSUME NEW S, NEW f \in Seq(S), NEW i \in DOMAIN f, NEW e \in S
  PROVE  [f EXCEPT ![i] = e] \in Seq(S)
OBVIOUS

LEMMA IllustratedKeeps ==
  ASSUME NEW evaluation, NEW loaded, NEW f \in Seq(Allowed(evaluation, loaded)), NEW id,
         NEW url \in Images, url # "broken"
  PROVE  Illustrated(f, id, url) \in Seq(Allowed(evaluation, loaded))
<1>1. PICK g : g = Illustrated(f, id, url)
  OBVIOUS
<1>2. g = [i \in DOMAIN f |-> g[i]]
  BY <1>1 DEF Illustrated
<1>3. \A i \in DOMAIN f : g[i] \in Allowed(evaluation, loaded)
  <2> TAKE i \in DOMAIN f
  <2>1. PICK o \in Allowed(evaluation, loaded) : o = f[i]
    OBVIOUS
  <2>2. PICK p : p = [o EXCEPT !.image = url]
    OBVIOUS
  <2>3. p \in Allowed(evaluation, loaded)
    <3>1. o \in MarkedOptions /\ (evaluation = "none" => ~o.correct)
      BY DEF Allowed
    <3>2. p \in MarkedOptions /\ p.correct = o.correct /\ p.image = url
      BY <2>2, <3>1 DEF MarkedOptions
    <3> QED  BY <3>1, <3>2 DEF Allowed
  <2>4. g[i] = p \/ g[i] = o
    BY <1>1, <2>1, <2>2 DEF Illustrated
  <2> QED  BY <2>3, <2>4
<1> QED  BY <1>1, <1>2, <1>3, SequenceOf

\* Ids do not run out.
LEMMA FreshId ==
  ASSUME NEW f \in Seq(MarkedOptions), Len(f) < MaxOptions
  PROVE  \E n \in OptionNames : n \notin {f[i].id : i \in DOMAIN f}
<1>1. PICK n \in Nat : n = Len(f) /\ DOMAIN f = 1..n
  OBVIOUS
<1>2. IsFiniteSet(1..n) /\ Cardinality(1..n) = n
  BY FS_Interval
<1>3. PICK ids : ids = {f[i].id : i \in DOMAIN f}
  OBVIOUS
<1>4. PICK g : g = [i \in 1..n |-> f[i].id]
  OBVIOUS
<1>5. g \in Surjection(1..n, ids)
  <2>1. g \in [1..n -> ids]
    BY <1>1, <1>3, <1>4
  <2>2. \A x \in ids : \E i \in 1..n : g[i] = x
    BY <1>1, <1>3, <1>4
  <2> QED  BY <2>1, <2>2 DEF Surjection
<1>6. IsFiniteSet(ids) /\ Cardinality(ids) <= n
  BY <1>2, <1>5, FS_Surjection
<1>7. ids \in SUBSET OptionNames
  <2> SUFFICES ASSUME NEW i \in DOMAIN f PROVE f[i].id \in OptionNames
    BY <1>3
  <2>1. f[i] \in MarkedOptions
    OBVIOUS
  <2> QED  BY <2>1 DEF MarkedOptions
<1>8. Cardinality(ids) < MaxOptions
  <2>1. Cardinality(ids) \in Nat
    BY <1>6, FS_CardinalityType
  <2> QED  BY <1>1, <1>6, <2>1, DraftsAssumption
<1>9. OptionNames \ ids # {}
  BY <1>6, <1>7, <1>8, DraftsAssumption
<1> QED  BY <1>3, <1>9
-----------------------------------------------------------------------------
(* Addresses that load.                                                    *)

LEMMA TransportLoads ==
  ASSUME NEW d \in Items, AllLoad(d)
  PROVE  AllLoad(FromTransport(d))
<1>1. CASE d \in Questions(Options)
  <2>1. d.kind = "choice" /\ d.options \in Seq(Options)
    BY <1>1 DEF Questions
  <2>2. PICK t : t = FromTransport(d)
    OBVIOUS
  <2>3. t.image = d.image /\ t.options = WithMarks(d.options, d.key) /\ t.kind = "choice"
    BY <1>1, <2>2, TransportedOf DEF Questions
  <2>4. \A i \in DOMAIN d.options : d.options[i].image # "broken"
    BY <2>1 DEF AllLoad
  <2>5. PICK o : o = WithMarks(d.options, d.key)
    OBVIOUS
  <2>6. DOMAIN o = DOMAIN d.options /\ \A i \in DOMAIN d.options : o[i].image = d.options[i].image
    BY <2>1, <2>5, MarksAreKnown
  <2>7. AllLoad(t)
    BY <2>3, <2>4, <2>5, <2>6 DEF AllLoad
  <2> QED  BY <2>2, <2>7
<1>2. CASE d \in TextActivities \cup Contents
  BY <1>2 DEF FromTransport, TextActivities, Contents
<1> QED  BY <1>1, <1>2 DEF Items

LEMMA DraftLoads ==
  ASSUME NEW s \in Sketches, AllLoad(s)
  PROVE  AllLoad(DraftOf(s))
<1>1. CASE s \in Questions(MarkedOptions)
  <2>1. s.kind = "choice" /\ s.options \in Seq(MarkedOptions)
    BY <1>1 DEF Questions
  <2>2. PICK w : w = DraftOf(s)
    OBVIOUS
  <2>3. w.image = s.image /\ w.options = Counting(s.options, s.evaluation) /\ w.kind = "choice"
    BY <1>1, <2>2, DraftOfFields DEF Questions
  <2>4. \A i \in DOMAIN s.options : s.options[i].image # "broken"
    BY <2>1 DEF AllLoad
  <2>5. PICK o : o = Counting(s.options, s.evaluation)
    OBVIOUS
  <2>6. DOMAIN o = DOMAIN s.options /\ \A i \in DOMAIN s.options : o[i].image = s.options[i].image
    BY <2>1, <2>5, CountingOptions
  <2>7. AllLoad(w)
    BY <2>3, <2>4, <2>5, <2>6 DEF AllLoad
  <2> QED  BY <2>2, <2>7
<1>2. CASE s \in TextActivities
  <2>1. s.kind = "text"
    BY <1>2 DEF TextActivities
  <2>2. DraftOf(s) = [s EXCEPT !.length = IF @ = 0 THEN 80 ELSE @,
                               !.words = IF @ = 0 THEN 3 ELSE @,
                               !.time = IF @ = 0 THEN 30 ELSE @]
    BY <2>1 DEF DraftOf
  <2>3. DraftOf(s).image = s.image /\ DraftOf(s).kind = "text"
    BY <1>2, <2>2 DEF TextActivities
  <2> QED  BY <2>3 DEF AllLoad
<1>3. CASE s \in Contents
  BY <1>3 DEF DraftOf, Contents
<1> QED  BY <1>1, <1>2, <1>3 DEF Sketches

LEMMA DefinitionLoads ==
  ASSUME NEW s \in Sketches, AllLoad(s)
  PROVE  AllLoad(ToDefinition(s))
<1>1. CASE s \in Questions(MarkedOptions)
  <2>1. s.kind = "choice" /\ s.options \in Seq(MarkedOptions)
    BY <1>1 DEF Questions
  <2>2. PICK d : d = ToDefinition(s)
    OBVIOUS
  <2>3. d.image = s.image /\ d.options = Unmarked(s.options) /\ d.kind = "choice"
    BY <1>1, <2>2, TransportOf DEF Questions
  <2>4. \A i \in DOMAIN s.options : s.options[i].image # "broken"
    BY <2>1 DEF AllLoad
  <2>5. PICK o : o = Unmarked(s.options)
    OBVIOUS
  <2>6. DOMAIN o = DOMAIN s.options /\ \A i \in DOMAIN s.options : o[i].image = s.options[i].image
    BY <2>1, <2>5, UnmarkedOptions
  <2>7. AllLoad(d)
    BY <2>3, <2>4, <2>5, <2>6 DEF AllLoad
  <2> QED  BY <2>2, <2>7
<1>2. CASE s \in TextActivities \cup Contents
  BY <1>2 DEF ToDefinition, TextActivities, Contents
<1> QED  BY <1>1, <1>2 DEF Sketches

LEMMA EditorSlideLoads ==
  ASSUME NEW w \in Sketches, AllLoad(w)
  PROVE  ToEditorSlide(w) \in Sketches /\ AllLoad(ToEditorSlide(w))
<1>1. CASE w \in Questions(MarkedOptions)
  <2>1. w.kind = "choice" /\ w.options \in Seq(MarkedOptions)
    BY <1>1 DEF Questions
  <2>2. PICK s : s = ToEditorSlide(w)
    OBVIOUS
  <2>3. /\ s \in Questions(MarkedOptions) /\ s.image = w.image /\ s.kind = "choice"
        /\ s.options = Trimmed(Counting(w.options, w.evaluation))
    BY <1>1, <2>2, EditedOf DEF Questions
  <2>4. \A i \in DOMAIN w.options : w.options[i].image # "broken"
    BY <2>1 DEF AllLoad
  <2>5. PICK c : c = Counting(w.options, w.evaluation)
    OBVIOUS
  <2>6. /\ c \in Seq(MarkedOptions) /\ DOMAIN c = DOMAIN w.options
        /\ \A i \in DOMAIN w.options : c[i].image = w.options[i].image
    BY <2>1, <2>5, CountingOptions
  <2>7. PICK o : o = Trimmed(c)
    OBVIOUS
  <2>8. DOMAIN o = DOMAIN c /\ \A i \in DOMAIN c : o[i].image = c[i].image
    BY <2>6, <2>7, TrimmedOptions
  <2>9. AllLoad(s)
    BY <2>1, <2>3, <2>4, <2>5, <2>6, <2>7, <2>8 DEF AllLoad
  <2> QED  BY <2>2, <2>3, <2>9 DEF Sketches
<1>2. CASE w \in TextActivities \cup Contents
  BY <1>2 DEF ToEditorSlide, TextActivities, Contents, Sketches
<1> QED  BY <1>1, <1>2 DEF Sketches

LEMMA NewSlideLoads ==
  ASSUME NEW choice \in TypeChoices
  PROVE  NewSlide(choice) \in Sketches /\ AllLoad(NewSlide(choice))
<1>1. CASE choice = "content"
  <2>1. PICK n : n = NewContent
    OBVIOUS
  <2>2. n \in Contents /\ n.image = "" /\ n.kind = "content"
    BY <2>1 DEF NewContent, Contents, DraftTexts, Images
  <2> QED  BY <1>1, <2>1, <2>2 DEF NewSlide, Sketches, AllLoad
<1>2. CASE choice = "word-cloud"
  <2>1. PICK n : n = NewTextActivity
    OBVIOUS
  <2>2. n \in TextActivities
    <3>1. PICK l \in Int, k \in Int, t \in Int : l = 80 /\ k = 3 /\ t = 30
      OBVIOUS
    <3>2. n = [kind |-> "text", title |-> "", text |-> "word", image |-> "", length |-> l,
               words |-> k, time |-> t]
      BY <2>1, <3>1 DEF NewTextActivity
    <3>3. "" \in DraftTexts /\ "word" \in DraftTexts /\ "" \in Images
      BY DEF DraftTexts, Images
    <3> QED  BY <3>2, <3>3 DEF TextActivities
  <2>3. n.image = "" /\ n.kind = "text"
    BY <2>1 DEF NewTextActivity
  <2> QED  BY <1>2, <2>1, <2>2, <2>3 DEF NewSlide, Sketches, AllLoad
<1>3. CASE choice \notin {"content", "word-cloud"}
  <2>1. PICK type : type = SelectionOf(choice)
    OBVIOUS
  <2>2. type \in {"single", "multiple"}
    BY <2>1 DEF SelectionOf
  <2>3. NewSlide(choice) = NewQuestion(type, Policy(choice))
    BY <1>3, <2>1 DEF NewSlide
  <2>4. PICK q : q = NewQuestion(type, Policy(choice))
    OBVIOUS
  <2>5. q \in Questions(MarkedOptions)
    BY <2>2, <2>4, NewQuestionIsValid
  <2>6. q.image = ""
    BY <2>4 DEF NewQuestion
  <2>7. PICK m : m = (Policy(choice).evaluation = "correctness")
    OBVIOUS
  <2>8. \A i \in DOMAIN q.options : q.options[i].image = ""
    <3>1. PICK a : a = [id |-> "o1", text |-> "word", image |-> "", correct |-> m]
      OBVIOUS
    <3>2. PICK b : b = [id |-> "o2", text |-> "word", image |-> "", correct |-> FALSE]
      OBVIOUS
    <3>3. q.options = <<a, b>>
      BY <2>4, <2>7, <3>1, <3>2 DEF NewQuestion
    <3>4. a.image = "" /\ b.image = ""
      BY <3>1, <3>2
    <3>5. PICK o : o = <<a, b>>
      OBVIOUS
    <3>6. \A i \in DOMAIN o : o[i] = a \/ o[i] = b
      BY <3>5
    <3> QED  BY <3>3, <3>4, <3>5, <3>6
  <2>9. AllLoad(q)
    BY <2>6, <2>8 DEF AllLoad
  <2> QED  BY <2>3, <2>4, <2>5, <2>9 DEF Sketches
<1> QED  BY <1>1, <1>2, <1>3

LEMMA ConvertedLoads ==
  ASSUME NEW s, IsSlide(s), AllLoad(s), NEW choice \in TypeChoices
  PROVE  Converted(s, choice) \in Sketches /\ AllLoad(Converted(s, choice))
<1>1. CASE s.kind # "choice" \/ choice \in {"content", "word-cloud"}
  BY <1>1, NewSlideLoads DEF Converted
<1>2. CASE s.kind = "choice" /\ choice \notin {"content", "word-cloud"}
  <2>1. s \in Questions(MarkedOptions) /\ s.options \in Seq(MarkedOptions)
    BY <1>2, KindsDiffer DEF IsSlide, Questions
  <2>2. PICK type : type = IF choice = "poll" THEN s.type ELSE SelectionOf(choice)
    OBVIOUS
  <2>3. type \in {"single", "multiple"}
    BY <2>1, <2>2 DEF Questions, SelectionOf
  <2>4. PICK q : q = AsQuestion(s, type, Policy(choice))
    OBVIOUS
  <2>5. Converted(s, choice) = q
    BY <1>2, <2>2, <2>4 DEF Converted
  <2>6. q \in Questions(MarkedOptions)
    BY <2>1, <2>3, <2>4, ConvertedIsValid
  <2>7. q.image = s.image
    BY <2>1, <2>4 DEF AsQuestion, Questions
  <2>8. PICK places : places = Places(s, type, Policy(choice))
    OBVIOUS
  <2>9. PICK o : o = Remarked(s.options, places)
    OBVIOUS
  <2>10. q.options = o
    BY <2>1, <2>4, <2>8, <2>9 DEF AsQuestion, Questions
  <2>11. DOMAIN o = DOMAIN s.options /\ \A i \in DOMAIN s.options : o[i].image = s.options[i].image
    BY <2>1, <2>9, RemarkedOptions
  <2>12. AllLoad(q)
    BY <1>2, <2>7, <2>10, <2>11 DEF AllLoad
  <2> QED  BY <2>5, <2>6, <2>12 DEF Sketches
<1> QED  BY <1>1, <1>2
-----------------------------------------------------------------------------
(* The invariants and the edits.                                           *)

OthersLoad == \A d \in ApiItems : AllLoad(d)

Keeps == DraftsInv' /\ (OthersLoad /\ ImagesLoad => ImagesLoad')

LEMMA NothingChanges ==
  ASSUME DraftsInv, UNCHANGED <<item, slide, sketch, sending, warned, picker>>
  PROVE  Keeps
<1>1. SlideIsShown'
  BY DEF DraftsInv, SlideIsShown
<1>2. RequestIsSound'
  BY DEF DraftsInv, RequestIsSound
<1>3. PickerFits'
  BY DEF DraftsInv, PickerFits
<1>4. ImagesLoad => ImagesLoad'
  BY DEF ImagesLoad
<1> QED  BY <1>1, <1>2, <1>3, <1>4 DEF Keeps, DraftsInv

\* One step that changes the draft alone.
LEMMA SketchStep ==
  ASSUME DraftsInv, slide.rev > 0, NEW w, sketch' = w, Follows(sketch, w),
         UNCHANGED <<item, slide, sending, warned>>,
         picker' = picker \/ picker' = NoPicker
  PROVE  Keeps
<1>1. IsSketch(w) /\ w.kind = sketch.kind /\ (AllLoad(sketch) => AllLoad(w))
  BY DEF Follows
<1>2. SlideIsShown'
  BY <1>1 DEF DraftsInv, SlideIsShown
<1>3. RequestIsSound'
  BY DEF DraftsInv, RequestIsSound
<1>4. NoPicker \in Pickers /\ NoPicker.target = "none"
  BY DEF NoPicker, Pickers, Images
<1>5. PickerFits'
  BY <1>1, <1>4 DEF DraftsInv, PickerFits
<1>6. ImagesLoad => ImagesLoad'
  BY <1>1 DEF ImagesLoad
<1> QED  BY <1>2, <1>3, <1>5, <1>6 DEF Keeps, DraftsInv

LEMMA EditStep ==
  ASSUME DraftsInv, NEW w, Edit(w), Follows(sketch, w)
  PROVE  Keeps
BY SketchStep DEF Edit, Editable

LEMMA EditedKind ==
  ASSUME DraftsInv, NEW w, Edit(w)
  PROVE  /\ IsSketch(sketch)
         /\ sketch.kind = "choice" => sketch \in Questions(MarkedOptions)
         /\ sketch.kind = "text" => sketch \in TextActivities
         /\ sketch.kind = "content" => sketch \in Contents
<1>1. IsSketch(sketch)
  BY DEF DraftsInv, SlideIsShown, Edit, Editable
<1>2. sketch \in Sketches
  BY <1>1 DEF IsSketch
<1> QED  BY <1>1, <1>2, KindsDiffer

LEMMA EditQuestionStep ==
  ASSUME DraftsInv, EditQuestion
  PROVE  Keeps
<1>1. CASE \E t \in Typed : Edit([sketch EXCEPT !.text = t])
  <2>1. PICK t \in Typed : Edit([sketch EXCEPT !.text = t])
    BY <1>1
  <2>2. IsSketch(sketch) /\ sketch \in Questions(MarkedOptions)
    BY <2>1, EditedKind DEF EditQuestion, IsQuestion
  <2>3. t \in DraftTexts
    BY DEF Typed, DraftTexts
  <2>4. Follows(sketch, [sketch EXCEPT !.text = t])
    BY <2>2, <2>3, QuestionTyped
  <2> QED  BY <2>1, <2>4, EditStep
<1>2. CASE \E n \in {NaN, 0, MaxDuration + 1} : Edit([sketch EXCEPT !.time = n])
  <2>1. PICK n \in {NaN, 0, MaxDuration + 1} : Edit([sketch EXCEPT !.time = n])
    BY <1>2
  <2>2. IsSketch(sketch) /\ sketch \in Questions(MarkedOptions)
    BY <2>1, EditedKind DEF EditQuestion, IsQuestion
  <2>3. n \in Int
    BY SMT DEF NaN, MaxDuration
  <2>4. Follows(sketch, [sketch EXCEPT !.time = n])
    BY <2>2, <2>3, QuestionTyped
  <2> QED  BY <2>1, <2>4, EditStep
<1> QED  BY <1>1, <1>2 DEF EditQuestion

LEMMA EditScoringStep ==
  ASSUME DraftsInv, EditScoring
  PROVE  Keeps
<1>0. sketch.kind = "choice" /\ sketch.scoring = "points"
  BY DEF EditScoring, IsQuestion, Scored
<1>1. CASE \E n \in {NaN, 0, 1} : Edit([sketch EXCEPT !.max = n])
  <2>1. PICK n \in {NaN, 0, 1} : Edit([sketch EXCEPT !.max = n])
    BY <1>1
  <2>2. IsSketch(sketch) /\ sketch \in Questions(MarkedOptions)
    BY <1>0, <2>1, EditedKind
  <2>3. n \in Int
    BY SMT DEF NaN, MaxDuration
  <2>4. Follows(sketch, [sketch EXCEPT !.max = n])
    BY <1>0, <2>2, <2>3, ScoringTyped
  <2> QED  BY <2>1, <2>4, EditStep
<1>2. CASE \E n \in {NaN, 1, 2} : Edit([sketch EXCEPT !.min = n])
  <2>1. PICK n \in {NaN, 1, 2} : Edit([sketch EXCEPT !.min = n])
    BY <1>2
  <2>2. IsSketch(sketch) /\ sketch \in Questions(MarkedOptions)
    BY <1>0, <2>1, EditedKind
  <2>3. n \in Int
    BY SMT DEF NaN, MaxDuration
  <2>4. Follows(sketch, [sketch EXCEPT !.min = n])
    BY <1>0, <2>2, <2>3, ScoringTyped
  <2> QED  BY <2>1, <2>4, EditStep
<1>3. CASE Edit([sketch EXCEPT !.faster = ~@])
  <2>1. PICK b : b = ~sketch.faster
    OBVIOUS
  <2>2. Edit([sketch EXCEPT !.faster = b])
    BY <1>3, <2>1
  <2>3. IsSketch(sketch) /\ sketch \in Questions(MarkedOptions)
    BY <1>0, <2>2, EditedKind
  <2>4. b \in BOOLEAN
    BY <2>1
  <2>5. Follows(sketch, [sketch EXCEPT !.faster = b])
    BY <1>0, <2>3, <2>4, ScoringTyped
  <2> QED  BY <2>2, <2>5, EditStep
<1>4. CASE sketch.type # "single" /\ Edit([sketch EXCEPT !.partial = sketch.type = "multiple" /\ ~@])
  <2>1. PICK p : p = (sketch.type = "multiple" /\ ~sketch.partial)
    OBVIOUS
  <2>2. Edit([sketch EXCEPT !.partial = p])
    BY <1>4, <2>1
  <2>3. IsSketch(sketch) /\ sketch \in Questions(MarkedOptions)
    BY <1>0, <2>2, EditedKind
  <2>4. p \in BOOLEAN /\ (p => sketch.type = "multiple")
    BY <2>1
  <2>5. Follows(sketch, [sketch EXCEPT !.partial = p])
    BY <1>0, <2>3, <2>4, ScoringTyped
  <2> QED  BY <2>2, <2>5, EditStep
<1>5. CASE Edit([sketch EXCEPT !.board = ~@])
  <2>1. PICK b : b = ~sketch.board
    OBVIOUS
  <2>2. Edit([sketch EXCEPT !.board = b])
    BY <1>5, <2>1
  <2>3. IsSketch(sketch) /\ sketch \in Questions(MarkedOptions)
    BY <1>0, <2>2, EditedKind
  <2>4. b \in BOOLEAN
    BY <2>1
  <2>5. Follows(sketch, [sketch EXCEPT !.board = b])
    BY <1>0, <2>3, <2>4, ScoringTyped
  <2> QED  BY <2>2, <2>5, EditStep
<1> QED  BY <1>1, <1>2, <1>3, <1>4, <1>5 DEF EditScoring

LEMMA EditTextActivityStep ==
  ASSUME DraftsInv, EditTextActivity
  PROVE  Keeps
<1>1. CASE \E t \in Typed : Edit([sketch EXCEPT !.title = t]) \/ Edit([sketch EXCEPT !.text = t])
  <2>1. PICK t \in Typed : Edit([sketch EXCEPT !.title = t]) \/ Edit([sketch EXCEPT !.text = t])
    BY <1>1
  <2>2. IsSketch(sketch) /\ sketch \in TextActivities
    BY <2>1, EditedKind DEF EditTextActivity
  <2>3. t \in DraftTexts
    BY DEF Typed, DraftTexts
  <2>4. Follows(sketch, [sketch EXCEPT !.title = t]) /\ Follows(sketch, [sketch EXCEPT !.text = t])
    BY <2>2, <2>3, TextActivityTyped
  <2> QED  BY <2>1, <2>4, EditStep
<1>2. CASE \E n \in {0, 11} : Edit([sketch EXCEPT !.words = n])
  <2>1. PICK n \in {0, 11} : Edit([sketch EXCEPT !.words = n])
    BY <1>2
  <2>2. IsSketch(sketch) /\ sketch \in TextActivities
    BY <2>1, EditedKind DEF EditTextActivity
  <2>3. n \in Int
    BY SMT DEF MaxDuration, MaxLength
  <2>4. Follows(sketch, [sketch EXCEPT !.words = n])
    BY <2>2, <2>3, TextActivityTyped
  <2> QED  BY <2>1, <2>4, EditStep
<1>3. CASE \E n \in {0, MaxLength + 1} : Edit([sketch EXCEPT !.length = n])
  <2>1. PICK n \in {0, MaxLength + 1} : Edit([sketch EXCEPT !.length = n])
    BY <1>3
  <2>2. IsSketch(sketch) /\ sketch \in TextActivities
    BY <2>1, EditedKind DEF EditTextActivity
  <2>3. n \in Int
    BY SMT DEF MaxDuration, MaxLength
  <2>4. Follows(sketch, [sketch EXCEPT !.length = n])
    BY <2>2, <2>3, TextActivityTyped
  <2> QED  BY <2>1, <2>4, EditStep
<1>4. CASE \E n \in {0, MaxDuration + 1} : Edit([sketch EXCEPT !.time = n])
  <2>1. PICK n \in {0, MaxDuration + 1} : Edit([sketch EXCEPT !.time = n])
    BY <1>4
  <2>2. IsSketch(sketch) /\ sketch \in TextActivities
    BY <2>1, EditedKind DEF EditTextActivity
  <2>3. n \in Int
    BY SMT DEF MaxDuration, MaxLength
  <2>4. Follows(sketch, [sketch EXCEPT !.time = n])
    BY <2>2, <2>3, TextActivityTyped
  <2> QED  BY <2>1, <2>4, EditStep
<1> QED  BY <1>1, <1>2, <1>3, <1>4 DEF EditTextActivity

LEMMA EditSlideContentStep ==
  ASSUME DraftsInv, EditSlideContent
  PROVE  Keeps
<1>1. PICK t \in Typed \cup {""} :
         Edit([sketch EXCEPT !.title = t]) \/ Edit([sketch EXCEPT !.text = t])
  BY DEF EditSlideContent
<1>2. IsSketch(sketch) /\ sketch \in Contents
  BY <1>1, EditedKind DEF EditSlideContent
<1>3. t \in DraftTexts
  BY DEF Typed, DraftTexts
<1>4. Follows(sketch, [sketch EXCEPT !.title = t]) /\ Follows(sketch, [sketch EXCEPT !.text = t])
  BY <1>2, <1>3, ContentTyped
<1> QED  BY <1>1, <1>4, EditStep

LEMMA RemoveImageStep ==
  ASSUME DraftsInv, RemoveImage
  PROVE  Keeps
<1>1. Edit([sketch EXCEPT !.image = ""])
  BY DEF RemoveImage
<1>2. \/ IsSketch(sketch) /\ sketch \in Contents
      \/ IsSketch(sketch) /\ sketch \in Questions(MarkedOptions)
  BY <1>1, EditedKind DEF RemoveImage
<1>3. Follows(sketch, [sketch EXCEPT !.image = ""])
  BY <1>2, ContentTyped, QuestionTyped
<1> QED  BY <1>1, <1>3, EditStep

\* An edit of the options alone.
LEMMA OptionsStep ==
  ASSUME DraftsInv, NEW o, Edit([sketch EXCEPT !.options = o]), sketch.kind = "choice",
         o \in Seq(Allowed(sketch.evaluation, AllLoad(sketch)))
  PROVE  Keeps
<1>1. IsSketch(sketch) /\ sketch \in Questions(MarkedOptions)
  BY EditedKind
<1>2. PICK w \in Questions(MarkedOptions) : w = sketch
  BY <1>1
<1>3. PICK v : v = [w EXCEPT !.options = o]
  OBVIOUS
<1>4. Follows(w, v)
  BY <1>1, <1>2, <1>3, OptionsEdited
<1> QED  BY <1>2, <1>3, <1>4, EditStep

\* What the lemmas about options need of the draft.
LEMMA SketchedOptions ==
  ASSUME DraftsInv, NEW w, Edit(w), sketch.kind = "choice",
         NEW f, f = sketch.options, NEW ev, ev = sketch.evaluation, NEW ok, ok = AllLoad(sketch)
  PROVE  /\ f \in Seq(MarkedOptions) /\ f \in Seq(Allowed(ev, ok))
         /\ ev \in {"none", "correctness"}
         /\ ev = "none" => Marked(f) = {}
<1>1. IsSketch(sketch) /\ sketch \in Questions(MarkedOptions)
  BY EditedKind
<1>2. sketch.evaluation \in {"none", "correctness"}
  BY <1>1 DEF Questions
<1> QED  BY <1>1, <1>2, SketchOptions

LEMMA AddOptionStep ==
  ASSUME DraftsInv, AddOption
  PROVE  Keeps
<1>1. PICK f : f = sketch.options
  OBVIOUS
<1>2. PICK ev : ev = sketch.evaluation
  OBVIOUS
<1>3. PICK ok : ok = AllLoad(sketch)
  OBVIOUS
<1>4. PICK n : n = CHOOSE x \in OptionNames : x \notin {f[i].id : i \in DOMAIN f}
  OBVIOUS
<1>5. PICK c : c = (ev = "correctness" /\ f = <<>>)
  OBVIOUS
<1>6. PICK e : e = [id |-> n, text |-> "word", image |-> "", correct |-> c]
  OBVIOUS
<1>7. PICK o : o = Append(f, e)
  OBVIOUS
<1>8. sketch.kind = "choice" /\ Len(f) < MaxOptions
  BY <1>1 DEF AddOption, IsQuestion
<1>9. Edit([sketch EXCEPT !.options = o])
  BY <1>1, <1>2, <1>4, <1>5, <1>6, <1>7 DEF AddOption, OptionIds
<1>10. /\ f \in Seq(MarkedOptions) /\ f \in Seq(Allowed(ev, ok))
       /\ ev \in {"none", "correctness"}
  BY <1>1, <1>2, <1>3, <1>8, <1>9, SketchedOptions
<1>11. n \in OptionNames
  BY <1>4, <1>8, <1>10, FreshId
<1>12. c \in BOOLEAN /\ (ev = "none" => ~c)
  BY <1>5
<1>13. e \in MarkedOptions /\ e.correct = c /\ e.image = ""
  BY <1>6, <1>11, <1>12 DEF MarkedOptions, DraftTexts, Images
<1>14. e \in Allowed(ev, ok)
  BY <1>12, <1>13 DEF Allowed
<1>15. o \in Seq(Allowed(ev, ok))
  BY <1>7, <1>10, <1>14
<1> QED  BY <1>2, <1>3, <1>8, <1>9, <1>15, OptionsStep

LEMMA DeleteOptionStep ==
  ASSUME DraftsInv, NEW i \in 1..MaxOptions, DeleteOption(i)
  PROVE  Keeps
<1>1. PICK f : f = sketch.options
  OBVIOUS
<1>2. PICK ev : ev = sketch.evaluation
  OBVIOUS
<1>3. PICK ok : ok = AllLoad(sketch)
  OBVIOUS
<1>4. PICK r : r = SQ!RemoveAt(f, i)
  OBVIOUS
<1>5. PICK type : type = sketch.type
  OBVIOUS
<1>6. PICK o : o = EnsureCorrectOption(r, type, ev)
  OBVIOUS
<1>7. sketch.kind = "choice" /\ i \in DOMAIN f
  BY <1>1 DEF DeleteOption, IsQuestion
<1>8. Edit([sketch EXCEPT !.options = o])
  BY <1>1, <1>2, <1>4, <1>5, <1>6 DEF DeleteOption
<1>9. f \in Seq(Allowed(ev, ok)) /\ ev \in {"none", "correctness"}
  BY <1>1, <1>2, <1>3, <1>7, <1>8, SketchedOptions
<1>10. r \in Seq(Allowed(ev, ok))
  <2>1. i \in 1..Len(f)
    BY <1>7, <1>9
  <2> QED  BY <1>4, <1>9, <2>1, RemoveKeeps
<1>11. o \in Seq(Allowed(ev, ok))
  BY <1>6, <1>9, <1>10, EnsureKeeps
<1> QED  BY <1>2, <1>3, <1>7, <1>8, <1>11, OptionsStep

LEMMA EditOptionStep ==
  ASSUME DraftsInv, NEW i \in 1..MaxOptions, EditOption(i)
  PROVE  Keeps
<1>1. PICK f : f = sketch.options
  OBVIOUS
<1>2. PICK ev : ev = sketch.evaluation
  OBVIOUS
<1>3. PICK ok : ok = AllLoad(sketch)
  OBVIOUS
<1>4. sketch.kind = "choice" /\ i \in DOMAIN f
  BY <1>1 DEF EditOption, IsQuestion
<1>5. ASSUME NEW w, Edit(w)
      PROVE  /\ f \in Seq(Allowed(ev, ok)) /\ f[i] \in Allowed(ev, ok)
             /\ DOMAIN f = 1..Len(f)
             /\ f[i] \in MarkedOptions /\ (ev = "none" => ~f[i].correct)
             /\ ok => f[i].image # "broken"
             /\ sketch = [sketch EXCEPT !.options = f]
  <2>1. f \in Seq(Allowed(ev, ok)) /\ f \in Seq(MarkedOptions)
    BY <1>1, <1>2, <1>3, <1>4, <1>5, SketchedOptions
  <2>2. sketch \in Questions(MarkedOptions)
    BY <1>4, <1>5, EditedKind
  <2>3. sketch = [sketch EXCEPT !.options = f]
    BY <1>1, <2>2 DEF Questions
  <2>4. f[i] \in Allowed(ev, ok)
    BY <1>4, <2>1
  <2> QED  BY <2>1, <2>3, <2>4 DEF Allowed
<1>6. ASSUME NEW t \in Typed, Edit([sketch EXCEPT !.options[i].text = t])
      PROVE  Keeps
  <2>1. PICK e : e = [f[i] EXCEPT !.text = t]
    OBVIOUS
  <2>2. PICK o : o = [f EXCEPT ![i] = e]
    OBVIOUS
  <2>3. Edit([sketch EXCEPT !.options = o])
    BY <1>1, <1>6, <2>1, <2>2
  <2>4. /\ f \in Seq(Allowed(ev, ok)) /\ f[i] \in MarkedOptions
        /\ (ev = "none" => ~f[i].correct) /\ (ok => f[i].image # "broken")
    BY <1>5, <2>3
  <2>5. t \in DraftTexts
    BY DEF Typed, DraftTexts
  <2>6. e \in MarkedOptions /\ e.correct = f[i].correct /\ e.image = f[i].image
    BY <2>1, <2>4, <2>5 DEF MarkedOptions
  <2>7. e \in Allowed(ev, ok)
    BY <2>4, <2>6 DEF Allowed
  <2>8. o \in Seq(Allowed(ev, ok))
    BY <1>4, <2>2, <2>4, <2>7, ReplacedKeeps
  <2> QED  BY <1>2, <1>3, <1>4, <2>3, <2>8, OptionsStep
<1>7. ASSUME Edit([sketch EXCEPT !.options[i].image = ""])
      PROVE  Keeps
  <2>1. PICK e : e = [f[i] EXCEPT !.image = ""]
    OBVIOUS
  <2>2. PICK o : o = [f EXCEPT ![i] = e]
    OBVIOUS
  <2>3. Edit([sketch EXCEPT !.options = o])
    BY <1>1, <1>7, <2>1, <2>2
  <2>4. /\ f \in Seq(Allowed(ev, ok)) /\ f[i] \in MarkedOptions
        /\ (ev = "none" => ~f[i].correct)
    BY <1>5, <2>3
  <2>5. e \in MarkedOptions /\ e.correct = f[i].correct /\ e.image = ""
    BY <2>1, <2>4 DEF MarkedOptions, Images
  <2>6. e \in Allowed(ev, ok)
    BY <2>4, <2>5 DEF Allowed
  <2>7. o \in Seq(Allowed(ev, ok))
    BY <1>4, <2>2, <2>4, <2>6, ReplacedKeeps
  <2> QED  BY <1>2, <1>3, <1>4, <2>3, <2>7, OptionsStep
<1> QED  BY <1>6, <1>7 DEF EditOption

LEMMA ToggleCorrectStep ==
  ASSUME DraftsInv, NEW i \in 1..MaxOptions, ToggleCorrect(i)
  PROVE  Keeps
<1>1. PICK f : f = sketch.options
  OBVIOUS
<1>2. PICK ev : ev = sketch.evaluation
  OBVIOUS
<1>3. PICK ok : ok = AllLoad(sketch)
  OBVIOUS
<1>4. sketch.kind = "choice" /\ ev # "none" /\ i \in DOMAIN f
  BY <1>1, <1>2 DEF ToggleCorrect, IsQuestion
<1>5. CASE sketch.type = "single"
  <2>1. PICK o : o = Remarked(f, {i})
    OBVIOUS
  <2>2. Edit([sketch EXCEPT !.options = o])
    BY <1>1, <1>5, <2>1 DEF ToggleCorrect
  <2>3. f \in Seq(Allowed(ev, ok))
    BY <1>1, <1>2, <1>3, <1>4, <2>2, SketchedOptions
  <2>4. o \in Seq(Allowed(ev, ok))
    BY <1>4, <2>1, <2>3, RemarkedAllowed
  <2> QED  BY <1>2, <1>3, <1>4, <2>2, <2>4, OptionsStep
<1>6. CASE sketch.type # "single"
  <2>1. PICK c : c = ~f[i].correct
    OBVIOUS
  <2>2. PICK e : e = [f[i] EXCEPT !.correct = c]
    OBVIOUS
  <2>3. PICK o : o = [f EXCEPT ![i] = e]
    OBVIOUS
  <2>4. Edit([sketch EXCEPT !.options[i].correct = ~@])
    BY <1>6 DEF ToggleCorrect
  <2>5. Edit([sketch EXCEPT !.options = o])
    BY <1>1, <2>1, <2>2, <2>3, <2>4
  <2>6. f \in Seq(Allowed(ev, ok))
    BY <1>1, <1>2, <1>3, <1>4, <2>5, SketchedOptions
  <2>7. f[i] \in MarkedOptions /\ (ok => f[i].image # "broken")
    BY <1>4, <2>6 DEF Allowed
  <2>8. c \in BOOLEAN
    BY <2>1
  <2>9. e \in MarkedOptions /\ e.image = f[i].image
    BY <2>2, <2>7, <2>8 DEF MarkedOptions
  <2>10. e \in Allowed(ev, ok)
    BY <1>4, <2>7, <2>9 DEF Allowed
  <2>11. o \in Seq(Allowed(ev, ok))
    BY <1>4, <2>3, <2>6, <2>10, ReplacedKeeps
  <2> QED  BY <1>2, <1>3, <1>4, <2>5, <2>11, OptionsStep
<1> QED  BY <1>5, <1>6

LEMMA MoveOptionStep ==
  ASSUME DraftsInv, NEW i \in 1..MaxOptions, NEW j \in 1..MaxOptions, MoveOption(i, j)
  PROVE  Keeps
<1>1. PICK f : f = sketch.options
  OBVIOUS
<1>2. PICK ev : ev = sketch.evaluation
  OBVIOUS
<1>3. PICK ok : ok = AllLoad(sketch)
  OBVIOUS
<1>4. PICK r : r = SQ!RemoveAt(f, i)
  OBVIOUS
<1>5. PICK e : e = f[i]
  OBVIOUS
<1>6. PICK o : o = SQ!InsertAt(r, j, e)
  OBVIOUS
<1>7. sketch.kind = "choice" /\ i \in DOMAIN f /\ j \in DOMAIN f
  BY <1>1 DEF MoveOption, IsQuestion
<1>8. Edit([sketch EXCEPT !.options = o])
  BY <1>1, <1>4, <1>5, <1>6 DEF MoveOption
<1>9. f \in Seq(Allowed(ev, ok))
  BY <1>1, <1>2, <1>3, <1>7, <1>8, SketchedOptions
<1>10. DOMAIN f = 1..Len(f) /\ Len(f) \in Nat /\ e \in Allowed(ev, ok)
  BY <1>5, <1>7, <1>9
<1>11. r \in Seq(Allowed(ev, ok)) /\ Len(r) = Len(f) - 1
  BY <1>4, <1>7, <1>9, <1>10, RemoveKeeps
<1>12. j \in 1..(Len(r) + 1)
  BY <1>7, <1>10, <1>11
<1>13. o \in Seq(Allowed(ev, ok))
  BY <1>6, <1>10, <1>11, <1>12, InsertKeeps
<1> QED  BY <1>2, <1>3, <1>7, <1>8, <1>13, OptionsStep
-----------------------------------------------------------------------------
(* The image dialog.                                                       *)

LEMMA Illustrate ==
  ASSUME NEW w \in Sketches, IsSketch(w), NEW url \in Images, url # "broken"
  PROVE  Follows(w, [w EXCEPT !.image = url])
<1>1. PICK v : v = [w EXCEPT !.image = url]
  OBVIOUS
<1>2. CASE w \in Questions(MarkedOptions)
  <2>1. v \in Questions(MarkedOptions)
    BY <1>1, <1>2 DEF Questions
  <2>2. /\ v.kind = "choice" /\ w.kind = "choice" /\ v.key = w.key /\ v.type = w.type
        /\ v.evaluation = w.evaluation /\ v.scoring = w.scoring /\ v.options = w.options
        /\ v.min = w.min /\ v.max = w.max /\ v.faster = w.faster /\ v.board = w.board
        /\ v.partial = w.partial /\ v.image = url
    BY <1>1, <1>2 DEF Questions
  <2>3. IsSketch(v)
    BY <2>1, <2>2 DEF IsSketch, Sketches
  <2>4. AllLoad(w) => AllLoad(v)
    BY <2>2 DEF AllLoad
  <2> QED  BY <1>1, <2>2, <2>3, <2>4 DEF Follows
<1>3. CASE w \in TextActivities
  <2>1. v \in TextActivities /\ v.kind = "text" /\ w.kind = "text" /\ v.image = url
    BY <1>1, <1>3 DEF TextActivities
  <2> QED  BY <1>1, <2>1 DEF Follows, IsSketch, Sketches, AllLoad
<1>4. CASE w \in Contents
  <2>1. v \in Contents /\ v.kind = "content" /\ w.kind = "content" /\ v.image = url
    BY <1>1, <1>4 DEF Contents
  <2> QED  BY <1>1, <2>1 DEF Follows, IsSketch, Sketches, AllLoad
<1> QED  BY <1>2, <1>3, <1>4 DEF Sketches

LEMMA ImageIsKnown ==
  ASSUME NEW w, IsSketch(w), NEW target, target = "slide" \/ w.kind = "choice"
  PROVE  ImageAt(w, target) \in Images
<1>1. CASE target = "slide"
  BY <1>1 DEF ImageAt, IsSketch, Sketches, Questions, TextActivities, Contents
<1>2. CASE target # "slide"
  <2>1. w \in Questions(MarkedOptions)
    BY <1>2, KindsDiffer DEF IsSketch
  <2>2. PICK f : f = w.options
    OBVIOUS
  <2>3. f \in Seq(MarkedOptions)
    BY <2>1, <2>2 DEF Questions
  <2>4. PICK at : at = {i \in DOMAIN f : f[i].id = target}
    OBVIOUS
  <2>5. ImageAt(w, target) = IF at = {} THEN "" ELSE f[CHOOSE i \in at : TRUE].image
    BY <1>2, <2>2, <2>4 DEF ImageAt
  <2>6. CASE at = {}
    BY <2>5, <2>6 DEF Images
  <2>7. CASE at # {}
    <3>1. PICK i \in DOMAIN f : i = CHOOSE x \in at : TRUE
      BY <2>4, <2>7
    <3>2. f[i] \in MarkedOptions
      BY <2>3
    <3> QED  BY <2>5, <2>7, <3>1, <3>2 DEF MarkedOptions
  <2> QED  BY <2>6, <2>7
<1> QED  BY <1>1, <1>2

\* Steps of the dialog alone.
LEMMA PickerStep ==
  ASSUME DraftsInv, UNCHANGED <<item, slide, sketch, sending, warned>>,
         NEW p \in Pickers, picker' = p,
         p.target # "none" => slide.rev > 0,
         p.target \notin {"none", "slide"} => sketch.kind = "choice"
  PROVE  Keeps
<1>1. SlideIsShown'
  BY DEF DraftsInv, SlideIsShown
<1>2. RequestIsSound'
  BY DEF DraftsInv, RequestIsSound
<1>3. PickerFits'
  BY DEF PickerFits
<1>4. ImagesLoad => ImagesLoad'
  BY DEF ImagesLoad
<1> QED  BY <1>1, <1>2, <1>3, <1>4 DEF Keeps, DraftsInv

LEMMA PickStep ==
  ASSUME DraftsInv, NEW p \in Pickers, Pick(p), p.target \in {picker.target, "none"}
  PROVE  Keeps
<1>1. /\ picker.target # "none" => slide.rev > 0
      /\ picker.target \notin {"none", "slide"} => sketch.kind = "choice"
  BY DEF DraftsInv, PickerFits
<1>2. picker' = p /\ UNCHANGED <<item, slide, sketch, sending, warned>>
  BY DEF Pick
<1> QED  BY <1>1, <1>2, PickerStep

LEMMA OpenPickerStep ==
  ASSUME DraftsInv, NEW target \in Targets, OpenPicker(target)
  PROVE  Keeps
<1>1. /\ slide.rev > 0 /\ UNCHANGED <<item, slide, sketch, sending, warned>>
      /\ picker' = [NoPicker EXCEPT !.target = target, !.url = ImageAt(sketch, target)]
  BY DEF OpenPicker, Editable
<1>2. IsSketch(sketch)
  BY <1>1 DEF DraftsInv, SlideIsShown
<1>3. target = "slide" \/ (sketch.kind = "choice" /\ target \in OptionIds)
  BY DEF Targets, IsQuestion
<1>4. target \in OptionNames \cup {"slide"}
  <2>1. CASE sketch.kind = "choice" /\ target \in OptionIds
    <3>1. PICK f : f = sketch.options
      OBVIOUS
    <3>2. PICK i \in DOMAIN f : target = f[i].id
      BY <2>1, <3>1 DEF OptionIds
    <3>3. sketch \in Questions(MarkedOptions)
      BY <1>2, <2>1, KindsDiffer DEF IsSketch
    <3>4. f \in Seq(MarkedOptions)
      BY <3>1, <3>3 DEF Questions
    <3>5. f[i] \in MarkedOptions
      BY <3>4
    <3> QED  BY <3>2, <3>5 DEF MarkedOptions
  <2> QED  BY <1>3, <2>1
<1>5. PICK url : url = ImageAt(sketch, target)
  OBVIOUS
<1>6. url \in Images
  BY <1>2, <1>3, <1>5, ImageIsKnown
<1>7. PICK p : p = [NoPicker EXCEPT !.target = target, !.url = url]
  OBVIOUS
<1>8. PICK no \in BOOLEAN : no = FALSE
  OBVIOUS
<1>9. p = [target |-> target, url |-> url, preview |-> "", checking |-> no, asked |-> ""]
  BY <1>7, <1>8 DEF NoPicker
<1>10. p \in Pickers /\ p.target = target
  BY <1>4, <1>6, <1>9 DEF Pickers, Images
<1> QED  BY <1>1, <1>3, <1>5, <1>7, <1>10, PickerStep

LEMMA TypeAddressStep ==
  ASSUME DraftsInv, NEW url \in Images, TypeAddress(url)
  PROVE  Keeps
<1>1. picker \in Pickers
  BY DEF DraftsInv, PickerFits
<1>2. PICK p : p = [picker EXCEPT !.url = url, !.preview = ""]
  OBVIOUS
<1>3. p \in Pickers /\ p.target = picker.target
  BY <1>1, <1>2 DEF Pickers, Images
<1> QED  BY <1>2, <1>3, PickStep DEF TypeAddress

LEMMA CheckPreviewStep ==
  ASSUME DraftsInv, CheckPreview
  PROVE  Keeps
<1>1. picker \in Pickers
  BY DEF DraftsInv, PickerFits
<1>2. PICK yes \in BOOLEAN : yes = TRUE
  OBVIOUS
<1>3. PICK p : p = [picker EXCEPT !.preview = "", !.checking = yes, !.asked = picker.url]
  OBVIOUS
<1>4. p \in Pickers /\ p.target = picker.target
  BY <1>1, <1>3 DEF Pickers, Images
<1> QED  BY <1>2, <1>3, <1>4, PickStep DEF CheckPreview

LEMMA PreviewCheckedStep ==
  ASSUME DraftsInv, PreviewChecked
  PROVE  Keeps
<1>1. picker \in Pickers
  BY DEF DraftsInv, PickerFits
<1>2. PICK no \in BOOLEAN : no = FALSE
  OBVIOUS
<1>3. CASE /\ picker.asked # "broken"
           /\ Pick([picker EXCEPT !.preview = picker.asked, !.checking = FALSE, !.asked = ""])
  <2>1. PICK p : p = [picker EXCEPT !.preview = picker.asked, !.checking = no, !.asked = ""]
    OBVIOUS
  <2>2. p \in Pickers /\ p.target = picker.target
    BY <1>1, <1>3, <2>1 DEF Pickers, Images
  <2> QED  BY <1>2, <1>3, <2>1, <2>2, PickStep
<1>4. CASE Pick([picker EXCEPT !.checking = FALSE, !.asked = ""])
  <2>1. PICK p : p = [picker EXCEPT !.checking = no, !.asked = ""]
    OBVIOUS
  <2>2. p \in Pickers /\ p.target = picker.target
    BY <1>1, <2>1 DEF Pickers, Images
  <2> QED  BY <1>2, <1>4, <2>1, <2>2, PickStep
<1> QED  BY <1>3, <1>4 DEF PreviewChecked

LEMMA ClosedPicker == NoPicker \in Pickers /\ NoPicker.target = "none"
BY DEF NoPicker, Pickers, Images

LEMMA ClosePickerStep ==
  ASSUME DraftsInv, ClosePicker
  PROVE  Keeps
BY ClosedPicker, PickStep DEF ClosePicker

LEMMA ConfirmPickerStep ==
  ASSUME DraftsInv, ConfirmPicker
  PROVE  Keeps
<1>1. PICK url : url = picker.url
  OBVIOUS
<1>2. url \in Images /\ url # "broken"
  BY <1>1 DEF ConfirmPicker, PreviewIsOfThisUrl, DraftsInv, PickerFits, Pickers
<1>3. /\ picker.target # "none" /\ slide.rev > 0 /\ picker' = NoPicker
      /\ UNCHANGED <<item, slide, sending, warned>>
  BY DEF ConfirmPicker, DraftsInv, PickerFits
<1>4. IsSketch(sketch)
  BY <1>3 DEF DraftsInv, SlideIsShown
<1>5. CASE picker.target = "slide"
  <2>1. PICK w : w = sketch
    OBVIOUS
  <2>2. sketch' = [w EXCEPT !.image = url]
    BY <1>1, <1>5, <2>1 DEF ConfirmPicker
  <2>3. w \in Sketches /\ IsSketch(w)
    BY <1>4, <2>1 DEF IsSketch
  <2>4. Follows(w, [w EXCEPT !.image = url])
    BY <1>2, <2>3, Illustrate
  <2> QED  BY <1>3, <2>1, <2>2, <2>4, SketchStep
<1>6. CASE picker.target # "slide"
  <2>1. PICK w : w = sketch
    OBVIOUS
  <2>2. PICK f : f = w.options
    OBVIOUS
  <2>3. PICK o : o = Illustrated(f, picker.target, url)
    OBVIOUS
  <2>4. sketch' = [w EXCEPT !.options = o]
    BY <1>1, <1>6, <2>1, <2>2, <2>3 DEF ConfirmPicker
  <2>5. w.kind = "choice"
    BY <1>3, <1>6, <2>1 DEF DraftsInv, PickerFits
  <2>6. w \in Questions(MarkedOptions) /\ IsSketch(w)
    BY <1>4, <2>1, <2>5, KindsDiffer DEF IsSketch
  <2>7. f \in Seq(Allowed(w.evaluation, AllLoad(w)))
    BY <2>2, <2>6, SketchOptions
  <2>8. o \in Seq(Allowed(w.evaluation, AllLoad(w)))
    BY <1>2, <2>3, <2>7, IllustratedKeeps
  <2>9. Follows(w, [w EXCEPT !.options = o])
    BY <2>6, <2>8, OptionsEdited
  <2> QED  BY <1>3, <2>1, <2>4, <2>9, SketchStep
<1> QED  BY <1>5, <1>6
-----------------------------------------------------------------------------
(* Showing, sending, storing.                                              *)

LEMMA ShownKinds ==
  ASSUME NEW d, IsItem(d), NEW s, s = FromTransport(d)
  PROVE  IsSlide(s) /\ IsSketch(DraftOf(s)) /\ DraftOf(s).kind = s.kind
BY StoredIsSlide, SlideIsSketched

LEMMA ShownLoads ==
  ASSUME NEW d, IsItem(d), AllLoad(d), NEW s, s = FromTransport(d)
  PROVE  AllLoad(s) /\ AllLoad(DraftOf(s))
<1>1. AllLoad(s)
  BY TransportLoads DEF IsItem
<1>2. s \in Sketches
  BY ShownKinds DEF IsSlide
<1> QED  BY <1>1, <1>2, DraftLoads

LEMMA ShowStep ==
  ASSUME DraftsInv, NEW rev \in Nat, rev > 0, item.rev > 0, NEW d, IsItem(d),
         ShowSlide(rev, d), item' = item, sending' = sending \/ sending' = NoSending
  PROVE  DraftsInv' /\ (ImagesLoad /\ AllLoad(d) => ImagesLoad')
<1>1. PICK s : s = FromTransport(d)
  OBVIOUS
<1>2. PICK w : w = DraftOf(s)
  OBVIOUS
<1>3. IsSlide(s) /\ IsSketch(w) /\ w.kind = s.kind
  BY <1>1, <1>2, ShownKinds
<1>4. /\ slide' = [rev |-> rev, def |-> s] /\ sketch' = w
      /\ warned' => warned
      /\ picker' = IF s.kind = slide.def.kind THEN Reopened(w) ELSE NoPicker
  BY <1>1, <1>2 DEF ShowSlide
<1>5. slide'.rev = rev /\ slide'.def = s
  BY <1>4
<1>6. SlideIsShown'
  BY <1>3, <1>4, <1>5 DEF DraftsInv, SlideIsShown
<1>7. RequestIsSound'
  BY DEF DraftsInv, RequestIsSound
<1>8. picker \in Pickers
  BY DEF DraftsInv, PickerFits
<1>9. PickerFits'
  <2>1. CASE picker' = NoPicker
    BY <1>5, <2>1, ClosedPicker DEF PickerFits
  <2>2. CASE picker' = picker /\ s.kind = slide.def.kind
    <3>1. picker.target \notin {"none", "slide"} => w.kind = "choice"
      BY <1>3, <2>2 DEF DraftsInv, PickerFits, SlideIsShown
    <3> QED  BY <1>4, <1>5, <1>8, <2>2, <3>1 DEF PickerFits
  <2>3. CASE /\ s.kind = slide.def.kind /\ picker.target # "none"
             /\ picker' = [picker EXCEPT !.url = ImageAt(w, picker.target), !.preview = "",
                                         !.checking = FALSE]
    <3>1. picker.target \notin {"none", "slide"} => w.kind = "choice"
      BY <1>3, <2>3 DEF DraftsInv, PickerFits, SlideIsShown
    <3>2. PICK url : url = ImageAt(w, picker.target)
      OBVIOUS
    <3>3. url \in Images
      BY <1>3, <2>3, <3>1, <3>2, ImageIsKnown
    <3>4. PICK no \in BOOLEAN : no = FALSE
      OBVIOUS
    <3>5. PICK p : p = [picker EXCEPT !.url = url, !.preview = "", !.checking = no]
      OBVIOUS
    <3>6. p \in Pickers /\ p.target = picker.target
      BY <1>8, <3>3, <3>5 DEF Pickers, Images
    <3>7. picker' = p
      BY <2>3, <3>2, <3>4, <3>5
    <3> QED  BY <1>4, <1>5, <3>1, <3>6, <3>7 DEF PickerFits
  <2> QED  BY <1>4, <2>1, <2>2, <2>3 DEF Reopened
<1>10. ASSUME ImagesLoad, AllLoad(d)
       PROVE  ImagesLoad'
  <2>1. AllLoad(s) /\ AllLoad(w)
    BY <1>1, <1>2, <1>10, ShownLoads
  <2> QED  BY <1>4, <1>5, <1>10, <2>1 DEF ImagesLoad
<1> QED  BY <1>6, <1>7, <1>9, <1>10 DEF DraftsInv

LEMMA RefreshSlideStep ==
  ASSUME DraftsInv, RefreshSlide
  PROVE  Keeps
<1>1. PICK rev : rev = item.rev
  OBVIOUS
<1>2. PICK d : d = item.def
  OBVIOUS
<1>3. rev \in Nat /\ rev > 0 /\ item.rev > 0 /\ IsItem(d)
  BY <1>1, <1>2 DEF RefreshSlide, DraftsInv, SlideIsShown
<1>4. ShowSlide(rev, d) /\ item' = item /\ sending' = sending
  BY <1>1, <1>2 DEF RefreshSlide
<1>5. ImagesLoad => AllLoad(d)
  BY <1>2, <1>3 DEF ImagesLoad
<1> QED  BY <1>3, <1>4, <1>5, ShowStep DEF Keeps

LEMMA ReloadWarnedStep ==
  ASSUME DraftsInv, ReloadWarned
  PROVE  Keeps
<1>1. PICK s : s = FromTransport(item.def)
  OBVIOUS
<1>2. PICK w : w = DraftOf(s)
  OBVIOUS
<1>3. /\ slide' = [rev |-> item.rev, def |-> s] /\ warned' = FALSE
      /\ UNCHANGED <<item, sending, picker>> /\ warned /\ picker = NoPicker
  BY <1>1 DEF ReloadWarned
<1>4. slide'.rev = item.rev /\ slide'.def = s
  BY <1>3
<1>5. sketch' = w
  BY <1>2, <1>4 DEF ReloadWarned
<1>6. item.rev > 0 /\ item.rev \in Nat /\ IsItem(item.def)
  BY <1>3 DEF DraftsInv, SlideIsShown
<1>7. IsSlide(s) /\ IsSketch(w) /\ w.kind = s.kind
  BY <1>1, <1>2, <1>6, ShownKinds
<1>8. SlideIsShown'
  BY <1>3, <1>4, <1>5, <1>6, <1>7 DEF SlideIsShown
<1>9. RequestIsSound'
  BY <1>3 DEF DraftsInv, RequestIsSound
<1>10. PickerFits'
  BY <1>3, ClosedPicker DEF PickerFits
<1>11. ASSUME ImagesLoad
       PROVE  ImagesLoad'
  <2>1. AllLoad(item.def)
    BY <1>6, <1>11 DEF ImagesLoad
  <2>2. AllLoad(s) /\ AllLoad(w)
    BY <1>1, <1>2, <1>6, <2>1, ShownLoads
  <2> QED  BY <1>3, <1>4, <1>5, <1>11, <2>2 DEF ImagesLoad
<1> QED  BY <1>8, <1>9, <1>10, <1>11 DEF Keeps, DraftsInv

\* The draft is made anew from the slide.
LEMMA DroppedDraft ==
  ASSUME SlideIsShown, NEW w, w = DraftOf(slide.def)
  PROVE  /\ slide.rev = 0 => w = None
         /\ slide.rev > 0 => IsSketch(w) /\ w.kind = slide.def.kind
<1>1. slide.rev = 0 => w = None
  BY DEF SlideIsShown, DraftOf, None
<1>2. slide.rev > 0 => IsSketch(w) /\ w.kind = slide.def.kind
  BY SlideIsSketched DEF SlideIsShown
<1> QED  BY <1>1, <1>2

LEMMA DroppedLoads ==
  ASSUME SlideIsShown, ImagesLoad, slide.rev > 0, NEW w, w = DraftOf(slide.def)
  PROVE  AllLoad(w)
BY DraftLoads DEF SlideIsShown, ImagesLoad, IsSlide

LEMMA DiscardStep ==
  ASSUME DraftsInv, Discard
  PROVE  Keeps
<1>1. PICK w : w = DraftOf(slide.def)
  OBVIOUS
<1>2. /\ sketch' = w /\ picker = NoPicker /\ UNCHANGED <<item, slide, sending, warned, picker>>
  BY <1>1 DEF Discard
<1>3. /\ slide.rev = 0 => w = None
      /\ slide.rev > 0 => IsSketch(w) /\ w.kind = slide.def.kind
  BY <1>1, DroppedDraft DEF DraftsInv
<1>4. SlideIsShown'
  BY <1>2, <1>3 DEF DraftsInv, SlideIsShown
<1>5. RequestIsSound'
  BY <1>2 DEF DraftsInv, RequestIsSound
<1>6. PickerFits'
  BY <1>2, ClosedPicker DEF PickerFits
<1>7. ImagesLoad => ImagesLoad'
  BY <1>1, <1>2, DroppedLoads DEF DraftsInv, ImagesLoad
<1> QED  BY <1>4, <1>5, <1>6, <1>7 DEF Keeps, DraftsInv

\* A call that starts.
LEMMA SendStep ==
  ASSUME DraftsInv, NEW kind \in {"create", "save", "convert"}, NEW s,
         IsItem(ToDefinition(s)), kind # "create" => item.rev > 0,
         SendDefinition(kind, s), UNCHANGED <<item, slide, warned, picker>>,
         kind = "save" => /\ IsSketch(sketch) /\ SketchIsValid(sketch) /\ s = ToEditorSlide(sketch)
                          /\ sketch' = sketch /\ slide.rev > 0,
         kind # "save" => sketch' = DraftOf(slide.def)
  PROVE  DraftsInv' /\ (ImagesLoad /\ AllLoad(ToDefinition(s)) => ImagesLoad')
<1>1. PICK d : d = ToDefinition(s)
  OBVIOUS
<1>2. PICK w : w = sketch
  OBVIOUS
<1>3. PICK n : n = slide.rev
  OBVIOUS
<1>4. PICK call : call = [step |-> "sent", kind |-> kind, rev |-> n, def |-> d, shown |-> w]
  OBVIOUS
<1>5. sending' = call /\ picker = NoPicker
  BY <1>1, <1>2, <1>3, <1>4 DEF SendDefinition
<1>6. IsItem(d) /\ n \in Nat /\ w \in Sketches \cup {None} /\ item.rev \in Nat
  BY <1>1, <1>2, <1>3 DEF DraftsInv, SlideIsShown, IsSketch
<1>7. call \in Calls
  BY <1>4, <1>6 DEF Calls, IsItem
<1>8. call.kind = kind /\ call.def = d /\ call.shown = w /\ call.step = "sent"
  BY <1>4
<1>9. kind = "save" => /\ IsSketch(w) /\ SketchIsValid(w) /\ d = ToDefinition(ToEditorSlide(w))
                       /\ sketch' = w /\ slide.rev > 0
  BY <1>1, <1>2
<1>10. RequestIsSound'
  BY <1>5, <1>6, <1>7, <1>8, <1>9 DEF RequestIsSound
<1>11. kind # "save" => /\ slide.rev = 0 => sketch' = None
                        /\ slide.rev > 0 => IsSketch(sketch') /\ sketch'.kind = slide.def.kind
  BY DroppedDraft DEF DraftsInv
<1>12. SlideIsShown'
  <2>1. CASE kind = "save"
    BY <1>2, <1>9, <2>1 DEF DraftsInv, SlideIsShown
  <2>2. CASE kind # "save"
    BY <1>11, <2>2 DEF DraftsInv, SlideIsShown
  <2> QED  BY <2>1, <2>2
<1>13. PickerFits'
  BY <1>5, ClosedPicker DEF PickerFits
<1>14. ASSUME ImagesLoad, AllLoad(d)
       PROVE  ImagesLoad'
  <2>1. slide.rev > 0 => AllLoad(sketch')
    BY <1>2, <1>9, <1>14, DroppedLoads DEF DraftsInv, ImagesLoad
  <2>2. call.kind = "save" => AllLoad(call.shown)
    BY <1>2, <1>8, <1>9, <1>14 DEF ImagesLoad
  <2> QED  BY <1>5, <1>8, <1>14, <2>1, <2>2 DEF ImagesLoad
<1> QED  BY <1>1, <1>10, <1>12, <1>13, <1>14 DEF DraftsInv

LEMMA SaveSketchStep ==
  ASSUME DraftsInv, SaveSketch
  PROVE  Keeps
<1>1. slide.rev > 0
  <2>1. sketch # DraftOf(slide.def)
    BY DEF SaveSketch, SketchIsDirty
  <2>2. slide.rev # 0
    BY <2>1, DroppedDraft DEF DraftsInv, SlideIsShown
  <2> QED  BY <2>2 DEF DraftsInv, SlideIsShown
<1>2. IsSketch(sketch) /\ SketchIsValid(sketch) /\ item.rev > 0
  BY <1>1 DEF SaveSketch, DraftsInv, SlideIsShown
<1>3. PICK s : s = ToEditorSlide(sketch)
  OBVIOUS
<1>4. IsItem(ToDefinition(s))
  BY <1>2, <1>3, SavedIsAccepted
<1>5. /\ SendDefinition("save", s) /\ UNCHANGED <<item, slide, warned, picker>> /\ sketch' = sketch
  BY <1>3 DEF SaveSketch
<1>6. ImagesLoad => AllLoad(ToDefinition(s))
  <2>1. sketch \in Sketches
    BY <1>2 DEF IsSketch
  <2> QED  BY <1>1, <1>3, <2>1, EditorSlideLoads, DefinitionLoads DEF ImagesLoad
<1> QED  BY <1>1, <1>2, <1>3, <1>4, <1>5, <1>6, SendStep DEF Keeps

LEMMA ChooseTypeStep ==
  ASSUME DraftsInv, NEW choice \in TypeChoices, ChooseType(choice)
  PROVE  Keeps
<1>1. UNCHANGED <<item, slide, warned, picker>>
  BY DEF ChooseType
<1>2. sketch' = DraftOf(slide.def)
  BY DroppedDraft DEF ChooseType, DraftsInv
<1>3. CASE slide.rev = 0
  <2>1. PICK s : s = NewSlide(choice)
    OBVIOUS
  <2>2. SendDefinition("create", s)
    BY <1>3, <2>1 DEF ChooseType
  <2>3. IsItem(ToDefinition(s)) /\ AllLoad(ToDefinition(s))
    BY <2>1, NewIsAccepted, NewSlideLoads, DefinitionLoads
  <2> QED  BY <1>1, <1>2, <2>2, <2>3, SendStep DEF Keeps
<1>4. CASE slide.rev # 0
  <2>1. PICK s : s = Converted(slide.def, choice)
    OBVIOUS
  <2>2. SendDefinition("convert", s)
    BY <1>4, <2>1 DEF ChooseType
  <2>3. slide.rev > 0 /\ item.rev > 0 /\ IsSlide(slide.def)
    BY <1>4 DEF DraftsInv, SlideIsShown
  <2>4. IsItem(ToDefinition(s))
    BY <2>1, <2>3, ConvertedIsAccepted
  <2>5. ImagesLoad => AllLoad(ToDefinition(s))
    BY <2>1, <2>3, ConvertedLoads, DefinitionLoads DEF ImagesLoad
  <2> QED  BY <1>1, <1>2, <2>2, <2>3, <2>4, <2>5, SendStep DEF Keeps
<1> QED  BY <1>3, <1>4

\* What the server stores leaves the editor as it was.
LEMMA StoreStep ==
  ASSUME SlideIsShown, NEW d, IsItem(d), item.rev > 0 \/ slide.rev = 0, item' = Stored(d),
         UNCHANGED <<slide, sketch, warned>>
  PROVE  SlideIsShown' /\ item'.rev > 0 /\ item'.def = d /\ item'.rev \in Nat
<1>1. item'.rev = item.rev + 1 /\ item'.def = d
  BY DEF Stored
<1>2. item'.rev \in Nat /\ item'.rev > 0
  BY <1>1 DEF SlideIsShown
<1> QED  BY <1>1, <1>2 DEF SlideIsShown

LEMMA AnswerDefinitionStep ==
  ASSUME DraftsInv, AnswerDefinition
  PROVE  Keeps
<1>1. /\ sending \in Calls /\ IsItem(sending.def) /\ sending.step = "sent"
      /\ sending.kind # "create" => item.rev > 0
      /\ sending.kind = "save" =>
           /\ IsSketch(sending.shown) /\ SketchIsValid(sending.shown)
           /\ sending.def = ToDefinition(ToEditorSlide(sending.shown))
  BY DEF AnswerDefinition, DraftsInv, RequestIsSound, NoSending
<1>2. PICK ok \in BOOLEAN : ok <=> ~(sending.kind # "create" /\ sending.rev # item.rev)
  OBVIOUS
<1>3. /\ item' = IF ok THEN Stored(sending.def) ELSE item
      /\ \E o \in {IF ok THEN "ok" ELSE "conflict", "failed"} :
           sending' = [sending EXCEPT !.step = o, !.rev = item'.rev]
      /\ UNCHANGED <<slide, sketch, warned, picker>>
  BY <1>1, <1>2 DEF AnswerDefinition, IsItem
<1>4. PICK n : n = item'.rev
  OBVIOUS
<1>5. PICK o \in {IF ok THEN "ok" ELSE "conflict", "failed"} :
        sending' = [sending EXCEPT !.step = o, !.rev = n]
  BY <1>3, <1>4
<1>6. /\ SlideIsShown' /\ n \in Nat
      /\ o = "ok" => n > 0
      /\ sending.kind # "create" => n > 0
      /\ item'.rev > 0 => item'.def \in {item.def, sending.def}
      /\ item'.rev > 0 /\ item'.def # sending.def => item.rev > 0
  <2>1. CASE ok
    <3>1. item.rev > 0 \/ slide.rev = 0
      BY <1>1 DEF DraftsInv, SlideIsShown
    <3> QED  BY <1>1, <1>3, <1>4, <2>1, <3>1, StoreStep DEF DraftsInv
  <2>2. CASE ~ok
    <3>1. item' = item /\ o # "ok"
      BY <1>3, <1>5, <2>2
    <3> QED  BY <1>1, <1>3, <1>4, <3>1 DEF DraftsInv, SlideIsShown
  <2> QED  BY <2>1, <2>2
<1>7. PICK call : call = [sending EXCEPT !.step = o, !.rev = n]
  OBVIOUS
<1>8. /\ call \in Calls /\ call.kind = sending.kind /\ call.def = sending.def
      /\ call.shown = sending.shown /\ call.step = o /\ call.rev = n
  BY <1>1, <1>6, <1>7 DEF Calls
<1>9. RequestIsSound'
  BY <1>1, <1>4, <1>5, <1>6, <1>7, <1>8 DEF RequestIsSound
<1>10. PickerFits'
  BY <1>3 DEF DraftsInv, PickerFits
<1>11. ASSUME ImagesLoad
       PROVE  ImagesLoad'
  <2>1. sending # NoSending
    BY <1>1 DEF NoSending
  <2>2. AllLoad(sending.def) /\ (sending.kind = "save" => AllLoad(sending.shown))
    BY <1>11, <2>1 DEF ImagesLoad
  <2>3. item'.rev > 0 => AllLoad(item'.def)
    BY <1>6, <1>11, <2>2 DEF ImagesLoad
  <2> QED  BY <1>3, <1>5, <1>7, <1>8, <1>11, <2>2, <2>3 DEF ImagesLoad
<1> QED  BY <1>6, <1>9, <1>10, <1>11 DEF Keeps, DraftsInv

LEMMA LoseDefinitionStep ==
  ASSUME DraftsInv, LoseDefinition
  PROVE  Keeps
<1>1. /\ sending \in Calls /\ IsItem(sending.def)
      /\ sending.kind # "create" => item.rev > 0
      /\ sending.kind = "save" =>
           /\ IsSketch(sending.shown) /\ SketchIsValid(sending.shown)
           /\ sending.def = ToDefinition(ToEditorSlide(sending.shown))
  BY DEF LoseDefinition, DraftsInv, RequestIsSound, NoSending
<1>2. PICK call : call = [sending EXCEPT !.step = "failed"]
  OBVIOUS
<1>3. sending' = call /\ UNCHANGED <<item, slide, sketch, warned, picker>>
  BY <1>2 DEF LoseDefinition
<1>4. /\ call \in Calls /\ call.kind = sending.kind /\ call.def = sending.def
      /\ call.shown = sending.shown /\ call.step = "failed"
  BY <1>1, <1>2 DEF Calls
<1>5. RequestIsSound'
  BY <1>1, <1>3, <1>4 DEF RequestIsSound
<1>6. SlideIsShown'
  BY <1>3 DEF DraftsInv, SlideIsShown
<1>7. PickerFits'
  BY <1>3 DEF DraftsInv, PickerFits
<1>8. sending # NoSending
  BY DEF LoseDefinition, NoSending
<1>9. ImagesLoad => ImagesLoad'
  BY <1>3, <1>4, <1>8 DEF ImagesLoad
<1> QED  BY <1>5, <1>6, <1>7, <1>9 DEF Keeps, DraftsInv

LEMMA DefinitionSavedStep ==
  ASSUME DraftsInv, DefinitionSaved
  PROVE  Keeps
<1>1. PICK rev : rev = sending.rev
  OBVIOUS
<1>2. PICK d : d = sending.def
  OBVIOUS
<1>3. sending # NoSending
  BY DEF DefinitionSaved, NoSending
<1>4. rev \in Nat /\ rev > 0 /\ item.rev > 0 /\ IsItem(d)
  BY <1>1, <1>2, <1>3 DEF DefinitionSaved, DraftsInv, RequestIsSound, Calls
<1>5. ShowSlide(rev, d) /\ item' = item /\ sending' = NoSending
  BY <1>1, <1>2 DEF DefinitionSaved
<1>6. ImagesLoad => AllLoad(d)
  BY <1>2, <1>3 DEF ImagesLoad
<1> QED  BY <1>4, <1>5, <1>6, ShowStep DEF Keeps

LEMMA DefinitionRefusedStep ==
  ASSUME DraftsInv, DefinitionRefused
  PROVE  Keeps
<1>1. /\ sending' = NoSending /\ UNCHANGED <<item, slide, sketch, picker>>
      /\ warned' => warned \/ sending.kind = "save"
      /\ sending # NoSending
  <2>1. sending # NoSending
    BY DEF DefinitionRefused, NoSending
  <2>2. warned' = (warned \/ (sending.step = "conflict" /\ sending.kind = "save"))
    BY DEF DefinitionRefused
  <2>3. warned' => warned \/ sending.kind = "save"
    BY <2>2
  <2>4. sending' = NoSending /\ UNCHANGED <<item, slide, sketch, picker>>
    BY DEF DefinitionRefused
  <2> QED  BY <2>1, <2>3, <2>4
<1>2. sending.kind = "save" => item.rev > 0
  BY <1>1 DEF DraftsInv, RequestIsSound
<1>3. SlideIsShown'
  BY <1>1, <1>2 DEF DraftsInv, SlideIsShown
<1>4. RequestIsSound'
  BY <1>1 DEF RequestIsSound
<1>5. PickerFits'
  BY <1>1 DEF DraftsInv, PickerFits
<1>6. ImagesLoad => ImagesLoad'
  BY <1>1 DEF ImagesLoad
<1> QED  BY <1>3, <1>4, <1>5, <1>6 DEF Keeps, DraftsInv

LEMMA OtherStoresStep ==
  ASSUME DraftsInv, NEW d \in ApiItems, OtherStores(d)
  PROVE  Keeps
<1>1. IsItem(d)
  BY DraftsAssumption DEF OtherStores, IsItem
<1>2. /\ item.rev > 0 /\ item' = Stored(d) /\ UNCHANGED <<slide, sketch, sending, warned, picker>>
  BY DEF OtherStores
<1>3. SlideIsShown' /\ item'.rev > 0 /\ item'.def = d
  BY <1>1, <1>2, StoreStep DEF DraftsInv
<1>4. RequestIsSound'
  BY <1>2, <1>3 DEF DraftsInv, RequestIsSound
<1>5. PickerFits'
  BY <1>2 DEF DraftsInv, PickerFits
<1>6. OthersLoad /\ ImagesLoad => ImagesLoad'
  BY <1>2, <1>3 DEF OthersLoad, ImagesLoad
<1> QED  BY <1>3, <1>4, <1>5, <1>6 DEF Keeps, DraftsInv
-----------------------------------------------------------------------------
LEMMA DraftsStart ==
  ASSUME DraftsInit
  PROVE  DraftsInv /\ (OthersLoad => ImagesLoad)
<1>1. /\ sending = NoSending /\ warned = FALSE /\ picker = NoPicker
      /\ slide = IF item.rev = 0 THEN [rev |-> 0, def |-> None]
                 ELSE [rev |-> 1, def |-> FromTransport(item.def)]
      /\ sketch = IF item.rev = 0 THEN None ELSE DraftOf(slide.def)
  BY DEF DraftsInit
<1>2. RequestIsSound /\ PickerFits
  BY <1>1, ClosedPicker DEF RequestIsSound, PickerFits
<1>3. CASE item = [rev |-> 0, def |-> None]
  <2>1. item.rev = 0 /\ slide.rev = 0 /\ slide.def = None /\ sketch = None
    BY <1>1, <1>3
  <2>2. SlideIsShown
    BY <1>1, <2>1 DEF SlideIsShown
  <2>3. ImagesLoad
    BY <1>1, <2>1 DEF ImagesLoad
  <2> QED  BY <1>2, <2>2, <2>3 DEF DraftsInv
<1>4. ASSUME NEW d \in ApiItems, ServerAccepts(d), item = [rev |-> 1, def |-> d]
      PROVE  DraftsInv /\ (OthersLoad => ImagesLoad)
  <2>1. PICK s : s = FromTransport(d)
    OBVIOUS
  <2>2. PICK w : w = DraftOf(s)
    OBVIOUS
  <2>3. /\ item.rev = 1 /\ item.def = d /\ slide.rev = 1 /\ slide.def = s /\ sketch = w
    BY <1>1, <1>4, <2>1, <2>2
  <2>4. IsItem(d)
    BY <1>4, DraftsAssumption DEF IsItem
  <2>5. IsSlide(s) /\ IsSketch(w) /\ w.kind = s.kind
    BY <2>1, <2>2, <2>4, ShownKinds
  <2>6. SlideIsShown
    BY <1>1, <2>3, <2>4, <2>5 DEF SlideIsShown
  <2>7. OthersLoad => AllLoad(d) /\ AllLoad(s) /\ AllLoad(w)
    BY <2>1, <2>2, <2>4, ShownLoads DEF OthersLoad
  <2>8. OthersLoad => ImagesLoad
    BY <1>1, <2>3, <2>7 DEF ImagesLoad
  <2> QED  BY <1>2, <2>6, <2>8 DEF DraftsInv
<1> QED  BY <1>3, <1>4 DEF DraftsInit

LEMMA DraftsStep ==
  ASSUME DraftsInv, [DraftsNext]_sketchVars
  PROVE  Keeps
<1>1. CASE UNCHANGED sketchVars
  BY <1>1, NothingChanges DEF sketchVars
<1>2. CASE RefreshSlide \/ ReloadWarned \/ Discard
  BY <1>2, RefreshSlideStep, ReloadWarnedStep, DiscardStep
<1>3. CASE \/ EditQuestion \/ EditScoring \/ AddOption \/ EditTextActivity \/ EditSlideContent
           \/ RemoveImage
  BY <1>3, EditQuestionStep, EditScoringStep, AddOptionStep, EditTextActivityStep,
     EditSlideContentStep, RemoveImageStep
<1>4. CASE \E i \in 1..MaxOptions : DeleteOption(i) \/ EditOption(i) \/ ToggleCorrect(i)
  BY <1>4, DeleteOptionStep, EditOptionStep, ToggleCorrectStep
<1>5. CASE \E i, j \in 1..MaxOptions : MoveOption(i, j)
  BY <1>5, MoveOptionStep
<1>6. CASE \E target \in Targets : OpenPicker(target)
  BY <1>6, OpenPickerStep
<1>7. CASE \E url \in Images : TypeAddress(url)
  BY <1>7, TypeAddressStep
<1>8. CASE CheckPreview \/ PreviewChecked \/ ConfirmPicker \/ ClosePicker
  BY <1>8, CheckPreviewStep, PreviewCheckedStep, ConfirmPickerStep, ClosePickerStep
<1>9. CASE SaveSketch \/ \E choice \in TypeChoices : ChooseType(choice)
  BY <1>9, SaveSketchStep, ChooseTypeStep
<1>10. CASE AnswerDefinition \/ LoseDefinition \/ DefinitionSaved \/ DefinitionRefused
  BY <1>10, AnswerDefinitionStep, LoseDefinitionStep, DefinitionSavedStep, DefinitionRefusedStep
<1>11. CASE \E d \in ApiItems : OtherStores(d)
  BY <1>11, OtherStoresStep
<1> QED  BY <1>1, <1>2, <1>3, <1>4, <1>5, <1>6, <1>7, <1>8, <1>9, <1>10, <1>11 DEF DraftsNext

\* The inductive invariant: whatever is shown, drafted, sent or stored fits
\* the forms and the validations, and every request what the server takes.
THEOREM DraftsAreSound == DraftsSpec => []DraftsInv
<1>1. DraftsInit => DraftsInv
  BY DraftsStart
<1>2. DraftsInv /\ [DraftsNext]_sketchVars => DraftsInv'
  BY DraftsStep DEF Keeps
<1> QED  BY <1>1, <1>2, PTL DEF DraftsSpec

\* No create, save or conversion is refused as invalid: the inspectors'
\* validation, the defaults of new slides and the conversions between kinds
\* leave the server nothing to object to.
THEOREM NothingIsRefused == DraftsSpec => []SentIsAccepted
<1>1. DraftsInv => SentIsAccepted
  BY DEF DraftsInv, RequestIsSound, Calls, NoSending, SentIsAccepted
<1> QED  BY <1>1, DraftsAreSound, PTL

\* And the other way: what the server lets in, whoever sent it, passes the
\* check before a presentation starts.
THEOREM WhatIsStoredCanStart == DraftsSpec => []StoredCanStart
<1>1. DraftsInv => StoredCanStart
  BY StoredIsSlide DEF DraftsInv, SlideIsShown, IsSlide, StoredCanStart
<1> QED  BY <1>1, DraftsAreSound, PTL

\* A save comes back as what was saved, texts trimmed.
THEOREM SavesComeBack == DraftsSpec => SavedAsShown
<1>1. ASSUME DraftsInv, [DraftsNext]_sketchVars,
             sending.step = "ok", sending'.step = "idle", sending.kind = "save"
      PROVE  Tidy(sketch') = Tidy(sending.shown)
  <2>1. sending # NoSending
    BY <1>1 DEF NoSending
  <2>2. PICK w : w = sending.shown
    OBVIOUS
  <2>3. IsSketch(w) /\ SketchIsValid(w) /\ sending.def = ToDefinition(ToEditorSlide(w))
    BY <1>1, <2>1, <2>2 DEF DraftsInv, RequestIsSound
  <2>4. DefinitionSaved
    <3>1. sending' # sending
      BY <1>1
    <3>2. ~AnswerDefinition /\ ~LoseDefinition /\ ~DefinitionRefused
      BY <1>1 DEF AnswerDefinition, LoseDefinition, DefinitionRefused
    <3>3. ASSUME NEW e PROVE ~Edit(e) /\ ~Pick(e)
      BY <3>1 DEF Edit, Pick
    <3>4. ASSUME NEW k, NEW e PROVE ~SendDefinition(k, e)
      BY <2>1 DEF SendDefinition
    <3>5. ~RefreshSlide /\ ~ReloadWarned /\ ~Discard
      BY <3>1 DEF RefreshSlide, ReloadWarned, Discard
    <3>6. ~EditQuestion /\ ~EditScoring /\ ~AddOption
      BY <3>3 DEF EditQuestion, EditScoring, AddOption
    <3>7. ~EditTextActivity /\ ~EditSlideContent /\ ~RemoveImage
      BY <3>3 DEF EditTextActivity, EditSlideContent, RemoveImage
    <3>8. ASSUME NEW i PROVE ~DeleteOption(i) /\ ~EditOption(i) /\ ~ToggleCorrect(i)
      BY <3>3 DEF DeleteOption, EditOption, ToggleCorrect
    <3>9. ASSUME NEW i, NEW j PROVE ~MoveOption(i, j)
      BY <3>3 DEF MoveOption
    <3>10. ASSUME NEW target PROVE ~OpenPicker(target) /\ ~TypeAddress(target)
      BY <3>1, <3>3 DEF OpenPicker, TypeAddress
    <3>11. ~CheckPreview /\ ~PreviewChecked /\ ~ConfirmPicker /\ ~ClosePicker
      BY <3>1, <3>3 DEF CheckPreview, PreviewChecked, ConfirmPicker, ClosePicker
    <3>12. ASSUME NEW choice PROVE ~SaveSketch /\ ~ChooseType(choice) /\ ~OtherStores(choice)
      BY <3>1, <3>4 DEF SaveSketch, ChooseType, OtherStores
    <3>13. ~UNCHANGED sketchVars
      BY <3>1 DEF sketchVars
    <3> QED  BY <1>1, <3>2, <3>5, <3>6, <3>7, <3>8, <3>9, <3>10, <3>11, <3>12, <3>13 DEF DraftsNext
  <2>5. sketch' = DraftOf(FromTransport(sending.def))
    BY <2>4 DEF DefinitionSaved, ShowSlide
  <2> QED  BY <2>2, <2>3, <2>5, SketchComesBack
<1>2. DraftsInv /\ [DraftsNext]_sketchVars
        => [sending.step = "ok" /\ sending'.step = "idle" /\ sending.kind = "save"
              => Tidy(sketch') = Tidy(sending.shown)]_sketchVars
  BY <1>1
<1> QED  BY <1>2, DraftsAreSound, PTL DEF DraftsSpec, SavedAsShown

\* If no other client stores an address that does not load, none gets into
\* a draft: the dialog applies only what it saw load.
THEOREM OnlyCheckedImagesAreApplied ==
  ASSUME OthersLoad
  PROVE  DraftsSpec => []OnlyCheckedImages
<1>1. DraftsInit => DraftsInv /\ ImagesLoad
  BY DraftsStart
<1>2. DraftsInv /\ ImagesLoad /\ [DraftsNext]_sketchVars => (DraftsInv /\ ImagesLoad)'
  BY DraftsStep DEF Keeps
<1>3. ASSUME DraftsInv, ImagesLoad
      PROVE  OnlyCheckedImages
  <2> SUFFICES ASSUME sketch # None, NEW target \in Targets
               PROVE  ImageAt(sketch, target) # "broken"
    BY DEF OnlyCheckedImages
  <2>1. slide.rev > 0
    BY <1>3 DEF DraftsInv, SlideIsShown
  <2>2. IsSketch(sketch) /\ AllLoad(sketch)
    BY <1>3, <2>1 DEF DraftsInv, SlideIsShown, ImagesLoad
  <2>3. CASE target = "slide"
    BY <2>2, <2>3 DEF ImageAt, AllLoad
  <2>4. CASE target # "slide"
    <3>1. sketch.kind = "choice" /\ target \in OptionIds
      BY <2>4 DEF Targets, IsQuestion
    <3>2. PICK f : f = sketch.options
      OBVIOUS
    <3>3. PICK at : at = {i \in DOMAIN f : f[i].id = target}
      OBVIOUS
    <3>4. ImageAt(sketch, target) = IF at = {} THEN "" ELSE f[CHOOSE i \in at : TRUE].image
      BY <2>4, <3>2, <3>3 DEF ImageAt
    <3>5. \A i \in DOMAIN f : f[i].image # "broken"
      BY <2>2, <3>1, <3>2 DEF AllLoad
    <3>6. at # {} => (CHOOSE i \in at : TRUE) \in at
      OBVIOUS
    <3>7. at # {} => (CHOOSE i \in at : TRUE) \in DOMAIN f
      BY <3>3, <3>6
    <3> QED  BY <3>4, <3>5, <3>7
  <2> QED  BY <2>3, <2>4
<1> QED  BY <1>1, <1>2, <1>3, PTL DEF DraftsSpec
=============================================================================
