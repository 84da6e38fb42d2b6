------------------------------- MODULE Editor -------------------------------
(***************************************************************************)
(* The presentation editor in a browser tab (presentations/editor), on the *)
(* slides of module Slides that other clients edit too.                    *)
(*                                                                         *)
(* The tab keeps the presentation it loaded and sends the revisions it     *)
(* knows in If-Match.  After a change of its own it guesses the new state: *)
(* the handlers of replies apply the change to the presentation that their *)
(* closure captured when the call was made, and add one to its revision.   *)
(* A conflict, a delete and a reorder load the presentation again, in two  *)
(* statements on the server.                                               *)
(***************************************************************************)
EXTENDS Slides

CONSTANTS
  Here, There,  \* this tab, and the other clients
  Budgets       \* bounds: the mutations the tab sends, and those of the others

ASSUME EditorAssumption ==
  /\ Deleters = {Here, There} /\ Here # There
  /\ Budgets \subseteq [calls: Nat, others: Nat]
  /\ {"mine", "theirs", "fresh"} \subseteq Texts /\ {"mine", "theirs"} \subseteq Music

VARIABLES
  screen,   \* what the route shows: loading, error, or the editor
  view,     \* the presentation held by the route
  fetch,    \* the load in progress
  calls,    \* the mutation of each kind in progress
  draft,    \* unsaved changes: of the active slide or of the sound
  stuck,    \* dirty.audio, of a sound panel that a reply closed
  selected, \* the chosen slide
  dialog,   \* the type picker: open, and creating (addSlideGateRef); deleting,
            \* while the confirmed delete keeps its own dialog open
  budget    \* what the bounds have left

editorVars == <<screen, view, fetch, calls, draft, stuck, selected, dialog, budget, slideVars>>

Kinds == {"save", "convert", "create", "delete", "reorder", "setting"}

NoView  == [rev |-> 0, music |-> "old", slides |-> <<>>]
NoFetch == [step |-> "none", shows |-> FALSE, view |-> NoView]
NoCall  == [step |-> "idle", outcome |-> "none", seen |-> NoView, behind |-> FALSE,
            id |-> "none", rev |-> 0, order |-> 0, base |-> "none", text |-> "none",
            slides |-> <<>>]
NoDraft == [kind |-> "none"]
NoDialog == [open |-> FALSE, creating |-> FALSE, deleting |-> FALSE]

EditorInit ==
  /\ SlidesInit
  /\ screen = "loading"
  /\ view = NoView
  /\ fetch = [NoFetch EXCEPT !.step = "asked", !.shows = TRUE]
  /\ calls = [k \in Kinds |-> NoCall]
  /\ draft = NoDraft
  /\ stuck = FALSE
  /\ selected = "none"
  /\ dialog = NoDialog
  /\ budget \in Budgets

Shown == {view.slides[i].id : i \in DOMAIN view.slides}
SlideIn(v, s) == CHOOSE x \in SE!ToSet(v.slides) : x.id = s

\* useEditorSlideSelection: the selected slide, or the first.
ActiveIn(v, s) == IF v.slides = <<>> THEN "none"
                  ELSE IF \E x \in SE!ToSet(v.slides) : x.id = s THEN s
                  ELSE v.slides[1].id
Active == ActiveIn(view, selected)

Ready == screen = "ready"
\* Both dialogs are modal: the page behind them takes no input.
AtPage == Ready /\ ~dialog.open /\ ~dialog.deleting
Dirty == draft # NoDraft \/ stuck
-----------------------------------------------------------------------------
(* Drafts.                                                                 *)

\* useAudioDraft: unsaved sound moves to a newer revision when the stored
\* sound is still the one it was based on.
RebasedSound(v) ==
  IF v.music = draft.base /\ v.rev > draft.rev THEN [draft EXCEPT !.rev = v.rev] ELSE draft

\* What the drafts become when the route shows v.  A content draft is reset
\* when the object of its slide is a new one: renewed are the slides that are.
DraftIn(v, s, renewed) ==
  IF draft.kind = "content"
  THEN IF ActiveIn(v, s) = draft.id /\ draft.id \notin renewed THEN draft ELSE NoDraft
  ELSE IF draft.kind = "sound" THEN RebasedSound(v)
  ELSE NoDraft

\* activateContentPanel: unsaved sound goes with its panel, and nobody
\* tells the editor that it is gone.
ToContent(d) == IF d.kind = "sound" THEN NoDraft ELSE d

ContentPanelOpens == stuck' = (stuck \/ draft.kind = "sound")

\* setQuiz with a presentation built from what the closure captured, and the
\* drafts that are left of d.
Show(v, s, renewed, toContent) ==
  LET d == DraftIn(v, s, IF view = NoView THEN SlideIds ELSE renewed)
  IN /\ view' = v
     /\ selected' = IF screen = "ready" THEN ActiveIn(v, s) ELSE selected
     /\ draft' = IF toContent THEN ToContent(d) ELSE d
     /\ IF toContent THEN ContentPanelOpens ELSE UNCHANGED stuck

KeepView == UNCHANGED <<view, selected, draft, stuck>>
-----------------------------------------------------------------------------
(* Loading.                                                                *)

\* runQuizLoad: the previous load is aborted.
Load(shows) == fetch' = [NoFetch EXCEPT !.step = "asked", !.shows = shows]

\* FindOwned: the presentation's row, then its slides.
ReadPresentation ==
  /\ fetch.step = "asked"
  /\ fetch' = [fetch EXCEPT !.step = "head",
                 !.view = [NoView EXCEPT !.rev = presentation.rev, !.music = presentation.music]]
  /\ UNCHANGED <<screen, view, calls, draft, stuck, selected, dialog, budget, slideVars>>

SlidesOf(v) ==
  [v EXCEPT !.slides = [i \in 1..Cardinality(Kept) |->
     LET s == InOrder(Kept)[i]
     IN [id |-> s, order |-> rows[s].pos, rev |-> rows[s].rev, text |-> rows[s].text]]]

ReadSlides ==
  /\ fetch.step = "head"
  /\ fetch' = [fetch EXCEPT !.step = "read", !.view = SlidesOf(fetch.view)]
  /\ UNCHANGED <<screen, view, calls, draft, stuck, selected, dialog, budget, slideVars>>

\* A reorder ends when the load it waits for does.
Settled == [calls EXCEPT !["reorder"] = IF @.step = "refreshing" THEN NoCall ELSE @]

\* And so does the dialog of a delete.
Closed == [dialog EXCEPT !.deleting = @ /\ calls["delete"] # NoCall]

FetchDone ==
  /\ fetch.step = "read"
  /\ view' = fetch.view
  /\ screen' = "ready"
  /\ selected' = ActiveIn(fetch.view, selected)
  /\ draft' = IF Ready THEN DraftIn(fetch.view, selected, SlideIds) ELSE NoDraft
  /\ fetch' = NoFetch
  /\ calls' = Settled
  /\ dialog' = Closed
  /\ UNCHANGED <<stuck, budget, slideVars>>

\* The error screen replaces the editor, and its drafts with it.
FetchFailed ==
  /\ fetch.step \in {"asked", "head", "read"}
  /\ screen' = "error"
  /\ fetch' = NoFetch
  /\ draft' = NoDraft /\ stuck' = FALSE
  /\ dialog' = NoDialog
  /\ calls' = Settled
  /\ UNCHANGED <<view, selected, budget, slideVars>>

\* The page is hidden, or the router starts to leave: the load is aborted.
Interrupt ==
  /\ fetch.step \in {"asked", "head", "read"}
  /\ fetch' = [fetch EXCEPT !.step = "interrupted", !.view = NoView]
  /\ calls' = Settled
  /\ dialog' = Closed
  /\ UNCHANGED <<screen, view, draft, stuck, selected, budget, slideVars>>

\* The page is shown again and resumes what was interrupted; a navigation that
\* came to nothing, and the retry button, load from the start.
Resume(shows) ==
  /\ \/ fetch.step = "interrupted" /\ shows \in {fetch.shows, TRUE}
     \/ fetch.step = "none" /\ screen = "error" /\ shows
  /\ Load(shows)
  /\ screen' = IF shows THEN "loading" ELSE screen
  /\ draft' = IF shows THEN NoDraft ELSE draft
  /\ stuck' = (stuck /\ ~shows)
  /\ dialog' = IF shows THEN NoDialog ELSE dialog
  /\ UNCHANGED <<view, calls, selected, budget, slideVars>>
-----------------------------------------------------------------------------
(* Editing.                                                                *)

EditContent ==
  /\ AtPage /\ draft = NoDraft /\ view.slides # <<>>
  /\ LET x == SlideIn(view, Active)
     IN /\ x.text # "mine"
        /\ draft' = [kind |-> "content", id |-> x.id, rev |-> x.rev, order |-> x.order,
                     base |-> x.text, text |-> "mine", conflict |-> FALSE]
  /\ UNCHANGED <<screen, view, fetch, calls, stuck, selected, dialog, budget, slideVars>>

EditSound ==
  /\ AtPage /\ draft = NoDraft /\ view.music # "mine"
  /\ draft' = [kind |-> "sound", rev |-> view.rev, base |-> view.music, text |-> "mine",
               conflict |-> FALSE]
  /\ stuck' = FALSE
  /\ UNCHANGED <<screen, view, fetch, calls, selected, dialog, budget, slideVars>>

\* A sound panel that opens reports that it has no unsaved changes.
OpenSound ==
  /\ AtPage /\ stuck /\ draft = NoDraft
  /\ stuck' = FALSE
  /\ UNCHANGED <<screen, view, fetch, calls, draft, selected, dialog, budget, slideVars>>

\* requestSlideSelection: another slide, after a confirmation when its
\* content is unsaved; unsaved sound stays.
SelectSlide(s) ==
  /\ AtPage /\ s \in Shown
  /\ selected' = s
  /\ draft' = IF draft.kind = "content" /\ s # Active THEN NoDraft ELSE draft
  /\ <<selected, draft>> # <<selected', draft'>>
  /\ UNCHANGED <<screen, view, fetch, calls, stuck, dialog, budget, slideVars>>

\* toggleTab: a panel with unsaved changes closes after a confirmation.
ClosePanel ==
  /\ AtPage /\ draft # NoDraft
  /\ draft' = NoDraft
  /\ UNCHANGED <<screen, view, fetch, calls, stuck, selected, dialog, budget, slideVars>>

\* The notice's or the inspector's button that loads the newer version.
ReloadConflict ==
  /\ AtPage /\ draft.kind # "none" /\ draft.conflict
  /\ draft' = NoDraft
  /\ Load(FALSE)
  /\ UNCHANGED <<screen, view, calls, stuck, selected, dialog, budget, slideVars>>

\* The requests, each with the revision of its If-Match.
SlideRequest(id, rev, order, base, text) ==
  [NoCall EXCEPT !.id = id, !.rev = rev, !.order = order, !.base = base, !.text = text]
SettingRequest(rev, base, text) == [NoCall EXCEPT !.rev = rev, !.base = base, !.text = text]
ReorderRequest(rev, slides) == [NoCall EXCEPT !.rev = rev, !.slides = slides]

\* A mutation of this kind is sent; its handler will see the view of now.
\* behind: queueSlideMutation holds it until the call before it has ended.
Send(k, request, behind) ==
  /\ Ready /\ calls[k] = NoCall /\ budget.calls > 0
  /\ calls' = [calls EXCEPT ![k] =
                  [request EXCEPT !.step = "sent", !.seen = view, !.behind = behind]]
  /\ budget' = [budget EXCEPT !.calls = @ - 1]

InFlight(k, s) == calls[k].step = "sent" /\ calls[k].id = s

SaveContent ==
  /\ AtPage /\ draft.kind = "content" /\ ~draft.conflict
  /\ Send("save", SlideRequest(draft.id, draft.rev, draft.order, draft.base, draft.text),
          InFlight("convert", draft.id))
  /\ UNCHANGED <<screen, view, fetch, draft, stuck, selected, dialog, slideVars>>

\* The sound from its panel, or the title from the header.
SaveSetting ==
  /\ AtPage
  /\ \/ /\ draft.kind = "sound" /\ ~draft.conflict
        /\ Send("setting", SettingRequest(draft.rev, draft.base, draft.text), FALSE)
     \/ /\ draft.kind # "sound"
        /\ Send("setting", SettingRequest(view.rev, view.music, view.music), FALSE)
  /\ UNCHANGED <<screen, view, fetch, draft, stuck, selected, dialog, slideVars>>

\* structuralActionsDisabled.
StructureIsFree == ~Dirty /\ calls["reorder"] = NoCall

DeleteShown(s) ==
  /\ AtPage /\ s \in Shown /\ StructureIsFree
  /\ LET x == SlideIn(view, s)
     IN Send("delete", SlideRequest(s, x.rev, x.order, x.text, "none"), FALSE)
  /\ dialog' = [dialog EXCEPT !.deleting = TRUE]
  /\ UNCHANGED <<screen, view, fetch, draft, stuck, selected, slideVars>>

\* beginAddSlide: the gate, and the type picker; an empty presentation has a
\* button of its own.
BeginAddSlide ==
  /\ AtPage /\ ~dialog.creating
  /\ StructureIsFree \/ view.slides = <<>>
  /\ dialog' = [dialog EXCEPT !.open = TRUE, !.creating = TRUE]
  /\ UNCHANGED <<screen, view, fetch, calls, draft, stuck, selected, budget, slideVars>>

Selecting == calls["create"] # NoCall \/ calls["convert"] # NoCall

OpenTypeSelection ==
  /\ AtPage /\ ~Selecting /\ view.slides # <<>>
  /\ dialog' = [dialog EXCEPT !.open = TRUE]
  /\ draft' = IF draft.kind = "content" THEN NoDraft ELSE draft
  /\ UNCHANGED <<screen, view, fetch, calls, stuck, selected, budget, slideVars>>

CancelTypeSelection ==
  /\ Ready /\ dialog.open
  /\ dialog' = NoDialog
  /\ UNCHANGED <<screen, view, fetch, calls, draft, stuck, selected, budget, slideVars>>

\* selectType: a new slide at the end, or the active one converted.
SelectType ==
  /\ dialog.open /\ ~Selecting
  /\ \/ /\ dialog.creating
        /\ Send("create", SlideRequest("none", view.rev, Len(view.slides), "none", "fresh"),
                FALSE)
     \/ /\ ~dialog.creating /\ Active # "none"
        /\ LET x == SlideIn(view, Active)
           IN /\ x.text # "fresh"
              /\ Send("convert", SlideRequest(x.id, x.rev, x.order, x.text, "fresh"),
                      InFlight("save", x.id))
  /\ UNCHANGED <<screen, view, fetch, draft, stuck, selected, dialog, slideVars>>

\* The type it has already: the picker only closes.
SelectSameType ==
  /\ dialog.open /\ ~Selecting /\ ~dialog.creating /\ Active # "none"
  /\ SlideIn(view, Active).text = "fresh"
  /\ draft' = ToContent(draft) /\ ContentPanelOpens
  /\ dialog' = [dialog EXCEPT !.open = FALSE]
  /\ UNCHANGED <<screen, view, fetch, calls, selected, budget, slideVars>>

\* reorderEditorSlides: one slide moves, every order is its index.
Moved(slides, i, j) ==
  LET s == SE!InsertAt(SE!RemoveAt(slides, i), j, slides[i])
  IN [n \in DOMAIN s |-> [s[n] EXCEPT !.order = n - 1]]

ReorderShown(i, j) ==
  /\ AtPage /\ StructureIsFree /\ i # j /\ {i, j} \subseteq DOMAIN view.slides
  /\ Send("reorder", ReorderRequest(view.rev, Moved(view.slides, i, j)), FALSE)
  /\ UNCHANGED <<screen, view, fetch, draft, stuck, selected, dialog, slideVars>>
-----------------------------------------------------------------------------
(* The server answers a call, or the network fails it.                     *)

Outcomes == {"ok", "conflict", "not_found", "results", "invalid", "failed"}

\* The reply to c, which holds what it carries.
Answered(k, outcome, c) ==
  calls' = [calls EXCEPT ![k] = [c EXCEPT !.step = "answered", !.outcome = outcome]]

Waits(k) == calls[k].behind /\ \E o \in {"save", "convert"} \ {k} : calls[o].step = "sent"

ServeReplace(k, outcome) ==
  LET c == calls[k]
  IN /\ c.step = "sent" /\ ~Waits(k)
     /\ ReplaceSlide(c.id, c.order, c.text, c.rev, outcome)
     /\ Answered(k, outcome, [c EXCEPT !.rev = rows'[c.id].rev])

ServeCreate(outcome) ==
  LET c == calls["create"]
  IN /\ c.step = "sent"
     /\ \E s \in SlideIds :
          /\ CreateSlide(s, c.order, c.text, c.rev, outcome)
          /\ Answered("create", outcome, [c EXCEPT !.id = s])

ServeReorder(outcome) ==
  LET c == calls["reorder"]
  IN /\ c.step = "sent"
     /\ ReorderSlides([i \in DOMAIN c.slides |-> c.slides[i].id], c.rev, outcome)
     /\ Answered("reorder", outcome, c)

\* The reply carries the presentation as FindOwned finds it afterwards.
ServeSetting(outcome) ==
  LET c == calls["setting"]
  IN /\ c.step = "sent"
     /\ UpdateSetting(c.text, c.rev, outcome)
     /\ Answered("setting", outcome,
          [c EXCEPT !.seen = SlidesOf([NoView EXCEPT !.rev = presentation'.rev,
                                                     !.music = presentation'.music])])

ServeDelete(outcome) ==
  LET c == calls["delete"]
  IN \/ /\ c.step = "sent" /\ deleting[Here].step = "idle"
        /\ FindDoomed(Here, c.id, c.rev, outcome)
        /\ IF outcome = "pending" THEN UNCHANGED calls
           ELSE Answered("delete", outcome, c)
     \/ /\ c.step = "sent"
        /\ \/ outcome = "ok" /\ deleting[Here].step = "committed"
           \/ outcome = "failed" /\ deleting[Here].step = "aborted"
        /\ deleting' = [deleting EXCEPT ![Here] = NoDelete]
        /\ Answered("delete", outcome, c)
        /\ UNCHANGED <<presentation, rows, answered>>

Serve ==
  /\ \E outcome \in Outcomes \cup {"pending"} :
       \/ \E k \in {"save", "convert"} : ServeReplace(k, outcome)
       \/ ServeCreate(outcome) \/ ServeReorder(outcome) \/ ServeSetting(outcome)
       \/ ServeDelete(outcome)
  /\ UNCHANGED <<screen, view, fetch, draft, stuck, selected, dialog, budget>>

\* The request or its reply is lost, or the server fails it.
LoseCall(k) ==
  /\ calls[k].step \in {"sent", "answered"}
  /\ k = "delete" => deleting[Here].step = "idle"
  /\ Answered(k, "failed", [calls[k] EXCEPT !.behind = FALSE])
  /\ calls' # calls
  /\ UNCHANGED <<screen, view, fetch, draft, stuck, selected, dialog, budget, slideVars>>
-----------------------------------------------------------------------------
(* The tab handles a reply.                                                *)

Done(k, outcome) == calls[k].step = "answered" /\ calls[k].outcome = outcome
Ended(k) == calls' = [calls EXCEPT ![k] = NoCall]

ReplacePresentationSlide(v, x) ==
  [v EXCEPT !.rev = @ + 1,
     !.slides = [i \in DOMAIN @ |-> IF @[i].id = x.id THEN x ELSE @[i]]]

AppendPresentationSlide(v, x) ==
  [v EXCEPT !.rev = @ + 1, !.slides = Append(@, x)]

\* The slides whose objects a presentation built on an older one may renew.
Renewed(c, s) == IF c.seen = view THEN {{s}} ELSE {{s}, SlideIds}

\* applyUpdatedSlide selects the slide, whichever is shown by now.
SlideReplaced(k) ==
  LET c == calls[k]
      x == [id |-> c.id, order |-> c.order, rev |-> c.rev, text |-> c.text]
      v == ReplacePresentationSlide(c.seen, x)
  IN /\ Done(k, "ok")
     /\ \E renewed \in Renewed(c, c.id) : Show(v, c.id, renewed, k = "convert")
     /\ dialog' = IF k = "convert" THEN [dialog EXCEPT !.open = FALSE] ELSE dialog
     /\ Ended(k)
     /\ UNCHANGED fetch

\* createSlide selects the new id among the slides of its closure, where it is
\* not: the selection stays.
SlideCreated ==
  LET c == calls["create"]
      x == [id |-> c.id, order |-> c.order, rev |-> 1, text |-> c.text]
  IN /\ Done("create", "ok")
     /\ \E renewed \in Renewed(c, c.id) :
          Show(AppendPresentationSlide(c.seen, x), selected, renewed, TRUE)
     /\ dialog' = [dialog EXCEPT !.open = FALSE, !.creating = FALSE]
     /\ Ended("create")
     /\ UNCHANGED fetch

\* activeSlideIdAfterDeletion: the active slide stays; its own deletion passes
\* to the slide that takes its place.
ActiveAfterDeletion(slides, s) ==
  LET rest == SelectSeq(slides, LAMBDA x : x.id # s)
      i == CHOOSE n \in DOMAIN slides : slides[n].id = s
  IN IF Active # s THEN selected
     ELSE IF rest = <<>> THEN "none"
     ELSE rest[IF i <= Len(rest) THEN i ELSE Len(rest)].id

SlideDeleted ==
  LET c == calls["delete"]
  IN /\ Done("delete", "ok")
     /\ selected' = ActiveAfterDeletion(c.seen.slides, c.id)
     /\ draft' = DraftIn(view, selected', {})
     /\ Load(FALSE)
     /\ Ended("delete")
     /\ UNCHANGED <<view, stuck, dialog>>

\* presentationAfterReorder, and a load.
OrderCommitted ==
  LET c == calls["reorder"]
  IN /\ Done("reorder", "ok")
     /\ Show([c.seen EXCEPT !.rev = @ + 1,
                !.slides = [i \in DOMAIN c.slides |-> [c.slides[i] EXCEPT !.rev = @ + 1]]],
             selected, SlideIds, FALSE)
     /\ Load(FALSE)
     /\ calls' = [calls EXCEPT !["reorder"].step = "refreshing"]
     /\ UNCHANGED dialog

SettingSaved ==
  /\ Done("setting", "ok")
  /\ view' = calls["setting"].seen
  /\ selected' = ActiveIn(view', selected)
  /\ draft' = IF draft.kind = "sound" /\ draft.text = view'.music THEN NoDraft
              ELSE DraftIn(view', selected, SlideIds)
  /\ Ended("setting")
  /\ UNCHANGED <<fetch, stuck, dialog>>

\* A panel keeps its draft and waits for the reload; anything else loads now.
Conflicted(k) ==
  /\ Done(k, "conflict")
  /\ IF \/ k = "save" /\ draft.kind = "content"
        \/ k = "setting" /\ draft.kind = "sound"
     THEN /\ draft' = [draft EXCEPT !.conflict = TRUE]
          /\ UNCHANGED fetch
     ELSE Load(FALSE) /\ UNCHANGED draft
  /\ calls' = [calls EXCEPT ![k] = IF k = "reorder" THEN [@ EXCEPT !.step = "refreshing"]
                                   ELSE NoCall]
  /\ UNCHANGED <<view, stuck, selected, dialog>>

\* Any other refusal is a notice: nothing is loaded.
Refused(k) ==
  /\ \E outcome \in Outcomes \ {"ok", "conflict"} : Done(k, outcome)
  /\ Ended(k)
  /\ KeepView
  /\ dialog' = [dialog EXCEPT !.deleting = @ /\ k # "delete"]
  /\ UNCHANGED fetch

HandleReply ==
  /\ \/ \E k \in {"save", "convert"} : SlideReplaced(k)
     \/ SlideCreated \/ SlideDeleted \/ OrderCommitted \/ SettingSaved
     \/ \E k \in Kinds : Conflicted(k) \/ Refused(k)
  /\ UNCHANGED <<screen, budget, slideVars>>
-----------------------------------------------------------------------------
(* The other clients: whatever If-Match lets through.                      *)

OtherEdit ==
  /\ \/ \E s \in SlideIds, pos \in 0..Cardinality(Kept) : CreateSlide(s, pos, "theirs", NoIfMatch, "ok")
     \/ \E s \in Kept : ReplaceSlide(s, rows[s].pos, "theirs", NoIfMatch, "ok")
     \/ ReorderSlides(SE!Reverse(InOrder(Kept)), NoIfMatch, "ok")
     \/ UpdateSetting("theirs", NoIfMatch, "ok")
     \/ \E s \in SlideIds : FindDoomed(There, s, NoIfMatch, "pending")
     \/ \E s \in SlideIds : s \notin answered /\ AnswerSlide(s)
     \/ DeleteResults
  /\ budget.others > 0
  /\ budget' = [budget EXCEPT !.others = @ - 1]

ContinueDelete == \E d \in Deleters : ShiftAbove(d) \/ CommitDelete(d) \/ AbortDelete(d)

Others == /\ \/ OtherEdit
             \/ ContinueDelete /\ UNCHANGED budget
          /\ UNCHANGED <<screen, view, fetch, calls, draft, stuck, selected, dialog>>
-----------------------------------------------------------------------------
EditorNext ==
  \/ ReadPresentation \/ ReadSlides \/ FetchDone \/ FetchFailed \/ Interrupt
  \/ \E shows \in BOOLEAN : Resume(shows)
  \/ EditContent \/ EditSound \/ OpenSound \/ ClosePanel \/ ReloadConflict
  \/ \E s \in SlideIds : SelectSlide(s) \/ DeleteShown(s)
  \/ SaveContent \/ SaveSetting
  \/ BeginAddSlide \/ OpenTypeSelection \/ CancelTypeSelection \/ SelectType \/ SelectSameType
  \/ \E i, j \in 1..Cardinality(SlideIds) : ReorderShown(i, j)
  \/ Serve
  \/ \E k \in Kinds : LoseCall(k)
  \/ HandleReply
  \/ Others

EditorSpec == EditorInit /\ [][EditorNext]_editorVars
-----------------------------------------------------------------------------
\* The revision a tab guesses never vouches for a presentation it does not
\* show: when it equals the stored one, the tab shows the stored definitions
\* and settings, so an If-Match that passes was sent by somebody who saw them.
TrustedViewIsCurrent ==
  view.rev = presentation.rev =>
    /\ view.music = presentation.music
    /\ {<<x.id, x.text>> : x \in SE!ToSet(view.slides)} = {<<s, rows[s].text>> : s \in Kept}

Accepted(k) == calls[k].step = "sent" /\ calls'[k].step = "answered" /\ calls'[k].outcome = "ok"

\* A save, a conversion or a delete that the server accepts acts on the very
\* definition the manager saw, and a sound on the sound it was based on: no
\* newer edit is overwritten silently (architecture.md:102-106).
EditsActOnWhatWasSeen ==
  [][/\ \A k \in {"save", "convert"} :
          Accepted(k) => rows[calls[k].id].text = calls[k].base
     /\ calls["delete"].step = "sent" /\ deleting'[Here].step = "found"
          => rows[calls["delete"].id].text = calls["delete"].base
     /\ Accepted("setting") => presentation.music = calls["setting"].base]_editorVars

\* Saving a slide moves no other, and not itself either while the positions
\* have no gap: an order that others arranged meanwhile survives the position
\* that every save carries.
Gapless == {rows[s].pos : s \in Kept} = 0..Cardinality(Kept) - 1

SavesKeepTheOrder ==
  [][\A k \in {"save", "convert"} : Accepted(k) =>
       \A s, x \in Kept : Gapless \/ calls[k].id \notin {s, x} =>
         (rows[s].pos < rows[x].pos <=> rows'[s].pos < rows'[x].pos)]_editorVars
=============================================================================
