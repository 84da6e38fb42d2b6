------------------------------- MODULE Library -------------------------------
(***************************************************************************)
(* The dashboard over an owner's presentations: search and selection, the  *)
(* deletion of one or of the selected ones in batches, clearing results,   *)
(* creating a presentation and opening one, each behind its confirmation,  *)
(* against the cached list that React Query reads again after them.        *)
(*                                                                         *)
(* Work goes on when the manager leaves the page; what it does to the page *)
(* then concerns a page that is gone.  Names, order and layout of the rows *)
(* are left out; renames and duplicates are in Directory.                  *)
(***************************************************************************)
EXTENDS Integers, FiniteSets

CONSTANTS
  Talks,       \* ids of presentations
  FirstTalks,  \* those of the owner when the page opens
  Searches,    \* what a search may leave of them
  BatchSize,   \* deletions sent at once (5 in the code)
  Rooms        \* bound: [picks, clicks, others, leaves]

ASSUME LibraryAssumption ==
  /\ FirstTalks \subseteq Talks /\ Searches \subseteq SUBSET Talks
  /\ BatchSize \in Nat \ {0} /\ {"none"} \cap Talks = {}

VARIABLES
  shelf,    \* of each: unborn, idle, held by a running session, played, or gone
  cache,    \* the list as last read: rows, and none, fresh or failed
  reading,  \* the request for the list under way
  dash,     \* of the open page: selection, search, question asked, notice
  route,    \* the page the browser is on
  works,    \* handlers that await: their requests, and whether their page is still open
  room      \* what the bound has left

libraryVars == <<shelf, cache, reading, dash, route, works, room>>

Nothing == [kind |-> "none", ids |-> {}]
FreshDash == [chosen |-> {}, search |-> Talks, asked |-> Nothing, notice |-> Nothing]
NoRead == [step |-> "none", rows |-> {}]
NewRead == [step |-> "asked", rows |-> {}]

LibraryInit ==
  /\ shelf = [t \in Talks |-> IF t \in FirstTalks THEN "idle" ELSE "unborn"]
  /\ cache = [state |-> "none", rows |-> {}] /\ reading = NewRead
  /\ dash = FreshDash /\ route = "list" /\ works = {} /\ room \in Rooms

Use(what) == room[what] > 0 /\ room' = [room EXCEPT ![what] = @ - 1]
-----------------------------------------------------------------------------
(* Reading the list.                                                       *)

OnShelf == {t \in Talks : shelf[t] \notin {"unborn", "gone"}}

\* refetch gives up a read under way, and those who wait for it wait for the
\* new one; before the first list there is nothing to go back to, and it joins.
Refetched == IF cache.state = "none" /\ reading # NoRead THEN reading ELSE NewRead

Waiting == {w \in works : w.step = "waiting"}
Detached(ws) == {[w EXCEPT !.mine = FALSE] : w \in ws}
Modal == {"many", "one", "reset"}

Failed(w) == {t \in w.ids : w.calls[t] = "failed"}

\* What a handler tells when it is done.
Outcome(w) ==
  [kind |-> IF Failed(w) # {} THEN "error" ELSE IF w.kind = "reset" THEN "reset" ELSE "deleted",
   ids |-> w.ids]

TellOutcome(s, w) ==
  [s EXCEPT !.notice = Outcome(w),
            !.chosen = IF w.kind = "many" /\ Failed(w) = {} THEN {} ELSE @]

\* The read has ended: whoever waited goes on, a creation to the editor.
GoOn(s) ==
  LET opens == \E w \in Waiting : w.kind = "create"
      told == {w \in Waiting : w.mine /\ w.kind \in Modal}
  IN /\ reading' = NoRead
     /\ route' = IF opens THEN "editor" ELSE route
     /\ works' = IF opens THEN Detached(works \ Waiting) ELSE works \ Waiting
     /\ dash' = IF opens THEN FreshDash
                  ELSE IF told = {} THEN s ELSE TellOutcome(s, CHOOSE w \in told : TRUE)

ReadRows ==
  /\ reading.step = "asked" /\ reading' = [step |-> "read", rows |-> OnShelf]
  /\ UNCHANGED <<shelf, cache, dash, route, works, room>>

\* A new list drops what it does not have from the selection.
ListRead ==
  /\ reading.step = "read"
  /\ cache' = [state |-> "fresh", rows |-> reading.rows]
  /\ GoOn([dash EXCEPT !.chosen = @ \cap reading.rows])
  /\ UNCHANGED <<shelf, room>>

ListLost ==
  /\ reading.step # "none"
  /\ cache' = [cache EXCEPT !.state = IF @ = "none" THEN "none" ELSE "failed"]
  /\ GoOn(dash)
  /\ UNCHANGED <<shelf, room>>

\* By the retry button, or after a rename, a duplicate or a new access code.
ReadAgain ==
  /\ route = "list" /\ Use("clicks") /\ reading' = Refetched
  /\ UNCHANGED <<shelf, cache, dash, route, works>>
-----------------------------------------------------------------------------
(* Search and selection.                                                   *)

\* A question, and the request it confirmed, cover the page.
Uncovered ==
  route = "list" /\ dash.asked = Nothing /\ \A w \in works : w.mine => w.kind \notin Modal

Found == cache.rows \cap dash.search
AllChosen == Found # {} /\ Found \subseteq dash.chosen
RowShown(t) == cache.state = "fresh" /\ t \in Found
BarShown == dash.chosen # {}

Choosing(chosen) ==
  /\ Uncovered /\ Use("picks") /\ dash' = [dash EXCEPT !.chosen = chosen]
  /\ UNCHANGED <<shelf, cache, reading, route, works>>

Search(found) ==
  /\ Uncovered /\ found # dash.search /\ Use("picks")
  /\ dash' = [dash EXCEPT !.search = found]
  /\ UNCHANGED <<shelf, cache, reading, route, works>>

SelectTalk(t) ==
  /\ RowShown(t)
  /\ Choosing(IF t \in dash.chosen THEN dash.chosen \ {t} ELSE dash.chosen \union {t})

SelectAll ==
  /\ \E t \in Found : RowShown(t)
  /\ Choosing(IF AllChosen THEN dash.chosen \ Found ELSE dash.chosen \union Found)

SelectAllFound == BarShown /\ ~AllChosen /\ Choosing(dash.chosen \union Found)

ClearSelection == BarShown /\ Choosing({})

NoticeExpires ==
  /\ dash.notice # Nothing /\ dash' = [dash EXCEPT !.notice = Nothing]
  /\ UNCHANGED <<shelf, cache, reading, route, works, room>>
-----------------------------------------------------------------------------
(* Questions, and the work they start.                                     *)

PutQuestion(kind, ids) ==
  /\ Uncovered /\ Use("picks")
  /\ dash' = [dash EXCEPT !.asked = [kind |-> kind, ids |-> ids]]
  /\ UNCHANGED <<shelf, cache, reading, route, works>>

DeleteSelected == BarShown /\ PutQuestion("many", dash.chosen)
DeleteTalk(t) == RowShown(t) /\ PutQuestion("one", {t})
ResetTalk(t) == RowShown(t) /\ PutQuestion("reset", {t})

Dismiss ==
  /\ dash.asked # Nothing /\ dash' = [dash EXCEPT !.asked = Nothing]
  /\ UNCHANGED <<shelf, cache, reading, route, works, room>>

Least(a, b) == IF a <= b THEN a ELSE b
Batches(ids) == {b \in SUBSET ids : Cardinality(b) = Least(BatchSize, Cardinality(ids))}

Bug_ForgetsFailures(calls, batch) ==
  [t \in DOMAIN calls |-> IF t \in batch THEN "sent"
                          ELSE IF calls[t] = "failed" THEN "ok" ELSE calls[t]]
\* The answers of the batches before are kept while the next one is sent.
NextBatch(calls, batch) == [t \in DOMAIN calls |-> IF t \in batch THEN "sent" ELSE calls[t]]

StartWork(kind, ids) ==
  \E b \in Batches(ids) :
    works' = works \union {[kind |-> kind, ids |-> ids, step |-> "calling", mine |-> TRUE,
                            calls |-> NextBatch([t \in ids |-> "todo"], b)]}

\* The question keeps the ids of the click that asked it, whatever the list and
\* the selection have become.
Confirm ==
  /\ dash.asked # Nothing /\ Use("clicks")
  /\ StartWork(dash.asked.kind, dash.asked.ids)
  /\ dash' = [dash EXCEPT !.asked = Nothing]
  /\ UNCHANGED <<shelf, cache, reading, route>>

Gate(kind) == \A w \in works : ~(w.mine /\ w.kind = kind)

NewTalk ==
  /\ Uncovered /\ Gate("create") /\ Use("clicks")
  /\ \E t \in Talks : /\ shelf[t] = "unborn" /\ \A w \in works : w.ids # {t}
                      /\ StartWork("create", {t})
  /\ UNCHANGED <<shelf, cache, reading, dash, route>>

Present(t) ==
  /\ Uncovered /\ RowShown(t) /\ Gate("present") /\ Use("clicks")
  /\ StartWork("present", {t})
  /\ UNCHANGED <<shelf, cache, reading, dash, route>>

\* The page closes: its read is cancelled, which ends the waits for it, and
\* what goes on no longer has a page.  A creation that waited goes to its editor.
Departs(to, rest) ==
  /\ route' = IF \E w \in rest : w.step = "waiting" /\ w.kind = "create" THEN "editor" ELSE to
  /\ works' = Detached({w \in rest : w.step # "waiting"})
  /\ dash' = FreshDash /\ reading' = NoRead

\* The rows' links to editor and report, or the browser's Back.
Leave(to) ==
  /\ route = "list" /\ Use("leaves")
  /\ to \in {"editor", "report"} => Uncovered /\ \E t \in Found : RowShown(t)
  /\ Departs(to, works)
  /\ UNCHANGED <<shelf, cache>>

\* The list is read again when it is old or failed.
Return ==
  /\ route # "list" /\ route' = "list"
  /\ reading' \in IF reading # NoRead THEN {reading}
                  ELSE IF cache.state = "fresh" THEN {NoRead, NewRead} ELSE {NewRead}
  /\ UNCHANGED <<shelf, cache, dash, works, room>>
-----------------------------------------------------------------------------
(* The requests: at the server, and their replies.                         *)

Changed(w, t, answer) == (works \ {w}) \union {[w EXCEPT !.calls[t] = answer]}

\* Delete and DeleteResults refuse under a running session; of two deletions at
\* once, the later one may have seen the row and is not refused.
Permits(kind, t) ==
  CASE kind = "create" -> TRUE
    [] kind = "present" -> shelf[t] # "gone"
    [] OTHER -> shelf[t] # "held"

ShelfAfter(kind, t) ==
  IF shelf[t] = "gone" \/ kind = "present" THEN shelf[t]
  ELSE IF kind \in {"create", "reset"} THEN "idle" ELSE "gone"

ServeCall(w, t) ==
  /\ w.calls[t] = "sent"
  /\ \/ /\ Permits(w.kind, t)
        /\ shelf' = [shelf EXCEPT ![t] = ShelfAfter(w.kind, t)] /\ works' = Changed(w, t, "done")
     \/ /\ w.kind # "create"
        /\ shelf[t] = "gone" \/ (shelf[t] = "held" /\ w.kind # "present")
        /\ works' = Changed(w, t, "refused") /\ UNCHANGED shelf
  /\ UNCHANGED <<cache, reading, dash, route, room>>

Outstanding(w) == \E t \in w.ids : w.calls[t] \in {"sent", "done", "refused"}
Unsent(w) == {t \in w.ids : w.calls[t] = "todo"}

\* A reply: a deleted row leaves the selection, the batch's last reply sends the
\* next batch, and the last of all reads the list.  One that failed on its own
\* only says so; a presentation that can be shown is.
Heard(w, t, answer) ==
  LET v == [w EXCEPT !.calls[t] = answer]
      rest == works \ {w}
      s == IF w.mine /\ answer = "ok" /\ w.kind \in {"many", "one"}
           THEN [dash EXCEPT !.chosen = @ \ {t}] ELSE dash
  IN \/ /\ Outstanding(v)
        /\ works' = rest \union {v} /\ dash' = s /\ UNCHANGED <<reading, route>>
     \/ /\ ~Outstanding(v) /\ Unsent(v) # {}
        /\ \E b \in Batches(Unsent(v)) :
             works' = rest \union {[v EXCEPT !.calls = NextBatch(@, b)]}
        /\ dash' = s /\ UNCHANGED <<reading, route>>
     \/ /\ ~Outstanding(v) /\ Unsent(v) = {}
        /\ w.kind = "many" \/ (answer = "ok" /\ w.kind \in {"one", "reset"})
             \/ (answer = "ok" /\ w.kind = "create" /\ route = "list")
        /\ works' = rest \union {[v EXCEPT !.step = "waiting"]}
        /\ dash' = s /\ reading' = Refetched /\ UNCHANGED route
     \/ /\ answer = "ok" /\ (w.kind = "present" \/ (w.kind = "create" /\ route # "list"))
        /\ IF route = "list" THEN Departs("presentation", rest)
           ELSE /\ route' = IF w.kind = "create" THEN "editor" ELSE "presentation"
                /\ works' = rest /\ UNCHANGED <<dash, reading>>
     \/ /\ answer = "failed" /\ w.kind # "many"
        /\ works' = rest
        /\ dash' = IF w.mine /\ w.kind # "create" THEN [s EXCEPT !.notice = Outcome(v)] ELSE s
        /\ UNCHANGED <<reading, route>>

\* A presentation without slides, or with an invalid one, is not shown.
ReplyHeard(w, t) ==
  /\ \/ w.calls[t] = "done" /\ Heard(w, t, "ok")
     \/ w.calls[t] = "refused" /\ Heard(w, t, "failed")
     \/ w.calls[t] = "done" /\ w.kind = "present" /\ Heard(w, t, "failed")
  /\ UNCHANGED <<shelf, cache, room>>

ReplyLost(w, t) ==
  /\ w.calls[t] \in {"sent", "done"} /\ Use("others") /\ Heard(w, t, "failed")
  /\ UNCHANGED <<shelf, cache>>

\* Another page of the owner's deletes one, or runs it.
Elsewhere(t) ==
  /\ \/ /\ shelf[t] \in {"idle", "played"}
        /\ \E to \in {"held", "gone"} : shelf' = [shelf EXCEPT ![t] = to]
     \/ shelf[t] = "held" /\ shelf' = [shelf EXCEPT ![t] = "played"]
  /\ Use("others")
  /\ UNCHANGED <<cache, reading, dash, route, works>>

LibraryNext ==
  \/ ReadRows \/ ListRead \/ ListLost \/ ReadAgain
  \/ \E found \in Searches : Search(found)
  \/ \E t \in Talks : SelectTalk(t) \/ DeleteTalk(t) \/ ResetTalk(t) \/ Present(t) \/ Elsewhere(t)
  \/ SelectAll \/ SelectAllFound \/ ClearSelection \/ NoticeExpires
  \/ DeleteSelected \/ Dismiss \/ Confirm \/ NewTalk
  \/ \E to \in {"editor", "report", "elsewhere"} : Leave(to)
  \/ Return
  \/ \E w \in works : \E t \in w.ids : ServeCall(w, t) \/ ReplyHeard(w, t) \/ ReplyLost(w, t)

LibrarySpec == LibraryInit /\ [][LibraryNext]_libraryVars
-----------------------------------------------------------------------------
(* Properties.                                                             *)

\* "Deleted" is only said when every presentation the question was about is
\* gone, over all batches, whatever was refused, lost or deleted elsewhere.
DeletedMeansGone ==
  dash.notice.kind = "deleted" => \A t \in dash.notice.ids : shelf[t] = "gone"
=============================================================================
