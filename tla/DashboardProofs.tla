--------------------------- MODULE DashboardProofs ---------------------------
(***************************************************************************)
(* What the dashboard, the reports and the store promise about             *)
(* presentations and their sessions, for any number of them, of            *)
(* transactions, of deletions at once and of pages.                        *)
(*                                                                         *)
(* An opened session is never deleted (RunIsNeverLost of Directory).  The  *)
(* step that deletes decides on what it saw when it took the lock, so the  *)
(* property needs to know what that says of the table now: the lock has    *)
(* one holder (OneHolder), therefore nobody opens a session between its    *)
(* look and its deletion (SawWhatRuns).                                    *)
(*                                                                         *)
(* "Deleted" is the truth (DeletedMeansGone of Library).  The notice is    *)
(* written when the last reply is in and the list has been read again,     *)
(* long after each presentation went.  The invariant follows the requests: *)
(* one that was done, or heard to be, left its presentation gone (Honest), *)
(* work that waits for the list has heard all its replies (Over), and what *)
(* is gone stays gone (GoneStays).                                         *)
(*                                                                         *)
(* Reports: whatever is stored while pages are read and read again, a list *)
(* is one list (ReportListsAreOneList), and the numbers of a reply agree   *)
(* (RepliesAddUp).  The invariant follows each fetch: what it has got is   *)
(* such a list already, its cursor is a last row of it, and what it reads  *)
(* is a session that was, which is the session as it is once that has      *)
(* ended (FetchOk).  A ranking goes on only from a final page, therefore   *)
(* from the ranking that stays.                                            *)
(***************************************************************************)
EXTENDS Directory, Library, Reports, SumTheorems, FiniteSetTheorems, TLAPS

Locks == [kind : {"create", "delete", "reset"}, deck : Decks, saw : {"none", "active", "ended"}]
DirectoryTypeOK == locks \subseteq Locks /\ runs \in [Decks -> {"none", "active", "ended"}]
OneHolder == \A s, t \in locks : s.deck = t.deck => s = t
SawWhatRuns == \A t \in locks : runs[t.deck] = "active" => t.saw = "active"
LockInv == DirectoryTypeOK /\ OneHolder /\ SawWhatRuns

\* No transaction of the store is under way at first, and no session open.
LEMMA LockInvInit == DirectoryInit => LockInv
  BY DEF DirectoryInit, LockInv, DirectoryTypeOK, OneHolder, SawWhatRuns

\* Taking the lock: the new holder is alone, and has just looked.
LEMMA BeginKeepsLockInv ==
  ASSUME LockInv, NEW kind \in {"create", "delete", "reset"}, NEW d \in Decks, BeginDeckWork(kind, d)
  PROVE  LockInv'
<1> DEFINE new == [kind |-> kind, deck |-> d, saw |-> runs[d]]
<1>1. /\ locks' = locks \union {new} /\ runs' = runs
      /\ \A t \in locks : t.deck # d
  BY DEF BeginDeckWork, LockFree
<1>2. new \in Locks /\ new.deck = d /\ new.saw = runs[d]
  BY DEF LockInv, DirectoryTypeOK, Locks
<1>3. DirectoryTypeOK'
  BY <1>1, <1>2 DEF LockInv, DirectoryTypeOK, Locks
<1>4. OneHolder'
  BY <1>1, <1>2 DEF LockInv, OneHolder
<1>5. SawWhatRuns'
  BY <1>1, <1>2 DEF LockInv, SawWhatRuns
<1> QED  BY <1>3, <1>4, <1>5 DEF LockInv

\* What the end of a transaction does to the sessions: it touches only that of
\* its own presentation, and only when it saw no active one.
LEMMA FinishTouchesItsOwn ==
  ASSUME LockInv, NEW t \in locks, FinishDeckWork(t), NEW d \in Decks, runs'[d] # runs[d]
  PROVE  d = t.deck /\ t.saw # "active"
<1>1. t.saw # "active"
  BY DEF FinishDeckWork
<1>2. runs' \in {runs, [runs EXCEPT ![t.deck] = "active"], [runs EXCEPT ![t.deck] = "none"]}
  BY DEF FinishDeckWork
<1>3. runs \in [Decks -> {"none", "active", "ended"}]
  BY DEF LockInv, DirectoryTypeOK
<1> QED  BY <1>1, <1>2, <1>3

LEMMA FinishKeepsLockInv ==
  ASSUME LockInv, NEW t \in locks, FinishDeckWork(t)
  PROVE  LockInv'
<1>1. locks' = locks \ {t}
  BY DEF FinishDeckWork
<1>2. DirectoryTypeOK'
  <2>1. runs' \in {runs, [runs EXCEPT ![t.deck] = "active"], [runs EXCEPT ![t.deck] = "none"]}
    BY DEF FinishDeckWork
  <2> QED  BY <1>1, <2>1 DEF LockInv, DirectoryTypeOK, Locks
<1>3. OneHolder'
  BY <1>1 DEF LockInv, OneHolder
<1>4. SawWhatRuns'
  <2> SUFFICES ASSUME NEW s \in locks', runs'[s.deck] = "active"
               PROVE  s.saw = "active"
    BY DEF SawWhatRuns
  <2>1. s \in locks /\ s # t /\ s.deck # t.deck /\ s.deck \in Decks
    BY <1>1 DEF LockInv, DirectoryTypeOK, OneHolder, Locks
  <2>2. runs'[s.deck] = runs[s.deck]
    BY <2>1, FinishTouchesItsOwn
  <2> QED  BY <2>1, <2>2 DEF LockInv, SawWhatRuns
<1> QED  BY <1>2, <1>3, <1>4 DEF LockInv

\* Nothing else touches the locks, and no session is opened without one.
LEMMA OthersKeepLockInv ==
  ASSUME LockInv, locks' = locks,
         runs' = runs \/ \E d \in Decks : EndRun(d)
  PROVE  LockInv'
<1>1. CASE runs' = runs
  BY <1>1 DEF LockInv, DirectoryTypeOK, OneHolder, SawWhatRuns
<1>2. CASE \E d \in Decks : EndRun(d)
  <2>1. PICK d \in Decks : runs' = [runs EXCEPT ![d] = "ended"]
    BY <1>2 DEF EndRun
  <2> QED  BY <2>1 DEF LockInv, DirectoryTypeOK, OneHolder, SawWhatRuns, Locks
<1> QED  BY <1>1, <1>2

\* The steps of the system, by what they do to locks and sessions.
LEMMA StepKinds ==
  ASSUME [DirectoryNext]_directoryVars
  PROVE  \/ \E kind \in {"create", "delete", "reset"}, d \in Decks : BeginDeckWork(kind, d)
         \/ \E t \in locks : FinishDeckWork(t)
         \/ locks' = locks /\ (runs' = runs \/ \E d \in Decks : EndRun(d))
<1>1. CASE UNCHANGED directoryVars
  BY <1>1 DEF directoryVars
<1>2. CASE DirectoryNext
  BY <1>2 DEF DirectoryNext, EndRun, RenamedElsewhere, StartRenaming, DuplicateDeck, ReloadList,
     CancelRenaming, CommitRenaming, TypeName, RenameDone, DuplicateDone
<1> QED  BY <1>1, <1>2

LEMMA LockInvStep == LockInv /\ [DirectoryNext]_directoryVars => LockInv'
  BY StepKinds, BeginKeepsLockInv, FinishKeepsLockInv, OthersKeepLockInv

LEMMA LockInvHolds == DirectorySpec => []LockInv
  BY LockInvInit, LockInvStep, PTL DEF DirectorySpec

\* RunIsNeverLost: whatever transactions run on however many presentations, in
\* whatever order they take and release the lock (Delete, DeleteResults and
\* CreateSession of the two stores), none removes a session that is open.
THEOREM OpenRunsStay == DirectorySpec => RunIsNeverLost
<1>1. LockInv /\ [DirectoryNext]_directoryVars
        => [\A d \in Decks : runs[d] = "active" => runs'[d] # "none"]_directoryVars
  <2> SUFFICES ASSUME LockInv, [DirectoryNext]_directoryVars, NEW d \in Decks, runs[d] = "active"
               PROVE  runs'[d] # "none"
    OBVIOUS
  <2>1. ASSUME NEW kind, NEW e \in Decks, BeginDeckWork(kind, e)  PROVE runs'[d] # "none"
    BY <2>1 DEF BeginDeckWork
  <2>2. ASSUME NEW t \in locks, FinishDeckWork(t)  PROVE runs'[d] # "none"
    BY <2>2, FinishTouchesItsOwn DEF LockInv, SawWhatRuns
  <2>3. ASSUME NEW e \in Decks, EndRun(e)  PROVE runs'[d] # "none"
    BY <2>3 DEF EndRun, LockInv, DirectoryTypeOK
  <2> QED  BY <2>1, <2>2, <2>3, StepKinds
<1> QED  BY <1>1, LockInvHolds, PTL DEF DirectorySpec, RunIsNeverLost
-----------------------------------------------------------------------------
(* The other half of the dashboard: a name being typed.                    *)

\* The open field is the one that the last rename was started on, so that the
\* ref the reply compares itself with speaks of it.
FieldIsActive ==
  /\ renaming = [row |-> renaming.row, text |-> renaming.text, active |-> renaming.active]
  /\ renaming.row # "none" => renaming.active = renaming.row

LEMMA FieldIsActiveStep == FieldIsActive /\ [DirectoryNext]_directoryVars => FieldIsActive'
<1> SUFFICES ASSUME FieldIsActive, [DirectoryNext]_directoryVars  PROVE FieldIsActive'
  OBVIOUS
<1>1. CASE UNCHANGED renaming
  BY <1>1 DEF FieldIsActive
<1>2. ASSUME NEW d \in Decks, StartRenaming(d)  PROVE FieldIsActive'
  BY <1>2 DEF StartRenaming, FieldIsActive
<1>3. CASE CancelRenaming \/ CommitRenaming
  BY <1>3 DEF CancelRenaming, CommitRenaming, FieldIsActive, NoRename
<1>4. ASSUME NEW n, TypeName(n)  PROVE FieldIsActive'
  BY <1>4 DEF TypeName, FieldIsActive
<1>5. ASSUME NEW o \in pending, RenameDone(o)  PROVE FieldIsActive'
  <2>1. \E success \in BOOLEAN : renaming' = RowDone(o, success)
    BY <1>5 DEF RenameDone
  <2> QED  BY <2>1 DEF RowDone, FieldIsActive
<1>6. \/ UNCHANGED renaming \/ CancelRenaming \/ CommitRenaming \/ \E n : TypeName(n)
      \/ \E d \in Decks : StartRenaming(d)
      \/ \E o \in pending : RenameDone(o)
  BY DEF DirectoryNext, directoryVars, BeginDeckWork, FinishDeckWork, EndRun, RenamedElsewhere,
         DuplicateDeck, ReloadList, DuplicateDone
<1> QED  BY <1>1, <1>2, <1>3, <1>4, <1>5, <1>6

\* What takes a request out of pending: its own reply.
LEMMA RepliesEnd ==
  ASSUME [DirectoryNext]_directoryVars, NEW o \in pending \ pending'
  PROVE  RenameDone(o) \/ renaming' = renaming
<1>1. ASSUME NEW p \in pending, RenameDone(p)  PROVE RenameDone(o)
  BY <1>1 DEF RenameDone
<1>2. ASSUME NEW p \in pending, DuplicateDone(p)  PROVE renaming' = renaming
  BY <1>2 DEF DuplicateDone
<1>3. \E p \in pending : RenameDone(p) \/ DuplicateDone(p)
  BY DEF DirectoryNext, directoryVars, BeginDeckWork, FinishDeckWork, EndRun, RenamedElsewhere,
         DuplicateDeck, ReloadList, StartRenaming, CancelRenaming, CommitRenaming, TypeName
<1> QED  BY <1>1, <1>2, <1>3

\* However late the reply of a rename is (commitRenaming), it leaves the name
\* that is being typed in another row.
THEOREM TypedNamesStay == DirectorySpec => TypingIsKept
<1>1. DirectoryInit => FieldIsActive
  BY DEF DirectoryInit, FieldIsActive, NoRename
<1>2. FieldIsActive /\ [DirectoryNext]_directoryVars =>
        [\A o \in pending \ pending' :
           (renaming.row \notin {"none", o.deck}) => renaming' = renaming]_directoryVars
  <2> SUFFICES ASSUME FieldIsActive, [DirectoryNext]_directoryVars, NEW o \in pending \ pending',
                      renaming.row \notin {"none", o.deck}, RenameDone(o)
               PROVE  renaming' = renaming
    BY RepliesEnd
  <2>1. \E success \in BOOLEAN : renaming' = RowDone(o, success)
    BY DEF RenameDone
  <2> QED  BY <2>1 DEF RowDone, FieldIsActive
<1> QED  BY <1>1, <1>2, FieldIsActiveStep, PTL DEF DirectorySpec, TypingIsKept
-----------------------------------------------------------------------------
(* The notice of the dashboard.                                            *)

Answers == {"todo", "sent", "done", "refused", "ok", "failed"}
IsDash(s) ==
  /\ s = [chosen |-> s.chosen, search |-> s.search, asked |-> s.asked, notice |-> s.notice]
  /\ s.chosen \subseteq Talks /\ s.search \subseteq Talks
  /\ s.asked.ids \subseteq Talks /\ s.notice.ids \subseteq Talks
IsWork(w) ==
  /\ w = [kind |-> w.kind, ids |-> w.ids, step |-> w.step, mine |-> w.mine, calls |-> w.calls]
  /\ w.ids \subseteq Talks /\ w.calls \in [w.ids -> Answers]

Honest(w, table) ==
  w.kind \in {"many", "one"} =>
    \A t \in w.ids : w.calls[t] \in {"done", "ok"} => table[t] = "gone"
Over(w) == w.step = "waiting" => \A t \in w.ids : w.calls[t] \in {"ok", "failed"}
Sound(w, table) == IsWork(w) /\ Honest(w, table) /\ Over(w)

NoticeHolds(s, table) == s.notice.kind = "deleted" => \A t \in s.notice.ids : table[t] = "gone"
IsShelf(table) == table = [t \in Talks |-> table[t]]

LibraryInv ==
  /\ IsShelf(shelf) /\ IsDash(dash) /\ NoticeHolds(dash, shelf)
  /\ \A w \in works : Sound(w, shelf)

GoneStays == IsShelf(shelf') /\ \A t \in Talks : shelf[t] = "gone" => shelf'[t] = "gone"

LEMMA LibraryInvInit == LibraryInit => LibraryInv
  BY DEF LibraryInit, LibraryInv, IsShelf, IsDash, NoticeHolds, FreshDash, Nothing
-----------------------------------------------------------------------------
(* What the steps are made of.                                             *)

\* Nobody brings a presentation back.
LEMMA GoneForGood == ASSUME LibraryInv, [LibraryNext]_libraryVars  PROVE GoneStays
<1>1. CASE UNCHANGED shelf
  BY <1>1 DEF LibraryInv, GoneStays
<1>2. ASSUME NEW w \in works, NEW t \in w.ids, ServeCall(w, t)  PROVE GoneStays
  <2>1. shelf' \in {shelf, [shelf EXCEPT ![t] = ShelfAfter(w.kind, t)]}
    BY <1>2 DEF ServeCall
  <2>2. shelf[t] = "gone" => ShelfAfter(w.kind, t) = "gone"
    BY DEF ShelfAfter
  <2>3. IsShelf(shelf)
    BY DEF LibraryInv
  <2> HIDE DEF ShelfAfter
  <2> QED  BY <2>1, <2>2, <2>3 DEF GoneStays, IsShelf
<1>3. ASSUME NEW t \in Talks, Elsewhere(t)  PROVE GoneStays
  <2>1. shelf[t] # "gone" /\ \E to : shelf' = [shelf EXCEPT ![t] = to]
    BY <1>3 DEF Elsewhere
  <2>2. IsShelf(shelf)
    BY DEF LibraryInv
  <2> QED  BY <2>1, <2>2 DEF GoneStays, IsShelf
<1>4. \/ UNCHANGED shelf
      \/ \E w \in works : \E t \in w.ids : ServeCall(w, t)
      \/ \E t \in Talks : Elsewhere(t)
  <2>1. CASE UNCHANGED libraryVars
    BY <2>1 DEF libraryVars
  <2>2. CASE ReadRows \/ ListRead \/ ListLost \/ ReadAgain \/ Return
    BY <2>2 DEF ReadRows, ListRead, ListLost, ReadAgain, Return
  <2>3. CASE \E found \in Searches : Search(found)
    BY <2>3 DEF Search
  <2>4. CASE SelectAll \/ SelectAllFound \/ ClearSelection \/ NoticeExpires \/ DeleteSelected
    BY <2>4 DEF SelectAll, SelectAllFound, ClearSelection, NoticeExpires, DeleteSelected, Choosing, PutQuestion
  <2>5. CASE Dismiss \/ Confirm \/ NewTalk \/ \E to \in {"editor", "report", "elsewhere"} : Leave(to)
    BY <2>5 DEF Dismiss, Confirm, NewTalk, Leave
  <2>6. ASSUME NEW t \in Talks, SelectTalk(t) \/ DeleteTalk(t) \/ ResetTalk(t) \/ Present(t)
        PROVE  UNCHANGED shelf
    BY <2>6 DEF SelectTalk, DeleteTalk, ResetTalk, Present, Choosing, PutQuestion
  <2>7. ASSUME NEW w \in works, NEW t \in w.ids, ReplyHeard(w, t) \/ ReplyLost(w, t)
        PROVE  UNCHANGED shelf
    BY <2>7 DEF ReplyHeard, ReplyLost
  <2> QED  BY <2>1, <2>2, <2>3, <2>4, <2>5, <2>6, <2>7 DEF LibraryNext
<1> QED  BY <1>1, <1>2, <1>3, <1>4

\* So what is sound, and what a notice says, stays so.
LEMMA SoundStays ==
  ASSUME NEW w, Sound(w, shelf), GoneStays
  PROVE  Sound(w, shelf')
  BY DEF Sound, Honest, GoneStays, IsWork

LEMMA NoticeStays ==
  ASSUME NEW s, IsDash(s), NoticeHolds(s, shelf), GoneStays
  PROVE  NoticeHolds(s, shelf')
  BY DEF NoticeHolds, GoneStays, IsDash

\* A handler that has lost its page is the same work.
LEMMA DetachedIsSound ==
  ASSUME NEW ws, NEW table, \A w \in ws : Sound(w, table)
  PROVE  \A v \in Detached(ws) : Sound(v, table)
<1> SUFFICES ASSUME NEW w \in ws, NEW v, v = [w EXCEPT !.mine = FALSE]
             PROVE  Sound(v, table)
  BY DEF Detached
<1>1. Sound(w, table)
  OBVIOUS
<1>2. w = [kind |-> w.kind, ids |-> w.ids, step |-> w.step, mine |-> w.mine, calls |-> w.calls]
  BY <1>1 DEF Sound, IsWork
<1>3. v = [kind |-> w.kind, ids |-> w.ids, step |-> w.step, mine |-> FALSE, calls |-> w.calls]
  BY <1>2
<1> QED  BY <1>1, <1>3 DEF Sound, IsWork, Honest, Over

\* Work that begins has no answers.
LEMMA NewWorkIsSound ==
  ASSUME \A w \in works : Sound(w, shelf), NEW kind, NEW ids \in SUBSET Talks, StartWork(kind, ids)
  PROVE  \A w \in works' : Sound(w, shelf)
<1>1. PICK b \in Batches(ids) :
        works' = works \union {[kind |-> kind, ids |-> ids, step |-> "calling", mine |-> TRUE,
                                calls |-> NextBatch([t \in ids |-> "todo"], b)]}
  BY DEF StartWork
<1> DEFINE calls == NextBatch([t \in ids |-> "todo"], b)
           new == [kind |-> kind, ids |-> ids, step |-> "calling", mine |-> TRUE, calls |-> calls]
<1>2. calls \in [ids -> {"todo", "sent"}]
  BY DEF NextBatch
<1> HIDE DEF calls
<1>3. Sound(new, shelf)
  BY <1>2 DEF Sound, IsWork, Honest, Over, Answers
<1> QED  BY <1>1, <1>3 DEF calls

\* Another answer is written beside a request.
LEMMA AnsweredIsSound ==
  ASSUME NEW w, NEW table, NEW t \in w.ids, NEW answer \in Answers, Sound(w, table),
         answer \in {"done", "ok"} /\ w.kind \in {"many", "one"} => table[t] = "gone",
         answer \in {"ok", "failed"} \/ w.step # "waiting"
  PROVE  Sound([w EXCEPT !.calls[t] = answer], table)
<1> DEFINE calls == [w.calls EXCEPT ![t] = answer]
<1>1. [w EXCEPT !.calls[t] = answer] =
        [kind |-> w.kind, ids |-> w.ids, step |-> w.step, mine |-> w.mine, calls |-> calls]
  BY DEF Sound, IsWork
<1>2. /\ calls \in [w.ids -> Answers] /\ calls[t] = answer
      /\ \A u \in w.ids : u # t => calls[u] = w.calls[u]
  BY DEF Sound, IsWork
<1> HIDE DEF calls
<1>3. IsWork([w EXCEPT !.calls[t] = answer])
  BY <1>1, <1>2 DEF Sound, IsWork
<1>4. Honest([w EXCEPT !.calls[t] = answer], table) /\ Over([w EXCEPT !.calls[t] = answer])
  BY <1>1, <1>2 DEF Sound, Honest, Over
<1> QED  BY <1>3, <1>4 DEF Sound
-----------------------------------------------------------------------------
(* The steps.                                                              *)

\* A step that leaves page and requests alone.
LEMMA IdleKeeps ==
  ASSUME LibraryInv, [LibraryNext]_libraryVars, dash' = dash, works' = works
  PROVE  LibraryInv'
<1>1. GoneStays
  BY GoneForGood
<1>2. \A w \in works' : Sound(w, shelf')
  BY <1>1, SoundStays DEF LibraryInv
<1>3. NoticeHolds(dash', shelf')
  BY <1>1, NoticeStays DEF LibraryInv
<1> QED  BY <1>1, <1>2, <1>3 DEF LibraryInv, GoneStays

\* A step of the page that starts nothing: its notice is the old one or none.
LEMMA PageKeeps ==
  ASSUME LibraryInv, IsDash(dash'), dash'.notice \in {dash.notice, Nothing},
         works' = works, shelf' = shelf
  PROVE  LibraryInv'
  BY DEF LibraryInv, NoticeHolds, Nothing

LEMMA ChoosingKeeps ==
  ASSUME LibraryInv, NEW chosen \in SUBSET Talks, Choosing(chosen)
  PROVE  LibraryInv'
<1>1. IsDash(dash') /\ dash'.notice = dash.notice
  BY DEF Choosing, LibraryInv, IsDash
<1> QED  BY <1>1, PageKeeps DEF Choosing

LEMMA QuestionKeeps ==
  ASSUME LibraryInv, NEW kind, NEW ids \in SUBSET Talks, PutQuestion(kind, ids)
  PROVE  LibraryInv'
<1>1. IsDash(dash') /\ dash'.notice = dash.notice
  BY DEF PutQuestion, LibraryInv, IsDash
<1> QED  BY <1>1, PageKeeps DEF PutQuestion

LEMMA SelectingKeeps ==
  ASSUME LibraryInv,
         \/ \E found \in Searches : Search(found)
         \/ \E t \in Talks : SelectTalk(t) \/ DeleteTalk(t) \/ ResetTalk(t)
         \/ SelectAll \/ SelectAllFound \/ ClearSelection \/ DeleteSelected
         \/ NoticeExpires \/ Dismiss
  PROVE  LibraryInv'
<1>1. dash.chosen \subseteq Talks /\ Found \subseteq Talks
  BY DEF LibraryInv, IsDash, Found
<1>2. ASSUME NEW found \in Searches, Search(found)  PROVE LibraryInv'
  <2>1. found \subseteq Talks
    BY LibraryAssumption
  <2>2. IsDash(dash') /\ dash'.notice = dash.notice
    BY <1>2, <2>1 DEF Search, LibraryInv, IsDash
  <2> QED  BY <1>2, <2>2, PageKeeps DEF Search
<1>3. ASSUME NEW t \in Talks, SelectTalk(t) \/ DeleteTalk(t) \/ ResetTalk(t)  PROVE LibraryInv'
  <2>1. CASE SelectTalk(t)
    BY <1>1, <2>1, ChoosingKeeps DEF SelectTalk
  <2>2. CASE DeleteTalk(t) \/ ResetTalk(t)
    BY <2>2, QuestionKeeps DEF DeleteTalk, ResetTalk
  <2> QED  BY <1>3, <2>1, <2>2
<1>4. CASE SelectAll \/ SelectAllFound \/ ClearSelection
  BY <1>1, <1>4, ChoosingKeeps DEF SelectAll, SelectAllFound, ClearSelection
<1>5. CASE DeleteSelected
  BY <1>1, <1>5, QuestionKeeps DEF DeleteSelected
<1>6. CASE NoticeExpires \/ Dismiss
  <2>1. IsDash(dash') /\ dash'.notice \in {dash.notice, Nothing}
    BY <1>6 DEF NoticeExpires, Dismiss, LibraryInv, IsDash, Nothing
  <2> QED  BY <1>6, <2>1, PageKeeps DEF NoticeExpires, Dismiss
<1> QED  BY <1>2, <1>3, <1>4, <1>5, <1>6

\* A confirmation, a creation, an opening.
LEMMA StartingKeeps ==
  ASSUME LibraryInv, Confirm \/ NewTalk \/ \E t \in Talks : Present(t)
  PROVE  LibraryInv'
<1>1. PICK kind, ids : ids \in SUBSET Talks /\ StartWork(kind, ids)
  <2>1. CASE Confirm
    BY <2>1 DEF Confirm, LibraryInv, IsDash
  <2>2. CASE NewTalk
    <3>1. PICK t \in Talks : StartWork("create", {t})
      BY <2>2 DEF NewTalk
    <3> QED  BY <3>1
  <2>3. CASE \E t \in Talks : Present(t)
    <3>1. PICK t \in Talks : StartWork("present", {t})
      BY <2>3 DEF Present
    <3> QED  BY <3>1
  <2> QED  BY <2>1, <2>2, <2>3
<1>2. \A w \in works' : Sound(w, shelf)
  BY <1>1, NewWorkIsSound DEF LibraryInv
<1>3. shelf' = shelf
  BY DEF Confirm, NewTalk, Present
<1>4. IsDash(dash') /\ dash'.notice = dash.notice
  <2>1. dash' = dash \/ dash' = [dash EXCEPT !.asked = Nothing]
    BY DEF Confirm, NewTalk, Present
  <2>2. IsDash(dash)
    BY DEF LibraryInv
  <2> QED  BY <2>1, <2>2 DEF IsDash, Nothing
<1> QED  BY <1>2, <1>3, <1>4 DEF LibraryInv, NoticeHolds

\* The page is closed and opened afresh.
LEMMA DepartsKeeps ==
  ASSUME LibraryInv, NEW to, NEW rest, \A w \in rest : Sound(w, shelf), Departs(to, rest), shelf' = shelf
  PROVE  LibraryInv'
<1>1. \A w \in works' : Sound(w, shelf)
  BY DetachedIsSound DEF Departs
<1>2. IsDash(dash') /\ dash'.notice = Nothing
  BY DEF Departs, FreshDash, IsDash, Nothing
<1> QED  BY <1>1, <1>2 DEF LibraryInv, NoticeHolds, Nothing

\* The list was read, or not: those who waited for it tell their outcome, which
\* their answers are known for.
LEMMA GoingOnKeeps ==
  ASSUME LibraryInv, NEW s, IsDash(s), s.notice = dash.notice, GoOn(s), shelf' = shelf
  PROVE  LibraryInv'
<1>1. \A w \in works' : Sound(w, shelf)
  <2>1. \A w \in works \ Waiting : Sound(w, shelf)
    BY DEF LibraryInv
  <2>2. works' = Detached(works \ Waiting) \/ works' = works \ Waiting
    BY DEF GoOn
  <2> QED  BY <2>1, <2>2, DetachedIsSound
<1>2. CASE dash' \in {s, FreshDash}
  BY <1>1, <1>2 DEF LibraryInv, NoticeHolds, FreshDash, IsDash, Nothing
<1>3. ASSUME NEW w \in Waiting, w.kind \in Modal, dash' = TellOutcome(s, w)
      PROVE  LibraryInv'
  <2>1. Sound(w, shelf) /\ w.step = "waiting"
    BY <1>3 DEF LibraryInv, Waiting
  <2>2. \E chosen \in {{}, s.chosen} : dash' = [s EXCEPT !.notice = Outcome(w), !.chosen = chosen]
    BY <1>3 DEF TellOutcome
  <2>3. Outcome(w).ids = w.ids
    BY DEF Outcome
  <2>4. Outcome(w).kind = "deleted" => \A t \in w.ids : shelf[t] = "gone"
    <3> SUFFICES ASSUME Outcome(w).kind = "deleted", NEW t \in w.ids  PROVE shelf[t] = "gone"
      OBVIOUS
    <3>1. w.kind \in {"many", "one"} /\ Failed(w) = {}
      BY <1>3 DEF Outcome, Modal
    <3>2. w.calls[t] = "ok"
      BY <2>1, <3>1 DEF Sound, Over, Failed
    <3> QED  BY <2>1, <3>1, <3>2 DEF Sound, Honest
  <2> HIDE DEF Outcome
  <2>5. IsDash(dash') /\ dash'.notice = Outcome(w)
    BY <2>1, <2>2, <2>3 DEF IsDash, Sound, IsWork
  <2> QED  BY <1>1, <2>3, <2>4, <2>5 DEF LibraryInv, NoticeHolds
<1>4. dash' \in {s, FreshDash} \/ \E w \in Waiting : w.kind \in Modal /\ dash' = TellOutcome(s, w)
  BY DEF GoOn
<1> QED  BY <1>2, <1>3, <1>4

LEMMA ListKeeps == ASSUME LibraryInv, ListRead \/ ListLost  PROVE LibraryInv'
<1>1. \E s \in {dash, [dash EXCEPT !.chosen = @ \cap reading.rows]} : GoOn(s)
  BY DEF ListRead, ListLost
<1>2. \A s \in {dash, [dash EXCEPT !.chosen = @ \cap reading.rows]} :
        IsDash(s) /\ s.notice = dash.notice
  BY DEF LibraryInv, IsDash
<1>3. shelf' = shelf
  BY DEF ListRead, ListLost
<1> QED  BY <1>1, <1>2, <1>3, GoingOnKeeps

LEMMA LeavingKeeps ==
  ASSUME LibraryInv, NEW to, Leave(to)
  PROVE  LibraryInv'
  BY DepartsKeeps DEF Leave, LibraryInv

\* The server's answer: what it calls deleted is.
LEMMA ServingKeeps ==
  ASSUME LibraryInv, NEW w \in works, NEW t \in w.ids, ServeCall(w, t), GoneStays
  PROVE  LibraryInv'
<1>1. Sound(w, shelf') /\ \A u \in works : Sound(u, shelf')
  BY SoundStays DEF LibraryInv
<1>2. dash' = dash /\ w.calls[t] = "sent" /\ w.step # "waiting"
  BY <1>1 DEF ServeCall, Sound, Over
<1>3. PICK answer \in {"done", "refused"} :
        /\ works' = Changed(w, t, answer)
        /\ answer = "done" => shelf' = [shelf EXCEPT ![t] = ShelfAfter(w.kind, t)]
  BY DEF ServeCall
<1>4. answer = "done" /\ w.kind \in {"many", "one"} => shelf'[t] = "gone"
  <2>1. w.kind \in {"many", "one"} => ShelfAfter(w.kind, t) = "gone"
    BY DEF ShelfAfter
  <2>2. IsShelf(shelf) /\ t \in Talks
    BY <1>1 DEF LibraryInv, Sound, IsWork
  <2> HIDE DEF ShelfAfter
  <2> QED  BY <1>3, <2>1, <2>2 DEF IsShelf
<1>5. Sound([w EXCEPT !.calls[t] = answer], shelf')
  BY <1>1, <1>2, <1>4, AnsweredIsSound DEF Answers
<1>6. NoticeHolds(dash', shelf')
  BY <1>2, NoticeStays DEF LibraryInv
<1> QED  BY <1>1, <1>2, <1>3, <1>5, <1>6 DEF LibraryInv, Changed, GoneStays

\* The next batch goes out: the answers before it are kept.
LEMMA BatchIsSound ==
  ASSUME NEW w, NEW table, Sound(w, table), w.step # "waiting", NEW b
  PROVE  Sound([w EXCEPT !.calls = NextBatch(@, b)], table)
<1> DEFINE calls == NextBatch(w.calls, b)
<1>1. [w EXCEPT !.calls = NextBatch(@, b)] =
        [kind |-> w.kind, ids |-> w.ids, step |-> w.step, mine |-> w.mine, calls |-> calls]
  <2> HIDE DEF calls
  <2>1. [w EXCEPT !.calls = calls] =
          [kind |-> w.kind, ids |-> w.ids, step |-> w.step, mine |-> w.mine, calls |-> calls]
    BY DEF Sound, IsWork
  <2> QED  BY <2>1 DEF calls
<1>2. calls \in [w.ids -> Answers] /\ \A t \in w.ids : calls[t] \in {"sent", w.calls[t]}
  BY DEF Sound, IsWork, NextBatch, Answers
<1> HIDE DEF calls
<1> QED  BY <1>1, <1>2 DEF Sound, IsWork, Honest, Over

\* All replies are in: the work waits for the list.
LEMMA WaitingIsSound ==
  ASSUME NEW w, NEW table, Sound(w, table), ~Outstanding(w), Unsent(w) = {}
  PROVE  Sound([w EXCEPT !.step = "waiting"], table)
<1>1. [w EXCEPT !.step = "waiting"] =
        [kind |-> w.kind, ids |-> w.ids, step |-> "waiting", mine |-> w.mine, calls |-> w.calls]
  BY DEF Sound, IsWork
<1>2. \A t \in w.ids : w.calls[t] \in {"ok", "failed"}
  BY DEF Outstanding, Unsent, Sound, IsWork, Answers
<1> QED  BY <1>1, <1>2 DEF Sound, IsWork, Honest, Over

\* A reply heard, or its loss noticed.
LEMMA HearingKeeps ==
  ASSUME LibraryInv, NEW w \in works, NEW t \in w.ids, NEW answer \in {"ok", "failed"},
         w.calls[t] \in {"sent", "done", "refused"}, answer = "ok" => w.calls[t] = "done",
         Heard(w, t, answer), shelf' = shelf
  PROVE  LibraryInv'
<1> DEFINE v == [w EXCEPT !.calls[t] = answer]
           rest == works \ {w}
           s == IF w.mine /\ answer = "ok" /\ w.kind \in {"many", "one"}
                THEN [dash EXCEPT !.chosen = @ \ {t}] ELSE dash
<1>1. Sound(w, shelf) /\ \A u \in rest : Sound(u, shelf)
  BY DEF LibraryInv
<1>2. w.step # "waiting"
  BY <1>1 DEF Sound, Over
<1>3. Sound(v, shelf)
  <2>1. answer \in {"done", "ok"} /\ w.kind \in {"many", "one"} => shelf[t] = "gone"
    BY <1>1 DEF Sound, Honest
  <2>2. answer \in Answers
    BY DEF Answers
  <2> QED  BY <1>1, <1>2, <2>1, <2>2, AnsweredIsSound
<1>4. v.kind = w.kind /\ v.ids = w.ids /\ v.step # "waiting" /\ v.calls[t] = answer
  BY <1>1, <1>2 DEF Sound, IsWork
<1>5. IsDash(s) /\ s.notice = dash.notice /\ NoticeHolds(dash, shelf) /\ IsDash(dash) /\ IsShelf(shelf)
  BY DEF LibraryInv, IsDash
<1>6. \/ works' = rest \union {v} /\ dash' = s
      \/ (\E b : works' = rest \union {[v EXCEPT !.calls = NextBatch(@, b)]}) /\ dash' = s
      \/ /\ ~Outstanding(v) /\ Unsent(v) = {}
         /\ works' = rest \union {[v EXCEPT !.step = "waiting"]} /\ dash' = s
      \/ Departs("presentation", rest)
      \/ works' = rest /\ dash' = dash
      \/ /\ answer = "failed" /\ works' = rest
         /\ dash' \in {s, [s EXCEPT !.notice = Outcome(v)]}
  BY DEF Heard
<1> HIDE DEF v, s, rest
<1>7. CASE works' = rest \union {v} /\ dash' = s
  BY <1>1, <1>3, <1>5, <1>7 DEF LibraryInv, NoticeHolds
<1>8. ASSUME NEW b, works' = rest \union {[v EXCEPT !.calls = NextBatch(@, b)]}, dash' = s
      PROVE  LibraryInv'
  <2>1. Sound([v EXCEPT !.calls = NextBatch(@, b)], shelf)
    BY <1>3, <1>4, BatchIsSound
  <2> QED  BY <1>1, <1>5, <1>8, <2>1 DEF LibraryInv, NoticeHolds
<1>9. CASE /\ ~Outstanding(v) /\ Unsent(v) = {}
           /\ works' = rest \union {[v EXCEPT !.step = "waiting"]} /\ dash' = s
  <2>1. Sound([v EXCEPT !.step = "waiting"], shelf)
    BY <1>3, <1>9, WaitingIsSound
  <2> QED  BY <1>1, <1>5, <1>9, <2>1 DEF LibraryInv, NoticeHolds
<1>10. CASE Departs("presentation", rest)
  BY <1>1, <1>10, DepartsKeeps
<1>11. CASE works' = rest /\ dash' = dash
  BY <1>1, <1>5, <1>11 DEF LibraryInv
<1>12. CASE answer = "failed" /\ works' = rest /\ dash' \in {s, [s EXCEPT !.notice = Outcome(v)]}
  <2>1. Outcome(v).kind = "error" /\ Outcome(v).ids \subseteq Talks
    <3>1. t \in Failed(v)
      BY <1>4, <1>12 DEF Failed
    <3> QED  BY <1>3, <3>1 DEF Outcome, Sound, IsWork
  <2> HIDE DEF Outcome
  <2>2. IsDash(dash') /\ NoticeHolds(dash', shelf)
    BY <1>5, <1>12, <2>1 DEF IsDash, NoticeHolds
  <2> QED  BY <1>1, <1>5, <1>12, <2>2 DEF LibraryInv
<1> QED  BY <1>6, <1>7, <1>8, <1>9, <1>10, <1>11, <1>12

LEMMA ReplyKeeps ==
  ASSUME LibraryInv, NEW w \in works, NEW t \in w.ids, ReplyHeard(w, t) \/ ReplyLost(w, t)
  PROVE  LibraryInv'
<1>1. shelf' = shelf
  BY DEF ReplyHeard, ReplyLost
<1>2. \E answer \in {"ok", "failed"} :
        /\ w.calls[t] \in {"sent", "done", "refused"} /\ (answer = "ok" => w.calls[t] = "done")
        /\ Heard(w, t, answer)
  BY DEF ReplyHeard, ReplyLost
<1> QED  BY <1>1, <1>2, HearingKeeps

LEMMA LibraryInvStep == LibraryInv /\ [LibraryNext]_libraryVars => LibraryInv'
<1> SUFFICES ASSUME LibraryInv, [LibraryNext]_libraryVars  PROVE LibraryInv'
  OBVIOUS
<1>1. CASE UNCHANGED libraryVars
  BY <1>1, IdleKeeps DEF libraryVars
<1>2. CASE ReadRows \/ ReadAgain \/ Return \/ \E t \in Talks : Elsewhere(t)
  BY <1>2, IdleKeeps DEF ReadRows, ReadAgain, Return, Elsewhere
<1>3. CASE ListRead \/ ListLost
  BY <1>3, ListKeeps
<1>4. CASE \/ \E found \in Searches : Search(found)
           \/ \E t \in Talks : SelectTalk(t) \/ DeleteTalk(t) \/ ResetTalk(t)
           \/ SelectAll \/ SelectAllFound \/ ClearSelection \/ DeleteSelected
           \/ NoticeExpires \/ Dismiss
  BY <1>4, SelectingKeeps
<1>5. CASE Confirm \/ NewTalk \/ \E t \in Talks : Present(t)
  BY <1>5, StartingKeeps
<1>6. CASE \E to \in {"editor", "report", "elsewhere"} : Leave(to)
  BY <1>6, LeavingKeeps
<1>7. CASE \E w \in works : \E t \in w.ids : ServeCall(w, t)
  BY <1>7, ServingKeeps, GoneForGood
<1>8. CASE \E w \in works : \E t \in w.ids : ReplyHeard(w, t) \/ ReplyLost(w, t)
  BY <1>8, ReplyKeeps
<1> QED  BY <1>1, <1>2, <1>3, <1>4, <1>5, <1>6, <1>7, <1>8 DEF LibraryNext

\* "Deleted" is said only of presentations that are all gone, whatever batches,
\* refusals, lost replies and other pages there were.
THEOREM DeletedIsGone == LibrarySpec => []DeletedMeansGone
<1>1. LibraryInv => DeletedMeansGone
  BY DEF LibraryInv, NoticeHolds, DeletedMeansGone
<1> QED  BY LibraryInvInit, LibraryInvStep, <1>1, PTL DEF LibrarySpec
-----------------------------------------------------------------------------
(* Reports: the lists.                                                     *)

RowsOf(k) ==
  CASE k = "sessions" -> [no: Nat]
    [] k = "totals" -> {}
    [] k = "ranking" -> [joined: Nat, score: Nat, rank: Nat]
    [] OTHER -> [who: Nat, at: Nat, points: Nat, worth: Nat, right: BOOLEAN]

LEMMA QueryKinds ==
  \A k \in Queries :
    \/ k = "sessions" /\ RowsOf(k) = [no: Nat] /\ \A a, b : Before(k, a, b) <=> a.no > b.no
    \/ k = "totals" /\ RowsOf(k) = {}
    \/ /\ k = "ranking" /\ RowsOf(k) = [joined: Nat, score: Nat, rank: Nat]
       /\ \A a, b : Before(k, a, b) <=>
            a.score > b.score \/ (a.score = b.score /\ a.joined < b.joined)
    \/ /\ k \in Topics /\ RowsOf(k) = [who: Nat, at: Nat, points: Nat, worth: Nat, right: BOOLEAN]
       /\ \A a, b : Before(k, a, b) <=> a.at > b.at
<1> TAKE k \in Queries
<1>1. CASE k = "sessions"
  BY <1>1 DEF RowsOf, Before
<1>2. CASE k = "totals"
  BY <1>2 DEF RowsOf
<1>3. CASE k = "ranking"
  BY <1>3 DEF RowsOf, Before
<1>4. CASE k \in Topics
  <2>1. k # "sessions" /\ k # "totals" /\ k # "ranking"
    BY <1>4, ReportsAssumption
  <2> QED  BY <1>4, <2>1 DEF RowsOf, Before
<1> QED  BY <1>1, <1>2, <1>3, <1>4 DEF Queries

\* The order of a list, up to rows of equal rank in it.
LEMMA BeforeIsAnOrder ==
  ASSUME NEW k \in Queries
  PROVE  \A a, b, c \in RowsOf(k) :
           /\ ~Before(k, a, a)
           /\ Before(k, a, b) /\ Before(k, b, c) => Before(k, a, c)
           /\ ~Before(k, b, a) /\ Before(k, b, c) => Before(k, a, c)
<1>1. CASE k = "sessions" /\ RowsOf(k) = [no: Nat] /\ \A a, b : Before(k, a, b) <=> a.no > b.no
  <2> TAKE a, b, c \in RowsOf(k)
  <2>1. a.no \in Nat /\ b.no \in Nat /\ c.no \in Nat
    <3>1. a \in [no: Nat] /\ b \in [no: Nat] /\ c \in [no: Nat]
      BY <1>1, Zenon
    <3> QED  BY <3>1
  <2> QED  BY <1>1, <2>1
<1>2. CASE k = "totals" /\ RowsOf(k) = {}
  BY <1>2
<1>3. CASE /\ k = "ranking" /\ RowsOf(k) = [joined: Nat, score: Nat, rank: Nat]
           /\ \A a, b : Before(k, a, b) <=>
                a.score > b.score \/ (a.score = b.score /\ a.joined < b.joined)
  <2> TAKE a, b, c \in RowsOf(k)
  <2>1. /\ a.score \in Nat /\ b.score \in Nat /\ c.score \in Nat
        /\ a.joined \in Nat /\ b.joined \in Nat /\ c.joined \in Nat
    <3> DEFINE R == [joined: Nat, score: Nat, rank: Nat]
    <3>1. a \in R /\ b \in R /\ c \in R
      BY <1>3, Zenon
    <3> QED  BY <3>1
  <2> QED  BY <1>3, <2>1
<1>4. CASE /\ k \in Topics /\ RowsOf(k) = [who: Nat, at: Nat, points: Nat, worth: Nat, right: BOOLEAN]
           /\ \A a, b : Before(k, a, b) <=> a.at > b.at
  BY <1>4
<1> QED  BY <1>1, <1>2, <1>3, <1>4, QueryKinds

LEMMA NoRowIsNoCursor == \A k \in Queries : NoCursor \notin RowsOf(k)
<1> SUFFICES ASSUME NEW k \in Queries, NoCursor \in RowsOf(k) PROVE FALSE
  OBVIOUS
<1>1. PICK r \in RowsOf(k) : r = NoCursor
  OBVIOUS
<1>2. DOMAIN r = {"none"}
  BY <1>1 DEF NoCursor
<1>3. DOMAIN r = {"no"} \/ DOMAIN r = {"joined", "score", "rank"}
        \/ DOMAIN r = {"who", "at", "points", "worth", "right"}
  BY <1>1, QueryKinds
<1> QED  BY <1>2, <1>3

\* Whatever rows there are, one of them is the first, and one the last.
LEMMA FirstRow ==
  ASSUME NEW k \in Queries, NEW S \in SUBSET RowsOf(k), IsFiniteSet(S), S # {}
  PROVE  /\ \E r \in S : \A x \in S : ~Before(k, x, r)
         /\ \E r \in S : \A x \in S : ~Before(k, r, x)
<1> DEFINE ahead(r) == {x \in S : Before(k, x, r)}
           behind(r) == {x \in S : Before(k, r, x)}
<1>1. \A r \in S : /\ IsFiniteSet(ahead(r)) /\ Cardinality(ahead(r)) \in Nat
                   /\ IsFiniteSet(behind(r)) /\ Cardinality(behind(r)) \in Nat
  <2>1. \A r \in S : ahead(r) \in SUBSET S /\ behind(r) \in SUBSET S
    OBVIOUS
  <2> QED  BY <2>1, FS_Subset, FS_CardinalityType
<1>2. ASSUME NEW r \in S, NEW x \in ahead(r)
      PROVE  Cardinality(ahead(x)) < Cardinality(ahead(r))
  <2>1. ahead(x) \in SUBSET (ahead(r) \ {x})
    <3>1. \A a, b, c \in S : ~Before(k, a, a) /\ (Before(k, a, b) /\ Before(k, b, c) => Before(k, a, c))
      BY BeforeIsAnOrder
    <3> QED  BY <3>1
  <2>2. PICK T : T = ahead(r)
    OBVIOUS
  <2>3. IsFiniteSet(T) /\ x \in T
    BY <1>1, <2>2
  <2>4. /\ IsFiniteSet(T \ {x}) /\ Cardinality(T \ {x}) \in Nat /\ Cardinality(T) \in Nat
        /\ Cardinality(T \ {x}) < Cardinality(T)
    BY <2>3, OneFewer
  <2>5. Cardinality(ahead(x)) <= Cardinality(T \ {x})
    BY <2>1, <2>2, <2>4, FS_Subset
  <2>6. Cardinality(ahead(x)) \in Nat
    BY <1>1, <2>2, <2>3
  <2> HIDE DEF ahead
  <2> QED  BY <2>2, <2>4, <2>5, <2>6
<1>3. ASSUME NEW r \in S, NEW x \in behind(r)
      PROVE  Cardinality(behind(x)) < Cardinality(behind(r))
  <2>1. behind(x) \in SUBSET (behind(r) \ {x})
    <3>1. \A a, b, c \in S : ~Before(k, a, a) /\ (Before(k, a, b) /\ Before(k, b, c) => Before(k, a, c))
      BY BeforeIsAnOrder
    <3> QED  BY <3>1
  <2>2. PICK T : T = behind(r)
    OBVIOUS
  <2>3. IsFiniteSet(T) /\ x \in T
    BY <1>1, <2>2
  <2>4. /\ IsFiniteSet(T \ {x}) /\ Cardinality(T \ {x}) \in Nat /\ Cardinality(T) \in Nat
        /\ Cardinality(T \ {x}) < Cardinality(T)
    BY <2>3, OneFewer
  <2>5. Cardinality(behind(x)) <= Cardinality(T \ {x})
    BY <2>1, <2>2, <2>4, FS_Subset
  <2>6. Cardinality(behind(x)) \in Nat
    BY <1>1, <2>2, <2>3
  <2> HIDE DEF behind
  <2> QED  BY <2>2, <2>4, <2>5, <2>6
<1>4. \E r \in S : \A x \in S : Cardinality(ahead(r)) <= Cardinality(ahead(x))
  <2> DEFINE N == {Cardinality(ahead(r)) : r \in S}
  <2>1. N \subseteq Nat /\ N # {}
    BY <1>1
  <2>2. PICK m \in N : \A n \in N : m <= n
    <3> HIDE DEF N
    <3> QED  BY <2>1, HasLeast
  <2> QED  BY <2>2
<1>5. \E r \in S : \A x \in S : Cardinality(behind(r)) <= Cardinality(behind(x))
  <2> DEFINE N == {Cardinality(behind(r)) : r \in S}
  <2>1. N \subseteq Nat /\ N # {}
    BY <1>1
  <2>2. PICK m \in N : \A n \in N : m <= n
    <3> HIDE DEF N
    <3> QED  BY <2>1, HasLeast
  <2> QED  BY <2>2
<1>6. \E r \in S : \A x \in S : ~Before(k, x, r)
  <2>1. PICK r \in S : \A x \in S : Cardinality(ahead(r)) <= Cardinality(ahead(x))
    BY <1>4
  <2>2. ASSUME NEW x \in S, Before(k, x, r) PROVE FALSE
    <3>1. x \in ahead(r)
      BY <2>2
    <3>2. Cardinality(ahead(x)) < Cardinality(ahead(r))
      BY <1>2, <3>1
    <3>3. Cardinality(ahead(r)) <= Cardinality(ahead(x))
      BY <2>1
    <3>4. Cardinality(ahead(x)) \in Nat /\ Cardinality(ahead(r)) \in Nat
      BY <1>1
    <3> HIDE DEF ahead
    <3> QED  BY <3>2, <3>3, <3>4
  <2> QED  BY <2>2
<1>7. \E r \in S : \A x \in S : ~Before(k, r, x)
  <2>1. PICK r \in S : \A x \in S : Cardinality(behind(r)) <= Cardinality(behind(x))
    BY <1>5
  <2>2. ASSUME NEW x \in S, Before(k, r, x) PROVE FALSE
    <3>1. x \in behind(r)
      BY <2>2
    <3>2. Cardinality(behind(x)) < Cardinality(behind(r))
      BY <1>3, <3>1
    <3>3. Cardinality(behind(r)) <= Cardinality(behind(x))
      BY <2>1
    <3>4. Cardinality(behind(x)) \in Nat /\ Cardinality(behind(r)) \in Nat
      BY <1>1
    <3> HIDE DEF behind
    <3> QED  BY <3>2, <3>3, <3>4
  <2> QED  BY <2>2
<1> QED  BY <1>6, <1>7

\* A page has the first rows, without a gap, and all of them when they fit.
LEMMA FirstIs ==
  ASSUME NEW k \in Queries, NEW S \in SUBSET RowsOf(k), IsFiniteSet(S)
  PROVE  /\ First(k, S) \subseteq S /\ IsFiniteSet(First(k, S))
         /\ Cardinality(S) \in Nat
         /\ S # {} => First(k, S) # {}
         /\ \A r \in First(k, S), x \in S : Before(k, x, r) => x \in First(k, S)
         /\ Cardinality(S) <= Limit => First(k, S) = S
<1> DEFINE ahead(r) == {x \in S : Before(k, x, r)}
<1>1. \A r \in S : IsFiniteSet(ahead(r)) /\ Cardinality(ahead(r)) \in Nat
  <2>1. \A r \in S : ahead(r) \in SUBSET S
    OBVIOUS
  <2> QED  BY <2>1, FS_Subset, FS_CardinalityType
<1>2. Limit \in Nat \ {0} /\ Cardinality(S) \in Nat
  BY ReportsAssumption, FS_CardinalityType
<1>3. First(k, S) = {r \in S : Cardinality(ahead(r)) < Limit}
  BY DEF First
<1>4. \A a, b, c \in S : ~Before(k, a, a) /\ (Before(k, a, b) /\ Before(k, b, c) => Before(k, a, c))
  BY BeforeIsAnOrder
<1>5. IsFiniteSet(First(k, S))
  BY <1>3, FS_Subset
<1>6. ASSUME S # {} PROVE First(k, S) # {}
  <2>1. PICK r \in S : \A x \in S : ~Before(k, x, r)
    BY <1>6, FirstRow
  <2>2. ahead(r) = {}
    BY <2>1
  <2>3. Cardinality(ahead(r)) = 0
    BY <2>2, FS_EmptySet
  <2> QED  BY <1>2, <1>3, <2>3
<1>7. ASSUME NEW r \in First(k, S), NEW x \in S, Before(k, x, r) PROVE x \in First(k, S)
  <2>1. ahead(x) \in SUBSET ahead(r)
    BY <1>3, <1>4, <1>7
  <2>2. Cardinality(ahead(x)) <= Cardinality(ahead(r))
    BY <1>1, <1>3, <2>1, FS_Subset
  <2> HIDE DEF ahead
  <2> QED  BY <1>1, <1>2, <1>3, <2>2
<1>8. ASSUME Cardinality(S) <= Limit, NEW r \in S PROVE r \in First(k, S)
  <2>1. ahead(r) \in SUBSET (S \ {r})
    BY <1>4
  <2>2. IsFiniteSet(S \ {r}) /\ Cardinality(S \ {r}) < Cardinality(S) /\ Cardinality(S \ {r}) \in Nat
    BY OneFewer
  <2>3. Cardinality(ahead(r)) <= Cardinality(S \ {r})
    BY <2>1, <2>2, FS_Subset
  <2> HIDE DEF ahead
  <2> QED  BY <1>1, <1>2, <1>3, <1>8, <2>2, <2>3
<1> QED  BY <1>2, <1>3, <1>5, <1>6, <1>7, <1>8
-----------------------------------------------------------------------------
(* Reports: what a transaction sees.                                       *)

Stored == [who: Nat, topic: Topics, at: Nat, choice: SUBSET Nat, worth: Nat, points: Nat,
           stored: BOOLEAN]

\* A response selects what its Activity offers, and got its points for that.
IsResponse(r) ==
  /\ r \in Stored
  /\ r.choice # {} /\ r.choice \subseteq 1..Definitions[r.topic].options
  /\ Definitions[r.topic].single => Cardinality(r.choice) = 1
  /\ r.points = Points(r.topic, r.choice, r.worth)

IsRecord(v) ==
  /\ v \in [state: {"live", "ended"}, stage: Topics \cup {"none"}, joined: Nat, rows: SUBSET Stored,
            sessions: Nat]
  /\ IsFiniteSet(v.rows) /\ \A r \in v.rows : IsResponse(r)

LEMMA DefinitionOf ==
  ASSUME NEW q \in Topics
  PROVE  /\ Definitions[q].options \in Nat /\ Definitions[q].correct \in SUBSET Nat
         /\ Definitions[q].single \in BOOLEAN /\ Definitions[q].partial \in BOOLEAN
         /\ Definitions[q].correct \subseteq 1..Definitions[q].options
         /\ IsFiniteSet(Definitions[q].correct)
<1>1. /\ Definitions[q].options \in Nat /\ Definitions[q].correct \in SUBSET Nat
      /\ Definitions[q].single \in BOOLEAN /\ Definitions[q].partial \in BOOLEAN
      /\ Definitions[q].correct \subseteq 1..Definitions[q].options
  <2>1. PICK d : d = Definitions[q]
    OBVIOUS
  <2>2. /\ d \in [options: Nat, correct: SUBSET Nat, single: BOOLEAN, partial: BOOLEAN]
        /\ d.correct \subseteq 1..d.options
    BY <2>1, ReportsAssumption
  <2> QED  BY <2>1, <2>2
<1>2. IsFiniteSet(1..Definitions[q].options)
  BY <1>1, FS_Interval
<1> QED  BY <1>1, <1>2, FS_Subset

LEMMA WholePart ==
  ASSUME NEW m \in Nat, NEW d \in Nat, NEW c \in Nat, 0 < d, d <= c
  PROVE  /\ (m * d) \div c \in Nat
         /\ d = c => (m * d) \div c = m
         /\ d < c /\ m > 0 => (m * d) \div c # m
<1>1. PICK x \in Nat : x = m * d
  OBVIOUS
<1>2. PICK y \in Int : y = x \div c
  OBVIOUS
<1>3. c * y <= x /\ x < c * y + c
  BY <1>2
<1>4. y >= 0
  <2> SUFFICES ASSUME y <= -1 PROVE FALSE
    BY <1>2
  <2>1. PICK z \in Nat : y = -z - 1
    <3>1. -y - 1 \in Nat
      OBVIOUS
    <3> QED  BY <3>1
  <2>2. PICK n \in Nat : n = c * z
    OBVIOUS
  <2>3. c * y + c = -n
    BY <2>1, <2>2
  <2> QED  BY <1>3, <2>3
<1>5. ASSUME d = c PROVE y = m
  <2>1. x = c * m
    BY <1>1, <1>5
  <2>2. CASE y < m
    <3>1. c * (y + 1) <= c * m
      BY <1>4, <2>2
    <3> QED  BY <1>3, <2>1, <3>1
  <2>3. CASE y > m
    <3>1. c * (m + 1) <= c * y
      BY <1>4, <2>3
    <3> QED  BY <1>3, <2>1, <3>1
  <2> QED  BY <1>2, <2>2, <2>3
<1>6. ASSUME d < c, m > 0, y = m PROVE FALSE
  <2>1. m * d < m * c
    BY <1>6
  <2> QED  BY <1>1, <1>3, <1>6, <2>1
<1> QED  BY <1>1, <1>2, <1>4, <1>5, <1>6

\* All the points for the key and nothing else.
LEMMA PointsOf ==
  ASSUME NEW q \in Topics, NEW choice \in SUBSET Nat, NEW worth \in Nat,
         choice # {}, choice \subseteq 1..Definitions[q].options
  PROVE  /\ Points(q, choice, worth) \in Nat
         /\ worth > 0 => (choice = Definitions[q].correct <=> Points(q, choice, worth) = worth)
<1>1. PICK key \in SUBSET Nat : key = Definitions[q].correct
  BY DefinitionOf
<1>2. IsFiniteSet(key) /\ IsFiniteSet(choice)
  <2>1. IsFiniteSet(1..Definitions[q].options)
    BY DefinitionOf, FS_Interval
  <2> QED  BY <1>1, <2>1, DefinitionOf, FS_Subset
<1>3. PICK h \in Nat : h = Cardinality(choice \cap key)
  BY <1>2, FS_Subset, FS_CardinalityType
<1>4. PICK w \in Nat : w = Cardinality(choice \ key)
  BY <1>2, FS_Subset, FS_CardinalityType
<1>5. PICK c \in Nat : c = Cardinality(key)
  BY <1>2, FS_CardinalityType
<1>6. h <= c /\ (h = c => key \subseteq choice)
  <2>1. (choice \cap key) \in SUBSET key
    OBVIOUS
  <2>2. h <= c /\ (c = h => key = choice \cap key)
    BY <1>2, <1>3, <1>5, <2>1, FS_Subset
  <2> QED  BY <2>2
<1>7. w = 0 <=> choice \subseteq key
  <2>1. IsFiniteSet(choice \ key)
    BY <1>2, FS_Subset
  <2> QED  BY <1>4, <2>1, FS_EmptySet
<1>8. choice = key => h = c /\ w = 0 /\ c > 0
  <2> SUFFICES ASSUME choice = key PROVE h = c /\ w = 0 /\ c > 0
    OBVIOUS
  <2>1. choice \cap key = key
    OBVIOUS
  <2>2. c > 0
    <3>1. c # 0
      BY <1>2, <1>5, FS_EmptySet
    <3> QED  BY <3>1
  <2>3. h = c
    BY <1>3, <1>5, <2>1
  <2>4. w = 0
    BY <1>7
  <2> QED  BY <2>2, <2>3, <2>4
<1>9. Points(q, choice, worth) =
        IF h <= w \/ (~Definitions[q].partial /\ choice # key) THEN 0
        ELSE (worth * (h - w)) \div c
  BY <1>1, <1>3, <1>4, <1>5 DEF Points
<1>10. CASE h <= w \/ (~Definitions[q].partial /\ choice # key)
  <2>1. Points(q, choice, worth) = 0
    BY <1>9, <1>10
  <2>2. choice # key
    BY <1>8, <1>10
  <2> QED  BY <1>1, <2>1, <2>2
<1>11. CASE ~(h <= w \/ (~Definitions[q].partial /\ choice # key))
  <2>1. PICK d \in Nat : d = h - w
    BY <1>11
  <2>2. 0 < d /\ d <= c
    BY <1>6, <1>11, <2>1
  <2>3. Points(q, choice, worth) = (worth * d) \div c
    BY <1>9, <1>11, <2>1
  <2>4. choice = key <=> d = c
    <3>1. ASSUME choice = key PROVE d = c
      <4>1. h = c /\ w = 0
        BY <1>8, <3>1
      <4> QED  BY <2>1, <4>1
    <3>2. ASSUME d = c PROVE choice = key
      <4>1. h = c /\ w = 0
        <5>1. h <= c
          BY <1>6
        <5> QED  BY <2>1, <3>2, <5>1
      <4> QED  BY <1>6, <1>7, <4>1
    <3> QED  BY <3>1, <3>2
  <2>5. /\ (worth * d) \div c \in Nat
        /\ d = c => (worth * d) \div c = worth
        /\ d < c /\ worth > 0 => (worth * d) \div c # worth
    BY <2>2, WholePart
  <2>6. PICK p \in Nat : p = (worth * d) \div c
    BY <2>5
  <2>7. (d = c => p = worth) /\ (d < c /\ worth > 0 => p # worth)
    BY <2>5, <2>6
  <2> QED  BY <1>1, <2>2, <2>3, <2>4, <2>6, <2>7
<1> QED  BY <1>10, <1>11

\* The rows of a list are finite in number.
LEMMA FiniteImage ==
  ASSUME NEW S, IsFiniteSet(S), NEW f, f = [x \in S |-> f[x]]
  PROVE  IsFiniteSet({f[x] : x \in S})
<1> DEFINE T == {f[x] : x \in S}
<1>1. f \in Surjection(S, T)
  BY DEF Surjection
<1> QED  BY <1>1, FS_Surjection

LEMMA CommittedIs ==
  ASSUME NEW v, IsRecord(v)
  PROVE  /\ Committed(v) \in SUBSET Stored /\ IsFiniteSet(Committed(v))
         /\ \A r \in Committed(v) : IsResponse(r)
         /\ \A q : ResponsesTo(q, v) \in SUBSET Committed(v) /\ IsFiniteSet(ResponsesTo(q, v))
<1>1. /\ Committed(v) \in SUBSET v.rows /\ v.rows \in SUBSET Stored /\ IsFiniteSet(v.rows)
      /\ \A r \in v.rows : IsResponse(r)
  BY DEF IsRecord, Committed
<1>2. IsFiniteSet(Committed(v))
  BY <1>1, FS_Subset
<1>3. \A q : ResponsesTo(q, v) \in SUBSET Committed(v)
  BY DEF ResponsesTo
<1>4. \A q : IsFiniteSet(ResponsesTo(q, v))
  BY <1>2, <1>3, FS_Subset
<1> QED  BY <1>1, <1>2, <1>3, <1>4

LEMMA ScoreIsNat == \A v, p : IsRecord(v) => ScoreOf(p, v) \in Nat
<1> SUFFICES ASSUME NEW v, NEW p, IsRecord(v) PROVE ScoreOf(p, v) \in Nat
  OBVIOUS
<1> DEFINE f == [r \in v.rows |-> r.points]
           S == {r \in Committed(v) : r.who = p}
<1>1. IsFiniteSet(S)
  BY CommittedIs, FS_Subset
<1>2. \A x \in S : f[x] \in Nat
  <2> TAKE x \in S
  <2>1. x \in v.rows /\ x \in Stored
    BY CommittedIs DEF Committed
  <2>2. x.points \in Nat
    BY <2>1 DEF Stored
  <2> QED  BY <2>1, <2>2
<1>3. SumFunctionOnSet(f, S) \in Nat
  <2> HIDE DEF f, S
  <2> QED  BY <1>1, <1>2, SumIsOf
<1> QED  BY <1>3 DEF ScoreOf

LEMMA RankingIs ==
  ASSUME NEW v, IsRecord(v)
  PROVE  Ranking(v) \in SUBSET [joined: Nat, score: Nat, rank: Nat] /\ IsFiniteSet(Ranking(v))
<1> DEFINE ahead(p) == {x \in 1..v.joined : ScoreOf(x, v) > ScoreOf(p, v)}
           f == [p \in 1..v.joined |->
                   [joined |-> p, score |-> ScoreOf(p, v), rank |-> 1 + Cardinality(ahead(p))]]
<1>1. v.joined \in Nat
  BY DEF IsRecord
<1>2. IsFiniteSet(1..v.joined)
  BY <1>1, FS_Interval
<1>3. \A p : ahead(p) \in SUBSET (1..v.joined)
  OBVIOUS
<1>4. \A p : Cardinality(ahead(p)) \in Nat
  BY <1>2, <1>3, FS_Subset, FS_CardinalityType
<1>5. \A p \in 1..v.joined : f[p] \in [joined: Nat, score: Nat, rank: Nat]
  <2> HIDE DEF ahead
  <2> QED  BY <1>1, <1>4, ScoreIsNat
<1>6. Ranking(v) = {f[p] : p \in 1..v.joined}
  BY DEF Ranking
<1>7. IsFiniteSet({f[p] : p \in 1..v.joined})
  <2>1. f = [p \in 1..v.joined |-> f[p]]
    OBVIOUS
  <2> HIDE DEF f
  <2> QED  BY <1>2, <2>1, FiniteImage
<1> HIDE DEF f
<1> QED  BY <1>5, <1>6, <1>7

\* A response marked right is one that got all it was worth.
LEMMA ResponsesAre ==
  ASSUME NEW v, IsRecord(v), NEW q \in Topics
  PROVE  /\ Responses(q, v) \in SUBSET [who: Nat, at: Nat, points: Nat, worth: Nat, right: BOOLEAN]
         /\ IsFiniteSet(Responses(q, v))
         /\ \A r \in Responses(q, v) : r.worth > 0 => (r.right <=> r.points = r.worth)
<1> DEFINE f == [r \in ResponsesTo(q, v) |->
                   [who |-> r.who, at |-> r.at, points |-> r.points, worth |-> r.worth,
                    right |-> Right(r)]]
<1>1. Responses(q, v) = {f[r] : r \in ResponsesTo(q, v)}
  BY DEF Responses
<1>2. IsFiniteSet({f[r] : r \in ResponsesTo(q, v)})
  <2>1. f = [r \in ResponsesTo(q, v) |-> f[r]]
    OBVIOUS
  <2>2. IsFiniteSet(ResponsesTo(q, v))
    BY CommittedIs
  <2> HIDE DEF f
  <2> QED  BY <2>1, <2>2, FiniteImage
<1>3. ASSUME NEW r \in ResponsesTo(q, v)
      PROVE  /\ f[r] \in [who: Nat, at: Nat, points: Nat, worth: Nat, right: BOOLEAN]
             /\ f[r].worth > 0 => (f[r].right <=> f[r].points = f[r].worth)
  <2>1. r \in Stored /\ IsResponse(r) /\ r.topic = q
    BY CommittedIs DEF ResponsesTo
  <2>2. /\ r.who \in Nat /\ r.at \in Nat /\ r.points \in Nat /\ r.worth \in Nat
        /\ r.choice \in SUBSET Nat
    BY <2>1 DEF Stored
  <2>3. /\ r.choice # {} /\ r.choice \subseteq 1..Definitions[q].options
        /\ r.points = Points(q, r.choice, r.worth)
    BY <2>1 DEF IsResponse
  <2>4. r.worth > 0 => (r.choice = Definitions[q].correct <=> Points(q, r.choice, r.worth) = r.worth)
    <3>1. PICK choice \in SUBSET Nat : choice = r.choice
      BY <2>2
    <3>2. PICK worth \in Nat : worth = r.worth
      BY <2>2
    <3>3. worth > 0 => (choice = Definitions[q].correct <=> Points(q, choice, worth) = worth)
      BY <2>3, <3>1, <3>2, PointsOf
    <3> QED  BY <3>1, <3>2, <3>3
  <2>5. Right(r) <=> r.choice = Definitions[q].correct
    BY <2>1 DEF Right
  <2>6. Right(r) \in BOOLEAN
    BY DEF Right
  <2>7. f[r].worth > 0 => (f[r].right <=> f[r].points = f[r].worth)
    BY <2>3, <2>4, <2>5
  <2>8. f[r] \in [who: Nat, at: Nat, points: Nat, worth: Nat, right: BOOLEAN]
    BY <2>2, <2>6
  <2> QED  BY <2>7, <2>8
<1> HIDE DEF f
<1> QED  BY <1>1, <1>2, <1>3
-----------------------------------------------------------------------------
(* Reports: a page, and the pages of a list.                               *)

Parts(k) ==
  CASE k = "totals" -> [Topics -> Nat]
    [] k \in Topics -> [1..Definitions[k].options -> Nat]
    [] OTHER -> {<<>>}

Pages(k) ==
  [items: SUBSET RowsOf(k), more: BOOLEAN, final: BOOLEAN, count: Nat, parts: Parts(k)]

AddsUp(k, p) ==
  /\ k = "totals" \/ (k \in Topics /\ Definitions[k].single) => SumFunction(p.parts) = p.count
  /\ k \in Topics => \A r \in p.items : r.worth > 0 => (r.right <=> r.points = r.worth)

IsPage(k, p) ==
  p \in Pages(k) /\ IsFiniteSet(p.items) /\ (p.more => p.items # {}) /\ AddsUp(k, p)

LEMMA ListedIs ==
  ASSUME NEW k \in Queries, NEW v, IsRecord(v)
  PROVE  Listed(k, v) \in SUBSET RowsOf(k) /\ IsFiniteSet(Listed(k, v))
<1>1. CASE k = "sessions"
  <2>1. v.sessions \in Nat
    BY DEF IsRecord
  <2>2. PICK n \in Nat : n = v.sessions
    BY <2>1
  <2> DEFINE f == [i \in 1..n |-> [no |-> i]]
  <2>3. [no: 1..n] = {f[i] : i \in 1..n}
    <3>1. ASSUME NEW x \in [no: 1..n] PROVE x \in {f[i] : i \in 1..n}
      <4>1. x.no \in 1..n /\ x = [no |-> x.no]
        OBVIOUS
      <4> QED  BY <4>1
    <3>2. ASSUME NEW i \in 1..n PROVE f[i] \in [no: 1..n]
      OBVIOUS
    <3> QED  BY <3>1, <3>2
  <2>4. IsFiniteSet({f[i] : i \in 1..n})
    <3>1. IsFiniteSet(1..n) /\ f = [i \in 1..n |-> f[i]]
      BY FS_Interval
    <3> HIDE DEF f
    <3> QED  BY <3>1, FiniteImage
  <2>5. Listed(k, v) = [no: 1..n] /\ RowsOf(k) = [no: Nat]
    BY <1>1, <2>2 DEF Listed, RowsOf
  <2>6. [no: 1..n] \subseteq [no: Nat]
    OBVIOUS
  <2> HIDE DEF f
  <2> QED  BY <2>3, <2>4, <2>5, <2>6
<1>2. CASE k = "totals"
  BY <1>2, FS_EmptySet DEF Listed, RowsOf
<1>3. CASE k = "ranking"
  BY <1>3, RankingIs DEF Listed, RowsOf
<1>4. CASE k \in Topics
  <2>1. k # "sessions" /\ k # "totals" /\ k # "ranking"
    BY <1>4, ReportsAssumption
  <2>2. Listed(k, v) = Responses(k, v)
    BY <2>1 DEF Listed
  <2>3. RowsOf(k) = [who: Nat, at: Nat, points: Nat, worth: Nat, right: BOOLEAN]
    BY <2>1 DEF RowsOf
  <2> QED  BY <1>4, <2>2, <2>3, ResponsesAre
<1> QED  BY <1>1, <1>2, <1>3, <1>4 DEF Queries

\* The numbers of the Activities are those of the session.
LEMMA TotalsAddUp ==
  ASSUME NEW v, IsRecord(v)
  PROVE  LET parts == [q \in Topics |-> Cardinality(ResponsesTo(q, v))]
         IN parts \in [Topics -> Nat] /\ SumFunction(parts) = Cardinality(Committed(v))
<1> DEFINE parts == [q \in Topics |-> Cardinality(ResponsesTo(q, v))]
           R == Committed(v)
           of == [r \in R |-> r.topic]
<1>1. IsFiniteSet(Topics) /\ IsFiniteSet(R)
  BY ReportsAssumption, CommittedIs
<1>2. \A r \in R : of[r] \in Topics
  BY CommittedIs DEF Stored
<1>3. \A q \in Topics : parts[q] = Cardinality(Part(R, of, q))
  <2> TAKE q \in Topics
  <2>1. ResponsesTo(q, v) = Part(R, of, q)
    BY DEF ResponsesTo, Part
  <2> QED  BY <2>1
<1>4. SumFunctionOnSet(parts, Topics) = Cardinality(R)
  <2> HIDE DEF parts, R, of
  <2> QED  BY <1>1, <1>2, <1>3, PartsAddUp
<1>5. parts \in [Topics -> Nat]
  BY CommittedIs, FS_CardinalityType
<1> QED  BY <1>4, <1>5 DEF SumFunction

\* Those of the options of a single choice are those of the Activity.
LEMMA OptionsAddUp ==
  ASSUME NEW v, IsRecord(v), NEW k \in Topics
  PROVE  LET parts == [o \in 1..Definitions[k].options |->
                         Cardinality({r \in ResponsesTo(k, v) : o \in r.choice})]
         IN /\ parts \in [1..Definitions[k].options -> Nat]
            /\ Definitions[k].single => SumFunction(parts) = Cardinality(ResponsesTo(k, v))
<1> DEFINE C == 1..Definitions[k].options
           R == ResponsesTo(k, v)
           parts == [o \in C |-> Cardinality({r \in R : o \in r.choice})]
           of == [r \in R |-> CHOOSE o \in r.choice : TRUE]
<1>1. IsFiniteSet(C) /\ IsFiniteSet(R)
  BY DefinitionOf, FS_Interval, CommittedIs
<1>2. parts \in [C -> Nat]
  <2>1. \A o : {r \in R : o \in r.choice} \in SUBSET R
    OBVIOUS
  <2> HIDE DEF R
  <2> QED  BY <1>1, <2>1, FS_Subset, FS_CardinalityType
<1>3. ASSUME Definitions[k].single
      PROVE  SumFunctionOnSet(parts, C) = Cardinality(R)
  <2>1. ASSUME NEW r \in R
        PROVE  \E o \in C : r.choice = {o}
    <3>1. r \in Committed(v) /\ r.topic = k
      BY DEF ResponsesTo
    <3>2. IsResponse(r)
      BY <3>1, CommittedIs
    <3>3. Cardinality(r.choice) = 1 /\ r.choice \subseteq C
      BY <1>3, <3>1, <3>2 DEF IsResponse
    <3>4. IsFiniteSet(r.choice)
      BY <1>1, <3>3, FS_Subset
    <3>5. \E o : r.choice = {o}
      BY <3>3, <3>4, FS_Singleton
    <3> QED  BY <3>3, <3>5
  <2>2. \A r \in R : of[r] \in C /\ r.choice = {of[r]}
    <3> TAKE r \in R
    <3>1. PICK o \in C : r.choice = {o}
      BY <2>1
    <3>2. of[r] = CHOOSE x \in {o} : TRUE
      BY <3>1
    <3> QED  BY <3>1, <3>2
  <2>3. \A o \in C : parts[o] = Cardinality(Part(R, of, o))
    <3> TAKE o \in C
    <3>1. {r \in R : o \in r.choice} = Part(R, of, o)
      <4> HIDE DEF of
      <4> QED  BY <2>2 DEF Part
    <3> QED  BY <3>1
  <2>4. \A r \in R : of[r] \in C
    BY <2>2
  <2> HIDE DEF C, R, parts, of
  <2> QED  BY <1>1, <2>3, <2>4, PartsAddUp
<1>4. DOMAIN parts = C
  OBVIOUS
<1>5. Definitions[k].single => SumFunction(parts) = Cardinality(R)
  <2> HIDE DEF parts, C, R
  <2> QED  BY <1>3, <1>4 DEF SumFunction
<1> QED  BY <1>2, <1>5

LEMMA PageIs ==
  ASSUME NEW k \in Queries, NEW v, IsRecord(v), NEW c
  PROVE  LET p == PageFrom(k, v, v, c)
             later(x) == c = NoCursor \/ ~Continues(k, v) \/ Before(k, c, x)
         IN /\ IsPage(k, p)
            /\ p.more => Continues(k, v)
            /\ p.final <=> v.state = "ended"
            /\ \A r \in p.items : r \in Listed(k, v) /\ later(r)
            /\ \A r \in p.items, x \in Listed(k, v) : later(x) /\ Before(k, x, r) => x \in p.items
            /\ ~p.more /\ Continues(k, v) => \A x \in Listed(k, v) : later(x) => x \in p.items
<1> DEFINE later(x) == c = NoCursor \/ ~Continues(k, v) \/ Before(k, c, x)
           S == {x \in Listed(k, v) : later(x)}
           p == PageFrom(k, v, v, c)
<1>1. S \in SUBSET RowsOf(k) /\ IsFiniteSet(S)
  BY ListedIs, FS_Subset
<1>2. /\ p.items = First(k, S)
      /\ p.more = (Cardinality(S) > Limit /\ Continues(k, v))
      /\ p.final = (v.state = "ended")
      /\ p.count = IF k \in Topics THEN Cardinality(ResponsesTo(k, v)) ELSE Cardinality(Committed(v))
      /\ p.parts = CASE k = "totals" -> [q \in Topics |-> Cardinality(ResponsesTo(q, v))]
                     [] k \in Topics -> [o \in 1..Definitions[k].options |->
                                           Cardinality({r \in ResponsesTo(k, v) : o \in r.choice})]
                     [] OTHER -> <<>>
      /\ p = [items |-> p.items, more |-> p.more, final |-> p.final, count |-> p.count,
              parts |-> p.parts]
  BY DEF PageFrom
<1>12. p.more = (Cardinality(S) > Limit /\ Continues(k, v))
  BY <1>2
<1> HIDE DEF p
<1>13. /\ p.more => Cardinality(S) > Limit
       /\ ~p.more /\ Continues(k, v) => ~(Cardinality(S) > Limit)
  <2> HIDE DEF S
  <2> QED  BY <1>12, Zenon
<1>3. /\ First(k, S) \subseteq S /\ IsFiniteSet(First(k, S))
      /\ Cardinality(S) \in Nat
      /\ S # {} => First(k, S) # {}
      /\ \A r \in First(k, S), x \in S : Before(k, x, r) => x \in First(k, S)
      /\ Cardinality(S) <= Limit => First(k, S) = S
  <2> HIDE DEF S
  <2> QED  BY <1>1, FirstIs
<1>4. Limit \in Nat \ {0}
  BY ReportsAssumption
<1>5. p.count \in Nat
  BY <1>2, CommittedIs, FS_CardinalityType
<1>6. p.parts \in Parts(k) /\ AddsUp(k, p)
  <2>1. CASE k = "totals"
    <3>1. k \notin Topics
      BY <2>1, ReportsAssumption
    <3> QED  BY <1>2, <2>1, <3>1, TotalsAddUp DEF Parts, AddsUp
  <2>2. CASE k \in Topics
    <3>1. k # "sessions" /\ k # "totals" /\ k # "ranking"
      BY <2>2, ReportsAssumption
    <3>2. p.parts \in Parts(k) /\ (Definitions[k].single => SumFunction(p.parts) = p.count)
      BY <1>2, <2>2, <3>1, OptionsAddUp DEF Parts
    <3>3. p.items \subseteq Responses(k, v)
      BY <1>2, <1>3, <3>1 DEF Listed
    <3>4. \A r \in p.items : r.worth > 0 => (r.right <=> r.points = r.worth)
      BY <2>2, <3>3, ResponsesAre
    <3> QED  BY <3>1, <3>2, <3>4 DEF AddsUp
  <2>3. CASE k \notin Topics /\ k # "totals"
    BY <1>2, <2>3 DEF Parts, AddsUp
  <2> QED  BY <2>1, <2>2, <2>3
<1>7. p.more => S # {}
  <2> HIDE DEF S
  <2>1. Cardinality({}) = 0
    BY FS_EmptySet
  <2> QED  BY <1>4, <1>13, <2>1
<1>8. p.items \in SUBSET RowsOf(k) /\ p.more \in BOOLEAN /\ p.final \in BOOLEAN
  BY <1>1, <1>2, <1>3
<1>9. p \in Pages(k)
  BY <1>2, <1>5, <1>6, <1>8 DEF Pages
<1>10. IsPage(k, p)
  BY <1>2, <1>3, <1>6, <1>7, <1>9 DEF IsPage
<1>11. ~p.more /\ Continues(k, v) => p.items = S
  <2> SUFFICES ASSUME ~p.more, Continues(k, v) PROVE p.items = S
    OBVIOUS
  <2>1. PICK n \in Nat : n = Cardinality(S)
    BY <1>3
  <2>2. n <= Limit
    <3> HIDE DEF S
    <3> QED  BY <1>4, <1>13, <2>1
  <2>3. First(k, S) = S
    BY <1>3, <2>1, <2>2
  <2> QED  BY <1>2, <2>3
<1> QED  BY <1>2, <1>3, <1>10, <1>11 DEF p
-----------------------------------------------------------------------------
(* Reports: the invariant.                                                 *)

Records ==
  [state: {"live", "ended"}, stage: Topics \cup {"none"}, joined: Nat, rows: SUBSET Stored,
   sessions: Nat]

RecordOk(v) ==
  /\ IsRecord(v)
  /\ v.stage = "none" => \A r \in v.rows : r.stored
  /\ v.state = "ended" => v.stage = "none"

\* A session that has ended stays as it is.
Follows(v, w) ==
  v.state = "ended" => w.state = "ended" /\ w.rows = v.rows /\ w.joined = v.joined

\* One list: each page has more than none before the next, and what it shows
\* comes before what the next shows.
Chained(k, ps) ==
  /\ \A i \in DOMAIN ps : IsPage(k, ps[i])
  /\ \A i, j \in DOMAIN ps : i < j => \A a \in ps[i].items, b \in ps[j].items : Before(k, a, b)

Shown(ps) == UNION {ps[i].items : i \in DOMAIN ps}

\* A ranking called final is that of the session, without a gap.
IsFinal(k, ps, v) ==
  k = "ranking" /\ ps # <<>> =>
    LET last == ps[Len(ps)]
    IN /\ last.more => last.final
       /\ last.final =>
            /\ v.state = "ended"
            /\ Shown(ps) \subseteq Ranking(v)
            /\ \A r \in Shown(ps), x \in Ranking(v) : Before(k, x, r) => x \in Shown(ps)
            /\ ~last.more => Shown(ps) = Ranking(v)

Lists(k, ps, v) == Chained(k, ps) /\ IsFinal(k, ps, v)

FetchOf(k) ==
  [step: {"idle", "asked", "reading"}, more: BOOLEAN, got: Seq(Pages(k)),
   cursor: RowsOf(k) \cup {NoCursor}, view: Records \cup {NoCursor}]

\* A fetch goes on from the list that it has, and reads a session that was.
FetchOk(k, f, v) ==
  /\ Lists(k, f.got, v)
  /\ f.step # "idle" => f.cursor = NextCursor(k, f.got) /\ (f.got # <<>> => f.cursor # NoCursor)
  /\ f.step = "reading" =>
       /\ IsRecord(f.view) /\ Follows(f.view, v)
       /\ k = "ranking" /\ f.got # <<>> => f.view.state = "ended"

QueryOk(k, q, v) ==
  /\ q \in [pages: Seq(Pages(k)), failed: BOOLEAN, fetch: FetchOf(k)]
  /\ Lists(k, q.pages, v) /\ FetchOk(k, q.fetch, v)

ReportsInv ==
  /\ RecordOk(record)
  /\ queries = [k \in Queries |-> queries[k]]
  /\ \A k \in Queries : QueryOk(k, queries[k], record)
-----------------------------------------------------------------------------
LEMMA PageHas ==
  ASSUME NEW k \in Queries, NEW p, IsPage(k, p)
  PROVE  /\ p.items \in SUBSET RowsOf(k) /\ IsFiniteSet(p.items) /\ p.more \in BOOLEAN
         /\ p.final \in BOOLEAN /\ (p.more => p.items # {}) /\ p \in Pages(k)
  BY DEF IsPage, Pages

\* The cursor is a last row of the last page.
LEMMA CursorIs ==
  ASSUME NEW k \in Queries, NEW ps \in Seq(Pages(k)), Chained(k, ps)
  PROVE  /\ NextCursor(k, ps) \in RowsOf(k) \cup {NoCursor}
         /\ NextCursor(k, ps) # NoCursor <=> ps # <<>> /\ ps[Len(ps)].more
         /\ NextCursor(k, ps) # NoCursor =>
              /\ NextCursor(k, ps) \in ps[Len(ps)].items
              /\ \A x \in ps[Len(ps)].items : ~Before(k, NextCursor(k, ps), x)
<1>1. CASE ps = <<>>
  BY <1>1 DEF NextCursor
<1>2. CASE ps # <<>>
  <2>1. PICK last : last = ps[Len(ps)]
    OBVIOUS
  <2>2. Len(ps) \in DOMAIN ps
    BY <1>2
  <2>3. IsPage(k, last)
    BY <2>1, <2>2 DEF Chained
  <2>4. CASE ~last.more
    BY <1>2, <2>1, <2>4 DEF NextCursor
  <2>5. CASE last.more
    <3>1. \E r \in last.items : \A x \in last.items : ~Before(k, r, x)
      BY <2>3, <2>5, PageHas, FirstRow
    <3>2. PICK c : c = CHOOSE r \in last.items : \A x \in last.items : ~Before(k, r, x)
      OBVIOUS
    <3>3. c \in last.items /\ \A x \in last.items : ~Before(k, c, x)
      BY <3>1, <3>2
    <3>4. NextCursor(k, ps) = c
      BY <1>2, <2>1, <2>5, <3>2 DEF NextCursor
    <3>5. c \in RowsOf(k) /\ c # NoCursor
      BY <2>3, <3>3, PageHas, NoRowIsNoCursor
    <3> QED  BY <1>2, <2>1, <2>5, <3>3, <3>4, <3>5
  <2> QED  BY <2>4, <2>5
<1> QED  BY <1>1, <1>2

LEMMA NoPages ==
  ASSUME NEW k, NEW v
  PROVE  Lists(k, <<>>, v)
  BY DEF Lists, Chained, IsFinal

LEMMA SameRanking ==
  ASSUME NEW v, NEW w, v.state = "ended", Follows(v, w)
  PROVE  Ranking(w) = Ranking(v)
<1>1. w.rows = v.rows /\ w.joined = v.joined
  BY DEF Follows
<1>2. Committed(w) = Committed(v)
  BY <1>1 DEF Committed
<1>3. \A p : ScoreOf(p, w) = ScoreOf(p, v)
  BY <1>1, <1>2 DEF ScoreOf
<1> QED  BY <1>1, <1>3 DEF Ranking

LEMMA QueryStays ==
  ASSUME NEW k, NEW q, NEW v, NEW w, QueryOk(k, q, v), Follows(v, w)
  PROVE  QueryOk(k, q, w)
<1>1. \A ps : Lists(k, ps, v) => Lists(k, ps, w)
  <2> SUFFICES ASSUME NEW ps, Lists(k, ps, v) PROVE IsFinal(k, ps, w)
    BY DEF Lists
  <2>1. v.state = "ended" => w.state = "ended" /\ Ranking(w) = Ranking(v)
    BY SameRanking DEF Follows
  <2> QED  BY <2>1 DEF Lists, IsFinal
<1>2. \A u : Follows(u, v) => Follows(u, w)
  BY DEF Follows
<1>3. FetchOk(k, q.fetch, w)
  BY <1>1, <1>2 DEF QueryOk, FetchOk
<1> QED  BY <1>1, <1>3 DEF QueryOk
-----------------------------------------------------------------------------
(* Reports: the session.                                                   *)

LEMMA RecordHas ==
  ASSUME NEW v, IsRecord(v)
  PROVE  /\ v \in Records
         /\ v.state \in {"live", "ended"} /\ v.stage \in Topics \cup {"none"} /\ v.joined \in Nat
         /\ v.sessions \in Nat /\ v.rows \in SUBSET Stored /\ IsFiniteSet(v.rows)
         /\ \A r \in v.rows : IsResponse(r)
  BY DEF IsRecord, Records

LEMMA NoneIsNoTopic == "none" \notin Topics
  BY ReportsAssumption

\* What happens in the session is a step of it, and no query is touched.
LEMMA SessionSteps ==
  ASSUME RecordOk(record),
         \/ JoinAudience \/ CloseTopic \/ EndReported \/ StartAnother
         \/ \E p \in 1..record.joined : BeginResponse(p)
         \/ \E q \in Topics : OpenTopic(q)
         \/ \E r \in record.rows : StoreResponse(r)
  PROVE  RecordOk(record') /\ Follows(record, record') /\ queries' = queries
<1> DEFINE v == record
           w == record'
<1>1. /\ IsRecord(v) /\ (v.stage = "none" => \A r \in v.rows : r.stored)
      /\ (v.state = "ended" => v.stage = "none")
  BY DEF RecordOk
<1>2. /\ v \in Records
      /\ v.state \in {"live", "ended"} /\ v.stage \in Topics \cup {"none"} /\ v.joined \in Nat
      /\ v.sessions \in Nat /\ v.rows \in SUBSET Stored /\ IsFiniteSet(v.rows)
      /\ \A r \in v.rows : IsResponse(r)
  BY <1>1, RecordHas
<1>3. CASE JoinAudience
  <2>1. v.state = "live" /\ w = [v EXCEPT !.joined = v.joined + 1] /\ queries' = queries
    BY <1>3 DEF JoinAudience, Writes
  <2>2. /\ w \in Records /\ w.rows = v.rows /\ w.stage = v.stage /\ w.state = v.state
    BY <1>2, <2>1 DEF Records
  <2>3. IsRecord(w)
    BY <1>2, <2>2 DEF IsRecord, Records
  <2> QED  BY <1>1, <2>1, <2>2, <2>3 DEF RecordOk, Follows
<1>4. CASE CloseTopic
  <2>1. /\ v.stage # "none" /\ (\A r \in v.rows : r.stored)
        /\ w = [v EXCEPT !.stage = "none"] /\ queries' = queries
    BY <1>4 DEF CloseTopic, Writes
  <2>2. /\ w \in Records /\ w.rows = v.rows /\ w.stage = "none" /\ w.state = v.state
        /\ w.joined = v.joined
    BY <1>2, <2>1 DEF Records
  <2>3. IsRecord(w)
    BY <1>2, <2>2 DEF IsRecord, Records
  <2> QED  BY <1>1, <2>1, <2>2, <2>3 DEF RecordOk, Follows
<1>5. CASE EndReported
  <2>1. /\ v.state = "live" /\ v.stage = "none"
        /\ w = [v EXCEPT !.state = "ended"] /\ queries' = queries
    BY <1>5 DEF EndReported, Writes
  <2>2. /\ w \in Records /\ w.rows = v.rows /\ w.stage = v.stage /\ w.state = "ended"
        /\ w.joined = v.joined
    BY <1>2, <2>1 DEF Records
  <2>3. IsRecord(w)
    BY <1>2, <2>2 DEF IsRecord, Records
  <2> QED  BY <1>1, <2>1, <2>2, <2>3 DEF RecordOk, Follows
<1>6. CASE StartAnother
  <2>1. w = [v EXCEPT !.sessions = v.sessions + 1] /\ queries' = queries
    BY <1>6 DEF StartAnother, Writes
  <2>2. /\ w \in Records /\ w.rows = v.rows /\ w.stage = v.stage /\ w.state = v.state
        /\ w.joined = v.joined
    BY <1>2, <2>1 DEF Records
  <2>3. IsRecord(w)
    BY <1>2, <2>2 DEF IsRecord, Records
  <2> QED  BY <1>1, <2>1, <2>2, <2>3 DEF RecordOk, Follows
<1>7. ASSUME NEW p \in 1..record.joined, BeginResponse(p) PROVE RecordOk(w) /\ Follows(v, w) /\ queries' = queries
  <2>1. /\ v.stage # "none" /\ queries' = queries
        /\ \E choice \in Selections, worth \in Marks :
             /\ choice # {} /\ choice \subseteq 1..Definitions[v.stage].options
             /\ Definitions[v.stage].single => Cardinality(choice) = 1
             /\ w = [v EXCEPT !.rows = v.rows \cup
                  {[who |-> p, topic |-> v.stage, at |-> Cardinality(v.rows), choice |-> choice,
                    worth |-> worth, points |-> Points(v.stage, choice, worth), stored |-> FALSE]}]
    BY <1>7 DEF BeginResponse, Writes
  <2>2. PICK choice \in Selections, worth \in Marks :
             /\ choice # {} /\ choice \subseteq 1..Definitions[v.stage].options
             /\ Definitions[v.stage].single => Cardinality(choice) = 1
             /\ w = [v EXCEPT !.rows = v.rows \cup
                  {[who |-> p, topic |-> v.stage, at |-> Cardinality(v.rows), choice |-> choice,
                    worth |-> worth, points |-> Points(v.stage, choice, worth), stored |-> FALSE]}]
    BY <2>1
  <2>3. PICK q \in Topics : q = v.stage
    BY <1>2, <2>1
  <2>4. PICK n \in Nat : n = Cardinality(v.rows)
    BY <1>2, FS_CardinalityType
  <2>5. worth \in Nat /\ p \in Nat /\ choice \in SUBSET Nat
    <3>1. Definitions[q].options \in Nat /\ choice \subseteq 1..Definitions[q].options
      BY <2>2, <2>3, DefinitionOf
    <3> QED  BY <1>2, <3>1, ReportsAssumption
  <2>6. PICK m \in Nat : m = Points(q, choice, worth)
    BY <2>2, <2>3, <2>5, PointsOf
  <2>7. PICK r : r = [who |-> p, topic |-> q, at |-> n, choice |-> choice, worth |-> worth,
                      points |-> m, stored |-> FALSE]
    OBVIOUS
  <2>8. r \in Stored
    BY <2>5, <2>7 DEF Stored
  <2>9. IsResponse(r)
    BY <2>2, <2>3, <2>6, <2>7, <2>8 DEF IsResponse
  <2>10. w = [v EXCEPT !.rows = v.rows \cup {r}]
    BY <2>2, <2>3, <2>4, <2>6, <2>7
  <2>11. /\ w \in Records /\ w.rows = v.rows \cup {r} /\ w.stage = v.stage /\ w.state = v.state
    BY <1>2, <2>8, <2>10 DEF Records
  <2>12. IsFiniteSet(w.rows)
    BY <1>2, <2>11, FS_AddElement
  <2>13. IsRecord(w)
    BY <1>2, <2>9, <2>11, <2>12 DEF IsRecord, Records
  <2> QED  BY <1>1, <2>1, <2>11, <2>13 DEF RecordOk, Follows
<1>8. ASSUME NEW q \in Topics, OpenTopic(q) PROVE RecordOk(w) /\ Follows(v, w) /\ queries' = queries
  <2>1. v.state = "live" /\ w = [v EXCEPT !.stage = q] /\ queries' = queries
    BY <1>8 DEF OpenTopic, Writes
  <2>2. w \in Records /\ w.rows = v.rows /\ w.stage = q /\ w.state = v.state
    BY <1>2, <2>1 DEF Records
  <2>3. IsRecord(w)
    BY <1>2, <2>2 DEF IsRecord, Records
  <2> QED  BY <1>1, <2>1, <2>2, <2>3, NoneIsNoTopic DEF RecordOk, Follows
<1>9. ASSUME NEW r \in record.rows, StoreResponse(r) PROVE RecordOk(w) /\ Follows(v, w) /\ queries' = queries
  <2>1. PICK s : s = [r EXCEPT !.stored = TRUE]
    OBVIOUS
  <2>2. ~r.stored /\ w = [v EXCEPT !.rows = (v.rows \ {r}) \cup {s}] /\ queries' = queries
    BY <1>9, <2>1 DEF StoreResponse, Writes
  <2>3. r \in Stored /\ IsResponse(r)
    BY <1>2
  <2>4. /\ s \in Stored /\ s.topic = r.topic /\ s.choice = r.choice /\ s.worth = r.worth
        /\ s.points = r.points
    BY <2>1, <2>3 DEF Stored
  <2>5. IsResponse(s)
    BY <2>3, <2>4 DEF IsResponse
  <2>6. /\ w \in Records /\ w.rows = (v.rows \ {r}) \cup {s} /\ w.stage = v.stage /\ w.state = v.state
    BY <1>2, <2>2, <2>4 DEF Records
  <2>7. IsFiniteSet(w.rows)
    <3>1. IsFiniteSet(v.rows \ {r})
      BY <1>2, FS_Subset
    <3> QED  BY <2>6, <3>1, FS_AddElement
  <2>8. IsRecord(w)
    BY <1>2, <2>5, <2>6, <2>7 DEF IsRecord, Records
  <2>9. v.stage # "none" /\ v.state # "ended"
    BY <1>1, <2>2
  <2> QED  BY <2>2, <2>6, <2>8, <2>9 DEF RecordOk, Follows
<1> QED  BY <1>3, <1>4, <1>5, <1>6, <1>7, <1>8, <1>9
-----------------------------------------------------------------------------
(* Reports: the pages.                                                     *)

\* No two participants have the same place in a ranking.
LEMMA RankingIsTotal ==
  ASSUME NEW v, IsRecord(v), NEW a \in Ranking(v), NEW b \in Ranking(v)
  PROVE  a = b \/ Before("ranking", a, b) \/ Before("ranking", b, a)
<1>1. a.joined = b.joined => a = b
  <2> DEFINE rank(p) == 1 + Cardinality({x \in 1..v.joined : ScoreOf(x, v) > ScoreOf(p, v)})
             row(p) == [joined |-> p, score |-> ScoreOf(p, v), rank |-> rank(p)]
  <2>1. Ranking(v) = {row(p) : p \in 1..v.joined}
    BY DEF Ranking
  <2>2. \A p : row(p).joined = p
    OBVIOUS
  <2> HIDE DEF row
  <2> QED  BY <2>1, <2>2
<1>2. /\ a.joined \in Nat /\ b.joined \in Nat /\ a.score \in Nat /\ b.score \in Nat
  <2> DEFINE R == [joined: Nat, score: Nat, rank: Nat]
  <2>1. a \in R /\ b \in R
    BY RankingIs
  <2> QED  BY <2>1
<1>3. \A x, y : Before("ranking", x, y) <=>
                  x.score > y.score \/ (x.score = y.score /\ x.joined < y.joined)
  BY DEF Before
<1> QED  BY <1>1, <1>2, <1>3

\* A list goes on after its last row.
LEMMA ListGrows ==
  ASSUME NEW k \in Queries, NEW v, NEW u, IsRecord(v), IsRecord(u), Follows(u, v),
         NEW ps \in Seq(Pages(k)), Lists(k, ps, v), NEW c, c = NextCursor(k, ps),
         ps # <<>> => c # NoCursor,
         k = "ranking" /\ ps # <<>> => u.state = "ended"
  PROVE  LET new == Append(ps, PageFrom(k, u, u, c))
         IN new \in Seq(Pages(k)) /\ Lists(k, new, v)
<1>1. PICK p : p = PageFrom(k, u, u, c)
  OBVIOUS
<1>2. PICK new : new = Append(ps, p)
  OBVIOUS
<1>3. /\ IsPage(k, p)
      /\ p.more => Continues(k, u)
      /\ p.final <=> u.state = "ended"
      /\ \A r \in p.items : r \in Listed(k, u) /\ (c = NoCursor \/ ~Continues(k, u) \/ Before(k, c, r))
      /\ \A r \in p.items, x \in Listed(k, u) :
           (c = NoCursor \/ ~Continues(k, u) \/ Before(k, c, x)) /\ Before(k, x, r) => x \in p.items
      /\ ~p.more /\ Continues(k, u) =>
           \A x \in Listed(k, u) : (c = NoCursor \/ ~Continues(k, u) \/ Before(k, c, x)) => x \in p.items
  BY <1>1, PageIs
<1>4. p \in Pages(k) /\ p.items \in SUBSET RowsOf(k)
  BY <1>3, PageHas
<1>5. new \in Seq(Pages(k))
  BY <1>2, <1>4
<1>6. /\ DOMAIN new = 1..(Len(ps) + 1) /\ DOMAIN ps = 1..Len(ps) /\ Len(ps) \in Nat
      /\ Len(new) = Len(ps) + 1 /\ new[Len(ps) + 1] = p
      /\ \A i \in 1..Len(ps) : new[i] = ps[i]
      /\ new # <<>>
  BY <1>2, <1>4
<1>7. Chained(k, ps) /\ IsFinal(k, ps, v)
  BY DEF Lists
<1>8. \A i \in DOMAIN ps : ps[i].items \in SUBSET RowsOf(k)
  BY <1>7, PageHas DEF Chained
<1>9. Continues(k, u) \/ ps = <<>>
  BY DEF Continues
<1>10. ps # <<>> =>
         /\ c # NoCursor /\ ps[Len(ps)].more
         /\ c \in ps[Len(ps)].items /\ \A x \in ps[Len(ps)].items : ~Before(k, c, x)
         /\ Len(ps) \in DOMAIN ps
  BY <1>6, <1>7, CursorIs
<1>11. ASSUME NEW i \in DOMAIN ps, NEW a \in ps[i].items, NEW b \in p.items
       PROVE  Before(k, a, b)
  <2>1. ps # <<>>
    BY <1>6
  <2>2. Before(k, c, b)
    BY <1>3, <1>9, <1>10, <2>1
  <2>3. a \in RowsOf(k) /\ b \in RowsOf(k) /\ c \in RowsOf(k)
    BY <1>4, <1>8, <1>10, <2>1
  <2>4. CASE i = Len(ps)
    <3>1. ~Before(k, c, a)
      BY <1>10, <2>1, <2>4
    <3> QED  BY <2>2, <2>3, <3>1, BeforeIsAnOrder
  <2>5. CASE i < Len(ps)
    <3>1. Before(k, a, c)
      BY <1>7, <1>10, <2>1, <2>5 DEF Chained
    <3> QED  BY <2>2, <2>3, <3>1, BeforeIsAnOrder
  <2> QED  BY <1>6, <2>4, <2>5
<1>12. Chained(k, new)
  <2>1. \A i \in DOMAIN new : IsPage(k, new[i])
    BY <1>3, <1>6, <1>7 DEF Chained
  <2>2. ASSUME NEW i \in DOMAIN new, NEW j \in DOMAIN new, i < j
        PROVE  \A a \in new[i].items, b \in new[j].items : Before(k, a, b)
    <3>1. i \in DOMAIN ps /\ new[i] = ps[i]
      BY <1>6, <2>2
    <3>2. CASE j = Len(ps) + 1
      BY <1>6, <1>11, <3>1, <3>2
    <3>3. CASE j \in DOMAIN ps
      BY <1>6, <1>7, <2>2, <3>1, <3>3 DEF Chained
    <3> QED  BY <1>6, <3>2, <3>3
  <2> QED  BY <2>1, <2>2 DEF Chained
<1>13. Shown(new) = Shown(ps) \cup p.items
  BY <1>6 DEF Shown
<1>14. ASSUME k = "ranking" PROVE IsFinal(k, new, v)
  <2>1. p.more => p.final
    BY <1>3, <1>14 DEF Continues
  <2>2. ASSUME p.final
        PROVE  /\ v.state = "ended"
               /\ Shown(new) \subseteq Ranking(v)
               /\ \A r \in Shown(new), x \in Ranking(v) : Before(k, x, r) => x \in Shown(new)
               /\ ~p.more => Shown(new) = Ranking(v)
    <3>1. u.state = "ended" /\ v.state = "ended" /\ Ranking(v) = Ranking(u)
      BY <1>3, <2>2, SameRanking DEF Follows
    <3>2. Continues(k, u)
      BY <3>1 DEF Continues
    <3>3. Listed(k, u) = Ranking(v)
      BY <1>14, <3>1 DEF Listed
    <3>4. /\ Shown(ps) \subseteq Ranking(v)
          /\ \A r \in Shown(ps), x \in Ranking(v) : Before(k, x, r) => x \in Shown(ps)
      <4>1. CASE ps = <<>>
        BY <4>1 DEF Shown
      <4>2. CASE ps # <<>>
        <5>1. PICK last : last = ps[Len(ps)]
          OBVIOUS
        <5>2. last.more
          BY <1>10, <4>2, <5>1
        <5> QED  BY <1>7, <1>14, <4>2, <5>1, <5>2 DEF IsFinal
      <4> QED  BY <4>1, <4>2
    <3>5. ASSUME NEW x \in Ranking(v), c # NoCursor, ~Before(k, c, x) PROVE x \in Shown(ps)
      <4>1. ps # <<>>
        BY <3>5 DEF NextCursor
      <4>2. c \in Shown(ps)
        BY <1>10, <4>1 DEF Shown
      <4>3. c \in Ranking(v)
        BY <3>4, <4>2
      <4>4. x = c \/ Before(k, x, c)
        BY <1>14, <3>5, <4>3, RankingIsTotal
      <4> QED  BY <3>4, <4>2, <4>4
    <3>6. Shown(new) \subseteq Ranking(v)
      BY <1>3, <1>13, <3>3, <3>4
    <3>7. ASSUME NEW r \in Shown(new), NEW x \in Ranking(v), Before(k, x, r) PROVE x \in Shown(new)
      BY <1>3, <1>13, <3>3, <3>4, <3>5, <3>7
    <3>8. ASSUME ~p.more PROVE Ranking(v) \subseteq Shown(new)
      BY <1>3, <1>13, <3>2, <3>3, <3>5, <3>8
    <3> QED  BY <3>1, <3>6, <3>7, <3>8
  <2> QED  BY <1>6, <2>1, <2>2 DEF IsFinal
<1>15. IsFinal(k, new, v)
  BY <1>14 DEF IsFinal
<1> QED  BY <1>1, <1>2, <1>5, <1>12, <1>15 DEF Lists
-----------------------------------------------------------------------------
(* Reports: the queries of the page.                                       *)

LEMMA Asked ==
  ASSUME NEW k \in Queries, NEW q, NEW v, QueryOk(k, q, v), NEW m \in BOOLEAN,
         NEW got \in Seq(Pages(k)), Lists(k, got, v), NEW c, c = NextCursor(k, got),
         got # <<>> => c # NoCursor
  PROVE  QueryOk(k, [q EXCEPT !.fetch = [step |-> "asked", more |-> m, got |-> got, cursor |-> c,
                                         view |-> NoCursor]], v)
<1>1. PICK f : f = [step |-> "asked", more |-> m, got |-> got, cursor |-> c, view |-> NoCursor]
  OBVIOUS
<1>2. c \in RowsOf(k) \cup {NoCursor}
  BY CursorIs DEF Lists
<1>3. f \in FetchOf(k)
  BY <1>1, <1>2 DEF FetchOf
<1>4. FetchOk(k, f, v)
  BY <1>1 DEF FetchOk
<1>5. PICK new : new = [q EXCEPT !.fetch = f]
  OBVIOUS
<1>6. /\ new \in [pages: Seq(Pages(k)), failed: BOOLEAN, fetch: FetchOf(k)]
      /\ new.pages = q.pages /\ new.fetch = f
  BY <1>3, <1>5 DEF QueryOk
<1> QED  BY <1>1, <1>4, <1>5, <1>6 DEF QueryOk

LEMMA NotFetchingIs ==
  ASSUME NEW k, NEW v
  PROVE  NotFetching \in FetchOf(k) /\ FetchOk(k, NotFetching, v)
<1>1. <<>> \in Seq(Pages(k))
  OBVIOUS
<1> QED  BY <1>1, NoPages DEF NotFetching, FetchOf, FetchOk

LEMMA QueryHas ==
  ASSUME NEW k, NEW q, NEW v, QueryOk(k, q, v)
  PROVE  /\ q = [pages |-> q.pages, failed |-> q.failed, fetch |-> q.fetch]
         /\ q.pages \in Seq(Pages(k)) /\ q.failed \in BOOLEAN /\ q.fetch \in FetchOf(k)
         /\ q.fetch.step \in {"idle", "asked", "reading"} /\ q.fetch.more \in BOOLEAN
         /\ q.fetch.got \in Seq(Pages(k)) /\ Lists(k, q.pages, v) /\ FetchOk(k, q.fetch, v)
  BY DEF QueryOk, FetchOf

\* One query changes.
LEMMA OneQuery ==
  ASSUME ReportsInv, NEW k \in Queries, NEW q, QueryOk(k, q, record),
         queries' = [queries EXCEPT ![k] = q], record' = record
  PROVE  ReportsInv'
<1>1. queries' = [j \in Queries |-> IF j = k THEN q ELSE queries[j]]
  BY DEF ReportsInv
<1>2. \A j \in Queries : QueryOk(j, queries'[j], record)
  BY <1>1 DEF ReportsInv
<1>3. queries' = [j \in Queries |-> queries'[j]]
  BY <1>1
<1> QED  BY <1>2, <1>3 DEF ReportsInv

LEMMA FetchIsAsked ==
  ASSUME ReportsInv, NEW k \in Queries, NEW m \in BOOLEAN, NEW got \in Seq(Pages(k)),
         Lists(k, got, record), NEW c, c = NextCursor(k, got), got # <<>> => c # NoCursor,
         queries' = Asking(k, m, got, c), record' = record
  PROVE  ReportsInv'
<1>1. PICK q : q = [queries[k] EXCEPT !.fetch =
                      [step |-> "asked", more |-> m, got |-> got, cursor |-> c, view |-> NoCursor]]
  OBVIOUS
<1>2. QueryOk(k, q, record)
  BY <1>1, Asked DEF ReportsInv
<1>3. queries' = [queries EXCEPT ![k] = q]
  BY <1>1 DEF Asking
<1> QED  BY <1>2, <1>3, OneQuery

LEMMA MountStep ==
  ASSUME ReportsInv, NEW k \in Queries, Mount(k)
  PROVE  ReportsInv'
<1>1. queries' = Asking(k, FALSE, <<>>, NoCursor) /\ record' = record
  BY DEF Mount, StartLoad
<1>2. <<>> \in Seq(Pages(k)) /\ NextCursor(k, <<>>) = NoCursor /\ FALSE \in BOOLEAN
  BY DEF NextCursor
<1> QED  BY <1>1, <1>2, NoPages, FetchIsAsked

LEMMA LoadMoreStep ==
  ASSUME ReportsInv, NEW k \in Queries, LoadMore(k)
  PROVE  ReportsInv'
<1>1. /\ NextCursor(k, queries[k].pages) # NoCursor
      /\ queries' = Asking(k, TRUE, queries[k].pages, NextCursor(k, queries[k].pages))
      /\ record' = record
  BY DEF LoadMore, StartLoad
<1>2. PICK got : got = queries[k].pages
  OBVIOUS
<1>3. got \in Seq(Pages(k)) /\ Lists(k, got, record) /\ TRUE \in BOOLEAN
  BY <1>2, QueryHas DEF ReportsInv
<1>4. PICK c : c = NextCursor(k, got)
  OBVIOUS
<1>5. queries' = Asking(k, TRUE, got, c) /\ c # NoCursor
  BY <1>1, <1>2, <1>4
<1> QED  BY <1>1, <1>3, <1>4, <1>5, FetchIsAsked

\* Every query from its first page.
LEMMA FirstAsked ==
  ASSUME ReportsInv, NEW k \in Queries
  PROVE  /\ Asking(k, FALSE, <<>>, NoCursor)[k] =
              [queries[k] EXCEPT !.fetch =
                 [step |-> "asked", more |-> FALSE, got |-> <<>>, cursor |-> NoCursor, view |-> NoCursor]]
         /\ QueryOk(k, Asking(k, FALSE, <<>>, NoCursor)[k], record)
<1>1. PICK q : q = [queries[k] EXCEPT !.fetch =
                      [step |-> "asked", more |-> FALSE, got |-> <<>>, cursor |-> NoCursor,
                       view |-> NoCursor]]
  OBVIOUS
<1>2. k \in DOMAIN queries
  <2>1. DOMAIN queries = Queries
    BY DEF ReportsInv
  <2> QED  BY <2>1
<1>3. Asking(k, FALSE, <<>>, NoCursor) = [queries EXCEPT ![k] = q]
  BY <1>1 DEF Asking
<1>4. Asking(k, FALSE, <<>>, NoCursor)[k] = q
  BY <1>2, <1>3
<1>5. <<>> \in Seq(Pages(k)) /\ NextCursor(k, <<>>) = NoCursor /\ FALSE \in BOOLEAN
  BY DEF NextCursor
<1>6. QueryOk(k, queries[k], record)
  BY DEF ReportsInv
<1>7. QueryOk(k, q, record)
  BY <1>1, <1>5, <1>6, NoPages, Asked
<1> QED  BY <1>1, <1>4, <1>7

LEMMA ReloadStep ==
  ASSUME ReportsInv, ReloadReport
  PROVE  ReportsInv'
<1>1. /\ queries' = [k \in Queries |->
                       IF k \in watch THEN Asking(k, FALSE, <<>>, NoCursor)[k] ELSE queries[k]]
      /\ record' = record
  BY DEF ReloadReport, StartLoad
<1>2. \A k \in Queries : QueryOk(k, queries'[k], record)
  BY <1>1, FirstAsked DEF ReportsInv
<1>3. queries' = [k \in Queries |-> queries'[k]]
  BY <1>1
<1> QED  BY <1>1, <1>2, <1>3 DEF ReportsInv

\* A query that is given up.
LEMMA GivenUp ==
  ASSUME NEW k, NEW q, NEW v, QueryOk(k, q, v)
  PROVE  /\ QueryOk(k, [q EXCEPT !.fetch = NotFetching], v)
         /\ QueryOk(k, [q EXCEPT !.failed = TRUE, !.fetch = NotFetching], v)
<1>1. NotFetching \in FetchOf(k) /\ FetchOk(k, NotFetching, v)
  BY NotFetchingIs
<1>2. PICK f : f = NotFetching
  OBVIOUS
<1>3. /\ q \in [pages: Seq(Pages(k)), failed: BOOLEAN, fetch: FetchOf(k)] /\ Lists(k, q.pages, v)
  BY DEF QueryOk
<1>4. ASSUME NEW r, r = [q EXCEPT !.fetch = f] \/ r = [q EXCEPT !.failed = TRUE, !.fetch = f]
      PROVE  QueryOk(k, r, v)
  <2>1. /\ r \in [pages: Seq(Pages(k)), failed: BOOLEAN, fetch: FetchOf(k)]
        /\ r.pages = q.pages /\ r.fetch = f
    BY <1>1, <1>2, <1>3, <1>4
  <2> QED  BY <1>1, <1>2, <1>3, <2>1 DEF QueryOk
<1> QED  BY <1>2, <1>4

LEMMA SelectTopicStep ==
  ASSUME ReportsInv, NEW q \in Topics, SelectTopic(q)
  PROVE  ReportsInv'
<1> DEFINE kept == [k \in Queries |-> IF k \in watch \cap Topics
                                      THEN [queries[k] EXCEPT !.fetch = NotFetching] ELSE queries[k]]
<1>1. /\ queries' = [kept EXCEPT ![q] = Asking(q, FALSE, <<>>, NoCursor)[q]] \/ queries' = kept
      /\ record' = record
  BY DEF SelectTopic
<1>2. \A k \in Queries : QueryOk(k, kept[k], record)
  BY GivenUp DEF ReportsInv
<1>3. q \in Queries
  BY DEF Queries
<1>4. QueryOk(q, Asking(q, FALSE, <<>>, NoCursor)[q], record)
  BY <1>3, FirstAsked
<1>5. kept = [k \in Queries |-> kept[k]]
  OBVIOUS
<1> HIDE DEF kept
<1>6. /\ queries' = [k \in Queries |-> queries'[k]]
      /\ \A k \in Queries : QueryOk(k, queries'[k], record)
  BY <1>1, <1>2, <1>3, <1>4, <1>5
<1> QED  BY <1>1, <1>6 DEF ReportsInv

LEMMA FetchFailsStep ==
  ASSUME ReportsInv, NEW k \in Queries, FetchFails(k)
  PROVE  ReportsInv'
<1>1. PICK q : q = [queries[k] EXCEPT !.failed = TRUE, !.fetch = NotFetching]
  OBVIOUS
<1>2. queries' = [queries EXCEPT ![k] = q] /\ record' = record
  BY <1>1 DEF FetchFails
<1>3. QueryOk(k, q, record)
  BY <1>1, GivenUp DEF ReportsInv
<1> QED  BY <1>2, <1>3, OneQuery

LEMMA LookStep ==
  ASSUME ReportsInv, NEW k \in Queries, Look(k)
  PROVE  ReportsInv'
<1>1. PICK q : q = queries[k]
  OBVIOUS
<1>2. QueryOk(k, q, record)
  BY <1>1 DEF ReportsInv
<1>3. PICK f : f = [q.fetch EXCEPT !.step = "reading", !.view = record]
  OBVIOUS
<1>4. PICK new : new = [q EXCEPT !.fetch = f]
  OBVIOUS
<1>5. q.fetch.step = "asked" /\ queries' = [queries EXCEPT ![k] = new] /\ record' = record
  BY <1>1, <1>3, <1>4 DEF Look
<1>6. /\ q \in [pages: Seq(Pages(k)), failed: BOOLEAN, fetch: FetchOf(k)]
      /\ q.fetch \in FetchOf(k) /\ Lists(k, q.pages, record) /\ FetchOk(k, q.fetch, record)
  BY <1>2 DEF QueryOk
<1>7. record \in Records /\ IsRecord(record)
  BY RecordHas DEF ReportsInv, RecordOk
<1>8. /\ f \in FetchOf(k) /\ f.got = q.fetch.got /\ f.cursor = q.fetch.cursor
      /\ f.view = record /\ f.step = "reading"
  BY <1>3, <1>6, <1>7 DEF FetchOf
<1>9. f.got \in Seq(Pages(k)) /\ Lists(k, f.got, record)
  BY <1>6, <1>8 DEF FetchOf, FetchOk
<1>10. f.cursor = NextCursor(k, f.got) /\ (f.got # <<>> => f.cursor # NoCursor)
  BY <1>5, <1>6, <1>8 DEF FetchOk
<1>11. ASSUME k = "ranking", f.got # <<>> PROVE record.state = "ended"
  <2>1. f.got[Len(f.got)].more
    BY <1>9, <1>10, <1>11, CursorIs DEF Lists
  <2> QED  BY <1>9, <1>11, <2>1 DEF Lists, IsFinal
<1>12. FetchOk(k, f, record)
  BY <1>7, <1>8, <1>9, <1>10, <1>11 DEF FetchOk, Follows
<1>13. /\ new \in [pages: Seq(Pages(k)), failed: BOOLEAN, fetch: FetchOf(k)]
       /\ new.pages = q.pages /\ new.fetch = f
  BY <1>4, <1>6, <1>8
<1>14. QueryOk(k, new, record)
  BY <1>6, <1>12, <1>13 DEF QueryOk
<1> QED  BY <1>5, <1>14, OneQuery

LEMMA PageArrivesStep ==
  ASSUME ReportsInv, NEW k \in Queries, PageArrives(k)
  PROVE  ReportsInv'
<1>1. PICK q : q = queries[k]
  OBVIOUS
<1>2. PICK f : f = q.fetch
  OBVIOUS
<1>3. QueryOk(k, q, record)
  BY <1>1 DEF ReportsInv
<1>4. f \in FetchOf(k) /\ FetchOk(k, f, record) /\ f.step = "reading"
  BY <1>1, <1>2, <1>3 DEF QueryOk, PageArrives
<1>5. /\ f.got \in Seq(Pages(k)) /\ Lists(k, f.got, record) /\ f.cursor = NextCursor(k, f.got)
      /\ f.got # <<>> => f.cursor # NoCursor
      /\ IsRecord(f.view) /\ Follows(f.view, record)
      /\ k = "ranking" /\ f.got # <<>> => f.view.state = "ended"
  BY <1>4 DEF FetchOf, FetchOk
<1>6. IsRecord(record)
  BY DEF ReportsInv, RecordOk
<1>7. PICK got : got = Fetched(k)
  OBVIOUS
<1>8. got = Append(f.got, PageFrom(k, f.view, f.view, f.cursor))
  BY <1>1, <1>2, <1>7 DEF Fetched, Seen
<1>9. got \in Seq(Pages(k)) /\ Lists(k, got, record)
  <2>1. PICK u : u = f.view
    OBVIOUS
  <2>2. PICK ps \in Seq(Pages(k)) : ps = f.got
    BY <1>5
  <2>3. PICK c : c = f.cursor
    OBVIOUS
  <2>4. Append(ps, PageFrom(k, u, u, c)) \in Seq(Pages(k))
          /\ Lists(k, Append(ps, PageFrom(k, u, u, c)), record)
    BY <1>5, <1>6, <2>1, <2>2, <2>3, ListGrows
  <2> QED  BY <1>8, <2>1, <2>2, <2>3, <2>4
<1>10. record' = record
  BY DEF PageArrives
<1>11. CASE NextCursor(k, got) # NoCursor /\ queries' = Asking(k, FALSE, got, NextCursor(k, got))
  <2>1. PICK c : c = NextCursor(k, got)
    OBVIOUS
  <2>2. FALSE \in BOOLEAN
    OBVIOUS
  <2> QED  BY <1>9, <1>10, <1>11, <2>1, <2>2, FetchIsAsked
<1>12. CASE queries' = [queries EXCEPT ![k] = [pages |-> got, failed |-> FALSE, fetch |-> NotFetching]]
  <2>1. PICK new : new = [pages |-> got, failed |-> FALSE, fetch |-> NotFetching]
    OBVIOUS
  <2>2. NotFetching \in FetchOf(k) /\ FetchOk(k, NotFetching, record)
    BY NotFetchingIs
  <2>3. QueryOk(k, new, record)
    BY <1>9, <2>1, <2>2 DEF QueryOk
  <2> QED  BY <1>10, <1>12, <2>1, <2>3, OneQuery
<1>13. \/ NextCursor(k, got) # NoCursor /\ queries' = Asking(k, FALSE, got, NextCursor(k, got))
       \/ queries' = [queries EXCEPT ![k] = [pages |-> got, failed |-> FALSE, fetch |-> NotFetching]]
  BY <1>7 DEF PageArrives
<1> QED  BY <1>11, <1>12, <1>13
-----------------------------------------------------------------------------
LEMMA ReportsStart == ReportsInit => ReportsInv
<1> SUFFICES ASSUME ReportsInit PROVE ReportsInv
  OBVIOUS
<1>1. /\ record = [state |-> "live", stage |-> "none", joined |-> 0, rows |-> {}, sessions |-> 1]
      /\ queries = [k \in Queries |-> NotLoaded]
  BY DEF ReportsInit
<1>2. IsRecord(record)
  BY <1>1, FS_EmptySet DEF IsRecord
<1>3. RecordOk(record)
  BY <1>1, <1>2 DEF RecordOk
<1>4. ASSUME NEW k \in Queries PROVE QueryOk(k, NotLoaded, record)
  <2>1. PICK f : f = NotFetching
    OBVIOUS
  <2>2. f \in FetchOf(k) /\ FetchOk(k, f, record)
    BY <2>1, NotFetchingIs
  <2>3. NotLoaded = [pages |-> <<>>, failed |-> FALSE, fetch |-> f]
    BY <2>1 DEF NotLoaded
  <2>4. Lists(k, <<>>, record) /\ <<>> \in Seq(Pages(k))
    BY NoPages
  <2> QED  BY <2>2, <2>3, <2>4 DEF QueryOk
<1> QED  BY <1>1, <1>3, <1>4 DEF ReportsInv

LEMMA ReportsStep == ReportsInv /\ [ReportsNext]_reportsVars => ReportsInv'
<1> SUFFICES ASSUME ReportsInv, [ReportsNext]_reportsVars PROVE ReportsInv'
  OBVIOUS
<1>1. ASSUME \/ JoinAudience \/ CloseTopic \/ EndReported \/ StartAnother
             \/ \E p \in 1..record.joined : BeginResponse(p)
             \/ \E q \in Topics : OpenTopic(q)
             \/ \E r \in record.rows : StoreResponse(r)
      PROVE  ReportsInv'
  <2>1. RecordOk(record)
    BY DEF ReportsInv
  <2>2. RecordOk(record') /\ Follows(record, record') /\ queries' = queries
    BY <1>1, <2>1, SessionSteps
  <2>3. \A k \in Queries : QueryOk(k, queries[k], record')
    BY <2>2, QueryStays DEF ReportsInv
  <2> QED  BY <2>2, <2>3 DEF ReportsInv
<1>2. CASE ReloadReport
  BY <1>2, ReloadStep
<1>3. CASE \E q \in Topics : SelectTopic(q)
  BY <1>3, SelectTopicStep
<1>4. CASE \E k \in Queries : Mount(k) \/ LoadMore(k) \/ Look(k) \/ PageArrives(k) \/ FetchFails(k)
  BY <1>4, MountStep, LoadMoreStep, LookStep, PageArrivesStep, FetchFailsStep
<1>5. CASE UNCHANGED reportsVars
  BY <1>5 DEF reportsVars, ReportsInv
<1> QED  BY <1>1, <1>2, <1>3, <1>4, <1>5 DEF ReportsNext

\* However the pages of a list were loaded and refreshed, they are one list, in
\* order; and a ranking called final is that of the session.
THEOREM ReportListsAreOneList == ReportsSpec => []ListsAreOneList
<1>1. ReportsInv => ListsAreOneList
  <2> SUFFICES ASSUME ReportsInv, NEW k \in Queries \ {"totals"}
               PROVE  LET pages == queries[k].pages
                      IN /\ \A i, j \in DOMAIN pages : i < j =>
                              \A a \in pages[i].items, b \in pages[j].items : Before(k, a, b)
                         /\ (k = "ranking" /\ pages # <<>> /\ pages[Len(pages)].final) =>
                              /\ ShownRows(k) \subseteq Ranking(record)
                              /\ \A r \in ShownRows(k), x \in Ranking(record) :
                                   Before(k, x, r) => x \in ShownRows(k)
                              /\ NextCursor(k, pages) = NoCursor => ShownRows(k) = Ranking(record)
    BY DEF ListsAreOneList
  <2>1. PICK ps : ps = queries[k].pages
    OBVIOUS
  <2>2. ps \in Seq(Pages(k)) /\ Chained(k, ps) /\ IsFinal(k, ps, record)
    BY <2>1, QueryHas DEF ReportsInv, Lists
  <2>3. ShownRows(k) = Shown(ps)
    BY <2>1 DEF ShownRows, Shown
  <2>4. NextCursor(k, ps) # NoCursor <=> ps # <<>> /\ ps[Len(ps)].more
    BY <2>2, CursorIs
  <2>5. \A i, j \in DOMAIN ps : i < j => \A a \in ps[i].items, b \in ps[j].items : Before(k, a, b)
    BY <2>2 DEF Chained
  <2>6. (k = "ranking" /\ ps # <<>> /\ ps[Len(ps)].final) =>
          /\ Shown(ps) \subseteq Ranking(record)
          /\ \A r \in Shown(ps), x \in Ranking(record) : Before(k, x, r) => x \in Shown(ps)
          /\ NextCursor(k, ps) = NoCursor => Shown(ps) = Ranking(record)
    BY <2>2, <2>4 DEF IsFinal
  <2> QED  BY <2>1, <2>3, <2>5, <2>6
<1> QED  BY <1>1, ReportsStart, ReportsStep, PTL DEF ReportsSpec

\* The numbers of each reply on the screen agree, whatever was stored while it
\* was read.
THEOREM RepliesAddUp == ReportsSpec => []ReportAddsUp
<1>1. ReportsInv => ReportAddsUp
  <2> SUFFICES ASSUME ReportsInv, NEW k \in Queries, NEW i \in DOMAIN queries[k].pages
               PROVE  AddsUp(k, queries[k].pages[i])
    BY DEF ReportAddsUp, AddsUp
  <2>1. PICK ps : ps = queries[k].pages
    OBVIOUS
  <2>2. Chained(k, ps)
    BY <2>1, QueryHas DEF ReportsInv, Lists
  <2>3. IsPage(k, ps[i])
    BY <2>1, <2>2 DEF Chained
  <2> QED  BY <2>1, <2>3 DEF IsPage
<1> QED  BY <1>1, ReportsStart, ReportsStep, PTL DEF ReportsSpec
=============================================================================
