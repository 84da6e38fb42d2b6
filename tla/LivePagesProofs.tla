--------------------------- MODULE LivePagesProofs ---------------------------
(***************************************************************************)
(* What the pages of a live session promise, for any number of joins,      *)
(* loads, questions, tries, events and presses: a browser takes one seat   *)
(* (Joining), a participant's answer is sent under one key and reported as *)
(* it is (Answering), the projector shows the session as it is (Stage),    *)
(* and the presenter's page shows the podium of an ended session only and  *)
(* is no dead end (Presenting).                                            *)
(*                                                                         *)
(* Joining.  Once the browser has a request id it keeps it: in the         *)
(* profile, in every join sent, whichever load of the page sent it, and in *)
(* its seat (OneId).  That the first join already has one needs the page's *)
(* states: a page without a profile is editing it (NobodyJoinsUnnamed).    *)
(*                                                                         *)
(* Answering.  What was sent since the selection last changed, what        *)
(* sessionStorage keeps and what the panel would send have one key         *)
(* (KeptIsCurrent, PanelIsCurrent); a reply that is still awaited for the  *)
(* question on the screen has the selection locked (OneAwaited), and those *)
(* of earlier questions concern nothing, because runs only go forward      *)
(* (RunsGoForward).                                                        *)
(*                                                                         *)
(* Stage.  An event that moves the cursor past the snapshot leaves a       *)
(* refresh under way that will be at least as new (WillBeCurrent): the     *)
(* reply that is dropped as old is never the last one.                     *)
(*                                                                         *)
(* Presenting.  "final" is in the page before a snapshot says "ended": the *)
(* press itself sets it when it returns.  The invariant therefore follows  *)
(* the press: an end that has no command left to send has ended the        *)
(* session (EndIsDone), the commands of an end close with "end" (EndsEnd), *)
(* and no command, timer or other page brings an ended session back.       *)
(***************************************************************************)
EXTENDS Joining, Answering, Stage, Presenting, FiniteSetTheorems, TLAPS

IsJoin(j) == j = [no |-> j.no, visit |-> j.visit, by |-> j.by, id |-> j.id, nick |-> j.nick,
                  heard |-> j.heard, outcome |-> j.outcome]
IsLobby(l) == l = [editing |-> l.editing, joining |-> l.joining, sent |-> l.sent,
                   connected |-> l.connected, seated |-> l.seated, nick |-> l.nick]
IsResume(r) == r = [seen |-> r.seen, idle |-> r.idle, profile |-> r.profile, sent |-> r.sent]

JoiningTypeOK ==
  /\ \A j \in joins : IsJoin(j)
  /\ IsLobby(lobby) /\ IsResume(resume)
  /\ spent = [joins |-> spent.joins, visits |-> spent.visits] /\ spent.joins \in Nat /\ spent.visits \in Nat
  /\ \A s \in seats : s = [id |-> s.id, nick |-> s.nick]
  /\ profile.id = 0 => profile = NoProfile

OneId ==
  /\ \A j \in joins : j.id # 0 /\ j.id = profile.id
  /\ \A s \in seats : s.id \in {0, profile.id}
NobodyJoinsUnnamed == profile.id = 0 => lobby.editing = TRUE /\ resume.profile = NoProfile
SeatInv == JoiningTypeOK /\ OneId /\ NobodyJoinsUnnamed /\ OneSeat

LEMMA SeatInvInit == JoiningInit => SeatInv
<1> SUFFICES ASSUME JoiningInit  PROVE SeatInv
  OBVIOUS
<1>1. JoiningTypeOK
  BY DEF JoiningInit, JoiningTypeOK, IsLobby, IsResume, LobbyAt, NoProfile
<1>2. profile.id = 0 /\ joins = {} /\ \A s \in seats : s.id = 0
  BY DEF JoiningInit, NoProfile
<1>3. NobodyJoinsUnnamed
  BY DEF JoiningInit, NobodyJoinsUnnamed, LobbyAt
<1>4. OneId /\ OneSeat
  BY <1>2 DEF OneId, OneSeat
<1> QED  BY <1>1, <1>3, <1>4 DEF SeatInv

LEMMA CancelledKeepsIds ==
  ASSUME NEW J, \A j \in J : IsJoin(j), NEW k \in Cancelled(J)
  PROVE  IsJoin(k) /\ \E j \in J : k.id = j.id
<1>1. PICK j \in J : k = [j EXCEPT !.heard = FALSE]
  BY DEF Cancelled
<1>2. IsJoin(j)
  OBVIOUS
<1>3. k = [no |-> j.no, visit |-> j.visit, by |-> j.by, id |-> j.id, nick |-> j.nick,
           heard |-> FALSE, outcome |-> j.outcome]
  BY <1>1, <1>2 DEF IsJoin
<1> QED  BY <1>3 DEF IsJoin

\* A commit of the page, if the profile it stores keeps the id and whoever joins
\* has one.
LEMMA SettleKeeps ==
  ASSUME SeatInv, NEW l, NEW r, NEW J, NEW stored, NEW visit \in Nat,
         Settle(l, r, J, stored, visit), seats' = seats,
         IsLobby(l), IsResume(r), \A j \in J : IsJoin(j) /\ j.id # 0 /\ j.id = stored.id,
         stored.id = 0 => stored = NoProfile /\ l.editing = TRUE /\ r.profile = NoProfile,
         profile.id # 0 => stored.id = profile.id
  PROVE  SeatInv'
<1> DEFINE sends == (PageJoins(l, r) /\ ~l.sent) \/ (ShouldResume(r) /\ ~r.sent)
           join == [no |-> spent.joins + 1, visit |-> visit, by |-> IF r.seen THEN "hook" ELSE "page",
                    id |-> stored.id, nick |-> IF r.seen THEN r.profile.nick ELSE l.nick,
                    heard |-> TRUE, outcome |-> "none"]
<1>1. /\ lobby' = [[l EXCEPT !.connected = @ \/ PageJoins(l, r) \/ ShouldResume(r)]
                     EXCEPT !.sent = @ \/ (PageJoins(l, r) /\ ~l.sent)]
      /\ resume' = [r EXCEPT !.sent = ShouldResume(r)]
      /\ joins' = J \union (IF sends THEN {join} ELSE {})
      /\ profile' = stored
      /\ spent' = [joins |-> IF sends THEN spent.joins + 1 ELSE spent.joins, visits |-> visit]
  BY DEF Settle
<1>2. IsLobby(lobby') /\ lobby'.editing = l.editing
  BY <1>1 DEF IsLobby
<1>3. IsResume(resume') /\ resume'.profile = r.profile
  BY <1>1 DEF IsResume
<1>4. sends => stored.id # 0
  BY DEF PageJoins, ShouldResume
<1>5. IsJoin(join) /\ join.id = stored.id
  BY DEF IsJoin
<1> HIDE DEF join, sends
<1>6. \A j \in joins' : IsJoin(j) /\ j.id # 0 /\ j.id = stored.id
  BY <1>1, <1>4, <1>5
<1>7. spent' = [joins |-> spent'.joins, visits |-> spent'.visits] /\ spent'.joins \in Nat /\ spent'.visits \in Nat
  BY <1>1 DEF SeatInv, JoiningTypeOK
<1>8. JoiningTypeOK'
  BY <1>1, <1>2, <1>3, <1>6, <1>7 DEF SeatInv, JoiningTypeOK
<1>9. OneId' /\ NobodyJoinsUnnamed' /\ OneSeat'
  BY <1>1, <1>2, <1>3, <1>6 DEF SeatInv, OneId, NobodyJoinsUnnamed, OneSeat, JoiningTypeOK, NoProfile
<1> QED  BY <1>8, <1>9 DEF SeatInv
-----------------------------------------------------------------------------
LEMMA CancelledJoins ==
  ASSUME SeatInv, NEW J \in SUBSET joins, NEW k \in Cancelled(J)
  PROVE  IsJoin(k) /\ k.id # 0 /\ k.id = profile.id
<1>1. \A j \in J : IsJoin(j) /\ j.id # 0 /\ j.id = profile.id
  BY DEF SeatInv, JoiningTypeOK, OneId
<1>2. IsJoin(k) /\ \E j \in J : k.id = j.id
  BY <1>1, CancelledKeepsIds
<1> QED  BY <1>1, <1>2

LEMMA Shapes ==
  ASSUME SeatInv
  PROVE  /\ IsLobby(lobby) /\ IsResume(resume) /\ spent.visits \in Nat /\ spent.visits + 1 \in Nat
         /\ \A j \in joins : IsJoin(j) /\ j.id # 0 /\ j.id = profile.id
         /\ profile.id = 0 => profile = NoProfile /\ lobby.editing = TRUE /\ resume.profile = NoProfile
  BY DEF SeatInv, JoiningTypeOK, OneId, NobodyJoinsUnnamed

\* A field assigned leaves the shape.
LEMMA FieldsKeepShape ==
  /\ \A l, v : IsLobby(l) =>
       /\ IsLobby([l EXCEPT !.editing = v]) /\ IsLobby([l EXCEPT !.joining = v])
       /\ IsLobby([l EXCEPT !.sent = v]) /\ IsLobby([l EXCEPT !.connected = v])
       /\ IsLobby([l EXCEPT !.nick = v])
  /\ \A r, v : IsResume(r) =>
       /\ IsResume([r EXCEPT !.seen = v]) /\ [r EXCEPT !.seen = v].profile = r.profile
       /\ IsResume([r EXCEPT !.idle = v]) /\ [r EXCEPT !.idle = v].profile = r.profile
       /\ IsResume([r EXCEPT !.sent = v]) /\ [r EXCEPT !.sent = v].profile = r.profile
       /\ IsResume([r EXCEPT !.profile = v]) /\ [r EXCEPT !.profile = v].profile = v
<1>1. ASSUME NEW l, NEW v, IsLobby(l)
      PROVE  /\ IsLobby([l EXCEPT !.editing = v]) /\ IsLobby([l EXCEPT !.joining = v])
             /\ IsLobby([l EXCEPT !.sent = v]) /\ IsLobby([l EXCEPT !.connected = v])
             /\ IsLobby([l EXCEPT !.nick = v])
  BY <1>1 DEF IsLobby
<1>2. ASSUME NEW r, NEW v, IsResume(r)
      PROVE  /\ IsResume([r EXCEPT !.seen = v]) /\ [r EXCEPT !.seen = v].profile = r.profile
             /\ IsResume([r EXCEPT !.idle = v]) /\ [r EXCEPT !.idle = v].profile = r.profile
             /\ IsResume([r EXCEPT !.sent = v]) /\ [r EXCEPT !.sent = v].profile = r.profile
             /\ IsResume([r EXCEPT !.profile = v]) /\ [r EXCEPT !.profile = v].profile = v
  BY <1>2 DEF IsResume
<1> QED  BY <1>1, <1>2

LEMMA FreshLobby == ASSUME NEW stored  PROVE IsLobby(LobbyAt(stored))
  BY DEF IsLobby, LobbyAt

LEMMA SubmitKeeps ==
  ASSUME SeatInv, NEW nick, SubmitProfile(nick)
  PROVE  SeatInv'
<1> DEFINE l == [lobby EXCEPT !.editing = FALSE, !.joining = TRUE, !.sent = FALSE, !.nick = nick]
           stored == [id |-> IdToKeep, nick |-> nick]
<1>1. Settle(l, resume, Cancelled(joins), stored, spent.visits) /\ seats' = seats
  BY DEF SubmitProfile
<1>2. IsLobby(l) /\ IsResume(resume) /\ spent.visits \in Nat
  BY Shapes, FieldsKeepShape
<1>3. stored.id # 0 /\ (profile.id # 0 => stored.id = profile.id)
  BY DEF IdToKeep, NewId, SeatInv, JoiningTypeOK
<1>4. \A j \in Cancelled(joins) : IsJoin(j) /\ j.id # 0 /\ j.id = stored.id
  BY <1>3, CancelledJoins
<1> HIDE DEF l, stored
<1> QED  BY <1>1, <1>2, <1>3, <1>4, SettleKeeps

\* The commits that leave the profile as it is, or store what it should hold.
LEMMA RetryAndEditKeep ==
  ASSUME SeatInv, RetryNow \/ EditProfile
  PROVE  SeatInv'
<1> DEFINE again == [lobby EXCEPT !.sent = FALSE, !.joining = TRUE]
           edited == [lobby EXCEPT !.sent = FALSE, !.joining = FALSE, !.editing = TRUE]
<1>1. IsLobby(again) /\ IsLobby(edited)
  <2>1. edited = [[[lobby EXCEPT !.sent = FALSE] EXCEPT !.joining = FALSE] EXCEPT !.editing = TRUE]
    OBVIOUS
  <2> QED  BY <2>1, Shapes, FieldsKeepShape
<1>2. /\ \/ Settle(again, resume, Cancelled(joins), profile, spent.visits)
         \/ Settle(edited, resume, Cancelled(joins), profile, spent.visits)
      /\ seats' = seats
  BY DEF RetryNow, EditProfile
<1>3. profile.id # 0
  BY DEF SeatInv, NobodyJoinsUnnamed, RetryNow, EditProfile
<1>4. \A j \in Cancelled(joins) : IsJoin(j) /\ j.id # 0 /\ j.id = profile.id
  BY CancelledJoins
<1>5. IsResume(resume) /\ spent.visits \in Nat
  BY Shapes
<1> HIDE DEF again, edited
<1>6. CASE Settle(again, resume, Cancelled(joins), profile, spent.visits)
  BY <1>1, <1>2, <1>3, <1>4, <1>5, <1>6, SettleKeeps
<1>7. CASE Settle(edited, resume, Cancelled(joins), profile, spent.visits)
  BY <1>1, <1>2, <1>3, <1>4, <1>5, <1>7, SettleKeeps
<1> QED  BY <1>2, <1>6, <1>7

LEMMA RevisitKeeps ==
  ASSUME SeatInv, Revisit
  PROVE  SeatInv'
<1> DEFINE l == LobbyAt(profile)
           r == [resume EXCEPT !.profile = profile, !.idle = TRUE, !.sent = FALSE]
<1>1. Settle(l, r, joins, profile, spent.visits + 1) /\ seats' = seats
  BY DEF Revisit
<1>2. IsLobby(l) /\ IsResume(r) /\ r.profile = profile /\ spent.visits + 1 \in Nat
  <2>1. r = [[[resume EXCEPT !.profile = profile] EXCEPT !.idle = TRUE] EXCEPT !.sent = FALSE]
    OBVIOUS
  <2> DEFINE r1 == [resume EXCEPT !.profile = profile]
             r2 == [r1 EXCEPT !.idle = TRUE]
  <2>2. IsResume(r1) /\ r1.profile = profile
    BY Shapes, FieldsKeepShape
  <2> HIDE DEF r1
  <2>3. IsResume(r2) /\ r2.profile = profile
    BY <2>2, FieldsKeepShape
  <2>4. r = [r2 EXCEPT !.sent = FALSE]
    BY <2>1 DEF r1
  <2> HIDE DEF r2, r
  <2>5. IsResume(r) /\ r.profile = profile
    BY <2>3, <2>4, FieldsKeepShape
  <2> QED  BY <2>5, Shapes, FreshLobby
<1>3. profile.id = 0 => profile = NoProfile /\ l.editing = TRUE
  BY Shapes DEF LobbyAt
<1>4. \A j \in joins : IsJoin(j) /\ j.id # 0 /\ j.id = profile.id
  BY Shapes
<1> HIDE DEF l, r
<1> QED  BY <1>1, <1>2, <1>3, <1>4, SettleKeeps

LEMMA StageTurnsKeeps ==
  ASSUME SeatInv, StageTurns
  PROVE  SeatInv'
<1> DEFINE r == [resume EXCEPT !.seen = TRUE, !.idle = ~@]
<1>1. Settle(lobby, r, joins, profile, spent.visits) /\ seats' = seats
  BY DEF StageTurns
<1>2. IsLobby(lobby) /\ IsResume(r) /\ r.profile = resume.profile /\ spent.visits \in Nat
  <2>1. r = [[resume EXCEPT !.seen = TRUE] EXCEPT !.idle = ~resume.idle]
    BY Shapes DEF IsResume
  <2> DEFINE r1 == [resume EXCEPT !.seen = TRUE]
  <2>2. IsResume(r1) /\ r1.profile = resume.profile
    BY Shapes, FieldsKeepShape
  <2> HIDE DEF r1, r
  <2>3. IsResume(r) /\ r.profile = resume.profile
    BY <2>1, <2>2, FieldsKeepShape DEF r1
  <2> QED  BY <2>3, Shapes
<1>3. profile.id = 0 => profile = NoProfile /\ lobby.editing = TRUE /\ resume.profile = NoProfile
  BY Shapes
<1>4. \A j \in joins : IsJoin(j) /\ j.id # 0 /\ j.id = profile.id
  BY Shapes
<1> HIDE DEF r
<1> QED  BY <1>1, <1>2, <1>3, <1>4, SettleKeeps

LEMMA FailsKeeps ==
  ASSUME SeatInv, NEW j \in joins, Fails(j)
  PROVE  SeatInv'
<1> DEFINE l == [lobby EXCEPT !.connected = FALSE]
           r == Disconnected(resume)
<1>1. PICK stored \in {profile} \union {[id |-> j.id, nick |-> s.nick] : s \in SeatsOf(j.id)} :
         Settle(l, r, Cancelled(joins \ {j}), stored, spent.visits) /\ seats' = seats
  BY DEF Fails
<1>2. IsLobby(l) /\ IsResume(r) /\ spent.visits \in Nat
  BY Shapes, FieldsKeepShape DEF Disconnected
<1>3. stored.id = profile.id /\ stored.id # 0
  BY <1>1 DEF SeatInv, OneId
<1>4. \A k \in Cancelled(joins \ {j}) : IsJoin(k) /\ k.id # 0 /\ k.id = profile.id
  BY CancelledJoins
<1> HIDE DEF l, r
<1> QED  BY <1>1, <1>2, <1>3, <1>4, SettleKeeps

\* The server gives the one id a seat only when it has none.
LEMMA ReachKeeps ==
  ASSUME SeatInv, NEW j \in joins, ReachServer(j)
  PROVE  SeatInv'
<1>1. /\ \/ seats' = seats
         \/ /\ \A s \in seats : s.id # j.id
            /\ seats' = seats \union {[id |-> j.id, nick |-> j.nick]}
      /\ profile' = profile /\ lobby' = lobby /\ resume' = resume /\ spent' = spent
  BY DEF ReachServer, SeatsOf
<1>2. PICK outcome : joins' = (joins \ {j}) \union {[j EXCEPT !.outcome = outcome]}
  BY DEF ReachServer
<1>3. j.id # 0 /\ j.id = profile.id /\ IsJoin(j)
  BY DEF SeatInv, OneId, JoiningTypeOK
<1>4. IsJoin([j EXCEPT !.outcome = outcome]) /\ [j EXCEPT !.outcome = outcome].id = j.id
  BY <1>3 DEF IsJoin
<1>5. JoiningTypeOK'
  BY <1>1, <1>2, <1>4 DEF SeatInv, JoiningTypeOK
<1>6. OneId'
  <2>1. \A k \in joins' : k.id # 0 /\ k.id = profile'.id
    BY <1>1, <1>2, <1>3, <1>4 DEF SeatInv, OneId
  <2>2. \A s \in seats' : s.id \in {0, profile'.id}
    BY <1>1, <1>3 DEF SeatInv, OneId
  <2> QED  BY <2>1, <2>2 DEF OneId
<1>7. OneSeat'
  BY <1>1, <1>3 DEF SeatInv, OneId, OneSeat
<1> QED  BY <1>1, <1>5, <1>6, <1>7 DEF SeatInv, NobodyJoinsUnnamed

LEMMA ReplyKeeps ==
  ASSUME SeatInv, NEW j \in joins, Seated(j) \/ Rejected(j) \/ Forgotten(j)
  PROVE  SeatInv'
<1>1. /\ joins' = joins \ {j} /\ seats' = seats /\ resume' = resume /\ spent' = spent
      /\ profile' = profile \/ \E s \in SeatsOf(j.id) : profile' = [id |-> j.id, nick |-> s.nick]
  BY DEF Seated, Rejected, Forgotten
<1>2. j.id # 0 /\ j.id = profile.id
  BY DEF SeatInv, OneId
<1>3. profile'.id = profile.id /\ profile'.id # 0
  BY <1>1, <1>2
<1>4. IsLobby(lobby')
  BY DEF Seated, Rejected, Forgotten, SeatInv, JoiningTypeOK, IsLobby
<1>5. JoiningTypeOK'
  BY <1>1, <1>3, <1>4 DEF SeatInv, JoiningTypeOK
<1> QED  BY <1>1, <1>3, <1>5 DEF SeatInv, OneId, NobodyJoinsUnnamed, OneSeat
-----------------------------------------------------------------------------
LEMMA SeatInvStep == SeatInv /\ [JoiningNext]_joiningVars => SeatInv'
<1>1. ASSUME SeatInv, UNCHANGED joiningVars  PROVE SeatInv'
  BY <1>1 DEF joiningVars, SeatInv, JoiningTypeOK, OneId, NobodyJoinsUnnamed, OneSeat
<1> QED  BY <1>1, SubmitKeeps, RetryAndEditKeep, RevisitKeeps, StageTurnsKeeps, FailsKeeps, ReachKeeps,
            ReplyKeeps DEF JoiningNext

\* OneSeat: for any names taken by others, any number of presses, loads and
\* joins lost, late or sent again, the browser has one participant in the session
\* (useParticipantJoinController, usePlayerSessionRecovery and the store's Join).
THEOREM BrowserHasOneSeat == JoiningSpec => []OneSeat
<1>1. SeatInv => OneSeat
  BY DEF SeatInv
<1> QED  BY <1>1, SeatInvInit, SeatInvStep, PTL DEF JoiningSpec
-----------------------------------------------------------------------------
(* The answer of a participant.                                            *)

IsAttempt(a) ==
  /\ a = [request |-> a.request, choice |-> a.choice] /\ a.request \in Nat
  /\ a.request = 0 => a = NoAttempt
IsPost(p) ==
  /\ p = [request |-> p.request, choice |-> p.choice, run |-> p.run, touch |-> p.touch,
          n |-> p.n, reached |-> p.reached, told |-> p.told]
  /\ p.request \in Nat \ {0} /\ p.run \in Runs /\ p.touch \in 0..touches
  /\ p.reached \in {"no", "stored", "refused"}
IsPanel(c) ==
  /\ c = [run |-> c.run, submit |-> c.submit, left |-> c.left, choice |-> c.choice,
          pending |-> c.pending, inflight |-> c.inflight, restored |-> c.restored]
  /\ IsAttempt(c.pending)
IsStore(k) ==
  /\ k \in [Runs -> {k[r] : r \in Runs}]
  /\ \A r \in Runs : /\ k[r] = [pending |-> k[r].pending, choice |-> k[r].choice]
                     /\ IsAttempt(k[r].pending)
AnsweringTypeOK ==
  /\ asked = [run |-> asked.run, open |-> asked.open] /\ asked.run \in 0..MaxRuns
  /\ responses \in [Runs -> {responses[r] : r \in Runs}]
  /\ \A s \in coming : s = [run |-> s.run, responded |-> s.responded]
  /\ IsPanel(panel) /\ touches \in Nat
  /\ IsStore(kept)
  /\ IsFiniteSet(posts) /\ \A p \in posts : IsPost(p)

\* The tab's run is one the presenter has opened, and what is on its way to the
\* tab is of that run, of a later one, or of none.
RunsGoForward ==
  /\ asked.open => asked.run # 0
  /\ panel.run \in 0..asked.run
  /\ \A s \in coming : s.run \in 0..asked.run /\ (s.run = 0 \/ s.run >= panel.run)
  /\ \A p \in posts : p.told = "waiting" => Mounted /\ p.run <= panel.run

\* What says that an answer was stored, a reply or a snapshot, says so of a run
\* whose answer is stored.
StoredIsKnown ==
  /\ \A p \in posts : p.reached = "stored" => responses[p.run] # NoAttempt
  /\ \A s \in coming : s.responded => s.run # 0 /\ responses[s.run] # NoAttempt
  /\ panel.submit = "sent" => Mounted /\ responses[panel.run] # NoAttempt

\* The time of a panel is over only when the server's is.
GaveUpAfterClose ==
  /\ panel.submit = "expired" => ~panel.left
  /\ ~panel.left => ~Taking(panel.run)

Current(p, r) == p.run = r /\ p.touch = touches
\* At most one answer to the question on the screen is awaited, and while it is,
\* the selection is locked.
OneAwaited ==
  \A p \in posts : p.told = "waiting" /\ Mounted /\ p.run = panel.run =>
    /\ panel.submit \in {"sending", "sent"} /\ p.touch = touches
    /\ \A q \in posts : q.told = "waiting" /\ q.run = panel.run => q = p
\* sessionStorage has the key of what was sent since the selection last changed,
\* or nothing that could be sent under another.
KeptIsCurrent ==
  \A p \in posts : p.touch = touches =>
    /\ kept[p.run].pending # NoAttempt => kept[p.run].pending.request = p.request
    /\ kept[p.run].pending = NoAttempt => kept[p.run].choice = "none"
\* So has the panel; the two have the same key while both have one.
PanelIsCurrent ==
  Mounted =>
    /\ \A p \in posts : Current(p, panel.run) =>
         /\ panel.pending # NoAttempt => panel.pending.request = p.request
         /\ panel.submit = "idle" => panel.choice = "none"
    /\ (panel.pending # NoAttempt /\ kept[panel.run].pending # NoAttempt)
         => panel.pending.request = kept[panel.run].pending.request
    /\ panel.submit \in {"sending", "sent", "retryable"} =>
         kept[panel.run].pending # NoAttempt \/ kept[panel.run].choice = "none"

AnswerParts ==
  /\ form = "choice"
  /\ AnsweringTypeOK /\ RunsGoForward /\ StoredIsKnown /\ GaveUpAfterClose
  /\ OneAwaited /\ KeptIsCurrent /\ PanelIsCurrent /\ OneKeyPerAnswer
AnswerInv == form = "choice" => AnswerParts

\* Runs are counted from 1.
LEMMA RunsAreCounted == /\ MaxRuns \in Nat /\ Runs \subseteq Nat \ {0}
                        /\ \A r \in Nat \ {0} : r <= MaxRuns => r \in Runs
  BY AnsweringAssumption DEF Runs

\* Nothing is asked, shown or sent at first.
LEMMA AnswerInvInit == AnsweringInit => AnswerInv
<1> SUFFICES ASSUME AnsweringInit, form = "choice"  PROVE AnswerParts
  BY DEF AnswerInv
<1>0. IsAttempt(NoAttempt)
  BY DEF IsAttempt, NoAttempt
<1>1. AnsweringTypeOK
  <2>1. IsPanel(panel)
    BY <1>0 DEF AnsweringInit, Absent, IsPanel
  <2>2. IsFiniteSet(posts) /\ \A p \in posts : IsPost(p)
    BY FS_EmptySet DEF AnsweringInit
  <2>3. asked = [run |-> asked.run, open |-> asked.open] /\ asked.run \in 0..MaxRuns
    BY AnsweringAssumption DEF AnsweringInit
  <2>4. /\ \A r \in Runs : kept[r] = [pending |-> NoAttempt, choice |-> "none"]
        /\ kept \in [Runs -> {kept[r] : r \in Runs}]
        /\ responses \in [Runs -> {responses[r] : r \in Runs}]
    BY DEF AnsweringInit
  <2> QED  BY <1>0, <2>1, <2>2, <2>3, <2>4 DEF AnsweringTypeOK, AnsweringInit, IsStore
<1>2. panel.run = 0 /\ panel.submit = "idle" /\ asked.run = 0 /\ asked.open = FALSE /\ posts = {} /\ coming = {}
  BY DEF AnsweringInit, Absent
<1>3. RunsGoForward /\ StoredIsKnown /\ GaveUpAfterClose
  BY <1>2 DEF RunsGoForward, StoredIsKnown, GaveUpAfterClose, Taking
<1>4. OneAwaited /\ KeptIsCurrent /\ PanelIsCurrent /\ OneKeyPerAnswer
  BY <1>2 DEF OneAwaited, KeptIsCurrent, PanelIsCurrent, OneKeyPerAnswer, Mounted
<1> QED  BY <1>1, <1>3, <1>4 DEF AnswerParts
-----------------------------------------------------------------------------
(* What the changes of posts have in common.                               *)

Follows(q, o) ==
  /\ q.request = o.request /\ q.run = o.run /\ q.touch = o.touch
  /\ q.told = "waiting" => o.told = "waiting"
PostsFollow ==
  /\ IsFiniteSet(posts')
  /\ \A q \in posts' : IsPost(q)' /\ \E o \in posts : Follows(q, o)

\* One post in another state.
LEMMA ReplacedFollows ==
  ASSUME AnswerParts, touches' = touches, NEW p \in posts, NEW new,
         new = [request |-> p.request, choice |-> p.choice, run |-> p.run, touch |-> p.touch,
                n |-> p.n, reached |-> new.reached, told |-> new.told],
         new.reached \in {"no", "stored", "refused"},
         new.told = "waiting" => p.told = "waiting", posts' = (posts \ {p}) \cup {new}
  PROVE  /\ PostsFollow /\ Follows(new, p)
         /\ \A q \in posts' : q.told = "waiting" => q = new \/ (q \in posts /\ q # p)
<1>1. IsPost(p)
  BY DEF AnswerParts, AnsweringTypeOK
<1>3. IsPost(new)' /\ Follows(new, p)
  BY <1>1 DEF IsPost, Follows
<1>4. \A q \in posts : IsPost(q)' /\ Follows(q, q)
  BY DEF AnswerParts, AnsweringTypeOK, IsPost, Follows
<1>5. IsFiniteSet(posts')
  BY FS_AddElement, FS_RemoveElement DEF AnswerParts, AnsweringTypeOK
<1> QED  BY <1>3, <1>4, <1>5 DEF PostsFollow

\* The posts stay as they are, and the count of changes may grow.
LEMMA UnchangedFollow ==
  ASSUME AnswerParts, touches' \in Nat, touches <= touches', UNCHANGED posts
  PROVE  PostsFollow
<1>1. \A q \in posts : IsPost(q)' /\ Follows(q, q)
  BY DEF AnswerParts, AnsweringTypeOK, IsPost, Follows
<1> QED  BY <1>1 DEF PostsFollow, AnswerParts, AnsweringTypeOK

\* The handlers of a page that went away hear nothing.
LEMMA DeafFollow ==
  ASSUME AnswerParts, UNCHANGED touches, posts' = Deaf
  PROVE  PostsFollow /\ \A q \in posts' : q.told # "waiting"
<1> DEFINE f == [p \in posts |-> [p EXCEPT !.told = "unheard"]]
<1>1. f \in Surjection(posts, Deaf)
  BY DEF Surjection, Deaf
<1>2. IsFiniteSet(Deaf)
  BY <1>1, FS_Surjection DEF AnswerParts, AnsweringTypeOK
<1>3. ASSUME NEW q \in Deaf
      PROVE  q.told # "waiting" /\ IsPost(q)' /\ \E o \in posts : Follows(q, o)
  <2>1. PICK p \in posts : q = [p EXCEPT !.told = "unheard"]
    BY DEF Deaf
  <2>2. IsPost(p)
    BY DEF AnswerParts, AnsweringTypeOK
  <2>3. q = [request |-> p.request, choice |-> p.choice, run |-> p.run, touch |-> p.touch,
             n |-> p.n, reached |-> p.reached, told |-> "unheard"]
    BY <2>1, <2>2 DEF IsPost
  <2>4. IsPost(q)' /\ Follows(q, p) /\ q.told = "unheard"
    BY <2>2, <2>3 DEF IsPost, Follows
  <2> QED  BY <2>4
<1> QED  BY <1>2, <1>3 DEF PostsFollow

NothingKept == [pending |-> NoAttempt, choice |-> "none"]
\* Nothing is sent, and sessionStorage keeps what it has or forgets it.
LEMMA NothingSent ==
  ASSUME AnswerParts, PostsFollow, touches' = touches,
         \A r \in Runs : kept'[r] \in {kept[r], NothingKept}
  PROVE  OneKeyPerAnswer' /\ KeptIsCurrent'
<1>0. NothingKept.pending = NoAttempt /\ NothingKept.choice = "none"
  BY DEF NothingKept
<1>1. OneKeyPerAnswer'
  <2> SUFFICES ASSUME NEW q1 \in posts', NEW q2 \in posts', q1.run = q2.run, q1.touch = q2.touch
               PROVE  q1.request = q2.request
    BY DEF OneKeyPerAnswer
  <2>1. PICK o1 \in posts : Follows(q1, o1)
    BY DEF PostsFollow
  <2>2. PICK o2 \in posts : Follows(q2, o2)
    BY DEF PostsFollow
  <2> QED  BY <2>1, <2>2 DEF Follows, AnswerParts, OneKeyPerAnswer
<1>2. ASSUME NEW q \in posts', q.touch = touches'
      PROVE  /\ kept'[q.run].pending # NoAttempt => kept'[q.run].pending.request = q.request
             /\ kept'[q.run].pending = NoAttempt => kept'[q.run].choice = "none"
  <2>1. PICK o \in posts : Follows(q, o)
    BY DEF PostsFollow
  <2>2. o.run = q.run /\ o.request = q.request /\ o.touch = touches /\ o.run \in Runs
    BY <1>2, <2>1 DEF Follows, AnswerParts, AnsweringTypeOK, IsPost
  <2>3. kept'[q.run] \in {kept[q.run], NothingKept}
    BY <2>2
  <2> QED  BY <1>0, <2>2, <2>3 DEF AnswerParts, KeptIsCurrent
<1> QED  BY <1>1, <1>2 DEF KeptIsCurrent

\* What the panel relies on, while it and sessionStorage stay as they are.
LEMMA PanelStays ==
  ASSUME AnswerParts, PostsFollow, touches' = touches, UNCHANGED <<panel, kept>>
  PROVE  PanelIsCurrent'
<1> SUFFICES ASSUME Mounted, NEW q \in posts', q.run = panel.run, q.touch = touches
             PROVE  /\ panel.pending # NoAttempt => panel.pending.request = q.request
                    /\ panel.submit = "idle" => panel.choice = "none"
  BY DEF PanelIsCurrent, Mounted, Current, AnswerParts
<1>1. PICK o \in posts : Follows(q, o)
  BY DEF PostsFollow
<1> QED  BY <1>1 DEF Follows, AnswerParts, PanelIsCurrent, Current

\* Steps of the server and of the network that leave the tab alone.
LEMMA ServerKeeps ==
  ASSUME AnswerParts, OpenNext \/ CloseRun \/ ReadSnapshot \/ LinkLost
  PROVE  AnswerParts'
<1>1. UNCHANGED <<form, responses, panel, kept, posts, touches>> /\ touches \in Nat
  BY DEF OpenNext, CloseRun, ReadSnapshot, LinkLost, AnswerParts, AnsweringTypeOK
<1>2. /\ asked' = [run |-> asked'.run, open |-> asked'.open] /\ asked'.run \in 0..MaxRuns
      /\ \/ asked' = asked
         \/ asked'.run = asked.run /\ asked.open = TRUE /\ asked'.open = FALSE
         \/ asked'.run = asked.run + 1
      /\ asked'.open => asked'.run # 0
  BY AnsweringAssumption DEF OpenNext, CloseRun, ReadSnapshot, LinkLost, AnswerParts, AnsweringTypeOK,
     RunsGoForward
<1>3. \A s \in coming' : /\ s = [run |-> s.run, responded |-> s.responded]
                         /\ \/ s \in coming
                            \/ s.run = 0 /\ s.responded = FALSE
                            \/ /\ s.run = asked.run /\ asked' = asked /\ asked.open
                               /\ s.responded => responses[s.run] # NoAttempt
  <2>1. CASE ReadSnapshot
    <3>1. /\ asked' = asked
          /\ coming' = {IF asked.open THEN [run |-> asked.run, responded |-> responses[asked.run] # NoAttempt]
                        ELSE NotAsked}
      BY <2>1 DEF ReadSnapshot
    <3>2. CASE asked.open
      <4> DEFINE has == responses[asked.run] # NoAttempt
      <4>1. coming' = {[run |-> asked.run, responded |-> has]} /\ (has => responses[asked.run] # NoAttempt)
        BY <3>1, <3>2
      <4> HIDE DEF has
      <4> QED  BY <3>1, <3>2, <4>1
    <3>3. CASE ~asked.open
      <4>1. coming' = {NotAsked}
        BY <3>1, <3>3
      <4> QED  BY <4>1 DEF NotAsked
    <3> QED  BY <3>2, <3>3
  <2>2. CASE coming' \subseteq coming
    BY <2>2 DEF AnswerParts, AnsweringTypeOK
  <2> QED  BY <2>1, <2>2 DEF OpenNext, CloseRun, LinkLost
<1>4. PostsFollow
  BY <1>1, UnchangedFollow
<1>5. OneKeyPerAnswer' /\ KeptIsCurrent' /\ PanelIsCurrent'
  BY <1>1, <1>4, NothingSent, PanelStays
<1>6. OneAwaited'
  BY <1>1 DEF AnswerParts, OneAwaited, Mounted
<1>7. AnsweringTypeOK'
  BY <1>1, <1>2, <1>3 DEF AnswerParts, AnsweringTypeOK, IsPost
<1>8. asked.run \in Nat /\ asked'.run \in Nat /\ asked.run <= asked'.run /\ panel.run \in 0..asked.run
  BY <1>2, AnsweringAssumption DEF AnswerParts, AnsweringTypeOK, RunsGoForward
<1>9. RunsGoForward'
  <2>1. \A s \in coming' : s.run \in 0..asked'.run /\ (s.run = 0 \/ s.run >= panel.run)
    BY <1>3, <1>8 DEF AnswerParts, RunsGoForward, NotAsked
  <2> QED  BY <1>1, <1>2, <1>8, <2>1 DEF AnswerParts, RunsGoForward, Mounted
<1>10. StoredIsKnown'
  BY <1>1, <1>3 DEF AnswerParts, StoredIsKnown, RunsGoForward, NotAsked, Mounted
<1>11. GaveUpAfterClose'
  BY <1>1, <1>2, <1>8 DEF AnswerParts, GaveUpAfterClose, Taking
<1> QED  BY <1>1, <1>5, <1>6, <1>7, <1>9, <1>10, <1>11 DEF AnswerParts

\* A request reaches the server.
LEMMA AnswerReachKeeps == ASSUME AnswerParts, NEW p \in posts, Reach(p)  PROVE AnswerParts'
<1> DEFINE new == [p EXCEPT !.reached = Verdict(p)]
<1>0. IsPost(p)
  BY DEF AnswerParts, AnsweringTypeOK
<1>1. /\ UNCHANGED <<form, asked, coming, panel, kept, touches>> /\ touches \in Nat
      /\ posts' = (posts \ {p}) \cup {new}
  BY DEF Reach, AnswerParts, AnsweringTypeOK
<1>2. new = [request |-> p.request, choice |-> p.choice, run |-> p.run, touch |-> p.touch,
             n |-> p.n, reached |-> Verdict(p), told |-> p.told]
  BY <1>0 DEF IsPost
<1> HIDE DEF new
<1>a. new.reached = Verdict(p) /\ new.told = p.told /\ Verdict(p) \in {"stored", "refused"}
  BY <1>2 DEF Verdict
<1>3. /\ PostsFollow /\ Follows(new, p) /\ new.reached = Verdict(p) /\ new.told = p.told
      /\ \A q \in posts' : q.told = "waiting" => q = new \/ (q \in posts /\ q # p)
  BY <1>1, <1>2, <1>a, ReplacedFollows
<1>4. OneKeyPerAnswer' /\ KeptIsCurrent' /\ PanelIsCurrent'
  BY <1>1, <1>3, NothingSent, PanelStays
<1>5. /\ responses' \in [Runs -> {responses'[r] : r \in Runs}]
      /\ \A r \in Runs : responses[r] # NoAttempt => responses'[r] # NoAttempt
      /\ Verdict(p) = "stored" => responses'[p.run] # NoAttempt
  <2>1. CASE Verdict(p) = "stored"
    <3>1. responses' = [responses EXCEPT ![p.run] = [request |-> p.request, choice |-> p.choice]]
      BY <2>1 DEF Reach
    <3>2. [request |-> p.request, choice |-> p.choice] # NoAttempt /\ p.run \in Runs
      BY <1>0 DEF IsPost, NoAttempt
    <3> QED  BY <3>1, <3>2 DEF AnswerParts, AnsweringTypeOK
  <2>2. CASE Verdict(p) # "stored"
    BY <2>2 DEF Reach, AnswerParts, AnsweringTypeOK
  <2> QED  BY <2>1, <2>2
<1>6. AnsweringTypeOK'
  BY <1>1, <1>3, <1>5 DEF AnswerParts, AnsweringTypeOK, PostsFollow
<1>7. RunsGoForward'
  BY <1>1, <1>3 DEF AnswerParts, RunsGoForward, Follows, Mounted
<1>8. StoredIsKnown'
  <2>1. \A s \in coming : s.run # 0 => s.run \in Runs
    BY AnsweringAssumption DEF AnswerParts, AnsweringTypeOK, RunsGoForward, Runs
  <2>2. panel.run # 0 => panel.run \in Runs
    BY AnsweringAssumption DEF AnswerParts, AnsweringTypeOK, RunsGoForward, Runs
  <2>3. \A q \in posts' : q.reached = "stored" => responses'[q.run] # NoAttempt
    <3>1. ASSUME NEW q \in posts, q.reached = "stored"  PROVE responses'[q.run] # NoAttempt
      BY <3>1, <1>5 DEF AnswerParts, StoredIsKnown, AnsweringTypeOK, IsPost
    <3>2. new.reached = "stored" => responses'[new.run] # NoAttempt
      BY <1>3, <1>5 DEF Follows
    <3> QED  BY <1>1, <3>1, <3>2
  <2> QED  BY <1>1, <1>5, <2>1, <2>2, <2>3 DEF AnswerParts, StoredIsKnown, Mounted
<1>9. GaveUpAfterClose'
  BY <1>1 DEF AnswerParts, GaveUpAfterClose, Taking
<1>10. OneAwaited'
  <2> SUFFICES ASSUME NEW q \in posts', q.told = "waiting", Mounted, q.run = panel.run
               PROVE  /\ panel.submit \in {"sending", "sent"} /\ q.touch = touches
                      /\ \A o \in posts' : o.told = "waiting" /\ o.run = panel.run => o = q
    BY <1>1 DEF OneAwaited, Mounted
  <2>1. CASE q = new
    BY <2>1, <1>3 DEF AnswerParts, OneAwaited, Follows
  <2>2. CASE q \in posts /\ q # p
    BY <2>2, <1>3 DEF AnswerParts, OneAwaited, Follows
  <2> QED  BY <2>1, <2>2, <1>3
<1> QED  BY <1>1, <1>4, <1>6, <1>7, <1>8, <1>9, <1>10 DEF AnswerParts

\* A page that is gone: no panel, and nobody who waits.
LEMMA AnswerGoneKeeps ==
  ASSUME AnswerParts, panel' = Absent, posts' = Deaf, coming' = {},
         UNCHANGED <<form, asked, responses, kept, touches>>
  PROVE  AnswerParts'
<1>1. PostsFollow /\ \A q \in posts' : q.told # "waiting"
  BY DeafFollow
<1>2. OneKeyPerAnswer' /\ KeptIsCurrent'
  BY <1>1, NothingSent
<1>3. /\ panel'.run = 0 /\ panel'.submit = "idle" /\ panel'.left = FALSE
      /\ IsPanel(panel')
  BY DEF Absent, IsPanel, IsAttempt, NoAttempt
<1>4. AnsweringTypeOK'
  BY <1>1, <1>3 DEF AnswerParts, AnsweringTypeOK, PostsFollow
<1>5. asked.run \in Nat /\ touches \in Nat
  BY AnsweringAssumption DEF AnswerParts, AnsweringTypeOK
<1>6. RunsGoForward'
  BY <1>1, <1>3, <1>5 DEF AnswerParts, RunsGoForward
<1>7. StoredIsKnown'
  <2>1. \A q \in posts' : q.reached = "stored" => responses[q.run] # NoAttempt
    <3> SUFFICES ASSUME NEW p \in posts
                 PROVE  LET q == [p EXCEPT !.told = "unheard"]
                        IN  q.reached = "stored" => responses[q.run] # NoAttempt
      BY DEF Deaf
    <3>1. [p EXCEPT !.told = "unheard"].reached = p.reached /\ [p EXCEPT !.told = "unheard"].run = p.run
      BY DEF AnswerParts, AnsweringTypeOK, IsPost
    <3> QED  BY <3>1 DEF AnswerParts, StoredIsKnown
  <2> QED  BY <1>3, <2>1 DEF StoredIsKnown
<1>8. GaveUpAfterClose' /\ OneAwaited' /\ PanelIsCurrent'
  BY <1>1, <1>3 DEF AnswerParts, GaveUpAfterClose, RunsGoForward, Taking, OneAwaited, PanelIsCurrent, Mounted
<1> QED  BY <1>2, <1>4, <1>6, <1>7, <1>8 DEF AnswerParts

\* An attempt leaves for the run on the screen: it has the key of what was sent
\* since the selection last changed, if anything was.
Sends(a) ==
  /\ a # NoAttempt /\ IsAttempt(a)
  /\ posts' = posts \cup {PostOf(a, panel'.run)} /\ UNCHANGED touches
  /\ panel'.run \in Runs /\ panel'.pending = a /\ panel'.submit = "sending"
  /\ \A p \in posts : Current(p, panel'.run) => p.request = a.request
  /\ \A p \in posts : p.run = panel'.run => p.told # "waiting"
  /\ \A r \in Runs \ {panel'.run} : kept'[r] = kept[r]
  /\ kept'[panel'.run].pending # NoAttempt => kept'[panel'.run].pending.request = a.request
  /\ kept'[panel'.run].pending = NoAttempt => kept'[panel'.run].choice = "none"

\* What is sent has the one key of its selection: the properties of posts, of
\* sessionStorage and of the panel.
LEMMA SendKeepsKeys ==
  ASSUME AnswerParts, NEW a, Sends(a), form' = form
  PROVE  /\ OneAwaited' /\ KeptIsCurrent' /\ PanelIsCurrent' /\ OneKeyPerAnswer'
         /\ IsFiniteSet(posts') /\ \A q \in posts' : IsPost(q)'
         /\ \A q \in posts' : q \in posts \/ (q.run = panel'.run /\ q.reached = "no")
<1>0. PICK r \in Runs : r = panel'.run
  BY DEF Sends
<1>a. PICK new : new = PostOf(a, r)
  OBVIOUS
<1>1. /\ new = [request |-> a.request, choice |-> a.choice, run |-> r, touch |-> touches,
               n |-> Cardinality(posts) + 1, reached |-> "no", told |-> "waiting"]
      /\ posts' = posts \cup {new} /\ touches' = touches
  BY <1>0, <1>a DEF PostOf, Sends
<1>2. /\ new.request = a.request /\ new.run = r /\ new.touch = touches /\ new.told = "waiting"
      /\ new.reached = "no"
  BY <1>1
<1>3. a.request \in Nat \ {0}
  BY DEF Sends, IsAttempt
<1>4. IsFiniteSet(posts') /\ \A q \in posts' : IsPost(q)'
  <2>1. IsFiniteSet(posts')
    BY <1>1, FS_AddElement DEF AnswerParts, AnsweringTypeOK
  <2>2. IsPost(new)'
    BY <1>1, <1>3 DEF IsPost, AnswerParts, AnsweringTypeOK
  <2>3. \A q \in posts : IsPost(q)'
    BY <1>1 DEF IsPost, AnswerParts, AnsweringTypeOK
  <2> QED  BY <1>1, <2>1, <2>2, <2>3
<1>5. \A q \in posts : q.run = r /\ q.touch = touches => q.request = a.request
  BY <1>0 DEF Sends, Current
<1>6. OneKeyPerAnswer'
  BY <1>1, <1>2, <1>5 DEF OneKeyPerAnswer, AnswerParts
<1>7. KeptIsCurrent'
  <2> SUFFICES ASSUME NEW q \in posts', q.touch = touches
               PROVE  /\ kept'[q.run].pending # NoAttempt => kept'[q.run].pending.request = q.request
                      /\ kept'[q.run].pending = NoAttempt => kept'[q.run].choice = "none"
    BY <1>1 DEF KeptIsCurrent
  <2>1. CASE q.run = r
    <3>1. q.request = a.request
      BY <2>1, <1>1, <1>2, <1>5
    <3> QED  BY <2>1, <3>1, <1>0 DEF Sends
  <2>2. CASE q.run # r
    <3>1. q \in posts /\ q.run \in Runs
      BY <2>2, <1>1, <1>2 DEF AnswerParts, AnsweringTypeOK, IsPost
    <3>2. kept'[q.run] = kept[q.run]
      BY <2>2, <3>1, <1>0 DEF Sends
    <3> QED  BY <3>1, <3>2 DEF AnswerParts, KeptIsCurrent
  <2> QED  BY <2>1, <2>2
<1>8. PanelIsCurrent'
  <2>1. \A q \in posts' : q.run = r /\ q.touch = touches => q.request = a.request
    BY <1>1, <1>2, <1>5
  <2>2. panel'.pending = a /\ panel'.submit = "sending"
    BY DEF Sends
  <2>3. /\ kept'[r].pending # NoAttempt => kept'[r].pending.request = a.request
        /\ kept'[r].pending = NoAttempt => kept'[r].choice = "none"
    BY <1>0 DEF Sends
  <2> QED  BY <1>0, <1>1, <2>1, <2>2, <2>3 DEF PanelIsCurrent, Current
<1>9. OneAwaited'
  BY <1>0, <1>1, <1>2 DEF OneAwaited, Sends
<1> QED  BY <1>0, <1>1, <1>2, <1>4, <1>6, <1>7, <1>8, <1>9

\* The rest of what a step that sends keeps.
LEMMA AnswerSendKeeps ==
  ASSUME AnswerParts, NEW a, Sends(a), UNCHANGED <<form, asked, responses>>,
         coming' \in {coming, {}}, IsPanel(panel'),
         panel'.run <= asked.run, panel.run <= panel'.run,
         panel'.run = panel.run \/ coming' = {}, panel'.left = TRUE,
         IsStore(kept')
  PROVE  AnswerParts'
<1>0. /\ panel'.run \in Runs /\ panel'.submit = "sending" /\ UNCHANGED touches
      /\ asked.run \in Nat /\ panel.run \in Nat /\ panel'.run \in Nat \ {0}
  BY RunsAreCounted DEF Sends, AnswerParts, AnsweringTypeOK, RunsGoForward
<1>1. /\ OneAwaited' /\ KeptIsCurrent' /\ PanelIsCurrent' /\ OneKeyPerAnswer'
      /\ IsFiniteSet(posts') /\ \A q \in posts' : IsPost(q)'
      /\ \A q \in posts' : q \in posts \/ (q.run = panel'.run /\ q.reached = "no")
  BY SendKeepsKeys
<1>2. AnsweringTypeOK'
  BY <1>0, <1>1 DEF AnswerParts, AnsweringTypeOK
<1>3. RunsGoForward'
  <2>1. \A q \in posts' : q.told = "waiting" => q.run <= panel'.run
    <3> SUFFICES ASSUME NEW q \in posts', q.told = "waiting"  PROVE q.run <= panel'.run
      OBVIOUS
    <3>1. CASE q \in posts
      <4>1. q.run <= panel.run /\ q.run \in Nat
        BY <3>1, RunsAreCounted DEF AnswerParts, RunsGoForward, AnsweringTypeOK, IsPost
      <4> QED  BY <4>1, <1>0
    <3>2. CASE q.run = panel'.run
      BY <3>2, <1>0
    <3> QED  BY <3>1, <3>2, <1>1
  <2> QED  BY <1>0, <2>1 DEF AnswerParts, RunsGoForward, Mounted
<1>4. StoredIsKnown'
  BY <1>0, <1>1 DEF AnswerParts, StoredIsKnown
<1>5. GaveUpAfterClose'
  BY <1>0 DEF GaveUpAfterClose
<1> QED  BY <1>1, <1>2, <1>3, <1>4, <1>5 DEF AnswerParts

\* The retry sends what is pending, which has the key of the first try.
LEMMA AnswerRetryKeeps == ASSUME AnswerParts, Retry  PROVE AnswerParts'
<1>1. /\ panel.run # 0 /\ panel.left /\ panel.submit = "retryable" /\ panel.pending # NoAttempt
      /\ panel' = Sending(panel, panel.pending)
      /\ posts' = posts \cup {PostOf(panel.pending, panel.run)}
      /\ UNCHANGED <<form, asked, responses, coming, linked, kept, touches>>
  BY DEF Retry, Mounted
<1>2. /\ IsPanel(panel) /\ panel.run \in Runs /\ panel.run <= asked.run /\ panel.run \in Nat
  BY <1>1, AnsweringAssumption DEF AnswerParts, AnsweringTypeOK, RunsGoForward, Runs
<1>3. /\ panel' = [run |-> panel.run, submit |-> "sending", left |-> panel.left, choice |-> panel.choice,
                   pending |-> panel.pending, inflight |-> panel.pending.request, restored |-> FALSE]
  BY <1>1, <1>2 DEF Sending, IsPanel
<1>4. /\ panel'.run = panel.run /\ panel'.submit = "sending" /\ panel'.pending = panel.pending
      /\ panel'.left = panel.left /\ IsPanel(panel')
  BY <1>2, <1>3 DEF IsPanel
<1>5. \A p \in posts : Current(p, panel.run) => p.request = panel.pending.request
  BY <1>1 DEF AnswerParts, PanelIsCurrent, Mounted
<1>6. \A p \in posts : p.run = panel.run => p.told # "waiting"
  BY <1>1 DEF AnswerParts, OneAwaited, Mounted
<1>7. /\ kept[panel.run].pending # NoAttempt => kept[panel.run].pending.request = panel.pending.request
      /\ kept[panel.run].pending = NoAttempt => kept[panel.run].choice = "none"
  BY <1>1 DEF AnswerParts, PanelIsCurrent, Mounted
<1>8. Sends(panel.pending)
  BY <1>1, <1>2, <1>4, <1>5, <1>6, <1>7 DEF Sends, IsPanel, Current
<1>9. panel'.left = TRUE
  BY <1>1, <1>4 DEF AnswerParts, AnsweringTypeOK
<1>10. IsStore(kept')
  BY <1>1 DEF AnswerParts, AnsweringTypeOK
<1> QED  BY <1>1, <1>2, <1>4, <1>8, <1>9, <1>10, AnswerSendKeeps

\* A first try: nothing was sent since the selection last changed.
LEMMA AnswerSubmitKeeps == ASSUME AnswerParts, Submit  PROVE AnswerParts'
<1>0. PICK a : a = [request |-> Cardinality(posts) + 1, choice |-> panel.choice]
  OBVIOUS
<1>1. /\ panel.run # 0 /\ panel.left /\ panel.submit = "idle" /\ panel.choice # "none"
      /\ panel' = Sending([panel EXCEPT !.pending = a], a)
      /\ kept' = [kept EXCEPT ![panel.run].pending = a]
      /\ posts' = posts \cup {PostOf(a, panel.run)}
      /\ UNCHANGED <<form, asked, responses, coming, linked, touches>>
  BY <1>0 DEF Submit, Mounted
<1>2. /\ IsPanel(panel) /\ panel.run \in Runs /\ panel.run <= asked.run /\ panel.run \in Nat
  BY <1>1, AnsweringAssumption DEF AnswerParts, AnsweringTypeOK, RunsGoForward, Runs
<1>a. a.request \in Nat \ {0} /\ IsAttempt(a) /\ a # NoAttempt
  BY <1>0, FS_CardinalityType DEF IsAttempt, NoAttempt, AnswerParts, AnsweringTypeOK
<1>3. /\ panel' = [run |-> panel.run, submit |-> "sending", left |-> panel.left, choice |-> panel.choice,
                   pending |-> a, inflight |-> a.request, restored |-> FALSE]
  <2>1. PICK c : c = [panel EXCEPT !.pending = a]
    OBVIOUS
  <2>2. c = [run |-> panel.run, submit |-> panel.submit, left |-> panel.left, choice |-> panel.choice,
             pending |-> a, inflight |-> panel.inflight, restored |-> panel.restored]
    BY <2>1, <1>2 DEF IsPanel
  <2>3. panel' = [c EXCEPT !.submit = "sending", !.inflight = a.request, !.restored = FALSE]
    BY <1>1, <2>1 DEF Sending
  <2> QED  BY <2>2, <2>3
<1>4. /\ panel'.run = panel.run /\ panel'.submit = "sending" /\ panel'.pending = a
      /\ panel'.left = panel.left /\ IsPanel(panel')
  BY <1>3, <1>a DEF IsPanel
<1>5. \A p \in posts : ~Current(p, panel.run)
  BY <1>1 DEF AnswerParts, PanelIsCurrent, Mounted
<1>6. \A p \in posts : p.run = panel.run => p.told # "waiting"
  BY <1>1 DEF AnswerParts, OneAwaited, Mounted
<1>7. /\ kept'[panel.run] = [pending |-> a, choice |-> kept[panel.run].choice]
      /\ \A r \in Runs \ {panel.run} : kept'[r] = kept[r]
      /\ kept' \in [Runs -> {kept'[r] : r \in Runs}]
  <2>1. PICK k : k = [kept[panel.run] EXCEPT !.pending = a]
    OBVIOUS
  <2>2. k = [pending |-> a, choice |-> kept[panel.run].choice]
    <3>1. kept[panel.run] = [pending |-> kept[panel.run].pending, choice |-> kept[panel.run].choice]
      BY <1>2 DEF AnswerParts, AnsweringTypeOK, IsStore
    <3> QED  BY <2>1, <3>1
  <2>3. kept' = [kept EXCEPT ![panel.run] = k]
    BY <1>1, <2>1
  <2>4. kept \in [Runs -> {kept[r] : r \in Runs}]
    BY DEF AnswerParts, AnsweringTypeOK, IsStore
  <2>5. kept'[panel.run] = k /\ \A r \in Runs \ {panel.run} : kept'[r] = kept[r]
    BY <2>3, <2>4, <1>2
  <2>6. kept' \in [Runs -> {kept'[r] : r \in Runs}]
    BY <2>3, <2>4
  <2> QED  BY <2>2, <2>5, <2>6
<1>8. Sends(a)
  BY <1>1, <1>2, <1>a, <1>4, <1>5, <1>6, <1>7 DEF Sends
<1>9. panel'.left = TRUE
  BY <1>1, <1>4 DEF AnswerParts, AnsweringTypeOK
<1>10. \A r \in Runs : /\ kept'[r] = [pending |-> kept'[r].pending, choice |-> kept'[r].choice]
                       /\ IsAttempt(kept'[r].pending)
  <2>1. ASSUME NEW r \in Runs, r # panel.run
        PROVE  /\ kept'[r] = [pending |-> kept'[r].pending, choice |-> kept'[r].choice]
               /\ IsAttempt(kept'[r].pending)
    BY <2>1, <1>7 DEF AnswerParts, AnsweringTypeOK, IsStore
  <2>2. /\ kept'[panel.run] = [pending |-> kept'[panel.run].pending, choice |-> kept'[panel.run].choice]
        /\ IsAttempt(kept'[panel.run].pending)
    BY <1>7, <1>a
  <2> QED  BY <2>1, <2>2
<1>11. UNCHANGED <<form, asked, responses>> /\ coming' = coming
  BY <1>1
<1>12. IsStore(kept')
  BY <1>7, <1>10 DEF IsStore
<1>13. /\ UNCHANGED <<form, asked, responses>> /\ coming' \in {coming, {}} /\ IsPanel(panel')
  BY <1>4, <1>11
<1>14. /\ panel'.run <= asked.run /\ panel.run <= panel'.run
       /\ panel'.run = panel.run \/ coming' = {}
  BY <1>2, <1>4
<1> QED  BY <1>8, <1>9, <1>12, <1>13, <1>14, AnswerSendKeeps

\* Steps that send nothing: what is left to show of the panel they leave.
LEMMA QuietKeeps ==
  ASSUME AnswerParts, PostsFollow, UNCHANGED <<form, asked, responses, touches>>,
         coming' \in {coming, {}}, IsPanel(panel'), IsStore(kept'),
         \A r \in Runs : kept'[r] \in {kept[r], NothingKept},
         panel'.run \in Runs, panel'.run <= asked.run, panel.run <= panel'.run,
         panel'.run = panel.run \/ coming' = {},
         \A q \in posts' : q.reached = "stored" => responses[q.run] # NoAttempt,
         panel'.submit = "sent" => responses[panel'.run] # NoAttempt,
         GaveUpAfterClose', OneAwaited', PanelIsCurrent'
  PROVE  AnswerParts'
<1>1. OneKeyPerAnswer' /\ KeptIsCurrent'
  BY NothingSent
<1>2. panel'.run \in Nat \ {0} /\ panel.run \in Nat /\ asked.run \in Nat
  BY RunsAreCounted DEF AnswerParts, AnsweringTypeOK, RunsGoForward
<1>3. AnsweringTypeOK'
  BY DEF AnswerParts, AnsweringTypeOK, PostsFollow
<1>4. RunsGoForward'
  <2>1. \A q \in posts' : q.told = "waiting" => q.run <= panel'.run
    <3> SUFFICES ASSUME NEW q \in posts', q.told = "waiting"  PROVE q.run <= panel'.run
      OBVIOUS
    <3>1. PICK o \in posts : Follows(q, o)
      BY DEF PostsFollow
    <3>2. q.run <= panel.run /\ q.run \in Nat
      BY <3>1, RunsAreCounted DEF Follows, AnswerParts, RunsGoForward, AnsweringTypeOK, IsPost
    <3> QED  BY <3>2, <1>2
  <2> QED  BY <1>2, <2>1 DEF AnswerParts, RunsGoForward, Mounted
<1>5. StoredIsKnown'
  BY <1>2 DEF AnswerParts, StoredIsKnown, Mounted
<1> QED  BY <1>1, <1>3, <1>4, <1>5 DEF AnswerParts

\* clearPendingAnswer and clearAnswerDraft.
LEMMA ForgetForgets ==
  ASSUME AnswerParts, NEW r \in Runs, kept' = Forget(r)
  PROVE  /\ IsStore(kept') /\ kept'[r] = NothingKept
         /\ \A x \in Runs : kept'[x] \in {kept[x], NothingKept}
<1>1. kept' = [kept EXCEPT ![r] = NothingKept]
  BY DEF Forget, NothingKept
<1>2. NothingKept = [pending |-> NothingKept.pending, choice |-> NothingKept.choice] /\ IsAttempt(NothingKept.pending)
  BY DEF NothingKept, IsAttempt, NoAttempt
<1>3. kept \in [Runs -> {kept[x] : x \in Runs}]
  BY DEF AnswerParts, AnsweringTypeOK, IsStore
<1>4. /\ kept'[r] = NothingKept /\ \A x \in Runs \ {r} : kept'[x] = kept[x]
      /\ kept' \in [Runs -> {kept'[x] : x \in Runs}]
  BY <1>1, <1>3
<1>5. IsStore(kept')
  BY <1>2, <1>4 DEF IsStore, AnswerParts, AnsweringTypeOK
<1> QED  BY <1>4, <1>5

\* The timer of a question ends after the question does.
LEMMA TimeUpKeeps == ASSUME AnswerParts, TimeUp  PROVE AnswerParts'
<1>0. PICK c : c = [panel EXCEPT !.left = FALSE]
  OBVIOUS
<1>1. /\ panel.run # 0 /\ ~Taking(panel.run)
      /\ UNCHANGED <<form, asked, responses, coming, linked, posts, touches>>
      /\ \/ Locked /\ panel' = c /\ UNCHANGED kept
         \/ ~Locked /\ panel' = Expired(c) /\ kept' = Forget(panel.run)
  BY <1>0 DEF TimeUp, Mounted
<1>2. /\ IsPanel(panel) /\ panel.run \in Runs /\ panel.run <= asked.run /\ panel.run \in Nat
  BY <1>1, AnsweringAssumption DEF AnswerParts, AnsweringTypeOK, RunsGoForward, Runs
<1>3. c = [run |-> panel.run, submit |-> panel.submit, left |-> FALSE, choice |-> panel.choice,
           pending |-> panel.pending, inflight |-> panel.inflight, restored |-> panel.restored]
  BY <1>0, <1>2 DEF IsPanel
<1>4. PostsFollow
  BY <1>1, UnchangedFollow DEF AnswerParts, AnsweringTypeOK
<1>5. \A q \in posts' : q.reached = "stored" => responses[q.run] # NoAttempt
  BY <1>1 DEF AnswerParts, StoredIsKnown
<1>6. CASE Locked /\ panel' = c /\ UNCHANGED kept
  <2>1. /\ panel'.run = panel.run /\ panel'.submit = panel.submit /\ panel'.left = FALSE
        /\ panel'.choice = panel.choice /\ panel'.pending = panel.pending /\ IsPanel(panel')
    BY <1>2, <1>3, <1>6 DEF IsPanel
  <2>2. IsStore(kept') /\ \A r \in Runs : kept'[r] \in {kept[r], NothingKept}
    BY <1>6 DEF AnswerParts, AnsweringTypeOK
  <2>3. GaveUpAfterClose'
    BY <1>1, <2>1 DEF GaveUpAfterClose, Taking
  <2>4. OneAwaited' /\ PanelIsCurrent'
    BY <1>1, <1>6, <2>1 DEF AnswerParts, OneAwaited, PanelIsCurrent, Mounted, Current
  <2>5. panel'.submit = "sent" => responses[panel'.run] # NoAttempt
    BY <2>1 DEF AnswerParts, StoredIsKnown
  <2>6. panel'.run \in Runs /\ panel'.run <= asked.run /\ panel.run <= panel'.run
    BY <1>2, <2>1
  <2>7. UNCHANGED <<form, asked, responses, touches>> /\ coming' \in {coming, {}}
    BY <1>1
  <2> QED  BY <1>4, <1>5, <2>1, <2>2, <2>3, <2>4, <2>5, <2>6, <2>7, QuietKeeps
<1>7. CASE ~Locked /\ panel' = Expired(c) /\ kept' = Forget(panel.run)
  <2>1. /\ panel' = [run |-> panel.run, submit |-> "expired", left |-> FALSE, choice |-> panel.choice,
                     pending |-> NoAttempt, inflight |-> panel.inflight, restored |-> panel.restored]
    BY <1>3, <1>7 DEF Expired
  <2>2. /\ panel'.run = panel.run /\ panel'.submit = "expired" /\ panel'.left = FALSE
        /\ panel'.pending = NoAttempt /\ IsPanel(panel')
    BY <2>1 DEF IsPanel, IsAttempt, NoAttempt
  <2>3. /\ IsStore(kept') /\ kept'[panel.run] = NothingKept
        /\ \A r \in Runs : kept'[r] \in {kept[r], NothingKept}
    BY <1>2, <1>7, ForgetForgets
  <2>4. GaveUpAfterClose'
    BY <1>1, <2>2 DEF GaveUpAfterClose, Taking
  <2>5. OneAwaited'
    <3>1. \A p \in posts : p.run = panel.run => p.told # "waiting"
      BY <1>1, <1>7 DEF AnswerParts, OneAwaited, Mounted, Locked
    <3> QED  BY <1>1, <2>2, <3>1 DEF OneAwaited
  <2>6. PanelIsCurrent'
    BY <2>2 DEF PanelIsCurrent
  <2>7. panel'.submit # "sent" /\ panel'.run \in Runs /\ panel'.run <= asked.run /\ panel.run <= panel'.run
    BY <1>2, <2>2
  <2>8. UNCHANGED <<form, asked, responses, touches>> /\ coming' \in {coming, {}}
    BY <1>1
  <2> QED  BY <1>4, <1>5, <2>2, <2>3, <2>4, <2>5, <2>6, <2>7, <2>8, QuietKeeps
<1> QED  BY <1>1, <1>6, <1>7

\* A new selection: nothing was sent since.
LEMMA ChooseKeeps == ASSUME AnswerParts, NEW x, Choose(x)  PROVE AnswerParts'
<1>0. PICK k : k = [choice |-> x, pending |-> IF panel.submit = "retryable" THEN NoAttempt
                                              ELSE kept[panel.run].pending]
  OBVIOUS
<1>1. /\ panel.run # 0 /\ panel.left /\ ~Locked /\ touches' = touches + 1
      /\ UNCHANGED <<form, asked, responses, coming, linked, posts>>
      /\ kept' = [kept EXCEPT ![panel.run] = k]
      /\ panel' = IF panel.submit = "retryable"
                  THEN [panel EXCEPT !.choice = x, !.pending = NoAttempt, !.restored = FALSE,
                                     !.submit = "idle"]
                  ELSE [panel EXCEPT !.choice = x]
  BY <1>0 DEF Choose, Mounted
<1>2. /\ IsPanel(panel) /\ panel.run \in Runs /\ panel.run <= asked.run /\ panel.run \in Nat
      /\ touches \in Nat
  BY <1>1, AnsweringAssumption DEF AnswerParts, AnsweringTypeOK, RunsGoForward, Runs
<1>3. /\ panel' = [run |-> panel.run, submit |-> panel'.submit, left |-> panel.left, choice |-> x,
                   pending |-> panel'.pending, inflight |-> panel.inflight, restored |-> panel'.restored]
      /\ \/ panel'.pending = panel.pending /\ panel'.submit = panel.submit /\ panel.submit # "retryable"
         \/ panel'.pending = NoAttempt /\ panel'.submit = "idle" /\ panel.submit = "retryable"
  BY <1>1, <1>2 DEF IsPanel
<1>4. /\ panel'.run = panel.run /\ panel'.left = panel.left /\ IsPanel(panel')
      /\ panel'.submit \notin {"sending", "sent", "rejected", "expired", "retryable"}
  <2>1. panel'.run = panel.run /\ panel'.left = panel.left
    BY <1>3
  <2>2. IsPanel(panel')
    BY <1>2, <1>3 DEF IsPanel, IsAttempt, NoAttempt
  <2>3. panel'.submit \notin {"sending", "sent", "rejected", "expired", "retryable"}
    BY <1>1, <1>3 DEF Locked
  <2> QED  BY <2>1, <2>2, <2>3
<1>5. /\ kept'[panel.run] = k /\ \A r \in Runs \ {panel.run} : kept'[r] = kept[r]
      /\ kept' \in [Runs -> {kept'[r] : r \in Runs}]
  <2>1. kept \in [Runs -> {kept[r] : r \in Runs}]
    BY DEF AnswerParts, AnsweringTypeOK, IsStore
  <2> QED  BY <1>1, <1>2, <2>1
<1>6. /\ k.choice = x /\ k.pending \in {NoAttempt, kept[panel.run].pending}
      /\ panel.submit = "retryable" => k.pending = NoAttempt
      /\ panel.submit # "retryable" => k.pending = kept[panel.run].pending
      /\ k = [pending |-> k.pending, choice |-> k.choice] /\ IsAttempt(k.pending)
  BY <1>0, <1>2 DEF AnswerParts, AnsweringTypeOK, IsStore, IsAttempt, NoAttempt
<1>7. IsStore(kept')
  <2>1. \A r \in Runs : r # panel.run => /\ kept'[r] = [pending |-> kept'[r].pending, choice |-> kept'[r].choice]
                                         /\ IsAttempt(kept'[r].pending)
    BY <1>5 DEF AnswerParts, AnsweringTypeOK, IsStore
  <2> QED  BY <1>5, <1>6, <2>1 DEF IsStore
<1>8. \A q \in posts : q.told # "waiting" \/ q.run # panel.run
  BY <1>1 DEF AnswerParts, OneAwaited, Mounted, Locked
<1>9. AnsweringTypeOK'
  <2>1. \A q \in posts : IsPost(q)'
    BY <1>1, <1>2 DEF AnswerParts, AnsweringTypeOK, IsPost
  <2> QED  BY <1>1, <1>2, <1>4, <1>7, <2>1 DEF AnswerParts, AnsweringTypeOK
<1>10. RunsGoForward' /\ StoredIsKnown' /\ GaveUpAfterClose'
  BY <1>1, <1>4 DEF AnswerParts, RunsGoForward, StoredIsKnown, GaveUpAfterClose, Taking, Mounted
<1>11. \A q \in posts : q.touch # touches'
  BY <1>1, <1>2 DEF AnswerParts, AnsweringTypeOK, IsPost
<1>12. OneAwaited' /\ KeptIsCurrent' /\ OneKeyPerAnswer'
  BY <1>1, <1>4, <1>8, <1>11 DEF AnswerParts, OneAwaited, KeptIsCurrent, OneKeyPerAnswer, Mounted
<1>13. PanelIsCurrent'
  BY <1>1, <1>3, <1>4, <1>5, <1>6, <1>11 DEF AnswerParts, PanelIsCurrent, Current, Mounted
<1> QED  BY <1>1, <1>9, <1>10, <1>12, <1>13 DEF AnswerParts

\* What a snapshot of run r finds on the screen, or in sessionStorage: the panel
\* that is there, or the one restored.
Base(r) == IF panel.run = r THEN panel ELSE Restored(r)
LEMMA BaseFits ==
  ASSUME AnswerParts, NEW r \in Runs, panel.run <= r, NEW b, b = Base(r)
  PROVE  /\ IsPanel(b) /\ b.run = r
         /\ \A p \in posts : Current(p, r) =>
              /\ b.pending # NoAttempt => b.pending.request = p.request
              /\ b.submit = "idle" => b.choice = "none"
         /\ (b.pending # NoAttempt /\ kept[r].pending # NoAttempt)
              => b.pending.request = kept[r].pending.request
         /\ b.submit \in {"sending", "sent", "retryable"} =>
              kept[r].pending # NoAttempt \/ kept[r].choice = "none"
         /\ \A p \in posts : p.told = "waiting" /\ p.run = r =>
              /\ b.submit \in {"sending", "sent"} /\ p.touch = touches
              /\ \A q \in posts : q.told = "waiting" /\ q.run = r => q = p
         /\ b.submit = "sent" => responses[r] # NoAttempt
         /\ b.submit = "expired" => ~b.left
         /\ ~b.left => ~Taking(r)
<1>0. r \in Nat \ {0} /\ panel.run \in Nat
  BY RunsAreCounted DEF AnswerParts, AnsweringTypeOK, RunsGoForward
<1>1. CASE panel.run = r
  <2>1. b = panel /\ Mounted
    BY <1>0, <1>1 DEF Base, Mounted
  <2> QED  BY <1>0, <1>1, <2>1 DEF AnswerParts, AnsweringTypeOK, PanelIsCurrent, OneAwaited, StoredIsKnown,
              GaveUpAfterClose, Mounted
<1>2. CASE panel.run # r
  <2>1. PICK a : a = kept[r].pending
    OBVIOUS
  <2>2. b = [run |-> r, submit |-> IF a # NoAttempt THEN "retryable" ELSE "idle", left |-> TRUE,
             choice |-> kept[r].choice, pending |-> a, inflight |-> 0, restored |-> a # NoAttempt]
    BY <1>2, <2>1 DEF Base, Restored, AnswerParts
  <2>3. /\ b.run = r /\ b.left = TRUE /\ b.choice = kept[r].choice /\ b.pending = a
        /\ b.submit = IF a # NoAttempt THEN "retryable" ELSE "idle"
    BY <2>2
  <2>4. IsPanel(b)
    <3>1. IsAttempt(a)
      BY <2>1 DEF AnswerParts, AnsweringTypeOK, IsStore
    <3> QED  BY <2>2, <3>1 DEF IsPanel
  <2>5. \A p \in posts : p.told = "waiting" => p.run # r
    BY <1>0, <1>2 DEF AnswerParts, AnsweringTypeOK, RunsGoForward, IsPost
  <2>6. \A p \in posts : Current(p, r) =>
          /\ b.pending # NoAttempt => b.pending.request = p.request
          /\ b.submit = "idle" => b.choice = "none"
    BY <2>1, <2>3 DEF AnswerParts, KeptIsCurrent, Current
  <2> QED  BY <2>1, <2>3, <2>4, <2>5, <2>6
<1> QED  BY <1>1, <1>2

\* A snapshot takes the component away, leaves it or mounts it, acknowledges what
\* was sent or sends it again.
LEMMA SnapshotKeeps == ASSUME AnswerParts, ApplySnapshot  PROVE AnswerParts'
<1>1. PICK s \in coming :
        LET r == s.run
            c == Acknowledged(Base(r), s.responded)
            again == /\ c.submit = "retryable" /\ c.pending # NoAttempt /\ c.left
                     /\ ~s.responded /\ (c.restored \/ ~linked)
        IN /\ coming' = {}
           /\ \/ r = 0 /\ panel' = Absent /\ posts' = Deaf /\ UNCHANGED kept
              \/ /\ r # 0
                 /\ kept' = IF s.responded THEN Forget(r) ELSE kept
                 /\ IF again
                    THEN panel' = Sending(c, c.pending) /\ posts' = posts \cup {PostOf(c.pending, r)}
                    ELSE panel' = c /\ UNCHANGED posts
           /\ UNCHANGED <<form, asked, responses, touches>>
  BY DEF ApplySnapshot, Base, ExpiresOnMount, AnswerParts
<1>2. CASE s.run = 0
  BY <1>1, <1>2, AnswerGoneKeeps
<1>3. CASE s.run # 0
  <2>0. PICK r \in Runs : r = s.run
    BY <1>3, RunsAreCounted DEF AnswerParts, AnsweringTypeOK, RunsGoForward
  <2>1. r \in Nat \ {0} /\ panel.run <= r /\ r <= asked.run /\ panel.run \in Nat
    BY <2>0, RunsAreCounted, <1>3 DEF AnswerParts, AnsweringTypeOK, RunsGoForward
  <2>2. PICK b : b = Base(r)
    OBVIOUS
  <2>3. /\ IsPanel(b) /\ b.run = r
        /\ \A p \in posts : Current(p, r) =>
             /\ b.pending # NoAttempt => b.pending.request = p.request
             /\ b.submit = "idle" => b.choice = "none"
        /\ (b.pending # NoAttempt /\ kept[r].pending # NoAttempt)
             => b.pending.request = kept[r].pending.request
        /\ b.submit \in {"sending", "sent", "retryable"} =>
             kept[r].pending # NoAttempt \/ kept[r].choice = "none"
        /\ \A p \in posts : p.told = "waiting" /\ p.run = r =>
             /\ b.submit \in {"sending", "sent"} /\ p.touch = touches
             /\ \A q \in posts : q.told = "waiting" /\ q.run = r => q = p
        /\ b.submit = "sent" => responses[r] # NoAttempt
        /\ b.submit = "expired" => ~b.left
        /\ ~b.left => ~Taking(r)
    BY <2>1, <2>2, BaseFits
  <2>4. UNCHANGED <<form, asked, responses, touches>> /\ coming' = {} /\ touches \in Nat
    BY <1>1 DEF AnswerParts, AnsweringTypeOK
  <2>5. \A q \in posts : q.reached = "stored" => responses[q.run] # NoAttempt
    BY DEF AnswerParts, StoredIsKnown
  <2>6. CASE s.responded
    <3>1. /\ kept' = Forget(r) /\ UNCHANGED posts
          /\ panel' = [b EXCEPT !.submit = "sent", !.pending = NoAttempt, !.inflight = 0, !.restored = FALSE]
      BY <1>1, <1>3, <2>0, <2>2, <2>6 DEF Acknowledged
    <3>2. panel' = [run |-> r, submit |-> "sent", left |-> b.left, choice |-> b.choice,
                    pending |-> NoAttempt, inflight |-> 0, restored |-> FALSE]
      BY <3>1, <2>3 DEF IsPanel
    <3>3. /\ panel'.run = r /\ panel'.submit = "sent" /\ panel'.left = b.left
          /\ panel'.pending = NoAttempt /\ IsPanel(panel')
      BY <3>2 DEF IsPanel, IsAttempt, NoAttempt
    <3>4. /\ IsStore(kept') /\ kept'[r] = NothingKept
          /\ \A x \in Runs : kept'[x] \in {kept[x], NothingKept}
      BY <3>1, ForgetForgets
    <3>5. PostsFollow
      BY <2>4, <3>1, UnchangedFollow
    <3>6. GaveUpAfterClose'
      BY <2>3, <2>4, <3>3 DEF GaveUpAfterClose, Taking
    <3>7. OneAwaited'
      BY <2>3, <2>4, <3>1, <3>3 DEF OneAwaited
    <3>8. PanelIsCurrent'
      BY <3>3, <3>4 DEF PanelIsCurrent, NothingKept
    <3>9. responses[r] # NoAttempt
      BY <2>0, <2>6 DEF AnswerParts, StoredIsKnown
    <3>10. \A q \in posts' : q.reached = "stored" => responses[q.run] # NoAttempt
      BY <2>5, <3>1
    <3>11. panel'.run \in Runs /\ panel'.run <= asked.run /\ panel.run <= panel'.run
      BY <2>1, <3>3
    <3> QED  BY <2>4, <3>3, <3>4, <3>5, <3>6, <3>7, <3>8, <3>9, <3>10, <3>11, QuietKeeps
  <2>7. CASE ~s.responded /\ panel' = b /\ UNCHANGED <<posts, kept>>
    <3>1. PostsFollow
      BY <2>4, <2>7, UnchangedFollow
    <3>2. GaveUpAfterClose'
      BY <2>3, <2>4, <2>7 DEF GaveUpAfterClose, Taking
    <3>3. OneAwaited'
      BY <2>3, <2>4, <2>7 DEF OneAwaited
    <3>4. PanelIsCurrent'
      BY <2>3, <2>4, <2>7 DEF PanelIsCurrent, Current
    <3>5. IsStore(kept') /\ \A x \in Runs : kept'[x] \in {kept[x], NothingKept}
      BY <2>7 DEF AnswerParts, AnsweringTypeOK
    <3>6. /\ panel'.run \in Runs /\ panel'.run <= asked.run /\ panel.run <= panel'.run
          /\ IsPanel(panel') /\ (panel'.submit = "sent" => responses[panel'.run] # NoAttempt)
      BY <2>1, <2>3, <2>7
    <3>7. \A q \in posts' : q.reached = "stored" => responses[q.run] # NoAttempt
      BY <2>5, <2>7
    <3> QED  BY <2>4, <3>1, <3>2, <3>3, <3>4, <3>5, <3>6, <3>7, QuietKeeps
  <2>8. CASE /\ ~s.responded /\ b.submit = "retryable" /\ b.pending # NoAttempt /\ b.left = TRUE
             /\ panel' = Sending(b, b.pending) /\ posts' = posts \cup {PostOf(b.pending, r)}
             /\ UNCHANGED kept
    <3>1. panel' = [run |-> r, submit |-> "sending", left |-> b.left, choice |-> b.choice,
                    pending |-> b.pending, inflight |-> b.pending.request, restored |-> FALSE]
      BY <2>3, <2>8 DEF Sending, IsPanel
    <3>2. /\ panel'.run = r /\ panel'.submit = "sending" /\ panel'.left = b.left
          /\ panel'.pending = b.pending
      BY <3>1
    <3>3. IsPanel(panel') /\ IsAttempt(b.pending)
      BY <2>3, <3>1 DEF IsPanel
    <3>4. Sends(b.pending)
      BY <2>3, <2>4, <2>8, <3>2, <3>3 DEF Sends
    <3>5. IsStore(kept') /\ panel'.left = TRUE
      BY <2>8, <3>2 DEF AnswerParts, AnsweringTypeOK
    <3>6. /\ UNCHANGED <<form, asked, responses>> /\ coming' = {}
          /\ panel'.run <= asked.run /\ panel.run <= panel'.run
      BY <2>1, <2>4, <3>2
    <3> QED  BY <3>3, <3>4, <3>5, <3>6, AnswerSendKeeps
  <2>9. CASE ~s.responded
    <3>1. Acknowledged(Base(s.run), s.responded) = b /\ kept' = kept
      BY <1>1, <1>3, <2>0, <2>2, <2>9 DEF Acknowledged
    <3>2. b.left => b.left = TRUE
      <4>1. CASE panel.run = r
        BY <4>1, <2>2 DEF Base, AnswerParts, AnsweringTypeOK
      <4>2. CASE panel.run # r
        BY <4>2, <2>2 DEF Base, Restored
      <4> QED  BY <4>1, <4>2
    <3> QED  BY <1>1, <1>3, <2>0, <2>7, <2>8, <2>9, <3>1, <3>2
  <2> QED  BY <2>6, <2>9
<1> QED  BY <1>2, <1>3

\* What follows the await of submitAnswer.
LEMMA AfterKeeps ==
  ASSUME AnswerParts, NEW p \in posts, NEW outcome \in {"stored", "refused", "lost"}, After(p, outcome),
         outcome = "stored" => p.reached = "stored"
  PROVE  AnswerParts'
<1>0. PICK c : c = [panel EXCEPT !.inflight = IF form = "text" \/ @ = p.request THEN 0 ELSE @]
  OBVIOUS
<1>1. /\ p.told = "waiting" /\ touches \in Nat
      /\ posts' = (posts \ {p}) \cup {[p EXCEPT !.told = outcome]}
      /\ UNCHANGED <<form, asked, responses, coming, linked, touches>>
      /\ \/ ~Concerns(p) /\ UNCHANGED <<panel, kept>>
         \/ /\ Concerns(p)
            /\ kept' = IF Clears(outcome)
                       THEN Forget(IF outcome = "lost" THEN panel.run ELSE p.run) ELSE kept
            /\ \/ outcome = "stored" /\ panel' = [c EXCEPT !.submit = "sent", !.pending = NoAttempt]
               \/ outcome = "refused" /\ panel' = [Expired(c) EXCEPT !.submit = "rejected"]
               \/ /\ outcome = "lost"
                  /\ panel' = IF ~c.left THEN Expired(c)
                              ELSE [c EXCEPT !.submit = "retryable",
                                      !.pending = [request |-> p.request, choice |-> p.choice]]
  BY <1>0 DEF After, AnswerParts, AnsweringTypeOK
<1>2. PICK new : new = [p EXCEPT !.told = outcome]
  OBVIOUS
<1>3. IsPost(p) /\ IsPanel(panel)
  BY DEF AnswerParts, AnsweringTypeOK
<1>4. /\ new = [request |-> p.request, choice |-> p.choice, run |-> p.run, touch |-> p.touch,
                n |-> p.n, reached |-> p.reached, told |-> outcome]
      /\ posts' = (posts \ {p}) \cup {new}
  BY <1>1, <1>2, <1>3 DEF IsPost
<1>5. new.reached = p.reached /\ new.told = outcome /\ new.run = p.run
  BY <1>4
<1>6. /\ PostsFollow
      /\ \A q \in posts' : q.told = "waiting" => q \in posts /\ q # p
  <2>1. p.reached \in {"no", "stored", "refused"}
    BY <1>3 DEF IsPost
  <2> QED  BY <1>1, <1>4, <1>5, <2>1, ReplacedFollows
<1>7. \A q \in posts' : q.reached = "stored" => responses[q.run] # NoAttempt
  BY <1>4, <1>5 DEF AnswerParts, StoredIsKnown
<1>8. /\ Mounted /\ p.run <= panel.run /\ panel.run \in Runs /\ panel.run <= asked.run
      /\ panel.run \in Nat
  BY <1>1, AnsweringAssumption DEF AnswerParts, AnsweringTypeOK, RunsGoForward, Runs, Mounted
<1>9. UNCHANGED <<form, asked, responses, touches>> /\ coming' \in {coming, {}}
  BY <1>1
<1>10. IsStore(kept)
  BY DEF AnswerParts, AnsweringTypeOK
<1>11. CASE p.run # panel.run
  <2>1. UNCHANGED <<panel, kept>>
    BY <1>1, <1>11 DEF Concerns, AnswerParts
  <2>2. GaveUpAfterClose'
    BY <1>1, <2>1 DEF AnswerParts, GaveUpAfterClose, Taking
  <2>3. OneAwaited'
    BY <1>1, <1>6, <2>1 DEF AnswerParts, OneAwaited, Mounted
  <2>4. PanelIsCurrent'
    BY <1>1, <1>6, <2>1, PanelStays
  <2>5. panel'.submit = "sent" => responses[panel'.run] # NoAttempt
    BY <2>1 DEF AnswerParts, StoredIsKnown
  <2>6. IsStore(kept') /\ \A r \in Runs : kept'[r] \in {kept[r], NothingKept}
    BY <1>10, <2>1
  <2>7. panel'.run \in Runs /\ panel'.run <= asked.run /\ panel.run <= panel'.run /\ panel'.run = panel.run
    BY <1>8, <2>1
  <2> QED  BY <1>3, <1>6, <1>7, <1>9, <2>1, <2>2, <2>3, <2>4, <2>5, <2>6, <2>7, QuietKeeps
<1>12. CASE p.run = panel.run
  <2>1. PICK r \in Runs : r = panel.run
    BY <1>8
  <2>a. PICK i : i = IF form = "text" \/ panel.inflight = p.request THEN 0 ELSE panel.inflight
    OBVIOUS
  <2>2. c = [run |-> r, submit |-> panel.submit, left |-> panel.left, choice |-> panel.choice,
             pending |-> panel.pending, inflight |-> i, restored |-> panel.restored]
    BY <1>0, <1>3, <2>1, <2>a DEF IsPanel
  <2>3. Concerns(p)
    BY <1>8, <1>12 DEF Concerns
  <2>4. /\ \A q \in posts' : q.told = "waiting" => q.run # r
        /\ p.touch = touches
    BY <1>1, <1>6, <1>8, <1>12, <2>1 DEF AnswerParts, OneAwaited
  <2>5. OneAwaited' \/ panel'.run # r
    BY <1>1, <2>4 DEF OneAwaited
  <2>6. CASE outcome # "lost" \/ ~panel.left
    <3>1. kept' = Forget(r)
      BY <1>1, <1>12, <2>1, <2>3, <2>6 DEF Clears
    <3>2. /\ IsStore(kept') /\ kept'[r] = NothingKept
          /\ \A x \in Runs : kept'[x] \in {kept[x], NothingKept}
      BY <3>1, ForgetForgets
    <3>3. PICK submit \in {"sent", "rejected", "expired"} :
            /\ panel' = [run |-> r, submit |-> submit, left |-> panel.left, choice |-> panel.choice,
                         pending |-> NoAttempt, inflight |-> i, restored |-> panel.restored]
            /\ submit = "sent" => outcome = "stored"
            /\ submit = "expired" => ~panel.left
      <4>1. CASE outcome = "stored"
        <5>1. panel' = [c EXCEPT !.submit = "sent", !.pending = NoAttempt]
          BY <1>1, <2>3, <4>1
        <5> QED  BY <2>2, <4>1, <5>1
      <4>2. CASE outcome = "refused"
        <5>1. panel' = [Expired(c) EXCEPT !.submit = "rejected"]
          BY <1>1, <2>3, <4>2
        <5>2. PICK e : e = Expired(c)
          OBVIOUS
        <5>3. e = [run |-> r, submit |-> "expired", left |-> panel.left, choice |-> panel.choice,
                   pending |-> NoAttempt, inflight |-> i, restored |-> panel.restored]
          BY <2>2, <5>2 DEF Expired
        <5>4. panel' = [e EXCEPT !.submit = "rejected"]
          BY <5>1, <5>2
        <5>5. panel' = [run |-> r, submit |-> "rejected", left |-> panel.left, choice |-> panel.choice,
                        pending |-> NoAttempt, inflight |-> i, restored |-> panel.restored]
          BY <5>3, <5>4
        <5> QED  BY <5>5
      <4>3. CASE outcome = "lost"
        <5>1. ~c.left
          BY <2>2, <2>6, <4>3
        <5>2. panel' = Expired(c)
          BY <1>1, <2>3, <4>3, <5>1
        <5>3. panel' = [run |-> r, submit |-> "expired", left |-> panel.left, choice |-> panel.choice,
                        pending |-> NoAttempt, inflight |-> i, restored |-> panel.restored]
          BY <2>2, <5>2 DEF Expired
        <5> QED  BY <5>3, <2>6, <4>3
      <4> QED  BY <4>1, <4>2, <4>3
    <3>4. /\ panel'.run = r /\ panel'.submit = submit /\ panel'.left = panel.left
          /\ panel'.pending = NoAttempt /\ IsPanel(panel')
      BY <3>3 DEF IsPanel, IsAttempt, NoAttempt
    <3>5. GaveUpAfterClose'
      BY <1>1, <2>1, <3>3, <3>4 DEF AnswerParts, GaveUpAfterClose, Taking
    <3>6. PanelIsCurrent'
      BY <3>2, <3>3, <3>4 DEF PanelIsCurrent, NothingKept
    <3>7. panel'.submit = "sent" => responses[panel'.run] # NoAttempt
      BY <1>12, <2>1, <3>3, <3>4 DEF AnswerParts, StoredIsKnown
    <3>8. panel'.run \in Runs /\ panel'.run <= asked.run /\ panel.run <= panel'.run /\ panel'.run = panel.run
      BY <1>8, <2>1, <3>4
    <3>9. OneAwaited'
      BY <2>5, <3>4
    <3> QED  BY <1>6, <1>7, <1>9, <3>2, <3>4, <3>5, <3>6, <3>7, <3>8, <3>9, QuietKeeps
  <2>7. CASE outcome = "lost" /\ panel.left
    <3>0. PICK a : a = [request |-> p.request, choice |-> p.choice]
      OBVIOUS
    <3>1. kept' = kept /\ panel' = [c EXCEPT !.submit = "retryable", !.pending = a]
      <4>1. c.left = panel.left
        BY <2>2
      <4> QED  BY <1>1, <2>3, <2>7, <3>0, <4>1 DEF Clears
    <3>2. panel' = [run |-> r, submit |-> "retryable", left |-> panel.left, choice |-> panel.choice,
                    pending |-> a, inflight |-> i, restored |-> panel.restored]
      BY <2>2, <3>1
    <3>3. /\ a.request = p.request /\ IsAttempt(a)
      BY <1>3, <3>0 DEF IsAttempt, IsPost, NoAttempt
    <3>4. /\ panel'.run = r /\ panel'.submit = "retryable" /\ panel'.left = panel.left
          /\ panel'.pending = a /\ IsPanel(panel')
      BY <3>2, <3>3 DEF IsPanel
    <3>5. GaveUpAfterClose'
      BY <1>1, <2>1, <3>4 DEF AnswerParts, GaveUpAfterClose, Taking
    <3>6. PanelIsCurrent'
      <4>1. \A q \in posts' : q.run = r /\ q.touch = touches => q.request = a.request
        <5> SUFFICES ASSUME NEW q \in posts', q.run = r, q.touch = touches  PROVE q.request = p.request
          BY <3>3
        <5>1. PICK o \in posts : Follows(q, o)
          BY <1>6 DEF PostsFollow
        <5> QED  BY <5>1, <1>12, <2>1, <2>4 DEF Follows, AnswerParts, OneKeyPerAnswer
      <4>2. kept[r].pending # NoAttempt => kept[r].pending.request = a.request
        BY <1>12, <2>1, <2>4, <3>3 DEF AnswerParts, KeptIsCurrent
      <4>3. kept[r].pending # NoAttempt \/ kept[r].choice = "none"
        BY <1>12, <2>1, <2>4 DEF AnswerParts, KeptIsCurrent
      <4> QED  BY <1>1, <3>1, <3>4, <4>1, <4>2, <4>3 DEF PanelIsCurrent, Current
    <3>7. panel'.run \in Runs /\ panel'.run <= asked.run /\ panel.run <= panel'.run /\ panel'.run = panel.run
      BY <1>8, <2>1, <3>4
    <3>8. OneAwaited' /\ IsStore(kept') /\ \A x \in Runs : kept'[x] \in {kept[x], NothingKept}
      BY <1>10, <2>5, <3>1, <3>4
    <3> QED  BY <1>6, <1>7, <1>9, <3>4, <3>5, <3>6, <3>7, <3>8, QuietKeeps
  <2> QED  BY <2>6, <2>7
<1> QED  BY <1>11, <1>12

\* One case per action.
LEMMA AnswerInvStep == AnswerInv /\ [AnsweringNext]_answerVars => AnswerInv'
<1> SUFFICES ASSUME AnswerParts, [AnsweringNext]_answerVars  PROVE AnswerParts'
  <2>1. [AnsweringNext]_answerVars => form' = form
    BY DEF AnsweringNext, answerVars, OpenNext, CloseRun, ReadSnapshot, ApplySnapshot, LinkLost,
           ReloadPage, TimeUp, Submit, Retry, Choose, Reach, Reply, NoReply, After
  <2> QED  BY <2>1 DEF AnswerInv
<1>1. CASE UNCHANGED answerVars
  BY <1>1 DEF answerVars, AnswerParts, AnsweringTypeOK, RunsGoForward, StoredIsKnown, GaveUpAfterClose,
     OneAwaited, KeptIsCurrent, PanelIsCurrent, OneKeyPerAnswer, IsPost, Taking, Mounted, Current
<1>2. CASE OpenNext \/ CloseRun \/ ReadSnapshot \/ LinkLost
  BY <1>2, ServerKeeps
<1>3. CASE ApplySnapshot \/ ReloadPage \/ TimeUp \/ Submit \/ Retry
  <2>1. CASE ReloadPage
    BY <2>1, AnswerGoneKeeps DEF ReloadPage
  <2> QED  BY <1>3, <2>1, SnapshotKeeps, TimeUpKeeps, AnswerSubmitKeeps, AnswerRetryKeeps
<1>4. ASSUME NEW x, Choose(x)  PROVE AnswerParts'
  BY <1>4, ChooseKeeps
<1>5. ASSUME NEW p \in posts, Reach(p) \/ Reply(p) \/ NoReply(p)  PROVE AnswerParts'
  <2>1. CASE Reply(p)
    <3>1. p.reached \in {"stored", "refused"} /\ After(p, p.reached)
      BY <2>1 DEF Reply, AnswerParts, AnsweringTypeOK, IsPost
    <3> QED  BY <3>1, AfterKeeps
  <2>2. CASE NoReply(p)
    BY <2>2, AfterKeeps DEF NoReply
  <2> QED  BY <1>5, <2>1, <2>2, AnswerReachKeeps
<1> QED  BY <1>1, <1>2, <1>3, <1>4, <1>5 DEF AnsweringNext

LEMMA AnswerInvHolds == AnsweringSpec => []AnswerInv
  BY AnswerInvInit, AnswerInvStep, PTL DEF AnsweringSpec

\* SentMeansStored: for any number of questions, tries, reloads and lost replies,
\* "Your answer was recorded" (answer controller, submitState "sent") is shown on
\* a question the server has an answer to.
THEOREM SentIsStored == AnsweringSpec => []SentMeansStored
<1>1. AnswerInv => SentMeansStored
  BY DEF AnswerInv, AnswerParts, StoredIsKnown, SentMeansStored
<1> QED  BY <1>1, AnswerInvHolds, PTL

\* OneKeyPerAnswer: every try of an unchanged answer carries the request id of
\* the first (sendAttempt, the pending attempt in sessionStorage).
THEOREM TriesShareAKey == AnsweringSpec => []OneKeyPerAnswer
<1>1. AnswerInv => OneKeyPerAnswer
  BY DEF AnswerInv, AnswerParts, OneKeyPerAnswer
<1> QED  BY <1>1, AnswerInvHolds, PTL

\* GivesUpOnlyAfterClose: no question that takes answers is shown as expired.
THEOREM ExpiredIsClosed == AnsweringSpec => []GivesUpOnlyAfterClose
<1>1. AnswerInv => GivesUpOnlyAfterClose
  BY DEF AnswerInv, AnswerParts, GaveUpAfterClose, GivesUpOnlyAfterClose
<1> QED  BY <1>1, AnswerInvHolds, PTL
-----------------------------------------------------------------------------
(* The projector.                                                          *)

LogEvents == [kind : {"state", "presence"}, version : Nat]
VersionIn(log, n) == IF n = 0 THEN 1 ELSE log[n].version
\* A state event moves the version by one, a presence event does not.
LogIsOrdered ==
  /\ session \in Seq(LogEvents)
  /\ \A n \in 1..Len(session) :
       session[n].version = VersionIn(session, n - 1) + (IF session[n].kind = "state" THEN 1 ELSE 0)
  /\ \A m, n \in 0..Len(session) : m <= n => VersionIn(session, m) <= VersionIn(session, n)

StageTypeOK ==
  /\ stage = [shown |-> stage.shown, count |-> stage.count, event |-> stage.event,
              version |-> stage.version, loop |-> stage.loop, heard |-> stage.heard,
              missed |-> stage.missed]
  /\ stage.shown \in -1..Len(session) /\ stage.event \in 0..Len(session)
  /\ stage.heard \in 0..Len(session) /\ stage.missed \in BOOLEAN
  /\ \A r \in refreshes : /\ r = [no |-> r.no, read |-> r.read, loop |-> r.loop]
                          /\ r.read \in -1..Len(session)

\* The cursor is ahead of the snapshot and of the stream, and carries the version
\* of the event it is at.
CursorLeads ==
  /\ stage.shown <= stage.event /\ stage.heard <= stage.event
  /\ stage.shown = -1 => /\ stage.event = 0 /\ stage.version = 0
                         /\ stage.loop \notin {"open", "closed"}
                         /\ \A r \in refreshes : r.loop = TRUE
  /\ stage.shown # -1 => /\ stage.version = VersionIn(session, stage.event)
                         /\ stage.loop # "first"

\* The snapshot, or one under way, is at the version of the cursor or later:
\* nothing the cursor passed is forgotten.
Covers(n) == n # -1 /\ VersionIn(session, n) >= VersionIn(session, stage.event)
WillBeCurrent ==
  (stage.shown # -1 /\ ~stage.missed) =>
    \/ Covers(stage.shown)
    \/ \E r \in refreshes : r.read = -1 \/ Covers(r.read)

StageInv == LogIsOrdered /\ StageTypeOK /\ CursorLeads /\ WillBeCurrent

\* The first refresh covers everything.
LEMMA StageInvInit == StageInit => StageInv
<1> SUFFICES ASSUME StageInit  PROVE StageInv
  OBVIOUS
<1>1. LogIsOrdered
  BY DEF StageInit, LogIsOrdered, VersionIn
<1>2. StageTypeOK /\ CursorLeads
  BY DEF StageInit, StageTypeOK, CursorLeads
<1>3. WillBeCurrent
  BY DEF StageInit, WillBeCurrent
<1> QED  BY <1>1, <1>2, <1>3 DEF StageInv

\* Versions are numbers.
LEMMA VersionsAreNat ==
  ASSUME session \in Seq(LogEvents)
  PROVE  Len(session) \in Nat /\ \A n \in 0..Len(session) : VersionIn(session, n) \in Nat
<1>1. ASSUME NEW n \in 1..Len(session)  PROVE session[n].version \in Nat
  <2>1. session[n] \in LogEvents
    OBVIOUS
  <2> QED  BY <2>1 DEF LogEvents
<1> QED  BY <1>1 DEF VersionIn

\* The log grows; what was read of it stays as it was read.
LEMMA LogGrows ==
  ASSUME StageInv, NEW kind \in {"state", "presence"}, SessionMoves(kind)
  PROVE  /\ LogIsOrdered' /\ Len(session') = Len(session) + 1
         /\ \A n \in 0..Len(session) : VersionIn(session', n) = VersionIn(session, n)
<1>0. PICK N \in Nat : N = Len(session)
  BY VersionsAreNat DEF StageInv, LogIsOrdered
<1> DEFINE e == [kind |-> kind,
                 version |-> VersionIn(session, N) + (IF kind = "state" THEN 1 ELSE 0)]
<1>1. N \in Nat /\ N = Len(session) /\ session \in Seq(LogEvents)
  BY <1>0 DEF StageInv, LogIsOrdered
<1>2. session' = Append(session, e)
  BY <1>0 DEF SessionMoves, VersionAt, VersionIn
<1>3. \A n \in 0..N : VersionIn(session, n) \in Nat
  BY <1>1, VersionsAreNat
<1>4. e \in LogEvents
  BY <1>1, <1>3 DEF LogEvents
<1> HIDE DEF e
<1>5. /\ session' \in Seq(LogEvents)
      /\ Len(session') = N + 1 /\ session'[N + 1] = e
      /\ \A n \in 1..N : session'[n] = session[n]
  BY <1>1, <1>2, <1>4
<1>6. \A n \in 0..N : VersionIn(session', n) = VersionIn(session, n)
  BY <1>1, <1>5 DEF VersionIn
<1>7. VersionIn(session', N + 1) = VersionIn(session, N) + (IF kind = "state" THEN 1 ELSE 0)
  <2>1. VersionIn(session', N + 1) = session'[N + 1].version
    BY <1>1 DEF VersionIn
  <2>2. e.version = VersionIn(session, N) + (IF kind = "state" THEN 1 ELSE 0)
    BY DEF e
  <2> QED  BY <2>1, <2>2, <1>5
<1>8. \A n \in 1..N + 1 :
        session'[n].version = VersionIn(session', n - 1) + (IF session'[n].kind = "state" THEN 1 ELSE 0)
  <2> SUFFICES ASSUME NEW n \in 1..N + 1
               PROVE  session'[n].version = VersionIn(session', n - 1) + (IF session'[n].kind = "state" THEN 1 ELSE 0)
    OBVIOUS
  <2>1. CASE n = N + 1
    <3>1. session'[n] = e /\ VersionIn(session', n - 1) = VersionIn(session, N)
      BY <2>1, <1>1, <1>5, <1>6
    <3> QED  BY <3>1 DEF e
  <2>2. CASE n \in 1..N
    <3>1. VersionIn(session', n - 1) = VersionIn(session, n - 1) /\ session'[n] = session[n]
      BY <2>2, <1>1, <1>5, <1>6
    <3>2. session[n].version = VersionIn(session, n - 1) + (IF session[n].kind = "state" THEN 1 ELSE 0)
      BY <2>2, <1>0 DEF StageInv, LogIsOrdered
    <3> QED  BY <3>1, <3>2
  <2> QED  BY <2>1, <2>2, <1>1
<1>9. ASSUME NEW m \in 0..N + 1, NEW n \in 0..N + 1, m <= n
      PROVE  VersionIn(session', m) <= VersionIn(session', n)
  <2>0. \A i, j \in 0..N : i <= j => VersionIn(session, i) <= VersionIn(session, j)
    BY <1>0 DEF StageInv, LogIsOrdered
  <2>1. CASE n \in 0..N
    <3>1. m \in 0..N
      BY <2>1, <1>1, <1>9
    <3> QED  BY <2>0, <2>1, <3>1, <1>6, <1>9
  <2>2. CASE n = N + 1 /\ m \in 0..N
    <3>1. VersionIn(session, m) <= VersionIn(session, N)
      BY <2>0, <2>2, <1>1
    <3>2. VersionIn(session, m) \in Nat /\ VersionIn(session, N) \in Nat /\ VersionIn(session', m) = VersionIn(session, m)
      BY <2>2, <1>1, <1>3, <1>6
    <3> QED  BY <3>1, <3>2, <2>2, <1>7
  <2>3. CASE n = N + 1 /\ m = N + 1
    <3>1. VersionIn(session', N + 1) \in Nat
      BY <1>1, <1>3, <1>7
    <3> QED  BY <2>3, <3>1
  <2> QED  BY <2>1, <2>2, <2>3, <1>1
<1>10. LogIsOrdered'
  BY <1>5, <1>8, <1>9 DEF LogIsOrdered
<1> QED  BY <1>0, <1>5, <1>6, <1>10

LEMMA MovesKeepStageInv ==
  ASSUME StageInv, NEW kind \in {"state", "presence"}, SessionMoves(kind)
  PROVE  StageInv'
<1>1. /\ stage' = stage /\ refreshes' = refreshes /\ Len(session) \in Nat
      /\ LogIsOrdered' /\ Len(session') = Len(session) + 1
      /\ \A n \in 0..Len(session) : VersionIn(session', n) = VersionIn(session, n)
  BY LogGrows DEF SessionMoves, StageInv, LogIsOrdered
<1>2. StageTypeOK'
  BY <1>1 DEF StageInv, StageTypeOK
<1>3. CursorLeads'
  BY <1>1 DEF StageInv, StageTypeOK, CursorLeads
<1>4. WillBeCurrent'
  BY <1>1 DEF StageInv, StageTypeOK, WillBeCurrent, Covers
<1> QED  BY <1>1, <1>2, <1>3, <1>4 DEF StageInv

\* The steps that leave the log alone.
LEMMA SameLog ==
  ASSUME StageInv, UNCHANGED session
  PROVE  /\ LogIsOrdered' /\ Len(session') = Len(session) /\ Len(session) \in Nat
         /\ \A n \in 0..Len(session) : VersionIn(session, n) \in Nat
         /\ \A m, n \in 0..Len(session) : m <= n => VersionIn(session, m) <= VersionIn(session, n)
<1>1. session \in Seq(LogEvents)
  BY DEF StageInv, LogIsOrdered
<1> QED  BY <1>1, VersionsAreNat DEF StageInv, LogIsOrdered

\* A refresh is read: it is at the newest version.
LEMMA ReadKeepsStageInv ==
  ASSUME StageInv, NEW r \in refreshes, ReadSession(r)
  PROVE  StageInv'
<1> DEFINE new == [r EXCEPT !.read = Len(session)]
<1>1. /\ session' = session /\ stage' = stage /\ r.read = -1
      /\ refreshes' = (refreshes \ {r}) \union {new}
  BY DEF ReadSession
<1>2. new = [no |-> r.no, read |-> Len(session), loop |-> r.loop]
  BY DEF StageInv, StageTypeOK
<1> HIDE DEF new
<1>3. StageTypeOK'
  BY <1>1, <1>2, SameLog DEF StageInv, StageTypeOK
<1>4. CursorLeads'
  BY <1>1, <1>2, SameLog DEF StageInv, StageTypeOK, CursorLeads
<1>5. WillBeCurrent'
  <2>1. new.read = Len(session) /\ new \in refreshes'
    BY <1>1, <1>2
  <2>2. stage.shown # -1 => VersionIn(session, Len(session)) >= VersionIn(session, stage.event)
    BY SameLog, <1>1 DEF StageInv, StageTypeOK
  <2> QED  BY <1>1, <2>1, <2>2, SameLog DEF WillBeCurrent, Covers
<1> QED  BY <1>1, <1>3, <1>4, <1>5, SameLog DEF StageInv

\* An older reply is one from before the snapshot shown; the cursor has the
\* later of the two.
LEMMA SnapshotMoves ==
  ASSUME StageInv, NEW n \in 0..Len(session), NEW s, s = TakeSnapshot(n)
  PROVE  /\ s = [shown |-> s.shown, count |-> s.count, event |-> s.event, version |-> s.version,
                 loop |-> s.loop, heard |-> s.heard, missed |-> s.missed]
         /\ s.shown = Larger(stage.shown, n) /\ s.event = Larger(stage.event, n)
         /\ s.version = VersionIn(session, s.event)
         /\ s.loop = stage.loop /\ s.heard = stage.heard /\ s.missed = stage.missed
<1>0. /\ \A k \in 0..Len(session) : VersionIn(session, k) \in Nat
      /\ \A m, k \in 0..Len(session) : m <= k => VersionIn(session, m) <= VersionIn(session, k)
      /\ Len(session) \in Nat
  BY VersionsAreNat DEF StageInv, LogIsOrdered
<1>1. stage.shown \in -1..Len(session) /\ stage.event \in 0..Len(session)
      /\ stage.shown <= stage.event
  BY DEF StageInv, StageTypeOK, CursorLeads
<1>2. Older(n) <=> n < stage.shown
  BY <1>0, <1>1 DEF Older, VersionAt, VersionIn
<1>3. CASE n < stage.shown
  <2>1. s = stage /\ stage.shown # -1
    BY <1>1, <1>2, <1>3 DEF TakeSnapshot
  <2>2. Larger(stage.shown, n) = stage.shown /\ Larger(stage.event, n) = stage.event
    BY <1>1, <1>3 DEF Larger
  <2> QED  BY <2>1, <2>2 DEF StageInv, StageTypeOK, CursorLeads
<1>4. CASE ~(n < stage.shown)
  <2>1. s = [shown |-> n, count |-> CountAt(n), event |-> Larger(stage.event, n),
             version |-> Larger(stage.version, VersionIn(session, n)), loop |-> stage.loop,
             heard |-> stage.heard, missed |-> stage.missed]
    BY <1>2, <1>4 DEF TakeSnapshot, VersionAt, VersionIn, StageInv, StageTypeOK
  <2>2. Larger(stage.shown, n) = n
    BY <1>1, <1>4 DEF Larger
  <2>3. Larger(stage.version, VersionIn(session, n)) = VersionIn(session, Larger(stage.event, n))
    <3>1. CASE stage.shown = -1
      <4>1. stage.version = 0 /\ stage.event = 0
        BY <3>1 DEF StageInv, CursorLeads
      <4> QED  BY <4>1, <1>0 DEF Larger, VersionIn
    <3>2. CASE stage.shown # -1
      <4>1. stage.version = VersionIn(session, stage.event)
        BY <3>2 DEF StageInv, CursorLeads
      <4> QED  BY <4>1, <1>0, <1>1 DEF Larger
    <3> QED  BY <3>1, <3>2
  <2> QED  BY <2>1, <2>2, <2>3
<1> QED  BY <1>3, <1>4

\* applySnapshot: the snapshot shown covers what the reply did.
LEMMA ReplyKeepsStageInv ==
  ASSUME StageInv, NEW r \in refreshes, RefreshReply(r)
  PROVE  StageInv'
<1> DEFINE n == r.read
           s == TakeSnapshot(n)
<1>1. /\ session' = session /\ refreshes' = refreshes \ {r}
      /\ stage' = IF r.loop THEN Opened(s) ELSE s
      /\ n \in 0..Len(session)
  BY DEF RefreshReply, StageInv, StageTypeOK
<1>2. /\ s = [shown |-> s.shown, count |-> s.count, event |-> s.event, version |-> s.version,
              loop |-> s.loop, heard |-> s.heard, missed |-> s.missed]
      /\ s.shown = Larger(stage.shown, n) /\ s.event = Larger(stage.event, n)
      /\ s.version = VersionIn(session, s.event)
      /\ s.loop = stage.loop /\ s.heard = stage.heard /\ s.missed = stage.missed
  BY <1>1, SnapshotMoves
<1> HIDE DEF s
<1>3. /\ stage' = [shown |-> stage'.shown, count |-> stage'.count, event |-> stage'.event,
                   version |-> stage'.version, loop |-> stage'.loop, heard |-> stage'.heard,
                   missed |-> stage'.missed]
      /\ stage'.shown = Larger(stage.shown, n) /\ stage'.event = Larger(stage.event, n)
      /\ stage'.version = VersionIn(session, stage'.event) /\ stage'.missed = stage.missed
      /\ stage'.heard \in {stage.heard, stage'.event}
      /\ stage'.loop = IF r.loop THEN "open" ELSE stage.loop
  BY <1>1, <1>2 DEF Opened
<1>4. /\ stage.shown \in -1..Len(session) /\ stage.event \in 0..Len(session)
      /\ stage.heard \in 0..Len(session) /\ stage.missed \in BOOLEAN
      /\ stage.shown <= stage.event /\ stage.heard <= stage.event
  BY DEF StageInv, StageTypeOK, CursorLeads
<1>5. /\ stage'.shown \in 0..Len(session) /\ stage'.event \in 0..Len(session)
      /\ stage'.shown >= n /\ stage'.shown >= stage.shown
      /\ stage'.event \in {stage.event, n} /\ stage'.event >= stage.event
      /\ stage'.shown <= stage'.event
  BY <1>1, <1>3, <1>4, SameLog DEF Larger
<1>6. StageTypeOK'
  <2>1. \A q \in refreshes' : /\ q = [no |-> q.no, read |-> q.read, loop |-> q.loop]
                              /\ q.read \in -1..Len(session')
    BY <1>1 DEF StageInv, StageTypeOK
  <2>2. stage'.heard \in 0..Len(session') /\ stage'.missed \in BOOLEAN
    BY <1>1, <1>3, <1>4, <1>5
  <2> QED  BY <1>1, <1>3, <1>5, <2>1, <2>2 DEF StageTypeOK
<1>7. CursorLeads'
  <2>1. stage'.heard <= stage'.event
    BY <1>1, <1>3, <1>4, <1>5, SameLog
  <2>2. stage'.loop # "first"
    BY <1>3 DEF StageInv, CursorLeads
  <2> QED  BY <1>1, <1>3, <1>5, <2>1, <2>2, SameLog DEF CursorLeads
<1>8. WillBeCurrent'
  <2> SUFFICES ASSUME ~stage.missed, ~Covers(stage.shown)'
               PROVE  \E q \in refreshes' : q.read = -1 \/ Covers(q.read)'
    BY <1>1, <1>3, <1>5 DEF WillBeCurrent
  <2>0. VersionIn(session, stage'.shown) < VersionIn(session, stage'.event)
    BY <1>1, <1>5, SameLog DEF Covers
  <2>1. stage'.event = stage.event
    <3>1. VersionIn(session, n) <= VersionIn(session, stage'.shown)
      BY <1>1, <1>5, SameLog
    <3> QED  BY <3>1, <2>0, <1>1, <1>5, SameLog
  <2>2. ~Covers(n) /\ ~Covers(stage.shown) /\ n # -1
    <3>1. VersionIn(session, n) <= VersionIn(session, stage'.shown)
      BY <1>1, <1>5, SameLog
    <3>2. stage.shown # -1 => VersionIn(session, stage.shown) <= VersionIn(session, stage'.shown)
      <4> SUFFICES ASSUME stage.shown # -1
                   PROVE  VersionIn(session, stage.shown) <= VersionIn(session, stage'.shown)
        OBVIOUS
      <4>1. stage.shown \in 0..Len(session) /\ stage'.shown \in 0..Len(session)
        BY <1>4, <1>5, SameLog, <1>1
      <4>2. stage.shown <= stage'.shown
        BY <4>1, <1>5
      <4> QED  BY <4>1, <4>2, <1>1, SameLog
    <3>3. VersionIn(session, stage'.shown) < VersionIn(session, stage.event)
      BY <2>0, <2>1
    <3>4. /\ VersionIn(session, n) \in Nat /\ VersionIn(session, stage'.shown) \in Nat
          /\ VersionIn(session, stage.event) \in Nat
          /\ stage.shown # -1 => VersionIn(session, stage.shown) \in Nat
      BY <1>1, <1>4, <1>5, SameLog
    <3>5. ~Covers(n)
      BY <3>1, <3>3, <3>4 DEF Covers
    <3>6. ~Covers(stage.shown)
      BY <3>2, <3>3, <3>4 DEF Covers
    <3> QED  BY <3>5, <3>6, <1>1
  <2>3. stage.shown # -1
    <3>1. CASE stage.shown = -1
      <4>1. stage.event = 0 /\ stage'.shown = 0
        BY <2>1, <3>1, <1>5, SameLog, <1>1 DEF StageInv, CursorLeads
      <4> QED  BY <4>1, <2>0, <2>1, <1>1, SameLog
    <3> QED  BY <3>1
  <2>4. PICK q \in refreshes : q.read = -1 \/ Covers(q.read)
    BY <2>2, <2>3 DEF StageInv, WillBeCurrent
  <2>5. q \in refreshes'
    BY <1>1, <2>2, <2>4
  <2>6. q.read = -1 \/ Covers(q.read)'
    BY <2>1, <2>4, <1>1, SameLog DEF Covers
  <2> QED  BY <2>5, <2>6
<1> QED  BY <1>1, <1>6, <1>7, <1>8, SameLog DEF StageInv

\* A lost refresh is asked for again, or is noted as missed.
LEMMA LostKeepsStageInv ==
  ASSUME StageInv, NEW r \in refreshes, RefreshLost(r)
  PROVE  StageInv'
<1>0. session' = session
  BY DEF RefreshLost
<1>1. CASE stage.shown = -1
  <2>1. r.loop = TRUE
    BY <1>1 DEF StageInv, CursorLeads
  <2>2. stage' = stage /\ refreshes' = (refreshes \ {r}) \union {[r EXCEPT !.read = -1]}
    BY <1>1, <2>1 DEF RefreshLost
  <2>3. [r EXCEPT !.read = -1] = [no |-> r.no, read |-> -1, loop |-> r.loop]
    BY DEF StageInv, StageTypeOK
  <2>4. StageTypeOK'
    BY <1>0, <2>2, <2>3, SameLog DEF StageInv, StageTypeOK
  <2>5. CursorLeads'
    BY <1>0, <2>1, <2>2, <2>3, SameLog DEF StageInv, CursorLeads, StageTypeOK
  <2>6. WillBeCurrent'
    BY <1>1, <2>2 DEF WillBeCurrent
  <2> QED  BY <1>0, <2>4, <2>5, <2>6, SameLog DEF StageInv
<1>2. CASE stage.shown # -1
  <2>1. refreshes' = refreshes \ {r}
    BY <1>2 DEF RefreshLost
  <2>2. /\ stage' = [shown |-> stage.shown, count |-> stage.count, event |-> stage.event,
                     version |-> stage.version, loop |-> stage'.loop, heard |-> stage'.heard,
                     missed |-> TRUE]
        /\ stage'.heard \in {stage.heard, stage.event} /\ stage'.loop \in {stage.loop, "open"}
    BY <1>2 DEF RefreshLost, Opened, StageInv, StageTypeOK
  <2>3. /\ stage'.shown = stage.shown /\ stage'.event = stage.event
        /\ stage'.version = stage.version /\ stage'.missed = TRUE
    BY <2>2
  <2>4. StageTypeOK'
    BY <1>0, <2>1, <2>2, <2>3, SameLog DEF StageInv, StageTypeOK
  <2>5. CursorLeads'
    BY <1>0, <1>2, <2>1, <2>2, <2>3, SameLog DEF StageInv, CursorLeads, StageTypeOK
  <2>6. WillBeCurrent'
    BY <2>3 DEF WillBeCurrent
  <2> QED  BY <1>0, <2>4, <2>5, <2>6, SameLog DEF StageInv
<1> QED  BY <1>1, <1>2

LEMMA AskedIsAsked ==
  ASSUME NEW loop
  PROVE  /\ \A q \in Ask(loop) : q \in refreshes \/ q = [no |-> NextNo, read |-> -1, loop |-> loop]
         /\ [no |-> NextNo, read |-> -1, loop |-> loop] \in Ask(loop)
BY DEF Ask

\* handleEvent: a state event that moves the cursor asks for a refresh.
LEMMA EventKeepsStageInv == ASSUME StageInv, HandleEvent  PROVE StageInv'
<1> DEFINE n == stage.heard + 1
           heard == [stage EXCEPT !.heard = n]
           advanced == [heard EXCEPT !.event = n, !.version = VersionAt(n)]
<1>1. /\ session' = session /\ stage.loop = "open" /\ stage.heard < Len(session)
  BY DEF HandleEvent
<1>2. /\ stage.heard \in 0..Len(session) /\ stage.event \in 0..Len(session)
      /\ stage.shown \in 0..Len(session) /\ stage.shown <= stage.event
      /\ stage.heard <= stage.event /\ stage.version = VersionIn(session, stage.event)
      /\ Len(session) \in Nat /\ n \in 1..Len(session) /\ stage.missed \in BOOLEAN
  BY <1>1, SameLog DEF StageInv, StageTypeOK, CursorLeads
<1>3. heard = [shown |-> stage.shown, count |-> stage.count, event |-> stage.event,
               version |-> stage.version, loop |-> stage.loop, heard |-> n, missed |-> stage.missed]
  BY DEF StageInv, StageTypeOK
<1>4. advanced = [shown |-> stage.shown, count |-> stage.count, event |-> n,
                  version |-> VersionIn(session, n), loop |-> stage.loop, heard |-> n,
                  missed |-> stage.missed]
  <2>1. VersionAt(n) = VersionIn(session, n) /\ advanced = [heard EXCEPT !.event = n, !.version = VersionAt(n)]
    BY DEF VersionAt, VersionIn
  <2> HIDE DEF heard, advanced
  <2> QED  BY <1>3, <2>1
<1>5. CASE ~Applies(n)
  <2>1. stage' = heard /\ refreshes' = refreshes
    BY <1>5 DEF HandleEvent
  <2> HIDE DEF heard
  <2>2. n <= stage.event
    BY <1>1, <1>2, <1>5, SameLog DEF Applies, VersionAt, VersionIn
  <2>3. StageTypeOK'
    BY <1>1, <1>2, <1>3, <2>1 DEF StageInv, StageTypeOK
  <2>4. CursorLeads'
    BY <1>1, <1>2, <1>3, <2>1, <2>2, SameLog DEF StageInv, CursorLeads
  <2>5. WillBeCurrent'
    BY <1>1, <1>3, <2>1, SameLog DEF StageInv, WillBeCurrent, Covers
  <2> QED  BY <1>1, <2>3, <2>4, <2>5, SameLog DEF StageInv
<1>6. CASE Applies(n)
  <2>1. /\ stage' = [shown |-> stage.shown, count |-> stage'.count, event |-> n,
                     version |-> VersionIn(session, n), loop |-> stage.loop, heard |-> n,
                     missed |-> stage.missed]
        /\ \/ session[n].kind = "presence" /\ refreshes' = refreshes
           \/ session[n].kind # "presence" /\ refreshes' = Ask(FALSE)
    BY <1>4, <1>6 DEF HandleEvent
  <2>2. /\ stage'.shown = stage.shown /\ stage'.event = n /\ stage'.heard = n
        /\ stage'.version = VersionIn(session, n) /\ stage'.missed = stage.missed
        /\ stage'.loop = "open"
    BY <1>1, <2>1
  <2>3. n = stage.event + 1
    BY <1>2, <1>6 DEF Applies, VersionAt, VersionIn
  <2>4. StageTypeOK'
    <3>1. \A q \in refreshes' : /\ q = [no |-> q.no, read |-> q.read, loop |-> q.loop]
                                /\ q.read \in -1..Len(session')
      <4>1. refreshes' \subseteq refreshes \union {[no |-> NextNo, read |-> -1, loop |-> FALSE]}
        BY <2>1 DEF Ask
      <4>2. -1 \in -1..Len(session)
        BY <1>2
      <4> QED  BY <4>1, <4>2, <1>1 DEF StageInv, StageTypeOK
    <3> QED  BY <1>1, <1>2, <2>1, <2>2, <3>1 DEF StageTypeOK
  <2>5. CursorLeads'
    BY <1>1, <1>2, <2>2, <2>3, SameLog DEF CursorLeads
  <2>6. WillBeCurrent'
    <3> SUFFICES ASSUME ~stage.missed
                 PROVE  \/ Covers(stage.shown)'
                        \/ \E q \in refreshes' : q.read = -1 \/ Covers(q.read)'
      BY <2>2 DEF WillBeCurrent
    <3>1. CASE session[n].kind = "presence"
      <4>1. VersionIn(session, n) = VersionIn(session, stage.event) /\ refreshes' = refreshes
        <5>1. session[n].version = VersionIn(session, n - 1)
          <6>1. session[n].version = VersionIn(session, n - 1) + (IF session[n].kind = "state" THEN 1 ELSE 0)
            BY <1>2 DEF StageInv, LogIsOrdered
          <6>2. VersionIn(session, n - 1) \in Nat
            BY <1>1, <1>2, SameLog
          <6> QED  BY <6>1, <6>2, <3>1
        <5> QED  BY <5>1, <3>1, <2>1, <2>3, <1>2 DEF VersionIn
      <4>2. \A k : Covers(k) => Covers(k)'
        BY <4>1, <2>2, <1>1, SameLog DEF Covers
      <4>3. Covers(stage.shown) \/ \E q \in refreshes : q.read = -1 \/ Covers(q.read)
        BY <1>2 DEF StageInv, WillBeCurrent
      <4> QED  BY <4>1, <4>2, <4>3, <2>2
    <3>2. CASE session[n].kind # "presence"
      <4>1. [no |-> NextNo, read |-> -1, loop |-> FALSE] \in refreshes'
        BY <3>2, <2>1, AskedIsAsked
      <4> QED  BY <4>1
    <3> QED  BY <3>1, <3>2
  <2> QED  BY <1>1, <2>4, <2>5, <2>6, SameLog DEF StageInv
<1> QED  BY <1>5, <1>6

\* The stream closes, or the loop ends.
LEMMA CloseKeepsStageInv == ASSUME StageInv, StreamCloses \/ StageStops  PROVE StageInv'
<1>1. session' = session /\ stage.loop \in {"open", "first"}
  BY DEF StreamCloses, StageStops
<1>2. /\ stage' = [shown |-> stage.shown, count |-> stage.count, event |-> stage.event,
                   version |-> stage.version, loop |-> stage'.loop, heard |-> stage.heard,
                   missed |-> stage.missed]
  BY DEF StreamCloses, StageStops, StageInv, StageTypeOK
<1>3. /\ stage'.shown = stage.shown /\ stage'.event = stage.event /\ stage'.heard = stage.heard
      /\ stage'.version = stage.version /\ stage'.missed = stage.missed
      /\ stage'.loop \in {"closed", "stopped"}
  <2>1. stage'.loop \in {"closed", "stopped"}
    BY DEF StreamCloses, StageStops, StageInv, StageTypeOK
  <2> QED  BY <1>2, <2>1
<1>4. \/ refreshes' = Ask(TRUE) /\ stage.shown # -1
      \/ refreshes' = refreshes /\ stage'.loop = "stopped"
      \/ refreshes' = {} /\ stage'.loop = "stopped" /\ stage.loop = "first"
  BY <1>2 DEF StreamCloses, StageStops, StageInv, StageTypeOK, CursorLeads
<1>5. \A q \in refreshes' : /\ q = [no |-> q.no, read |-> q.read, loop |-> q.loop]
                            /\ q.read \in -1..Len(session')
  <2>1. refreshes' \subseteq refreshes \union {[no |-> NextNo, read |-> -1, loop |-> TRUE]}
    BY <1>4 DEF Ask
  <2>2. -1 \in -1..Len(session)
    BY <1>1, SameLog
  <2> QED  BY <2>1, <2>2, <1>1 DEF StageInv, StageTypeOK
<1>6. StageTypeOK'
  BY <1>1, <1>2, <1>3, <1>5 DEF StageTypeOK, StageInv
<1>7. CursorLeads'
  BY <1>1, <1>3, <1>4, SameLog DEF CursorLeads, StageInv
<1>8. WillBeCurrent'
  <2>1. CASE refreshes' = Ask(TRUE)
    <3>1. [no |-> NextNo, read |-> -1, loop |-> TRUE] \in refreshes'
      BY <2>1, AskedIsAsked
    <3>2. \E q \in refreshes' : q.read = -1
      BY <3>1
    <3> QED  BY <3>2 DEF WillBeCurrent
  <2>2. CASE refreshes' = refreshes
    BY <2>2, <1>1, <1>3 DEF WillBeCurrent, Covers, StageInv
  <2>3. CASE stage.loop = "first" /\ refreshes' = {}
    BY <2>3, <1>1, <1>3 DEF WillBeCurrent, StageInv, CursorLeads
  <2> QED  BY <1>4, <2>1, <2>2, <2>3
<1> QED  BY <1>1, <1>6, <1>7, <1>8, SameLog DEF StageInv

\* One case per action.
LEMMA StageInvStep == StageInv /\ [StageNext]_stageVars => StageInv'
<1> SUFFICES ASSUME StageInv, [StageNext]_stageVars  PROVE StageInv'
  OBVIOUS
<1>1. CASE UNCHANGED stageVars
  BY <1>1, SameLog DEF stageVars, StageInv, StageTypeOK, CursorLeads, WillBeCurrent, Covers
<1>2. CASE StageNext
  BY <1>2, MovesKeepStageInv, ReadKeepsStageInv, ReplyKeepsStageInv, LostKeepsStageInv,
     EventKeepsStageInv, CloseKeepsStageInv DEF StageNext
<1> QED  BY <1>1, <1>2

\* StageIsCurrentWhenQuiet: in a session of any length, however many refreshes
\* overlap (StageRoute's refreshSnapshot, applySnapshot), a quiet stage that lost
\* none shows the state the session is in.
THEOREM StageCatchesUp == StageSpec => []StageIsCurrentWhenQuiet
<1>1. StageInv => StageIsCurrentWhenQuiet
  <2> SUFFICES ASSUME StageInv, stage.loop = "open", stage.heard = Len(session),
                      refreshes = {}, ~stage.missed
               PROVE  VersionIn(session, stage.shown) = VersionIn(session, Len(session))
    BY DEF StageIsCurrentWhenQuiet, VersionAt, VersionIn
  <2>1. /\ stage.shown \in 0..Len(session) /\ stage.event = Len(session)
        /\ VersionIn(session, stage.shown) >= VersionIn(session, stage.event)
    BY DEF StageInv, LogIsOrdered, StageTypeOK, CursorLeads, WillBeCurrent, Covers
  <2>2. VersionIn(session, stage.shown) <= VersionIn(session, Len(session))
    BY <2>1 DEF StageInv, LogIsOrdered
  <2>3. VersionIn(session, stage.shown) \in Nat /\ VersionIn(session, Len(session)) \in Nat
    BY <2>1, VersionsAreNat DEF StageInv, LogIsOrdered
  <2> QED  BY <2>1, <2>2, <2>3
<1> QED  BY <1>1, StageInvInit, StageInvStep, PTL DEF StageSpec
-----------------------------------------------------------------------------
(* Presenting.                                                             *)

States == {"lobby", "presenting", "ended"}
Phases == {"none", "accepting", "closed", "revealed"}
Actions == {"present_item", "close_activity", "reveal_activity", "show_overall_ranking", "end"}
IsSession(s) ==
  /\ s = [state |-> s.state, item |-> s.item, phase |-> s.phase, ranking |-> s.ranking, version |-> s.version]
  /\ s.state \in States /\ s.phase \in Phases /\ s.ranking \in BOOLEAN
IsDesk(d) == d = [session |-> d.session, item |-> d.item, fallback |-> d.fallback,
                  current |-> d.current, ranked |-> d.ranked]
IsCommand(c) == c = [step |-> c.step, actions |-> c.actions, target |-> c.target,
                     then |-> c.then, pressed |-> c.pressed]
Endings == {<<>>, <<"end">>, <<"close_activity", "end">>}
Moves == {<<>>, <<"close_activity">>, <<"reveal_activity">>, <<"close_activity", "reveal_activity">>,
          <<"present_item">>, <<"show_overall_ranking">>}
Steps == {"idle", "act", "refresh", "roster"}

PresentingTypeOK ==
  /\ IsSession(run) /\ IsDesk(desk) /\ IsSession(desk.session) /\ IsCommand(command)
  /\ command.step \in Steps /\ command.actions \in Endings \union Moves
  /\ command.step = "act" => command.actions # <<>>

\* No activity is open in an ended session: its deadline cannot pass.
EndedIsQuiet == run.state = "ended" => run.phase = "none"
\* The page knows of the end only once it has happened.
DeskIsBehind == desk.session.state = "ended" \/ desk.fallback = "final" => run.state = "ended"
\* A press for the end sends commands whose last is "end" ...
EndsEnd == command.then = "onEndGame" => command.actions \in Endings
\* ... and when nothing is left to send, it has been accepted.
EndIsDone == command.then = "onEndGame" /\ command.step \in {"refresh", "roster"} => run.state = "ended"

PodiumInv == PresentingTypeOK /\ EndedIsQuiet /\ DeskIsBehind /\ EndsEnd /\ EndIsDone
USE DEF States, Phases, Steps, Actions
-----------------------------------------------------------------------------
(* The operators.                                                          *)

\* What the effects of the controller make of a projection: view and counter
\* follow what is on the stage, and in the lobby nothing is.
LEMMA ProjectedForms ==
  ASSUME NEW d, IsDesk(d)
  PROVE  LET ranked == IF d.session.ranking THEN d.session.item ELSE 0
         IN \E c \in {d.current, d.item, ranked}, f \in {d.fallback, "question", "content", "ranking"} :
              /\ Projected(d) = [session |-> d.session, item |-> d.item, fallback |-> f,
                                 current |-> c, ranked |-> ranked]
              /\ d.session.state = "lobby" /\ d.session.ranking = FALSE => f = d.fallback
<1> DEFINE ranked == IF d.session.ranking THEN d.session.item ELSE 0
           e == [d EXCEPT !.ranked = ranked]
           Form(c, f) == [session |-> d.session, item |-> d.item, fallback |-> f,
                          current |-> c, ranked |-> ranked]
<1>1. /\ e = Form(d.current, d.fallback)
      /\ \A c, f : [e EXCEPT !.current = c, !.fallback = f] = Form(c, f)
  <2> HIDE DEF ranked
  <2>1. e = Form(d.current, d.fallback)
    BY DEF IsDesk
  <2> HIDE DEF e
  <2>2. ASSUME NEW c, NEW f, NEW x, x = [e EXCEPT !.current = c, !.fallback = f]
        PROVE  x = Form(c, f)
    BY <2>1, <2>2
  <2> QED  BY <2>1, <2>2
<1>2. d.session.state = "lobby" /\ d.session.ranking = FALSE =>
        QuestionOf(d) = 0 /\ ContentOf(d) = 0 /\ ranked = 0
  BY DEF QuestionOf, ContentOf, OnStage
<1>3. CASE QuestionOf(d) # 0
  <2>1. ContentOf(d) = 0 /\ ~d.session.ranking
    BY <1>3 DEF QuestionOf, ContentOf, OnStage
  <2>2. Projected(d) = Form(d.item, "question")
    BY <1>1, <1>3, <2>1 DEF Projected
  <2> QED  BY <1>2, <1>3, <2>2
<1>4. CASE QuestionOf(d) = 0 /\ ContentOf(d) # 0
  <2>1. ~d.session.ranking
    BY <1>4 DEF ContentOf, OnStage
  <2>2. Projected(d) = Form(d.item, "content")
    BY <1>1, <1>4, <2>1 DEF Projected
  <2> QED  BY <1>2, <1>4, <2>2
<1>5. CASE QuestionOf(d) = 0 /\ ContentOf(d) = 0 /\ ranked # 0 /\ ranked # d.ranked
  <2>1. Projected(d) = Form(ranked, "ranking")
    BY <1>1, <1>5 DEF Projected
  <2> QED  BY <1>2, <1>5, <2>1
<1>6. CASE QuestionOf(d) = 0 /\ ContentOf(d) = 0 /\ ~(ranked # 0 /\ ranked # d.ranked)
  <2>1. Projected(d) = Form(d.current, d.fallback)
    BY <1>1, <1>6 DEF Projected
  <2> QED  BY <2>1
<1> QED  BY <1>3, <1>4, <1>5, <1>6

\* What they leave alone: the session, and "final".
LEMMA ProjectedKeeps ==
  ASSUME NEW d, IsDesk(d)
  PROVE  /\ IsDesk(Projected(d))
         /\ Projected(d).session = d.session
         /\ Projected(d).fallback = "final" => d.fallback = "final"
<1>1. PICK c, f, r :
        /\ Projected(d) = [session |-> d.session, item |-> d.item, fallback |-> f,
                           current |-> c, ranked |-> r]
        /\ f \in {d.fallback, "question", "content", "ranking"}
  BY ProjectedForms
<1> QED  BY <1>1 DEF IsDesk

LEMMA PlansAreKnown ==
  ASSUME NEW s, NEW target
  PROVE  PlanLiveNavigation(s, target) \in Moves /\ PlanLiveEnd(s) \in Endings
  BY DEF PlanLiveNavigation, PlanLiveEnd, Moves, Endings

\* An end is planned with nothing to send only for a session that has ended.
LEMMA EmptyEnd ==
  ASSUME NEW s, PlanLiveEnd(s) = <<>>
  PROVE  s.state = "ended"
  BY DEF PlanLiveEnd

\* A session that takes a command is not over; "end" ends it, nothing else does.
LEMMA AppliedIsSession ==
  ASSUME NEW s, IsSession(s), NEW action \in Actions, NEW target, CanApply(s, action)
  PROVE  /\ IsSession(Applied(s, action, target))
         /\ s.state # "ended"
         /\ Applied(s, action, target).state = "ended" => Applied(s, action, target).phase = "none"
         /\ action = "end" <=> Applied(s, action, target).state = "ended"
<1> DEFINE t == [s EXCEPT !.version = @ + 1]
<1>1. t = [state |-> s.state, item |-> s.item, phase |-> s.phase, ranking |-> s.ranking,
           version |-> s.version + 1]
  BY DEF IsSession
<1>2. CASE action = "present_item"
  BY <1>1, <1>2 DEF Applied, CanApply, IsSession
<1>3. CASE action = "close_activity"
  BY <1>1, <1>3 DEF Applied, CanApply, IsSession
<1>4. CASE action = "reveal_activity"
  BY <1>1, <1>4 DEF Applied, CanApply, IsSession
<1>5. CASE action = "show_overall_ranking"
  BY <1>1, <1>5 DEF Applied, CanApply, IsSession
<1>6. CASE action = "end"
  BY <1>1, <1>6 DEF Applied, CanApply, IsSession
<1> QED  BY <1>2, <1>3, <1>4, <1>5, <1>6

LEMMA HandleNextKeeps ==
  ASSUME NEW d, IsDesk(d), NEW p
  PROVE  /\ IsDesk(HandleNext(d, p)) /\ HandleNext(d, p).session = d.session
         /\ HandleNext(d, p).fallback = "final" => d.fallback = "final"
<1>1. CASE p.fallback = "join"
  BY <1>1 DEF HandleNext, IsDesk
<1>2. CASE p.fallback # "join" /\ p.current < Last
  BY <1>2 DEF HandleNext, IsDesk
<1>3. CASE p.fallback # "join" /\ ~(p.current < Last)
  BY <1>3 DEF HandleNext, IsDesk
<1> QED  BY <1>1, <1>2, <1>3
-----------------------------------------------------------------------------
(* The steps.                                                              *)

LEMMA PodiumInvInit == PresentingInit => PodiumInv
<1> SUFFICES ASSUME PresentingInit  PROVE PodiumInv
  OBVIOUS
<1>1. /\ run = [state |-> "lobby", item |-> 0, phase |-> "none", ranking |-> FALSE, version |-> 1]
      /\ desk = [session |-> run, item |-> run.item, fallback |-> "join", current |-> 1, ranked |-> 0]
  BY DEF PresentingInit, Lobby, Fresh
<1>2. command = [step |-> "idle", actions |-> <<>>, target |-> 0, then |-> "none",
                 pressed |-> [fallback |-> "join"]]
  BY DEF PresentingInit, Idle
<1>3. PresentingTypeOK
  BY <1>1, <1>2 DEF PresentingTypeOK, IsSession, IsDesk, IsCommand, Endings
<1> QED  BY <1>1, <1>2, <1>3 DEF PodiumInv, EndedIsQuiet, DeskIsBehind, EndsEnd, EndIsDone

\* A page that learns of a new state of the session keeps up with it.
LEMMA DeskStep ==
  ASSUME PodiumInv, NEW d, IsDesk(d), IsSession(d.session),
         d.session.state = "ended" \/ d.fallback = "final" => run.state = "ended",
         desk' = Projected(d), run' = run,
         \/ command' \in {command, Idle}
         \/ command.step = "refresh" /\ command' = [command EXCEPT !.step = "roster"]
  PROVE  PodiumInv'
<1>1. IsDesk(desk') /\ desk'.session = d.session /\ (desk'.fallback = "final" => d.fallback = "final")
  BY ProjectedKeeps
<1>2. /\ IsCommand(command') /\ command'.step \in Steps
      /\ command'.actions \in Endings \union Moves
      /\ command'.step = "act" => command'.actions # <<>>
      /\ EndsEnd'
  BY DEF PodiumInv, PresentingTypeOK, IsCommand, Idle, Endings, EndsEnd
<1>3. EndIsDone'
  BY DEF PodiumInv, PresentingTypeOK, IsCommand, Idle, EndIsDone
<1>4. PresentingTypeOK'
  BY <1>1, <1>2 DEF PodiumInv, PresentingTypeOK
<1> QED  BY <1>1, <1>2, <1>3, <1>4 DEF PodiumInv, EndedIsQuiet, DeskIsBehind

\* A snapshot read from the server is as it is there.
LEMMA SnapshotIsDesk ==
  ASSUME PodiumInv, NEW d, d = [desk EXCEPT !.session = run, !.item = run.item]
  PROVE  IsDesk(d) /\ d.session = run /\ d.fallback = desk.fallback
  BY DEF PodiumInv, PresentingTypeOK, IsDesk

LEMMA LookingKeeps ==
  ASSUME PodiumInv, HearEvent \/ Reproject \/ ReopenDesk \/ Refresh
  PROVE  PodiumInv'
<1> DEFINE d == [desk EXCEPT !.session = run, !.item = run.item]
<1>1. IsDesk(d) /\ d.session = run /\ d.fallback = desk.fallback
  BY SnapshotIsDesk
<1>2. /\ IsSession(run) /\ IsDesk(desk) /\ IsSession(desk.session)
      /\ desk.session.state = "ended" \/ desk.fallback = "final" => run.state = "ended"
  BY DEF PodiumInv, PresentingTypeOK, DeskIsBehind
<1>3. CASE HearEvent \/ Refresh
  <2>1. desk' = Projected(d)
    BY <1>3 DEF HearEvent, Refresh, Snapshot
  <2> HIDE DEF d
  <2> QED  BY <1>1, <1>2, <1>3, <2>1, DeskStep DEF HearEvent, Refresh
<1>4. CASE Reproject
  BY <1>2, <1>4, DeskStep DEF Reproject
<1>5. CASE ReopenDesk
  <2>1. IsDesk(Fresh) /\ Fresh.session = run /\ Fresh.fallback = "join"
    BY DEF Fresh, IsDesk
  <2> QED  BY <1>2, <1>5, <2>1, DeskStep DEF ReopenDesk
<1> QED  BY <1>3, <1>4, <1>5

\* The press that returns sets "final" only after an end.
LEMMA ConfirmedKeeps ==
  ASSUME PodiumInv, Confirmed
  PROVE  PodiumInv'
<1>1. PICK d \in {desk, Projected(desk)} : desk' = Continue(d)
  BY DEF Confirmed
<1>2. IsDesk(d) /\ d.session = desk.session /\ (d.fallback = "final" => desk.fallback = "final")
  BY ProjectedKeeps DEF PodiumInv, PresentingTypeOK
<1>3. /\ command' = Idle /\ run' = run
      /\ command.then = "onEndGame" => run.state = "ended"
  BY DEF Confirmed, PodiumInv, EndIsDone
<1>4. IsDesk(desk') /\ desk'.session = desk.session
      /\ (desk'.fallback = "final" => desk.fallback = "final" \/ command.then = "onEndGame")
  <2>1. CASE command.then = "onNext"
    BY <1>1, <1>2, <2>1, HandleNextKeeps DEF Continue
  <2>2. CASE command.then = "onEndGame"
    BY <1>1, <1>2, <2>2 DEF Continue, IsDesk
  <2>3. CASE command.then \notin {"onNext", "onEndGame"}
    BY <1>1, <1>2, <2>3 DEF Continue
  <2> QED  BY <2>1, <2>2, <2>3
<1>5. /\ IsCommand(command') /\ command'.step = "idle" /\ command'.actions = <<>>
      /\ command'.then = "none"
  BY <1>3 DEF Idle, IsCommand
<1>6. PresentingTypeOK'
  BY <1>3, <1>4, <1>5 DEF PodiumInv, PresentingTypeOK, Endings
<1> QED  BY <1>3, <1>4, <1>5, <1>6 DEF PodiumInv, EndedIsQuiet, DeskIsBehind, EndsEnd, EndIsDone

LEMMA DeadlineKeeps ==
  ASSUME PodiumInv, DeadlinePasses
  PROVE  PodiumInv'
<1>1. /\ run' = [[run EXCEPT !.version = @ + 1] EXCEPT !.phase = "closed"]
      /\ run.state # "ended" /\ desk' = desk /\ command' = command
  BY DEF DeadlinePasses, Applied, PodiumInv, EndedIsQuiet
<1>2. IsSession(run') /\ run'.state = run.state
  BY <1>1 DEF PodiumInv, PresentingTypeOK, IsSession
<1>3. PresentingTypeOK'
  BY <1>1, <1>2 DEF PodiumInv, PresentingTypeOK
<1> QED  BY <1>1, <1>2, <1>3 DEF PodiumInv, EndedIsQuiet, DeskIsBehind, EndsEnd, EndIsDone

\* What a press may plan: commands of the two kinds, nothing for an end only
\* when the page knows that it has happened.
Sound(plan) ==
  /\ plan = [actions |-> plan.actions, target |-> plan.target, then |-> plan.then]
  /\ plan.actions \in Endings \union Moves
  /\ plan.then = "onEndGame" =>
       plan.actions \in Endings /\ (plan.actions = <<>> => desk.session.state = "ended")

LEMMA MovingIsSound ==
  ASSUME NEW target, NEW then \in {"none", "onNext"}
  PROVE  Sound(Moving(desk, target, then))
  BY PlansAreKnown DEF Sound, Moving, Plan

LEMMA EndingIsSound == Sound(Ending(desk))
<1>1. Ending(desk) = [actions |-> PlanLiveEnd(desk.session), target |-> 0, then |-> "onEndGame"]
  BY DEF Ending, Plan
<1>2. /\ PlanLiveEnd(desk.session) \in Endings
      /\ PlanLiveEnd(desk.session) = <<>> => desk.session.state = "ended"
  BY PlansAreKnown, EmptyEnd
<1> QED  BY <1>1, <1>2 DEF Sound

LEMMA SingleIsSound ==
  ASSUME NEW action \in {"close_activity", "reveal_activity", "show_overall_ranking"}
  PROVE  Sound(Plan(<<action>>, 0, "none"))
  BY DEF Sound, Plan, Moves

LEMMA PressIsSound ==
  ASSUME NEW plan \in {FooterNext(desk), BackstageNext(desk), Ending(desk)}
  PROVE  Sound(plan)
<1> DEFINE onward == IF NextSlide(desk) = 0 THEN Ending(desk) ELSE Moving(desk, NextSlide(desk), "onNext")
<1>1. Sound(onward)
  BY MovingIsSound, EndingIsSound
<1>2. Sound(FooterNext(desk))
  <2>1. CASE ViewOf(desk) = "join"
    BY <2>1, MovingIsSound DEF FooterNext
  <2>2. CASE ViewOf(desk) = "question"
    BY <2>2, MovingIsSound, EndingIsSound DEF FooterNext
  <2>3. CASE ViewOf(desk) \notin {"join", "question"}
    BY <1>1, <2>3 DEF FooterNext
  <2> QED  BY <2>1, <2>2, <2>3
<1>3. Sound(BackstageNext(desk))
  <2> DEFINE phase == desk.session.phase
             board == phase = "revealed" /\ QuestionOf(desk) # 0 /\ show[desk.item] = "ranked"
  <2>1. BackstageNext(desk) \in {onward, Moving(desk, 1, "onNext"), Plan(<<"close_activity">>, 0, "none"),
                                 Plan(<<"reveal_activity">>, 0, "none"),
                                 Plan(<<"show_overall_ranking">>, 0, "none")}
    BY DEF BackstageNext
  <2> QED  BY <1>1, <2>1, MovingIsSound, SingleIsSound
<1> QED  BY <1>2, <1>3, EndingIsSound

LEMMA PressKeeps ==
  ASSUME PodiumInv, PressNext \/ PressBackstage \/ PressEnd
  PROVE  PodiumInv'
<1>1. PICK plan \in {FooterNext(desk), BackstageNext(desk), Ending(desk)} : Begin(plan)
  BY DEF PressNext, PressBackstage, PressEnd
<1>2. Sound(plan)
  BY PressIsSound
<1>3. /\ run' = run /\ desk' = desk
      /\ command' = [step |-> IF plan.actions = <<>> THEN "refresh" ELSE "act",
                     actions |-> plan.actions, target |-> plan.target, then |-> plan.then,
                     pressed |-> Closure(desk)]
  BY <1>1 DEF Begin
<1>4. PresentingTypeOK'
  BY <1>2, <1>3 DEF PodiumInv, PresentingTypeOK, IsCommand, Sound
<1>5. EndsEnd' /\ EndIsDone'
  BY <1>2, <1>3 DEF PodiumInv, DeskIsBehind, EndsEnd, EndIsDone, Sound
<1> QED  BY <1>3, <1>4, <1>5 DEF PodiumInv, EndedIsQuiet, DeskIsBehind

\* Of the commands of a press the first is one the session knows; the rest are
\* again such, and end with "end" if they did.
LEMMA CommandsShrink ==
  ASSUME NEW actions \in Endings \union Moves, actions # <<>>
  PROVE  /\ Head(actions) \in Actions
         /\ Tail(actions) \in Endings \union Moves
         /\ Len(actions) = 1 <=> Tail(actions) = <<>>
         /\ actions \in Endings => Tail(actions) \in Endings
         /\ actions \in Endings /\ Tail(actions) = <<>> => Head(actions) = "end"
<1>1. CASE \E a \in Actions : actions = <<a>>
  <2>1. PICK a \in Actions : actions = <<a>>
    BY <1>1
  <2>2. Head(actions) = a /\ Tail(actions) = <<>> /\ Len(actions) = 1
    BY <2>1
  <2> QED  BY <2>1, <2>2 DEF Endings
<1>2. CASE \E b \in {"end", "reveal_activity"} : actions = <<"close_activity", b>>
  <2>1. PICK b \in {"end", "reveal_activity"} : actions = <<"close_activity", b>>
    BY <1>2
  <2>2. Head(actions) = "close_activity" /\ Tail(actions) = <<b>> /\ Len(actions) = 2
    BY <2>1
  <2> QED  BY <2>1, <2>2 DEF Endings, Moves
<1> QED  BY <1>1, <1>2 DEF Endings, Moves

\* What a command the session accepts does to it.
LEMMA AcceptedKeeps ==
  ASSUME PodiumInv, command.step = "act", Accepts(Head(command.actions)),
         NEW r, r = Applied(run, Head(command.actions), command.target)
  PROVE  /\ IsSession(r) /\ run.state # "ended" /\ (r.state = "ended" => r.phase = "none")
         /\ Head(command.actions) = "end" <=> r.state = "ended"
  BY CommandsShrink, AppliedIsSession DEF PodiumInv, PresentingTypeOK, Accepts

LEMMA SendKeeps ==
  ASSUME PodiumInv, SendAction
  PROVE  PodiumInv'
<1> DEFINE d == [desk EXCEPT !.session = run']
<1>1. /\ command.step = "act" /\ Accepts(Head(command.actions))
      /\ run' = Applied(run, Head(command.actions), command.target)
      /\ desk' = Projected(d)
      /\ command' = [command EXCEPT !.actions = Tail(@), !.step = IF Len(command.actions) = 1 THEN "refresh" ELSE @]
  BY DEF SendAction
<1>2. /\ IsSession(run') /\ run.state # "ended" /\ EndedIsQuiet'
      /\ Head(command.actions) = "end" => run'.state = "ended"
  BY <1>1, AcceptedKeeps DEF EndedIsQuiet
<1>3. IsDesk(d) /\ d.session = run' /\ d.fallback = desk.fallback
  BY DEF PodiumInv, PresentingTypeOK, IsDesk
<1> HIDE DEF d
<1>4. IsDesk(desk') /\ desk'.session = run' /\ (desk'.fallback = "final" => run.state = "ended")
  BY <1>1, <1>3, ProjectedKeeps DEF PodiumInv, DeskIsBehind
<1>5. command.actions \in Endings \union Moves /\ command.actions # <<>>
  BY <1>1 DEF PodiumInv, PresentingTypeOK
<1>6. /\ IsCommand(command') /\ command'.then = command.then /\ command'.actions = Tail(command.actions)
      /\ command'.step = IF Len(command.actions) = 1 THEN "refresh" ELSE "act"
  BY <1>1 DEF PodiumInv, PresentingTypeOK, IsCommand
<1>7. PresentingTypeOK'
  BY <1>2, <1>4, <1>5, <1>6, CommandsShrink DEF PresentingTypeOK
<1>8. EndsEnd' /\ EndIsDone'
  BY <1>2, <1>5, <1>6, CommandsShrink DEF PodiumInv, EndsEnd, EndIsDone
<1> QED  BY <1>2, <1>4, <1>7, <1>8 DEF PodiumInv, DeskIsBehind

\* A press that fails leaves the page as it was; the session has at most moved.
LEMMA FailureKeeps ==
  ASSUME PodiumInv, ActionFails
  PROVE  PodiumInv'
<1>1. /\ command.step = "act" /\ desk' = desk /\ command' = Idle
      /\ \/ run' = run
         \/ /\ Accepts(Head(command.actions))
            /\ run' = Applied(run, Head(command.actions), command.target)
  BY DEF ActionFails, NotConfirmed
<1>2. IsSession(run') /\ EndedIsQuiet' /\ (run.state = "ended" => run'.state = "ended")
  BY <1>1, AcceptedKeeps DEF PodiumInv, PresentingTypeOK, EndedIsQuiet
<1>3. /\ IsCommand(command') /\ command'.step = "idle" /\ command'.actions = <<>>
      /\ command'.then = "none"
  BY <1>1 DEF Idle, IsCommand
<1>4. PresentingTypeOK'
  BY <1>1, <1>2, <1>3 DEF PodiumInv, PresentingTypeOK, Endings
<1> QED  BY <1>1, <1>2, <1>3, <1>4 DEF PodiumInv, DeskIsBehind, EndsEnd, EndIsDone
-----------------------------------------------------------------------------
LEMMA PodiumInvStep == PodiumInv /\ [PresentingNext]_presentingVars => PodiumInv'
<1>1. ASSUME PodiumInv, UNCHANGED presentingVars  PROVE PodiumInv'
  BY <1>1 DEF presentingVars, PodiumInv, PresentingTypeOK, EndedIsQuiet, DeskIsBehind, EndsEnd, EndIsDone
<1> QED  BY <1>1, DeadlineKeeps, LookingKeeps, PressKeeps, SendKeeps, FailureKeeps, ConfirmedKeeps
         DEF PresentingNext

\* PodiumMeansEnded: for any presentations and any number of presses, answers
\* lost and pages reopened, a presenter's page that shows the podium shows it of
\* a session that has ended (sendEnd, handleEndGame and managerLiveStage).
THEOREM PodiumIsOfTheEnded == PresentingSpec => []PodiumMeansEnded
<1>1. PodiumInv => PodiumMeansEnded
  <2> SUFFICES ASSUME PodiumInv, ViewOf(desk) = "final"  PROVE run.state = "ended"
    BY DEF PodiumMeansEnded
  <2>1. desk.fallback = "final" \/ desk.session.state = "ended"
    BY DEF ViewOf
  <2> QED  BY <2>1 DEF PodiumInv, DeskIsBehind
<1> QED  BY <1>1, PodiumInvInit, PodiumInvStep, PTL DEF PresentingSpec
-----------------------------------------------------------------------------
(* Why an up-to-date page is never a dead end (NextIsNeverRefused).  What   *)
(* it offers depends on view and phase; the view is the fallback when the  *)
(* stage shows nothing, which only the lobby (LobbyIsFirst) and content    *)
(* with a phase would make wrong (Legal).                                  *)

\* A presenting session is on an item, and has a phase iff that is an activity.
Legal(s) ==
  /\ s.item \in Nat
  /\ s.phase # "none" => s.state = "presenting"
  /\ s.state = "lobby" => s.ranking = FALSE
  /\ s.state = "presenting" => s.item \in 1..Last /\ (s.phase = "none" <=> show[s.item] = "content")
Counted(d) == d.current \in Nat /\ d.item \in Nat /\ d.session.item \in Nat

\* Nobody leaves the join page for a session that has not begun ...
LobbyIsFirst ==
  run.state = "lobby" =>
    desk.fallback = "join" /\ desk.session.state = "lobby" /\ desk.session.ranking = FALSE
\* ... for a press that goes on has had its command accepted.
MovedOn == command.then = "onNext" /\ command.step \in {"refresh", "roster"} => run.state # "lobby"
TargetFits == command.actions = <<"present_item">> => command.target \in 1..Last

OnwardInv ==
  /\ show \in Shows /\ Legal(run) /\ Counted(desk)
  /\ LobbyIsFirst /\ MovedOn /\ TargetFits

LEMMA ShowIsLong == ASSUME show \in Shows  PROVE Last \in Nat \ {0}
  BY PresentingAssumption DEF Last

LEMMA OnwardInvInit == PresentingInit => OnwardInv
<1> SUFFICES ASSUME PresentingInit  PROVE OnwardInv
  OBVIOUS
<1>1. /\ run = [state |-> "lobby", item |-> 0, phase |-> "none", ranking |-> FALSE, version |-> 1]
      /\ desk = [session |-> run, item |-> run.item, fallback |-> "join", current |-> 1, ranked |-> 0]
      /\ command.then = "none" /\ command.actions = <<>>
  BY DEF PresentingInit, Lobby, Fresh, Idle
<1>2. show \in Shows
  BY DEF PresentingInit
<1> QED  BY <1>1, <1>2 DEF OnwardInv, Legal, Counted, LobbyIsFirst, MovedOn, TargetFits

LEMMA ProjectedCounts ==
  ASSUME NEW d, IsDesk(d), Counted(d)
  PROVE  /\ Counted(Projected(d))
         /\ d.session.state = "lobby" /\ d.session.ranking = FALSE => Projected(d).fallback = d.fallback
<1>1. PICK c, f, r :
        /\ c \in {d.current, d.item, IF d.session.ranking THEN d.session.item ELSE 0}
        /\ Projected(d) = [session |-> d.session, item |-> d.item, fallback |-> f,
                           current |-> c, ranked |-> r]
        /\ d.session.state = "lobby" /\ d.session.ranking = FALSE => f = d.fallback
  BY ProjectedForms
<1>2. c \in Nat
  BY <1>1 DEF Counted
<1> QED  BY <1>1, <1>2 DEF Counted

\* A page that learns of the session: by the lobby's test it stays on "join".
LEMMA LearningKeeps ==
  ASSUME PodiumInv, OnwardInv, NEW d, IsDesk(d), Counted(d), desk' = Projected(d),
         run.state = "lobby" => d.fallback = "join" /\ d.session.state = "lobby" /\ d.session.ranking = FALSE,
         run' = run, show' = show,
         \/ command' \in {command, Idle}
         \/ command.step = "refresh" /\ command' = [command EXCEPT !.step = "roster"]
  PROVE  OnwardInv'
<1>1. Counted(desk') /\ desk'.session = d.session
  BY ProjectedCounts, ProjectedKeeps
<1>2. LobbyIsFirst'
  BY <1>1, ProjectedCounts DEF LobbyIsFirst
<1>3. MovedOn' /\ TargetFits'
  BY DEF PodiumInv, PresentingTypeOK, IsCommand, Idle, OnwardInv, MovedOn, TargetFits, Last
<1> QED  BY <1>1, <1>2, <1>3 DEF OnwardInv, Legal, Counted, Last

LEMMA LookingGoesOn ==
  ASSUME PodiumInv, OnwardInv, HearEvent \/ Reproject \/ ReopenDesk \/ Refresh
  PROVE  OnwardInv'
<1> DEFINE d == [desk EXCEPT !.session = run, !.item = run.item]
<1>1. IsDesk(d) /\ d.session = run /\ d.fallback = desk.fallback /\ Counted(d)
  BY SnapshotIsDesk DEF OnwardInv, Counted, Legal, PodiumInv, PresentingTypeOK, IsDesk
<1>2. show' = show /\ run' = run
  BY DEF HearEvent, Reproject, ReopenDesk, Refresh
<1>3. CASE HearEvent \/ Refresh
  <2>1. desk' = Projected(d)
    BY <1>3 DEF HearEvent, Refresh, Snapshot
  <2>2. run.state = "lobby" => d.fallback = "join" /\ d.session.ranking = FALSE
    BY <1>1 DEF OnwardInv, LobbyIsFirst, Legal
  <2> HIDE DEF d
  <2> QED  BY <1>1, <1>2, <1>3, <2>1, <2>2, LearningKeeps DEF HearEvent, Refresh
<1>4. CASE Reproject
  BY <1>2, <1>4, LearningKeeps DEF Reproject, OnwardInv, LobbyIsFirst, PodiumInv, PresentingTypeOK
<1>5. CASE ReopenDesk
  <2>1. IsDesk(Fresh) /\ Counted(Fresh) /\ run.state # "lobby"
    BY <1>5 DEF Fresh, IsDesk, Counted, OnwardInv, Legal, ReopenDesk
  <2> QED  BY <1>2, <1>5, <2>1, LearningKeeps DEF ReopenDesk
<1> QED  BY <1>3, <1>4, <1>5

LEMMA ConfirmedGoesOn ==
  ASSUME PodiumInv, OnwardInv, Confirmed
  PROVE  OnwardInv'
<1>1. PICK d \in {desk, Projected(desk)} : desk' = Continue(d)
  BY DEF Confirmed
<1>2. /\ IsDesk(d) /\ d.session = desk.session /\ Counted(d)
      /\ run.state = "lobby" => d.fallback = desk.fallback
  BY ProjectedKeeps, ProjectedCounts DEF PodiumInv, PresentingTypeOK, OnwardInv, LobbyIsFirst
<1>3. /\ command' = Idle /\ run' = run /\ show' = show
      /\ run.state = "lobby" => command.then \notin {"onNext", "onEndGame"}
  BY DEF Confirmed, PodiumInv, EndIsDone, OnwardInv, MovedOn
<1>4. desk'.session = desk.session /\ Counted(desk') /\ (run.state = "lobby" => desk' = d)
  <2>1. CASE command.then = "onNext"
    <3>1. HandleNext(d, command.pressed).current \in {d.current, d.current + 1, Last}
          /\ HandleNext(d, command.pressed).item = d.item
      BY <1>2 DEF HandleNext, IsDesk
    <3>2. Last \in Nat
      BY ShowIsLong DEF OnwardInv
    <3> QED  BY <1>1, <1>2, <1>3, <2>1, <3>1, <3>2, HandleNextKeeps DEF Continue, Counted
  <2>2. CASE command.then = "onEndGame"
    BY <1>1, <1>2, <1>3, <2>2 DEF Continue, IsDesk, Counted
  <2>3. CASE command.then \notin {"onNext", "onEndGame"}
    BY <1>1, <1>2, <2>3 DEF Continue
  <2> QED  BY <2>1, <2>2, <2>3
<1>5. LobbyIsFirst'
  BY <1>2, <1>3, <1>4 DEF OnwardInv, LobbyIsFirst
<1>6. MovedOn' /\ TargetFits'
  BY <1>3 DEF Idle, MovedOn, TargetFits
<1> QED  BY <1>3, <1>4, <1>5, <1>6 DEF OnwardInv, Legal, Counted, Last

LEMMA AppliedIsLegal ==
  ASSUME NEW s, IsSession(s), Legal(s), NEW action \in Actions, CanApply(s, action), NEW target,
         action = "present_item" => target \in 1..Last, Last \in Nat
  PROVE  Legal(Applied(s, action, target)) /\ Applied(s, action, target).state # "lobby"
<1> DEFINE t == [s EXCEPT !.version = @ + 1]
<1>1. t = [state |-> s.state, item |-> s.item, phase |-> s.phase, ranking |-> s.ranking,
           version |-> s.version + 1]
  BY DEF IsSession
<1>2. CASE action = "present_item"
  <2> DEFINE phase == IF IsActivity(target) THEN "accepting" ELSE "none"
  <2>1. Applied(s, action, target) =
          [state |-> "presenting", item |-> target, phase |-> phase, ranking |-> FALSE,
           version |-> s.version + 1]
    BY <1>1, <1>2 DEF Applied
  <2>2. target \in Nat /\ target \in 1..Last /\ (phase = "none" <=> show[target] = "content")
    BY <1>2 DEF IsActivity
  <2> HIDE DEF phase
  <2> QED  BY <2>1, <2>2 DEF Legal
<1>3. CASE action = "close_activity"
  BY <1>1, <1>3 DEF Applied, CanApply, Legal
<1>4. CASE action = "reveal_activity"
  BY <1>1, <1>4 DEF Applied, CanApply, Legal
<1>5. CASE action = "show_overall_ranking"
  BY <1>1, <1>5 DEF Applied, CanApply, Legal
<1>6. CASE action = "end"
  BY <1>1, <1>6 DEF Applied, Legal
<1> QED  BY <1>2, <1>3, <1>4, <1>5, <1>6

LEMMA DeadlineGoesOn ==
  ASSUME PodiumInv, OnwardInv, DeadlinePasses
  PROVE  OnwardInv'
<1>1. /\ run' = Applied(run, "close_activity", 0) /\ run.phase = "accepting"
      /\ desk' = desk /\ command' = command /\ show' = show
  BY DEF DeadlinePasses
<1>2. IsSession(run) /\ Legal(run) /\ CanApply(run, "close_activity") /\ Last \in Nat
  BY <1>1, ShowIsLong DEF PodiumInv, PresentingTypeOK, OnwardInv, Legal, CanApply
<1>3. Legal(run') /\ run'.state # "lobby"
  BY <1>1, <1>2, AppliedIsLegal
<1> QED  BY <1>1, <1>3 DEF OnwardInv, Legal, Counted, LobbyIsFirst, MovedOn, TargetFits, Last

\* What a press may plan: an item of the presentation, and for a press that goes
\* on nothing only when all is over.
Fits(plan) ==
  /\ plan.actions = <<"present_item">> => plan.target \in 1..Last
  /\ plan.then = "onNext" /\ plan.actions = <<>> => desk.session.state = "ended"

LEMMA NavigationFits ==
  ASSUME NEW s, NEW target
  PROVE  /\ PlanLiveNavigation(s, target) = <<"present_item">> => target # 0
         /\ target # 0 /\ PlanLiveNavigation(s, target) = <<>> => s.state = "ended"
  BY DEF PlanLiveNavigation

LEMMA MovingFits ==
  ASSUME NEW target \in 0..Last, Last \in Nat, NEW then, then = "onNext" => target # 0
  PROVE  Fits(Moving(desk, target, then))
  BY NavigationFits DEF Fits, Moving, Plan

LEMMA EndingFits == Fits(Ending(desk))
  BY DEF Fits, Ending, Plan, PlanLiveEnd

LEMMA PressFits ==
  ASSUME OnwardInv, NEW plan \in {FooterNext(desk), BackstageNext(desk), Ending(desk)}
  PROVE  Fits(plan)
<1> DEFINE onward == IF NextSlide(desk) = 0 THEN Ending(desk) ELSE Moving(desk, NextSlide(desk), "onNext")
<1>1. Last \in Nat \ {0} /\ NextSlide(desk) \in 0..Last
  BY ShowIsLong DEF OnwardInv, Counted, NextSlide
<1>2. Fits(onward)
  BY <1>1, MovingFits, EndingFits
<1>3. Fits(FooterNext(desk))
  <2>1. CASE ViewOf(desk) = "join"
    BY <1>1, <2>1, MovingFits DEF FooterNext
  <2>2. CASE ViewOf(desk) = "question"
    BY <1>1, <2>2, MovingFits, EndingFits DEF FooterNext
  <2>3. CASE ViewOf(desk) \notin {"join", "question"}
    BY <1>2, <2>3 DEF FooterNext
  <2> QED  BY <2>1, <2>2, <2>3
<1>4. Fits(BackstageNext(desk))
  <2>1. BackstageNext(desk) \in {onward, Moving(desk, 1, "onNext"), Plan(<<"close_activity">>, 0, "none"),
                                 Plan(<<"reveal_activity">>, 0, "none"),
                                 Plan(<<"show_overall_ranking">>, 0, "none")}
    BY DEF BackstageNext
  <2>2. \A a \in {"close_activity", "reveal_activity", "show_overall_ranking"} : Fits(Plan(<<a>>, 0, "none"))
    BY DEF Fits, Plan
  <2> QED  BY <1>1, <1>2, <2>1, <2>2, MovingFits
<1> QED  BY <1>3, <1>4, EndingFits

LEMMA PressGoesOn ==
  ASSUME PodiumInv, OnwardInv, PressNext \/ PressBackstage \/ PressEnd
  PROVE  OnwardInv'
<1>1. PICK plan \in {FooterNext(desk), BackstageNext(desk), Ending(desk)} : Begin(plan)
  BY DEF PressNext, PressBackstage, PressEnd
<1>2. Fits(plan) /\ (desk.session.state = "ended" => run.state = "ended")
  BY PressFits DEF PodiumInv, DeskIsBehind
<1>3. /\ run' = run /\ desk' = desk /\ show' = show
      /\ command' = [step |-> IF plan.actions = <<>> THEN "refresh" ELSE "act",
                     actions |-> plan.actions, target |-> plan.target, then |-> plan.then,
                     pressed |-> Closure(desk)]
  BY <1>1 DEF Begin
<1>4. MovedOn' /\ TargetFits'
  BY <1>2, <1>3 DEF MovedOn, TargetFits, Fits, Last
<1> QED  BY <1>3, <1>4 DEF OnwardInv, Legal, Counted, LobbyIsFirst, Last

\* Of a press only the single command presents an item.
LEMMA SecondPresentsNothing ==
  ASSUME NEW actions \in Endings \union Moves, actions # <<>>
  PROVE  /\ Head(actions) = "present_item" => actions = <<"present_item">>
         /\ Tail(actions) # <<"present_item">>
<1>1. CASE \E a \in Actions : actions = <<a>>
  <2>1. PICK a \in Actions : actions = <<a>>
    BY <1>1
  <2>2. Head(actions) = a /\ Tail(actions) = <<>>
    BY <2>1
  <2> QED  BY <2>1, <2>2
<1>2. CASE \E b \in {"end", "reveal_activity"} : actions = <<"close_activity", b>>
  <2>1. PICK b \in {"end", "reveal_activity"} : actions = <<"close_activity", b>>
    BY <1>2
  <2>2. Head(actions) = "close_activity" /\ Tail(actions) = <<b>>
    BY <2>1
  <2> QED  BY <2>1, <2>2
<1> QED  BY <1>1, <1>2 DEF Endings, Moves

LEMMA AcceptedIsLegal ==
  ASSUME PodiumInv, OnwardInv, command.step = "act", Accepts(Head(command.actions)),
         NEW r, r = Applied(run, Head(command.actions), command.target)
  PROVE  Legal(r) /\ r.state # "lobby"
<1>1. command.actions \in Endings \union Moves /\ command.actions # <<>> /\ IsSession(run)
  BY DEF PodiumInv, PresentingTypeOK
<1>2. /\ Head(command.actions) \in Actions
      /\ Head(command.actions) = "present_item" => command.target \in 1..Last
  BY <1>1, CommandsShrink, SecondPresentsNothing DEF OnwardInv, TargetFits
<1> QED  BY <1>1, <1>2, ShowIsLong, AppliedIsLegal DEF OnwardInv, Accepts

LEMMA SendGoesOn ==
  ASSUME PodiumInv, OnwardInv, SendAction
  PROVE  OnwardInv'
<1> DEFINE d == [desk EXCEPT !.session = run']
<1>1. /\ command.step = "act" /\ Accepts(Head(command.actions)) /\ show' = show
      /\ run' = Applied(run, Head(command.actions), command.target)
      /\ desk' = Projected(d)
      /\ command' = [command EXCEPT !.actions = Tail(@), !.step = IF Len(command.actions) = 1 THEN "refresh" ELSE @]
  BY DEF SendAction
<1>2. Legal(run') /\ run'.state # "lobby"
  BY <1>1, AcceptedIsLegal
<1>3. IsDesk(d) /\ Counted(d)
  BY <1>2 DEF PodiumInv, PresentingTypeOK, IsDesk, OnwardInv, Counted, Legal
<1> HIDE DEF d
<1>4. Counted(desk')
  BY <1>1, <1>3, ProjectedCounts
<1>5. command.actions \in Endings \union Moves /\ command.actions # <<>>
      /\ command'.actions = Tail(command.actions)
  BY <1>1 DEF PodiumInv, PresentingTypeOK, IsCommand
<1>6. TargetFits'
  BY <1>5, SecondPresentsNothing DEF TargetFits
<1> QED  BY <1>1, <1>2, <1>4, <1>6 DEF OnwardInv, Legal, Counted, LobbyIsFirst, MovedOn, Last

LEMMA FailureGoesOn ==
  ASSUME PodiumInv, OnwardInv, ActionFails
  PROVE  OnwardInv'
<1>1. /\ command.step = "act" /\ desk' = desk /\ command' = Idle /\ show' = show
      /\ \/ run' = run
         \/ /\ Accepts(Head(command.actions))
            /\ run' = Applied(run, Head(command.actions), command.target)
  BY DEF ActionFails, NotConfirmed
<1>2. Legal(run') /\ (run'.state = "lobby" => run' = run)
  BY <1>1, AcceptedIsLegal DEF OnwardInv
<1> QED  BY <1>1, <1>2 DEF OnwardInv, Legal, Counted, LobbyIsFirst, MovedOn, TargetFits, Last, Idle

LEMMA OnwardInvStep == PodiumInv /\ OnwardInv /\ [PresentingNext]_presentingVars => OnwardInv'
<1>1. ASSUME OnwardInv, UNCHANGED presentingVars  PROVE OnwardInv'
  BY <1>1 DEF presentingVars, OnwardInv, Legal, Counted, LobbyIsFirst, MovedOn, TargetFits, Last
<1> QED  BY <1>1, DeadlineGoesOn, LookingGoesOn, PressGoesOn, SendGoesOn, FailureGoesOn, ConfirmedGoesOn
         DEF PresentingNext

\* Navigation and end of a session that is on the stage begin with what it
\* accepts; only a navigation to nowhere, after the ranking, is empty.
LEMMA NavigationIsAccepted ==
  ASSUME NEW s, IsSession(s), s.state # "ended", s.phase # "none" => s.state = "presenting",
         NEW target, \/ target # 0
                     \/ s.phase \in {"accepting", "closed"}
                     \/ s.phase = "revealed" /\ ~s.ranking
  PROVE  PlanLiveNavigation(s, target) # <<>> /\ CanApply(s, Head(PlanLiveNavigation(s, target)))
<1>1. CASE s.phase = "accepting"
  <2>1. PlanLiveNavigation(s, target) = <<"close_activity", "reveal_activity">>
    BY <1>1 DEF PlanLiveNavigation, IsSession
  <2> QED  BY <1>1, <2>1 DEF CanApply
<1>2. CASE s.phase = "closed"
  <2>1. PlanLiveNavigation(s, target) = <<"reveal_activity">>
    BY <1>2 DEF PlanLiveNavigation, IsSession
  <2> QED  BY <1>2, <2>1 DEF CanApply
<1>3. CASE s.phase = "revealed" /\ ~s.ranking /\ target = 0
  <2>1. PlanLiveNavigation(s, target) = <<"show_overall_ranking">>
    BY <1>3 DEF PlanLiveNavigation, IsSession
  <2>2. s.state = "presenting" /\ s.phase = "revealed"
    BY <1>3
  <2>3. CanApply(s, "show_overall_ranking")
    BY <2>2 DEF CanApply
  <2> QED  BY <2>1, <2>3
<1>4. CASE s.phase \in {"none", "revealed"} /\ target # 0
  <2>1. PlanLiveNavigation(s, target) = <<"present_item">>
    BY <1>4 DEF PlanLiveNavigation, IsSession
  <2> QED  BY <1>4, <2>1 DEF CanApply, IsSession
<1> QED  BY <1>1, <1>2, <1>3, <1>4 DEF IsSession

LEMMA EndIsAccepted ==
  ASSUME NEW s, IsSession(s), s.state # "ended", s.phase # "none" => s.state = "presenting"
  PROVE  PlanLiveEnd(s) # <<>> /\ CanApply(s, Head(PlanLiveEnd(s)))
<1>1. CASE s.phase = "accepting"
  <2>1. PlanLiveEnd(s) = <<"close_activity", "end">>
    BY <1>1 DEF PlanLiveEnd
  <2> QED  BY <1>1, <2>1 DEF CanApply
<1>2. CASE s.phase # "accepting"
  <2>1. PlanLiveEnd(s) = <<"end">>
    BY <1>2 DEF PlanLiveEnd
  <2> QED  BY <1>2, <2>1 DEF CanApply, IsSession
<1> QED  BY <1>1, <1>2

\* NextIsNeverRefused: for any presentation, on a page that is up to date, Next
\* and the drawer's control (FooterNext, BackstageNext: planLiveNavigation and
\* planLiveEnd) send a command, and one the session is in a state for.
THEOREM UpToDatePressesWork == PresentingSpec => []NextIsNeverRefused
<1>1. PodiumInv /\ OnwardInv => NextIsNeverRefused
  <2> DEFINE Accepted(plan) == plan.actions # <<>> /\ CanApply(run, Head(plan.actions))
  <2> SUFFICES ASSUME PodiumInv, OnwardInv, desk.session = run, desk.item = run.item,
                      ViewOf(desk) # "final"
               PROVE  Accepted(BackstageNext(desk)) /\ Accepted(FooterNext(desk))
    BY DEF NextIsNeverRefused
  <2>1. /\ IsSession(run) /\ run.state # "ended" /\ Legal(run)
        /\ run.phase # "none" => run.state = "presenting"
        /\ run.state = "lobby" => desk.fallback = "join"
    BY DEF PodiumInv, PresentingTypeOK, OnwardInv, LobbyIsFirst, Legal, ViewOf
  <2>2. ASSUME NEW target, NEW then, \/ target # 0
                                     \/ run.phase \in {"accepting", "closed"}
                                     \/ run.phase = "revealed" /\ ~run.ranking
        PROVE  Accepted(Moving(desk, target, then))
    <3>1. Moving(desk, target, then).actions = PlanLiveNavigation(run, target)
      BY DEF Moving, Plan
    <3> QED  BY <2>1, <2>2, <3>1, NavigationIsAccepted
  <2>3. Accepted(Ending(desk))
    <3>1. Ending(desk).actions = PlanLiveEnd(run)
      BY DEF Ending, Plan
    <3> QED  BY <2>1, <3>1, EndIsAccepted
  <2> DEFINE onward == IF NextSlide(desk) = 0 THEN Ending(desk) ELSE Moving(desk, NextSlide(desk), "onNext")
  <2>4. Accepted(onward)
    BY <2>2, <2>3
  <2>5. ASSUME NEW a \in Actions, CanApply(run, a)  PROVE Accepted(Plan(<<a>>, 0, "none"))
    BY <2>5 DEF Plan
  <2> HIDE DEF Accepted
  <2>6. Accepted(BackstageNext(desk))
    <3>1. CASE run.state = "lobby"
      <4>1. BackstageNext(desk) = Moving(desk, 1, "onNext")
        BY <2>1, <3>1 DEF BackstageNext, IsSession
      <4>2. Accepted(Moving(desk, 1, "onNext"))
        BY <2>2
      <4> QED  BY <4>1, <4>2
    <3>2. CASE run.phase = "accepting"
      <4>1. BackstageNext(desk) = Plan(<<"close_activity">>, 0, "none") /\ CanApply(run, "close_activity")
        BY <2>1, <3>2 DEF BackstageNext, CanApply
      <4> QED  BY <2>5, <4>1
    <3>3. CASE run.phase = "closed"
      <4>1. BackstageNext(desk) = Plan(<<"reveal_activity">>, 0, "none") /\ CanApply(run, "reveal_activity")
        BY <2>1, <3>3 DEF BackstageNext, CanApply
      <4> QED  BY <2>5, <4>1
    <3>4. CASE run.state # "lobby" /\ run.phase \in {"none", "revealed"}
      <4>1. \/ BackstageNext(desk) = onward
            \/ /\ BackstageNext(desk) = Plan(<<"show_overall_ranking">>, 0, "none")
               /\ run.phase = "revealed"
        BY <3>4 DEF BackstageNext
      <4>2. run.phase = "revealed" => CanApply(run, "show_overall_ranking")
        BY <2>1 DEF CanApply
      <4> QED  BY <2>4, <2>5, <4>1, <4>2
    <3> QED  BY <2>1, <3>1, <3>2, <3>3, <3>4 DEF IsSession
  <2>7. Accepted(FooterNext(desk))
    <3>1. CASE ViewOf(desk) = "join"
      BY <2>2, <3>1 DEF FooterNext
    <3>2. CASE ViewOf(desk) = "question"
      <4>1. ~run.ranking /\ run.state = "presenting" /\ ContentOf(desk) = 0
        BY <2>1, <3>2 DEF ViewOf, IsSession, ContentOf, QuestionOf, OnStage
      <4>2. run.phase # "none"
        BY <2>1, <4>1 DEF ContentOf, OnStage, Legal, IsActivity
      <4>3. run.phase \in {"accepting", "closed"} \/ (run.phase = "revealed" /\ ~run.ranking)
        BY <2>1, <4>1, <4>2 DEF IsSession
      <4> QED  BY <2>2, <2>3, <3>2, <4>3 DEF FooterNext
    <3>3. CASE ViewOf(desk) \notin {"join", "question"}
      BY <2>4, <3>3 DEF FooterNext
    <3> QED  BY <3>1, <3>2, <3>3
  <2> QED  BY <2>6, <2>7 DEF Accepted
<1> QED  BY <1>1, PodiumInvInit, PodiumInvStep, OnwardInvInit, OnwardInvStep, PTL DEF PresentingSpec
=============================================================================
