---------------------------- MODULE LiveSession ----------------------------
(***************************************************************************)
(* One live session in PostgreSQL: the live_sessions row, its participants,*)
(* answers, idempotent manager commands and event ledger, and the          *)
(* transactions of live/postgres_store.go that change them.                *)
(*                                                                         *)
(* Concurrency is that of the row locks the store takes on the session.    *)
(* A manager command and a deadline reconciliation hold the row FOR UPDATE *)
(* from their first statement to commit, so each is one step that waits    *)
(* until nobody holds the row FOR SHARE.  An answer request is three       *)
(* steps, because its duplicate lookup runs before the lock and other      *)
(* answers interleave under the shared lock: lookup, admission (the lock   *)
(* and every check under it), commit.  A join is two: lookup, then the     *)
(* shared lock, the upsert, the event and the commit.  A snapshot runs in  *)
(* a REPEATABLE READ transaction whose first statement is the deadline     *)
(* UPDATE: what it reads is frozen before it waits for that row lock.      *)
(*                                                                         *)
(* A crash, a cancelled request or a lost connection between two steps     *)
(* rolls the transaction back (Abandon...); a lost reply is a request      *)
(* whose caller tries again with the same request id, which every request  *)
(* here may do at any time.                                                *)
(***************************************************************************)
EXTENDS Naturals, Sequences, FiniteSets, Functions

CONSTANTS
  Names,        \* display names; a row is never deleted, so a name is a row
  Tokens,       \* join request ids; a credential is the hash of one
  Items,        \* slides of the presentation
  Frozen,       \* the slides copied to live_session_slides at creation
  Activities,   \* the frozen slides of kind "activity"
  Points,       \* what the scoring policy may award
  Commands,     \* request ids of manager commands
  AnswerIds,    \* request ids of answers
  Submitters,   \* answer requests in flight at once
  Joiners,      \* join requests in flight at once
  Readers,      \* snapshot requests in flight at once
  Nobody,       \* no credential: the participants row does not exist
  NoItem        \* active_item_id IS NULL

ASSUME ItemsAssumption ==
  /\ Activities \subseteq Frozen
  /\ Frozen \subseteq Items
  /\ NoItem \notin Items

ASSUME CredentialAssumption == Nobody \notin Tokens

ASSUME PointsAssumption == Points \subseteq Nat

VARIABLES
  session,      \* the live_sessions row
  participants, \* the participants rows, by display name
  answers,      \* the answers rows
  commands,     \* live_commands: the stored result of each request id
  ledger,       \* live_events of this session, in event_id order
  submits,      \* the answer requests being served
  joins,        \* the join requests being served
  readers,      \* the snapshot requests waiting for the session row
  reply         \* the last reply sent

vars == <<session, participants, answers, commands, ledger,
          submits, joins, readers, reply>>
-----------------------------------------------------------------------------
States    == {"draft", "lobby", "presenting", "ended"}
Phases    == {"none", "accepting", "closed", "revealed"}
Views     == {"item", "overall_ranking"}
\* ends_at, as the database clock sees it.
Deadlines == {"none", "running", "elapsed"}
Actions   == {"start", "present_item", "close_activity", "reveal_activity",
              "show_overall_ranking", "end"}

Sessions == [state: States, item: Items \cup {NoItem}, phase: Phases,
             view: Views, deadline: Deadlines, version: Nat \ {0}]

Rows     == [token: Tokens \cup {Nobody}, connected: BOOLEAN, score: Nat]

Answers  == [name: Names, item: Items, request: AnswerIds, delta: Points]

\* The public fields of the session that a command stores as its result.
Results  == [state: States, item: Items \cup {NoItem}, phase: Phases,
             view: Views, version: Nat]

NoResult == [state |-> "draft", item |-> NoItem, phase |-> "none",
             view |-> "item", version |-> 0]

\* responders is what an activity.result_updated event counted; deadline says
\* that a state change carries the reason deadline_elapsed.
Events   == [name: {"session.created", "session.state_changed",
                    "activity.result_updated", "ranking.updated",
                    "presence.updated"},
             version: Nat \ {0}, item: Items \cup {NoItem},
             deadline: BOOLEAN, responders: SUBSET Names]

Public(s) == [state |-> s.state, item |-> s.item, phase |-> s.phase,
              view |-> s.view, version |-> s.version]

Exists(n)   == participants[n].token # Nobody
Owner(t)    == {n \in Names : participants[n].token = t}

\* The answers a transaction that sees the rows "rows" counts for item i.
Responders(rows, i) == {a.name : a \in {b \in rows : b.item = i}}

Bug_StampsOldVersion(name, s, deadline, responders) ==
  [name |-> name, version |-> s.version - 1, item |-> s.item,
   deadline |-> deadline, responders |-> responders]

Event(name, s, deadline, responders) ==
  [name |-> name, version |-> s.version, item |-> s.item,
   deadline |-> deadline, responders |-> responders]

StateEvent(s, deadline) == Event("session.state_changed", s, deadline, {})
ResultEvent(s, rows) ==
  Event("activity.result_updated", s, FALSE, Responders(rows, s.item))

\* body is the version a command's result carries, the name whose row a join
\* returns, or the points of an answer.
NoReply == [call |-> "none", id |-> Nobody, outcome |-> "none", body |-> 0]
Reply(call, id, outcome, body) ==
  [call |-> call, id |-> id, outcome |-> outcome, body |-> body]

Idle == [step |-> "idle"]

Bug_DoesNotWait == TRUE

\* Nobody holds the session row FOR SHARE: an exclusive lock is granted.
Unshared == \A s \in Submitters : submits[s].step # "admitted"
-----------------------------------------------------------------------------
Init ==
  /\ session = [state |-> "draft", item |-> NoItem, phase |-> "none",
                view |-> "item", deadline |-> "none", version |-> 1]
  /\ participants = [n \in Names |->
                      [token |-> Nobody, connected |-> FALSE, score |-> 0]]
  /\ answers = {}
  /\ commands = [c \in Commands |-> NoResult]
  /\ ledger = <<Event("session.created", session, FALSE, {})>>
  /\ submits = [s \in Submitters |-> Idle]
  /\ joins = [j \in Joiners |-> Idle]
  /\ readers = [r \in Readers |-> Idle]
  /\ reply = NoReply
-----------------------------------------------------------------------------
(* Manager commands: ApplyAction.                                          *)

CanApplyAction(s, action) ==
  \/ action = "start" /\ s.state = "draft"
  \/ /\ action = "present_item"
     /\ \/ s.state = "lobby"
        \/ s.state = "presenting" /\ s.phase \in {"none", "revealed"}
  \/ action = "close_activity"  /\ s.state = "presenting" /\ s.phase = "accepting"
  \/ action = "reveal_activity" /\ s.state = "presenting" /\ s.phase = "closed"
  \/ action = "show_overall_ranking" /\ s.state = "presenting" /\ s.phase = "revealed"
  \/ /\ action = "end"
     /\ \/ s.state = "lobby"
        \/ s.state = "presenting" /\ s.phase # "accepting"

\* The UPDATE of the session row: every column it sets, and the next version.
Updated(state, item, phase, view, deadline) ==
  [state |-> state, item |-> item, phase |-> phase, view |-> view,
   deadline |-> deadline, version |-> session.version + 1]

Bug_StoresRowAsRead(row) == Public(session)
Stored(row) == Public(row)

\* Everything a command does once its checks have passed: the updated row, the
\* stored result, the state event and the events that follow it.
Apply(c, expected, action, row, after) ==
  /\ Unshared
  /\ commands[c] = NoResult
  /\ session.version = expected
  /\ CanApplyAction(session, action)
  /\ session' = row
  /\ commands' = [commands EXCEPT ![c] = Stored(row)]
  /\ ledger' = ledger \o <<StateEvent(row, FALSE)>> \o after
  /\ reply' = Reply("command", c, "applied", row.version)
  /\ UNCHANGED <<participants, answers, submits, joins, readers>>

Start(c, expected) ==
  Apply(c, expected, "start", Updated("lobby", NoItem, "none", "item", "none"), <<>>)

PresentContent(c, expected, i) ==
  /\ i \in Frozen \ Activities
  /\ Apply(c, expected, "present_item",
           Updated("presenting", i, "none", "item", "none"), <<>>)

PresentActivity(c, expected, i) ==
  /\ i \in Activities
  /\ Apply(c, expected, "present_item",
           Updated("presenting", i, "accepting", "item", "running"), <<>>)

Bug_ClosesWithoutVersion == [session EXCEPT !.phase = "closed", !.deadline = "none"]
\* The row an Activity leaves when it closes, by hand or by its deadline.
ClosedRow == Updated(session.state, session.item, "closed", "item", "none")

CloseActivity(c, expected) ==
  Apply(c, expected, "close_activity", ClosedRow, <<ResultEvent(ClosedRow, answers)>>)

RevealActivity(c, expected) ==
  Apply(c, expected, "reveal_activity",
        Updated(session.state, session.item, "revealed", "item", "none"), <<>>)

ShowOverallRanking(c, expected) ==
  LET row == Updated(session.state, session.item, session.phase,
                     "overall_ranking", "none")
  IN Apply(c, expected, "show_overall_ranking", row,
           <<Event("ranking.updated", row, FALSE, {})>>)

Bug_EndsWithPhase(c, expected) ==
  Apply(c, expected, "end",
        Updated("ended", NoItem, session.phase, "item", "none"), <<>>)

End(c, expected) ==
  Apply(c, expected, "end", Updated("ended", NoItem, "none", "item", "none"), <<>>)

Bug_ReplaysCurrent(c) ==
  /\ commands[c] # NoResult
  /\ reply' = Reply("command", c, "duplicate", session.version)
  /\ UNCHANGED <<session, participants, answers, commands, ledger,
                 submits, joins, readers>>

\* A request id already applied returns the stored result, whatever it asks.
ReplayCommand(c) ==
  /\ commands[c] # NoResult
  /\ reply' = Reply("command", c, "duplicate", commands[c].version)
  /\ UNCHANGED <<session, participants, answers, commands, ledger,
                 submits, joins, readers>>

\* A stale version, an action the state does not allow, an item not frozen.
RefuseCommand(c, expected, action, i) ==
  /\ Unshared
  /\ commands[c] = NoResult
  /\ \/ session.version # expected
     \/ ~CanApplyAction(session, action)
     \/ action = "present_item" /\ i \notin Frozen
  /\ reply' = Reply("command", c, "refused", 0)
  /\ UNCHANGED <<session, participants, answers, commands, ledger,
                 submits, joins, readers>>

ManagerCommand(c, expected) ==
  \/ Start(c, expected)
  \/ \E i \in Items : PresentContent(c, expected, i) \/ PresentActivity(c, expected, i)
  \/ CloseActivity(c, expected)
  \/ RevealActivity(c, expected)
  \/ ShowOverallRanking(c, expected)
  \/ End(c, expected)
  \/ ReplayCommand(c)
  \/ \E action \in Actions, i \in Items : RefuseCommand(c, expected, action, i)
-----------------------------------------------------------------------------
(* The deadline.                                                           *)

\* The database clock passes ends_at.
Elapse ==
  /\ session.deadline = "running"
  /\ session' = [session EXCEPT !.deadline = "elapsed"]
  /\ reply' = NoReply
  /\ UNCHANGED <<participants, answers, commands, ledger, submits, joins, readers>>

Overdue == /\ session.state = "presenting"
           /\ session.phase = "accepting"
           /\ session.deadline = "elapsed"

\* reconcileDeadlineTx once its UPDATE has the row: rows is what the
\* transaction sees of the answers when it computes the result.
CloseOverdue(rows) ==
  /\ Overdue
  /\ Unshared
  /\ session' = ClosedRow
  /\ ledger' = ledger \o <<StateEvent(ClosedRow, TRUE), ResultEvent(ClosedRow, rows)>>

\* The event broker's tick: READ COMMITTED, so the result is computed by a
\* statement that starts after the row lock was granted.
ReconcileDeadline ==
  /\ CloseOverdue(answers)
  /\ reply' = NoReply
  /\ UNCHANGED <<participants, answers, commands, submits, joins, readers>>

\* A snapshot of an overdue activity: its REPEATABLE READ view is taken when
\* the UPDATE starts, before the row lock is granted.
BeginSnapshot(r) ==
  /\ readers[r] = Idle
  /\ Overdue
  /\ readers' = [readers EXCEPT ![r] =
       [step |-> "waiting", version |-> session.version, rows |-> answers]]
  /\ reply' = NoReply
  /\ UNCHANGED <<session, participants, answers, commands, ledger, submits, joins>>

\* The lock is granted: the row is as this snapshot saw it, and is closed with
\* the rows of that snapshot, or somebody updated it (SQLSTATE 40001, which
\* mapPG turns into a conflict for the caller).
EndSnapshot(r) ==
  /\ readers[r].step = "waiting"
  /\ Unshared
  /\ \/ /\ readers[r].version = session.version
        /\ CloseOverdue(readers[r].rows)
     \/ /\ readers[r].version # session.version
        /\ UNCHANGED <<session, ledger>>
  /\ readers' = [readers EXCEPT ![r] = Idle]
  /\ reply' = NoReply
  /\ UNCHANGED <<participants, answers, commands, submits, joins>>

AbandonSnapshot(r) ==
  /\ readers[r].step = "waiting"
  /\ readers' = [readers EXCEPT ![r] = Idle]
  /\ reply' = NoReply
  /\ UNCHANGED <<session, participants, answers, commands, ledger, submits, joins>>
-----------------------------------------------------------------------------
(* Joining, and the presence the participant's event stream reports.       *)

JoinLookup(j, n, t) ==
  /\ joins[j] = Idle
  /\ \/ \E m \in Owner(t) :
          /\ reply' = Reply("join", t, "duplicate", m)
          /\ UNCHANGED joins
     \/ /\ Owner(t) = {}
        /\ joins' = [joins EXCEPT ![j] =
                       [step |-> "looked_up", name |-> n, token |-> t]]
        /\ reply' = NoReply
  /\ UNCHANGED <<session, participants, answers, commands, ledger, submits, readers>>

Joinable == session.state \in {"lobby", "presenting"}

\* The unique index on the display name lets a new row in.
NameFree(n) == ~Exists(n)

Bug_ForgetsScore(row, t) == [token |-> t, connected |-> TRUE, score |-> 0]
Reclaimed(row, t) == [row EXCEPT !.token = t, !.connected = TRUE]

\* A row whose stream closed is reclaimed by its name: new credential, same
\* row, score and answers, and no event.
Restore(j) ==
  LET n == joins[j].name
      t == joins[j].token
  IN /\ joins[j].step = "looked_up"
     /\ Joinable
     /\ Exists(n) /\ ~participants[n].connected
     /\ Owner(t) = {}
     /\ participants' = [participants EXCEPT ![n] = Reclaimed(@, t)]
     /\ joins' = [joins EXCEPT ![j] = Idle]
     /\ reply' = Reply("join", t, "restored", n)
     /\ UNCHANGED <<session, answers, commands, ledger, submits, readers>>

Insert(j) ==
  LET n == joins[j].name
      t == joins[j].token
  IN /\ joins[j].step = "looked_up"
     /\ Joinable
     /\ NameFree(n)
     /\ Owner(t) = {}
     /\ participants' = [participants EXCEPT ![n] =
                           [token |-> t, connected |-> TRUE, score |-> 0]]
     /\ ledger' = Append(ledger, Event("presence.updated", session, FALSE, {}))
     /\ joins' = [joins EXCEPT ![j] = Idle]
     /\ reply' = Reply("join", t, "applied", n)
     /\ UNCHANGED <<session, answers, commands, submits, readers>>

\* The session takes no joins, or a unique index refuses the row.  Only a
\* refused INSERT looks the request id up again before it gives up.
RejectJoin(j) ==
  LET n == joins[j].name
      t == joins[j].token
      reclaims == Exists(n) /\ ~participants[n].connected
  IN /\ joins[j].step = "looked_up"
     /\ \/ /\ ~Joinable
           /\ reply' = Reply("join", t, "refused", 0)
        \/ /\ Joinable
           /\ reclaims /\ Owner(t) # {}
           /\ reply' = Reply("join", t, "refused", 0)
        \/ /\ Joinable
           /\ ~reclaims /\ Owner(t) = {} /\ ~NameFree(n)
           /\ reply' = Reply("join", t, "refused", 0)
        \/ /\ Joinable
           /\ ~reclaims
           /\ \E m \in Owner(t) : reply' = Reply("join", t, "duplicate", m)
     /\ joins' = [joins EXCEPT ![j] = Idle]
     /\ UNCHANGED <<session, participants, answers, commands, ledger, submits, readers>>

AbandonJoin(j) ==
  /\ joins[j].step = "looked_up"
  /\ joins' = [joins EXCEPT ![j] = Idle]
  /\ reply' = NoReply
  /\ UNCHANGED <<session, participants, answers, commands, ledger, submits, readers>>

\* A participant's stream opened (connected) or closed.
SetPresence(t, connected) ==
  /\ \E n \in Owner(t) :
       participants' = [participants EXCEPT ![n].connected = connected]
  /\ reply' = NoReply
  /\ UNCHANGED <<session, answers, commands, ledger, submits, joins, readers>>
-----------------------------------------------------------------------------
(* Answers: SubmitAnswer.                                                  *)

PriorAnswer(n, request) == {a \in answers : a.name = n /\ a.request = request}

\* The credential's row and its answer under this request id, before any lock.
SubmitLookup(s, t, request, i) ==
  /\ submits[s] = Idle
  /\ \E n \in Owner(t) :
       \/ /\ PriorAnswer(n, request) = {}
          /\ submits' = [submits EXCEPT ![s] =
               [step |-> "looked_up", name |-> n, item |-> i, request |-> request]]
          /\ reply' = NoReply
       \/ \E a \in PriorAnswer(n, request) :
          /\ reply' = Reply("answer", <<n, request>>, "duplicate", a.delta)
          /\ UNCHANGED submits
  /\ UNCHANGED <<session, participants, answers, commands, ledger, joins, readers>>

Bug_IgnoresDeadline(i) ==
  /\ session.state = "presenting"
  /\ session.phase = "accepting"
  /\ session.item = i
  /\ i \in Activities

\* What is checked under the shared lock.
Admissible(i) ==
  /\ session.state = "presenting"
  /\ session.phase = "accepting"
  /\ session.item = i
  /\ i \in Activities
  /\ session.deadline = "running"

SubmitAdmit(s) ==
  LET a == submits[s]
  IN /\ a.step = "looked_up"
     /\ \/ /\ Admissible(a.item)
           /\ submits' = [submits EXCEPT ![s].step = "admitted"]
           /\ reply' = NoReply
        \/ /\ ~Admissible(a.item)
           /\ submits' = [submits EXCEPT ![s] = Idle]
           /\ reply' = Reply("answer", <<a.name, a.request>>, "refused", 0)
     /\ UNCHANGED <<session, participants, answers, commands, ledger, joins, readers>>

Bug_OnlyRequestUnique(a) ==
  \E b \in answers : b.name = a.name /\ b.request = a.request
\* A unique index refuses the row: the participant has answered this item, or
\* has used this request id.
Taken(a) ==
  \E b \in answers : b.name = a.name /\ (b.item = a.item \/ b.request = a.request)

\* One statement inserts the answer and adds its points, then the commit.  A
\* unique index refuses a second answer to the item or under the request id;
\* the request id is then looked up again outside the transaction.
SubmitCommit(s, delta) ==
  LET a == submits[s]
      new == [name |-> a.name, item |-> a.item, request |-> a.request,
              delta |-> delta]
  IN /\ a.step = "admitted"
     /\ submits' = [submits EXCEPT ![s] = Idle]
     /\ \/ /\ ~Taken(a)
           /\ answers' = answers \cup {new}
           /\ participants' = [participants EXCEPT ![a.name].score = @ + delta]
           /\ reply' = Reply("answer", <<a.name, a.request>>, "applied", delta)
        \/ /\ Taken(a)
           /\ \/ \E b \in PriorAnswer(a.name, a.request) :
                   reply' = Reply("answer", <<a.name, a.request>>, "duplicate", b.delta)
              \/ /\ PriorAnswer(a.name, a.request) = {}
                 /\ reply' = Reply("answer", <<a.name, a.request>>, "refused", 0)
           /\ UNCHANGED <<answers, participants>>
     /\ UNCHANGED <<session, commands, ledger, joins, readers>>

\* An invalid response, a cancelled request or a crash: rolled back.
AbandonSubmit(s) ==
  /\ submits[s].step # "idle"
  /\ submits' = [submits EXCEPT ![s] = Idle]
  /\ reply' = NoReply
  /\ UNCHANGED <<session, participants, answers, commands, ledger, joins, readers>>
-----------------------------------------------------------------------------
Next ==
  \/ \E c \in Commands, expected \in 1..session.version : ManagerCommand(c, expected)
  \/ Elapse
  \/ ReconcileDeadline
  \/ \E r \in Readers : BeginSnapshot(r) \/ EndSnapshot(r) \/ AbandonSnapshot(r)
  \/ \E j \in Joiners : \/ \E n \in Names, t \in Tokens : JoinLookup(j, n, t)
                        \/ Restore(j) \/ Insert(j) \/ RejectJoin(j) \/ AbandonJoin(j)
  \/ \E t \in Tokens, connected \in BOOLEAN : SetPresence(t, connected)
  \/ \E s \in Submitters :
       \/ \E t \in Tokens, request \in AnswerIds, i \in Items :
            SubmitLookup(s, t, request, i)
       \/ SubmitAdmit(s)
       \/ \E delta \in Points : SubmitCommit(s, delta)
       \/ AbandonSubmit(s)

Spec == Init /\ [][Next]_vars

\* Time passes, the broker ticks while anybody watches, and a transaction
\* that holds the row in share mode commits or rolls back.
Fairness ==
  /\ WF_vars(Elapse)
  /\ WF_vars(ReconcileDeadline)
  /\ \A s \in Submitters :
       WF_vars(AbandonSubmit(s) \/ \E delta \in Points : SubmitCommit(s, delta))

FairSpec == Spec /\ Fairness
-----------------------------------------------------------------------------
Replies ==
  [call: {"none", "command", "join", "answer"},
   id: Commands \cup Tokens \cup (Names \X AnswerIds) \cup {Nobody},
   outcome: {"none", "applied", "duplicate", "restored", "refused"},
   body: Names \cup Nat]

\* The shape of every variable.
TypeOK ==
  /\ session \in Sessions
  /\ participants \in [Names -> Rows]
  /\ answers \subseteq Answers
  /\ commands \in [Commands -> Results]
  /\ ledger \in Seq(Events)
  /\ submits \in [Submitters -> {Idle} \cup
       [step: {"looked_up", "admitted"}, name: Names, item: Items,
        request: AnswerIds]]
  /\ joins \in [Joiners -> {Idle} \cup
       [step: {"looked_up"}, name: Names, token: Tokens]]
  /\ readers \in [Readers -> {Idle} \cup
       [step: {"waiting"}, version: Nat \ {0}, rows: SUBSET Answers]]
  /\ reply \in Replies

\* No command and no reconciliation ever asks the database for a row that its
\* CHECK constraints of migration 0018 refuse, and an Activity phase is only
\* ever given to an item of kind activity.
RowIsLegal ==
  /\ session.state = "presenting" <=> session.item # NoItem
  /\ session.phase # "none" <=> session.item \in Activities
  /\ session.phase = "accepting" <=> session.deadline # "none"
  /\ session.view = "overall_ranking" => session.phase = "revealed"

\* A response admitted under the shared lock commits while its Activity is
\* still the one on stage and still accepts: no manager command, no broker
\* tick and no snapshot closes the Activity between the two.
AdmittedStillOpen ==
  \A s \in Submitters : submits[s].step = "admitted" =>
    /\ session.phase = "accepting"
    /\ session.item = submits[s].item

\* Each accepted answer adds its points to its participant once: the aggregate
\* that snapshots and rankings read is the sum of the committed deltas, through
\* retries, concurrent submissions and restores of the row.
ScoreIsSumOfDeltas ==
  \A n \in Names :
    participants[n].score =
      SumFunctionOnSet([a \in answers |-> a.delta], {a \in answers : a.name = n})

\* A participant answers an Activity once and uses a request id once, however
\* the submissions interleave between their lookup and their commit.
AnswersAreUnique ==
  \A a, b \in answers :
    a.name = b.name /\ (a.item = b.item \/ a.request = b.request) => a = b

StateChanges == {i \in DOMAIN ledger :
  ledger[i].name \in {"session.created", "session.state_changed"}}

\* The ledger tells every version of the session exactly once, in order, and
\* no event runs ahead of the session or behind an earlier event: a client
\* that replays it by event id never misses a version nor regresses.
LedgerTellsEveryVersion ==
  /\ \A v \in 1..session.version : \E i \in StateChanges : ledger[i].version = v
  /\ \A i, j \in StateChanges : i < j => ledger[i].version < ledger[j].version
  /\ \A i, j \in DOMAIN ledger : i < j => ledger[i].version <= ledger[j].version
  /\ \A i \in DOMAIN ledger : ledger[i].version <= session.version

\* Every version after the first is the work of exactly one command or of the
\* deadline: a retried or concurrent command never applies twice, and closing
\* by hand and closing by deadline never both count.
VersionsHaveOneCause ==
  /\ \A c, d \in Commands :
       commands[c] # NoResult /\ commands[c].version = commands[d].version => c = d
  /\ \A i \in StateChanges : ledger[i].version > 1 =>
       (ledger[i].deadline <=>
          ~\E c \in Commands : commands[c].version = ledger[i].version)

\* Once an Activity is closed or revealed, the last activity.result_updated
\* event is about it and counts every response that was accepted.
PublishedResultIsFinal ==
  session.phase \in {"closed", "revealed"} =>
    \E i \in DOMAIN ledger :
      /\ ledger[i].name = "activity.result_updated"
      /\ \A j \in DOMAIN ledger :
           ledger[j].name = "activity.result_updated" => j <= i
      /\ ledger[i].item = session.item
      /\ ledger[i].responders = Responders(answers, session.item)

\* A retry of an applied command is answered with the result stored then, even
\* when the session has moved on and the expected version is stale.
CommandRetryReturnsOriginal ==
  [][\A c \in Commands :
       reply'.call = "command" /\ reply'.id = c /\ commands[c] # NoResult
         => reply'.outcome = "duplicate" /\ reply'.body = commands[c].version]_vars

\* A retry of a committed answer is answered with the original answer.
AnswerRetryReturnsOriginal ==
  [][\A n \in Names, request \in AnswerIds :
       reply'.call = "answer" /\ reply'.id = <<n, request>>
         /\ PriorAnswer(n, request) # {}
         => reply'.outcome = "duplicate"]_vars

\* A retry of a join is answered with the row that its request id holds.
JoinRetryReturnsOriginal ==
  [][\A t \in Tokens :
       reply'.call = "join" /\ reply'.id = t /\ Owner(t) # {}
         => reply'.outcome = "duplicate" /\ Owner(t) = {reply'.body}]_vars

\* An Activity whose deadline passes is closed although the presenter does
\* nothing, and although responses keep arriving for it.
ActivityEventuallyCloses ==
  session.phase = "accepting" ~> session.phase # "accepting"

\* What the session promises: the run of module LiveRun.
Run == INSTANCE LiveRun WITH
  state <- session.state, item <- session.item, phase <- session.phase,
  responses <- {<<a.name, a.item>> : a \in answers}

ImplementsRun == Run!Spec
=============================================================================
