------------------------- MODULE LiveSessionProofs -------------------------
(***************************************************************************)
(* What holds of every live session, whatever the number of participants,  *)
(* items, requests and retries.                                            *)
(***************************************************************************)
EXTENDS LiveSession, TLAPS, SequenceTheorems, SumTheorems

-----------------------------------------------------------------------------
(* Types.                                                                  *)

LEMMA InitType == Init => TypeOK
<1> SUFFICES ASSUME Init PROVE TypeOK
  OBVIOUS
<1> USE ItemsAssumption DEF Init
<1>1. session \in Sessions
  BY DEF Sessions, States, Phases, Views, Deadlines
<1>2. participants \in [Names -> Rows]
  BY DEF Rows
<1>3. commands \in [Commands -> Results]
  BY DEF Results, NoResult, States, Phases, Views
<1>4. ledger \in Seq(Events)
  BY <1>1 DEF Event, Events, Sessions
<1>5. reply \in Replies
  BY DEF NoReply, Replies
<1> QED
  BY <1>1, <1>2, <1>3, <1>4, <1>5 DEF TypeOK, Idle

\* What a session row writes: a stored result and events.
LEMMA EventTypes ==
  ASSUME NEW s \in Sessions
  PROVE  /\ Stored(s) \in Results
         /\ StateEvent(s, TRUE) \in Events
         /\ StateEvent(s, FALSE) \in Events
         /\ Event("ranking.updated", s, FALSE, {}) \in Events
         /\ Event("presence.updated", s, FALSE, {}) \in Events
         /\ \A rows \in SUBSET Answers : ResultEvent(s, rows) \in Events
  BY DEF Sessions, Results, Events, Stored, Public, StateEvent, ResultEvent, Event,
         Responders, Answers

\* Sequences of one and of two elements.
LEMMA Singleton ==
  ASSUME NEW S, NEW e \in S
  PROVE  <<e>> \in Seq(S) /\ Len(<<e>>) = 1 /\ <<e>>[1] = e
  OBVIOUS

LEMMA Pair ==
  ASSUME NEW S, NEW d \in S, NEW e \in S
  PROVE  <<d, e>> \in Seq(S) /\ Len(<<d, e>>) = 2 /\ <<d, e>>[1] = d /\ <<d, e>>[2] = e
  OBVIOUS

LEMMA PairIsConcat ==
  ASSUME NEW S, NEW d \in S, NEW e \in S
  PROVE  <<d>> \o <<e>> = <<d, e>>
<1> DEFINE s == <<d>>
           t == <<e>>
           u == <<d, e>>
<1>1. /\ s \in Seq(S) /\ Len(s) = 1 /\ s[1] = d
      /\ t \in Seq(S) /\ Len(t) = 1 /\ t[1] = e
      /\ u \in Seq(S) /\ Len(u) = 2 /\ u[1] = d /\ u[2] = e
  BY Singleton, Pair
<1> HIDE DEF s, t, u
<1>2. s \o t \in Seq(S) /\ Len(s \o t) = 2 /\ (s \o t)[1] = d /\ (s \o t)[2] = e
  BY <1>1, ConcatProperties
<1>3. s \o t = u
  BY <1>1, <1>2, SeqEqual
<1> QED
  BY <1>3 DEF s, t, u

\* What the UPDATE of a command leaves is a session row.
LEMMA UpdatedType ==
  ASSUME TypeOK, NEW state \in States, NEW item \in Items \cup {NoItem},
         NEW phase \in Phases, NEW view \in Views, NEW deadline \in Deadlines
  PROVE  Updated(state, item, phase, view, deadline) \in Sessions
  BY DEF TypeOK, Sessions, Updated

LEMMA ClosedRowType == TypeOK => ClosedRow \in Sessions
<1> SUFFICES ASSUME TypeOK PROVE ClosedRow \in Sessions
  OBVIOUS
<1>1. session.state \in States /\ session.item \in Items \cup {NoItem}
  BY DEF TypeOK, Sessions
<1> QED
  BY <1>1, UpdatedType DEF ClosedRow, Phases, Views, Deadlines

\* A command that leaves a session row and appends events preserves the types.
LEMMA ApplyType ==
  ASSUME TypeOK, NEW c \in Commands, NEW expected, NEW action,
         NEW row \in Sessions, NEW after \in Seq(Events),
         Apply(c, expected, action, row, after)
  PROVE  TypeOK'
<1>1. session' \in Sessions
  BY DEF Apply
<1>2. commands' \in [Commands -> Results]
  BY EventTypes DEF Apply, TypeOK
<1>3. ledger' \in Seq(Events)
  BY EventTypes, Singleton, ConcatProperties DEF Apply, TypeOK
<1>4. reply' \in Replies
  BY DEF Apply, Reply, Replies, Sessions
<1> QED
  BY <1>1, <1>2, <1>3, <1>4 DEF Apply, TypeOK

LEMMA CommandType ==
  ASSUME TypeOK, NEW c \in Commands, NEW expected, ManagerCommand(c, expected)
  PROVE  TypeOK'
<1>1. /\ session.state \in States /\ session.item \in Items \cup {NoItem}
      /\ session.phase \in Phases /\ session.version \in Nat
  BY DEF TypeOK, Sessions
<1>2. /\ {"lobby", "presenting", "ended"} \subseteq States
      /\ {"none", "accepting", "closed", "revealed"} \subseteq Phases
      /\ {"item", "overall_ranking"} \subseteq Views
      /\ {"none", "running"} \subseteq Deadlines
      /\ NoItem \in Items \cup {NoItem}
      /\ Frozen \subseteq Items \cup {NoItem}
      /\ Activities \subseteq Items \cup {NoItem}
  BY ItemsAssumption DEF States, Phases, Views, Deadlines
<1>3. <<>> \in Seq(Events)
  BY EmptySeq
<1>4. CASE Start(c, expected)
  <2>1. Updated("lobby", NoItem, "none", "item", "none") \in Sessions
    BY <1>2, UpdatedType
  <2> QED
    BY <1>3, <1>4, <2>1, ApplyType DEF Start
<1>5. CASE \E i \in Items : PresentContent(c, expected, i)
  <2>1. PICK i \in Items : PresentContent(c, expected, i)
    BY <1>5
  <2>2. Updated("presenting", i, "none", "item", "none") \in Sessions
    BY <1>2, UpdatedType
  <2> QED
    BY <1>3, <2>1, <2>2, ApplyType DEF PresentContent
<1>6. CASE \E i \in Items : PresentActivity(c, expected, i)
  <2>1. PICK i \in Items : PresentActivity(c, expected, i)
    BY <1>6
  <2>2. Updated("presenting", i, "accepting", "item", "running") \in Sessions
    BY <1>2, UpdatedType
  <2> QED
    BY <1>3, <2>1, <2>2, ApplyType DEF PresentActivity
<1>7. CASE CloseActivity(c, expected)
  <2>1. <<ResultEvent(ClosedRow, answers)>> \in Seq(Events)
    BY ClosedRowType, EventTypes, Singleton DEF TypeOK
  <2> QED
    BY <1>7, <2>1, ClosedRowType, ApplyType DEF CloseActivity
<1>8. CASE RevealActivity(c, expected)
  <2>1. Updated(session.state, session.item, "revealed", "item", "none") \in Sessions
    BY <1>1, <1>2, UpdatedType
  <2> QED
    BY <1>3, <1>8, <2>1, ApplyType DEF RevealActivity
<1>9. CASE ShowOverallRanking(c, expected)
  <2> DEFINE row == Updated(session.state, session.item, session.phase,
                            "overall_ranking", "none")
  <2>1. row \in Sessions
    BY <1>1, <1>2, UpdatedType
  <2>2. <<Event("ranking.updated", row, FALSE, {})>> \in Seq(Events)
    BY <2>1, EventTypes, Singleton
  <2> HIDE DEF row
  <2>3. Apply(c, expected, "show_overall_ranking", row,
              <<Event("ranking.updated", row, FALSE, {})>>)
    BY <1>9 DEF ShowOverallRanking, row
  <2> QED
    BY <2>1, <2>2, <2>3, ApplyType
<1>10. CASE End(c, expected)
  <2>1. Updated("ended", NoItem, "none", "item", "none") \in Sessions
    BY <1>2, UpdatedType
  <2> QED
    BY <1>3, <1>10, <2>1, ApplyType DEF End
<1>11. CASE ReplayCommand(c)
  <2>1. reply' \in Replies
    BY <1>11 DEF ReplayCommand, Reply, Replies, TypeOK, Results
  <2> QED
    BY <1>11, <2>1 DEF ReplayCommand, TypeOK
<1>12. CASE \E action \in Actions, i \in Items : RefuseCommand(c, expected, action, i)
  <2>1. reply' \in Replies
    BY <1>12 DEF RefuseCommand, Reply, Replies
  <2> QED
    BY <1>12, <2>1 DEF RefuseCommand, TypeOK
<1> QED
  BY <1>4, <1>5, <1>6, <1>7, <1>8, <1>9, <1>10, <1>11, <1>12 DEF ManagerCommand

\* Closing an overdue Activity, whatever answers its transaction sees.
LEMMA CloseOverdueType ==
  ASSUME TypeOK, NEW rows \in SUBSET Answers, CloseOverdue(rows)
  PROVE  session' \in Sessions /\ ledger' \in Seq(Events)
<1>1. ClosedRow \in Sessions
  BY ClosedRowType
<1>2. <<StateEvent(ClosedRow, TRUE), ResultEvent(ClosedRow, rows)>> \in Seq(Events)
  BY <1>1, EventTypes, Pair
<1> QED
  BY <1>1, <1>2, ConcatProperties DEF CloseOverdue, TypeOK

LEMMA NoReplyType == NoReply \in Replies
  BY DEF NoReply, Replies

LEMMA DeadlineType ==
  ASSUME TypeOK,
         \/ Elapse
         \/ ReconcileDeadline
         \/ \E r \in Readers : BeginSnapshot(r) \/ EndSnapshot(r) \/ AbandonSnapshot(r)
  PROVE  TypeOK'
<1> USE NoReplyType
<1>1. CASE Elapse
  <2>1. session' \in Sessions
    BY <1>1 DEF Elapse, TypeOK, Sessions, Deadlines
  <2> QED
    BY <1>1, <2>1 DEF Elapse, TypeOK
<1>2. CASE ReconcileDeadline
  <2>1. session' \in Sessions /\ ledger' \in Seq(Events)
    BY <1>2, CloseOverdueType DEF ReconcileDeadline, TypeOK
  <2> QED
    BY <1>2, <2>1 DEF ReconcileDeadline, TypeOK
<1>3. ASSUME NEW r \in Readers, BeginSnapshot(r)
      PROVE  TypeOK'
  <2>1. [step |-> "waiting", version |-> session.version, rows |-> answers]
          \in [step: {"waiting"}, version: Nat \ {0}, rows: SUBSET Answers]
    BY DEF TypeOK, Sessions
  <2> QED
    BY <1>3, <2>1 DEF BeginSnapshot, TypeOK
<1>4. ASSUME NEW r \in Readers, EndSnapshot(r)
      PROVE  TypeOK'
  <2>1. readers[r].rows \in SUBSET Answers
    BY <1>4 DEF EndSnapshot, TypeOK, Idle
  <2>2. session' \in Sessions /\ ledger' \in Seq(Events)
    BY <1>4, <2>1, CloseOverdueType DEF EndSnapshot, TypeOK
  <2> QED
    BY <1>4, <2>2 DEF EndSnapshot, TypeOK
<1>5. ASSUME NEW r \in Readers, AbandonSnapshot(r)
      PROVE  TypeOK'
  BY <1>5 DEF AbandonSnapshot, TypeOK
<1> QED
  BY <1>1, <1>2, <1>3, <1>4, <1>5

\* A request looked up by a join, and a participants row it leaves.
LEMMA JoinRecord ==
  ASSUME TypeOK, NEW j \in Joiners, joins[j].step = "looked_up"
  PROVE  joins[j].name \in Names /\ joins[j].token \in Tokens
  BY DEF TypeOK, Idle

LEMMA JoinType ==
  ASSUME TypeOK, NEW j \in Joiners,
         \/ \E n \in Names, t \in Tokens : JoinLookup(j, n, t)
         \/ Restore(j) \/ Insert(j) \/ RejectJoin(j) \/ AbandonJoin(j)
  PROVE  TypeOK'
<1> USE NoReplyType
<1>1. ASSUME NEW n \in Names, NEW t \in Tokens, JoinLookup(j, n, t)
      PROVE  TypeOK'
  <2>1. [step |-> "looked_up", name |-> n, token |-> t]
          \in [step: {"looked_up"}, name: Names, token: Tokens]
    OBVIOUS
  <2>2. joins' \in [Joiners -> {Idle} \cup
          [step: {"looked_up"}, name: Names, token: Tokens]]
    BY <1>1, <2>1 DEF JoinLookup, TypeOK
  <2>3. reply' \in Replies
    BY <1>1 DEF JoinLookup, Reply, Replies, Owner
  <2> QED
    BY <1>1, <2>2, <2>3 DEF JoinLookup, TypeOK
<1>2. CASE Restore(j)
  <2>1. joins[j].name \in Names /\ joins[j].token \in Tokens
    BY <1>2, JoinRecord DEF Restore
  <2>2. participants[joins[j].name] \in Rows
    BY <2>1 DEF TypeOK
  <2>3. Reclaimed(participants[joins[j].name], joins[j].token) \in Rows
    BY <2>1, <2>2 DEF Reclaimed, Rows
  <2>4. participants' \in [Names -> Rows]
    BY <1>2, <2>1, <2>3 DEF Restore, TypeOK
  <2>5. reply' \in Replies
    BY <1>2, <2>1 DEF Restore, Reply, Replies
  <2> QED
    BY <1>2, <2>4, <2>5 DEF Restore, TypeOK
<1>3. CASE Insert(j)
  <2>1. joins[j].name \in Names /\ joins[j].token \in Tokens
    BY <1>3, JoinRecord DEF Insert
  <2>2. participants' \in [Names -> Rows]
    BY <1>3, <2>1 DEF Insert, TypeOK, Rows
  <2>3. Event("presence.updated", session, FALSE, {}) \in Events
    BY EventTypes DEF TypeOK
  <2>4. ledger' \in Seq(Events)
    BY <1>3, <2>3, AppendProperties DEF Insert, TypeOK
  <2>5. reply' \in Replies
    BY <1>3, <2>1 DEF Insert, Reply, Replies
  <2> QED
    BY <1>3, <2>2, <2>4, <2>5 DEF Insert, TypeOK
<1>4. CASE RejectJoin(j)
  <2>1. joins[j].name \in Names /\ joins[j].token \in Tokens
    BY <1>4, JoinRecord DEF RejectJoin
  <2>2. reply' \in Replies
    BY <1>4, <2>1 DEF RejectJoin, Reply, Replies, Owner
  <2> QED
    BY <1>4, <2>2 DEF RejectJoin, TypeOK
<1>5. CASE AbandonJoin(j)
  BY <1>5 DEF AbandonJoin, TypeOK
<1> QED
  BY <1>1, <1>2, <1>3, <1>4, <1>5

LEMMA PresenceType ==
  ASSUME TypeOK, NEW t \in Tokens, NEW connected \in BOOLEAN,
         SetPresence(t, connected)
  PROVE  TypeOK'
<1>1. PICK n \in Owner(t) :
        participants' = [participants EXCEPT ![n].connected = connected]
  BY DEF SetPresence
<1>2. n \in Names /\ participants[n] \in Rows
  BY DEF Owner, TypeOK
<1>3. participants' \in [Names -> Rows]
  BY <1>1, <1>2 DEF TypeOK, Rows
<1> QED
  BY <1>3, NoReplyType DEF SetPresence, TypeOK

\* An answer request past its lookup.
LEMMA SubmitRecord ==
  ASSUME TypeOK, NEW s \in Submitters, submits[s].step # "idle"
  PROVE  /\ submits[s] \in [step: {"looked_up", "admitted"}, name: Names,
                            item: Items, request: AnswerIds]
         /\ submits[s].name \in Names
         /\ submits[s].item \in Items
         /\ submits[s].request \in AnswerIds
  BY DEF TypeOK, Idle

LEMMA SubmitType ==
  ASSUME TypeOK, NEW s \in Submitters,
         \/ \E t \in Tokens, request \in AnswerIds, i \in Items :
              SubmitLookup(s, t, request, i)
         \/ SubmitAdmit(s)
         \/ \E delta \in Points : SubmitCommit(s, delta)
         \/ AbandonSubmit(s)
  PROVE  TypeOK'
<1> USE NoReplyType
<1>1. ASSUME NEW t \in Tokens, NEW request \in AnswerIds, NEW i \in Items,
             SubmitLookup(s, t, request, i)
      PROVE  TypeOK'
  <2>1. \A n \in Names :
          [step |-> "looked_up", name |-> n, item |-> i, request |-> request]
            \in [step: {"looked_up", "admitted"}, name: Names, item: Items,
                 request: AnswerIds]
    OBVIOUS
  <2>2. PICK n \in Owner(t) :
          \/ /\ submits' = [submits EXCEPT ![s] =
                  [step |-> "looked_up", name |-> n, item |-> i, request |-> request]]
             /\ reply' = NoReply
          \/ \E a \in PriorAnswer(n, request) :
               /\ reply' = Reply("answer", <<n, request>>, "duplicate", a.delta)
               /\ UNCHANGED submits
    BY <1>1 DEF SubmitLookup
  <2>3. n \in Names
    BY DEF Owner
  <2>4. submits' \in [Submitters -> {Idle} \cup
          [step: {"looked_up", "admitted"}, name: Names, item: Items,
           request: AnswerIds]]
    BY <2>1, <2>2, <2>3 DEF TypeOK
  <2>5. \A a \in PriorAnswer(n, request) : a.delta \in Nat
    BY PointsAssumption DEF PriorAnswer, TypeOK, Answers
  <2>6. reply' \in Replies
    BY <2>2, <2>3, <2>5 DEF Reply, Replies
  <2> QED
    BY <1>1, <2>4, <2>6 DEF SubmitLookup, TypeOK
<1>2. CASE SubmitAdmit(s)
  <2>1. submits[s] \in [step: {"looked_up", "admitted"}, name: Names,
                        item: Items, request: AnswerIds]
    BY <1>2, SubmitRecord DEF SubmitAdmit
  <2>2. submits' \in [Submitters -> {Idle} \cup
          [step: {"looked_up", "admitted"}, name: Names, item: Items,
           request: AnswerIds]]
    BY <1>2, <2>1 DEF SubmitAdmit, TypeOK
  <2>3. reply' \in Replies
    BY <1>2, <2>1 DEF SubmitAdmit, Reply, Replies
  <2> QED
    BY <1>2, <2>2, <2>3 DEF SubmitAdmit, TypeOK
<1>3. ASSUME NEW delta \in Points, SubmitCommit(s, delta)
      PROVE  TypeOK'
  <2> DEFINE a == submits[s]
  <2>1. a.name \in Names /\ a.item \in Items /\ a.request \in AnswerIds
    BY <1>3, SubmitRecord DEF SubmitCommit
  <2>2. delta \in Nat
    BY PointsAssumption
  <2>3. answers' \subseteq Answers
    BY <1>3, <2>1 DEF SubmitCommit, TypeOK, Answers
  <2>4. participants' \in [Names -> Rows]
    <3>1. participants[a.name] \in Rows
      BY <2>1 DEF TypeOK
    <3>2. participants[a.name].score + delta \in Nat
      BY <2>2, <3>1 DEF Rows
    <3> DEFINE row == [participants[a.name] EXCEPT !.score = @ + delta]
    <3>3. row \in Rows
      BY <3>1, <3>2 DEF Rows
    <3>4. \/ participants' = participants
          \/ participants' = [participants EXCEPT ![a.name] = row]
      BY <1>3 DEF SubmitCommit
    <3>5. participants \in [Names -> Rows]
      BY DEF TypeOK
    <3> HIDE DEF row
    <3> QED
      BY <2>1, <3>3, <3>4, <3>5
  <2>5. \A b \in PriorAnswer(a.name, a.request) : b.delta \in Nat
    BY PointsAssumption DEF PriorAnswer, TypeOK, Answers
  <2>6. reply' \in Replies
    BY <1>3, <2>1, <2>2, <2>5 DEF SubmitCommit, Reply, Replies
  <2>7. submits' \in [Submitters -> {Idle} \cup
          [step: {"looked_up", "admitted"}, name: Names, item: Items,
           request: AnswerIds]]
    BY <1>3 DEF SubmitCommit, TypeOK
  <2> QED
    BY <1>3, <2>3, <2>4, <2>6, <2>7 DEF SubmitCommit, TypeOK
<1>4. CASE AbandonSubmit(s)
  BY <1>4 DEF AbandonSubmit, TypeOK
<1> QED
  BY <1>1, <1>2, <1>3, <1>4

LEMMA TypeStep ==
  ASSUME TypeOK, [Next]_vars
  PROVE  TypeOK'
<1>1. CASE Next
  BY <1>1, CommandType, DeadlineType, JoinType, PresenceType, SubmitType DEF Next
<1>2. CASE UNCHANGED vars
  BY <1>2 DEF vars, TypeOK
<1> QED
  BY <1>1, <1>2

\* Every variable keeps its shape.
THEOREM TypeCorrect == Spec => []TypeOK
  BY InitType, TypeStep, PTL DEF Spec
-----------------------------------------------------------------------------
(* The session row.                                                        *)

\* A step that changes the row is a command or a closing deadline, which wait
\* until nobody holds the row FOR SHARE, or the clock, which closes nothing.
LEMMA SessionSteps ==
  ASSUME [Next]_vars
  PROVE  \/ UNCHANGED session
         \/ Elapse
         \/ Unshared /\ UNCHANGED submits
<1> USE DEF Apply, CloseOverdue
<1>1. ASSUME NEW c \in Commands, NEW expected \in 1..session.version,
             ManagerCommand(c, expected)
      PROVE  UNCHANGED session \/ (Unshared /\ UNCHANGED submits)
  BY <1>1 DEF ManagerCommand, Start, PresentContent, PresentActivity,
     CloseActivity, RevealActivity, ShowOverallRanking, End, ReplayCommand,
     RefuseCommand
<1>2. CASE ReconcileDeadline
  BY <1>2 DEF ReconcileDeadline
<1>3. ASSUME NEW r \in Readers,
             BeginSnapshot(r) \/ EndSnapshot(r) \/ AbandonSnapshot(r)
      PROVE  UNCHANGED session \/ (Unshared /\ UNCHANGED submits)
  BY <1>3 DEF BeginSnapshot, EndSnapshot, AbandonSnapshot
<1>4. ASSUME NEW j \in Joiners,
             \/ \E n \in Names, t \in Tokens : JoinLookup(j, n, t)
             \/ Restore(j) \/ Insert(j) \/ RejectJoin(j) \/ AbandonJoin(j)
      PROVE  UNCHANGED session
  BY <1>4 DEF JoinLookup, Restore, Insert, RejectJoin, AbandonJoin
<1>5. ASSUME NEW t \in Tokens, NEW connected \in BOOLEAN, SetPresence(t, connected)
      PROVE  UNCHANGED session
  BY <1>5 DEF SetPresence
<1>6. ASSUME NEW s \in Submitters,
             \/ \E t \in Tokens, request \in AnswerIds, i \in Items :
                  SubmitLookup(s, t, request, i)
             \/ SubmitAdmit(s)
             \/ \E delta \in Points : SubmitCommit(s, delta)
             \/ AbandonSubmit(s)
      PROVE  UNCHANGED session
  BY <1>6 DEF SubmitLookup, SubmitAdmit, SubmitCommit, AbandonSubmit
<1> QED
  BY <1>1, <1>2, <1>3, <1>4, <1>5, <1>6 DEF Next, vars

LEMMA InitRow == Init => RowIsLegal
  BY ItemsAssumption DEF Init, RowIsLegal

\* ClosedRow closes the Activity on stage and touches nothing else.
LEMMA ClosedRowIsLegal ==
  ASSUME RowIsLegal, session.state = "presenting", session.phase = "accepting",
         session' = ClosedRow
  PROVE  RowIsLegal'
  BY DEF RowIsLegal, ClosedRow, Updated

LEMMA RowStep ==
  ASSUME TypeOK, RowIsLegal, [Next]_vars
  PROVE  RowIsLegal'
<1> USE ItemsAssumption
<1>1. CASE UNCHANGED session
  BY <1>1 DEF RowIsLegal
<1>2. CASE Elapse
  <2>1. session' = [session EXCEPT !.deadline = "elapsed"] /\ session \in Sessions
    BY <1>2 DEF Elapse, TypeOK
  <2>2. /\ session'.state = session.state /\ session'.item = session.item
        /\ session'.phase = session.phase /\ session'.view = session.view
        /\ session'.deadline = "elapsed"
    BY <2>1 DEF Sessions
  <2> QED
    BY <1>2, <2>2 DEF Elapse, RowIsLegal
<1>3. ASSUME NEW c \in Commands, NEW expected \in 1..session.version,
             ManagerCommand(c, expected), ~ UNCHANGED session
      PROVE  RowIsLegal'
  <2> USE DEF Apply, Updated, CanApplyAction
  <2>1. CASE Start(c, expected)
    BY <2>1 DEF Start, RowIsLegal
  <2>2. CASE \E i \in Items : PresentContent(c, expected, i)
    BY <2>2 DEF PresentContent, RowIsLegal
  <2>3. CASE \E i \in Items : PresentActivity(c, expected, i)
    BY <2>3 DEF PresentActivity, RowIsLegal
  <2>4. CASE CloseActivity(c, expected)
    BY <2>4, ClosedRowIsLegal DEF CloseActivity
  <2>5. CASE RevealActivity(c, expected)
    BY <2>5 DEF RevealActivity, RowIsLegal
  <2>6. CASE ShowOverallRanking(c, expected)
    BY <2>6 DEF ShowOverallRanking, RowIsLegal
  <2>7. CASE End(c, expected)
    BY <2>7 DEF End, RowIsLegal
  <2> QED
    BY <1>3, <2>1, <2>2, <2>3, <2>4, <2>5, <2>6, <2>7
       DEF ManagerCommand, ReplayCommand, RefuseCommand
<1>4. ASSUME NEW rows, CloseOverdue(rows)
      PROVE  RowIsLegal'
  BY <1>4, ClosedRowIsLegal DEF CloseOverdue, Overdue
<1>5. CASE ReconcileDeadline
  BY <1>4, <1>5 DEF ReconcileDeadline
<1>6. ASSUME NEW r \in Readers, EndSnapshot(r), ~ UNCHANGED session
      PROVE  RowIsLegal'
  BY <1>4, <1>6 DEF EndSnapshot
<1> QED
  BY <1>1, <1>2, <1>3, <1>5, <1>6
     DEF Next, vars, BeginSnapshot, AbandonSnapshot, JoinLookup, Restore,
         Insert, RejectJoin, AbandonJoin, SetPresence, SubmitLookup,
         SubmitAdmit, SubmitCommit, AbandonSubmit

\* The database never has to refuse a row, and only Activities have a phase.
THEOREM RowAlwaysLegal == Spec => []RowIsLegal
<1>1. TypeOK /\ RowIsLegal /\ [Next]_vars => RowIsLegal'
  BY RowStep
<1> QED
  BY <1>1, InitRow, TypeCorrect, PTL DEF Spec
-----------------------------------------------------------------------------
(* Answers.                                                                *)

\* What happens to an answer request that holds the shared lock.
LEMMA SubmitSteps ==
  ASSUME TypeOK, [Next]_vars, NEW s \in Submitters, submits'[s].step = "admitted"
  PROVE  /\ submits'[s].item = submits[s].item
         /\ \/ submits[s].step = "admitted"
            \/ Admissible(submits[s].item) /\ UNCHANGED session
<1>1. submits \in [Submitters -> {Idle} \cup
        [step: {"looked_up", "admitted"}, name: Names, item: Items,
         request: AnswerIds]]
  BY DEF TypeOK
<1>2. CASE UNCHANGED submits
  BY <1>2
<1>3. ASSUME NEW x \in Submitters, NEW t \in Tokens, NEW request \in AnswerIds,
             NEW i \in Items, SubmitLookup(x, t, request, i), ~ UNCHANGED submits
      PROVE  submits'[s] = submits[s]
  <2>1. PICK n : submits' = [submits EXCEPT ![x] =
               [step |-> "looked_up", name |-> n, item |-> i, request |-> request]]
    BY <1>3 DEF SubmitLookup
  <2> QED
    BY <1>1, <2>1
<1>4. ASSUME NEW x \in Submitters, SubmitAdmit(x)
      PROVE  \/ submits'[s] = submits[s]
             \/ /\ submits'[s].item = submits[s].item
                /\ Admissible(submits[s].item) /\ UNCHANGED session
  <2>1. submits[x] \in [step: {"looked_up", "admitted"}, name: Names,
                        item: Items, request: AnswerIds]
    BY <1>4, SubmitRecord DEF SubmitAdmit
  <2>2. CASE Admissible(submits[x].item)
    BY <1>1, <1>4, <2>1, <2>2 DEF SubmitAdmit
  <2>3. CASE ~Admissible(submits[x].item)
    BY <1>1, <1>4, <2>3 DEF SubmitAdmit, Idle
  <2> QED
    BY <2>2, <2>3
<1>5. ASSUME NEW x \in Submitters,
             AbandonSubmit(x) \/ \E delta \in Points : SubmitCommit(x, delta)
      PROVE  submits'[s] = submits[s]
  <2>1. submits' = [submits EXCEPT ![x] = Idle]
    BY <1>5 DEF AbandonSubmit, SubmitCommit
  <2> QED
    BY <1>1, <2>1 DEF Idle
<1> QED
  BY <1>2, <1>3, <1>4, <1>5
     DEF Next, vars, ManagerCommand, Apply, Start, PresentContent,
         PresentActivity, CloseActivity, RevealActivity, ShowOverallRanking, End,
         ReplayCommand, RefuseCommand, Elapse, ReconcileDeadline, BeginSnapshot,
         EndSnapshot, AbandonSnapshot, JoinLookup, Restore, Insert, RejectJoin,
         AbandonJoin, SetPresence

\* An answer admitted under the shared lock commits while its Activity is on
\* stage and accepts: nothing closes the Activity between the two.
THEOREM AnswersCommitInTime == Spec => []AdmittedStillOpen
<1>1. Init => AdmittedStillOpen
  BY DEF Init, AdmittedStillOpen, Idle
<1>2. TypeOK /\ AdmittedStillOpen /\ [Next]_vars => AdmittedStillOpen'
  <2> SUFFICES ASSUME TypeOK, AdmittedStillOpen, [Next]_vars,
                      NEW s \in Submitters, submits'[s].step = "admitted"
               PROVE  session'.phase = "accepting" /\ session'.item = submits'[s].item
    BY DEF AdmittedStillOpen
  <2>1. /\ submits'[s].item = submits[s].item
        /\ \/ submits[s].step = "admitted"
           \/ Admissible(submits[s].item) /\ UNCHANGED session
    BY SubmitSteps
  <2>2. CASE Admissible(submits[s].item) /\ UNCHANGED session
    BY <2>1, <2>2 DEF Admissible
  <2>3. CASE submits[s].step = "admitted"
    <3>1. session.phase = "accepting" /\ session.item = submits[s].item
      BY <2>3 DEF AdmittedStillOpen
    <3>2. UNCHANGED session \/ Elapse
      BY <2>3, SessionSteps DEF Unshared
    <3>3. session'.phase = session.phase /\ session'.item = session.item
      BY <3>2 DEF Elapse, TypeOK, Sessions
    <3> QED
      BY <2>1, <3>1, <3>3
  <2> QED
    BY <2>1, <2>2, <2>3
<1> QED
  BY <1>1, <1>2, TypeCorrect, PTL DEF Spec

\* Only a commit that no unique index refuses adds an answer.
LEMMA AnswerSteps ==
  ASSUME [Next]_vars
  PROVE  \/ UNCHANGED answers
         \/ \E s \in Submitters, delta \in Points :
              SubmitCommit(s, delta) /\ ~Taken(submits[s])
<1>1. ASSUME NEW s \in Submitters, NEW delta \in Points, SubmitCommit(s, delta)
      PROVE  UNCHANGED answers \/ ~Taken(submits[s])
  BY <1>1 DEF SubmitCommit
<1> QED
  BY <1>1
     DEF Next, vars, ManagerCommand, Apply, Start, PresentContent,
         PresentActivity, CloseActivity, RevealActivity, ShowOverallRanking, End,
         ReplayCommand, RefuseCommand, Elapse, ReconcileDeadline, BeginSnapshot,
         EndSnapshot, AbandonSnapshot, JoinLookup, Restore, Insert, RejectJoin,
         AbandonJoin, SetPresence, SubmitLookup, SubmitAdmit, AbandonSubmit

\* A participant answers an item once and uses a request id once.
THEOREM AnswersStayUnique == Spec => []AnswersAreUnique
<1>1. Init => AnswersAreUnique
  BY DEF Init, AnswersAreUnique
<1>2. AnswersAreUnique /\ [Next]_vars => AnswersAreUnique'
  <2> SUFFICES ASSUME AnswersAreUnique, [Next]_vars PROVE AnswersAreUnique'
    OBVIOUS
  <2>1. CASE UNCHANGED answers
    BY <2>1 DEF AnswersAreUnique
  <2>2. ASSUME NEW s \in Submitters, NEW delta \in Points,
               SubmitCommit(s, delta), ~Taken(submits[s])
        PROVE  AnswersAreUnique'
    <3> DEFINE new == [name |-> submits[s].name, item |-> submits[s].item,
                       request |-> submits[s].request, delta |-> delta]
    <3>1. answers' = answers \cup {new}
      BY <2>2 DEF SubmitCommit
    <3>2. \A b \in answers : /\ b.name = new.name
                             /\ b.item = new.item \/ b.request = new.request
                             => FALSE
      BY <2>2 DEF Taken
    <3> QED
      BY <3>1, <3>2 DEF AnswersAreUnique
  <2> QED
    BY <2>1, <2>2, AnswerSteps
<1> QED
  BY <1>1, <1>2, PTL DEF Spec
-----------------------------------------------------------------------------
(* Commands.                                                               *)

\* The reply to a command is that of one of its three outcomes.
LEMMA CommandReplies ==
  ASSUME Next, NEW d \in Commands, reply'.call = "command", reply'.id = d
  PROVE  \/ commands[d] = NoResult
         \/ reply'.outcome = "duplicate" /\ reply'.body = commands[d].version
<1>1. ASSUME NEW c \in Commands, NEW expected, ManagerCommand(c, expected)
      PROVE  \/ commands[d] = NoResult
             \/ reply'.outcome = "duplicate" /\ reply'.body = commands[d].version
  <2>1. CASE ReplayCommand(c)
    BY <2>1 DEF ReplayCommand, Reply
  <2>2. CASE \E action \in Actions, i \in Items : RefuseCommand(c, expected, action, i)
    BY <2>2 DEF RefuseCommand, Reply
  <2>3. ASSUME NEW action, NEW row, NEW after,
               Apply(c, expected, action, row, after)
        PROVE  commands[d] = NoResult
    BY <2>3 DEF Apply, Reply
  <2> QED
    BY <1>1, <2>1, <2>2, <2>3 DEF ManagerCommand, Start, PresentContent,
       PresentActivity, CloseActivity, RevealActivity, ShowOverallRanking, End
<1>2. reply'.call \in {"none", "join", "answer"} \/
      \E c \in Commands, expected \in 1..session.version : ManagerCommand(c, expected)
  <2>1. /\ NoReply.call = "none"
        /\ \A id, outcome, body : /\ Reply("join", id, outcome, body).call = "join"
                                   /\ Reply("answer", id, outcome, body).call = "answer"
    BY DEF NoReply, Reply
  <2> HIDE DEF Reply, NoReply
  <2>2. ASSUME \/ Elapse \/ ReconcileDeadline
               \/ \E r \in Readers : BeginSnapshot(r) \/ EndSnapshot(r) \/ AbandonSnapshot(r)
        PROVE  reply' = NoReply
    BY <2>2 DEF Elapse, ReconcileDeadline, BeginSnapshot, EndSnapshot, AbandonSnapshot
  <2>3. ASSUME NEW j \in Joiners,
               \/ \E n \in Names, t \in Tokens : JoinLookup(j, n, t)
               \/ Restore(j) \/ Insert(j) \/ RejectJoin(j) \/ AbandonJoin(j)
        PROVE  reply'.call \in {"none", "join"}
    <3>1. CASE \E n \in Names, t \in Tokens : JoinLookup(j, n, t)
      BY <2>1, <3>1 DEF JoinLookup
    <3>2. CASE Restore(j) \/ Insert(j)
      <4>1. \/ reply' = Reply("join", joins[j].token, "restored", joins[j].name)
            \/ reply' = Reply("join", joins[j].token, "applied", joins[j].name)
        BY <3>2 DEF Restore, Insert
      <4> QED
        BY <2>1, <4>1
    <3>3. CASE RejectJoin(j)
      BY <2>1, <3>3 DEF RejectJoin
    <3>4. CASE AbandonJoin(j)
      BY <2>1, <3>4 DEF AbandonJoin
    <3> QED
      BY <2>3, <3>1, <3>2, <3>3, <3>4
  <2>4. ASSUME NEW t \in Tokens, NEW connected \in BOOLEAN, SetPresence(t, connected)
        PROVE  reply' = NoReply
    BY <2>4 DEF SetPresence
  <2>5. ASSUME NEW s \in Submitters,
               \/ \E t \in Tokens, request \in AnswerIds, i \in Items :
                    SubmitLookup(s, t, request, i)
               \/ SubmitAdmit(s)
               \/ \E delta \in Points : SubmitCommit(s, delta)
               \/ AbandonSubmit(s)
        PROVE  reply'.call \in {"none", "answer"}
    <3>1. CASE \E t \in Tokens, request \in AnswerIds, i \in Items :
                 SubmitLookup(s, t, request, i)
      BY <2>1, <3>1 DEF SubmitLookup
    <3>2. CASE SubmitAdmit(s)
      BY <2>1, <3>2 DEF SubmitAdmit
    <3>3. CASE \E delta \in Points : SubmitCommit(s, delta)
      BY <2>1, <3>3 DEF SubmitCommit
    <3>4. CASE AbandonSubmit(s)
      BY <2>1, <3>4 DEF AbandonSubmit
    <3> QED
      BY <2>5, <3>1, <3>2, <3>3, <3>4
  <2> QED
    BY <2>1, <2>2, <2>3, <2>4, <2>5 DEF Next
<1> QED
  BY <1>1, <1>2

\* Whatever a retried command asks, and whatever the session has become, it is
\* answered with what its request id stored.
THEOREM CommandsReplay == Spec => CommandRetryReturnsOriginal
<1> DEFINE A == \A c \in Commands :
       reply'.call = "command" /\ reply'.id = c /\ commands[c] # NoResult
         => reply'.outcome = "duplicate" /\ reply'.body = commands[c].version
<1>1. [Next]_vars => [A]_vars
  BY CommandReplies
<1> QED
  BY <1>1, PTL DEF Spec, CommandRetryReturnsOriginal
-----------------------------------------------------------------------------
(* Refinement.                                                             *)

LEMMA InitRefines == Init => Run!Init
  BY DEF Init, Run!Init

\* A command that passes its checks is the step of the run it is named for.
LEMMA CommandRefines ==
  ASSUME TypeOK, RowIsLegal, NEW c \in Commands, NEW expected,
         ManagerCommand(c, expected)
  PROVE  Run!Next \/ UNCHANGED Run!vars
<1> USE DEF Apply, Updated, CanApplyAction, Run!Enter, Run!CanTransition
<1>1. CASE Start(c, expected)
  BY <1>1 DEF Start, Run!Start, Run!Next
<1>2. ASSUME NEW i \in Items, PresentContent(c, expected, i) \/ PresentActivity(c, expected, i)
      PROVE  Run!Present(i)
  BY <1>2, ItemsAssumption DEF PresentContent, PresentActivity, RowIsLegal, Run!Present
<1>3. CASE CloseActivity(c, expected)
  BY <1>3 DEF CloseActivity, ClosedRow, Run!Close, Run!Next
<1>4. CASE RevealActivity(c, expected)
  BY <1>4 DEF RevealActivity, Run!Reveal, Run!Next
<1>5. CASE ShowOverallRanking(c, expected)
  BY <1>5 DEF ShowOverallRanking, Run!vars
<1>6. CASE End(c, expected)
  BY <1>6, ItemsAssumption DEF End, RowIsLegal, Run!End, Run!Next
<1>7. CASE ReplayCommand(c) \/ \E action \in Actions, i \in Items :
                                 RefuseCommand(c, expected, action, i)
  BY <1>7 DEF ReplayCommand, RefuseCommand, Run!vars
<1> QED
  BY <1>1, <1>2, <1>3, <1>4, <1>5, <1>6, <1>7 DEF ManagerCommand, Run!Next

LEMMA ClosingRefines ==
  ASSUME NEW rows, CloseOverdue(rows), UNCHANGED answers
  PROVE  Run!Close
  BY DEF CloseOverdue, Overdue, ClosedRow, Updated, Run!Close, Run!Enter,
     Run!CanTransition

\* An answer that commits is a response to the Activity on stage.
LEMMA CommitRefines ==
  ASSUME TypeOK, AdmittedStillOpen, NEW s \in Submitters, NEW delta \in Points,
         SubmitCommit(s, delta), ~Taken(submits[s])
  PROVE  Run!Next
<1> DEFINE n == submits[s].name
           i == submits[s].item
           responses == {<<a.name, a.item>> : a \in answers}
<1>1. n \in Names /\ session.phase = "accepting" /\ session.item = i
  BY SubmitRecord DEF SubmitCommit, AdmittedStillOpen
<1>2. <<n, i>> \notin responses
  BY DEF Taken
<1>3. {<<a.name, a.item>> : a \in answers'} = responses \cup {<<n, i>>}
  <2> DEFINE new == [name |-> n, item |-> i, request |-> submits[s].request,
                     delta |-> delta]
  <2>1. answers' = answers \cup {new} /\ new.name = n /\ new.item = i
    BY DEF SubmitCommit
  <2> HIDE DEF new
  <2> QED
    BY <2>1
<1>4. UNCHANGED session
  BY DEF SubmitCommit
<1>5. PICK m \in Names : m = n
  BY <1>1
<1>6. Run!Respond(m)
  BY <1>1, <1>2, <1>3, <1>4, <1>5 DEF Run!Respond
<1> QED
  BY <1>6 DEF Run!Next

\* The session implements the run: its locks, versions, retries and deadline
\* never show its audience anything a run could not do.
THEOREM SessionImplementsRun == Spec => ImplementsRun
<1>1. TypeOK /\ RowIsLegal /\ AdmittedStillOpen /\ [Next]_vars => [Run!Next]_(Run!vars)
  <2> SUFFICES ASSUME TypeOK, RowIsLegal, AdmittedStillOpen, [Next]_vars
               PROVE  Run!Next \/ UNCHANGED Run!vars
    OBVIOUS
  <2>1. CASE UNCHANGED session /\ UNCHANGED answers
    BY <2>1 DEF Run!vars
  <2>2. ASSUME NEW s \in Submitters, NEW delta \in Points,
               SubmitCommit(s, delta), ~Taken(submits[s])
        PROVE  Run!Next
    BY <2>2, CommitRefines
  <2>3. ASSUME NEW c \in Commands, NEW expected \in 1..session.version,
               ManagerCommand(c, expected)
        PROVE  Run!Next \/ UNCHANGED Run!vars
    BY <2>3, CommandRefines
  <2>4. CASE Elapse
    BY <2>4 DEF Elapse, TypeOK, Sessions, Run!vars
  <2>5. CASE ReconcileDeadline
    BY <2>5, ClosingRefines DEF ReconcileDeadline, Run!Next
  <2>6. ASSUME NEW r \in Readers, EndSnapshot(r), ~ UNCHANGED session
        PROVE  Run!Next
    BY <2>6, ClosingRefines DEF EndSnapshot, Run!Next
  <2> QED
    BY <2>1, <2>2, <2>3, <2>4, <2>5, <2>6, AnswerSteps
       DEF Next, vars, EndSnapshot, BeginSnapshot, AbandonSnapshot, JoinLookup,
           Restore, Insert, RejectJoin, AbandonJoin, SetPresence, SubmitLookup,
           SubmitAdmit, SubmitCommit, AbandonSubmit
<1> QED
  BY <1>1, InitRefines, TypeCorrect, RowAlwaysLegal, AnswersCommitInTime, PTL
     DEF Spec, ImplementsRun, Run!Spec
-----------------------------------------------------------------------------
(* The ledger.                                                             *)

\* The ledger keeps what it had and gains k events.
Grows(k) == /\ Len(ledger') = Len(ledger) + k
            /\ \A i \in 1..Len(ledger) : ledger'[i] = ledger[i]

\* A step adds nothing, announces a join, or makes the next version: a state
\* event first, then at most one event that is no state change.
SameVersion == session'.version = session.version /\ UNCHANGED commands

Announces == /\ SameVersion
             /\ Grows(1)
             /\ ledger'[Len(ledger) + 1].name = "presence.updated"
             /\ ledger'[Len(ledger) + 1].version = session.version

NewVersion(k) ==
  /\ session'.version = session.version + 1
  /\ Grows(k)
  /\ ledger'[Len(ledger) + 1].name = "session.state_changed"
  /\ ledger'[Len(ledger) + 1].version = session'.version
  /\ k = 2 => /\ ledger'[Len(ledger) + 2].name \in {"activity.result_updated",
                                                    "ranking.updated"}
              /\ ledger'[Len(ledger) + 2].version = session'.version
  /\ \/ ledger'[Len(ledger) + 1].deadline /\ UNCHANGED commands
     \/ /\ ~ledger'[Len(ledger) + 1].deadline
        /\ \E c \in Commands : /\ commands[c] = NoResult
                               /\ commands' = [commands EXCEPT ![c] = Stored(session')]

\* Appending one or two events to the ledger.
LEMMA AppendEvents ==
  ASSUME TypeOK, NEW d \in Events
  PROVE  /\ ledger' = ledger \o <<d>> => Grows(1) /\ ledger'[Len(ledger) + 1] = d
         /\ \A e \in Events :
              ledger' = ledger \o <<d, e>> =>
                /\ Grows(2)
                /\ ledger'[Len(ledger) + 1] = d
                /\ ledger'[Len(ledger) + 2] = e
<1>1. ledger \in Seq(Events) /\ Len(ledger) \in Nat
  BY LenProperties DEF TypeOK
<1>2. /\ <<d>> \in Seq(Events) /\ Len(<<d>>) = 1 /\ <<d>>[1] = d
  BY Singleton
<1>3. ASSUME ledger' = ledger \o <<d>>
      PROVE  Grows(1) /\ ledger'[Len(ledger) + 1] = d
  BY <1>1, <1>2, <1>3, ConcatProperties DEF Grows
<1>4. ASSUME NEW e \in Events, ledger' = ledger \o <<d, e>>
      PROVE  Grows(2) /\ ledger'[Len(ledger) + 1] = d /\ ledger'[Len(ledger) + 2] = e
  <2>1. <<d, e>> \in Seq(Events) /\ Len(<<d, e>>) = 2 /\ <<d, e>>[1] = d /\ <<d, e>>[2] = e
    BY Pair
  <2> QED
    BY <1>1, <1>4, <2>1, ConcatProperties DEF Grows
<1> QED
  BY <1>3, <1>4

\* A command makes the next version.
LEMMA ApplyVersion ==
  ASSUME TypeOK, NEW c \in Commands, NEW expected, NEW action,
         NEW row \in Sessions, row.version = session.version + 1, NEW after,
         Apply(c, expected, action, row, after),
         \/ after = <<>>
         \/ \E e \in Events : /\ after = <<e>>
                              /\ e.name \in {"activity.result_updated", "ranking.updated"}
                              /\ e.version = row.version
  PROVE  NewVersion(1) \/ NewVersion(2)
<1> DEFINE d == StateEvent(row, FALSE)
<1>1. /\ d \in Events /\ d.name = "session.state_changed"
      /\ d.version = row.version /\ ~d.deadline
  BY EventTypes DEF StateEvent, Event
<1>2. /\ session' = row /\ ledger' = ledger \o <<d>> \o after
      /\ commands[c] = NoResult /\ commands' = [commands EXCEPT ![c] = Stored(session')]
  BY DEF Apply
<1>3. ledger \in Seq(Events) /\ <<d>> \in Seq(Events)
  BY <1>1, Singleton DEF TypeOK
<1> HIDE DEF d
<1>4. CASE after = <<>>
  <2>1. ledger' = ledger \o <<d>>
    BY <1>2, <1>3, <1>4, ConcatProperties, ConcatEmptySeq
  <2>2. Grows(1) /\ ledger'[Len(ledger) + 1] = d
    BY <1>1, <2>1, AppendEvents
  <2>3. 1 # 2
    OBVIOUS
  <2>4. \/ ledger'[Len(ledger) + 1].deadline /\ UNCHANGED commands
        \/ /\ ~ledger'[Len(ledger) + 1].deadline
           /\ \E x \in Commands : /\ commands[x] = NoResult
                                  /\ commands' = [commands EXCEPT ![x] = Stored(session')]
    BY <1>1, <1>2, <2>2
  <2> QED
    BY <1>1, <1>2, <2>2, <2>3, <2>4 DEF NewVersion
<1>5. ASSUME NEW e \in Events, after = <<e>>, e.version = row.version,
             e.name \in {"activity.result_updated", "ranking.updated"}
      PROVE  NewVersion(2)
  <2>1. <<d>> \o <<e>> = <<d, e>>
    BY <1>1, <1>5, PairIsConcat
  <2>2. ledger' = ledger \o <<d, e>>
    BY <1>2, <1>3, <1>5, <2>1, Singleton, ConcatAssociative
  <2>3. Grows(2) /\ ledger'[Len(ledger) + 1] = d /\ ledger'[Len(ledger) + 2] = e
    BY <1>1, <1>5, <2>2, AppendEvents
  <2> QED
    BY <1>1, <1>2, <1>5, <2>3 DEF NewVersion
<1> QED
  BY <1>4, <1>5

LEMMA CommandVersion ==
  ASSUME TypeOK, NEW c \in Commands, NEW expected, ManagerCommand(c, expected)
  PROVE  UNCHANGED <<session, ledger, commands>> \/ NewVersion(1) \/ NewVersion(2)
<1> DEFINE row(state, item, phase, view, deadline) ==
             Updated(state, item, phase, view, deadline)
<1>1. /\ session.state \in States /\ session.item \in Items \cup {NoItem}
      /\ session.phase \in Phases
  BY DEF TypeOK, Sessions
<1>2. /\ {"lobby", "presenting", "ended"} \subseteq States
      /\ {"none", "accepting", "closed", "revealed"} \subseteq Phases
      /\ {"item", "overall_ranking"} \subseteq Views
      /\ {"none", "running"} \subseteq Deadlines
      /\ NoItem \in Items \cup {NoItem}
      /\ Frozen \subseteq Items \cup {NoItem}
      /\ Activities \subseteq Items \cup {NoItem}
  BY ItemsAssumption DEF States, Phases, Views, Deadlines
<1>3. \A state, item, phase, view, deadline :
        row(state, item, phase, view, deadline).version = session.version + 1
  BY DEF Updated
<1> HIDE DEF row
<1>4. CASE Start(c, expected)
  <2>1. row("lobby", NoItem, "none", "item", "none") \in Sessions
    BY <1>2, UpdatedType DEF row
  <2>2. Apply(c, expected, "start", row("lobby", NoItem, "none", "item", "none"), <<>>)
    BY <1>4 DEF Start, row
  <2> QED
    BY <1>3, <2>1, <2>2, ApplyVersion
<1>5. CASE \E i \in Items : PresentContent(c, expected, i)
  <2>1. PICK i \in Items : PresentContent(c, expected, i)
    BY <1>5
  <2>2. row("presenting", i, "none", "item", "none") \in Sessions
    BY <1>2, UpdatedType DEF row
  <2>3. Apply(c, expected, "present_item", row("presenting", i, "none", "item", "none"), <<>>)
    BY <2>1 DEF PresentContent, row
  <2> QED
    BY <1>3, <2>2, <2>3, ApplyVersion
<1>6. CASE \E i \in Items : PresentActivity(c, expected, i)
  <2>1. PICK i \in Items : PresentActivity(c, expected, i)
    BY <1>6
  <2>2. row("presenting", i, "accepting", "item", "running") \in Sessions
    BY <1>2, UpdatedType DEF row
  <2>3. Apply(c, expected, "present_item", row("presenting", i, "accepting", "item", "running"), <<>>)
    BY <2>1 DEF PresentActivity, row
  <2> QED
    BY <1>3, <2>2, <2>3, ApplyVersion
<1>7. CASE CloseActivity(c, expected)
  <2> DEFINE e == ResultEvent(ClosedRow, answers)
  <2>1. ClosedRow \in Sessions /\ ClosedRow.version = session.version + 1
    BY ClosedRowType DEF ClosedRow, Updated
  <2>2. e \in Events /\ e.name = "activity.result_updated" /\ e.version = ClosedRow.version
    BY <2>1, EventTypes DEF TypeOK, ResultEvent, Event
  <2>3. Apply(c, expected, "close_activity", ClosedRow, <<e>>)
    BY <1>7 DEF CloseActivity
  <2> HIDE DEF e
  <2> QED
    BY <2>1, <2>2, <2>3, ApplyVersion
<1>8. CASE RevealActivity(c, expected)
  <2>1. row(session.state, session.item, "revealed", "item", "none") \in Sessions
    BY <1>1, <1>2, UpdatedType DEF row
  <2>2. Apply(c, expected, "reveal_activity",
              row(session.state, session.item, "revealed", "item", "none"), <<>>)
    BY <1>8 DEF RevealActivity, row
  <2> QED
    BY <1>3, <2>1, <2>2, ApplyVersion
<1>9. CASE ShowOverallRanking(c, expected)
  <2> DEFINE r == row(session.state, session.item, session.phase, "overall_ranking", "none")
             e == Event("ranking.updated", r, FALSE, {})
  <2>1. r \in Sessions
    BY <1>1, <1>2, UpdatedType DEF row
  <2>2. r.version = session.version + 1
    BY <1>3
  <2>3. Apply(c, expected, "show_overall_ranking", r, <<e>>)
    BY <1>9 DEF ShowOverallRanking, row
  <2> HIDE DEF r
  <2>4. e \in Events /\ e.name = "ranking.updated" /\ e.version = r.version
    BY <2>1, EventTypes DEF Event
  <2> HIDE DEF e
  <2> QED
    BY <2>1, <2>2, <2>3, <2>4, ApplyVersion
<1>10. CASE End(c, expected)
  <2>1. row("ended", NoItem, "none", "item", "none") \in Sessions
    BY <1>2, UpdatedType DEF row
  <2>2. Apply(c, expected, "end", row("ended", NoItem, "none", "item", "none"), <<>>)
    BY <1>10 DEF End, row
  <2> QED
    BY <1>3, <2>1, <2>2, ApplyVersion
<1>11. CASE ReplayCommand(c) \/ \E action \in Actions, i \in Items :
                                  RefuseCommand(c, expected, action, i)
  BY <1>11 DEF ReplayCommand, RefuseCommand
<1> QED
  BY <1>4, <1>5, <1>6, <1>7, <1>8, <1>9, <1>10, <1>11 DEF ManagerCommand

\* The deadline makes the next version too.
LEMMA ClosingVersion ==
  ASSUME TypeOK, NEW rows \in SUBSET Answers, CloseOverdue(rows), UNCHANGED commands
  PROVE  NewVersion(2)
<1> DEFINE d == StateEvent(ClosedRow, TRUE)
           e == ResultEvent(ClosedRow, rows)
<1>1. ClosedRow \in Sessions /\ ClosedRow.version = session.version + 1
  BY ClosedRowType DEF ClosedRow, Updated
<1>2. /\ d \in Events /\ d.name = "session.state_changed"
      /\ d.version = ClosedRow.version /\ d.deadline
  BY <1>1, EventTypes DEF StateEvent, Event
<1>3. e \in Events /\ e.name = "activity.result_updated" /\ e.version = ClosedRow.version
  BY <1>1, EventTypes DEF ResultEvent, Event
<1>4. session' = ClosedRow /\ ledger' = ledger \o <<d, e>>
  BY DEF CloseOverdue
<1> HIDE DEF d, e
<1>5. Grows(2) /\ ledger'[Len(ledger) + 1] = d /\ ledger'[Len(ledger) + 2] = e
  BY <1>2, <1>3, <1>4, AppendEvents
<1> QED
  BY <1>1, <1>2, <1>3, <1>4, <1>5 DEF NewVersion

\* Every step leaves the ledger, announces a join or makes the next version.
LEMMA LedgerSteps ==
  ASSUME TypeOK, [Next]_vars
  PROVE  \/ SameVersion /\ UNCHANGED ledger
         \/ Announces
         \/ NewVersion(1)
         \/ NewVersion(2)
<1>1. ASSUME NEW c \in Commands, NEW expected \in 1..session.version,
             ManagerCommand(c, expected)
      PROVE  (SameVersion /\ UNCHANGED ledger) \/ NewVersion(1) \/ NewVersion(2)
  BY <1>1, CommandVersion DEF SameVersion
<1>2. CASE Elapse
  BY <1>2 DEF Elapse, SameVersion, TypeOK, Sessions
<1>3. CASE ReconcileDeadline
  BY <1>3, ClosingVersion DEF ReconcileDeadline, TypeOK
<1>4. ASSUME NEW r \in Readers, EndSnapshot(r)
      PROVE  (SameVersion /\ UNCHANGED ledger) \/ NewVersion(2)
  <2>1. readers[r].rows \in SUBSET Answers /\ UNCHANGED commands
    BY <1>4 DEF EndSnapshot, TypeOK, Idle
  <2>2. CloseOverdue(readers[r].rows) \/ UNCHANGED <<session, ledger>>
    BY <1>4 DEF EndSnapshot
  <2> QED
    BY <2>1, <2>2, ClosingVersion DEF SameVersion
<1>5. ASSUME NEW j \in Joiners, Insert(j)
      PROVE  Announces
  <2> DEFINE d == Event("presence.updated", session, FALSE, {})
  <2>1. d \in Events /\ d.name = "presence.updated" /\ d.version = session.version
    BY EventTypes DEF TypeOK, Event
  <2>2. ledger' = Append(ledger, d) /\ UNCHANGED <<session, commands>>
    BY <1>5 DEF Insert
  <2> HIDE DEF d
  <2>3. ledger \in Seq(Events) /\ Len(ledger) \in Nat
    BY LenProperties DEF TypeOK
  <2>4. Grows(1) /\ ledger'[Len(ledger) + 1] = d
    BY <2>1, <2>2, <2>3, AppendProperties DEF Grows
  <2> QED
    BY <2>1, <2>2, <2>4 DEF Announces, SameVersion
<1>6. CASE UNCHANGED <<session, ledger, commands>>
  BY <1>6 DEF SameVersion
<1> QED
  BY <1>1, <1>2, <1>3, <1>4, <1>5, <1>6
     DEF Next, vars, BeginSnapshot, AbandonSnapshot, JoinLookup, Restore,
         RejectJoin, AbandonJoin, SetPresence, SubmitLookup, SubmitAdmit,
         SubmitCommit, AbandonSubmit

Changes == {"session.created", "session.state_changed"}

LEMMA InitLedger == Init => LedgerTellsEveryVersion /\ VersionsHaveOneCause
<1> SUFFICES ASSUME Init PROVE LedgerTellsEveryVersion /\ VersionsHaveOneCause
  OBVIOUS
<1>1. /\ session.version = 1 /\ ledger[1].name = "session.created"
      /\ ledger[1].version = 1 /\ DOMAIN ledger = {1}
  BY DEF Init, Event
<1>2. StateChanges = {1}
  BY <1>1 DEF StateChanges
<1>3. LedgerTellsEveryVersion
  BY <1>1, <1>2 DEF LedgerTellsEveryVersion
<1>4. \A c \in Commands : commands[c] = NoResult
  BY DEF Init
<1>5. \A i \in StateChanges : ~(ledger[i].version > 1)
  BY <1>1, <1>2
<1>6. VersionsHaveOneCause
  BY <1>4, <1>5 DEF VersionsHaveOneCause
<1> QED
  BY <1>3, <1>6

LEMMA Lengths ==
  ASSUME TypeOK
  PROVE  /\ Len(ledger) \in Nat /\ DOMAIN ledger = 1..Len(ledger)
         /\ \A i \in 1..Len(ledger) : ledger[i] \in Events /\ ledger[i].version \in Nat
         /\ session.version \in Nat /\ session.version > 0
<1>1. ledger \in Seq(Events)
  BY DEF TypeOK
<1>2. Len(ledger) \in Nat /\ DOMAIN ledger = 1..Len(ledger)
  BY <1>1, LenProperties
<1>3. \A i \in 1..Len(ledger) : ledger[i] \in Events
  BY <1>1, ElementOfSeq
<1>4. \A i \in 1..Len(ledger) : ledger[i].version \in Nat
  BY <1>3 DEF Events
<1>5. session.version \in Nat /\ session.version > 0
  BY DEF TypeOK, Sessions
<1> QED
  BY <1>2, <1>3, <1>4, <1>5

\* The new events carry the version the step leaves, and a state change comes
\* first among them and only with a new version.
LEMMA NewEvents ==
  ASSUME TypeOK, [Next]_vars
  PROVE  /\ session'.version \in {session.version, session.version + 1}
         /\ \A i \in 1..Len(ledger) : i \in 1..Len(ledger') /\ ledger'[i] = ledger[i]
         /\ \A i \in 1..Len(ledger') :
              \/ i \in 1..Len(ledger)
              \/ /\ i > Len(ledger) /\ ledger'[i].version = session'.version
                 /\ ledger'[i].name \in Changes =>
                      i = Len(ledger) + 1 /\ session'.version = session.version + 1
         /\ session'.version = session.version + 1 =>
              /\ Len(ledger) + 1 \in 1..Len(ledger')
              /\ ledger'[Len(ledger) + 1].name \in Changes
<1> DEFINE L == Len(ledger)
           v == session.version
<1>1. L \in Nat /\ v \in Nat
  BY Lengths
<1>2. CASE SameVersion /\ UNCHANGED ledger
  BY <1>1, <1>2 DEF SameVersion
<1>3. CASE Announces
  <2>1. /\ session'.version = v /\ Len(ledger') = L + 1
        /\ \A i \in 1..L : ledger'[i] = ledger[i]
        /\ ledger'[L + 1].name \notin Changes /\ ledger'[L + 1].version = v
    BY <1>3 DEF Announces, SameVersion, Grows, Changes
  <2>2. 1..(L + 1) = (1..L) \cup {L + 1}
    BY <1>1
  <2> QED
    BY <1>1, <2>1, <2>2
<1>4. CASE NewVersion(1)
  <2>1. /\ session'.version = v + 1 /\ Len(ledger') = L + 1
        /\ \A i \in 1..L : ledger'[i] = ledger[i]
        /\ ledger'[L + 1].name \in Changes /\ ledger'[L + 1].version = v + 1
    BY <1>4 DEF NewVersion, Grows, Changes
  <2>2. 1..(L + 1) = (1..L) \cup {L + 1}
    BY <1>1
  <2> QED
    BY <1>1, <2>1, <2>2
<1>5. CASE NewVersion(2)
  <2>1. /\ session'.version = v + 1 /\ Len(ledger') = L + 2
        /\ \A i \in 1..L : ledger'[i] = ledger[i]
        /\ ledger'[L + 1].name \in Changes /\ ledger'[L + 1].version = v + 1
        /\ ledger'[L + 2].name \notin Changes /\ ledger'[L + 2].version = v + 1
    BY <1>5 DEF NewVersion, Grows, Changes
  <2>2. 1..(L + 2) = (1..L) \cup {L + 1, L + 2}
    BY <1>1
  <2> QED
    BY <1>1, <2>1, <2>2
<1> QED
  BY <1>2, <1>3, <1>4, <1>5, LedgerSteps

LEMMA LedgerStep ==
  ASSUME TypeOK, LedgerTellsEveryVersion, [Next]_vars
  PROVE  LedgerTellsEveryVersion'
<1> DEFINE L == Len(ledger)
           M == Len(ledger')
           v == session.version
           w == session'.version
<1>1. /\ L \in Nat /\ M \in Nat /\ v \in Nat /\ w \in {v, v + 1}
      /\ \A i \in 1..L : i \in 1..M /\ ledger'[i] = ledger[i] /\ ledger[i].version \in Nat
      /\ \A i \in 1..M :
           \/ i \in 1..L
           \/ /\ i > L /\ ledger'[i].version = w
              /\ ledger'[i].name \in Changes => i = L + 1 /\ w = v + 1
      /\ w = v + 1 => L + 1 \in 1..M /\ ledger'[L + 1].name \in Changes
  <2>1. TypeOK'
    BY TypeStep
  <2>2. M \in Nat
    BY <2>1, LenProperties DEF TypeOK
  <2> QED
    BY <2>2, Lengths, NewEvents
<1>2. DOMAIN ledger = 1..L /\ DOMAIN ledger' = 1..M
  BY TypeStep, LenProperties DEF TypeOK
<1>3. /\ \A x \in 1..v : \E i \in 1..L : ledger[i].name \in Changes /\ ledger[i].version = x
      /\ \A i, j \in 1..L :
           i < j /\ ledger[i].name \in Changes /\ ledger[j].name \in Changes
             => ledger[i].version < ledger[j].version
      /\ \A i, j \in 1..L : i < j => ledger[i].version <= ledger[j].version
      /\ \A i \in 1..L : ledger[i].version <= v
  BY <1>2 DEF LedgerTellsEveryVersion, StateChanges, Changes
<1> HIDE DEF Changes, L, M, v, w
<1>4. ASSUME NEW x \in 1..w
      PROVE  \E i \in 1..M : ledger'[i].name \in Changes /\ ledger'[i].version = x
  <2>1. CASE x \in 1..v
    BY <1>1, <1>3, <2>1
  <2>2. CASE x = v + 1 /\ w = v + 1
    <3>1. ledger'[L + 1].version = w
      BY <1>1, <2>2
    <3> QED
      BY <1>1, <2>2, <3>1
  <2> QED
    BY <1>1, <2>1, <2>2
<1>5. ASSUME NEW i \in 1..M
      PROVE  ledger'[i].version <= w /\ ledger'[i].version \in Nat
  BY <1>1, <1>3
<1>6. ASSUME NEW i \in 1..M, NEW j \in 1..M, i < j
      PROVE  /\ ledger'[i].version <= ledger'[j].version
             /\ ledger'[i].name \in Changes /\ ledger'[j].name \in Changes
                  => ledger'[i].version < ledger'[j].version
  <2>1. CASE j \in 1..L
    <3>1. i \in 1..L
      BY <1>1, <1>6, <2>1
    <3> QED
      BY <1>1, <1>3, <1>6, <2>1, <3>1
  <2>2. CASE j \notin 1..L
    <3>1. j > L /\ ledger'[j].version = w
      BY <1>1, <2>2
    <3>2. CASE i \in 1..L
      <4>1. ledger'[i].version <= v /\ ledger'[i].version \in Nat
        BY <1>1, <1>3, <3>2
      <4> QED
        BY <1>1, <2>2, <3>1, <4>1
    <3>3. CASE i \notin 1..L
      <4>1. i > L /\ ledger'[i].version = w
        BY <1>1, <3>3
      <4> QED
        BY <1>1, <1>6, <2>2, <3>1, <3>3, <4>1
    <3> QED
      BY <3>2, <3>3
  <2> QED
    BY <2>1, <2>2
<1> QED
  BY <1>2, <1>4, <1>5, <1>6 DEF LedgerTellsEveryVersion, StateChanges, Changes, M, w

\* The ledger tells every version once and in order.
THEOREM LedgerIsComplete == Spec => []LedgerTellsEveryVersion
<1>1. TypeOK /\ LedgerTellsEveryVersion /\ [Next]_vars => LedgerTellsEveryVersion'
  BY LedgerStep
<1> QED
  BY <1>1, InitLedger, TypeCorrect, PTL DEF Spec

\* No stored result is ahead of the session.
ResultsAreVersions ==
  \A c \in Commands : commands[c] = NoResult
                        \/ commands[c].version \in 1..session.version

CauseInv == VersionsHaveOneCause /\ ResultsAreVersions

LEMMA CauseStep ==
  ASSUME TypeOK, LedgerTellsEveryVersion, CauseInv, [Next]_vars
  PROVE  CauseInv'
<1> DEFINE L == Len(ledger)
           M == Len(ledger')
           v == session.version
           w == session'.version
<1>1. /\ L \in Nat /\ M \in Nat /\ v \in Nat /\ v > 0 /\ w \in {v, v + 1}
      /\ DOMAIN ledger = 1..L /\ DOMAIN ledger' = 1..M
      /\ \A i \in 1..L : /\ i \in 1..M /\ ledger'[i] = ledger[i]
                         /\ ledger[i].version \in Nat /\ ledger[i].version <= v
      /\ \A i \in 1..M :
           \/ i \in 1..L
           \/ /\ ledger'[i].version = w
              /\ ledger'[i].name \in Changes => i = L + 1 /\ w = v + 1
  <2>1. TypeOK'
    BY TypeStep
  <2>2. M \in Nat /\ DOMAIN ledger' = 1..M
    BY <2>1, LenProperties DEF TypeOK
  <2>3. \A i \in 1..L : ledger[i].version <= v
    BY Lengths DEF LedgerTellsEveryVersion
  <2> QED
    BY <2>2, <2>3, Lengths, NewEvents
<1>2. commands \in [Commands -> Results] /\ NoResult.version = 0
  BY DEF TypeOK, NoResult
<1>3. /\ \A c \in Commands : commands[c].version \in Nat /\ commands[c].version <= v
      /\ \A c \in Commands : commands[c] # NoResult => commands[c].version > 0
      /\ \A c, d \in Commands :
           commands[c] # NoResult /\ commands[c].version = commands[d].version => c = d
      /\ \A i \in 1..L : ledger[i].name \in Changes /\ ledger[i].version > 1 =>
           (ledger[i].deadline <=> ~\E c \in Commands : commands[c].version = ledger[i].version)
  BY <1>1, <1>2 DEF CauseInv, VersionsHaveOneCause, ResultsAreVersions, StateChanges, Changes
<1>4. CASE UNCHANGED commands /\ w = v
  <2>1. \A c \in Commands : commands'[c] = NoResult \/ commands'[c].version \in 1..w
    BY <1>1, <1>3, <1>4
  <2>2. \A i \in 1..M : ledger'[i].name \in Changes => i \in 1..L /\ ledger'[i] = ledger[i]
    BY <1>1, <1>4
  <2> QED
    BY <1>1, <1>3, <1>4, <2>1, <2>2
       DEF CauseInv, VersionsHaveOneCause, ResultsAreVersions, StateChanges, Changes
<1>5. ASSUME w = v + 1, ledger'[L + 1].deadline, UNCHANGED commands
      PROVE  CauseInv'
  <2>1. \A c \in Commands : commands'[c] = NoResult \/ commands'[c].version \in 1..w
    BY <1>1, <1>3, <1>5
  <2>2. \A i \in 1..M : ledger'[i].name \in Changes =>
          \/ i \in 1..L /\ ledger'[i] = ledger[i]
          \/ i = L + 1 /\ ledger'[i].version = v + 1
    BY <1>1, <1>5
  <2>3. ~\E c \in Commands : commands[c].version = v + 1
    BY <1>1, <1>3
  <2> QED
    BY <1>1, <1>3, <1>5, <2>1, <2>2, <2>3
       DEF CauseInv, VersionsHaveOneCause, ResultsAreVersions, StateChanges, Changes
<1>6. ASSUME w = v + 1, ~ledger'[L + 1].deadline, NEW k \in Commands,
             commands[k] = NoResult, commands' = [commands EXCEPT ![k] = Stored(session')]
      PROVE  CauseInv'
  <2>1. commands'[k].version = v + 1 /\ \A c \in Commands \ {k} : commands'[c] = commands[c]
    BY <1>2, <1>6 DEF Stored, Public
  <2>2. \A c \in Commands : commands'[c] = NoResult \/ commands'[c].version \in 1..w
    BY <1>1, <1>3, <1>6, <2>1
  <2>3. \A c, d \in Commands :
          commands'[c] # NoResult /\ commands'[c].version = commands'[d].version => c = d
    BY <1>1, <1>3, <2>1
  <2>4. \A i \in 1..M : ledger'[i].name \in Changes =>
          \/ i \in 1..L /\ ledger'[i] = ledger[i]
          \/ i = L + 1 /\ ledger'[i].version = v + 1
    BY <1>1, <1>6
  <2>5. commands[k].version = 0
    BY <1>2, <1>6
  <2>6. \A x \in 2..v : (\E c \in Commands : commands'[c].version = x) <=>
                         \E c \in Commands : commands[c].version = x
    BY <1>1, <2>1, <2>5
  <2>7. \A i \in 1..M : ledger'[i].name \in Changes /\ ledger'[i].version > 1 =>
          (ledger'[i].deadline <=>
             ~\E c \in Commands : commands'[c].version = ledger'[i].version)
    <3> SUFFICES ASSUME NEW i \in 1..M, ledger'[i].name \in Changes, ledger'[i].version > 1
                 PROVE  ledger'[i].deadline <=>
                          ~\E c \in Commands : commands'[c].version = ledger'[i].version
      OBVIOUS
    <3>1. CASE i \in 1..L /\ ledger'[i] = ledger[i]
      <4>1. ledger[i].version \in 2..v
        BY <1>1, <3>1
      <4> QED
        BY <1>3, <2>6, <3>1, <4>1
    <3>2. CASE i = L + 1 /\ ledger'[i].version = v + 1
      BY <1>6, <2>1, <3>2
    <3> QED
      BY <2>4, <3>1, <3>2
  <2> QED
    BY <1>1, <2>2, <2>3, <2>7
       DEF CauseInv, VersionsHaveOneCause, ResultsAreVersions, StateChanges, Changes
<1> QED
  BY <1>4, <1>5, <1>6, LedgerSteps
     DEF SameVersion, Announces, NewVersion

\* Every version is the work of one command or of the deadline, never of both.
THEOREM OneCausePerVersion == Spec => []VersionsHaveOneCause
<1>1. Init => CauseInv
  BY InitLedger DEF CauseInv, ResultsAreVersions, Init
<1>2. TypeOK /\ LedgerTellsEveryVersion /\ CauseInv /\ [Next]_vars => CauseInv'
  BY CauseStep
<1>3. CauseInv => VersionsHaveOneCause
  BY DEF CauseInv
<1> QED
  BY <1>1, <1>2, <1>3, TypeCorrect, LedgerIsComplete, PTL DEF Spec
-----------------------------------------------------------------------------
(***************************************************************************)
(* Why the published result of a closed Activity counts every accepted     *)
(* answer, and when: PublishedResultIsFinal of LiveSession, for sessions   *)
(* that no snapshot reconciles (Readers = {}).  With readers it fails, as  *)
(* the run live_snapshot_result shows: there a result is computed from     *)
(* rows read before the lock.                                              *)
(*                                                                         *)
(* The result is published in the transaction that closes, from the        *)
(* answers as they are then.  It stays final because an answer commits     *)
(* only while its Activity accepts (AdmittedStillOpen), and because no     *)
(* command that leaves the Activity closed writes another result.          *)
(***************************************************************************)

IsResult(e) == e.name = "activity.result_updated"

\* What a command appends: its state event, and what comes after.
LEMMA ApplyEvents ==
  ASSUME TypeOK, NEW c \in Commands, NEW expected, NEW action,
         NEW row \in Sessions, NEW after, Apply(c, expected, action, row, after)
  PROVE  /\ after = <<>> => Grows(1) /\ ledger'[Len(ledger) + 1].name = "session.state_changed"
         /\ \A e \in Events : after = <<e>> =>
              /\ Grows(2) /\ ledger'[Len(ledger) + 1].name = "session.state_changed"
              /\ ledger'[Len(ledger) + 2] = e
<1> DEFINE d == StateEvent(row, FALSE)
<1>1. d \in Events /\ d.name = "session.state_changed"
  BY EventTypes DEF StateEvent, Event
<1>2. ledger' = ledger \o <<d>> \o after
  BY DEF Apply
<1>3. ledger \in Seq(Events) /\ <<d>> \in Seq(Events)
  BY <1>1, Singleton DEF TypeOK
<1> HIDE DEF d
<1>4. CASE after = <<>>
  <2>1. ledger' = ledger \o <<d>>
    BY <1>2, <1>3, <1>4, ConcatProperties, ConcatEmptySeq
  <2>2. \A e \in Events : after # <<e>>
    BY <1>4, Singleton
  <2> QED  BY <1>1, <2>1, <2>2, AppendEvents
<1>5. ASSUME NEW e \in Events, after = <<e>>
      PROVE  Grows(2) /\ ledger'[Len(ledger) + 1] = d /\ ledger'[Len(ledger) + 2] = e
  <2>1. ledger' = ledger \o <<d, e>>
    BY <1>1, <1>2, <1>3, <1>5, PairIsConcat, Singleton, ConcatAssociative
  <2> QED  BY <1>1, <1>5, <2>1, AppendEvents
<1> QED  BY <1>1, <1>4, <1>5

\* A closing publishes: its result event is the last of the ledger.
LEMMA ClosingPublishes ==
  ASSUME TypeOK, Grows(2), ~IsResult(ledger'[Len(ledger) + 1]),
         ledger'[Len(ledger) + 2] = ResultEvent(ClosedRow, answers),
         session' = ClosedRow, answers' = answers, TypeOK'
  PROVE  PublishedResultIsFinal'
<1> DEFINE last == Len(ledger) + 2
<1>1. /\ Len(ledger) \in Nat /\ Len(ledger') = last /\ DOMAIN ledger' = 1..last
      /\ last \in DOMAIN ledger'
  BY LenProperties DEF TypeOK, Grows
<1>2. /\ IsResult(ledger'[last]) /\ ledger'[last].item = session'.item
      /\ ledger'[last].responders = Responders(answers', session'.item)
  BY DEF ResultEvent, Event, IsResult, ClosedRow, Updated
<1>3. \A j \in DOMAIN ledger' : j <= last
  BY <1>1
<1> HIDE DEF last
<1> QED  BY <1>1, <1>2, <1>3 DEF PublishedResultIsFinal, IsResult

\* A step that neither writes a result nor an answer leaves the result final.
LEMMA ResultLasts ==
  ASSUME TypeOK, TypeOK', PublishedResultIsFinal, session.phase \in {"closed", "revealed"},
         session'.item = session.item, answers' = answers,
         NEW k \in {0, 1, 2}, Grows(k), \A i \in 1..k : ~IsResult(ledger'[Len(ledger) + i])
  PROVE  PublishedResultIsFinal'
<1>1. /\ Len(ledger) \in Nat /\ DOMAIN ledger = 1..Len(ledger)
      /\ Len(ledger') = Len(ledger) + k /\ DOMAIN ledger' = 1..(Len(ledger) + k)
  BY LenProperties DEF TypeOK, Grows
<1>2. PICK i \in DOMAIN ledger :
        /\ IsResult(ledger[i]) /\ \A j \in DOMAIN ledger : IsResult(ledger[j]) => j <= i
        /\ ledger[i].item = session.item
        /\ ledger[i].responders = Responders(answers, session.item)
  BY DEF PublishedResultIsFinal, IsResult
<1>3. i \in DOMAIN ledger' /\ ledger'[i] = ledger[i]
  BY <1>1 DEF Grows
<1>4. ASSUME NEW j \in DOMAIN ledger', IsResult(ledger'[j])
      PROVE  j <= i
  <2>1. j \in 1..Len(ledger)
    <3>1. ASSUME j > Len(ledger)  PROVE FALSE
      <4>1. j - Len(ledger) \in 1..k /\ j = Len(ledger) + (j - Len(ledger))
        BY <1>1, <3>1
      <4> QED  BY <1>4, <4>1
    <3> QED  BY <1>1, <3>1
  <2>2. ledger'[j] = ledger[j]
    BY <2>1 DEF Grows
  <2> QED  BY <1>1, <1>2, <1>4, <2>1, <2>2
<1> QED  BY <1>2, <1>3, <1>4 DEF PublishedResultIsFinal, IsResult

-----------------------------------------------------------------------------
Closed == {"closed", "revealed"}
\* What a step may do that leaves an Activity closed.
Publishes ==
  /\ Grows(2) /\ ~IsResult(ledger'[Len(ledger) + 1])
  /\ ledger'[Len(ledger) + 2] = ResultEvent(ClosedRow, answers)
  /\ session' = ClosedRow /\ answers' = answers
Leaves ==
  /\ session.phase \in Closed /\ session'.item = session.item /\ answers' = answers
  /\ \E k \in {0, 1, 2} : Grows(k) /\ \A i \in 1..k : ~IsResult(ledger'[Len(ledger) + i])

\* A step that leaves ledger, answers, phase and item alone.
LEMMA QuietLeaves ==
  ASSUME ledger' = ledger, answers' = answers, session'.phase \in Closed,
         session'.phase = session.phase, session'.item = session.item
  PROVE  Leaves
<1>1. Grows(0) /\ 1..0 = {}
  BY DEF Grows
<1> QED  BY <1>1 DEF Leaves

LEMMA CommandResult ==
  ASSUME TypeOK, NEW c \in Commands, NEW expected, ManagerCommand(c, expected),
         session'.phase \in Closed
  PROVE  Publishes \/ Leaves
<1>1. /\ session.state \in States /\ session.item \in Items \cup {NoItem}
      /\ session.phase \in Phases
  BY DEF TypeOK, Sessions
<1>2. /\ Grows(1) /\ ledger'[Len(ledger) + 1].name = "session.state_changed"
           => \A i \in 1..1 : ~IsResult(ledger'[Len(ledger) + i])
      /\ \A e : Grows(2) /\ ledger'[Len(ledger) + 1].name = "session.state_changed"
                  /\ ledger'[Len(ledger) + 2] = e /\ ~IsResult(e)
           => \A i \in 1..2 : ~IsResult(ledger'[Len(ledger) + i])
  <2>1. 1..1 = {1} /\ 1..2 = {1, 2}
    OBVIOUS
  <2> QED  BY <2>1 DEF IsResult
<1>3. CASE \/ Start(c, expected) \/ End(c, expected)
           \/ \E i \in Items : PresentContent(c, expected, i) \/ PresentActivity(c, expected, i)
  <2>1. PICK phase \in {"none", "accepting"} : \E state, item, deadline :
          session' = Updated(state, item, phase, "item", deadline)
    BY <1>3 DEF Start, End, PresentContent, PresentActivity, Apply
  <2>2. session'.phase = phase
    BY <2>1 DEF Updated
  <2> QED  BY <2>2 DEF Closed
<1>4. CASE CloseActivity(c, expected)
  <2>1. ClosedRow \in Sessions
    BY ClosedRowType
  <2>2. ResultEvent(ClosedRow, answers) \in Events
    BY <2>1, EventTypes DEF TypeOK
  <2>3. Apply(c, expected, "close_activity", ClosedRow, <<ResultEvent(ClosedRow, answers)>>)
    BY <1>4 DEF CloseActivity
  <2>4. /\ Grows(2) /\ ledger'[Len(ledger) + 1].name = "session.state_changed"
        /\ ledger'[Len(ledger) + 2] = ResultEvent(ClosedRow, answers)
    BY <2>1, <2>2, <2>3, ApplyEvents
  <2> QED  BY <2>3, <2>4 DEF Apply, Publishes, IsResult
<1>5. CASE RevealActivity(c, expected)
  <2> DEFINE row == Updated(session.state, session.item, "revealed", "item", "none")
  <2>1. row \in Sessions /\ row.item = session.item
    BY <1>1, UpdatedType DEF Phases, Views, Deadlines, Updated
  <2>2. Apply(c, expected, "reveal_activity", row, <<>>)
    BY <1>5 DEF RevealActivity
  <2> HIDE DEF row
  <2>3. Grows(1) /\ ledger'[Len(ledger) + 1].name = "session.state_changed"
    BY <2>1, <2>2, ApplyEvents
  <2>4. session.phase = "closed" /\ session' = row /\ answers' = answers
    BY <2>2 DEF Apply, CanApplyAction
  <2> QED  BY <1>2, <2>1, <2>3, <2>4 DEF Leaves, Closed
<1>6. CASE ShowOverallRanking(c, expected)
  <2> DEFINE row == Updated(session.state, session.item, session.phase, "overall_ranking", "none")
             e == Event("ranking.updated", row, FALSE, {})
  <2>1. row \in Sessions /\ row.item = session.item
    BY <1>1, UpdatedType DEF Views, Deadlines, Updated
  <2>2. Apply(c, expected, "show_overall_ranking", row, <<e>>)
    BY <1>6 DEF ShowOverallRanking
  <2> HIDE DEF row
  <2>3. e \in Events /\ ~IsResult(e)
    BY <2>1, EventTypes DEF Event, IsResult
  <2> HIDE DEF e
  <2>4. /\ Grows(2) /\ ledger'[Len(ledger) + 1].name = "session.state_changed"
        /\ ledger'[Len(ledger) + 2] = e
    BY <2>1, <2>2, <2>3, ApplyEvents
  <2>5. session.phase = "revealed" /\ session' = row /\ answers' = answers
    BY <2>2 DEF Apply, CanApplyAction
  <2> QED  BY <1>2, <2>1, <2>3, <2>4, <2>5 DEF Leaves, Closed
<1>7. CASE ReplayCommand(c) \/ \E action \in Actions, i \in Items : RefuseCommand(c, expected, action, i)
  <2>1. UNCHANGED <<session, ledger, answers>>
    BY <1>7 DEF ReplayCommand, RefuseCommand
  <2> QED  BY <2>1, QuietLeaves
<1> QED  BY <1>3, <1>4, <1>5, <1>6, <1>7 DEF ManagerCommand

\* An answer commits only while its Activity accepts.
LEMMA NoAnswerAfterClose ==
  ASSUME AdmittedStillOpen, NEW s \in Submitters, NEW delta \in Points, SubmitCommit(s, delta)
  PROVE  session'.phase \notin Closed
  BY DEF AdmittedStillOpen, SubmitCommit, Closed

LEMMA ResultSteps ==
  ASSUME TypeOK, AdmittedStillOpen, Readers = {}, [Next]_vars, session'.phase \in Closed
  PROVE  Publishes \/ Leaves
<1>1. ASSUME NEW c \in Commands, NEW expected \in 1..session.version, ManagerCommand(c, expected)
      PROVE  Publishes \/ Leaves
  BY <1>1, CommandResult
<1>2. CASE ReconcileDeadline
  <2> DEFINE d == StateEvent(ClosedRow, TRUE)
             e == ResultEvent(ClosedRow, answers)
  <2>1. d \in Events /\ e \in Events /\ ~IsResult(d)
    BY ClosedRowType, EventTypes DEF TypeOK, StateEvent, Event, IsResult
  <2>2. ledger' = ledger \o <<d, e>> /\ session' = ClosedRow /\ answers' = answers
    BY <1>2 DEF ReconcileDeadline, CloseOverdue
  <2> HIDE DEF d
  <2>3. Grows(2) /\ ledger'[Len(ledger) + 1] = d /\ ledger'[Len(ledger) + 2] = e
    BY <2>1, <2>2, AppendEvents
  <2> QED  BY <2>1, <2>2, <2>3 DEF Publishes
<1>3. CASE Elapse
  <2>1. session' = [session EXCEPT !.deadline = "elapsed"] /\ UNCHANGED <<ledger, answers>>
    BY <1>3 DEF Elapse
  <2>2. session'.phase = session.phase /\ session'.item = session.item
    BY <2>1 DEF TypeOK, Sessions
  <2> QED  BY <2>1, <2>2, QuietLeaves
<1>4. ASSUME NEW j \in Joiners, Insert(j)
      PROVE  Leaves
  <2> DEFINE d == Event("presence.updated", session, FALSE, {})
  <2>1. d \in Events /\ ~IsResult(d)
    BY EventTypes DEF TypeOK, Event, IsResult
  <2>2. ledger' = Append(ledger, d) /\ UNCHANGED <<session, answers>>
    BY <1>4 DEF Insert
  <2>3. ledger \in Seq(Events) /\ Len(ledger) \in Nat
    BY LenProperties DEF TypeOK
  <2> HIDE DEF d
  <2>4. Grows(1) /\ ledger'[Len(ledger) + 1] = d
    BY <2>1, <2>2, <2>3, AppendProperties DEF Grows
  <2>5. 1..1 = {1}
    OBVIOUS
  <2> QED  BY <2>1, <2>2, <2>4, <2>5 DEF Leaves
<1>5. ASSUME NEW s \in Submitters, NEW delta \in Points, SubmitCommit(s, delta)
      PROVE  FALSE
  BY <1>5, NoAnswerAfterClose
<1>6. CASE UNCHANGED <<session, ledger, answers>>
  BY <1>6, QuietLeaves
<1> QED
  BY <1>1, <1>2, <1>3, <1>4, <1>5, <1>6
     DEF Next, vars, JoinLookup, Restore, RejectJoin, AbandonJoin, SetPresence,
         SubmitLookup, SubmitAdmit, AbandonSubmit

\* PublishedResultIsFinal: for any participants, items, commands and numbers of
\* concurrent submissions, the last published result of a closed Activity is
\* about it and counts every accepted response, provided that no snapshot
\* closes it (reconcileDeadlineTx in Snapshot, against that in the broker's tick).
THEOREM ResultIsFinal == ASSUME Readers = {}  PROVE Spec => []PublishedResultIsFinal
<1>1. Init => PublishedResultIsFinal
  BY DEF Init, PublishedResultIsFinal
<1>2. TypeOK /\ TypeOK' /\ AdmittedStillOpen /\ PublishedResultIsFinal /\ [Next]_vars
        => PublishedResultIsFinal'
  <2> SUFFICES ASSUME TypeOK, TypeOK', AdmittedStillOpen, PublishedResultIsFinal, [Next]_vars
               PROVE  PublishedResultIsFinal'
    OBVIOUS
  <2>1. CASE session'.phase \notin Closed
    BY <2>1 DEF PublishedResultIsFinal, Closed
  <2>2. CASE session'.phase \in Closed
    <3>1. CASE Publishes
      BY <3>1, ClosingPublishes DEF Publishes
    <3>2. CASE Leaves
      BY <3>2, ResultLasts DEF Leaves, Closed
    <3> QED  BY <2>2, <3>1, <3>2, ResultSteps
  <2> QED  BY <2>1, <2>2
<1> QED  BY <1>1, <1>2, TypeCorrect, AnswersCommitInTime, PTL DEF Spec
-----------------------------------------------------------------------------
(* Scores.                                                                 *)

\* An answer, on its way or stored, is of a participant who has a row; a name
\* without a row has nothing; and no answers are infinite in number.
SeatsFirst ==
  /\ IsFiniteSet(answers)
  /\ \A s \in Submitters : submits[s].step # "idle" => Exists(submits[s].name)
  /\ \A n \in Names : ~Exists(n) => participants[n].score = 0

\* Rows stay, and a score changes by a commit only.
LEMMA SeatSteps ==
  ASSUME TypeOK, SeatsFirst, [Next]_vars,
         ~\E s \in Submitters, delta \in Points : SubmitCommit(s, delta)
  PROVE  \A n \in Names : /\ Exists(n) => Exists(n)'
                          /\ participants'[n].score = participants[n].score
<1> USE CredentialAssumption
<1>1. participants \in [Names -> Rows]
  BY DEF TypeOK
<1>2. ASSUME NEW j \in Joiners, joins[j].step = "looked_up"
      PROVE  joins[j].name \in Names /\ joins[j].token \in Tokens
  BY <1>2 DEF TypeOK, Idle
<1>3. ASSUME NEW j \in Joiners, Restore(j)
      PROVE  \A n \in Names : /\ Exists(n) => Exists(n)'
                              /\ participants'[n].score = participants[n].score
  BY <1>1, <1>2, <1>3 DEF Restore, Reclaimed, Exists, Rows
<1>4. ASSUME NEW j \in Joiners, Insert(j)
      PROVE  \A n \in Names : /\ Exists(n) => Exists(n)'
                              /\ participants'[n].score = participants[n].score
  BY <1>1, <1>2, <1>4 DEF Insert, NameFree, SeatsFirst, Exists, Rows
<1>5. ASSUME NEW t \in Tokens, NEW connected \in BOOLEAN, SetPresence(t, connected)
      PROVE  \A n \in Names : /\ Exists(n) => Exists(n)'
                              /\ participants'[n].score = participants[n].score
  BY <1>1, <1>5 DEF SetPresence, Owner, Exists, Rows
<1>6. CASE UNCHANGED participants
  BY <1>6 DEF Exists
<1> QED
  BY <1>3, <1>4, <1>5, <1>6
     DEF Next, vars, ManagerCommand, Apply, Start, PresentContent,
         PresentActivity, CloseActivity, RevealActivity, ShowOverallRanking, End,
         ReplayCommand, RefuseCommand, Elapse, ReconcileDeadline, BeginSnapshot,
         EndSnapshot, AbandonSnapshot, JoinLookup, RejectJoin, AbandonJoin,
         SubmitLookup, SubmitAdmit, AbandonSubmit

\* A submission begins with the row of its credential.
LEMMA SubmittersHaveSeats ==
  ASSUME TypeOK, [Next]_vars,
         ~\E s \in Submitters, delta \in Points : SubmitCommit(s, delta)
  PROVE  \A s \in Submitters : submits'[s].step # "idle" =>
           \/ submits[s].step # "idle" /\ submits'[s].name = submits[s].name
           \/ Exists(submits'[s].name) /\ UNCHANGED participants
<1> USE CredentialAssumption
<1>1. submits \in [Submitters -> {Idle} \cup
        [step: {"looked_up", "admitted"}, name: Names, item: Items, request: AnswerIds]]
  BY DEF TypeOK
<1>2. ASSUME NEW r \in Submitters,
             \/ \E t \in Tokens, request \in AnswerIds, i \in Items : SubmitLookup(r, t, request, i)
             \/ SubmitAdmit(r) \/ AbandonSubmit(r)
      PROVE  \A s \in Submitters : submits'[s].step # "idle" =>
               \/ submits[s].step # "idle" /\ submits'[s].name = submits[s].name
               \/ Exists(submits'[s].name) /\ UNCHANGED participants
  <2>1. CASE \E t \in Tokens, request \in AnswerIds, i \in Items : SubmitLookup(r, t, request, i)
    BY <1>1, <2>1 DEF SubmitLookup, Owner, Exists, Idle
  <2>2. CASE SubmitAdmit(r)
    BY <1>1, <2>2 DEF SubmitAdmit, Idle
  <2>3. CASE AbandonSubmit(r)
    BY <1>1, <2>3 DEF AbandonSubmit, Idle
  <2> QED  BY <1>2, <2>1, <2>2, <2>3
<1>3. CASE UNCHANGED submits
  BY <1>3
<1> QED
  BY <1>2, <1>3
     DEF Next, vars, ManagerCommand, Apply, Start, PresentContent,
         PresentActivity, CloseActivity, RevealActivity, ShowOverallRanking, End,
         ReplayCommand, RefuseCommand, Elapse, ReconcileDeadline, BeginSnapshot,
         EndSnapshot, AbandonSnapshot, JoinLookup, Restore, Insert, RejectJoin,
         AbandonJoin, SetPresence

\* What a commit writes: both or nothing.
LEMMA CommitScores ==
  ASSUME TypeOK, SeatsFirst, ScoreIsSumOfDeltas,
         NEW s \in Submitters, NEW delta \in Points, SubmitCommit(s, delta)
  PROVE  SeatsFirst' /\ ScoreIsSumOfDeltas'
<1> DEFINE a == submits[s]
           new == [name |-> a.name, item |-> a.item, request |-> a.request, delta |-> delta]
<1>1. a.step = "admitted" /\ a.name \in Names /\ Exists(a.name)
  BY DEF SubmitCommit, SeatsFirst, TypeOK, Idle
<1>2. participants \in [Names -> Rows] /\ answers \subseteq Answers /\ delta \in Nat
  BY PointsAssumption DEF TypeOK
<1>3. /\ \A r \in Submitters : submits'[r].step # "idle" => submits'[r] = submits[r]
      /\ \/ UNCHANGED <<answers, participants>>
         \/ /\ ~Taken(a) /\ answers' = answers \cup {new}
            /\ participants' = [participants EXCEPT ![a.name].score = @ + delta]
  BY DEF SubmitCommit, Idle, TypeOK
<1>4. CASE UNCHANGED <<answers, participants>>
  BY <1>3, <1>4 DEF SeatsFirst, ScoreIsSumOfDeltas, Exists
<1>5. CASE /\ ~Taken(a) /\ answers' = answers \cup {new}
           /\ participants' = [participants EXCEPT ![a.name].score = @ + delta]
  <2>1. \A n \in Names : Exists(n)' <=> Exists(n)
    BY <1>1, <1>2, <1>5 DEF Exists, Rows
  <2>2. \A n \in Names : participants'[n].score =
          IF n = a.name THEN participants[n].score + delta ELSE participants[n].score
    BY <1>1, <1>2, <1>5 DEF Rows
  <2>3. IsFiniteSet(answers) /\ IsFiniteSet(answers')
    BY <1>5, FS_AddElement DEF SeatsFirst
  <2>4. new \notin answers
    BY <1>5 DEF Taken
  <2>5. SeatsFirst'
    <3>1. \A r \in Submitters : submits'[r].step # "idle" => submits'[r].name \in Names
      BY <1>3 DEF TypeOK, Idle
    <3>2. \A r \in Submitters : submits'[r].step # "idle" => participants'[submits'[r].name].token # Nobody
      BY <1>3, <2>1, <3>1 DEF SeatsFirst, Exists
    <3>3. \A n \in Names : ~Exists(n)' => participants'[n].score = 0
      BY <1>1, <2>1, <2>2 DEF SeatsFirst
    <3> QED  BY <2>3, <3>2, <3>3 DEF SeatsFirst, Exists
  <2>6. ASSUME NEW n \in Names
        PROVE  participants'[n].score =
                 SumFunctionOnSet([b \in answers' |-> b.delta], {b \in answers' : b.name = n})
    <3>1. PICK f : f = [b \in answers |-> b.delta]
      OBVIOUS
    <3>2. PICK g : g = [b \in answers' |-> b.delta]
      OBVIOUS
    <3>3. PICK S : S = {b \in answers : b.name = n}
      OBVIOUS
    <3>4. PICK T : T = {b \in answers' : b.name = n}
      OBVIOUS
    <3>5. IsFiniteSet(S) /\ IsFiniteSet(T)
      BY <2>3, <3>3, <3>4, FS_Subset
    <3>6. participants[n].score = SumFunctionOnSet(f, S)
      BY <3>1, <3>3 DEF ScoreIsSumOfDeltas
    <3>7. \A b \in S : f[b] \in Nat /\ f[b] = g[b]
      BY <1>2, <1>5, <3>1, <3>2, <3>3, PointsAssumption DEF Answers
    <3>8. SumFunctionOnSet(f, S) \in Nat /\ SumFunctionOnSet(f, S) = SumFunctionOnSet(g, S)
      BY <3>5, <3>7, SumIsOf
    <3>9. CASE n # a.name
      <4>1. T = S
        BY <1>5, <3>3, <3>4, <3>9
      <4> QED  BY <2>2, <3>2, <3>4, <3>6, <3>8, <3>9, <4>1
    <3>10. CASE n = a.name
      <4>1. new \in T /\ T \ {new} = S
        BY <1>5, <2>4, <3>3, <3>4, <3>10
      <4>2. g[new] = delta
        BY <1>5, <3>2
      <4>3. \A b \in T : g[b] \in Nat
        BY <1>2, <3>7, <4>1, <4>2
      <4>4. SumFunctionOnSet(g, T) = g[new] + SumFunctionOnSet(g, T \ {new})
        BY <3>5, <4>1, <4>3, SumWithout
      <4>5. SumFunctionOnSet(g, T) = delta + SumFunctionOnSet(f, S)
        BY <3>8, <4>1, <4>2, <4>4
      <4> QED  BY <1>2, <2>2, <3>2, <3>4, <3>6, <3>8, <3>10, <4>5
    <3> QED  BY <3>9, <3>10
  <2> QED  BY <2>5, <2>6 DEF ScoreIsSumOfDeltas
<1> QED  BY <1>3, <1>4, <1>5

LEMMA ScoreStep ==
  ASSUME TypeOK, SeatsFirst, ScoreIsSumOfDeltas, TypeOK', [Next]_vars
  PROVE  SeatsFirst' /\ ScoreIsSumOfDeltas'
<1>1. CASE \E s \in Submitters, delta \in Points : SubmitCommit(s, delta)
  BY <1>1, CommitScores
<1>2. CASE ~\E s \in Submitters, delta \in Points : SubmitCommit(s, delta)
  <2>1. UNCHANGED answers
    BY <1>2, AnswerSteps
  <2>2. \A n \in Names : /\ Exists(n) => Exists(n)'
                         /\ participants'[n].score = participants[n].score
    BY <1>2, SeatSteps
  <2>3. \A s \in Submitters : submits'[s].step # "idle" =>
           \/ submits[s].step # "idle" /\ submits'[s].name = submits[s].name
           \/ Exists(submits'[s].name) /\ UNCHANGED participants
    BY <1>2, SubmittersHaveSeats
  <2>4. \A s \in Submitters : submits'[s].step # "idle" => submits'[s].name \in Names
    BY DEF TypeOK, Idle
  <2>5. SeatsFirst'
    <3>1. \A s \in Submitters : submits'[s].step # "idle" => participants'[submits'[s].name].token # Nobody
      <4>1. ASSUME NEW s \in Submitters, submits'[s].step # "idle",
                   Exists(submits'[s].name), UNCHANGED participants
            PROVE  participants'[submits'[s].name].token # Nobody
        BY <4>1 DEF Exists
      <4> QED  BY <2>2, <2>3, <2>4, <4>1 DEF SeatsFirst, Exists
    <3> QED  BY <2>1, <2>2, <3>1 DEF SeatsFirst, Exists
  <2> QED  BY <2>1, <2>2, <2>5 DEF ScoreIsSumOfDeltas
<1> QED  BY <1>1, <1>2

\* A score is the sum of what the stored answers were awarded, for any names,
\* points, retries and concurrent submissions: the insert and the addition
\* commit together (SubmitAnswer) and nothing else writes a score.
THEOREM ScoresAddUp == Spec => []ScoreIsSumOfDeltas
<1>1. Init => SeatsFirst /\ ScoreIsSumOfDeltas
  <2> SUFFICES ASSUME Init PROVE SeatsFirst /\ ScoreIsSumOfDeltas
    OBVIOUS
  <2>1. \A n \in Names : participants[n].score = 0
    BY DEF Init
  <2>2. \A s \in Submitters : submits[s].step = "idle"
    BY DEF Init, Idle
  <2>3. answers = {}
    BY DEF Init
  <2>4. SeatsFirst
    BY <2>1, <2>2, <2>3, FS_EmptySet DEF SeatsFirst
  <2>5. ScoreIsSumOfDeltas
    <3>1. \A n \in Names : {a \in answers : a.name = n} = {}
      BY <2>3
    <3>2. PICK f : f = [a \in answers |-> a.delta]
      OBVIOUS
    <3>3. SumFunctionOnSet(f, {}) = 0
      BY SumOfNothing
    <3> QED  BY <2>1, <3>1, <3>2, <3>3 DEF ScoreIsSumOfDeltas
  <2> QED  BY <2>4, <2>5
<1>2. TypeOK /\ TypeOK' /\ SeatsFirst /\ ScoreIsSumOfDeltas /\ [Next]_vars
        => (SeatsFirst /\ ScoreIsSumOfDeltas)'
  BY ScoreStep
<1> QED  BY <1>1, <1>2, TypeCorrect, PTL DEF Spec
=============================================================================
