---------------------------- MODULE LiveRuntime ----------------------------
(***************************************************************************)
(* The browsers that follow a session (web LiveRuntime.ts, protocol.ts)    *)
(* over the event stream of module EventStream: the cursor, the snapshot   *)
(* shown, the coalesced refresh, the reconnecting stream, and a manager's  *)
(* commands.                                                               *)
(*                                                                         *)
(* Each action is what runs between two awaits.  A refresh is asked, read  *)
(* by the server in one REPEATABLE READ view, and stored when the answer   *)
(* arrives; events, other refreshes and commands happen in between.        *)
(***************************************************************************)
EXTENDS EventStream

CONSTANTS
  MaxCommands \* bound: commands a manager starts

ASSUME CommandsAssumption == MaxCommands \in Nat

VARIABLES
  browser     \* the runtime of each viewer

vars == <<streamVars, browser>>
-----------------------------------------------------------------------------
\* Modes.  entering: no snapshot yet; ready: its request for a stream is under
\* way, from the event id in from; open: reading a stream; broken: waiting to
\* reconnect; refreshing: reading a snapshot before it does.

Actions == {"present", "close", "reveal", "rank"}

\* missed is what failed since the last snapshot was stored: "nothing",
\* "refresh" or "command".  The error published is no record of it: startStream
\* clears that whenever it opens a stream.

\* The row that a command's result and a snapshot carry.
Public(s) == [version |-> s.version, phase |-> s.phase]

\* What is shown: the session, the audience and the Activity's result, by the
\* version that closed it.
NotShown  == [session |-> [version |-> 0, phase |-> "none"], result |-> 0, count |-> 0]

NoRefresh == [step |-> "none", dirty |-> FALSE]
Ask       == [step |-> "asked", dirty |-> FALSE]
NoCommand == [step |-> "none"]

\* ManagerSnapshot and ParticipantSnapshot: a participant is given the result
\* of a revealed Activity only.
Snapshot(v) ==
  [shown |-> [session |-> Public(session),
              result |-> IF role[v] = "manager" \/ session.phase = "revealed"
                         THEN session.result ELSE 0,
              count |-> session.joined],
   last |-> LatestEventID]

Bug_ForgetsDirty(r) == IF r.step = "none" THEN Ask ELSE r
\* refreshAuthoritative: a refresh under way is asked to run once more.
Refreshed(r) == IF r.step = "none" THEN Ask ELSE [r EXCEPT !.dirty = TRUE]

Init ==
  /\ StreamInit
  /\ browser = [v \in Viewers |->
       [mode |-> "entering", from |-> 0, conn |-> 0,
        cursor |-> [event |-> 0, version |-> 0],
        shown |-> NotShown, refresh |-> NoRefresh, command |-> NoCommand,
        missed |-> "nothing", started |-> 0]]
-----------------------------------------------------------------------------
(* Refreshes.                                                              *)

\* joinParticipant, or connect, wants a first snapshot.
Enter(v) ==
  /\ browser[v].mode = "entering"
  /\ browser[v].refresh = NoRefresh
  /\ browser' = [browser EXCEPT ![v].refresh = Ask]
  /\ UNCHANGED streamVars

ReadSnapshot(v) ==
  LET r == browser[v].refresh
  IN /\ r.step = "asked"
     /\ browser' = [browser EXCEPT ![v].refresh =
          [step |-> "answered", dirty |-> r.dirty, snapshot |-> Snapshot(v)]]
     /\ UNCHANGED streamVars

Bug_StoresAny(b, s) == TRUE
\* storeSnapshot: an answer older than what events brought is thrown away.
Storable(b, s) ==
  /\ s.last >= b.cursor.event
  /\ s.shown.session.version >= b.cursor.version

\* Whoever awaits a refresh goes on when it ends: the loop of startStream asks
\* for a stream at the cursor, a command is over.
Ready(b)   == [b EXCEPT !.mode = "ready", !.from = b.cursor.event]
Settled(b) == [b EXCEPT !.refresh = NoRefresh,
                        !.command = IF @.step = "settling" THEN NoCommand ELSE @]

Bug_AcceptsRefusal(r, ok) == r.dirty
\* The loop runs again when something asked for a refresh meanwhile, or when
\* the answer was refused.
Again(r, ok) == r.dirty \/ ~ok

\* The answer arrives, and the loop ends or runs again.
StoreSnapshot(v) ==
  LET b == browser[v]
      s == b.refresh.snapshot
      ok == Storable(b, s)
      kept == IF ok
              THEN [b EXCEPT !.shown = s.shown, !.missed = "nothing",
                             !.cursor = [event |-> s.last,
                                         version |-> s.shown.session.version]]
              ELSE b
  IN /\ b.refresh.step = "answered"
     /\ browser' = [browser EXCEPT ![v] =
          CASE Again(b.refresh, ok) -> [kept EXCEPT !.refresh = Ask]
            [] OTHER -> IF b.mode \in {"entering", "refreshing"}
                        THEN Ready(Settled(kept)) ELSE Settled(kept)]
     /\ UNCHANGED streamVars

\* The request fails: everybody who awaits the refresh gets the error, which
\* is published and not retried.  A reconnecting stream goes on without it.
FailRefresh(v) ==
  LET failed == [Settled(browser[v]) EXCEPT !.missed = "refresh"]
  IN
  /\ browser[v].refresh.step # "none"
  /\ Fault
  /\ browser' = [browser EXCEPT ![v] =
       IF failed.mode = "refreshing" THEN Ready(failed) ELSE failed]
  /\ UNCHANGED <<session, events, stream, conns, role, connected>>
-----------------------------------------------------------------------------
(* The stream.                                                             *)

\* The request for a stream reaches the API.
OpenStream(v, k) ==
  /\ browser[v].mode = "ready"
  /\ Accept(k, v, browser[v].from)
  /\ browser' = [browser EXCEPT ![v].mode = "open", ![v].from = 0, ![v].conn = k]

\* shouldApplyLiveEvent.
Applies(cursor, d) ==
  /\ d.id > cursor.event
  /\ events[d.id].version >= cursor.version

\* handleEvent: a presence event moves the count, a result is shown, and
\* anything else asks for a refresh.
Handled(b, d) ==
  LET e == events[d.id]
      moved == [b EXCEPT !.cursor = [event |-> d.id,
                                     version |-> FS!Max({@.version, e.version})]]
  IN CASE e.name = "presence" -> [moved EXCEPT !.shown.count = @ + d.delta]
       [] e.name = "result"   -> [moved EXCEPT !.shown.result = e.version]
       [] OTHER               -> [moved EXCEPT !.refresh = Refreshed(@)]

Receive(v) ==
  LET b == browser[v]
      d == Head(conns[b.conn].wire)
  IN /\ b.mode = "open"
     /\ conns[b.conn].wire # <<>>
     /\ conns' = [conns EXCEPT ![b.conn].wire = Tail(@)]
     /\ browser' = [browser EXCEPT ![v] = IF Applies(b.cursor, d) THEN Handled(b, d) ELSE b]
     /\ UNCHANGED <<session, events, stream, role, connected, faults>>

Broken(b) == [b EXCEPT !.mode = "broken", !.conn = 0]

\* The stream ends: everything the handler wrote has been read.
EndStream(v) ==
  LET k == browser[v].conn
  IN /\ browser[v].mode = "open"
     /\ conns[k].step = "done" /\ conns[k].wire = <<>>
     /\ conns' = [conns EXCEPT ![k] = Unserved]
     /\ browser' = [browser EXCEPT ![v] = Broken(@)]
     /\ UNCHANGED <<session, events, stream, role, connected, faults>>

\* The connection is lost, or the silence watchdog gives it up; the handler
\* may not notice for a while.
LoseStream(v) ==
  LET k == browser[v].conn
  IN /\ browser[v].mode = "open"
     /\ Fault
     /\ conns' = [conns EXCEPT ![k] =
          IF @.step = "done" THEN Unserved ELSE [@ EXCEPT !.reading = FALSE, !.wire = <<>>]]
     /\ browser' = [browser EXCEPT ![v] = Broken(@)]
     /\ UNCHANGED <<session, events, stream, role, connected>>

\* The back-off is over: a snapshot first.
Reconnect(v) ==
  /\ browser[v].mode = "broken"
  /\ browser' = [browser EXCEPT ![v].mode = "refreshing", ![v].refresh = Refreshed(@)]
  /\ UNCHANGED streamVars
-----------------------------------------------------------------------------
(* A manager's commands: runAction and what follows it.                    *)

Sent(b, action) == [step |-> "sent", action |-> action, current |-> b.shown]

\* The session shown is the one the command is planned for (planLiveNavigation),
\* and its version the one the command expects.
SendCommand(v, action) ==
  LET b == browser[v]
  IN /\ role[v] = "manager"
     /\ b.mode # "entering" /\ b.command = NoCommand
     /\ Allowed(b.shown.session.phase, action)
     /\ b.started < MaxCommands
     /\ browser' = [browser EXCEPT ![v].command = Sent(b, action), ![v].started = @ + 1]
     /\ UNCHANGED streamVars

\* ApplyAction, of which module LiveSession tells the rest.
ApplyCommand(v) ==
  LET c == browser[v].command
  IN /\ c.step = "sent"
     /\ session.version = c.current.session.version
     /\ Change(c.action)
     /\ browser' = [browser EXCEPT ![v].command =
          [step |-> "applied", current |-> c.current, row |-> Public(session')]]

\* Refused, or its request or its reply is lost: the error is published.
FailCommand(v) ==
  LET c == browser[v].command
  IN /\ \/ /\ c.step = "sent"
           /\ session.version # c.current.session.version \/ ~Allowed(session.phase, c.action)
           /\ UNCHANGED faults
        \/ c.step \in {"sent", "applied"} /\ Fault
     /\ browser' = [browser EXCEPT ![v].command = NoCommand, ![v].missed = "command"]
     /\ UNCHANGED <<session, events, stream, conns, role, connected>>

\* The result replaces the session of the snapshot the command was sent from;
\* the next command of the plan follows, or a refresh.
FinishCommand(v) ==
  LET b == browser[v]
      c == b.command
      done == [b EXCEPT !.shown = [c.current EXCEPT !.session = c.row]]
  IN /\ c.step = "applied"
     /\ browser' = [browser EXCEPT ![v] =
          [done EXCEPT !.command = [step |-> "settling", row |-> c.row], !.refresh = Refreshed(@)]]
     /\ UNCHANGED streamVars

\* Closing is followed by revealing, or by the end, without a refresh.
ContinueCommand(v) ==
  LET b == browser[v]
      c == b.command
      done == [b EXCEPT !.shown = [c.current EXCEPT !.session = c.row]]
  IN /\ c.step = "applied"
     /\ c.row.phase = "closed"
     /\ browser' = [browser EXCEPT ![v] = [done EXCEPT !.command = Sent(done, "reveal")]]
     /\ UNCHANGED streamVars
-----------------------------------------------------------------------------
\* Somebody else changes the session: its deadline, or another window.
ChangeElsewhere == \E action \in Actions : Change(action)

Next ==
  \/ (ServerNext \/ ChangeElsewhere) /\ UNCHANGED browser
  \/ \E v \in Viewers :
       \/ Enter(v) \/ ReadSnapshot(v) \/ StoreSnapshot(v) \/ FailRefresh(v)
       \/ \E k \in Conns : OpenStream(v, k)
       \/ Receive(v) \/ EndStream(v) \/ LoseStream(v) \/ Reconnect(v)
       \/ \E action \in Actions : SendCommand(v, action)
       \/ ApplyCommand(v) \/ FailCommand(v) \/ FinishCommand(v) \/ ContinueCommand(v)

Spec == Init /\ [][Next]_vars

\* Processes run, requests are answered, time-outs and back-offs pass.
Fairness ==
  /\ WF_vars(ServerProgress /\ UNCHANGED browser)
  /\ \A v \in Viewers :
       WF_vars(\/ Enter(v) \/ ReadSnapshot(v) \/ StoreSnapshot(v)
               \/ \E k \in Conns : OpenStream(v, k)
               \/ Receive(v) \/ EndStream(v) \/ Reconnect(v))

FairSpec == Spec /\ Fairness
-----------------------------------------------------------------------------
Changes == {i \in Committed : events[i].name \in {"state", "ranking"}}
Ids(deliveries) == {deliveries[i].id : i \in DOMAIN deliveries}

\* Between the ledger and a browser nothing that changes the session is lost:
\* a change the browser's cursor has not passed is on the wire of its stream,
\* or its handler has yet to replay it, or it is in the subscriber's channel,
\* in the poller's batch or ahead of the poller's cursor; or the channel is
\* closed, and the browser will reconnect.
NothingLost ==
  \A v \in Viewers : browser[v].mode = "open" =>
    LET c == conns[browser[v].conn]
    IN \A i \in Changes : i > browser[v].cursor.event =>
         \/ i \in Ids(c.wire)
         \/ c.step # "live"
         \/ /\ i > c.after
            /\ \/ browser[v].conn \notin stream.subscribers
               \/ i \in Ids(c.queue)
               \/ i \in {d.id : d \in stream.batch}
               \/ i > stream.cursor

\* With nothing under way, and no refresh or command that failed since its last
\* snapshot, a browser shows the newest version any event or snapshot told it of:
\* a refresh whose answer was refused is made again.
ShownIsNewestHeard ==
  \A v \in Viewers :
    LET b == browser[v]
    IN b.refresh = NoRefresh /\ b.command = NoCommand /\ b.missed = "nothing" =>
         b.shown.session.version >= b.cursor.version

\* A manager whose command is over shows its result, or what followed it: a
\* refresh that was read before the command does not take it back.
CommandShowsItsResult ==
  [][\A v \in Viewers :
       LET c == browser[v].command
       IN c.step = "settling" /\ browser'[v].command = NoCommand
            /\ browser'[v].missed = "nothing" =>
          browser'[v].shown.session.version >= c.row.version]_vars

\* Through refreshes that overlap events, replays and reconnections, a
\* browser's cursor never goes back, nor does the version a participant sees.
NeverGoesBack ==
  [][\A v \in Viewers :
       /\ browser'[v].cursor.event >= browser[v].cursor.event
       /\ browser'[v].cursor.version >= browser[v].cursor.version
       /\ role[v] = "participant" =>
            browser'[v].shown.session.version >= browser[v].shown.session.version]_vars

\* A participant is not shown the result of an Activity before its reveal.
ResultsStayPrivate ==
  \A v \in Viewers : role[v] = "participant" /\ browser[v].shown.result # 0 =>
    browser[v].shown.session.phase = "revealed"

\* A participant whose browser reads an open stream holds its display name.
OpenStreamHoldsName ==
  \A v \in Viewers :
    /\ browser[v].mode = "open" /\ role[v] = "participant"
    /\ conns[browser[v].conn].step \in {"replaying", "live"}
    => connected[v]

\* Once failures and changes stop, every browser shows the session as it is,
\* unless a command of its own is under way, or a refresh or a command failed
\* since its last snapshot.
CatchesUp ==
  <>[](\A v \in Viewers :
         \/ browser[v].missed # "nothing"
         \/ browser[v].command # NoCommand
         \/ browser[v].shown.session = Public(session))

\* A manager that shows an older session than it has heard of, as after a
\* command refused for its stale version, is given a snapshot that is not.
StaleManagerGetsSnapshot ==
  \A v \in Viewers :
    role[v] = "manager" /\ browser[v].shown.session.version < browser[v].cursor.version
      ~> \/ browser[v].missed = "refresh"
         \/ browser[v].shown.session.version >= browser[v].cursor.version
=============================================================================
