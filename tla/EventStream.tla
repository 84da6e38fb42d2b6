---------------------------- MODULE EventStream ----------------------------
(***************************************************************************)
(* The path of an event from a session's ledger to its viewers: the event  *)
(* broker of one API process (live/event_broker.go) and the event-stream   *)
(* requests it serves (events in live/http.go).                            *)
(*                                                                         *)
(* Event ids are drawn when a transaction inserts its event and become     *)
(* visible when it commits.  Joins hold the session row FOR SHARE, so      *)
(* several may be pending and commit out of id order; a change of the      *)
(* session holds the row FOR UPDATE, so it waits for them, and draws its   *)
(* ids and commits in one step.                                            *)
(*                                                                         *)
(* A request is served by a handler: it records the viewer's presence,     *)
(* subscribes to the broker, replays the ledger from Last-Event-ID and     *)
(* then relays its channel.  The handler notices that its viewer has gone  *)
(* only later, so a viewer may have a new request while an old one lives.  *)
(***************************************************************************)
EXTENDS Naturals, Sequences, FiniteSets

FS == INSTANCE FiniteSetsExt

CONSTANTS
  Viewers,    \* the browsers that follow the session
  Conns,      \* event-stream requests, served or not
  PageSize,   \* eventPageSize
  Buffer,     \* capacity of a subscriber's channel
  Starts,     \* bound: phases the session may be in when they arrive
  MaxEvents,  \* bound: event ids ever drawn
  MaxFaults   \* bound: failures of the network, the database or the process

ASSUME StreamAssumption ==
  /\ PageSize \in Nat \ {0}
  /\ Buffer \in Nat \ {0}
  /\ Starts \subseteq {"none", "accepting", "closed", "revealed"}
  /\ MaxEvents \in Nat
  /\ MaxFaults \in Nat

VARIABLES
  session,    \* the session as snapshots read it
  events,     \* live_events by event_id, with the fate of their transactions
  stream,     \* the broker's stream: cursor, subscribers, batch being published
  conns,      \* the event-stream requests
  role,       \* what each viewer's credential makes it
  connected,  \* disconnected_at IS NULL, per participant
  faults      \* failures so far

streamVars == <<session, events, stream, conns, role, connected, faults>>
-----------------------------------------------------------------------------
Roles  == {"manager", "participant"}
Phases == {"none", "accepting", "closed", "revealed"}

\* result is the version that closed the Activity on stage, 0 when none did;
\* joined counts the participants rows.
Sessions == [version: Nat \ {0}, phase: Phases, result: Nat, joined: Nat]

\* "state" is session.state_changed and "ranking" ranking.updated; "result" is
\* activity.result_updated and "presence" presence.updated.
EventNames == {"state", "ranking", "result", "presence"}
Events == [name: EventNames, version: Nat \ {0},
           fate: {"pending", "committed", "aborted"}]

\* An event on its way to viewers is its id and a delta, the participant_delta that
\* compaction gives a presence event.

NoStream == [cursor |-> 0, subscribers |-> {}, batch |-> {}]

Unserved == [step |-> "none"]

Committed  == {i \in DOMAIN events : events[i].fate = "committed"}
Pending    == {i \in DOMAIN events : events[i].fate = "pending"}
LatestEventID == FS!Max(Committed \cup {0})

Bug_SkipsOne(after) ==
  LET later == {i \in Committed : i > after + 1}
  IN {i \in later : Cardinality({j \in later : j <= i}) <= PageSize}

\* The ids of one page of the ledger after an id: Events.
Page(after) ==
  LET later == {i \in Committed : i > after}
  IN {i \in later : Cardinality({j \in later : j <= i}) <= PageSize}

IsPresence(i) == events[i].name = "presence"

\* compactEvents: of consecutive presence events only the last is kept, with
\* the number of them as its delta.
Compact(page) ==
  LET next(i) == {j \in page : j > i /\ \A k \in page : k > i => j <= k}
      kept == {i \in page : ~(IsPresence(i) /\ \E j \in next(i) : IsPresence(j))}
      run(i) == {j \in page : j <= i /\ \A k \in page : j <= k /\ k <= i => IsPresence(k)}
  IN {[id |-> i, delta |-> Cardinality(run(i))] : i \in kept}

\* The order of their ids.
InOrder(deliveries) ==
  LET place(d) == Cardinality({e \in deliveries : e.id <= d.id})
  IN [n \in 1..Cardinality(deliveries) |-> CHOOSE d \in deliveries : place(d) = n]

Bug_ShowsResults(v, d) == TRUE
\* eventVisibleToViewer.
Visible(v, d) == role[v] = "manager" \/ events[d.id].name # "result"

Served(k)  == conns[k] # Unserved
Fault      == faults < MaxFaults /\ faults' = faults + 1
-----------------------------------------------------------------------------
\* The session as it is when the first viewer arrives.  Older events are
\* behind every snapshot's last_event_id, so ids are counted from here.
StreamInit ==
  /\ \E phase \in Starts :
       session = [version |-> 1, phase |-> phase, joined |-> 0,
                  result |-> IF phase \in {"closed", "revealed"} THEN 1 ELSE 0]
  /\ events = <<>>
  /\ stream = NoStream
  /\ conns = [k \in Conns |-> Unserved]
  /\ role \in [Viewers -> Roles]
  /\ connected = [v \in Viewers |-> FALSE]
  /\ faults = 0
-----------------------------------------------------------------------------
(* The ledger.                                                             *)

Bug_StampsOldVersion(name, version, fate) ==
  [name |-> name, version |-> version - 1, fate |-> fate]

Row(name, version, fate) == [name |-> name, version |-> version, fate |-> fate]

\* Join inserts its participants row and its event, and has yet to commit.
BeginJoin ==
  /\ Len(events) < MaxEvents
  /\ events' = Append(events, Row("presence", session.version, "pending"))
  /\ UNCHANGED <<session, stream, conns, role, connected, faults>>

CommitJoin(i) ==
  /\ i \in Pending
  /\ events' = [events EXCEPT ![i].fate = "committed"]
  /\ session' = [session EXCEPT !.joined = @ + 1]
  /\ UNCHANGED <<stream, conns, role, connected, faults>>

AbortJoin(i) ==
  /\ i \in Pending
  /\ events' = [events EXCEPT ![i].fate = "aborted"]
  /\ UNCHANGED <<session, stream, conns, role, connected, faults>>

\* The session row is locked FOR UPDATE: no join holds it FOR SHARE.
Unshared == Pending = {}

Allowed(phase, action) ==
  \/ action = "present" /\ phase \in {"none", "revealed"}
  \/ action = "close"   /\ phase = "accepting"
  \/ action = "reveal"  /\ phase = "closed"
  \/ action = "rank"    /\ phase = "revealed"

\* A manager command or the deadline changes the session: the next version,
\* its state event and the event that follows a close or a ranking.
Change(action) ==
  LET v == session.version + 1
      row(name) == Row(name, v, "committed")
      after == CASE action = "close" -> <<row("result")>>
                 [] action = "rank"  -> <<row("ranking")>>
                 [] OTHER            -> <<>>
  IN /\ Unshared
     /\ Allowed(session.phase, action)
     /\ Len(events) + 1 + Len(after) <= MaxEvents
     /\ events' = events \o <<row("state")>> \o after
     /\ session' = [session EXCEPT
          !.version = v,
          !.phase = CASE action = "present" -> "accepting"
                      [] action = "close"   -> "closed"
                      [] OTHER              -> "revealed",
          !.result = CASE action = "present" -> 0
                       [] action = "close"   -> v
                       [] OTHER              -> @]
     /\ UNCHANGED <<stream, conns, role, connected, faults>>
-----------------------------------------------------------------------------
(* The handler of an event-stream request.                                 *)

\* The request is over for the server; the viewer may have more to read.
Finished(c) == IF c.reading THEN [c EXCEPT !.step = "done", !.queue = <<>>]
                            ELSE Unserved

Streaming(c) == [c EXCEPT !.step = "replaying", !.read = 0]

\* The viewer is authorised and, a participant, recorded as connected.
Accept(k, v, lastEventId) ==
  /\ ~Served(k)
  /\ conns' = [conns EXCEPT ![k] =
       [step |-> "opening", viewer |-> v, after |-> lastEventId, read |-> 0,
        queue |-> <<>>, wire |-> <<>>, reading |-> TRUE]]
  /\ connected' = [connected EXCEPT ![v] = @ \/ role[v] = "participant"]
  /\ UNCHANGED <<session, events, stream, role, faults>>

Initializing == {k \in Conns : conns[k].step = "initializing"}

\* Subscribe joins the session's stream, waits for whoever initializes it, or
\* initializes it from the newest event.
Subscribe(k) ==
  /\ conns[k].step = "opening"
  /\ \/ /\ stream.subscribers # {}
        /\ stream' = [stream EXCEPT !.subscribers = @ \cup {k}]
        /\ conns' = [conns EXCEPT ![k] = Streaming(@)]
     \/ /\ stream.subscribers = {} /\ Initializing # {}
        /\ conns' = [conns EXCEPT ![k].step = "waiting"]
        /\ UNCHANGED stream
     \/ /\ stream.subscribers = {} /\ Initializing = {}
        /\ conns' = [conns EXCEPT ![k].step = "initializing", ![k].read = LatestEventID]
        /\ UNCHANGED stream
  /\ UNCHANGED <<session, events, role, connected, faults>>

\* The stream starts at the id read, its poller runs, and those who waited
\* for it try again.
Install(k) ==
  /\ conns[k].step = "initializing"
  /\ stream' = [cursor |-> conns[k].read, subscribers |-> {k}, batch |-> {}]
  /\ conns' = [j \in Conns |->
       CASE j = k                      -> Streaming(conns[j])
         [] conns[j].step = "waiting"  -> [conns[j] EXCEPT !.step = "opening"]
         [] OTHER                      -> conns[j]]
  /\ UNCHANGED <<session, events, role, connected, faults>>

\* Reading the newest id fails, or is cancelled because the viewer has gone:
\* the error is also that of everybody who waited.  No deferred call runs, so
\* a participant stays recorded as connected.
FailInit(k) ==
  /\ conns[k].step = "initializing"
  /\ \/ Fault
     \/ ~conns[k].reading /\ UNCHANGED faults
  /\ conns' = [j \in Conns |->
       IF j = k \/ conns[j].step = "waiting" THEN Finished(conns[j]) ELSE conns[j]]
  /\ UNCHANGED <<session, events, stream, role, connected>>

\* A viewer that goes while its request waits.
CancelWait(k) ==
  /\ conns[k].step = "waiting"
  /\ ~conns[k].reading
  /\ conns' = [conns EXCEPT ![k] = Unserved]
  /\ UNCHANGED <<session, events, stream, role, connected, faults>>

\* One page of the ledger is replayed; a short page ends the replay.
Replay(k) ==
  LET c == conns[k]
      page == Page(c.after)
      shown == {d \in Compact(page) : Visible(c.viewer, d)}
  IN /\ c.step = "replaying" /\ c.reading
     /\ conns' = [conns EXCEPT
          ![k].wire = @ \o InOrder(shown),
          ![k].after = FS!Max(page \cup {@}),
          ![k].step = IF Cardinality(page) < PageSize THEN "live" ELSE @]
     /\ UNCHANGED <<session, events, stream, role, connected, faults>>

\* The replay has not written the event already.
Unseen(c, d) == d.id > c.after

\* The next event of the channel.
Relay(k) ==
  LET c == conns[k]
      d == Head(c.queue)
  IN /\ c.step = "live" /\ c.reading
     /\ c.queue # <<>>
     /\ conns' = [conns EXCEPT
          ![k].queue = Tail(@),
          ![k].after = IF Unseen(c, d) THEN d.id ELSE @,
          ![k].wire = IF Unseen(c, d) /\ Visible(c.viewer, d) THEN Append(@, d) ELSE @]
     /\ UNCHANGED <<session, events, stream, role, connected, faults>>

\* What is left of the stream when some subscribers are gone: the last one
\* takes it away, and what its poller still publishes reaches nobody.
Without(s, gone) ==
  IF s.subscribers \subseteq gone THEN NoStream
  ELSE [s EXCEPT !.subscribers = @ \ gone]

\* The handler returns: its viewer has gone, its channel is closed and
\* drained, or a page cannot be read.  It unsubscribes and records a
\* participant as disconnected, whatever else that participant has open.
Return(k) ==
  LET c == conns[k]
  IN /\ c.step \in {"replaying", "live"}
     /\ \/ ~c.reading /\ UNCHANGED faults
        \/ /\ c.step = "live" /\ c.queue = <<>> /\ k \notin stream.subscribers
           /\ UNCHANGED faults
        \/ c.step = "replaying" /\ c.reading /\ Fault
     /\ stream' = Without(stream, {k})
     /\ connected' = [connected EXCEPT ![c.viewer] = @ /\ role[c.viewer] # "participant"]
     /\ conns' = [conns EXCEPT ![k] = Finished(c)]
     /\ UNCHANGED <<session, events, role>>
-----------------------------------------------------------------------------
(* The broker's poller.                                                    *)

Poll ==
  LET page == Page(stream.cursor)
  IN /\ stream.subscribers # {}
     /\ stream.batch = {}
     /\ page # {}
     /\ stream' = [stream EXCEPT !.cursor = FS!Max(page), !.batch = Compact(page)]
     /\ UNCHANGED <<session, events, conns, role, connected, faults>>

NextOf(batch) == CHOOSE d \in batch : \A e \in batch : d.id <= e.id

Bug_SkipsSlow(full) == {}
\* publish closes the channel of a subscriber whose buffer is full.
Dropped(full) == full

Publish ==
  LET d == NextOf(stream.batch)
      full == {k \in stream.subscribers : Len(conns[k].queue) >= Buffer}
  IN /\ stream.batch # {}
     /\ conns' = [k \in Conns |->
          IF k \in stream.subscribers \ full
          THEN [conns[k] EXCEPT !.queue = Append(@, d)] ELSE conns[k]]
     /\ stream' = Without([stream EXCEPT !.batch = @ \ {d}], Dropped(full))
     /\ UNCHANGED <<session, events, role, connected, faults>>

\* A query of the poller fails, or the API shuts down: every channel is closed.
FailStream ==
  /\ stream.subscribers # {}
  /\ Fault
  /\ stream' = NoStream
  /\ UNCHANGED <<session, events, conns, role, connected>>

\* The API process is lost with all its handlers; nothing deferred runs.
Crash ==
  /\ \E k \in Conns : Served(k)
  /\ Fault
  /\ stream' = NoStream
  /\ conns' = [k \in Conns |-> IF Served(k) THEN Finished(conns[k]) ELSE conns[k]]
  /\ UNCHANGED <<session, events, role, connected>>
-----------------------------------------------------------------------------
\* What the server does by itself.  Accept and Change belong to the viewers,
\* and Change to the deadline too.
ServerNext ==
  \/ BeginJoin
  \/ \E i \in DOMAIN events : CommitJoin(i) \/ AbortJoin(i)
  \/ \E k \in Conns : \/ Subscribe(k) \/ Install(k) \/ FailInit(k) \/ CancelWait(k)
                      \/ Replay(k) \/ Relay(k) \/ Return(k)
  \/ Poll
  \/ Publish
  \/ FailStream
  \/ Crash

ServerProgress ==
  \/ \E i \in Pending : CommitJoin(i) \/ AbortJoin(i)
  \/ \E k \in Conns : \/ Subscribe(k) \/ Install(k) \/ CancelWait(k)
                      \/ Replay(k) \/ Relay(k)
                      \/ (Return(k) \/ FailInit(k)) /\ UNCHANGED faults
  \/ Poll
  \/ Publish
=============================================================================
