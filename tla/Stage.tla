-------------------------------- MODULE Stage --------------------------------
(***************************************************************************)
(* The projector's page (live/stage): a snapshot of the session, refreshed *)
(* on each state event, and the stream of events after it.  Unlike the     *)
(* presenter's runtime it lets refreshes overlap, and tells an old reply   *)
(* by comparing it with the snapshot it holds.                             *)
(*                                                                         *)
(* An event is its place in the log; the stream delivers the log in order  *)
(* (EventStream has the server's side), a refresh reads it at one moment.  *)
(***************************************************************************)
EXTENDS Integers, Sequences

CONSTANTS
  MaxChanges,  \* bound: events of the session
  MaxFailures  \* bound: streams closed or refused, refreshes lost

ASSUME StageAssumption == {MaxChanges, MaxFailures} \subseteq Nat

VARIABLES
  session,   \* the log of the session: kind and state version of each event
  stage,     \* snapshotRef, cursorRef, the loop and the stream's position
  refreshes, \* refreshes under way; read = -1 until the server answers
  failures   \* how often the network failed

stageVars == <<session, stage, refreshes, failures>>

VersionAt(n) == IF n = 0 THEN 1 ELSE session[n].version
CountAt(n) == Len(SelectSeq(SubSeq(session, 1, n), LAMBDA e : e.kind = "presence"))

\* shown is the event id of the snapshot, -1 before the first.
StageInit ==
  /\ session = <<>>
  /\ stage = [shown |-> -1, count |-> 0, event |-> 0, version |-> 0,
              loop |-> "first", heard |-> 0, missed |-> FALSE]
  /\ refreshes = {[no |-> 1, read |-> -1, loop |-> TRUE]}
  /\ failures = 0

SessionMoves(kind) ==
  /\ Len(session) < MaxChanges
  /\ session' = Append(session, [kind |-> kind,
                                 version |-> VersionAt(Len(session)) + (IF kind = "state" THEN 1 ELSE 0)])
  /\ UNCHANGED <<stage, refreshes, failures>>

NextNo == Len(session) * 10 + failures * 100 + stage.heard + 2
Ask(loop) == refreshes \union {[no |-> NextNo, read |-> -1, loop |-> loop]}
-----------------------------------------------------------------------------
ReadSession(r) ==
  /\ r.read = -1
  /\ refreshes' = (refreshes \ {r}) \union {[r EXCEPT !.read = Len(session)]}
  /\ UNCHANGED <<session, stage, failures>>

\* The test of applySnapshot.
Bug_OlderThanCursor(n) == VersionAt(n) < stage.version \/ n < stage.event
Older(n) ==
  /\ stage.shown # -1
  /\ \/ VersionAt(n) < VersionAt(stage.shown)
     \/ VersionAt(n) = VersionAt(stage.shown) /\ n < stage.shown

Larger(a, b) == IF a > b THEN a ELSE b
TakeSnapshot(n) ==
  IF Older(n) THEN stage
  ELSE [stage EXCEPT !.shown = n, !.count = CountAt(n), !.event = Larger(@, n),
                     !.version = Larger(@, VersionAt(n))]

\* A refresh asked for by an event, or by the loop, which then opens the stream
\* after the cursor.
Opened(s) == [s EXCEPT !.loop = "open", !.heard = s.event]
RefreshReply(r) ==
  /\ r.read # -1
  /\ stage' = IF r.loop THEN Opened(TakeSnapshot(r.read)) ELSE TakeSnapshot(r.read)
  /\ refreshes' = refreshes \ {r}
  /\ UNCHANGED <<session, failures>>

\* The first is asked for again; one before a reconnection is not, nor is one
\* for an event.
RefreshLost(r) ==
  /\ failures < MaxFailures /\ failures' = failures + 1
  /\ refreshes' = IF r.loop /\ stage.shown = -1 THEN (refreshes \ {r}) \union {[r EXCEPT !.read = -1]}
                  ELSE refreshes \ {r}
  /\ stage' = IF ~r.loop THEN [stage EXCEPT !.missed = TRUE]
              ELSE IF stage.shown = -1 THEN stage ELSE Opened([stage EXCEPT !.missed = TRUE])
  /\ UNCHANGED session

Applies(n) == n > stage.event /\ VersionAt(n) >= stage.version

HandleEvent ==
  /\ stage.loop = "open" /\ stage.heard < Len(session)
  /\ LET n == stage.heard + 1
         heard == [stage EXCEPT !.heard = n]
         advanced == [heard EXCEPT !.event = n, !.version = VersionAt(n)]
     IN IF ~Applies(n) THEN stage' = heard /\ UNCHANGED refreshes
        ELSE IF session[n].kind = "presence"
        THEN stage' = [advanced EXCEPT !.count = @ + 1] /\ UNCHANGED refreshes
        ELSE stage' = advanced /\ refreshes' = Ask(FALSE)
  /\ UNCHANGED <<session, failures>>

StreamCloses ==
  /\ stage.loop = "open" /\ failures < MaxFailures
  /\ failures' = failures + 1
  /\ stage' = [stage EXCEPT !.loop = "closed"]
  /\ refreshes' = Ask(TRUE)
  /\ UNCHANGED session

\* 401 or 404, to the first snapshot or to the stream, ends the loop; refreshes
\* that events asked for go on.  Elsewhere it is a failure like others.
StageStops ==
  /\ failures < MaxFailures /\ failures' = failures + 1
  /\ \/ stage.loop = "first" /\ refreshes' = {}
     \/ stage.loop = "open" /\ UNCHANGED refreshes
  /\ stage' = [stage EXCEPT !.loop = "stopped"]
  /\ UNCHANGED session

StageNext ==
  \/ \E kind \in {"state", "presence"} : SessionMoves(kind)
  \/ \E r \in refreshes : ReadSession(r) \/ RefreshReply(r) \/ RefreshLost(r)
  \/ HandleEvent \/ StreamCloses \/ StageStops

StageSpec == StageInit /\ [][StageNext]_stageVars
-----------------------------------------------------------------------------
(* Properties.                                                             *)

\* Once the stream is read and no refresh is under way, and unless one was
\* lost, the stage shows the state the session is in: neither an overlapping
\* refresh nor an event that moved the cursor keeps it back.
StageIsCurrentWhenQuiet ==
  (stage.loop = "open" /\ stage.heard = Len(session) /\ refreshes = {} /\ ~stage.missed) =>
    VersionAt(stage.shown) = VersionAt(Len(session))
=============================================================================
