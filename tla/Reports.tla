------------------------------- MODULE Reports -------------------------------
(***************************************************************************)
(* The report of a session (reports/postgres_store.go), and the page that  *)
(* shows it: lists loaded in pages by keyset cursors, while the session is *)
(* still being answered, ends, and others start.                           *)
(*                                                                         *)
(* A report transaction is REPEATABLE READ and has several statements: two *)
(* steps here, of which the first fixes the view.  Of equal times the      *)
(* uuid decides; times differ here.  A page is the set of its rows, which  *)
(* the page shows in the order of the query.  The Activities are choices   *)
(* with a key: word clouds, polls and best answers are left out.           *)
(***************************************************************************)
EXTENDS Integers, Sequences, FiniteSets, Functions

CONSTANTS
  Definitions,  \* of each Activity: [options, correct, single, partial], frozen
  Selections,   \* sets of options that participants select
  Marks,        \* points a right answer may be worth when it arrives
  Limit,        \* rows of a page
  Scenes        \* bounds: what the page shows, and how many participants,
                \* answers, sessions of the presentation and loads there may be

Topics == DOMAIN Definitions

ASSUME ReportsAssumption ==
  /\ {"none", "sessions", "totals", "ranking"} \intersect Topics = {} /\ IsFiniteSet(Topics)
  /\ \A q \in Topics :
       /\ Definitions[q] \in [options: Nat, correct: SUBSET Nat, single: BOOLEAN, partial: BOOLEAN]
       /\ Definitions[q].correct \subseteq 1..Definitions[q].options
  /\ Marks \subseteq Nat /\ Limit \in Nat \ {0}
  /\ Scenes \subseteq [watch: SUBSET ({"sessions", "totals", "ranking"} \cup Topics),
                       people: Nat, answers: Nat, sessions: Nat, loads: Nat]

VARIABLES
  record,   \* what is stored: state and stage of the session, rows of its tables
  watch,    \* the queries of the page that are enabled
  queries,  \* of each query: its pages, whether it failed, and its fetch
  scene     \* what the bounds have left

reportsVars == <<record, watch, queries, scene>>

Queries == {"sessions", "totals", "ranking"} \cup Topics
NoCursor == [none |-> TRUE]
NotFetching == [step |-> "idle", more |-> FALSE, got |-> <<>>, cursor |-> NoCursor, view |-> NoCursor]
NotLoaded == [pages |-> <<>>, failed |-> FALSE, fetch |-> NotFetching]

ReportsInit ==
  /\ record = [state |-> "live", stage |-> "none", joined |-> 0, rows |-> {}, sessions |-> 1]
  /\ scene \in Scenes /\ watch = scene.watch
  /\ queries = [k \in Queries |-> NotLoaded]
-----------------------------------------------------------------------------
(* The session, the part that reports read.                                *)

\* Score: hits less misses, and nothing for less than all without partial credit.
Points(q, choice, worth) ==
  LET key == Definitions[q].correct
      hits == Cardinality(choice \intersect key)
      wrong == Cardinality(choice \ key)
  IN IF hits <= wrong \/ (~Definitions[q].partial /\ choice # key) THEN 0
     ELSE (worth * (hits - wrong)) \div Cardinality(key)

Writes == UNCHANGED <<watch, queries, scene>>

\* Participants are named by the order they joined in.
JoinAudience ==
  /\ record.state = "live" /\ record.joined < scene.people
  /\ record' = [record EXCEPT !.joined = @ + 1] /\ Writes

OpenTopic(q) ==
  /\ record.state = "live" /\ record.stage = "none"
  /\ \A r \in record.rows : r.topic # q
  /\ record' = [record EXCEPT !.stage = q] /\ Writes

\* submitted_at is the time the transaction began.
BeginResponse(p) ==
  /\ record.stage # "none"
  /\ Cardinality(record.rows) < scene.answers
  /\ \A r \in record.rows : <<r.who, r.topic>> # <<p, record.stage>>
  /\ \E choice \in Selections, worth \in Marks :
       /\ choice # {} /\ choice \subseteq 1..Definitions[record.stage].options
       /\ Definitions[record.stage].single => Cardinality(choice) = 1
       /\ record' = [record EXCEPT !.rows = @ \cup
            {[who |-> p, topic |-> record.stage, at |-> Cardinality(record.rows), choice |-> choice,
              worth |-> worth, points |-> Points(record.stage, choice, worth), stored |-> FALSE]}]
  /\ Writes

StoreResponse(r) ==
  /\ ~r.stored
  /\ record' = [record EXCEPT !.rows = (@ \ {r}) \cup {[r EXCEPT !.stored = TRUE]}] /\ Writes

\* The close waits for the answers that hold the session row.
CloseTopic ==
  /\ record.stage # "none" /\ \A r \in record.rows : r.stored
  /\ record' = [record EXCEPT !.stage = "none"] /\ Writes

EndReported ==
  /\ record.state = "live" /\ record.stage = "none"
  /\ record' = [record EXCEPT !.state = "ended"] /\ Writes

StartAnother ==
  /\ record.state = "ended" /\ record.sessions < scene.sessions
  /\ record' = [record EXCEPT !.sessions = @ + 1] /\ Writes
-----------------------------------------------------------------------------
(* The queries of the store, on what a transaction sees.                   *)

Committed(v) == {r \in v.rows : r.stored}
ResponsesTo(q, v) == {r \in Committed(v) : r.topic = q}
ScoreOf(p, v) ==
  SumFunctionOnSet([r \in v.rows |-> r.points], {r \in Committed(v) : r.who = p})

\* evaluateResponse: the options selected, by id, are those of the key.
Right(r) == r.choice = Definitions[r.topic].correct

\* Equal scores share a rank.
Ranking(v) ==
  {[joined |-> p, score |-> ScoreOf(p, v),
    rank |-> 1 + Cardinality({x \in 1..v.joined : ScoreOf(x, v) > ScoreOf(p, v)})] : p \in 1..v.joined}

Responses(q, v) ==
  {[who |-> r.who, at |-> r.at, points |-> r.points, worth |-> r.worth, right |-> Right(r)] :
     r \in ResponsesTo(q, v)}

\* Of each list the order that its cursor continues.
Before(k, a, b) ==
  CASE k = "sessions" -> a.no > b.no
    [] k = "ranking" -> a.score > b.score \/ (a.score = b.score /\ a.joined < b.joined)
    [] OTHER -> a.at > b.at

Listed(k, v) ==
  CASE k = "sessions" -> [no: 1..v.sessions]
    [] k = "totals" -> {}
    [] k = "ranking" -> Ranking(v)
    [] OTHER -> Responses(k, v)

\* ORDER BY and LIMIT.
First(k, rows) == {r \in rows : Cardinality({x \in rows : Before(k, x, r)}) < Limit}

\* The scores of a session that runs are no place for a cursor: its ranking
\* has one page.
Bug_PagesWhileLive(k, v) == TRUE
Continues(k, v) == k = "ranking" => v.state = "ended"

\* A page: its rows, whether there are more, and the counts beside them.
PageFrom(k, first, rest, cursor) ==
  LET later == {r \in Listed(k, rest) :
                  cursor = NoCursor \/ ~Continues(k, first) \/ Before(k, cursor, r)}
  IN [items |-> First(k, later),
      more |-> Cardinality(later) > Limit /\ Continues(k, first),
      final |-> first.state = "ended",
      count |-> IF k \in Topics THEN Cardinality(ResponsesTo(k, first)) ELSE Cardinality(Committed(first)),
      parts |-> CASE k = "totals" -> [q \in Topics |-> Cardinality(ResponsesTo(q, rest))]
                  [] k \in Topics -> [o \in 1..Definitions[k].options |->
                                        Cardinality({r \in ResponsesTo(k, rest) : o \in r.choice})]
                  [] OTHER -> <<>>]
-----------------------------------------------------------------------------
(* The queries of the page (TanStack Query).                               *)

\* The last row of the last page.
NextCursor(k, pages) ==
  IF pages = <<>> THEN NoCursor
  ELSE LET last == pages[Len(pages)]
       IN IF ~last.more THEN NoCursor
          ELSE CHOOSE r \in last.items : \A x \in last.items : ~Before(k, r, x)

Asking(k, more, got, cursor) ==
  [queries EXCEPT ![k].fetch =
     [step |-> "asked", more |-> more, got |-> got, cursor |-> cursor, view |-> NoCursor]]

Fetching(k) == queries[k].fetch.step # "idle"

Loads == scene.loads > 0 /\ scene' = [scene EXCEPT !.loads = @ - 1]
StartLoad(new) == Loads /\ queries' = new /\ UNCHANGED <<record, watch>>

\* Mounted, or its data has grown stale.
Mount(k) == k \in watch /\ queries[k] = NotLoaded /\ StartLoad(Asking(k, FALSE, <<>>, NoCursor))

\* The refresh button: every query from its first page.
ReloadReport ==
  /\ \A k \in watch : ~Fetching(k)
  /\ StartLoad([k \in Queries |->
              IF k \in watch THEN Asking(k, FALSE, <<>>, NoCursor)[k] ELSE queries[k]])

\* fetchNextPage gives up a refresh under way, and goes on from the old pages.
\* A list that failed hides its button, but for the ranking.
LoadMore(k) ==
  /\ k \in watch /\ NextCursor(k, queries[k].pages) # NoCursor
  /\ queries[k].failed => k = "ranking"
  /\ ~(Fetching(k) /\ queries[k].fetch.more)
  /\ StartLoad(Asking(k, TRUE, queries[k].pages, NextCursor(k, queries[k].pages)))

\* The Activity left is fetched no longer; that chosen is, unless its pages are
\* fresh.
SelectTopic(q) ==
  LET left == [k \in Queries |-> IF k \in watch \cap Topics
                                 THEN [queries[k] EXCEPT !.fetch = NotFetching] ELSE queries[k]]
  IN /\ q \notin watch /\ watch \cap Topics # {}
     /\ watch' = (watch \ Topics) \cup {q}
     /\ Loads
     /\ queries' \in {[left EXCEPT ![q] = Asking(q, FALSE, <<>>, NoCursor)[q]]}
                     \cup (IF queries[q].pages # <<>> THEN {left} ELSE {})
     /\ UNCHANGED record

\* The transaction's first statement, and the others.
Bug_ReadCommitted(v) == record
Seen(v) == v

Look(k) ==
  /\ queries[k].fetch.step = "asked"
  /\ queries' = [queries EXCEPT ![k].fetch.step = "reading", ![k].fetch.view = record]
  /\ UNCHANGED <<record, watch, scene>>

Fetched(k) ==
  LET f == queries[k].fetch
  IN Append(f.got, PageFrom(k, f.view, Seen(f.view), f.cursor))

\* A refresh reads as many pages as there were, each after the one before.
PageArrives(k) ==
  LET got == Fetched(k)
  IN /\ queries[k].fetch.step = "reading"
     /\ queries' =
          IF ~queries[k].fetch.more /\ Len(got) < Len(queries[k].pages) /\ NextCursor(k, got) # NoCursor
          THEN Asking(k, FALSE, got, NextCursor(k, got))
          ELSE [queries EXCEPT ![k] = [pages |-> got, failed |-> FALSE, fetch |-> NotFetching]]
     /\ UNCHANGED <<record, watch, scene>>

FetchFails(k) ==
  /\ Fetching(k)
  /\ queries' = [queries EXCEPT ![k].failed = TRUE, ![k].fetch = NotFetching]
  /\ UNCHANGED <<record, watch, scene>>
-----------------------------------------------------------------------------
ReportsNext ==
  \/ JoinAudience
  \/ \E p \in 1..record.joined : BeginResponse(p)
  \/ \E q \in Topics : OpenTopic(q) \/ SelectTopic(q)
  \/ \E r \in record.rows : StoreResponse(r)
  \/ CloseTopic \/ EndReported \/ StartAnother
  \/ ReloadReport
  \/ \E k \in Queries : Mount(k) \/ LoadMore(k) \/ Look(k) \/ PageArrives(k) \/ FetchFails(k)

ReportsSpec == ReportsInit /\ [][ReportsNext]_reportsVars
-----------------------------------------------------------------------------
(* Properties.                                                             *)

ShownRows(k) == UNION {queries[k].pages[i].items : i \in DOMAIN queries[k].pages}

\* However the pages of a list were loaded and refreshed while answers came in,
\* the session ended and others began, what is on the screen is one list, in
\* order and without repetition; and a ranking called final is the ranking,
\* from its first row, and whole once there is no more to load.
ListsAreOneList ==
  \A k \in Queries \ {"totals"} :
    LET pages == queries[k].pages
    IN /\ \A i, j \in DOMAIN pages : i < j =>
            \A a \in pages[i].items, b \in pages[j].items : Before(k, a, b)
       /\ (k = "ranking" /\ pages # <<>> /\ pages[Len(pages)].final) =>
            /\ ShownRows(k) \subseteq Ranking(record)
            /\ \A r \in ShownRows(k), x \in Ranking(record) : Before(k, x, r) => x \in ShownRows(k)
            /\ NextCursor(k, pages) = NoCursor => ShownRows(k) = Ranking(record)

\* The numbers of one reply agree: the responses of the Activities add up to
\* those of the session, those of the options of a single choice to those of
\* the Activity, and a response is marked right when it got all it was worth.
ReportAddsUp ==
  \A k \in Queries : \A i \in DOMAIN queries[k].pages :
    LET p == queries[k].pages[i]
    IN /\ k = "totals" \/ (k \in Topics /\ Definitions[k].single) => SumFunction(p.parts) = p.count
       /\ k \in Topics => \A r \in p.items : r.worth > 0 => (r.right <=> r.points = r.worth)
=============================================================================
