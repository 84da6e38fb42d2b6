------------------------- MODULE LiveRuntimeProofs -------------------------
(***************************************************************************)
(* What the event stream and the browsers that read it promise, for any    *)
(* number of viewers, requests, events, failures and commands, any size of *)
(* page and channel: nothing is lost between the ledger and a browser, a   *)
(* quiet browser shows the newest version it has heard of, a participant   *)
(* sees no result before its reveal, nothing goes back, and a command that *)
(* is over is shown.                                                       *)
(*                                                                         *)
(* RuntimeInv is inductive.  Of the ledger: versions do not go down, and   *)
(* each was announced by a state event (VersionsAreTold).  Of a handler:   *)
(* its channel has no gap ahead of what it has written (GoodConnection),   *)
(* and a change that its channel lacks is in the poller's batch or ahead   *)
(* of the poller's cursor (GoodSubscriber).  Of a browser: its cursor and  *)
(* the answer it awaits divide the changes, the older ones at most of      *)
(* their version and the later ones at least (Divides), so an event that   *)
(* is not applied is never a change; and the refresh that a command awaits *)
(* will bring its row (WillBeShown).  Between them: a change the cursor    *)
(* has not passed is on the wire, or yet to be written (Told).             *)
(*                                                                         *)
(* Good parts are kept in two moves.  A step is first shown to leave good  *)
(* connections and browsers by the ledger as it was; then the ledger,      *)
(* which only grows, leaves good what was good (the lemmas ...Stays).      *)
(***************************************************************************)
EXTENDS LiveRuntime, FiniteSetTheorems, WellFoundedInduction, TLAPS
-----------------------------------------------------------------------------
(* The operators: pages, compaction, order.                                *)

Deliveries == [id : Nat, delta : Nat]
Sorted(s) == \A m, n \in DOMAIN s : m < n => s[m].id < s[n].id
IdsOf(S) == {d.id : d \in S}

\* A set of numbers has a least one.
LEMMA LeastNumber ==
  ASSUME NEW S, S \subseteq Nat, S # {}
  PROVE  \E m \in S : \A n \in S : m <= n
<1> DEFINE R == {p \in Nat \X Nat : p[1] < p[2]}
<1>1. IsWellFoundedOn(R, Nat)
  BY NatLessThanWellFounded DEF OpToRel
<1>2. PICK m \in S : \A n \in S : <<n, m>> \notin R
  <2> HIDE DEF R
  <2> QED  BY <1>1, WFMin
<1>3. \A n \in S : ~(n < m)
  BY <1>2
<1> QED  BY <1>3

\* And, when bounded, a greatest one, which Max chooses.
LEMMA GreatestNumber ==
  ASSUME NEW S, S \subseteq Nat, S # {}, NEW b \in Nat, \A n \in S : n <= b
  PROVE  FS!Max(S) \in S /\ \A n \in S : FS!Max(S) >= n
<1> DEFINE U == {u \in Nat : \A n \in S : n <= u}
<1>1. PICK m \in U : \A u \in U : m <= u
  BY LeastNumber
<1>2. m \in S
  <2> SUFFICES ASSUME m \notin S PROVE FALSE
    OBVIOUS
  <2>1. m # 0
    <3>1. PICK n : n \in S
      OBVIOUS
    <3> QED  BY <3>1, <1>1
  <2>2. m - 1 \in U
    BY <2>1
  <2> QED  BY <1>1, <2>2
<1>3. \E x \in S : \A y \in S : x >= y
  BY <1>1, <1>2
<1> QED  BY <1>3 DEF FS!Max

Distinct(S) == \A d, e \in S : d.id = e.id => d = e

\* Deliveries have as many ids up to theirs as their place says.
LEMMA PlacesAreTaken ==
  ASSUME NEW S \in SUBSET Deliveries, IsFiniteSet(S), Distinct(S)
  PROVE  LET place == [d \in S |-> Cardinality({e \in S : e.id <= d.id})]
         IN  /\ Cardinality(S) \in Nat
             /\ place \in [S -> 1..Cardinality(S)]
             /\ \A d, e \in S : d.id < e.id => place[d] < place[e]
             /\ \A n \in 1..Cardinality(S) : \E d \in S : place[d] = n
<1> DEFINE upTo(d) == {e \in S : e.id <= d.id}
           place == [d \in S |-> Cardinality(upTo(d))]
           size == Cardinality(S)
<1>1. size \in Nat
  BY FS_CardinalityType
<1>2. \A d \in S : IsFiniteSet(upTo(d)) /\ Cardinality(upTo(d)) \in 1..size
  <2> TAKE d \in S
  <2>1. upTo(d) \in SUBSET S /\ d \in upTo(d)
    BY DEF Deliveries
  <2>2. IsFiniteSet(upTo(d)) /\ Cardinality(upTo(d)) <= size
    BY <2>1, FS_Subset
  <2>3. Cardinality(upTo(d)) \in Nat /\ Cardinality(upTo(d)) # 0
    BY <2>1, <2>2, FS_CardinalityType, FS_EmptySet
  <2> QED  BY <1>1, <2>2, <2>3
<1>3. place \in [S -> 1..size]
  BY <1>2
<1>4. \A d, e \in S : d.id < e.id => place[d] < place[e]
  <2> SUFFICES ASSUME NEW d \in S, NEW e \in S, d.id < e.id
               PROVE  Cardinality(upTo(d)) < Cardinality(upTo(e))
    OBVIOUS
  <2>1. upTo(d) \in SUBSET upTo(e)
    BY DEF Deliveries
  <2>2. e \in upTo(e) /\ e \notin upTo(d)
    BY DEF Deliveries
  <2>3. /\ Cardinality(upTo(d)) <= Cardinality(upTo(e))
        /\ Cardinality(upTo(e)) = Cardinality(upTo(d)) => upTo(e) = upTo(d)
    BY <1>2, <2>1, FS_Subset
  <2>4. Cardinality(upTo(d)) # Cardinality(upTo(e))
    BY <2>2, <2>3
  <2> HIDE DEF upTo, size
  <2>5. Cardinality(upTo(d)) \in Nat /\ Cardinality(upTo(e)) \in Nat
    BY <1>1, <1>2
  <2> QED  BY <2>3, <2>4, <2>5
<1>5. place \in Surjection(S, 1..size)
  <2>1. \A d, e \in S : d # e => d.id < e.id \/ e.id < d.id
    BY DEF Deliveries, Distinct
  <2>2. \A d, e \in S : d # e => place[d] # place[e]
    <3> SUFFICES ASSUME NEW d \in S, NEW e \in S, d # e
                 PROVE  place[d] # place[e]
      OBVIOUS
    <3>1. place[d] \in 1..size /\ place[e] \in 1..size
      BY <1>3
    <3>2. place[d] < place[e] \/ place[e] < place[d]
      BY <1>4, <2>1
    <3> HIDE DEF place
    <3> QED  BY <1>1, <3>1, <3>2
  <2>3. place \in Injection(S, 1..size)
    <3> HIDE DEF place
    <3> QED  BY <1>3, <2>2 DEF Injection, IsInjective
  <2>4. IsFiniteSet(1..size) /\ Cardinality(1..size) = size
    BY <1>1, FS_Interval
  <2> HIDE DEF place
  <2> QED  BY <2>3, <2>4, FS_Injection
<1>6. \A n \in 1..size : \E d \in S : place[d] = n
  <2> HIDE DEF place
  <2> QED  BY <1>5 DEF Surjection
<1> QED  BY <1>1, <1>3, <1>4, <1>6

\* A page is written in the order of its ids, each once.
LEMMA InOrderIsSorted ==
  ASSUME NEW S \in SUBSET Deliveries, IsFiniteSet(S), Distinct(S)
  PROVE  /\ InOrder(S) \in Seq(S) /\ Sorted(InOrder(S))
         /\ Ids(InOrder(S)) = IdsOf(S)
<1> DEFINE upTo(d) == {e \in S : e.id <= d.id}
           place == [d \in S |-> Cardinality(upTo(d))]
           size == Cardinality(S)
           s == InOrder(S)
<1>1. /\ size \in Nat /\ place \in [S -> 1..size]
      /\ \A d, e \in S : d.id < e.id => place[d] < place[e]
      /\ \A n \in 1..size : \E d \in S : place[d] = n
  BY PlacesAreTaken
<1>2. /\ s = [n \in 1..size |-> CHOOSE d \in S : Cardinality(upTo(d)) = n]
      /\ \A d \in S : place[d] = Cardinality(upTo(d))
  BY DEF InOrder
<1> HIDE DEF place, s, upTo, size
<1>3. \A n \in 1..size : s[n] \in S /\ place[s[n]] = n
  <2> TAKE n \in 1..size
  <2>1. \E d \in S : Cardinality(upTo(d)) = n
    BY <1>1, <1>2
  <2>2. s[n] \in S /\ Cardinality(upTo(s[n])) = n
    BY <1>2, <2>1
  <2> QED  BY <1>2, <2>2
<1>4. s \in Seq(S) /\ DOMAIN s = 1..size
  BY <1>1, <1>2, <1>3
<1>5. Sorted(s)
  <2> SUFFICES ASSUME NEW m \in 1..size, NEW n \in 1..size, m < n
               PROVE  s[m].id < s[n].id
    BY <1>4 DEF Sorted
  <2>1. s[m] \in S /\ s[n] \in S /\ place[s[m]] = m /\ place[s[n]] = n
    BY <1>3
  <2>2. s[m].id \in Nat /\ s[n].id \in Nat
    BY <2>1 DEF Deliveries
  <2>3. ~(s[n].id < s[m].id) /\ s[m] # s[n]
    BY <1>1, <2>1
  <2>4. s[m].id # s[n].id
    BY <2>1, <2>3 DEF Distinct
  <2> QED  BY <2>2, <2>3, <2>4
<1>6. \A d \in S : \E n \in 1..size : s[n].id = d.id
  <2> SUFFICES ASSUME NEW d \in S
               PROVE  s[place[d]].id = d.id /\ place[d] \in 1..size
    OBVIOUS
  <2>1. place[d] \in 1..size
    BY <1>1
  <2>2. s[place[d]] \in S /\ place[s[place[d]]] = place[d]
    BY <1>3, <2>1
  <2>3. s[place[d]].id \in Nat /\ d.id \in Nat
    BY <2>2 DEF Deliveries
  <2>4. ~(s[place[d]].id < d.id) /\ ~(d.id < s[place[d]].id)
    BY <1>1, <2>1, <2>2
  <2> QED  BY <2>1, <2>3, <2>4
<1>7. Ids(s) = IdsOf(S)
  BY <1>3, <1>4, <1>6 DEF Ids, IdsOf
<1> QED  BY <1>4, <1>5, <1>7 DEF s

\* A page of the ledger leaves nothing out: what is committed before one of its
\* events is in it, and a short page has everything.
LEMMA PageIsPrefix ==
  ASSUME Len(events) \in Nat, Committed \subseteq 1..Len(events), NEW after \in Nat
  PROVE  /\ Page(after) \subseteq Committed /\ IsFiniteSet(Page(after))
         /\ \A i \in Page(after) : i > after
         /\ \A i \in Page(after), j \in Committed : after < j /\ j < i => j \in Page(after)
         /\ Cardinality(Page(after)) < PageSize =>
              \A j \in Committed : j > after => j \in Page(after)
<1> DEFINE later == {i \in Committed : i > after}
           upTo(i) == {j \in later : j <= i}
           page == Page(after)
<1>1. page = {i \in later : Cardinality(upTo(i)) <= PageSize}
  BY DEF Page
<1>2. IsFiniteSet(later) /\ later \subseteq Nat /\ PageSize \in Nat \ {0}
  <2>1. IsFiniteSet(1..Len(events))
    BY FS_Interval
  <2>2. IsFiniteSet(later)
    <3>1. later \in SUBSET (1..Len(events))
      OBVIOUS
    <3> HIDE DEF later
    <3> QED  BY <2>1, <3>1, FS_Subset
  <2>3. later \subseteq Nat
    <3> SUFFICES ASSUME NEW i \in Committed
                 PROVE  i \in Nat
      OBVIOUS
    <3>1. i \in 1..Len(events)
      OBVIOUS
    <3> QED  BY <3>1
  <2>4. PageSize \in Nat \ {0}
    BY StreamAssumption
  <2> QED  BY <2>2, <2>3, <2>4
<1>3. IsFiniteSet(page) /\ Cardinality(page) \in Nat
  BY <1>1, <1>2, FS_Subset, FS_CardinalityType
<1>4. \A i \in later : IsFiniteSet(upTo(i)) /\ Cardinality(upTo(i)) \in Nat
  BY <1>2, FS_Subset, FS_CardinalityType
<1>5. \A i \in page, j \in later : j < i => j \in page
  <2> SUFFICES ASSUME NEW i \in page, NEW j \in later, j < i
               PROVE  Cardinality(upTo(j)) <= PageSize
    BY <1>1
  <2>1. upTo(j) \in SUBSET upTo(i) /\ i \in later
    BY <1>1, <1>2
  <2>2. Cardinality(upTo(j)) <= Cardinality(upTo(i))
    BY <1>4, <2>1, FS_Subset
  <2>3. Cardinality(upTo(i)) <= PageSize
    BY <1>1
  <2> HIDE DEF upTo, later, page
  <2> QED  BY <1>2, <1>4, <2>1, <2>2, <2>3
<1>6. ASSUME Cardinality(page) < PageSize, NEW n \in later, n \notin page
      PROVE  FALSE
  <2>1. PICK i \in later \ page : \A j \in later \ page : i <= j
    BY <1>2, <1>6, LeastNumber
  <2>2. upTo(i) \ {i} \in SUBSET page
    BY <1>2, <2>1
  <2>3. Cardinality(upTo(i) \ {i}) <= Cardinality(page)
    BY <1>3, <2>2, FS_Subset
  <2>4. Cardinality(upTo(i) \ {i}) = Cardinality(upTo(i)) - 1
    <3>1. i \in upTo(i) /\ IsFiniteSet(upTo(i))
      BY <1>2, <1>4
    <3> HIDE DEF upTo
    <3> QED  BY <3>1, FS_RemoveElement
  <2>6. ~(Cardinality(upTo(i)) <= PageSize)
    BY <1>1, <2>1
  <2>7. Cardinality(upTo(i)) \in Nat
    BY <1>4
  <2> HIDE DEF upTo, page, later
  <2> QED  BY <1>2, <1>3, <1>6, <2>3, <2>4, <2>6, <2>7
<1> QED  BY <1>1, <1>2, <1>3, <1>5, <1>6

\* compactEvents keeps everything but presence, and each event once.
LEMMA CompactKeepsChanges ==
  ASSUME Len(events) \in Nat, NEW page, page \subseteq 1..Len(events)
  PROVE  /\ Compact(page) \subseteq Deliveries /\ IsFiniteSet(Compact(page))
         /\ Distinct(Compact(page)) /\ IdsOf(Compact(page)) \subseteq page
         /\ \A i \in page : events[i].name # "presence" => i \in IdsOf(Compact(page))
<1> DEFINE next(i) == {j \in page : j > i /\ \A k \in page : k > i => j <= k}
           kept == {i \in page : ~(IsPresence(i) /\ \E j \in next(i) : IsPresence(j))}
           run(i) == {j \in page : j <= i /\ \A k \in page : j <= k /\ k <= i => IsPresence(k)}
           C == Compact(page)
<1>1. C = {[id |-> i, delta |-> Cardinality(run(i))] : i \in kept}
  BY DEF Compact
<1>2. kept \subseteq page /\ \A i \in page : events[i].name # "presence" => i \in kept
  BY DEF IsPresence
<1>3. IsFiniteSet(page) /\ \A i \in kept : Cardinality(run(i)) \in Nat
  <2>1. IsFiniteSet(page)
    <3>1. IsFiniteSet(1..Len(events)) /\ page \in SUBSET (1..Len(events))
      BY FS_Interval
    <3> QED  BY <3>1, FS_Subset
  <2>2. \A i \in kept : run(i) \in SUBSET page
    OBVIOUS
  <2> QED  BY <2>1, <2>2, FS_Subset, FS_CardinalityType
<1> HIDE DEF C, kept, run
<1>4. /\ \A d \in C : d.id \in kept /\ d = [id |-> d.id, delta |-> Cardinality(run(d.id))]
      /\ \A i \in kept : \E d \in C : d.id = i
  <2>1. \A d \in C : \E i \in kept : d = [id |-> i, delta |-> Cardinality(run(i))]
    BY <1>1
  <2>2. \A i \in kept : [id |-> i, delta |-> Cardinality(run(i))] \in C
    BY <1>1
  <2>3. \A i \in kept : \E d \in C : d.id = i
    <3> TAKE i \in kept
    <3> DEFINE d == [id |-> i, delta |-> Cardinality(run(i))]
    <3>1. d \in C /\ d.id = i
      BY <2>2
    <3> QED  BY <3>1
  <2> QED  BY <2>1, <2>3
<1>5. C \subseteq Deliveries
  BY <1>2, <1>3, <1>4 DEF Deliveries
<1>6. Distinct(C)
  BY <1>4 DEF Distinct
<1>7. IdsOf(C) \subseteq page /\ \A i \in page : events[i].name # "presence" => i \in IdsOf(C)
  BY <1>2, <1>4 DEF IdsOf
<1>8. IsFiniteSet(C)
  <2> DEFINE f == [d \in C |-> d.id]
  <2>1. f \in Injection(C, page)
    BY <1>2, <1>4, <1>6 DEF Injection, IsInjective, Distinct
  <2> QED  BY <1>3, <2>1, FS_Injection
<1> QED  BY <1>5, <1>6, <1>7, <1>8 DEF C

-----------------------------------------------------------------------------
(* The invariant of the stream.                                            *)

Steps == {"opening", "initializing", "waiting", "replaying", "live", "done"}
Connections ==
  [step : Steps, viewer : Viewers, after : Nat, read : Nat, queue : Seq(Deliveries),
   wire : Seq(Deliveries), reading : BOOLEAN]
Ledger == 1..Len(events)

StreamTypeOK ==
  /\ session \in Sessions /\ events \in Seq(Events)
  /\ stream \in [cursor : Nat, subscribers : SUBSET Conns, batch : SUBSET Deliveries]
  /\ conns \in [Conns -> Connections \cup {Unserved}]
  /\ role \in [Viewers -> Roles]

\* Versions do not go down along the ledger, and only joins are ever pending.
LedgerInOrder ==
  /\ \A i, j \in Ledger : i <= j => events[i].version <= events[j].version
  /\ \A i \in Ledger : events[i].version <= session.version
  /\ \A i \in Ledger : events[i].name # "presence" => events[i].fate = "committed"

\* A version that an event or the session has was announced by a state event.
Announced(version, last) ==
  \E j \in Ledger : j <= last /\ events[j].name = "state" /\ events[j].version = version
VersionsAreTold ==
  /\ session.version > 1 => Announced(session.version, Len(events))
  /\ \A i \in Ledger : events[i].version > 1 => Announced(events[i].version, i)

\* What a handler holds.  Its channel has no gap ahead of what it has written.
GoodConnection(c) ==
  /\ c.after <= Len(events) /\ c.read <= Len(events)
  /\ Sorted(c.queue) /\ Sorted(c.wire)
  /\ \A n \in DOMAIN c.queue : c.queue[n].id \in Ledger
  /\ \A n \in DOMAIN c.wire : c.wire[n].id \in Ledger /\ c.wire[n].id <= c.after
  /\ \A n \in DOMAIN c.wire : Visible(c.viewer, c.wire[n])
  /\ c.step \in {"opening", "initializing", "waiting"} => c.queue = <<>>
  /\ c.step = "live" =>
       \A n \in DOMAIN c.queue, i \in Changes :
         c.after < i /\ i < c.queue[n].id => i \in Ids(c.queue)

\* What the broker owes a subscriber: the batch comes after its channel, and a
\* change it has not been given is still ahead.
GoodSubscriber(c, s) ==
  /\ c \in Connections /\ c.step \in {"replaying", "live"}
  /\ \A n \in DOMAIN c.queue :
       c.queue[n].id <= s.cursor /\ \A d \in s.batch : c.queue[n].id < d.id
  /\ c.step = "live" =>
       \A i \in Changes : i > c.after =>
         i \in Ids(c.queue) \/ i \in IdsOf(s.batch) \/ i > s.cursor

GoodStream(s) ==
  /\ s.cursor <= Len(events)
  /\ Distinct(s.batch) /\ \A d \in s.batch : d.id \in Ledger /\ d.id <= s.cursor

StreamInv ==
  /\ StreamTypeOK /\ LedgerInOrder /\ VersionsAreTold
  /\ \A k \in Conns : conns[k] \in Connections => GoodConnection(conns[k])
  /\ \A k \in stream.subscribers : GoodSubscriber(conns[k], stream)
  /\ GoodStream(stream)
-----------------------------------------------------------------------------
(* The invariant of the browsers.                                          *)

Rows   == [version : Nat, phase : Phases]
Shown  == [session : Rows, result : Nat, count : Nat]
Views  == [shown : Shown, last : Nat]
Refreshes ==
  [step : {"none", "asked"}, dirty : BOOLEAN]
  \cup [step : {"answered"}, dirty : BOOLEAN, snapshot : Views]
Orders ==
  {NoCommand} \cup [step : {"sent"}, action : Actions, current : Shown]
  \cup [step : {"applied"}, current : Shown, row : Rows]
  \cup [step : {"settling"}, row : Rows]
Cursors == [event : Nat, version : Nat]
Modes == {"entering", "ready", "open", "broken", "refreshing"}
Browsers ==
  [mode : Modes, from : Nat, conn : Conns \cup {0}, cursor : Cursors, shown : Shown,
   refresh : Refreshes, command : Orders, missed : {"nothing", "refresh", "command"},
   started : Nat]

\* An id and a version that divide the changes between them: the older are at
\* most of that version, the later at least.
Divides(id, version) ==
  /\ id <= Len(events) /\ version <= session.version
  /\ \A i \in Changes : IF i > id THEN events[i].version >= version
                                  ELSE events[i].version <= version

Discreet(s) == s.result # 0 => s.session.phase = "revealed"

\* A command that awaits its refresh has a row no later than the session's, and
\* the refresh under way will bring it.
WillBeShown(b) ==
  /\ b.command.step \in {"applied", "settling"} => b.command.row.version <= session.version
  /\ b.command.step = "settling" =>
       \/ b.refresh.step = "asked"
       \/ /\ b.refresh.step = "answered"
          /\ \/ b.refresh.dirty
             \/ b.refresh.snapshot.shown.session.version >= b.command.row.version

GoodBrowser(b, v) ==
  /\ Divides(b.cursor.event, b.cursor.version)
  /\ b.refresh.step = "answered" =>
       /\ Divides(b.refresh.snapshot.last, b.refresh.snapshot.shown.session.version)
       /\ b.refresh.snapshot.shown.session.version > 0
  /\ b.mode # "entering" => b.cursor.version > 0
  /\ b.mode = "ready" => b.from <= b.cursor.event
  /\ WillBeShown(b)
  /\ (b.refresh.step = "none" /\ b.command = NoCommand /\ b.missed = "nothing") =>
       b.shown.session.version >= b.cursor.version
  /\ role[v] = "participant" =>
       /\ b.command = NoCommand
       /\ b.shown.session.version <= b.cursor.version
       /\ Discreet(b.shown)
       /\ b.refresh.step = "answered" => Discreet(b.refresh.snapshot.shown)

\* What the cursor has not passed is on the wire, or the handler has yet to
\* write it.
Told(cursor, c) == \A i \in Changes : i > cursor.event => i \in Ids(c.wire) \/ i > c.after

Linked(b, v) ==
  b.mode = "open" =>
    /\ b.conn \in Conns /\ conns[b.conn] \in Connections
    /\ conns[b.conn].viewer = v /\ conns[b.conn].reading
    /\ Told(b.cursor, conns[b.conn])

RuntimeInv ==
  /\ StreamInv
  /\ browser \in [Viewers -> Browsers]
  /\ \A v \in Viewers : GoodBrowser(browser[v], v) /\ Linked(browser[v], v)

-----------------------------------------------------------------------------
(* The ledger grows, and what was good stays good.                         *)

\* The ledger only grows: the events there are keep their names and versions,
\* and those to come have the session's version or a later one.
LedgerGrows ==
  /\ session'.version >= session.version /\ role' = role
  /\ Len(events') >= Len(events)
  /\ \A i \in Ledger : /\ events'[i].name = events[i].name
                       /\ events'[i].version = events[i].version
  /\ \A i \in Ledger' : i > Len(events) => events'[i].version >= session.version

Facts ==
  /\ Len(events) \in Nat /\ session.version \in Nat
  /\ \A i \in Ledger : events[i] \in Events
  /\ Changes = {i \in Ledger : events[i].name \in {"state", "ranking"}}
  /\ Committed \subseteq Ledger /\ Changes \subseteq Committed

\* What the ledger is, in the form the lemmas below use.
LEMMA LedgerFacts ==
  ASSUME session \in Sessions, events \in Seq(Events), LedgerInOrder
  PROVE  Facts
<1>1. Len(events) \in Nat /\ DOMAIN events = Ledger /\ \A i \in Ledger : events[i] \in Events
  BY DEF Ledger
<1>2. session.version \in Nat
  BY DEF Sessions
<1>3. Changes = {i \in Ledger : events[i].name \in {"state", "ranking"}}
  BY <1>1 DEF Changes, Committed, LedgerInOrder
<1>4. Committed \subseteq Ledger /\ Changes \subseteq Committed
  BY <1>1 DEF Changes, Committed
<1> QED  BY <1>1, <1>2, <1>3, <1>4 DEF Facts

\* The same of the ledger after a step.
LEMMA NextLedgerFacts ==
  ASSUME (session \in Sessions)', (events \in Seq(Events))', LedgerInOrder'
  PROVE  Facts'
<1>1. /\ Len(events') \in Nat /\ DOMAIN events' = Ledger'
      /\ \A i \in Ledger' : events'[i] \in Events
  BY DEF Ledger
<1>2. session'.version \in Nat
  BY DEF Sessions
<1>3. Changes' = {i \in Ledger' : events'[i].name \in {"state", "ranking"}}
  BY <1>1 DEF Changes, Committed, LedgerInOrder
<1>4. Committed' \subseteq Ledger' /\ Changes' \subseteq Committed'
  BY <1>1 DEF Changes, Committed
<1> QED  BY <1>1, <1>2, <1>3, <1>4 DEF Facts, Events

\* A change is one of those there were, or comes after all of them.
LEMMA ChangesGrow ==
  ASSUME Facts, Facts', LedgerGrows
  PROVE  /\ \A i \in Changes' : i \in Nat
         /\ \A i \in Changes : i \in Changes' /\ i <= Len(events)
         /\ \A i \in Changes' : i \in Changes \/ i > Len(events)
         /\ \A i \in Changes : events'[i].version = events[i].version
         /\ \A i \in Changes' : i > Len(events) => events'[i].version >= session.version
         /\ \A i \in Ledger : i \in Ledger'
  BY DEF Facts, LedgerGrows, Ledger

\* A good connection is good by a ledger that has grown.
LEMMA GoodConnectionStays ==
  ASSUME Facts, Facts', LedgerGrows, NEW c \in Connections, GoodConnection(c)
  PROVE  GoodConnection(c)'
<1>1. /\ c.queue \in Seq(Deliveries) /\ c.wire \in Seq(Deliveries) /\ c.after \in Nat
      /\ \A n \in DOMAIN c.queue : c.queue[n].id \in Ledger
      /\ \A n \in DOMAIN c.wire : c.wire[n].id \in Ledger
  BY DEF GoodConnection, Connections
<1>2. \A n \in DOMAIN c.wire : Visible(c.viewer, c.wire[n])'
  BY <1>1 DEF GoodConnection, Visible, LedgerGrows
<1>3. c.after <= Len(events') /\ c.read <= Len(events')
  BY DEF Facts, LedgerGrows, GoodConnection, Connections
<1>4. c.step = "live" =>
       \A n \in DOMAIN c.queue, i \in Changes' :
         c.after < i /\ i < c.queue[n].id => i \in Ids(c.queue)
  <2> SUFFICES ASSUME c.step = "live", NEW n \in DOMAIN c.queue, NEW i \in Changes',
                      c.after < i, i < c.queue[n].id
               PROVE  i \in Ids(c.queue)
    OBVIOUS
  <2>1. c.queue[n].id <= Len(events) /\ c.queue[n].id \in Nat /\ i \in Nat /\ Len(events) \in Nat
    BY <1>1, ChangesGrow DEF Ledger, Facts
  <2>2. i \in Changes
    BY <2>1, ChangesGrow
  <2> QED  BY <2>2 DEF GoodConnection
<1> QED  BY <1>1, <1>2, <1>3, <1>4, ChangesGrow DEF GoodConnection

\* So is the broker's stream.
LEMMA GoodStreamStays ==
  ASSUME Facts, Facts', LedgerGrows, NEW s, s.cursor \in Nat, GoodStream(s)
  PROVE  GoodStream(s)'
  BY ChangesGrow DEF GoodStream, LedgerGrows, Facts

\* A change that is new is ahead of the poller, so nothing more is owed.
LEMMA GoodSubscriberStays ==
  ASSUME Facts, Facts', LedgerGrows, NEW c, NEW s, s.cursor \in Nat, GoodStream(s),
         GoodSubscriber(c, s)
  PROVE  GoodSubscriber(c, s)'
<1>1. c.step = "live" =>
       \A i \in Changes' : i > c.after =>
         i \in Ids(c.queue) \/ i \in IdsOf(s.batch) \/ i > s.cursor
  <2> SUFFICES ASSUME c.step = "live", NEW i \in Changes', i > c.after, i \notin Changes
               PROVE  i > s.cursor
    BY DEF GoodSubscriber
  <2>1. i > Len(events) /\ i \in Nat
    BY ChangesGrow
  <2> QED  BY <2>1 DEF GoodStream, Facts
<1> QED  BY <1>1 DEF GoodSubscriber

\* A change that is new is yet to be written.
LEMMA ToldStays ==
  ASSUME Facts, Facts', LedgerGrows, NEW cursor, NEW c \in Connections, GoodConnection(c),
         Told(cursor, c)
  PROVE  Told(cursor, c)'
<1> SUFFICES ASSUME NEW i \in Changes', i > cursor.event, i \notin Changes
             PROVE  i > c.after
  BY DEF Told
<1>1. i > Len(events) /\ i \in Nat
  BY ChangesGrow
<1> QED  BY <1>1 DEF GoodConnection, Facts, Connections

\* Changes that are new come later and have later versions.
LEMMA DividesStays ==
  ASSUME Facts, Facts', LedgerGrows, NEW id \in Nat, NEW version \in Nat, Divides(id, version)
  PROVE  Divides(id, version)'
<1>1. id <= Len(events') /\ version <= session'.version
  BY DEF Divides, Facts, LedgerGrows
<1>2. \A i \in Changes' : IF i > id THEN events'[i].version >= version
                                    ELSE events'[i].version <= version
  <2> TAKE i \in Changes'
  <2>1. CASE i \in Changes
    BY <2>1, ChangesGrow DEF Divides
  <2>2. CASE i \notin Changes
    <3>1. i > Len(events) /\ i \in Nat /\ events'[i].version >= session.version
      BY <2>2, ChangesGrow
    <3>2. events'[i].version \in Nat
      BY DEF Facts, Ledger, Events
    <3> QED  BY <3>1, <3>2 DEF Divides, Facts
  <2> QED  BY <2>1, <2>2
<1> QED  BY <1>1, <1>2 DEF Divides

\* A good browser is good by a ledger that has grown.
LEMMA GoodBrowserStays ==
  ASSUME Facts, Facts', LedgerGrows, NEW b \in Browsers, NEW v \in Viewers, GoodBrowser(b, v)
  PROVE  GoodBrowser(b, v)'
<1>1. b.cursor.event \in Nat /\ b.cursor.version \in Nat
  BY DEF Browsers, Cursors
<1>2. Divides(b.cursor.event, b.cursor.version)'
  BY <1>1, DividesStays DEF GoodBrowser
<1>3. b.refresh.step = "answered" =>
        Divides(b.refresh.snapshot.last, b.refresh.snapshot.shown.session.version)'
  <2> SUFFICES ASSUME b.refresh.step = "answered"
               PROVE  Divides(b.refresh.snapshot.last, b.refresh.snapshot.shown.session.version)'
    OBVIOUS
  <2>1. /\ b.refresh.snapshot.last \in Nat
        /\ b.refresh.snapshot.shown.session.version \in Nat
    BY DEF Browsers, Refreshes, Views, Shown, Rows
  <2> QED  BY <2>1, DividesStays DEF GoodBrowser
<1>4. WillBeShown(b)'
  <2>1. b.command.step \in {"applied", "settling"} => b.command.row.version \in Nat
    BY DEF Browsers, Orders, Rows, NoCommand
  <2> QED  BY <2>1 DEF GoodBrowser, WillBeShown, LedgerGrows, Facts
<1> QED  BY <1>2, <1>3, <1>4 DEF GoodBrowser, LedgerGrows

-----------------------------------------------------------------------------
(* How each step moves the ledger.                                         *)

LedgerOK == session \in Sessions /\ events \in Seq(Events) /\ LedgerInOrder /\ VersionsAreTold

\* A step that leaves the ledger alone.
LEMMA SameLedgerGrows ==
  ASSUME LedgerOK, UNCHANGED <<session, events, role>>
  PROVE  LedgerOK' /\ LedgerGrows
<1>1. session' = session /\ events' = events /\ role' = role
  OBVIOUS
<1>2. (session \in Sessions)' /\ (events \in Seq(Events))'
  BY <1>1 DEF LedgerOK
<1>3. LedgerInOrder' /\ VersionsAreTold'
  BY <1>1 DEF LedgerOK, LedgerInOrder, VersionsAreTold, Announced, Ledger
<1>4. LedgerGrows
  <2>1. session.version \in Nat /\ Len(events) \in Nat
    BY DEF LedgerOK, Sessions
  <2> QED  BY <1>1, <2>1 DEF LedgerGrows, Ledger
<1> QED  BY <1>2, <1>3, <1>4 DEF LedgerOK

\* Only the fate of a pending join changes.
LEMMA JoinEndGrows ==
  ASSUME LedgerOK, NEW i, CommitJoin(i) \/ AbortJoin(i)
  PROVE  LedgerOK' /\ LedgerGrows
<1>1. /\ i \in Ledger /\ events[i].fate = "pending" /\ role' = role
      /\ \E fate \in {"committed", "aborted"} : events' = [events EXCEPT ![i].fate = fate]
      /\ session' = session \/ session' = [session EXCEPT !.joined = @ + 1]
  BY DEF CommitJoin, AbortJoin, Pending, LedgerOK, Ledger
<1>2. session' \in Sessions /\ session'.version = session.version /\ session.version \in Nat
  BY <1>1 DEF LedgerOK, Sessions
<1>3. /\ events' \in Seq(Events) /\ Len(events') = Len(events) /\ Len(events) \in Nat
      /\ \A j \in Ledger : /\ events'[j].name = events[j].name
                           /\ events'[j].version = events[j].version
                           /\ j # i => events'[j].fate = events[j].fate
  <2>1. PICK fate \in {"committed", "aborted"} : events' = [events EXCEPT ![i].fate = fate]
    BY <1>1
  <2>2. \A j \in Ledger : events[j] \in Events
    BY DEF LedgerOK, Ledger
  <2>3. [events[i] EXCEPT !.fate = fate] \in Events
    BY <1>1, <2>2 DEF Events
  <2>4. /\ Len(events') = Len(events) /\ Len(events) \in Nat
        /\ DOMAIN events' = Ledger /\ DOMAIN events = Ledger
    BY <2>1 DEF LedgerOK, Ledger
  <2>5. \A j \in Ledger : events'[j] = IF j = i THEN [events[i] EXCEPT !.fate = fate] ELSE events[j]
    BY <2>1, <2>4 DEF LedgerOK
  <2>6. events' \in Seq(Events)
    <3>1. PICK e \in Events : e = [events[i] EXCEPT !.fate = fate]
      BY <2>3
    <3>2. events' = [events EXCEPT ![i] = e]
      BY <2>1, <3>1
    <3>3. events \in [1..Len(events) -> Events] /\ Len(events) \in Nat
      BY DEF LedgerOK
    <3>4. events' \in [1..Len(events) -> Events]
      BY <3>1, <3>2, <3>3
    <3> QED  BY <3>3, <3>4
  <2> QED  BY <2>2, <2>4, <2>5, <2>6 DEF Events
<1>4. Ledger' = Ledger
  BY <1>3 DEF Ledger
<1>5. events[i].name = "presence"
  BY <1>1 DEF LedgerOK, LedgerInOrder
<1>6. LedgerInOrder'
  BY <1>2, <1>3, <1>4, <1>5 DEF LedgerOK, LedgerInOrder
<1>7. VersionsAreTold'
  BY <1>2, <1>3, <1>4 DEF LedgerOK, VersionsAreTold, Announced
<1>8. LedgerGrows
  BY <1>1, <1>2, <1>3, <1>4 DEF LedgerGrows, Ledger
<1> QED  BY <1>2, <1>3, <1>6, <1>7, <1>8 DEF LedgerOK

\* Events are appended with the version the session then has, which is the same
\* or is announced by the first of them.
LEMMA AppendedGrows ==
  ASSUME LedgerOK, session' \in Sessions, events' \in Seq(Events), role' = role,
         Len(events') > Len(events),
         \A i \in Ledger : events'[i] = events[i],
         \A i \in Ledger' : i > Len(events) =>
           /\ events'[i].version = session'.version
           /\ events'[i].name # "presence" => events'[i].fate = "committed",
         session'.version >= session.version,
         session'.version # session.version => events'[Len(events) + 1].name = "state"
  PROVE  LedgerOK' /\ LedgerGrows
<1>1. /\ Len(events) \in Nat /\ Len(events') \in Nat
      /\ session.version \in Nat /\ session'.version \in Nat
      /\ \A i \in Ledger : events[i].version \in Nat
  <2>1. Len(events) \in Nat /\ Len(events') \in Nat /\ \A i \in Ledger : events[i] \in Events
    BY DEF LedgerOK, Ledger
  <2>2. session.version \in Nat /\ session'.version \in Nat
    BY DEF LedgerOK, Sessions
  <2> QED  BY <2>1, <2>2 DEF Events
<1>2. \A i \in Ledger' : i \in Ledger \/ (i > Len(events) /\ i \in Nat)
  BY <1>1 DEF Ledger
<1>3. \A i \in Ledger : i \in Ledger' /\ i <= Len(events) /\ i \in Nat
  BY <1>1 DEF Ledger
<1>4. LedgerInOrder'
  <2>1. \A i \in Ledger : events[i].version <= session'.version
    BY <1>1 DEF LedgerOK, LedgerInOrder
  <2>2. \A i \in Ledger' : events'[i].version <= session'.version
    BY <1>1, <1>2, <2>1
  <2>3. \A i, j \in Ledger' : i <= j => events'[i].version <= events'[j].version
    <3> SUFFICES ASSUME NEW i \in Ledger', NEW j \in Ledger', i <= j
                 PROVE  events'[i].version <= events'[j].version
      OBVIOUS
    <3>1. CASE j \in Ledger
      <4>1. i \in Ledger
        BY <1>1, <1>2, <1>3, <3>1
      <4> QED  BY <3>1, <4>1 DEF LedgerOK, LedgerInOrder
    <3>2. CASE j \notin Ledger
      <4>1. events'[j].version = session'.version
        BY <1>2, <3>2
      <4> QED  BY <2>2, <4>1
    <3> QED  BY <3>1, <3>2
  <2>4. \A i \in Ledger' : events'[i].name # "presence" => events'[i].fate = "committed"
    BY <1>2 DEF LedgerOK, LedgerInOrder
  <2> QED  BY <2>2, <2>3, <2>4 DEF LedgerInOrder
<1>5. session'.version > 1 =>
        \E j \in Ledger' : /\ j <= Len(events) + 1 /\ events'[j].name = "state"
                           /\ events'[j].version = session'.version
  <2>1. CASE session'.version = session.version
    <3> SUFFICES ASSUME session.version > 1
                 PROVE  \E j \in Ledger' : /\ j <= Len(events) + 1 /\ events'[j].name = "state"
                                           /\ events'[j].version = session.version
      BY <2>1
    <3>1. PICK j \in Ledger : events[j].name = "state" /\ events[j].version = session.version
      BY DEF LedgerOK, VersionsAreTold, Announced
    <3>2. j \in Ledger' /\ j <= Len(events) + 1
      BY <1>1, <1>3, <3>1
    <3> QED  BY <3>1, <3>2
  <2>2. CASE session'.version # session.version
    <3>1. Len(events) + 1 \in Ledger' /\ Len(events) + 1 > Len(events)
      BY <1>1 DEF Ledger
    <3> QED  BY <1>1, <2>2, <3>1
  <2> QED  BY <2>1, <2>2
<1>6. VersionsAreTold'
  <2>1. session'.version > 1 => Announced(session.version, Len(events))'
    BY <1>1, <1>5 DEF Announced, Ledger
  <2>2. ASSUME NEW i \in Ledger', events'[i].version > 1
        PROVE  \E j \in Ledger' : /\ j <= i /\ events'[j].name = "state"
                                  /\ events'[j].version = events'[i].version
    <3>1. CASE i \in Ledger
      <4>1. PICK j \in Ledger : /\ j <= i /\ events[j].name = "state"
                                /\ events[j].version = events[i].version
        BY <2>2, <3>1 DEF LedgerOK, VersionsAreTold, Announced
      <4> QED  BY <1>3, <3>1, <4>1
    <3>2. CASE i \notin Ledger
      <4>1. i > Len(events) /\ i \in Nat /\ events'[i].version = session'.version
        BY <1>2, <3>2
      <4>2. PICK j \in Ledger' : /\ j <= Len(events) + 1 /\ events'[j].name = "state"
                                 /\ events'[j].version = session'.version
        BY <1>5, <2>2, <4>1
      <4>3. j \in Nat /\ j <= i
        BY <1>1, <4>1, <4>2 DEF Ledger
      <4> QED  BY <4>1, <4>2, <4>3
    <3> QED  BY <3>1, <3>2
  <2> QED  BY <2>1, <2>2 DEF VersionsAreTold, Announced
<1>7. LedgerGrows
  BY <1>1, <1>2 DEF LedgerGrows
<1> QED  BY <1>4, <1>6, <1>7 DEF LedgerOK

\* A join appends one presence event.
LEMMA BeginJoinGrows ==
  ASSUME LedgerOK, BeginJoin
  PROVE  LedgerOK' /\ LedgerGrows
<1> DEFINE e == Row("presence", session.version, "pending")
<1>1. events' = Append(events, e) /\ session' = session /\ role' = role
  BY DEF BeginJoin
<1>2. e \in Events /\ e.version = session.version /\ e.name = "presence"
  BY DEF Row, Events, EventNames, LedgerOK, Sessions
<1> HIDE DEF e
<1>3. /\ events \in Seq(Events) /\ Len(events) \in Nat /\ Len(events') = Len(events) + 1
      /\ events' \in Seq(Events)
      /\ \A i \in Ledger : events'[i] = events[i]
      /\ events'[Len(events) + 1] = e
  BY <1>1, <1>2 DEF LedgerOK, Ledger
<1>4. \A i \in Ledger' : i > Len(events) => i = Len(events) + 1
  BY <1>3 DEF Ledger
<1>5. session' \in Sessions /\ session.version \in Nat /\ session'.version >= session.version
  BY <1>1 DEF LedgerOK, Sessions
<1>6. \A i \in Ledger' : i > Len(events) =>
        /\ events'[i].version = session'.version
        /\ events'[i].name # "presence" => events'[i].fate = "committed"
  BY <1>1, <1>2, <1>3, <1>4
<1>7. Len(events') > Len(events)
  BY <1>3
<1> QED  BY <1>1, <1>3, <1>5, <1>6, <1>7, AppendedGrows

\* A change appends its state event, and the event that follows it if any.
LEMMA ChangeGrows ==
  ASSUME LedgerOK, NEW action \in Actions, Change(action)
  PROVE  LedgerOK' /\ LedgerGrows
<1> DEFINE v == session.version + 1
           row(name) == Row(name, v, "committed")
           after == CASE action = "close" -> <<row("result")>>
                      [] action = "rank"  -> <<row("ranking")>>
                      [] OTHER            -> <<>>
<1>1. events' = events \o <<row("state")>> \o after /\ role' = role
  BY DEF Change
<1>2. session' \in Sessions /\ session'.version = v /\ session.version \in Nat
  <2>1. PICK phase \in Phases, result \in Nat :
          session' = [session EXCEPT !.version = v, !.phase = phase, !.result = result]
    <3>1. /\ session.version \in Nat /\ session.result \in Nat
      BY DEF LedgerOK, Sessions
    <3> DEFINE phase == CASE action = "present" -> "accepting"
                          [] action = "close"   -> "closed"
                          [] OTHER              -> "revealed"
               result == CASE action = "present" -> 0
                           [] action = "close"   -> v
                           [] OTHER              -> session.result
    <3>2. session' = [session EXCEPT !.version = v, !.phase = phase, !.result = result]
      BY DEF Change
    <3>3. phase \in Phases /\ result \in Nat
      BY <3>1 DEF Phases, Actions
    <3> HIDE DEF phase, result, v
    <3> QED  BY <3>2, <3>3
  <2>2. session.version \in Nat /\ v \in Nat \ {0}
    BY DEF LedgerOK, Sessions
  <2> HIDE DEF v
  <2>3. session' = [version |-> v, phase |-> phase, result |-> result, joined |-> session.joined]
    BY <2>1 DEF LedgerOK, Sessions
  <2>4. session.joined \in Nat
    BY DEF LedgerOK, Sessions
  <2> QED  BY <2>1, <2>2, <2>3, <2>4 DEF Sessions
<1>3. \A name \in EventNames : /\ row(name) \in Events
                               /\ row(name).version = v /\ row(name).fate = "committed"
                               /\ row(name).name = name
  BY <1>2 DEF Row, Events
<1>4. after \in {<<>>, <<row("result")>>, <<row("ranking")>>}
  BY DEF Actions
<1>5. events \in Seq(Events) /\ Len(events) \in Nat
  BY DEF LedgerOK
<1>6. PICK r \in Events : r = row("state")
  BY <1>3 DEF EventNames
<1>7. PICK s \in Seq(Events) : s = after
  <2>1. row("result") \in Events /\ row("ranking") \in Events
    BY <1>3 DEF EventNames
  <2>2. \A e \in Events : <<e>> \in Seq(Events)
    OBVIOUS
  <2>3. after \in Seq(Events)
    <3>1. <<row("result")>> \in Seq(Events) /\ <<row("ranking")>> \in Seq(Events)
      BY <2>1, <2>2
    <3>2. <<>> \in Seq(Events)
      OBVIOUS
    <3> HIDE DEF row, after
    <3> QED  BY <1>4, <3>1, <3>2
  <2> QED  BY <2>3
<1>8. Len(s) \in {0, 1} /\ \A n \in 1..Len(s) : s[n].version = v /\ s[n].fate = "committed"
  <2>1. "result" \in EventNames /\ "ranking" \in EventNames
    BY DEF EventNames
  <2> HIDE DEF row, after
  <2> QED  BY <1>3, <1>4, <1>7, <2>1
<1>9. /\ r.version = v /\ r.fate = "committed" /\ r.name = "state"
  BY <1>3, <1>6 DEF EventNames
<1> HIDE DEF v, row, after
<1>10. events' = (events \o <<r>>) \o s
  BY <1>1, <1>6, <1>7
<1>11. /\ events' \in Seq(Events) /\ Len(events') = Len(events) + 1 + Len(s)
       /\ \A i \in Ledger : events'[i] = events[i]
       /\ events'[Len(events) + 1] = r
       /\ Len(s) = 1 => events'[Len(events) + 2] = s[1]
  <2>1. PICK t \in Seq(Events) : t = events \o <<r>>
    <3>1. <<r>> \in Seq(Events) /\ events \in Seq(Events)
      BY <1>5
    <3>2. events \o <<r>> \in Seq(Events)
      BY <3>1
    <3> QED  BY <3>2
  <2>2. /\ Len(t) = Len(events) + 1 /\ t[Len(events) + 1] = r
        /\ \A i \in Ledger : t[i] = events[i]
    BY <1>5, <2>1 DEF Ledger
  <2>3. events' = t \o s
    BY <1>10, <2>1
  <2>4. /\ events' \in Seq(Events) /\ Len(events') = Len(t) + Len(s)
        /\ \A i \in 1..Len(t) : events'[i] = t[i]
        /\ \A i \in 1..Len(s) : events'[Len(t) + i] = s[i]
    BY <2>1, <2>3, <1>7
  <2>5. \A i \in Ledger : i \in 1..Len(t)
    BY <1>5, <2>2 DEF Ledger
  <2>6. Len(s) = 1 => events'[Len(t) + 1] = s[1]
    BY <2>4
  <2>7. Len(events) + 1 \in 1..Len(t) /\ Len(t) + 1 = Len(events) + 2
    BY <1>5, <2>2
  <2> QED  BY <2>2, <2>4, <2>5, <2>6, <2>7
<1>12. \A i \in Ledger' : i > Len(events) =>
         i = Len(events) + 1 \/ (i = Len(events) + 2 /\ Len(s) = 1)
  BY <1>5, <1>8, <1>11 DEF Ledger
<1>13. \A i \in Ledger' : i > Len(events) =>
         events'[i].version = session'.version /\ events'[i].fate = "committed"
  BY <1>2, <1>8, <1>9, <1>11, <1>12
<1>14. Len(events') > Len(events) /\ session'.version >= session.version
  BY <1>2, <1>5, <1>8, <1>11 DEF v
<1>15. events'[Len(events) + 1].name = "state"
  BY <1>9, <1>11
<1> QED  BY <1>1, <1>2, <1>11, <1>13, <1>14, <1>15, AppendedGrows

-----------------------------------------------------------------------------
(* How steps move connections and the stream.                              *)

Streams == [cursor : Nat, subscribers : SUBSET Conns, batch : SUBSET Deliveries]

\* What a step leaves of the connections and the stream is good.
StreamMoves ==
  /\ conns' \in [Conns -> Connections \cup {Unserved}]
  /\ stream' \in Streams /\ GoodStream(stream')
  /\ \A k \in Conns : conns'[k] \in Connections => GoodConnection(conns'[k])
  /\ \A k \in stream'.subscribers : GoodSubscriber(conns'[k], stream')

\* A handler that a browser reads goes on serving it, and what it owes stays owed.
HandsOn ==
  \A k \in Conns : (conns[k] \in Connections /\ conns[k].reading) =>
    /\ conns'[k] \in Connections
    /\ conns'[k].viewer = conns[k].viewer /\ conns'[k].reading
    /\ \A i \in Changes : i \in Ids(conns[k].wire) \/ i > conns[k].after =>
                          i \in Ids(conns'[k].wire) \/ i > conns'[k].after

\* What the invariant says of the ledger and the stream by themselves.
LEMMA StreamInvFacts ==
  ASSUME StreamInv
  PROVE  Facts /\ LedgerOK /\ stream \in Streams
  BY LedgerFacts DEF StreamInv, StreamTypeOK, LedgerOK, Streams

\* Connections that are good by the old ledger are good by the new one.
LEMMA MovesKeepStreamInv ==
  ASSUME StreamInv, LedgerOK', LedgerGrows, StreamMoves
  PROVE  StreamInv'
<1>1. Facts /\ Facts'
  BY LedgerFacts, NextLedgerFacts DEF StreamInv, StreamTypeOK, LedgerOK
<1>2. StreamTypeOK'
  BY DEF StreamInv, StreamTypeOK, LedgerOK, LedgerGrows, StreamMoves, Streams
<1>3. ASSUME NEW k \in Conns, conns'[k] \in Connections
      PROVE  GoodConnection(conns[k])'
  <2>1. PICK c \in Connections : c = conns'[k]
    BY <1>3
  <2>2. GoodConnection(c)'
    BY <1>1, <1>3, <2>1, GoodConnectionStays DEF StreamMoves
  <2> QED  BY <2>1, <2>2 DEF GoodConnection, Visible
<1>4. PICK s \in Streams : s = stream'
  BY DEF StreamMoves
<1>5. GoodStream(s) /\ s.cursor \in Nat
  BY <1>4 DEF StreamMoves, Streams
<1>6. GoodStream(stream)'
  <2>1. GoodStream(s)'
    BY <1>1, <1>5, GoodStreamStays
  <2> QED  BY <1>4, <2>1 DEF GoodStream
<1>7. ASSUME NEW k \in stream'.subscribers
      PROVE  GoodSubscriber(conns[k], stream)'
  <2>1. PICK c : c = conns'[k]
    OBVIOUS
  <2>2. GoodSubscriber(c, s)
    BY <1>4, <1>7, <2>1 DEF StreamMoves
  <2>3. GoodSubscriber(c, s)'
    BY <1>1, <1>5, <2>2, GoodSubscriberStays
  <2> QED  BY <1>4, <2>1, <2>3 DEF GoodSubscriber, Connections
<1> QED  BY <1>2, <1>3, <1>6, <1>7 DEF StreamInv, LedgerOK

\* Connections, stream and roles stay; only the ledger moves.
LEMMA QuietStreamMoves ==
  ASSUME StreamInv, UNCHANGED <<stream, conns>>
  PROVE  StreamMoves /\ HandsOn
<1>1. stream' = stream /\ conns' = conns
  OBVIOUS
<1> QED  BY <1>1 DEF StreamInv, StreamTypeOK, StreamMoves, Streams, HandsOn

\* Only one connection moves, and the stream does not.
LEMMA OneConnectionMoves ==
  ASSUME StreamInv, NEW k \in Conns, stream' = stream,
         NEW c \in Connections \cup {Unserved}, conns' = [conns EXCEPT ![k] = c],
         c \in Connections => GoodConnection(c),
         k \in stream.subscribers => GoodSubscriber(c, stream)
  PROVE  StreamMoves
<1>1. \A j \in Conns : conns'[j] = IF j = k THEN c ELSE conns[j]
  BY DEF StreamInv, StreamTypeOK
<1>2. conns' \in [Conns -> Connections \cup {Unserved}]
  BY DEF StreamInv, StreamTypeOK
<1>3. \A j \in stream.subscribers : j \in Conns
  BY DEF StreamInv, StreamTypeOK
<1> QED  BY <1>1, <1>2, <1>3 DEF StreamInv, StreamTypeOK, StreamMoves, Streams

\* A connection whose viewer reads the same and whose handler is not ahead.
LEMMA LesserConnection ==
  ASSUME NEW c \in Connections, NEW d \in Connections, GoodConnection(c),
         d.after = c.after, d.wire = c.wire, d.viewer = c.viewer, d.read <= Len(events),
         d.queue = c.queue \/ d.queue = <<>>,
         d.step = "live" => c.step = "live",
         d.step \in {"opening", "initializing", "waiting"} => d.queue = <<>>
  PROVE  GoodConnection(d)
  BY DEF GoodConnection, Sorted

\* A handler that ends leaves its viewer what it wrote.
LEMMA FinishedIsGood ==
  ASSUME NEW c \in Connections, GoodConnection(c)
  PROVE  /\ Finished(c) \in Connections \cup {Unserved}
         /\ Finished(c) \in Connections => GoodConnection(Finished(c))
         /\ c.reading => /\ Finished(c) \in Connections /\ Finished(c).reading
                         /\ Finished(c).viewer = c.viewer /\ Finished(c).after = c.after
                         /\ Finished(c).wire = c.wire
<1>1. CASE c.reading
  <2>1. PICK d \in Connections : d = [c EXCEPT !.step = "done", !.queue = <<>>]
    <3>0. <<>> \in Seq(Deliveries)
      OBVIOUS
    <3>1. PICK q \in Seq(Deliveries) : q = <<>>
      BY <3>0
    <3>2. [c EXCEPT !.step = "done", !.queue = q] \in Connections
      BY DEF Connections, Steps
    <3> QED  BY <3>1, <3>2
  <2>2. /\ d.after = c.after /\ d.wire = c.wire /\ d.viewer = c.viewer /\ d.read = c.read
        /\ d.queue = <<>> /\ d.step = "done" /\ d.reading = c.reading
    BY <2>1 DEF Connections
  <2>3. GoodConnection(d)
    BY <2>2, LesserConnection DEF GoodConnection
  <2>4. Finished(c) = d
    BY <1>1, <2>1 DEF Finished
  <2> QED  BY <1>1, <2>2, <2>3, <2>4
<1>2. CASE ~c.reading
  <2>1. Finished(c) = Unserved /\ Unserved \notin Connections
    BY <1>2 DEF Finished, Unserved, Connections, Steps
  <2> QED  BY <1>2, <2>1
<1> QED  BY <1>1, <1>2

\* A handler that begins to replay has written nothing to its channel.
LEMMA StreamingIsGood ==
  ASSUME NEW c \in Connections, GoodConnection(c), c.step \in {"opening", "initializing"},
         NEW s, Facts
  PROVE  /\ Streaming(c) \in Connections /\ GoodConnection(Streaming(c))
         /\ GoodSubscriber(Streaming(c), s)
         /\ Streaming(c).viewer = c.viewer /\ Streaming(c).reading = c.reading
         /\ Streaming(c).wire = c.wire /\ Streaming(c).after = c.after
<1>1. PICK d \in Connections : d = Streaming(c)
  BY DEF Connections, Steps, Streaming
<1>2. /\ d.after = c.after /\ d.wire = c.wire /\ d.viewer = c.viewer /\ d.read = 0
      /\ d.queue = c.queue /\ d.step = "replaying" /\ d.reading = c.reading
  BY <1>1 DEF Connections, Streaming
<1>3. c.queue = <<>>
  BY DEF GoodConnection
<1>5. d.read <= Len(events)
  BY <1>2 DEF Facts
<1>6. GoodConnection(d)
  BY <1>2, <1>3, <1>5, LesserConnection
<1>7. GoodSubscriber(d, s)
  BY <1>2, <1>3 DEF GoodSubscriber
<1> QED  BY <1>1, <1>2, <1>6, <1>7

\* A stream that loses subscribers keeps its cursor and batch, or is gone.
LEMMA WithoutIsGood ==
  ASSUME NEW s \in Streams, GoodStream(s), Facts, NEW gone
  PROVE  LET t == Without(s, gone)
         IN  /\ t \in Streams /\ GoodStream(t) /\ t.subscribers \subseteq s.subscribers \ gone
             /\ t.subscribers # {} => t.cursor = s.cursor /\ t.batch = s.batch
  BY DEF Without, NoStream, Streams, GoodStream, Facts, Distinct

-----------------------------------------------------------------------------
(* Sequences of deliveries.                                                *)

\* The deliveries of two sequences joined are those of the first, then of the second.
LEMMA Joined ==
  ASSUME NEW a \in Seq(Deliveries), NEW b \in Seq(Deliveries)
  PROVE  /\ a \o b \in Seq(Deliveries) /\ Ids(a \o b) = Ids(a) \cup Ids(b)
         /\ \A n \in DOMAIN (a \o b) :
              \/ n \in DOMAIN a /\ (a \o b)[n] = a[n]
              \/ n - Len(a) \in DOMAIN b /\ (a \o b)[n] = b[n - Len(a)] /\ n > Len(a)
<1> DEFINE s == a \o b
<1>1. /\ Len(a) \in Nat /\ Len(b) \in Nat /\ DOMAIN a = 1..Len(a) /\ DOMAIN b = 1..Len(b)
      /\ s \in Seq(Deliveries) /\ Len(s) = Len(a) + Len(b) /\ DOMAIN s = 1..Len(s)
      /\ \A n \in 1..Len(a) : s[n] = a[n]
      /\ \A n \in 1..Len(b) : s[Len(a) + n] = b[n]
  OBVIOUS
<1> HIDE DEF s
<1>2. \A n \in DOMAIN s :
        \/ n \in DOMAIN a /\ s[n] = a[n]
        \/ n - Len(a) \in DOMAIN b /\ s[n] = b[n - Len(a)] /\ n > Len(a)
  <2> SUFFICES ASSUME NEW n \in 1..Len(s), ~(n <= Len(a))
               PROVE  n - Len(a) \in 1..Len(b) /\ s[n] = b[n - Len(a)] /\ n > Len(a)
    BY <1>1
  <2>1. n - Len(a) \in 1..Len(b) /\ n > Len(a) /\ Len(a) + (n - Len(a)) = n
    BY <1>1
  <2> QED  BY <1>1, <2>1
<1>3. \A n \in DOMAIN a : n \in DOMAIN s
  BY <1>1
<1>4. \A n \in DOMAIN b : Len(a) + n \in DOMAIN s
  BY <1>1
<1>5. Ids(s) = Ids(a) \cup Ids(b)
  <2>1. \A n \in DOMAIN a : s[n].id = a[n].id /\ n \in DOMAIN s
    BY <1>1, <1>3
  <2>2. \A n \in DOMAIN b : s[Len(a) + n].id = b[n].id /\ Len(a) + n \in DOMAIN s
    BY <1>1, <1>4
  <2> QED  BY <1>2, <2>1, <2>2 DEF Ids
<1> QED  BY <1>1, <1>2, <1>5 DEF s

\* They are in order when the second sequence is after the first.
LEMMA JoinedSorted ==
  ASSUME NEW a \in Seq(Deliveries), NEW b \in Seq(Deliveries), Sorted(a), Sorted(b),
         \A m \in DOMAIN a, n \in DOMAIN b : a[m].id < b[n].id
  PROVE  Sorted(a \o b)
<1> DEFINE s == a \o b
<1>1. \A n \in DOMAIN s :
        \/ n \in DOMAIN a /\ s[n] = a[n]
        \/ n - Len(a) \in DOMAIN b /\ s[n] = b[n - Len(a)] /\ n > Len(a)
  BY Joined
<1>2. /\ Len(a) \in Nat /\ DOMAIN a = 1..Len(a) /\ DOMAIN b = 1..Len(b) /\ Len(b) \in Nat
      /\ DOMAIN s \subseteq Nat
  OBVIOUS
<1> HIDE DEF s
<1>3. ASSUME NEW m \in DOMAIN s, NEW n \in DOMAIN s, m < n
      PROVE  s[m].id < s[n].id
  <2>1. CASE n \in DOMAIN a /\ s[n] = a[n]
    <3>1. m \in DOMAIN a /\ s[m] = a[m]
      BY <1>1, <1>2, <1>3, <2>1
    <3> QED  BY <1>3, <2>1, <3>1 DEF Sorted
  <2>2. CASE n - Len(a) \in DOMAIN b /\ s[n] = b[n - Len(a)] /\ n > Len(a)
    <3>1. CASE m \in DOMAIN a /\ s[m] = a[m]
      BY <2>2, <3>1
    <3>2. CASE m - Len(a) \in DOMAIN b /\ s[m] = b[m - Len(a)] /\ m > Len(a)
      <4>1. m - Len(a) < n - Len(a)
        BY <1>2, <1>3
      <4> QED  BY <2>2, <3>2, <4>1 DEF Sorted
    <3> QED  BY <1>1, <1>3, <3>1, <3>2
  <2> QED  BY <1>1, <1>3, <2>1, <2>2
<1> QED  BY <1>3 DEF Sorted, s

\* One more at the end.
LEMMA Appended ==
  ASSUME NEW a \in Seq(Deliveries), NEW d \in Deliveries
  PROVE  /\ Append(a, d) \in Seq(Deliveries) /\ Ids(Append(a, d)) = Ids(a) \cup {d.id}
         /\ \A n \in DOMAIN Append(a, d) :
              (n \in DOMAIN a /\ Append(a, d)[n] = a[n]) \/ Append(a, d)[n] = d
         /\ (Sorted(a) /\ \A n \in DOMAIN a : a[n].id < d.id) => Sorted(Append(a, d))
<1> DEFINE s == Append(a, d)
<1>1. /\ Len(a) \in Nat /\ DOMAIN a = 1..Len(a) /\ DOMAIN s = 1..(Len(a) + 1)
      /\ s \in Seq(Deliveries)
      /\ \A n \in 1..Len(a) : s[n] = a[n]
      /\ s[Len(a) + 1] = d
  OBVIOUS
<1> HIDE DEF s
<1>2. \A n \in DOMAIN s : (n \in DOMAIN a /\ s[n] = a[n]) \/ (n = Len(a) + 1 /\ s[n] = d)
  BY <1>1
<1>3. Ids(s) = Ids(a) \cup {d.id}
  <2>1. \A n \in DOMAIN a : n \in DOMAIN s /\ s[n] = a[n]
    BY <1>1
  <2>2. Len(a) + 1 \in DOMAIN s
    BY <1>1
  <2> QED  BY <1>1, <1>2, <2>1, <2>2 DEF Ids
<1>4. ASSUME Sorted(a), \A n \in DOMAIN a : a[n].id < d.id, NEW m \in DOMAIN s, NEW n \in DOMAIN s,
             m < n
      PROVE  s[m].id < s[n].id
  <2>1. m \in DOMAIN a /\ s[m] = a[m]
    BY <1>1, <1>4
  <2>2. CASE n \in DOMAIN a /\ s[n] = a[n]
    BY <1>4, <2>1, <2>2 DEF Sorted
  <2>3. CASE s[n] = d
    BY <1>4, <2>1, <2>3
  <2> QED  BY <1>2, <2>2, <2>3
<1> QED  BY <1>1, <1>2, <1>3, <1>4 DEF Sorted, s

\* The first is taken.
LEMMA Taken ==
  ASSUME NEW a \in Seq(Deliveries), a # <<>>
  PROVE  /\ Head(a) \in Deliveries /\ Tail(a) \in Seq(Deliveries)
         /\ 1 \in DOMAIN a /\ Head(a) = a[1]
         /\ \A n \in DOMAIN Tail(a) : n + 1 \in DOMAIN a /\ Tail(a)[n] = a[n + 1]
         /\ \A i \in Ids(a) : i = Head(a).id \/ i \in Ids(Tail(a))
         /\ Ids(Tail(a)) \subseteq Ids(a)
         /\ Sorted(a) => Sorted(Tail(a)) /\ \A i \in Ids(a) : Head(a).id <= i
<1> DEFINE s == Tail(a)
<1>1. /\ Len(a) \in Nat /\ Len(a) # 0 /\ DOMAIN a = 1..Len(a) /\ DOMAIN s = 1..(Len(a) - 1)
      /\ s \in Seq(Deliveries) /\ Head(a) = a[1]
      /\ \A n \in 1..(Len(a) - 1) : s[n] = a[n + 1]
  OBVIOUS
<1> HIDE DEF s
<1>2. /\ 1 \in DOMAIN a
      /\ \A n \in DOMAIN s : n + 1 \in DOMAIN a /\ s[n] = a[n + 1] /\ n \in Nat
      /\ \A n \in DOMAIN a : n = 1 \/ (n - 1 \in DOMAIN s /\ s[n - 1] = a[n])
  BY <1>1
<1>3. /\ \A i \in Ids(a) : i = Head(a).id \/ i \in Ids(s)
      /\ Ids(s) \subseteq Ids(a)
  BY <1>1, <1>2 DEF Ids
<1>4. \A n \in DOMAIN a : a[n].id \in Nat
  <2>1. \A n \in DOMAIN a : a[n] \in Deliveries
    OBVIOUS
  <2> QED  BY <2>1 DEF Deliveries
<1>5. Sorted(a) => Sorted(s)
  <2> SUFFICES ASSUME Sorted(a), NEW m \in DOMAIN s, NEW n \in DOMAIN s, m < n
               PROVE  s[m].id < s[n].id
    BY DEF Sorted
  <2>1. m + 1 < n + 1
    BY <1>2
  <2> QED  BY <1>2, <2>1 DEF Sorted
<1>6. Sorted(a) => \A i \in Ids(a) : Head(a).id <= i
  <2> SUFFICES ASSUME Sorted(a), NEW n \in DOMAIN a
               PROVE  a[1].id <= a[n].id
    BY <1>1 DEF Ids
  <2>1. n = 1 \/ 1 < n
    BY <1>1
  <2> QED  BY <1>2, <1>4, <2>1 DEF Sorted
<1> QED  BY <1>1, <1>2, <1>3, <1>4, <1>5, <1>6 DEF s

-----------------------------------------------------------------------------
(* What each step of the server does to the connections.                   *)

\* A request that is served has a good connection.
LEMMA ServedIs ==
  ASSUME StreamInv, NEW k \in Conns, conns[k].step # "none"
  PROVE  conns[k] \in Connections /\ GoodConnection(conns[k])
  BY DEF StreamInv, StreamTypeOK, Unserved

\* The others go on as they are.
LEMMA OneHandsOn ==
  ASSUME StreamInv, NEW k \in Conns, NEW c, conns' = [conns EXCEPT ![k] = c],
         conns[k] \in Connections /\ conns[k].reading =>
           /\ c \in Connections /\ c.viewer = conns[k].viewer /\ c.reading
           /\ \A i \in Changes : i \in Ids(conns[k].wire) \/ i > conns[k].after =>
                                 i \in Ids(c.wire) \/ i > c.after
  PROVE  HandsOn
<1>1. \A j \in Conns : conns'[j] = IF j = k THEN c ELSE conns[j]
  BY DEF StreamInv, StreamTypeOK
<1> QED  BY <1>1 DEF HandsOn

\* Replaying a page writes every change it has, in order, after all that was
\* written before; a short page leaves no change to come.
LEMMA ReplayMoves ==
  ASSUME StreamInv, NEW k \in Conns, Replay(k)
  PROVE  StreamMoves /\ HandsOn
<1> DEFINE page == Page(conns[k].after)
           shown == {d \in Compact(page) : Visible(conns[k].viewer, d)}
           short == Cardinality(page) < PageSize
           m == FS!Max(page \cup {conns[k].after})
<1>1. PICK c \in Connections : c = conns[k]
  BY ServedIs DEF Replay
<1>2. /\ GoodConnection(c) /\ c.step = "replaying" /\ c.reading
  BY <1>1, ServedIs DEF Replay
<1>3. /\ c.after \in Nat /\ c.queue \in Seq(Deliveries) /\ c.wire \in Seq(Deliveries)
      /\ c.after <= Len(events) /\ Len(events) \in Nat /\ Facts
  BY <1>2, StreamInvFacts DEF Connections, GoodConnection, Facts
<1>4. /\ page \subseteq Committed /\ IsFiniteSet(page)
      /\ \A i \in page : i > c.after
      /\ \A i \in page, j \in Committed : c.after < j /\ j < i => j \in page
      /\ short => \A j \in Committed : j > c.after => j \in page
  BY <1>1, <1>3, PageIsPrefix DEF Facts, Ledger
<1>5. page \subseteq 1..Len(events) /\ \A i \in page : i \in Nat /\ i <= Len(events)
  <2>1. page \subseteq 1..Len(events)
    BY <1>3, <1>4 DEF Facts, Ledger
  <2> HIDE DEF page
  <2>2. ASSUME NEW i \in page
        PROVE  i \in Nat /\ i <= Len(events)
    <3>1. i \in 1..Len(events)
      BY <2>1
    <3> QED  BY <1>3, <3>1
  <2> QED  BY <2>1, <2>2
<1> HIDE DEF page
<1>6. /\ Compact(page) \subseteq Deliveries /\ IsFiniteSet(Compact(page))
      /\ Distinct(Compact(page)) /\ IdsOf(Compact(page)) \subseteq page
      /\ \A i \in page : events[i].name # "presence" => i \in IdsOf(Compact(page))
  BY <1>3, <1>5, CompactKeepsChanges
<1>7. /\ shown \in SUBSET Deliveries /\ IsFiniteSet(shown) /\ Distinct(shown)
      /\ IdsOf(shown) \subseteq page
      /\ \A d \in shown : Visible(c.viewer, d)
      /\ \A i \in page : i \in Changes => i \in IdsOf(shown)
  <2>1. shown \in SUBSET Compact(page) /\ \A d \in shown : Visible(c.viewer, d)
    BY <1>1
  <2>2. IsFiniteSet(shown)
    BY <1>6, <2>1, FS_Subset
  <2>3. \A i \in page : i \in Changes => i \in IdsOf(shown)
    <3> SUFFICES ASSUME NEW i \in page, i \in Changes
                 PROVE  i \in IdsOf(shown)
      OBVIOUS
    <3>1. events[i].name \in {"state", "ranking"}
      BY DEF Changes
    <3>2. PICK d \in Compact(page) : d.id = i
      BY <1>6, <3>1 DEF IdsOf
    <3>3. Visible(conns[k].viewer, d)
      BY <3>1, <3>2 DEF Visible
    <3> QED  BY <3>2, <3>3 DEF IdsOf
  <2> QED  BY <1>6, <2>1, <2>2, <2>3 DEF Distinct, IdsOf
<1>8. PICK w \in Seq(Deliveries) : w = InOrder(shown)
  <2> HIDE DEF shown
  <2>1. InOrder(shown) \in Seq(shown)
    BY <1>7, InOrderIsSorted
  <2> QED  BY <1>7, <2>1
<1>9. Sorted(w) /\ Ids(w) = IdsOf(shown) /\ \A n \in DOMAIN w : w[n] \in shown
  <2> HIDE DEF shown
  <2>1. /\ InOrder(shown) \in Seq(shown) /\ Sorted(InOrder(shown))
        /\ Ids(InOrder(shown)) = IdsOf(shown)
    BY <1>7, InOrderIsSorted
  <2> QED  BY <1>8, <2>1
<1>10. /\ m \in Nat /\ m >= c.after /\ m <= Len(events) /\ \A i \in page : i <= m
       /\ m = c.after \/ m \in page
  <2>1. /\ page \cup {c.after} \subseteq Nat /\ page \cup {c.after} # {}
        /\ \A n \in page \cup {c.after} : n <= Len(events)
    BY <1>3, <1>5
  <2>2. m \in page \cup {c.after} /\ \A n \in page \cup {c.after} : m >= n
    BY <1>1, <1>3, <2>1, GreatestNumber
  <2> HIDE DEF m
  <2> QED  BY <1>3, <1>5, <2>1, <2>2
<1> HIDE DEF m, shown, short
<1>11. PICK e : e = [c EXCEPT !.wire = c.wire \o w, !.after = m,
                              !.step = IF short THEN "live" ELSE c.step]
  OBVIOUS
<1>12. conns' = [conns EXCEPT ![k] = e] /\ stream' = stream
  BY <1>1, <1>8, <1>11 DEF Replay, page, m, shown, short
<1>13. /\ e \in Connections /\ e.queue = c.queue /\ e.read = c.read /\ e.viewer = c.viewer
       /\ e.reading = c.reading /\ e.wire = c.wire \o w /\ e.after = m
       /\ e.step = IF short THEN "live" ELSE "replaying"
  <2>1. c.wire \o w \in Seq(Deliveries)
    BY <1>3, <1>8
  <2>2. (IF short THEN "live" ELSE c.step) \in Steps
    BY <1>2 DEF Steps
  <2> HIDE DEF short
  <2> QED  BY <1>2, <1>10, <1>11, <2>1, <2>2 DEF Connections
<1>14. \A i \in Changes : i \in Nat /\ i \in Committed
  BY <1>3 DEF Facts, Ledger
<1>15. ASSUME e.step = "live", NEW i \in Changes, i > m
       PROVE  FALSE
  <2>1. short /\ i > c.after
    BY <1>3, <1>10, <1>13, <1>14, <1>15
  <2>2. i \in page
    BY <1>4, <1>14, <2>1
  <2> QED  BY <1>10, <1>14, <1>15, <2>2
<1>16. \A n \in DOMAIN e.wire :
         \/ n \in DOMAIN c.wire /\ e.wire[n] = c.wire[n]
         \/ e.wire[n] \in shown /\ e.wire[n].id \in page
  <2>1. \A n \in DOMAIN w : w[n].id \in page
    BY <1>7, <1>9 DEF IdsOf
  <2> QED  BY <1>3, <1>9, <1>13, <2>1, Joined
<1>17. GoodConnection(e)
  <2>1. Sorted(e.wire)
    <3>1. ASSUME NEW x \in DOMAIN c.wire, NEW y \in DOMAIN w
          PROVE  c.wire[x].id < w[y].id
      <4>1. c.wire[x].id <= c.after /\ c.wire[x].id \in Ledger
        BY <1>2 DEF GoodConnection
      <4>2. w[y].id \in page
        BY <1>7, <1>9 DEF IdsOf
      <4>3. w[y].id > c.after /\ w[y].id \in Nat
        BY <1>4, <1>5, <4>2
      <4> QED  BY <1>3, <4>1, <4>3 DEF Ledger
    <3>2. Sorted(c.wire)
      BY <1>2 DEF GoodConnection
    <3> QED  BY <1>3, <1>9, <1>13, <3>1, <3>2, JoinedSorted
  <2>2. \A n \in DOMAIN e.wire : e.wire[n].id \in Ledger /\ e.wire[n].id <= e.after
    <3> SUFFICES ASSUME NEW n \in DOMAIN e.wire
                 PROVE  e.wire[n].id \in Ledger /\ e.wire[n].id <= m
      BY <1>13
    <3>1. CASE n \in DOMAIN c.wire /\ e.wire[n] = c.wire[n]
      <4>1. c.wire[n].id <= c.after /\ c.wire[n].id \in Ledger
        BY <1>2, <3>1 DEF GoodConnection
      <4> QED  BY <1>3, <1>10, <3>1, <4>1 DEF Ledger
    <3>2. CASE e.wire[n].id \in page
      BY <1>5, <1>10, <3>2 DEF Ledger
    <3> QED  BY <1>16, <3>1, <3>2
  <2>3. \A n \in DOMAIN e.wire : Visible(e.viewer, e.wire[n])
    BY <1>2, <1>7, <1>13, <1>16 DEF GoodConnection
  <2>4. /\ e.after <= Len(events) /\ e.read <= Len(events) /\ Sorted(e.queue)
        /\ \A n \in DOMAIN e.queue : e.queue[n].id \in Ledger
        /\ e.step \in {"live", "replaying"}
    BY <1>2, <1>10, <1>13 DEF GoodConnection
  <2> QED  BY <1>13, <1>15, <2>1, <2>2, <2>3, <2>4 DEF GoodConnection
<1>18. k \in stream.subscribers => GoodSubscriber(e, stream)
  <2> SUFFICES ASSUME k \in stream.subscribers
               PROVE  GoodSubscriber(e, stream)
    OBVIOUS
  <2>1. GoodSubscriber(c, stream)
    BY <1>1 DEF StreamInv
  <2> QED  BY <1>13, <1>15, <2>1 DEF GoodSubscriber
<1>19. ASSUME NEW i \in Changes, i \in Ids(c.wire) \/ i > c.after
       PROVE  i \in Ids(e.wire) \/ i > e.after
  <2>1. Ids(e.wire) = Ids(c.wire) \cup IdsOf(shown)
    BY <1>3, <1>9, <1>13, Joined
  <2>2. CASE i > c.after /\ ~(i > m)
    <3>1. i \in page
      BY <1>3, <1>4, <1>5, <1>10, <1>14, <2>2
    <3> QED  BY <1>7, <2>1, <3>1
  <2> QED  BY <1>13, <1>19, <2>1, <2>2
<1>20. StreamMoves
  BY <1>12, <1>13, <1>17, <1>18, OneConnectionMoves
<1>21. HandsOn
  BY <1>1, <1>12, <1>13, <1>19, OneHandsOn
<1> QED  BY <1>20, <1>21

\* A request that is not served has no connection.
LEMMA NotServed == Unserved \notin Connections
  BY DEF Unserved, Connections, Steps

\* A handler keeps its debts when its wire and its place in the ledger stay.
LEMMA SameDebts ==
  ASSUME StreamInv,
         \A k \in Conns : conns[k] \in Connections /\ conns[k].reading =>
           /\ conns'[k] \in Connections
           /\ conns'[k].viewer = conns[k].viewer /\ conns'[k].reading
           /\ conns'[k].wire = conns[k].wire /\ conns'[k].after = conns[k].after
  PROVE  HandsOn
  BY DEF HandsOn

\* Nobody subscribes before it is served.
LEMMA SubscriberStep ==
  ASSUME StreamInv, NEW k \in Conns, conns[k].step \notin {"replaying", "live"}
  PROVE  k \notin stream.subscribers
  BY DEF StreamInv, GoodSubscriber

\* The newest committed id is one of the ledger, or 0.
LEMMA LatestInLedger ==
  ASSUME StreamInv
  PROVE  /\ LatestEventID \in Nat /\ LatestEventID <= Len(events)
         /\ \A i \in Committed : i <= LatestEventID
<1>1. Facts
  BY StreamInvFacts
<1>2. Committed \cup {0} \subseteq Nat /\ \A i \in Committed \cup {0} : i <= Len(events)
  <2>1. \A i \in Committed : i \in 1..Len(events)
    BY <1>1 DEF Facts, Ledger
  <2>2. Len(events) \in Nat
    BY <1>1 DEF Facts
  <2> QED  BY <2>1, <2>2
<1>3. /\ LatestEventID \in Committed \cup {0}
      /\ \A i \in Committed \cup {0} : LatestEventID >= i
  BY <1>1, <1>2, GreatestNumber DEF LatestEventID, Facts
<1> QED  BY <1>2, <1>3

\* A handler that subscribes has an empty channel and replays first.
LEMMA SubscribeMoves ==
  ASSUME StreamInv, NEW k \in Conns, Subscribe(k)
  PROVE  StreamMoves /\ HandsOn
<1>1. PICK c \in Connections : c = conns[k]
  BY ServedIs DEF Subscribe
<1>2. GoodConnection(c) /\ c.step = "opening" /\ k \notin stream.subscribers /\ c.read \in Nat
  BY <1>1, ServedIs, SubscriberStep DEF Subscribe, Connections
<1>3. Facts /\ stream \in Streams /\ GoodStream(stream)
  BY StreamInvFacts DEF StreamInv
<1>4. ASSUME stream' = [stream EXCEPT !.subscribers = @ \cup {k}],
             conns' = [conns EXCEPT ![k] = Streaming(@)]
      PROVE  StreamMoves /\ HandsOn
  <2>1. PICK d \in Connections : d = Streaming(c)
    BY <1>2, <1>3, StreamingIsGood
  <2>2. /\ GoodConnection(d) /\ GoodSubscriber(d, stream')
        /\ d.viewer = c.viewer /\ d.reading = c.reading
        /\ d.wire = c.wire /\ d.after = c.after
    BY <1>2, <1>3, <2>1, StreamingIsGood
  <2>3. \A j \in Conns : conns'[j] = IF j = k THEN d ELSE conns[j]
    BY <1>1, <1>4, <2>1 DEF StreamInv, StreamTypeOK
  <2>4. conns' \in [Conns -> Connections \cup {Unserved}]
    BY <1>1, <1>4, <2>1 DEF StreamInv, StreamTypeOK
  <2>5. /\ stream' \in Streams /\ stream'.cursor = stream.cursor /\ stream'.batch = stream.batch
        /\ stream'.subscribers = stream.subscribers \cup {k}
    BY <1>3, <1>4 DEF Streams
  <2>6. GoodStream(stream')
    BY <1>3, <2>5 DEF GoodStream
  <2>7. ASSUME NEW j \in stream'.subscribers
        PROVE  GoodSubscriber(conns'[j], stream')
    <3>1. CASE j = k
      BY <2>2, <2>3, <3>1
    <3>2. CASE j # k
      <4>1. GoodSubscriber(conns[j], stream) /\ j \in Conns
        BY <1>3, <2>5, <2>7, <3>2 DEF StreamInv, Streams
      <4> QED  BY <2>3, <2>5, <3>2, <4>1 DEF GoodSubscriber
    <3> QED  BY <3>1, <3>2
  <2>8. \A j \in Conns : conns'[j] \in Connections => GoodConnection(conns'[j])
    BY <2>2, <2>3 DEF StreamInv
  <2>9. StreamMoves
    BY <2>4, <2>5, <2>6, <2>7, <2>8 DEF StreamMoves
  <2>10. HandsOn
    BY <1>1, <2>2, <2>3, SameDebts
  <2> QED  BY <2>9, <2>10
<1>5. ASSUME stream' = stream, NEW step \in {"waiting", "initializing"},
             NEW read \in Nat, read <= Len(events),
             conns' = [conns EXCEPT ![k] = [c EXCEPT !.step = step, !.read = read]]
      PROVE  StreamMoves /\ HandsOn
  <2>1. /\ step \in {"opening", "initializing", "waiting"}
        /\ c.step \in {"opening", "initializing", "waiting"}
    BY <1>2
  <2>2. PICK d \in Connections : d = [c EXCEPT !.step = step, !.read = read]
    BY <2>1 DEF Connections, Steps
  <2>3. /\ d.after = c.after /\ d.wire = c.wire /\ d.viewer = c.viewer /\ d.read = read
        /\ d.queue = c.queue /\ d.step = step /\ d.reading = c.reading
    BY <2>2 DEF Connections
  <2>4. c.queue = <<>>
    BY <1>2, <2>1 DEF GoodConnection
  <2>5. GoodConnection(d)
    BY <1>2, <1>5, <2>1, <2>3, <2>4, LesserConnection
  <2>6. conns' = [conns EXCEPT ![k] = d]
    BY <1>5, <2>2
  <2>7. StreamMoves
    BY <1>2, <1>5, <2>6, <2>5, OneConnectionMoves
  <2>8. HandsOn
    BY <1>1, <2>6, <2>3, OneHandsOn
  <2> QED  BY <2>7, <2>8
<1>6. CASE conns' = [conns EXCEPT ![k].step = "waiting"] /\ stream' = stream
  <2>1. [c EXCEPT !.step = "waiting"] = [c EXCEPT !.step = "waiting", !.read = c.read]
    BY DEF Connections
  <2>2. conns' = [conns EXCEPT ![k] = [c EXCEPT !.step = "waiting", !.read = c.read]]
    BY <1>1, <1>6, <2>1
  <2>3. c.read <= Len(events)
    BY <1>2 DEF GoodConnection
  <2> QED  BY <1>2, <1>5, <1>6, <2>2, <2>3
<1>7. CASE /\ conns' = [conns EXCEPT ![k].step = "initializing", ![k].read = LatestEventID]
           /\ stream' = stream
  <2>1. conns' = [conns EXCEPT ![k] = [c EXCEPT !.step = "initializing", !.read = LatestEventID]]
    BY <1>1, <1>7 DEF StreamInv, StreamTypeOK
  <2> QED  BY <1>5, <1>7, <2>1, LatestInLedger
<1> QED  BY <1>4, <1>6, <1>7 DEF Subscribe

\* No stream is a good stream.
LEMMA EmptyStream ==
  ASSUME StreamInv
  PROVE  NoStream \in Streams /\ GoodStream(NoStream)
<1>1. 0 <= Len(events)
  BY StreamInvFacts DEF Facts
<1> QED  BY <1>1 DEF NoStream, Streams, GoodStream, Distinct

\* So has the one that starts the stream; those who waited try again.
LEMMA InstallMoves ==
  ASSUME StreamInv, NEW k \in Conns, Install(k)
  PROVE  StreamMoves /\ HandsOn
<1>1. PICK c \in Connections : c = conns[k]
  BY ServedIs DEF Install
<1>2. GoodConnection(c) /\ c.step = "initializing" /\ c.read \in Nat /\ c.read <= Len(events)
  BY <1>1, ServedIs DEF Install, Connections, GoodConnection
<1>3. Facts
  BY StreamInvFacts
<1>4. PICK d \in Connections : d = Streaming(c)
  BY <1>2, <1>3, StreamingIsGood
<1>5. /\ GoodConnection(d) /\ GoodSubscriber(d, stream')
      /\ d.viewer = c.viewer /\ d.reading = c.reading
      /\ d.wire = c.wire /\ d.after = c.after
  BY <1>2, <1>3, <1>4, StreamingIsGood
<1>6. /\ conns'[k] = d
      /\ \A j \in Conns : j # k => conns'[j] =
           IF conns[j].step = "waiting" THEN [conns[j] EXCEPT !.step = "opening"] ELSE conns[j]
  BY <1>1, <1>4 DEF Install
<1>7. DOMAIN conns' = Conns /\ conns' = [j \in Conns |-> conns'[j]]
  BY DEF Install
<1>8. ASSUME NEW j \in Conns, j # k
      PROVE  /\ conns'[j] \in Connections \cup {Unserved}
             /\ conns'[j] \in Connections => GoodConnection(conns'[j])
             /\ conns[j] \in Connections =>
                  /\ conns'[j] \in Connections /\ conns'[j].viewer = conns[j].viewer
                  /\ conns'[j].reading = conns[j].reading
                  /\ conns'[j].wire = conns[j].wire /\ conns'[j].after = conns[j].after
  <2>1. CASE conns[j].step = "waiting"
    <3>1. PICK e \in Connections : e = conns[j]
      BY <2>1, ServedIs
    <3>2. GoodConnection(e) /\ e.step = "waiting" /\ e.queue = <<>> /\ e.read <= Len(events)
      BY <2>1, <3>1, ServedIs DEF GoodConnection
    <3>3. PICK f \in Connections : f = [e EXCEPT !.step = "opening"]
      BY DEF Connections, Steps
    <3>4. /\ f.after = e.after /\ f.wire = e.wire /\ f.viewer = e.viewer /\ f.read = e.read
          /\ f.queue = e.queue /\ f.step = "opening" /\ f.reading = e.reading
      BY <3>3 DEF Connections
    <3>5. GoodConnection(f)
      BY <3>2, <3>4, LesserConnection
    <3> QED  BY <1>6, <1>8, <2>1, <3>1, <3>3, <3>4, <3>5
  <2>2. CASE conns[j].step # "waiting"
    BY <1>6, <1>8, <2>2 DEF StreamInv, StreamTypeOK
  <2> QED  BY <2>1, <2>2
<1>9. /\ stream' \in Streams /\ stream'.subscribers = {k}
      /\ stream'.cursor = c.read /\ stream'.batch = {}
  BY <1>1, <1>2 DEF Install, Streams
<1>10. GoodStream(stream')
  BY <1>2, <1>9 DEF GoodStream, Distinct
<1>11. StreamMoves
  <2>1. conns' \in [Conns -> Connections \cup {Unserved}]
    BY <1>6, <1>7, <1>8
  <2> QED  BY <1>5, <1>6, <1>8, <1>9, <1>10, <2>1 DEF StreamMoves
<1>12. HandsOn
  <2>1. ASSUME NEW j \in Conns, conns[j] \in Connections, conns[j].reading
        PROVE  /\ conns'[j] \in Connections
               /\ conns'[j].viewer = conns[j].viewer /\ conns'[j].reading
               /\ conns'[j].wire = conns[j].wire /\ conns'[j].after = conns[j].after
    <3>1. CASE j = k
      BY <1>1, <1>5, <1>6, <2>1, <3>1
    <3> QED  BY <1>8, <2>1, <3>1
  <2> QED  BY <2>1, SameDebts
<1> QED  BY <1>11, <1>12

\* Some handlers return at once, and the stream is left to the others or to nobody.
LEMMA FinishingMoves ==
  ASSUME StreamInv, NEW ended \in SUBSET Conns,
         \A k \in ended : conns[k] \in Connections,
         conns' = [k \in Conns |-> IF k \in ended THEN Finished(conns[k]) ELSE conns[k]],
         stream' \in Streams, GoodStream(stream'),
         \A k \in stream'.subscribers :
           /\ k \in stream.subscribers /\ k \notin ended
           /\ stream'.cursor = stream.cursor /\ stream'.batch = stream.batch
  PROVE  StreamMoves /\ HandsOn
<1>1. \A k \in Conns : conns'[k] = IF k \in ended THEN Finished(conns[k]) ELSE conns[k]
  OBVIOUS
<1>2. ASSUME NEW k \in Conns
      PROVE  /\ conns'[k] \in Connections \cup {Unserved}
             /\ conns'[k] \in Connections => GoodConnection(conns'[k])
             /\ conns[k] \in Connections /\ conns[k].reading =>
                  /\ conns'[k] \in Connections /\ conns'[k].viewer = conns[k].viewer
                  /\ conns'[k].reading
                  /\ conns'[k].wire = conns[k].wire /\ conns'[k].after = conns[k].after
  <2>1. CASE k \in ended
    <3>1. PICK c \in Connections : c = conns[k]
      BY <2>1
    <3>2. GoodConnection(c)
      BY <3>1 DEF StreamInv
    <3> QED  BY <1>1, <2>1, <3>1, <3>2, FinishedIsGood
  <2>2. CASE k \notin ended
    BY <1>1, <2>2 DEF StreamInv, StreamTypeOK
  <2> QED  BY <2>1, <2>2
<1>3. ASSUME NEW k \in stream'.subscribers
      PROVE  GoodSubscriber(conns'[k], stream')
  <2>1. k \in Conns
    BY <1>3 DEF Streams
  <2>2. conns'[k] = conns[k] /\ GoodSubscriber(conns[k], stream)
    BY <1>1, <1>3, <2>1 DEF StreamInv
  <2> QED  BY <1>3, <2>2 DEF GoodSubscriber
<1>4. conns' \in [Conns -> Connections \cup {Unserved}]
  <2>1. conns' = [k \in Conns |-> conns'[k]]
    OBVIOUS
  <2> QED  BY <1>2, <2>1
<1>5. StreamMoves
  BY <1>2, <1>3, <1>4 DEF StreamMoves
<1>6. HandsOn
  BY <1>2, SameDebts
<1> QED  BY <1>5, <1>6

\* The one who read the newest id and those who waited for it end.
LEMMA FailInitMoves ==
  ASSUME StreamInv, NEW k \in Conns, FailInit(k)
  PROVE  StreamMoves /\ HandsOn
<1> DEFINE ended == {j \in Conns : j = k \/ conns[j].step = "waiting"}
<1>1. \A j \in ended : conns[j] \in Connections
  BY ServedIs DEF FailInit
<1>2. conns' = [j \in Conns |-> IF j \in ended THEN Finished(conns[j]) ELSE conns[j]]
  BY DEF FailInit
<1>3. stream' = stream /\ stream \in Streams /\ GoodStream(stream)
  BY StreamInvFacts DEF FailInit, StreamInv
<1>4. \A j \in stream.subscribers : j \in Conns /\ j \notin ended
  <2>1. stream.subscribers \subseteq Conns
    BY <1>3 DEF Streams
  <2>2. \A j \in ended : conns[j].step \in {"initializing", "waiting"}
    BY DEF FailInit
  <2> QED  BY <2>1, <2>2, SubscriberStep
<1> HIDE DEF ended
<1>5. ended \in SUBSET Conns
  BY DEF ended
<1> QED  BY <1>1, <1>2, <1>3, <1>4, <1>5, FinishingMoves

\* One that waits and whose viewer has gone ends.
LEMMA CancelWaitMoves ==
  ASSUME StreamInv, NEW k \in Conns, CancelWait(k)
  PROVE  StreamMoves /\ HandsOn
<1>1. /\ conns[k] \in Connections /\ conns[k].step = "waiting" /\ ~conns[k].reading
      /\ conns' = [conns EXCEPT ![k] = Unserved] /\ stream' = stream
  BY ServedIs DEF CancelWait
<1>2. k \notin stream.subscribers
  BY <1>1, SubscriberStep
<1>3. StreamMoves
  BY <1>1, <1>2, NotServed, OneConnectionMoves
<1>4. HandsOn
  BY <1>1, OneHandsOn
<1> QED  BY <1>3, <1>4

\* A handler returns, and the stream is left to the others.
LEMMA ReturnMoves ==
  ASSUME StreamInv, NEW k \in Conns, Return(k)
  PROVE  StreamMoves /\ HandsOn
<1>1. /\ conns[k] \in Connections /\ stream' = Without(stream, {k})
      /\ conns' = [conns EXCEPT ![k] = Finished(conns[k])]
  BY ServedIs DEF Return
<1>2. conns' = [j \in Conns |-> IF j \in {k} THEN Finished(conns[j]) ELSE conns[j]]
  BY <1>1 DEF StreamInv, StreamTypeOK
<1>3. stream \in Streams /\ GoodStream(stream) /\ Facts
  BY StreamInvFacts DEF StreamInv
<1>4. /\ stream' \in Streams /\ GoodStream(stream')
      /\ stream'.subscribers \subseteq stream.subscribers \ {k}
      /\ stream'.subscribers # {} =>
           stream'.cursor = stream.cursor /\ stream'.batch = stream.batch
  BY <1>1, <1>3, WithoutIsGood
<1> QED  BY <1>1, <1>2, <1>4, FinishingMoves

\* Every channel is closed; the handlers go on.
LEMMA FailStreamMoves ==
  ASSUME StreamInv, FailStream
  PROVE  StreamMoves /\ HandsOn
<1>1. conns' = conns /\ stream' = NoStream
  BY DEF FailStream
<1>2. conns' = [k \in Conns |-> IF k \in {} THEN Finished(conns[k]) ELSE conns[k]]
  BY <1>1 DEF StreamInv, StreamTypeOK
<1>3. stream'.subscribers = {}
  BY <1>1 DEF NoStream
<1> QED  BY <1>1, <1>2, <1>3, EmptyStream, FinishingMoves

\* Every handler ends.
LEMMA CrashMoves ==
  ASSUME StreamInv, Crash
  PROVE  StreamMoves /\ HandsOn
<1> DEFINE ended == {k \in Conns : Served(k)}
<1>1. \A k \in ended : conns[k] \in Connections
  BY DEF StreamInv, StreamTypeOK, Served
<1>2. conns' = [k \in Conns |-> IF k \in ended THEN Finished(conns[k]) ELSE conns[k]]
  BY DEF Crash
<1>3. stream' = NoStream /\ stream'.subscribers = {}
  BY DEF Crash, NoStream
<1>4. ended \in SUBSET Conns
  OBVIOUS
<1> HIDE DEF ended
<1> QED  BY <1>1, <1>2, <1>3, <1>4, EmptyStream, FinishingMoves

\* A handler that takes the first delivery of its channel.
LEMMA RelayMoves ==
  ASSUME StreamInv, NEW k \in Conns, Relay(k)
  PROVE  StreamMoves /\ HandsOn
<1>1. PICK c \in Connections : c = conns[k]
  BY ServedIs DEF Relay
<1>2. /\ GoodConnection(c) /\ c.step = "live" /\ c.reading /\ c.queue # <<>>
      /\ k \in stream.subscribers => GoodSubscriber(c, stream)
  BY <1>1, ServedIs DEF Relay, StreamInv
<1>3. /\ c.after \in Nat /\ c.queue \in Seq(Deliveries) /\ c.wire \in Seq(Deliveries)
      /\ c.after <= Len(events) /\ Len(events) \in Nat /\ Facts
  BY <1>2, StreamInvFacts DEF Connections, GoodConnection, Facts
<1>4. PICK d \in Deliveries : d = Head(c.queue)
  BY <1>2, <1>3, Taken
<1>5. PICK rest \in Seq(Deliveries) : rest = Tail(c.queue)
  BY <1>2, <1>3, Taken
<1>6. /\ d.id \in Ledger /\ d.id \in Nat /\ d.id <= Len(events)
      /\ Sorted(rest)
      /\ \A n \in DOMAIN rest : n + 1 \in DOMAIN c.queue /\ rest[n] = c.queue[n + 1]
      /\ \A i \in Ids(c.queue) : (i = d.id \/ i \in Ids(rest)) /\ d.id <= i
  <2>1. Sorted(c.queue) /\ \A n \in DOMAIN c.queue : c.queue[n].id \in Ledger
    BY <1>2 DEF GoodConnection
  <2>2. d.id \in Ledger
    BY <1>2, <1>3, <1>4, <2>1, Taken
  <2>3. d.id \in Nat /\ d.id <= Len(events)
    BY <1>3, <2>2 DEF Ledger
  <2> QED  BY <1>2, <1>3, <1>4, <1>5, <2>1, <2>2, <2>3, Taken
<1> DEFINE unseen == d.id > c.after
           told == unseen /\ Visible(c.viewer, d)
<1>7. PICK w \in Seq(Deliveries) : w = IF told THEN Append(c.wire, d) ELSE c.wire
  <2>1. Append(c.wire, d) \in Seq(Deliveries)
    BY <1>3, <1>4, Appended
  <2> QED  BY <1>3, <2>1
<1>8. PICK m \in Nat : m = IF unseen THEN d.id ELSE c.after
  BY <1>3, <1>6
<1>9. PICK e : e = [c EXCEPT !.queue = rest, !.after = m, !.wire = w]
  OBVIOUS
<1>10. conns' = [conns EXCEPT ![k] = e] /\ stream' = stream
  BY <1>1, <1>4, <1>5, <1>7, <1>8, <1>9 DEF Relay, Unseen
<1>11. /\ e \in Connections /\ e.queue = rest /\ e.read = c.read /\ e.viewer = c.viewer
       /\ e.reading = c.reading /\ e.wire = w /\ e.after = m /\ e.step = "live"
  BY <1>2, <1>9 DEF Connections
<1>12. m >= c.after /\ m >= d.id /\ m <= Len(events) /\ (m = c.after \/ (unseen /\ m = d.id))
  BY <1>3, <1>6, <1>8
<1> HIDE DEF told
<1>13. \A i \in Changes : i \in Nat
  BY <1>3 DEF Facts, Ledger
<1>14. ASSUME NEW i \in Changes, i > m, i \in Ids(c.queue)
       PROVE  i \in Ids(rest)
  BY <1>6, <1>12, <1>13, <1>14
<1>15. /\ \A n \in DOMAIN w : (n \in DOMAIN c.wire /\ w[n] = c.wire[n]) \/ (told /\ w[n] = d)
       /\ Ids(c.wire) \subseteq Ids(w)
       /\ told => d.id \in Ids(w)
  BY <1>3, <1>4, <1>7, Appended
<1>16. GoodConnection(e)
  <2>1. \A n \in DOMAIN c.wire : c.wire[n].id \in Ledger /\ c.wire[n].id <= c.after
    BY <1>2 DEF GoodConnection
  <2>2. Sorted(w)
    <3>1. CASE told
      <4>1. Sorted(c.wire) /\ \A n \in DOMAIN c.wire : c.wire[n].id < d.id
        <5>1. \A n \in DOMAIN c.wire : c.wire[n].id \in Nat
          BY <1>3, <2>1 DEF Ledger
        <5> QED  BY <1>2, <1>3, <1>6, <2>1, <3>1, <5>1 DEF GoodConnection, told
      <4> QED  BY <1>3, <1>4, <1>7, <3>1, <4>1, Appended
    <3>2. CASE ~told
      BY <1>2, <1>7, <3>2 DEF GoodConnection
    <3> QED  BY <3>1, <3>2
  <2>3. \A n \in DOMAIN w : w[n].id \in Ledger /\ w[n].id <= m
    <3> SUFFICES ASSUME NEW n \in DOMAIN w
                 PROVE  w[n].id \in Ledger /\ w[n].id <= m
      OBVIOUS
    <3>1. CASE n \in DOMAIN c.wire /\ w[n] = c.wire[n]
      <4>1. c.wire[n].id \in Ledger /\ c.wire[n].id <= c.after /\ c.wire[n].id \in Nat
        BY <1>3, <2>1, <3>1 DEF Ledger
      <4> QED  BY <1>3, <1>12, <3>1, <4>1
    <3>2. CASE w[n] = d
      BY <1>6, <1>12, <3>2
    <3> QED  BY <1>15, <3>1, <3>2
  <2>4. \A n \in DOMAIN w : Visible(c.viewer, w[n])
    <3>1. \A n \in DOMAIN c.wire : Visible(c.viewer, c.wire[n])
      BY <1>2 DEF GoodConnection
    <3>2. told => Visible(c.viewer, d)
      BY DEF told
    <3> QED  BY <1>15, <3>1, <3>2
  <2>5. \A n \in DOMAIN rest : rest[n].id \in Ledger
    BY <1>2, <1>6 DEF GoodConnection
  <2>6. ASSUME NEW n \in DOMAIN rest, NEW i \in Changes, m < i, i < rest[n].id
        PROVE  i \in Ids(rest)
    <3>1. c.after < i
      BY <1>3, <1>12, <1>13, <2>6
    <3>2. i \in Ids(c.queue)
      BY <1>2, <1>6, <2>6, <3>1 DEF GoodConnection
    <3> QED  BY <1>13, <1>14, <2>6, <3>2
  <2>7. e.after <= Len(events) /\ e.read <= Len(events)
    BY <1>2, <1>11, <1>12 DEF GoodConnection
  <2> QED  BY <1>6, <1>11, <2>2, <2>3, <2>4, <2>5, <2>6, <2>7 DEF GoodConnection
<1>17. k \in stream.subscribers => GoodSubscriber(e, stream)
  <2> SUFFICES ASSUME k \in stream.subscribers
               PROVE  GoodSubscriber(e, stream)
    OBVIOUS
  <2>1. GoodSubscriber(c, stream)
    BY <1>2
  <2>2. ASSUME NEW i \in Changes, i > m
        PROVE  i \in Ids(rest) \/ i \in IdsOf(stream.batch) \/ i > stream.cursor
    <3>1. i > c.after
      BY <1>3, <1>12, <1>13, <2>2
    <3> QED  BY <1>2, <1>14, <2>1, <2>2, <3>1 DEF GoodSubscriber
  <2> QED  BY <1>6, <1>11, <2>1, <2>2 DEF GoodSubscriber
<1>18. ASSUME NEW i \in Changes, i \in Ids(c.wire) \/ i > c.after
       PROVE  i \in Ids(w) \/ i > m
  <2> SUFFICES ASSUME i > c.after, ~(i > m)
               PROVE  i \in Ids(w)
    BY <1>15, <1>18
  <2>1. unseen /\ m = d.id /\ i <= d.id
    BY <1>3, <1>12, <1>13
  <2>2. CASE i = d.id
    <3>1. events[d.id].name \in {"state", "ranking"}
      BY <2>2 DEF Changes
    <3>2. told
      BY <2>1, <3>1 DEF Visible, told
    <3> QED  BY <1>15, <2>2, <3>2
  <2>3. CASE i < d.id
    <3>1. 1 \in DOMAIN c.queue /\ c.queue[1].id = d.id
      BY <1>2, <1>3, <1>4, Taken
    <3>2. i \in Ids(c.queue)
      BY <1>2, <2>3, <3>1 DEF GoodConnection
    <3> QED  BY <1>6, <1>13, <2>3, <3>2
  <2> QED  BY <1>6, <1>13, <2>1, <2>2, <2>3
<1>19. StreamMoves
  BY <1>10, <1>11, <1>16, <1>17, OneConnectionMoves
<1>20. HandsOn
  BY <1>1, <1>10, <1>11, <1>18, OneHandsOn
<1> QED  BY <1>19, <1>20

\* The poller reads a page: its changes move from ahead of it into the batch.
LEMMA PollMoves ==
  ASSUME StreamInv, Poll
  PROVE  StreamMoves /\ HandsOn
<1> DEFINE page == Page(stream.cursor)
           batch == Compact(page)
           last == FS!Max(page)
<1>1. /\ Facts /\ stream \in Streams /\ GoodStream(stream)
      /\ stream.cursor \in Nat /\ Len(events) \in Nat
  BY StreamInvFacts DEF StreamInv, Streams, Facts
<1>2. /\ conns' = conns /\ stream.batch = {} /\ page # {}
      /\ stream' = [stream EXCEPT !.cursor = last, !.batch = batch]
  BY DEF Poll
<1>3. /\ page \subseteq Committed
      /\ \A i \in page : i > stream.cursor
      /\ \A i \in page, j \in Committed : stream.cursor < j /\ j < i => j \in page
  BY <1>1, PageIsPrefix DEF Facts, Ledger
<1>4. page \subseteq 1..Len(events)
  BY <1>1, <1>3 DEF Facts, Ledger
<1> HIDE DEF page
<1>5. \A i \in page : i \in Nat /\ i <= Len(events) /\ i \in Ledger
  <2> TAKE i \in page
  <2>1. i \in 1..Len(events)
    BY <1>4
  <2> QED  BY <1>1, <2>1 DEF Ledger
<1>6. /\ batch \subseteq Deliveries /\ Distinct(batch) /\ IdsOf(batch) \subseteq page
      /\ \A i \in page : events[i].name # "presence" => i \in IdsOf(batch)
  BY <1>1, <1>4, CompactKeepsChanges
<1>7. last \in page /\ \A i \in page : last >= i
  <2>1. page \subseteq Nat /\ \A i \in page : i <= Len(events)
    BY <1>5
  <2> QED  BY <1>1, <1>2, <2>1, GreatestNumber
<1> HIDE DEF batch, last
<1>8. last \in Nat /\ last <= Len(events) /\ last > stream.cursor
  BY <1>3, <1>5, <1>7
<1>9. /\ stream' \in Streams /\ stream'.subscribers = stream.subscribers
      /\ stream'.cursor = last /\ stream'.batch = batch
  BY <1>1, <1>2, <1>6, <1>8 DEF Streams
<1>10. \A d \in batch : d.id \in page /\ d.id \in Nat
  BY <1>5, <1>6 DEF IdsOf
<1>11. GoodStream(stream')
  BY <1>5, <1>6, <1>7, <1>8, <1>9, <1>10 DEF GoodStream
<1>12. \A i \in Changes : i \in Nat /\ i \in Committed /\ events[i].name # "presence"
  BY <1>1 DEF Facts, Ledger
<1>13. ASSUME NEW k \in stream.subscribers
       PROVE  GoodSubscriber(conns[k], stream')
  <2>1. PICK c \in Connections : c = conns[k]
    BY DEF StreamInv, GoodSubscriber
  <2>2. GoodSubscriber(c, stream) /\ \A n \in DOMAIN c.queue : c.queue[n].id \in Nat
    <3>1. GoodSubscriber(c, stream)
      BY <2>1 DEF StreamInv
    <3>2. k \in Conns
      BY <1>1 DEF Streams
    <3>3. GoodConnection(c)
      BY <2>1, <3>2 DEF StreamInv
    <3> QED  BY <1>1, <3>1, <3>3 DEF GoodConnection, Ledger
  <2>3. ASSUME NEW n \in DOMAIN c.queue
        PROVE  c.queue[n].id <= last /\ \A d \in batch : c.queue[n].id < d.id
    <3>1. c.queue[n].id <= stream.cursor /\ c.queue[n].id \in Nat
      BY <2>2 DEF GoodSubscriber
    <3>2. \A d \in batch : d.id > stream.cursor
      BY <1>3, <1>10
    <3> QED  BY <1>1, <1>8, <1>10, <3>1, <3>2
  <2>4. ASSUME c.step = "live", NEW i \in Changes, i > c.after
        PROVE  i \in Ids(c.queue) \/ i \in IdsOf(batch) \/ i > last
    <3>1. i \in Ids(c.queue) \/ i > stream.cursor
      BY <1>2, <2>2, <2>4 DEF GoodSubscriber, IdsOf
    <3>2. CASE i > stream.cursor /\ ~(i > last)
      <4>1. i \in page
        BY <1>3, <1>7, <1>8, <1>12, <3>2
      <4> QED  BY <1>6, <1>12, <4>1
    <3> QED  BY <3>1, <3>2
  <2>5. GoodSubscriber(c, stream')
    BY <1>9, <2>2, <2>3, <2>4 DEF GoodSubscriber
  <2> QED  BY <2>1, <2>5
<1>14. StreamMoves
  BY <1>2, <1>9, <1>11, <1>13 DEF StreamMoves, StreamInv, StreamTypeOK
<1>15. HandsOn
  BY <1>2, SameDebts
<1> QED  BY <1>14, <1>15

\* The poller hands the next delivery of its batch to everybody with room.
LEMMA PublishMoves ==
  ASSUME StreamInv, Publish
  PROVE  StreamMoves /\ HandsOn
<1> DEFINE full == {k \in stream.subscribers : Len(conns[k].queue) >= Buffer}
           served == stream.subscribers \ full
<1>1. /\ Facts /\ stream \in Streams /\ GoodStream(stream)
      /\ stream.cursor \in Nat /\ stream.batch \subseteq Deliveries
      /\ stream.subscribers \subseteq Conns
  BY StreamInvFacts DEF StreamInv, Streams
<1>2. \A i \in Changes : i \in Nat
  BY <1>1 DEF Facts, Ledger
<1>3. PICK d : d = NextOf(stream.batch)
  OBVIOUS
<1>4. d \in stream.batch /\ \A e \in stream.batch : d.id <= e.id
  <2>1. stream.batch # {} /\ IdsOf(stream.batch) \subseteq Nat /\ IdsOf(stream.batch) # {}
    BY <1>1 DEF Publish, IdsOf, Deliveries
  <2>2. PICK i \in IdsOf(stream.batch) : \A j \in IdsOf(stream.batch) : i <= j
    BY <2>1, LeastNumber
  <2>3. \E e \in stream.batch : \A f \in stream.batch : e.id <= f.id
    BY <2>2 DEF IdsOf
  <2> QED  BY <1>3, <2>3 DEF NextOf
<1>5. /\ d \in Deliveries /\ d.id \in Ledger /\ d.id \in Nat /\ d.id <= stream.cursor
      /\ \A e \in stream.batch : e # d => d.id < e.id
  <2>1. d \in Deliveries /\ d.id \in Ledger /\ d.id \in Nat /\ d.id <= stream.cursor
    BY <1>1, <1>4 DEF GoodStream, Deliveries
  <2>2. ASSUME NEW e \in stream.batch, e # d
        PROVE  d.id < e.id
    <3>1. d.id <= e.id /\ d.id # e.id /\ e.id \in Nat
      BY <1>1, <1>4, <2>2 DEF GoodStream, Distinct, Deliveries
    <3> QED  BY <2>1, <3>1
  <2> QED  BY <2>1, <2>2
<1>6. PICK s \in Streams : s = [stream EXCEPT !.batch = @ \ {d}]
  BY <1>1 DEF Streams
<1>7. /\ s.cursor = stream.cursor /\ s.subscribers = stream.subscribers
      /\ s.batch = stream.batch \ {d} /\ GoodStream(s)
  <2>1. /\ s.cursor = stream.cursor /\ s.subscribers = stream.subscribers
        /\ s.batch = stream.batch \ {d}
    BY <1>1, <1>6 DEF Streams
  <2> QED  BY <1>1, <2>1 DEF GoodStream, Distinct
<1>8. stream' = Without(s, full)
  BY <1>3, <1>6 DEF Publish, Dropped
<1>9. /\ \A k \in Conns : k \in served => conns'[k] = [conns[k] EXCEPT !.queue = Append(@, d)]
      /\ \A k \in Conns : k \notin served => conns'[k] = conns[k]
      /\ conns' = [k \in Conns |-> conns'[k]]
  BY <1>3 DEF Publish
<1> HIDE DEF full
<1>10. /\ stream' \in Streams /\ GoodStream(stream') /\ stream'.subscribers \subseteq served
       /\ stream'.subscribers # {} =>
            stream'.cursor = stream.cursor /\ stream'.batch = stream.batch \ {d}
  <2>1. PICK t : t = Without(s, full)
    OBVIOUS
  <2>2. /\ t \in Streams /\ GoodStream(t) /\ t.subscribers \subseteq s.subscribers \ full
        /\ t.subscribers # {} => t.cursor = s.cursor /\ t.batch = s.batch
    BY <1>1, <1>7, <2>1, WithoutIsGood
  <2> QED  BY <1>7, <1>8, <2>1, <2>2
<1> HIDE DEF served
<1>11. ASSUME NEW k \in Conns, k \in served
       PROVE  /\ conns[k] \in Connections /\ conns'[k] \in Connections
              /\ GoodConnection(conns'[k])
              /\ conns'[k].viewer = conns[k].viewer /\ conns'[k].reading = conns[k].reading
              /\ conns'[k].wire = conns[k].wire /\ conns'[k].after = conns[k].after
              /\ stream'.subscribers # {} => GoodSubscriber(conns'[k], stream')
  <2>1. PICK c \in Connections : c = conns[k]
    BY <1>11 DEF StreamInv, GoodSubscriber, served
  <2>2. /\ GoodSubscriber(c, stream) /\ GoodConnection(c) /\ c.queue \in Seq(Deliveries)
        /\ c.step \in {"replaying", "live"}
    BY <1>11, <2>1 DEF StreamInv, GoodSubscriber, served, Connections
  <2>3. \A n \in DOMAIN c.queue : /\ c.queue[n].id \in Ledger /\ c.queue[n].id \in Nat
                                  /\ c.queue[n].id <= stream.cursor /\ c.queue[n].id < d.id
                                  /\ \A e \in stream.batch : c.queue[n].id < e.id
    BY <1>1, <1>4, <2>2 DEF GoodConnection, GoodSubscriber, Ledger
  <2>4. PICK q \in Seq(Deliveries) : q = Append(c.queue, d)
    BY <1>5, <2>2, Appended
  <2>5. /\ Ids(q) = Ids(c.queue) \cup {d.id}
        /\ \A n \in DOMAIN q : (n \in DOMAIN c.queue /\ q[n] = c.queue[n]) \/ q[n] = d
        /\ Sorted(q)
    <3>1. Sorted(c.queue)
      BY <2>2 DEF GoodConnection
    <3> QED  BY <1>5, <2>2, <2>3, <2>4, <3>1, Appended
  <2>6. PICK e \in Connections : e = [c EXCEPT !.queue = q]
    BY DEF Connections
  <2>7. /\ e.after = c.after /\ e.wire = c.wire /\ e.viewer = c.viewer /\ e.read = c.read
        /\ e.queue = q /\ e.step = c.step /\ e.reading = c.reading
    BY <2>6 DEF Connections
  <2>8. conns'[k] = e
    BY <1>9, <1>11, <2>1, <2>4, <2>6
  <2>9. ASSUME c.step = "live", NEW i \in Changes, i > c.after
        PROVE  \/ i \in Ids(q) \/ i \in IdsOf(stream.batch \ {d}) \/ i > stream.cursor
    <3>1. i \in Ids(c.queue) \/ i \in IdsOf(stream.batch) \/ i > stream.cursor
      BY <2>2, <2>9 DEF GoodSubscriber
    <3>2. i \in IdsOf(stream.batch) => i = d.id \/ i \in IdsOf(stream.batch \ {d})
      BY DEF IdsOf
    <3> QED  BY <2>5, <3>1, <3>2
  <2>10. ASSUME c.step = "live", NEW n \in DOMAIN q, NEW i \in Changes, c.after < i, i < q[n].id
         PROVE  i \in Ids(q)
    <3>1. CASE n \in DOMAIN c.queue /\ q[n] = c.queue[n]
      <4>1. i \in Ids(c.queue)
        BY <2>2, <2>10, <3>1 DEF GoodConnection
      <4> QED  BY <2>5, <4>1
    <3>2. CASE q[n] = d
      <4>1. i < d.id /\ i \in Nat /\ c.after \in Nat /\ i > c.after
        BY <1>2, <2>10, <3>2 DEF Connections
      <4>2. i \notin IdsOf(stream.batch) /\ ~(i > stream.cursor)
        BY <1>1, <1>4, <1>5, <4>1 DEF IdsOf
      <4>3. i \notin IdsOf(stream.batch \ {d})
        BY <4>2 DEF IdsOf
      <4> QED  BY <2>9, <2>10, <4>1, <4>2, <4>3
    <3> QED  BY <2>5, <3>1, <3>2
  <2>11. \A n \in DOMAIN q : q[n].id \in Ledger /\ q[n].id <= stream.cursor
    BY <1>5, <2>3, <2>5
  <2>12. GoodConnection(e)
    BY <2>2, <2>5, <2>7, <2>10, <2>11 DEF GoodConnection
  <2>13. \A n \in DOMAIN q, f \in stream.batch \ {d} : q[n].id < f.id
    BY <1>5, <2>3, <2>5
  <2>14. stream'.subscribers # {} => GoodSubscriber(e, stream')
    BY <1>10, <2>2, <2>7, <2>9, <2>11, <2>13 DEF GoodSubscriber
  <2> QED  BY <2>1, <2>7, <2>8, <2>12, <2>14
<1>12. StreamMoves
  <2>1. conns' \in [Conns -> Connections \cup {Unserved}]
    BY <1>9, <1>11 DEF StreamInv, StreamTypeOK
  <2>2. \A k \in Conns : conns'[k] \in Connections => GoodConnection(conns'[k])
    BY <1>9, <1>11 DEF StreamInv
  <2>3. \A k \in stream'.subscribers : k \in Conns /\ k \in served
    BY <1>10 DEF Streams
  <2> QED  BY <1>10, <1>11, <2>1, <2>2, <2>3 DEF StreamMoves
<1>13. HandsOn
  <2>1. ASSUME NEW k \in Conns, conns[k] \in Connections, conns[k].reading
        PROVE  /\ conns'[k] \in Connections
               /\ conns'[k].viewer = conns[k].viewer /\ conns'[k].reading
               /\ conns'[k].wire = conns[k].wire /\ conns'[k].after = conns[k].after
    BY <1>9, <1>11, <2>1
  <2> QED  BY <2>1, SameDebts
<1> QED  BY <1>12, <1>13

-----------------------------------------------------------------------------
(* How steps move the browsers.                                            *)

\* What a step may do to what a browser holds.
Advances(b, n, v) ==
  /\ n.cursor.event >= b.cursor.event /\ n.cursor.version >= b.cursor.version
  /\ role[v] = "participant" => n.shown.session.version >= b.shown.session.version
  /\ b.command.step = "settling" /\ n.command = NoCommand /\ n.missed = "nothing" =>
       n.shown.session.version >= b.command.row.version
AllAdvance == \A v \in Viewers : Advances(browser[v], browser'[v], v)

\* A browser goes on by itself: its stream, if it still reads one, is the same.
Goes(b, n, v) ==
  /\ n \in Browsers /\ GoodBrowser(n, v) /\ Advances(b, n, v)
  /\ n.mode = "open" => b.mode = "open" /\ n.conn = b.conn

\* What the invariant says of one browser.
LEMMA BrowserFacts ==
  ASSUME RuntimeInv, NEW v \in Viewers
  PROVE  /\ browser[v] \in Browsers /\ GoodBrowser(browser[v], v) /\ Linked(browser[v], v)
         /\ StreamInv /\ Facts /\ LedgerOK
         /\ Advances(browser[v], browser[v], v)
<1>1. /\ browser[v] \in Browsers /\ GoodBrowser(browser[v], v) /\ Linked(browser[v], v)
      /\ StreamInv /\ Facts /\ LedgerOK
  BY StreamInvFacts DEF RuntimeInv
<1>2. PICK b \in Browsers : b = browser[v]
  BY <1>1
<1>3. /\ b.cursor.event \in Nat /\ b.cursor.version \in Nat /\ b.shown.session.version \in Nat
  BY DEF Browsers, Cursors, Shown, Rows
<1>4. b.command.step = "settling" => b.command # NoCommand
  BY DEF NoCommand
<1>5. Advances(b, b, v)
  BY <1>3, <1>4 DEF Advances
<1> QED  BY <1>1, <1>2, <1>5

\* Every browser is good and follows a handler that has told it, or will.
LEMMA MovesKeepRuntimeInv ==
  ASSUME RuntimeInv, LedgerOK', LedgerGrows, StreamMoves,
         browser' \in [Viewers -> Browsers],
         \A v \in Viewers : GoodBrowser(browser[v], v)',
         \A v \in Viewers : browser'[v].mode = "open" =>
           LET k == browser'[v].conn
           IN  /\ k \in Conns /\ conns'[k] \in Connections
               /\ conns'[k].viewer = v /\ conns'[k].reading
               /\ Told(browser'[v].cursor, conns'[k])
  PROVE  RuntimeInv'
<1>1. Facts /\ Facts' /\ StreamInv'
  <2>1. StreamInv
    BY DEF RuntimeInv
  <2>2. StreamInv'
    BY <2>1, MovesKeepStreamInv
  <2> QED  BY <2>1, <2>2, LedgerFacts, NextLedgerFacts DEF StreamInv, StreamTypeOK, LedgerOK
<1>2. ASSUME NEW v \in Viewers, browser'[v].mode = "open"
      PROVE  Told(browser[v].cursor, conns[browser[v].conn])'
  <2>1. PICK k \in Conns : k = browser'[v].conn
    BY <1>2
  <2>2. PICK c \in Connections : c = conns'[k]
    BY <1>2, <2>1
  <2>3. PICK cursor : cursor = browser'[v].cursor
    OBVIOUS
  <2>4. GoodConnection(c) /\ Told(cursor, c)
    BY <1>2, <2>1, <2>2, <2>3 DEF StreamMoves
  <2>5. Told(cursor, c)'
    BY <1>1, <2>4, ToldStays
  <2> QED  BY <2>1, <2>2, <2>3, <2>5 DEF Told
<1>3. \A v \in Viewers : Linked(browser[v], v)'
  BY <1>2 DEF Linked, Told, Connections
<1> QED  BY <1>1, <1>3 DEF RuntimeInv

\* After a step the handler serves the viewer, who is told what the cursor has
\* not passed.
NextLinked(cursor, k, v) ==
  /\ k \in Conns /\ conns'[k] \in Connections
  /\ conns'[k].viewer = v /\ conns'[k].reading
  /\ Told(cursor, conns'[k])

\* A browser that is good by the old ledger is good by the new one.
LEMMA GoodBrowserNext ==
  ASSUME RuntimeInv, LedgerOK', LedgerGrows, NEW v \in Viewers, browser'[v] \in Browsers,
         GoodBrowser(browser'[v], v)
  PROVE  GoodBrowser(browser[v], v)'
<1>1. Facts /\ Facts'
  BY LedgerFacts, NextLedgerFacts DEF RuntimeInv, StreamInv, StreamTypeOK, LedgerOK
<1>2. PICK b \in Browsers : b = browser'[v]
  OBVIOUS
<1>3. GoodBrowser(b, v)'
  BY <1>1, <1>2, GoodBrowserStays
<1> QED  BY <1>2, <1>3 DEF GoodBrowser, WillBeShown, Divides

\* A browser whose cursor does not go back stays told while its handler hands on.
LEMMA LinkHandsOn ==
  ASSUME HandsOn, NEW v \in Viewers, NEW b \in Browsers, Linked(b, v), b.mode = "open",
         NEW cursor, cursor.event \in Nat, cursor.event >= b.cursor.event, Facts
  PROVE  NextLinked(cursor, b.conn, v)
<1>1. PICK k \in Conns : k = b.conn
  BY DEF Linked
<1>2. /\ conns[k] \in Connections /\ conns[k].viewer = v /\ conns[k].reading
      /\ Told(b.cursor, conns[k])
  BY <1>1 DEF Linked
<1>3. ASSUME NEW i \in Changes, i > cursor.event
      PROVE  i \in Ids(conns'[k].wire) \/ i > conns'[k].after
  <2>1. i \in Nat /\ b.cursor.event \in Nat
    BY DEF Facts, Ledger, Browsers, Cursors
  <2>2. i > b.cursor.event
    BY <1>3, <2>1
  <2> QED  BY <1>2, <2>2 DEF HandsOn, Told
<1> QED  BY <1>1, <1>2, <1>3 DEF NextLinked, HandsOn, Told

\* A step of the server, which moves no browser.
LEMMA ServerKeepsRuntimeInv ==
  ASSUME RuntimeInv, LedgerOK', LedgerGrows, StreamMoves, HandsOn, browser' = browser
  PROVE  RuntimeInv' /\ AllAdvance
<1>1. \A v \in Viewers : /\ browser[v] \in Browsers /\ GoodBrowser(browser[v], v)
                         /\ Linked(browser[v], v) /\ Facts
                         /\ Advances(browser[v], browser[v], v)
  BY BrowserFacts
<1>2. AllAdvance
  BY <1>1 DEF AllAdvance
<1>3. browser' \in [Viewers -> Browsers]
  BY DEF RuntimeInv
<1>4. \A v \in Viewers : GoodBrowser(browser[v], v)'
  BY <1>1, GoodBrowserNext
<1>5. ASSUME NEW v \in Viewers, browser[v].mode = "open"
      PROVE  NextLinked(browser[v].cursor, browser[v].conn, v)
  <2>1. PICK b \in Browsers : b = browser[v]
    BY <1>1
  <2>2. b.cursor.event \in Nat /\ b.cursor.event >= b.cursor.event
    BY DEF Browsers, Cursors
  <2>3. Linked(b, v) /\ b.mode = "open" /\ Facts
    BY <1>1, <1>5, <2>1
  <2>4. NextLinked(b.cursor, b.conn, v)
    BY <2>2, <2>3, LinkHandsOn
  <2> QED  BY <2>1, <2>4
<1>6. RuntimeInv'
  BY <1>3, <1>4, <1>5, MovesKeepRuntimeInv DEF NextLinked
<1> QED  BY <1>2, <1>6

\* One browser moves, and nothing that the others read.
LEMMA OneBrowserMoves ==
  ASSUME RuntimeInv, LedgerOK', LedgerGrows, StreamMoves,
         NEW v \in Viewers, NEW n \in Browsers, browser' = [browser EXCEPT ![v] = n],
         GoodBrowser(browser[v], v)', Advances(browser[v], n, v),
         n.mode = "open" => NextLinked(n.cursor, n.conn, v),
         \A w \in Viewers \ {v} : browser[w].mode = "open" =>
           conns'[browser[w].conn] = conns[browser[w].conn]
  PROVE  RuntimeInv' /\ AllAdvance
<1>1. \A w \in Viewers : /\ browser[w] \in Browsers /\ GoodBrowser(browser[w], w)
                         /\ Linked(browser[w], w)
                         /\ Advances(browser[w], browser[w], w)
  BY BrowserFacts
<1>2. \A w \in Viewers : browser'[w] = IF w = v THEN n ELSE browser[w]
  BY DEF RuntimeInv
<1>3. AllAdvance
  BY <1>1, <1>2 DEF AllAdvance
<1>4. browser' \in [Viewers -> Browsers]
  BY DEF RuntimeInv
<1>5. ASSUME NEW w \in Viewers
      PROVE  GoodBrowser(browser[w], w)'
  <2>1. CASE w = v
    BY <2>1
  <2>2. CASE w # v
    <3>1. browser'[w] = browser[w]
      BY <1>2, <2>2
    <3> QED  BY <1>1, <3>1, GoodBrowserNext
  <2> QED  BY <2>1, <2>2
<1>6. ASSUME NEW w \in Viewers, browser'[w].mode = "open"
      PROVE  NextLinked(browser'[w].cursor, browser'[w].conn, w)
  <2>1. CASE w = v
    BY <1>2, <1>6, <2>1
  <2>2. CASE w # v
    <3>1. /\ browser'[w] = browser[w] /\ Linked(browser[w], w)
          /\ conns'[browser[w].conn] = conns[browser[w].conn]
      BY <1>1, <1>2, <1>6, <2>2
    <3> QED  BY <1>6, <3>1 DEF Linked, NextLinked
  <2> QED  BY <2>1, <2>2
<1>7. RuntimeInv'
  BY <1>4, <1>5, <1>6, MovesKeepRuntimeInv DEF NextLinked
<1> QED  BY <1>3, <1>7

\* A browser that goes on by itself.
LEMMA GoingKeepsRuntimeInv ==
  ASSUME RuntimeInv, UNCHANGED <<session, events, stream, conns, role>>,
         NEW v \in Viewers, NEW n, browser' = [browser EXCEPT ![v] = n], Goes(browser[v], n, v)
  PROVE  RuntimeInv' /\ AllAdvance
<1>1. StreamInv /\ Facts /\ LedgerOK /\ browser[v] \in Browsers /\ Linked(browser[v], v)
  BY BrowserFacts
<1>2. LedgerOK' /\ LedgerGrows
  BY <1>1, SameLedgerGrows
<1>3. StreamMoves /\ HandsOn
  BY <1>1, QuietStreamMoves
<1>4. n \in Browsers /\ browser'[v] = n
  BY DEF Goes, RuntimeInv
<1>5. GoodBrowser(browser[v], v)'
  BY <1>2, <1>4, GoodBrowserNext DEF Goes
<1>6. ASSUME n.mode = "open"
      PROVE  NextLinked(n.cursor, n.conn, v)
  <2>1. PICK b \in Browsers : b = browser[v]
    BY <1>1
  <2>2. n.cursor.event \in Nat
    BY <1>4 DEF Browsers, Cursors
  <2>3. Linked(b, v) /\ b.mode = "open" /\ n.conn = b.conn /\ n.cursor.event >= b.cursor.event
    BY <1>1, <1>6, <2>1 DEF Goes, Advances
  <2>4. NextLinked(n.cursor, b.conn, v)
    BY <1>1, <1>3, <2>2, <2>3, LinkHandsOn
  <2> QED  BY <2>3, <2>4
<1>7. Advances(browser[v], n, v) /\ conns' = conns
  BY DEF Goes
<1> QED  BY <1>2, <1>3, <1>4, <1>5, <1>6, <1>7, OneBrowserMoves

-----------------------------------------------------------------------------
(* What each step of a browser does to it.                                 *)

\* A refresh that is asked for is asked, or will be once more.
LEMMA RefreshedIs ==
  ASSUME NEW r \in Refreshes
  PROVE  \E s \in Refreshes :
           /\ s = Refreshed(r) /\ s.step # "none"
           /\ s.step = "answered" => r.step = "answered" /\ s.dirty /\ s.snapshot = r.snapshot
<1>1. CASE r.step = "none"
  <2>1. Refreshed(r) = Ask /\ Ask \in Refreshes /\ Ask.step = "asked"
    BY <1>1 DEF Refreshed, Ask, Refreshes
  <2> QED  BY <2>1
<1>2. CASE r.step = "asked"
  <2>1. Refreshed(r) = [r EXCEPT !.dirty = TRUE]
    BY <1>2 DEF Refreshed
  <2>2. r \in [step : {"none", "asked"}, dirty : BOOLEAN]
    BY <1>2 DEF Refreshes
  <2>3. PICK s \in [step : {"none", "asked"}, dirty : BOOLEAN] : s = [r EXCEPT !.dirty = TRUE]
    BY <2>2
  <2>4. s.step = "asked" /\ s \in Refreshes
    BY <1>2, <2>2, <2>3 DEF Refreshes
  <2> QED  BY <2>1, <2>3, <2>4
<1>3. CASE r.step = "answered"
  <2>1. Refreshed(r) = [r EXCEPT !.dirty = TRUE]
    BY <1>3 DEF Refreshed
  <2>2. r \in [step : {"answered"}, dirty : BOOLEAN, snapshot : Views]
    BY <1>3 DEF Refreshes
  <2>3. PICK s \in [step : {"answered"}, dirty : BOOLEAN, snapshot : Views] :
          s = [r EXCEPT !.dirty = TRUE]
    BY <2>2
  <2>4. s.step = "answered" /\ s \in Refreshes /\ s.dirty /\ s.snapshot = r.snapshot
    BY <2>2, <2>3 DEF Refreshes
  <2> QED  BY <1>3, <2>1, <2>3, <2>4
<1> QED  BY <1>1, <1>2, <1>3 DEF Refreshes

\* The types of a browser's parts.
LEMMA Numbers ==
  ASSUME NEW b \in Browsers
  PROVE  /\ b.cursor.event \in Nat /\ b.cursor.version \in Nat
         /\ b.shown.session.version \in Nat /\ b.from \in Nat
         /\ b.refresh \in Refreshes /\ b.command \in Orders /\ b.shown \in Shown
         /\ b.refresh.step = "answered" =>
              /\ b.refresh.snapshot \in Views
              /\ b.refresh.snapshot.last \in Nat
              /\ b.refresh.snapshot.shown \in Shown
              /\ b.refresh.snapshot.shown.session.version \in Nat
         /\ b.command.step \in {"applied", "settling"} => b.command.row \in Rows
         /\ b.command.step = "settling" => b.command # NoCommand
<1>1. /\ b.cursor \in Cursors /\ b.shown \in Shown /\ b.from \in Nat
      /\ b.refresh \in Refreshes /\ b.command \in Orders
  BY DEF Browsers
<1>2. b.refresh.step = "answered" => b.refresh.snapshot \in Views
  BY <1>1 DEF Refreshes
<1>3. b.command.step \in {"applied", "settling"} => b.command.row \in Rows
  BY <1>1 DEF Orders, NoCommand
<1>4. b.command.step = "settling" => b.command # NoCommand
  BY DEF NoCommand
<1> QED  BY <1>1, <1>2, <1>3, <1>4 DEF Cursors, Shown, Views, Rows

\* The same browser but for its refresh, which is under way.
LEMMA AsksIsGood ==
  ASSUME NEW v \in Viewers, NEW b \in Browsers, GoodBrowser(b, v), NEW n \in Browsers,
         n.cursor = b.cursor, n.shown = b.shown, n.command = b.command,
         n.from = b.from, n.conn = b.conn,
         n.mode = b.mode \/ (n.mode = "refreshing" /\ b.mode = "broken"),
         n.refresh.step # "none",
         n.refresh.step = "answered" =>
           /\ b.refresh.step = "answered" /\ n.refresh.dirty
           /\ n.refresh.snapshot = b.refresh.snapshot
  PROVE  Goes(b, n, v)
<1>1. n.refresh.step \in {"asked", "answered"}
  BY Numbers DEF Refreshes
<1>2. WillBeShown(n)
  BY <1>1 DEF GoodBrowser, WillBeShown
<1>3. GoodBrowser(n, v)
  BY <1>1, <1>2 DEF GoodBrowser
<1>4. Advances(b, n, v)
  BY Numbers DEF Advances
<1> QED  BY <1>3, <1>4 DEF Goes

\* A browser that enters asks for its first snapshot.
LEMMA EnterGoes ==
  ASSUME RuntimeInv, NEW v \in Viewers, Enter(v)
  PROVE  RuntimeInv' /\ AllAdvance
<1>1. PICK b \in Browsers : b = browser[v] /\ GoodBrowser(b, v)
  BY BrowserFacts
<1>2. b.mode = "entering" /\ b.refresh = NoRefresh
  BY <1>1 DEF Enter
<1>3. Ask \in Refreshes /\ Ask.step = "asked"
  BY DEF Ask, Refreshes
<1>4. PICK n \in Browsers : n = [b EXCEPT !.refresh = Ask]
  BY <1>3 DEF Browsers
<1>5. /\ n.cursor = b.cursor /\ n.shown = b.shown /\ n.command = b.command
      /\ n.from = b.from /\ n.conn = b.conn /\ n.mode = b.mode /\ n.refresh = Ask
  BY <1>4 DEF Browsers
<1>6. Goes(b, n, v)
  BY <1>1, <1>3, <1>5, AsksIsGood
<1>7. browser' = [browser EXCEPT ![v] = n]
  BY <1>1, <1>4 DEF Enter
<1> QED  BY <1>1, <1>6, <1>7, GoingKeepsRuntimeInv DEF Enter, streamVars

\* A browser that reconnects asks for a snapshot first.
LEMMA ReconnectGoes ==
  ASSUME RuntimeInv, NEW v \in Viewers, Reconnect(v)
  PROVE  RuntimeInv' /\ AllAdvance
<1>1. PICK b \in Browsers : b = browser[v] /\ GoodBrowser(b, v)
  BY BrowserFacts
<1>2. b.mode = "broken" /\ b.refresh \in Refreshes
  BY <1>1, Numbers DEF Reconnect
<1>3. PICK s \in Refreshes :
        /\ s = Refreshed(b.refresh) /\ s.step # "none"
        /\ s.step = "answered" =>
             b.refresh.step = "answered" /\ s.dirty /\ s.snapshot = b.refresh.snapshot
  BY <1>2, RefreshedIs
<1>4. PICK n \in Browsers : n = [b EXCEPT !.mode = "refreshing", !.refresh = s]
  BY DEF Browsers, Modes
<1>5. /\ n.cursor = b.cursor /\ n.shown = b.shown /\ n.command = b.command
      /\ n.from = b.from /\ n.conn = b.conn /\ n.mode = "refreshing" /\ n.refresh = s
  BY <1>4 DEF Browsers
<1>6. Goes(b, n, v)
  BY <1>1, <1>2, <1>3, <1>5, AsksIsGood
<1>7. browser' = [browser EXCEPT ![v] = n]
  BY <1>1, <1>3, <1>4 DEF Reconnect
<1> QED  BY <1>1, <1>6, <1>7, GoingKeepsRuntimeInv DEF Reconnect, streamVars

\* A snapshot has the session's version, and no change is beyond its last event.
LEMMA SnapshotIs ==
  ASSUME RuntimeInv, NEW v \in Viewers
  PROVE  \E s \in Views :
           /\ s = Snapshot(v) /\ Divides(s.last, s.shown.session.version)
           /\ s.shown.session.version = session.version /\ session.version > 0
           /\ role[v] = "participant" => Discreet(s.shown)
<1>1. StreamInv /\ Facts /\ session \in Sessions
  BY BrowserFacts DEF StreamInv, StreamTypeOK
<1>2. /\ LatestEventID \in Nat /\ LatestEventID <= Len(events)
      /\ \A i \in Committed : i <= LatestEventID
  BY <1>1, LatestInLedger
<1>3. /\ session.version \in Nat /\ session.version > 0 /\ session.phase \in Phases
      /\ session.result \in Nat /\ session.joined \in Nat
  BY <1>1 DEF Sessions
<1> DEFINE result == IF role[v] = "manager" \/ session.phase = "revealed"
                     THEN session.result ELSE 0
<1>4. result \in Nat /\ (role[v] = "participant" /\ result # 0 => session.phase = "revealed")
  BY <1>3
<1>5. PICK r \in Rows : r = Public(session)
  BY <1>3 DEF Rows, Public
<1>6. r.version = session.version /\ r.phase = session.phase
  BY <1>5 DEF Public
<1> HIDE DEF result
<1>7. PICK x \in Shown : x = [session |-> r, result |-> result, count |-> session.joined]
  BY <1>3, <1>4 DEF Shown
<1>8. x.session = r /\ x.result = result
  BY <1>7
<1>9. PICK s \in Views : s = [shown |-> x, last |-> LatestEventID]
  BY <1>2 DEF Views
<1>10. s.shown = x /\ s.last = LatestEventID
  BY <1>9
<1>11. s = Snapshot(v)
  BY <1>5, <1>7, <1>9 DEF Snapshot, result
<1>12. ASSUME NEW i \in Changes
       PROVE  ~(i > LatestEventID) /\ events[i].version <= session.version
  <2>1. i \in Committed /\ i \in Ledger /\ i \in Nat
    BY <1>1 DEF Facts, Ledger
  <2> QED  BY <1>1, <1>2, <2>1 DEF StreamInv, LedgerInOrder
<1>13. Divides(LatestEventID, session.version)
  BY <1>2, <1>3, <1>12 DEF Divides
<1>14. role[v] = "participant" => Discreet(x)
  BY <1>4, <1>6, <1>8 DEF Discreet
<1> QED  BY <1>3, <1>6, <1>8, <1>10, <1>11, <1>13, <1>14

\* A refresh that is read has the session as it is, also the row of a command.
LEMMA ReadSnapshotGoes ==
  ASSUME RuntimeInv, NEW v \in Viewers, ReadSnapshot(v)
  PROVE  RuntimeInv' /\ AllAdvance
<1>1. PICK b \in Browsers : b = browser[v] /\ GoodBrowser(b, v)
  BY BrowserFacts
<1>2. PICK s \in Views :
        /\ s = Snapshot(v) /\ Divides(s.last, s.shown.session.version)
        /\ s.shown.session.version = session.version /\ session.version > 0
        /\ role[v] = "participant" => Discreet(s.shown)
  BY SnapshotIs
<1>3. b.refresh.step = "asked" /\ b.refresh.dirty \in BOOLEAN
  <2>1. b.refresh.step = "asked" /\ b.refresh \in Refreshes
    BY <1>1, Numbers DEF ReadSnapshot
  <2> QED  BY <2>1 DEF Refreshes
<1>4. PICK r \in Refreshes : r = [step |-> "answered", dirty |-> b.refresh.dirty, snapshot |-> s]
  BY <1>3 DEF Refreshes
<1>5. r.step = "answered" /\ r.snapshot = s
  BY <1>4
<1>6. PICK n \in Browsers : n = [b EXCEPT !.refresh = r]
  BY DEF Browsers
<1>7. /\ n.cursor = b.cursor /\ n.shown = b.shown /\ n.command = b.command /\ n.missed = b.missed
      /\ n.from = b.from /\ n.conn = b.conn /\ n.mode = b.mode /\ n.refresh = r
  BY <1>6 DEF Browsers
<1>8. browser' = [browser EXCEPT ![v] = n]
  BY <1>1, <1>2, <1>4, <1>6 DEF ReadSnapshot
<1>9. WillBeShown(n)
  <2>1. n.command.step \in {"applied", "settling"} => n.command.row.version <= session.version
    BY <1>1, <1>7 DEF GoodBrowser, WillBeShown
  <2>2. n.command.step = "settling" => n.command.row.version \in Nat
    BY Numbers DEF Rows
  <2>3. session.version \in Nat
    BY BrowserFacts DEF Facts
  <2>4. n.command.step = "settling" =>
          n.refresh.snapshot.shown.session.version >= n.command.row.version
    BY <1>2, <1>5, <1>7, <2>1, <2>2, <2>3
  <2> QED  BY <1>5, <1>7, <2>1, <2>4 DEF WillBeShown
<1>10. GoodBrowser(n, v)
  BY <1>1, <1>2, <1>5, <1>7, <1>9 DEF GoodBrowser
<1>11. Advances(b, n, v)
  BY <1>7, Numbers DEF Advances
<1>12. Goes(b, n, v)
  BY <1>7, <1>10, <1>11 DEF Goes
<1> QED  BY <1>1, <1>8, <1>12, GoingKeepsRuntimeInv DEF ReadSnapshot, streamVars

\* An answer that no event has overtaken is stored; the loop ends only on one
\* that is stored, and was asked for after the command that awaits it.
LEMMA StoreSnapshotGoes ==
  ASSUME RuntimeInv, NEW v \in Viewers, StoreSnapshot(v)
  PROVE  RuntimeInv' /\ AllAdvance
<1>1. PICK b \in Browsers : b = browser[v] /\ GoodBrowser(b, v)
  BY BrowserFacts
<1>2. PICK s \in Views : s = b.refresh.snapshot
  BY <1>1, Numbers DEF StoreSnapshot
<1>3. /\ b.refresh.step = "answered" /\ Divides(s.last, s.shown.session.version)
      /\ s.shown.session.version > 0
      /\ role[v] = "participant" => Discreet(s.shown)
  BY <1>1, <1>2 DEF StoreSnapshot, GoodBrowser
<1>4. /\ s.last \in Nat /\ s.shown \in Shown /\ s.shown.session.version \in Nat
      /\ b.cursor.event \in Nat /\ b.cursor.version \in Nat /\ b.shown.session.version \in Nat
      /\ b.command \in Orders /\ b.refresh.dirty \in BOOLEAN
  <2>1. b.refresh.dirty \in BOOLEAN
    <3>1. b.refresh \in Refreshes
      BY Numbers
    <3> QED  BY <3>1 DEF Refreshes
  <2> QED  BY <2>1, Numbers DEF Views, Shown, Rows
<1> DEFINE ok == Storable(b, s)
           again == Again(b.refresh, ok)
<1>5. PICK cursor \in Cursors :
        cursor = IF ok THEN [event |-> s.last, version |-> s.shown.session.version] ELSE b.cursor
  <2>1. [event |-> s.last, version |-> s.shown.session.version] \in Cursors /\ b.cursor \in Cursors
    BY <1>4 DEF Cursors, Browsers
  <2> QED  BY <2>1
<1>6. PICK x \in Shown : x = IF ok THEN s.shown ELSE b.shown
  BY <1>4, Numbers
<1>7. PICK missed \in {"nothing", "refresh", "command"} :
        missed = IF ok THEN "nothing" ELSE b.missed
  BY DEF Browsers
<1>8. PICK kept \in Browsers :
        kept = [b EXCEPT !.shown = x, !.cursor = cursor, !.missed = missed]
  BY DEF Browsers
<1>9. /\ kept.shown = x /\ kept.cursor = cursor /\ kept.missed = missed
      /\ kept.mode = b.mode /\ kept.from = b.from /\ kept.conn = b.conn
      /\ kept.refresh = b.refresh /\ kept.command = b.command /\ kept.started = b.started
  BY <1>8 DEF Browsers
<1>10. /\ cursor.event \in Nat /\ cursor.version \in Nat /\ x.session.version \in Nat
       /\ cursor.event >= b.cursor.event /\ cursor.version >= b.cursor.version
       /\ ok => cursor.event = s.last /\ cursor.version = s.shown.session.version
       /\ ~ok => cursor = b.cursor
  <2>1. cursor.event \in Nat /\ cursor.version \in Nat /\ x.session.version \in Nat
    BY DEF Cursors, Shown, Rows
  <2>2. CASE ok
    <3>1. cursor.event = s.last /\ cursor.version = s.shown.session.version
      BY <1>5, <2>2
    <3> QED  BY <1>4, <2>1, <2>2, <3>1 DEF Storable
  <2>3. CASE ~ok
    <3>1. cursor = b.cursor
      BY <1>5, <2>3
    <3> HIDE DEF ok
    <3> QED  BY <1>4, <2>1, <2>3, <3>1
  <2> QED  BY <2>1, <2>2, <2>3
<1>11. browser' = [browser EXCEPT ![v] =
         IF again THEN [kept EXCEPT !.refresh = Ask]
         ELSE IF b.mode \in {"entering", "refreshing"} THEN Ready(Settled(kept)) ELSE Settled(kept)]
  <2>1. kept = IF ok
               THEN [b EXCEPT !.shown = s.shown, !.missed = "nothing",
                              !.cursor = [event |-> s.last,
                                          version |-> s.shown.session.version]]
               ELSE b
    <3>1. CASE ok
      BY <1>5, <1>6, <1>7, <1>8, <3>1
    <3>2. CASE ~ok
      <4>1. b = [b EXCEPT !.shown = b.shown, !.cursor = b.cursor, !.missed = b.missed]
        BY DEF Browsers
      <4> QED  BY <1>5, <1>6, <1>7, <1>8, <3>2, <4>1
    <3> QED  BY <3>1, <3>2
  <2>2. browser' = [browser EXCEPT ![v] =
          CASE again -> [kept EXCEPT !.refresh = Ask]
            [] OTHER -> IF b.mode \in {"entering", "refreshing"}
                        THEN Ready(Settled(kept)) ELSE Settled(kept)]
    BY <1>1, <1>2, <2>1 DEF StoreSnapshot
  <2> HIDE DEF again
  <2> QED  BY <2>2
<1> HIDE DEF ok
<1>12. ~again => ok /\ ~b.refresh.dirty
  BY DEF Again
<1> HIDE DEF again
<1>13. Divides(cursor.event, cursor.version)
  BY <1>1, <1>3, <1>10 DEF GoodBrowser
<1>14. ok => x = s.shown /\ missed = "nothing"
  BY <1>6, <1>7
<1>15. ~ok => x = b.shown /\ missed = b.missed
  BY <1>6, <1>7
<1>16. role[v] = "participant" =>
         /\ b.command = NoCommand /\ Discreet(x)
         /\ x.session.version <= cursor.version /\ x.session.version >= b.shown.session.version
  <2>1. CASE ok
    BY <1>1, <1>3, <1>4, <1>10, <1>14, <2>1 DEF GoodBrowser
  <2>2. CASE ~ok
    BY <1>1, <1>4, <1>10, <1>15, <2>2 DEF GoodBrowser
  <2> QED  BY <2>1, <2>2
<1>17. ok => cursor.version > 0
  BY <1>3, <1>10
<1>18. CASE again
  <2>1. Ask \in Refreshes /\ Ask.step = "asked"
    BY DEF Ask, Refreshes
  <2>2. PICK n \in Browsers : n = [kept EXCEPT !.refresh = Ask]
    BY <2>1 DEF Browsers
  <2>3. /\ n.shown = x /\ n.cursor = cursor /\ n.missed = missed /\ n.mode = b.mode
        /\ n.from = b.from /\ n.conn = b.conn /\ n.refresh = Ask /\ n.command = b.command
    BY <1>9, <2>2 DEF Browsers
  <2>4. WillBeShown(n)
    BY <1>1, <2>1, <2>3 DEF GoodBrowser, WillBeShown
  <2>5. n.mode # "entering" => cursor.version > 0
    BY <1>1, <1>10, <1>17, <2>3 DEF GoodBrowser
  <2>6. n.mode = "ready" => n.from <= cursor.event
    BY <1>1, <1>10, <1>4, <2>3, Numbers DEF GoodBrowser
  <2>7. GoodBrowser(n, v)
    BY <1>13, <1>16, <2>1, <2>3, <2>4, <2>5, <2>6 DEF GoodBrowser
  <2>8. Advances(b, n, v)
    BY <1>10, <1>16, <2>3, Numbers DEF Advances
  <2>9. Goes(b, n, v)
    BY <2>3, <2>7, <2>8 DEF Goes
  <2>10. browser' = [browser EXCEPT ![v] = n]
    BY <1>11, <1>18, <2>2
  <2> QED  BY <1>1, <2>9, <2>10, GoingKeepsRuntimeInv DEF StoreSnapshot, streamVars
<1>19. CASE ~again
  <2>1. NoRefresh \in Refreshes /\ NoRefresh.step = "none"
    BY DEF NoRefresh, Refreshes
  <2>2. PICK command \in Orders :
          command = IF b.command.step = "settling" THEN NoCommand ELSE b.command
    BY <1>4 DEF Orders
  <2>3. PICK m \in Browsers : m = [kept EXCEPT !.refresh = NoRefresh, !.command = command]
    BY <2>1 DEF Browsers
  <2>4. /\ m.shown = x /\ m.cursor = cursor /\ m.missed = missed /\ m.mode = b.mode
        /\ m.from = b.from /\ m.conn = b.conn /\ m.refresh = NoRefresh /\ m.command = command
    BY <1>9, <2>3 DEF Browsers
  <2>5. m = Settled(kept)
    BY <1>9, <2>2, <2>3 DEF Settled
  <2>6. Ready(m) = [m EXCEPT !.mode = "ready", !.from = cursor.event]
    BY <2>4 DEF Ready
  <2>7. PICK n \in Browsers : n = IF b.mode \in {"entering", "refreshing"} THEN Ready(m) ELSE m
    BY <1>10, <2>6 DEF Browsers, Modes
  <2>8. /\ n.shown = x /\ n.cursor = cursor /\ n.missed = missed /\ n.conn = b.conn
        /\ n.refresh = NoRefresh /\ n.command = command
        /\ \/ n.mode = "ready" /\ n.from = cursor.event
           \/ n.mode = b.mode /\ n.from = b.from
    BY <2>4, <2>6, <2>7 DEF Browsers
  <2>9. command.step # "settling"
    BY <2>2 DEF NoCommand
  <2>10. WillBeShown(n)
    BY <1>1, <2>2, <2>8, <2>9 DEF GoodBrowser, WillBeShown, NoCommand
  <2>11. n.mode = "ready" => n.from <= cursor.event
    BY <1>1, <1>4, <1>10, <2>8, Numbers DEF GoodBrowser
  <2>12. x.session.version = cursor.version /\ missed = "nothing" /\ cursor.version > 0
    BY <1>10, <1>12, <1>14, <1>17, <1>19
  <2>13. role[v] = "participant" => command = NoCommand
    BY <1>16, <2>2
  <2>14. GoodBrowser(n, v)
    BY <1>10, <1>13, <1>16, <2>1, <2>8, <2>10, <2>11, <2>12, <2>13 DEF GoodBrowser
  <2>15. b.command.step = "settling" => x.session.version >= b.command.row.version
    BY <1>1, <1>2, <1>3, <1>12, <1>14, <1>19 DEF GoodBrowser, WillBeShown
  <2>16. Advances(b, n, v)
    BY <1>10, <1>16, <2>8, <2>15 DEF Advances
  <2>17. n.mode = "open" => b.mode = "open"
    BY <2>8
  <2>18. Goes(b, n, v)
    BY <2>8, <2>14, <2>16, <2>17 DEF Goes
  <2>19. browser' = [browser EXCEPT ![v] = n]
    BY <1>11, <1>19, <2>5, <2>7
  <2> QED  BY <1>1, <2>18, <2>19, GoingKeepsRuntimeInv DEF StoreSnapshot, streamVars
<1> QED  BY <1>18, <1>19

\* A refresh that fails leaves the snapshot, and says so.
LEMMA FailRefreshGoes ==
  ASSUME RuntimeInv, NEW v \in Viewers, FailRefresh(v)
  PROVE  RuntimeInv' /\ AllAdvance
<1>1. PICK b \in Browsers : b = browser[v] /\ GoodBrowser(b, v)
  BY BrowserFacts
<1>2. /\ b.cursor.event \in Nat /\ b.cursor.version \in Nat /\ b.shown.session.version \in Nat
      /\ b.command \in Orders
  BY Numbers
<1>3. NoRefresh \in Refreshes /\ NoRefresh.step = "none"
  BY DEF NoRefresh, Refreshes
<1>4. PICK command \in Orders :
        command = IF b.command.step = "settling" THEN NoCommand ELSE b.command
  BY <1>2 DEF Orders
<1>5. PICK m \in Browsers :
        m = [b EXCEPT !.refresh = NoRefresh, !.command = command, !.missed = "refresh"]
  BY <1>3 DEF Browsers
<1>6. /\ m.shown = b.shown /\ m.cursor = b.cursor /\ m.missed = "refresh" /\ m.mode = b.mode
      /\ m.from = b.from /\ m.conn = b.conn /\ m.refresh = NoRefresh /\ m.command = command
  BY <1>5 DEF Browsers
<1>7. m = [Settled(b) EXCEPT !.missed = "refresh"]
  BY <1>4, <1>5 DEF Settled
<1>8. Ready(m) = [m EXCEPT !.mode = "ready", !.from = b.cursor.event]
  BY <1>6 DEF Ready
<1>9. PICK n \in Browsers : n = IF b.mode = "refreshing" THEN Ready(m) ELSE m
  BY <1>2, <1>8 DEF Browsers, Modes
<1>10. /\ n.shown = b.shown /\ n.cursor = b.cursor /\ n.missed = "refresh" /\ n.conn = b.conn
       /\ n.refresh = NoRefresh /\ n.command = command
       /\ \/ n.mode = "ready" /\ n.from = b.cursor.event /\ b.mode = "refreshing"
          \/ n.mode = b.mode /\ n.from = b.from
  BY <1>6, <1>8, <1>9 DEF Browsers
<1>11. command.step # "settling"
  BY <1>4 DEF NoCommand
<1>12. WillBeShown(n)
  BY <1>1, <1>4, <1>10, <1>11 DEF GoodBrowser, WillBeShown, NoCommand
<1>13. role[v] = "participant" => command = NoCommand
  BY <1>1, <1>4 DEF GoodBrowser
<1>14. n.mode = "ready" => n.from <= b.cursor.event
  BY <1>1, <1>2, <1>10 DEF GoodBrowser
<1>15. GoodBrowser(n, v)
  BY <1>1, <1>3, <1>10, <1>12, <1>13, <1>14 DEF GoodBrowser
<1>16. Advances(b, n, v)
  BY <1>2, <1>10 DEF Advances
<1>17. Goes(b, n, v)
  BY <1>10, <1>15, <1>16 DEF Goes
<1>18. browser' = [browser EXCEPT ![v] = n]
  BY <1>1, <1>6, <1>7, <1>9 DEF FailRefresh
<1> QED  BY <1>1, <1>17, <1>18, GoingKeepsRuntimeInv DEF FailRefresh

\* The same browser but for what only a manager has: the session that it shows
\* and its command, which is new, under way or failed.
LEMMA CommandingIsGood ==
  ASSUME NEW v \in Viewers, NEW b \in Browsers, GoodBrowser(b, v), NEW n \in Browsers,
         role[v] # "participant",
         n.cursor = b.cursor, n.from = b.from, n.conn = b.conn, n.mode = b.mode,
         n.refresh = b.refresh,
         n.command # NoCommand \/ n.missed = "command",
         b.command.step # "settling" \/ n.command = b.command,
         n.command.step # "settling" \/ n.command = b.command,
         n.command.step = "applied" => n.command.row.version <= session.version
  PROVE  Goes(b, n, v)
<1>1. WillBeShown(n)
  BY DEF GoodBrowser, WillBeShown
<1>2. GoodBrowser(n, v)
  BY <1>1 DEF GoodBrowser
<1>3. Advances(b, n, v)
  BY Numbers DEF Advances
<1> QED  BY <1>2, <1>3 DEF Goes

\* Whoever has a command under way is a manager.
LEMMA CommandsAreManagers ==
  ASSUME NEW v \in Viewers, NEW b \in Browsers, GoodBrowser(b, v), b.command # NoCommand
  PROVE  role[v] # "participant"
  BY DEF GoodBrowser

\* A manager sends a command.
LEMMA SendCommandGoes ==
  ASSUME RuntimeInv, NEW v \in Viewers, NEW action \in Actions, SendCommand(v, action)
  PROVE  RuntimeInv' /\ AllAdvance
<1>1. PICK b \in Browsers : b = browser[v] /\ GoodBrowser(b, v)
  BY BrowserFacts
<1>2. /\ role[v] = "manager" /\ b.command = NoCommand
      /\ browser' = [browser EXCEPT ![v].command = Sent(b, action), ![v].started = @ + 1]
  BY <1>1 DEF SendCommand
<1>3. PICK o \in Orders : o = Sent(b, action)
  BY Numbers DEF Sent, Orders
<1>4. o.step = "sent"
  BY <1>3 DEF Sent
<1>5. PICK n \in Browsers : n = [b EXCEPT !.command = o, !.started = @ + 1]
  <2>1. PICK started \in Nat : started = b.started + 1
    BY DEF Browsers
  <2> QED  BY <2>1 DEF Browsers
<1>6. /\ n.shown = b.shown /\ n.cursor = b.cursor /\ n.missed = b.missed /\ n.mode = b.mode
      /\ n.from = b.from /\ n.conn = b.conn /\ n.refresh = b.refresh /\ n.command = o
  BY <1>5 DEF Browsers
<1>7. o # NoCommand /\ b.command.step # "settling"
  BY <1>2, <1>4 DEF NoCommand
<1>8. Goes(b, n, v)
  BY <1>1, <1>2, <1>4, <1>6, <1>7, CommandingIsGood
<1>9. browser' = [browser EXCEPT ![v] = n]
  BY <1>1, <1>2, <1>3, <1>5 DEF RuntimeInv
<1> QED  BY <1>1, <1>8, <1>9, GoingKeepsRuntimeInv DEF SendCommand, streamVars

\* A command that fails is over, and says so.
LEMMA FailCommandGoes ==
  ASSUME RuntimeInv, NEW v \in Viewers, FailCommand(v)
  PROVE  RuntimeInv' /\ AllAdvance
<1>1. PICK b \in Browsers : b = browser[v] /\ GoodBrowser(b, v)
  BY BrowserFacts
<1>2. /\ b.command.step \in {"sent", "applied"}
      /\ browser' = [browser EXCEPT ![v].command = NoCommand, ![v].missed = "command"]
  BY <1>1 DEF FailCommand
<1>3. b.command # NoCommand
  BY <1>2 DEF NoCommand
<1>4. PICK n \in Browsers : n = [b EXCEPT !.command = NoCommand, !.missed = "command"]
  BY DEF Browsers, Orders
<1>5. /\ n.shown = b.shown /\ n.cursor = b.cursor /\ n.missed = "command" /\ n.mode = b.mode
      /\ n.from = b.from /\ n.conn = b.conn /\ n.refresh = b.refresh /\ n.command = NoCommand
  BY <1>4 DEF Browsers
<1>6. role[v] # "participant"
  BY <1>1, <1>3, CommandsAreManagers
<1>7. NoCommand.step = "none"
  BY DEF NoCommand
<1>8. Goes(b, n, v)
  BY <1>1, <1>2, <1>5, <1>6, <1>7, CommandingIsGood
<1>9. browser' = [browser EXCEPT ![v] = n]
  BY <1>1, <1>2, <1>4 DEF RuntimeInv
<1> QED  BY <1>1, <1>8, <1>9, GoingKeepsRuntimeInv DEF FailCommand

\* What is shown once a command is applied: the snapshot it was sent from, with
\* the row it returned.
LEMMA AppliedIs ==
  ASSUME NEW b \in Browsers, b.command.step = "applied"
  PROVE  /\ b.command \in [step : {"applied"}, current : Shown, row : Rows]
         /\ [b.command.current EXCEPT !.session = b.command.row] \in Shown
<1>1. b.command \in [step : {"applied"}, current : Shown, row : Rows]
  BY Numbers DEF Orders, NoCommand
<1>2. b.command.current \in Shown /\ b.command.row \in Rows
  BY <1>1
<1> QED  BY <1>1, <1>2 DEF Shown

\* A command that was applied awaits a refresh asked for after it.
LEMMA FinishCommandGoes ==
  ASSUME RuntimeInv, NEW v \in Viewers, FinishCommand(v)
  PROVE  RuntimeInv' /\ AllAdvance
<1>1. PICK b \in Browsers : b = browser[v] /\ GoodBrowser(b, v)
  BY BrowserFacts
<1>2. b.command.step = "applied"
  BY <1>1 DEF FinishCommand
<1>3. PICK row \in Rows : row = b.command.row
  BY <1>2, Numbers
<1>4. PICK x \in Shown : x = [b.command.current EXCEPT !.session = row]
  BY <1>2, <1>3, AppliedIs
<1>5. PICK s \in Refreshes :
        /\ s = Refreshed(b.refresh) /\ s.step # "none"
        /\ s.step = "answered" =>
             b.refresh.step = "answered" /\ s.dirty /\ s.snapshot = b.refresh.snapshot
  BY Numbers, RefreshedIs
<1>6. PICK o \in Orders : o = [step |-> "settling", row |-> row]
  BY DEF Orders
<1>7. o.step = "settling" /\ o.row = row /\ o # NoCommand
  BY <1>6 DEF NoCommand
<1>8. PICK n \in Browsers : n = [b EXCEPT !.shown = x, !.command = o, !.refresh = s]
  BY DEF Browsers
<1>9. /\ n.shown = x /\ n.cursor = b.cursor /\ n.missed = b.missed /\ n.mode = b.mode
      /\ n.from = b.from /\ n.conn = b.conn /\ n.refresh = s /\ n.command = o
  BY <1>8 DEF Browsers
<1>10. browser' = [browser EXCEPT ![v] = n]
  BY <1>1, <1>3, <1>4, <1>5, <1>6, <1>8 DEF FinishCommand
<1>11. role[v] # "participant"
  <2>1. b.command # NoCommand
    BY <1>2 DEF NoCommand
  <2> QED  BY <1>1, <2>1, CommandsAreManagers
<1>12. WillBeShown(n)
  <2>1. row.version <= session.version
    BY <1>1, <1>2, <1>3 DEF GoodBrowser, WillBeShown
  <2>2. s.step \in {"asked", "answered"}
    BY <1>5 DEF Refreshes
  <2> QED  BY <1>5, <1>7, <1>9, <2>1, <2>2 DEF WillBeShown
<1>13. GoodBrowser(n, v)
  BY <1>1, <1>5, <1>7, <1>9, <1>11, <1>12 DEF GoodBrowser
<1>14. Advances(b, n, v)
  BY <1>2, <1>9, <1>11, Numbers DEF Advances
<1>15. Goes(b, n, v)
  BY <1>9, <1>13, <1>14 DEF Goes
<1> QED  BY <1>1, <1>10, <1>15, GoingKeepsRuntimeInv DEF FinishCommand, streamVars

\* A close is followed by its reveal.
LEMMA ContinueCommandGoes ==
  ASSUME RuntimeInv, NEW v \in Viewers, ContinueCommand(v)
  PROVE  RuntimeInv' /\ AllAdvance
<1>1. PICK b \in Browsers : b = browser[v] /\ GoodBrowser(b, v)
  BY BrowserFacts
<1>2. b.command.step = "applied"
  BY <1>1 DEF ContinueCommand
<1>3. PICK x \in Shown : x = [b.command.current EXCEPT !.session = b.command.row]
  BY <1>2, AppliedIs
<1>4. PICK m \in Browsers : m = [b EXCEPT !.shown = x]
  BY DEF Browsers
<1>5. /\ m.shown = x /\ m.cursor = b.cursor /\ m.missed = b.missed /\ m.mode = b.mode
      /\ m.from = b.from /\ m.conn = b.conn /\ m.refresh = b.refresh
  BY <1>4 DEF Browsers
<1>6. PICK o \in Orders : o = Sent(m, "reveal")
  BY <1>5 DEF Sent, Orders, Actions
<1>7. o.step = "sent" /\ o # NoCommand
  BY <1>6 DEF Sent, NoCommand
<1>8. PICK n \in Browsers : n = [m EXCEPT !.command = o]
  BY DEF Browsers
<1>9. /\ n.cursor = m.cursor /\ n.mode = m.mode /\ n.from = m.from /\ n.conn = m.conn
      /\ n.refresh = m.refresh /\ n.command = o
  BY <1>8 DEF Browsers
<1>10. browser' = [browser EXCEPT ![v] = n]
  BY <1>1, <1>3, <1>4, <1>6, <1>8 DEF ContinueCommand
<1>11. role[v] # "participant"
  <2>1. b.command # NoCommand
    BY <1>2 DEF NoCommand
  <2> QED  BY <1>1, <2>1, CommandsAreManagers
<1>12. Goes(b, n, v)
  BY <1>1, <1>2, <1>5, <1>7, <1>9, <1>11, CommandingIsGood
<1> QED  BY <1>1, <1>10, <1>12, GoingKeepsRuntimeInv DEF ContinueCommand, streamVars

\* A command is applied: the session changes with it.
LEMMA ApplyCommandGoes ==
  ASSUME RuntimeInv, NEW v \in Viewers, ApplyCommand(v)
  PROVE  RuntimeInv' /\ AllAdvance
<1>1. PICK b \in Browsers : b = browser[v] /\ GoodBrowser(b, v) /\ Linked(b, v)
  BY BrowserFacts
<1>2. StreamInv /\ Facts /\ LedgerOK
  BY BrowserFacts
<1>3. b.command.step = "sent" /\ Change(b.command.action)
  BY <1>1 DEF ApplyCommand
<1>4. /\ b.command.current \in Shown /\ b.command.action \in Actions
  <2>1. b.command \in Orders
    BY Numbers
  <2> QED  BY <1>3, <2>1 DEF Orders, NoCommand
<1>5. LedgerOK' /\ LedgerGrows
  BY <1>2, <1>3, <1>4, ChangeGrows
<1>6. StreamMoves /\ HandsOn /\ conns' = conns
  BY <1>2, <1>3, QuietStreamMoves DEF Change
<1>7. session' \in Sessions
  BY <1>5 DEF LedgerOK
<1>8. PICK row \in Rows : row = Public(session') /\ row.version = session'.version
  <2>1. session'.version \in Nat /\ session'.phase \in Phases
    BY <1>7 DEF Sessions
  <2>2. Public(session') \in Rows /\ Public(session').version = session'.version
    BY <2>1 DEF Public, Rows
  <2> QED  BY <2>2
<1>9. PICK o \in Orders : o = [step |-> "applied", current |-> b.command.current, row |-> row]
  BY <1>4 DEF Orders
<1>10. o.step = "applied" /\ o.row = row /\ o # NoCommand
  BY <1>9 DEF NoCommand
<1>11. PICK n \in Browsers : n = [b EXCEPT !.command = o]
  BY DEF Browsers
<1>12. /\ n.shown = b.shown /\ n.cursor = b.cursor /\ n.missed = b.missed /\ n.mode = b.mode
       /\ n.from = b.from /\ n.conn = b.conn /\ n.refresh = b.refresh /\ n.command = o
  BY <1>11 DEF Browsers
<1>13. browser' = [browser EXCEPT ![v] = n] /\ browser'[v] = n
  <2>1. browser' = [browser EXCEPT ![v] = n]
    BY <1>1, <1>8, <1>9, <1>11 DEF ApplyCommand
  <2> QED  BY <2>1 DEF RuntimeInv
<1>14. role[v] # "participant"
  <2>1. b.command # NoCommand
    BY <1>3 DEF NoCommand
  <2> QED  BY <1>1, <2>1, CommandsAreManagers
<1>15. GoodBrowser(browser[v], v)'
  <2>1. Facts'
    BY <1>5, NextLedgerFacts DEF LedgerOK
  <2>2. GoodBrowser(b, v)'
    BY <1>1, <1>2, <1>5, <2>1, GoodBrowserStays
  <2>3. role'[v] # "participant" /\ session'.version \in Nat
    BY <1>5, <1>14, <2>1 DEF LedgerGrows, Facts
  <2>4. WillBeShown(n)'
    BY <1>8, <1>10, <1>12, <2>3 DEF WillBeShown
  <2>5. GoodBrowser(n, v)'
    BY <1>10, <1>12, <2>2, <2>3, <2>4 DEF GoodBrowser
  <2> QED  BY <1>13, <2>5 DEF GoodBrowser, WillBeShown, Divides
<1>16. Advances(b, n, v)
  BY <1>3, <1>12, <1>14, Numbers DEF Advances
<1>17. n.mode = "open" => NextLinked(n.cursor, n.conn, v)
  <2> SUFFICES ASSUME n.mode = "open"
               PROVE  NextLinked(b.cursor, b.conn, v)
    BY <1>12
  <2>1. b.cursor.event \in Nat /\ b.cursor.event >= b.cursor.event
    BY Numbers
  <2> QED  BY <1>1, <1>2, <1>6, <1>12, <2>1, LinkHandsOn
<1> QED  BY <1>1, <1>5, <1>6, <1>13, <1>15, <1>16, <1>17, OneBrowserMoves

\* A browser whose stream begins or ends: the same but for its mode.
LEMMA OnlyModeIsGood ==
  ASSUME NEW v \in Viewers, NEW b \in Browsers, GoodBrowser(b, v), NEW n \in Browsers,
         n.cursor = b.cursor, n.shown = b.shown, n.refresh = b.refresh,
         n.command = b.command, n.missed = b.missed,
         b.mode # "entering", n.mode # "ready"
  PROVE  GoodBrowser(n, v) /\ Advances(b, n, v)
<1>1. WillBeShown(n)
  BY DEF GoodBrowser, WillBeShown
<1>2. GoodBrowser(n, v)
  BY <1>1 DEF GoodBrowser
<1>3. Advances(b, n, v)
  BY Numbers DEF Advances
<1> QED  BY <1>2, <1>3

\* The others read other connections.
LEMMA OthersReadOn ==
  ASSUME RuntimeInv, NEW v \in Viewers, NEW k \in Conns, NEW c,
         conns' = [conns EXCEPT ![k] = c],
         conns[k] \in Connections => conns[k].viewer = v
  PROVE  \A w \in Viewers \ {v} : browser[w].mode = "open" =>
           conns'[browser[w].conn] = conns[browser[w].conn]
<1> SUFFICES ASSUME NEW w \in Viewers \ {v}, browser[w].mode = "open"
             PROVE  conns'[browser[w].conn] = conns[browser[w].conn]
  OBVIOUS
<1>1. /\ browser[w].conn \in Conns /\ conns[browser[w].conn] \in Connections
      /\ conns[browser[w].conn].viewer = w
  BY DEF RuntimeInv, Linked
<1> QED  BY <1>1 DEF RuntimeInv, StreamInv, StreamTypeOK

\* What a viewer has left to read may become less.
LEMMA ShorterWire ==
  ASSUME NEW c \in Connections, NEW d \in Connections, GoodConnection(c),
         d.after = c.after, d.viewer = c.viewer, d.read = c.read,
         d.queue = c.queue, d.step = c.step,
         Sorted(d.wire),
         \A n \in DOMAIN d.wire : \E m \in DOMAIN c.wire : d.wire[n] = c.wire[m]
  PROVE  /\ GoodConnection(d)
         /\ \A s : GoodSubscriber(c, s) => GoodSubscriber(d, s)
<1>1. GoodConnection(d)
  BY DEF GoodConnection
<1>2. ASSUME NEW s, GoodSubscriber(c, s)
      PROVE  GoodSubscriber(d, s)
  BY <1>2 DEF GoodSubscriber
<1> QED  BY <1>1, <1>2

\* A stream is opened at the cursor, or before it.
LEMMA OpenStreamGoes ==
  ASSUME RuntimeInv, NEW v \in Viewers, NEW k \in Conns, OpenStream(v, k)
  PROVE  RuntimeInv' /\ AllAdvance
<1>1. PICK b \in Browsers : b = browser[v] /\ GoodBrowser(b, v)
  BY BrowserFacts
<1>2. StreamInv /\ Facts /\ LedgerOK
  BY BrowserFacts
<1>3. /\ b.mode = "ready" /\ b.from \in Nat /\ b.from <= b.cursor.event
      /\ b.cursor.event \in Nat /\ b.cursor.event <= Len(events) /\ Len(events) \in Nat
  BY <1>1, <1>2, Numbers DEF OpenStream, GoodBrowser, Divides, Facts
<1>4. conns[k] = Unserved /\ UNCHANGED <<session, events, stream, role>>
  BY DEF OpenStream, Accept, Served
<1>5. PICK c \in Connections :
        c = [step |-> "opening", viewer |-> v, after |-> b.from, read |-> 0,
             queue |-> <<>>, wire |-> <<>>, reading |-> TRUE]
  <2>1. <<>> \in Seq(Deliveries)
    OBVIOUS
  <2>2. PICK q \in Seq(Deliveries) : q = <<>>
    BY <2>1
  <2>3. [step |-> "opening", viewer |-> v, after |-> b.from, read |-> 0,
         queue |-> q, wire |-> q, reading |-> TRUE] \in Connections
    BY <1>3 DEF Connections, Steps
  <2> QED  BY <2>2, <2>3
<1>6. /\ c.step = "opening" /\ c.viewer = v /\ c.after = b.from /\ c.read = 0
      /\ c.queue = <<>> /\ c.wire = <<>> /\ c.reading
  BY <1>5
<1>7. conns' = [conns EXCEPT ![k] = c]
  BY <1>1, <1>5 DEF OpenStream, Accept
<1>8. GoodConnection(c)
  <2>1. c.after <= Len(events) /\ c.read <= Len(events)
    BY <1>3, <1>6
  <2>2. DOMAIN c.queue = {} /\ DOMAIN c.wire = {}
    BY <1>6
  <2> QED  BY <1>6, <2>1, <2>2 DEF GoodConnection, Sorted
<1>9. conns[k] \notin Connections /\ k \notin stream.subscribers
  BY <1>2, <1>4, NotServed DEF StreamInv, GoodSubscriber
<1>10. StreamMoves
  BY <1>2, <1>4, <1>7, <1>8, <1>9, OneConnectionMoves
<1>11. LedgerOK' /\ LedgerGrows
  BY <1>2, <1>4, SameLedgerGrows
<1>12. PICK n \in Browsers : n = [b EXCEPT !.mode = "open", !.from = 0, !.conn = k]
  BY DEF Browsers, Modes
<1>13. /\ n.cursor = b.cursor /\ n.shown = b.shown /\ n.refresh = b.refresh
       /\ n.command = b.command /\ n.missed = b.missed /\ n.mode = "open" /\ n.conn = k
  BY <1>12 DEF Browsers
<1>14. browser' = [browser EXCEPT ![v] = n] /\ browser'[v] = n
  <2>1. browser' = [browser EXCEPT ![v] = n]
    BY <1>1, <1>12 DEF OpenStream
  <2> QED  BY <2>1 DEF RuntimeInv
<1>15. GoodBrowser(n, v) /\ Advances(b, n, v)
  BY <1>1, <1>3, <1>13, OnlyModeIsGood
<1>16. GoodBrowser(browser[v], v)'
  BY <1>11, <1>14, <1>15, GoodBrowserNext
<1>17. NextLinked(n.cursor, k, v)
  <2>1. conns'[k] = c
    BY <1>2, <1>7 DEF StreamInv, StreamTypeOK
  <2>2. \A i \in Changes : i > b.cursor.event => i > c.after
    BY <1>2, <1>3, <1>6 DEF Facts, Ledger
  <2> QED  BY <1>6, <1>13, <2>1, <2>2 DEF NextLinked, Told
<1>18. \A w \in Viewers \ {v} : browser[w].mode = "open" =>
         conns'[browser[w].conn] = conns[browser[w].conn]
  BY <1>7, <1>9, OthersReadOn
<1> QED  BY <1>1, <1>10, <1>11, <1>13, <1>14, <1>15, <1>16, <1>17, <1>18, OneBrowserMoves

\* The connection of a browser that no longer reads it.
LEMMA BrokenGoes ==
  ASSUME RuntimeInv, NEW v \in Viewers, browser[v].mode = "open",
         UNCHANGED <<session, events, stream, role>>,
         NEW c \in Connections \cup {Unserved},
         conns' = [conns EXCEPT ![browser[v].conn] = c],
         c \in Connections => GoodConnection(c),
         browser[v].conn \in stream.subscribers => GoodSubscriber(c, stream),
         browser' = [browser EXCEPT ![v] = Broken(@)]
  PROVE  RuntimeInv' /\ AllAdvance
<1>1. PICK b \in Browsers : b = browser[v] /\ GoodBrowser(b, v) /\ Linked(b, v)
  BY BrowserFacts
<1>2. StreamInv /\ Facts /\ LedgerOK
  BY BrowserFacts
<1>3. PICK k \in Conns : k = b.conn /\ conns[k].viewer = v
  BY <1>1 DEF Linked
<1>4. StreamMoves
  BY <1>1, <1>2, <1>3, OneConnectionMoves
<1>5. LedgerOK' /\ LedgerGrows
  BY <1>2, SameLedgerGrows
<1>6. PICK n \in Browsers : n = [b EXCEPT !.mode = "broken", !.conn = 0]
  BY DEF Browsers, Modes
<1>7. /\ n.cursor = b.cursor /\ n.shown = b.shown /\ n.refresh = b.refresh
      /\ n.command = b.command /\ n.missed = b.missed /\ n.mode = "broken"
  BY <1>6 DEF Browsers
<1>8. browser' = [browser EXCEPT ![v] = n] /\ browser'[v] = n
  <2>1. browser' = [browser EXCEPT ![v] = n]
    BY <1>1, <1>6 DEF Broken
  <2> QED  BY <2>1 DEF RuntimeInv
<1>9. GoodBrowser(n, v) /\ Advances(b, n, v)
  BY <1>1, <1>7, OnlyModeIsGood
<1>10. GoodBrowser(browser[v], v)'
  BY <1>5, <1>8, <1>9, GoodBrowserNext
<1>11. \A w \in Viewers \ {v} : browser[w].mode = "open" =>
         conns'[browser[w].conn] = conns[browser[w].conn]
  BY <1>1, <1>3, OthersReadOn
<1> QED  BY <1>1, <1>4, <1>5, <1>7, <1>8, <1>9, <1>10, <1>11, OneBrowserMoves

\* A stream that has ended and was read to its end.
LEMMA EndStreamGoes ==
  ASSUME RuntimeInv, NEW v \in Viewers, EndStream(v)
  PROVE  RuntimeInv' /\ AllAdvance
<1>1. PICK b \in Browsers : b = browser[v] /\ Linked(b, v) /\ StreamInv
  BY BrowserFacts
<1>2. /\ b.mode = "open" /\ b.conn \in Conns /\ conns[b.conn].step = "done"
      /\ conns' = [conns EXCEPT ![b.conn] = Unserved]
  BY <1>1 DEF EndStream, Linked
<1>3. b.conn \notin stream.subscribers
  BY <1>1, <1>2, SubscriberStep
<1> QED  BY <1>1, <1>2, <1>3, NotServed, BrokenGoes DEF EndStream

\* A stream that is lost with what was left to read.
LEMMA LoseStreamGoes ==
  ASSUME RuntimeInv, NEW v \in Viewers, LoseStream(v)
  PROVE  RuntimeInv' /\ AllAdvance
<1>1. PICK b \in Browsers : b = browser[v] /\ Linked(b, v) /\ StreamInv
  BY BrowserFacts
<1>2. b.mode = "open" /\ b.conn \in Conns
  BY <1>1 DEF LoseStream, Linked
<1>3. PICK c \in Connections : c = conns[b.conn] /\ GoodConnection(c)
  BY <1>1, <1>2 DEF Linked, StreamInv
<1>4. CASE c.step = "done"
  <2>1. conns' = [conns EXCEPT ![b.conn] = Unserved]
    BY <1>1, <1>3, <1>4 DEF LoseStream
  <2>2. b.conn \notin stream.subscribers
    BY <1>1, <1>2, <1>3, <1>4, SubscriberStep
  <2> QED  BY <1>1, <1>2, <2>1, <2>2, NotServed, BrokenGoes DEF LoseStream
<1>5. CASE c.step # "done"
  <2>1. <<>> \in Seq(Deliveries)
    OBVIOUS
  <2>2. PICK q \in Seq(Deliveries) : q = <<>>
    BY <2>1
  <2>3. PICK d \in Connections : d = [c EXCEPT !.reading = FALSE, !.wire = q]
    BY DEF Connections
  <2>4. /\ d.after = c.after /\ d.viewer = c.viewer /\ d.read = c.read
        /\ d.queue = c.queue /\ d.step = c.step /\ d.wire = q
    BY <2>3 DEF Connections
  <2>5. Sorted(d.wire) /\ DOMAIN d.wire = {}
    BY <2>2, <2>4 DEF Sorted
  <2>6. GoodConnection(d) /\ \A s : GoodSubscriber(c, s) => GoodSubscriber(d, s)
    BY <1>3, <2>4, <2>5, ShorterWire
  <2>7. conns' = [conns EXCEPT ![b.conn] = d]
    BY <1>1, <1>3, <1>5, <2>2, <2>3 DEF LoseStream
  <2>8. b.conn \in stream.subscribers => GoodSubscriber(d, stream)
    BY <1>1, <1>3, <2>6 DEF StreamInv
  <2> QED  BY <1>1, <1>2, <2>6, <2>7, <2>8, BrokenGoes DEF LoseStream
<1> QED  BY <1>4, <1>5

\* An event that is no change tells a browser of no later version: the state
\* event that announced its version was read before, or is behind the cursor.
LEMMA OnlyChangesRaise ==
  ASSUME StreamInv, NEW c \in Connections, GoodConnection(c), c.wire # <<>>,
         NEW b \in Browsers, Divides(b.cursor.event, b.cursor.version),
         b.cursor.version > 0, Told(b.cursor, c),
         Head(c.wire).id \notin Changes
  PROVE  events[Head(c.wire).id].version <= b.cursor.version
<1>1. PICK d \in Deliveries : d = Head(c.wire)
  BY Taken DEF Connections
<1>2. /\ Facts /\ c.wire \in Seq(Deliveries) /\ c.after \in Nat
      /\ b.cursor.event \in Nat /\ b.cursor.version \in Nat
  BY StreamInvFacts, Numbers DEF Connections
<1>3. /\ 1 \in DOMAIN c.wire /\ d = c.wire[1] /\ Sorted(c.wire)
      /\ \A i \in Ids(c.wire) : d.id <= i
  BY <1>1, <1>2, Taken DEF GoodConnection
<1>4. d.id \in Ledger /\ d.id <= c.after /\ d.id \in Nat
  BY <1>2, <1>3 DEF GoodConnection, Ledger
<1>5. events[d.id].version \in Nat /\ events[d.id].version > 0
  BY <1>2, <1>4 DEF Facts, Events
<1> SUFFICES ASSUME events[d.id].version > b.cursor.version
             PROVE  FALSE
  BY <1>1, <1>2, <1>5
<1>6. events[d.id].version > 1
  BY <1>2, <1>5
<1>7. PICK j \in Ledger : /\ j <= d.id /\ events[j].name = "state"
                          /\ events[j].version = events[d.id].version
  BY <1>4, <1>6 DEF StreamInv, VersionsAreTold, Announced
<1>8. j \in Changes /\ j \in Nat /\ j # d.id
  BY <1>1, <1>2, <1>7 DEF Facts, Ledger
<1>9. CASE j > b.cursor.event
  <2>1. j \in Ids(c.wire) \/ j > c.after
    BY <1>8, <1>9 DEF Told
  <2> QED  BY <1>2, <1>3, <1>4, <1>7, <1>8, <2>1
<1>10. CASE ~(j > b.cursor.event)
  BY <1>2, <1>5, <1>7, <1>8, <1>10 DEF Divides
<1> QED  BY <1>9, <1>10

\* An event is applied, or is behind the cursor and no change.
LEMMA ReceiveGoes ==
  ASSUME RuntimeInv, NEW v \in Viewers, Receive(v)
  PROVE  RuntimeInv' /\ AllAdvance
<1>1. PICK b \in Browsers : b = browser[v] /\ GoodBrowser(b, v) /\ Linked(b, v)
  BY BrowserFacts
<1>2. StreamInv /\ Facts /\ LedgerOK
  BY BrowserFacts
<1>3. b.mode = "open" /\ UNCHANGED <<session, events, stream, role>>
  BY <1>1 DEF Receive
<1>4. PICK k \in Conns : k = b.conn
  BY <1>1, <1>3 DEF Linked
<1>5. PICK c \in Connections : c = conns[k]
  BY <1>1, <1>3, <1>4 DEF Linked
<1>6. /\ GoodConnection(c) /\ c.viewer = v /\ c.reading /\ Told(b.cursor, c) /\ c.wire # <<>>
      /\ c.wire \in Seq(Deliveries) /\ c.after \in Nat
  BY <1>1, <1>2, <1>3, <1>4, <1>5 DEF Linked, StreamInv, Receive, Connections
<1>7. PICK d \in Deliveries : d = Head(c.wire)
  BY <1>6, Taken
<1>8. PICK rest \in Seq(Deliveries) : rest = Tail(c.wire)
  BY <1>6, Taken
<1>9. /\ 1 \in DOMAIN c.wire /\ d = c.wire[1] /\ Sorted(rest)
      /\ \A n \in DOMAIN rest : n + 1 \in DOMAIN c.wire /\ rest[n] = c.wire[n + 1]
      /\ \A i \in Ids(c.wire) : i = d.id \/ i \in Ids(rest)
  BY <1>6, <1>7, <1>8, Taken DEF GoodConnection
<1>10. /\ d.id \in Ledger /\ d.id \in Nat /\ d.id <= Len(events) /\ events[d.id] \in Events
       /\ Visible(v, d)
  <2>1. d.id \in Ledger /\ Visible(v, d)
    BY <1>6, <1>9 DEF GoodConnection
  <2> QED  BY <1>2, <2>1 DEF Facts, Ledger
<1>11. /\ events[d.id].version \in Nat /\ events[d.id].version > 0
       /\ events[d.id].version <= session.version
       /\ b.cursor.event \in Nat /\ b.cursor.version \in Nat /\ b.shown.session.version \in Nat
       /\ b.cursor.version > 0 /\ Divides(b.cursor.event, b.cursor.version)
  <2>1. events[d.id].version \in Nat /\ events[d.id].version > 0
    BY <1>10 DEF Events
  <2>2. events[d.id].version <= session.version
    BY <1>2, <1>10 DEF StreamInv, LedgerInOrder
  <2> QED  BY <1>1, <1>3, <2>1, <2>2, Numbers DEF GoodBrowser
<1>12. PICK e \in Connections : e = [c EXCEPT !.wire = rest]
  BY DEF Connections
<1>13. /\ e.after = c.after /\ e.viewer = c.viewer /\ e.read = c.read /\ e.reading = c.reading
       /\ e.queue = c.queue /\ e.step = c.step /\ e.wire = rest
  BY <1>12 DEF Connections
<1>14. conns' = [conns EXCEPT ![k] = e] /\ conns'[k] = e
  <2>1. conns' = [conns EXCEPT ![k] = e]
    BY <1>1, <1>4, <1>5, <1>8, <1>12 DEF Receive
  <2> QED  BY <1>2, <2>1 DEF StreamInv, StreamTypeOK
<1>15. GoodConnection(e) /\ \A s : GoodSubscriber(c, s) => GoodSubscriber(e, s)
  BY <1>6, <1>9, <1>13, ShorterWire
<1>16. StreamMoves
  <2>1. k \in stream.subscribers => GoodSubscriber(e, stream)
    BY <1>2, <1>5, <1>15 DEF StreamInv
  <2> QED  BY <1>2, <1>3, <1>14, <1>15, <2>1, OneConnectionMoves
<1>17. LedgerOK' /\ LedgerGrows
  BY <1>2, <1>3, SameLedgerGrows
<1>18. \A w \in Viewers \ {v} : browser[w].mode = "open" =>
         conns'[browser[w].conn] = conns[browser[w].conn]
  BY <1>5, <1>6, <1>14, OthersReadOn
<1>19. ASSUME NEW n \in Browsers, browser' = [browser EXCEPT ![v] = n],
              n.conn = k, GoodBrowser(n, v), Advances(b, n, v),
              \A i \in Changes : i > n.cursor.event => i > b.cursor.event /\ i # d.id
       PROVE  RuntimeInv' /\ AllAdvance
  <2>1. browser'[v] = n
    BY <1>19 DEF RuntimeInv
  <2>2. GoodBrowser(browser[v], v)'
    BY <1>17, <1>19, <2>1, GoodBrowserNext
  <2>3. Told(n.cursor, e)
    BY <1>6, <1>9, <1>13, <1>19 DEF Told
  <2>4. NextLinked(n.cursor, n.conn, v)
    BY <1>6, <1>13, <1>14, <1>19, <2>3 DEF NextLinked
  <2> QED  BY <1>1, <1>16, <1>17, <1>18, <1>19, <2>2, <2>4, OneBrowserMoves
<1>20. CASE ~Applies(b.cursor, d)
  <2>1. browser' = [browser EXCEPT ![v] = b]
    BY <1>1, <1>4, <1>5, <1>7, <1>20 DEF Receive
  <2>2. ASSUME NEW i \in Changes, i > b.cursor.event
        PROVE  i # d.id
    <3>1. events[i].version >= b.cursor.version
      BY <1>11, <2>2 DEF Divides
    <3> QED  BY <1>20, <2>2, <3>1 DEF Applies
  <2>3. Advances(b, b, v)
    BY <1>1, BrowserFacts
  <2> QED  BY <1>1, <1>4, <1>19, <2>1, <2>2, <2>3
<1>21. CASE Applies(b.cursor, d)
  <2> DEFINE x == events[d.id]
  <2>1. d.id > b.cursor.event /\ x.version >= b.cursor.version
    BY <1>21 DEF Applies
  <2>2. FS!Max({b.cursor.version, x.version}) = x.version
    <3>1. /\ {b.cursor.version, x.version} \subseteq Nat
          /\ \A y \in {b.cursor.version, x.version} : y <= x.version
      BY <1>11, <2>1
    <3>2. PICK z : z = FS!Max({b.cursor.version, x.version})
      OBVIOUS
    <3>3. z \in {b.cursor.version, x.version} /\ \A y \in {b.cursor.version, x.version} : z >= y
      BY <1>11, <3>1, <3>2, GreatestNumber
    <3>4. z = x.version
      BY <1>11, <2>1, <3>3
    <3> QED  BY <3>2, <3>4
  <2>3. PICK cursor \in Cursors : cursor = [event |-> d.id, version |-> x.version]
    BY <1>10, <1>11 DEF Cursors
  <2>4. cursor.event = d.id /\ cursor.version = x.version
    BY <2>3
  <2>5. PICK m \in Browsers : m = [b EXCEPT !.cursor = cursor]
    BY DEF Browsers
  <2>6. /\ m.cursor = cursor /\ m.shown = b.shown /\ m.refresh = b.refresh /\ m.mode = b.mode
        /\ m.command = b.command /\ m.missed = b.missed /\ m.conn = b.conn /\ m.from = b.from
    BY <2>5 DEF Browsers
  <2>7. browser' = [browser EXCEPT ![v] =
          CASE x.name = "presence" -> [m EXCEPT !.shown.count = @ + d.delta]
            [] x.name = "result"   -> [m EXCEPT !.shown.result = x.version]
            [] OTHER               -> [m EXCEPT !.refresh = Refreshed(@)]]
    <3>1. m = [b EXCEPT !.cursor = [event |-> d.id, version |-> FS!Max({@.version, x.version})]]
      BY <2>2, <2>3, <2>5
    <3> QED  BY <1>1, <1>4, <1>5, <1>7, <1>21, <3>1 DEF Receive, Handled
  <2>8. Divides(d.id, x.version)
    <3>1. ASSUME NEW i \in Changes
          PROVE  IF i > d.id THEN events[i].version >= x.version ELSE events[i].version <= x.version
      <4>1. i \in Ledger /\ i \in Nat /\ events[i].version \in Nat
        BY <1>2 DEF Facts, Ledger, Events
      <4> QED  BY <1>2, <1>10, <1>11, <4>1 DEF StreamInv, LedgerInOrder
    <3> QED  BY <1>10, <1>11, <3>1 DEF Divides
  <2>9. \A i \in Changes : i > d.id => i > b.cursor.event /\ i # d.id
    BY <1>2, <1>10, <1>11, <2>1 DEF Facts, Ledger
  <2>10. x.name \in EventNames
    BY <1>10 DEF Events
  <2> HIDE DEF x
  <2>11. CASE x.name \in {"presence", "result"}
    <3>1. x.version <= b.cursor.version
      <4>1. Head(c.wire).id \notin Changes
        BY <1>7, <2>11 DEF Changes, x
      <4> QED  BY <1>2, <1>6, <1>7, <1>11, <4>1, OnlyChangesRaise DEF x
    <3>2. x.version = b.cursor.version
      BY <1>11, <2>1, <3>1 DEF x
    <3>3. role[v] = "participant" => x.name = "presence"
      BY <1>10, <2>11 DEF Visible, x
    <3>4. PICK y \in Shown :
            /\ y = CASE x.name = "presence" -> [b.shown EXCEPT !.count = @ + d.delta]
                     [] OTHER -> [b.shown EXCEPT !.result = x.version]
            /\ y.session = b.shown.session
            /\ x.name = "presence" => y.result = b.shown.result
      <4>1. b.shown \in Shown /\ d.delta \in Nat /\ x.version \in Nat
        BY <1>11, Numbers DEF Deliveries, x
      <4>2. b.shown.count + d.delta \in Nat
        BY <4>1 DEF Shown
      <4>3. PICK y1 \in Shown : y1 = [b.shown EXCEPT !.count = @ + d.delta]
        BY <4>1, <4>2 DEF Shown
      <4>4. PICK y2 \in Shown : y2 = [b.shown EXCEPT !.result = x.version]
        BY <4>1 DEF Shown
      <4>5. /\ y1.session = b.shown.session /\ y1.result = b.shown.result
            /\ y2.session = b.shown.session
        BY <4>1, <4>3, <4>4 DEF Shown
      <4>6. CASE x.name = "presence"
        BY <4>3, <4>5, <4>6
      <4>7. CASE x.name # "presence"
        BY <4>4, <4>5, <4>7
      <4> QED  BY <4>6, <4>7
    <3>5. PICK n \in Browsers : n = [m EXCEPT !.shown = y]
      BY DEF Browsers
    <3>6. /\ n.cursor = cursor /\ n.shown = y /\ n.refresh = b.refresh /\ n.mode = b.mode
          /\ n.command = b.command /\ n.missed = b.missed /\ n.conn = b.conn /\ n.from = b.from
      BY <2>6, <3>5 DEF Browsers
    <3>7. browser' = [browser EXCEPT ![v] = n]
      <4>1. CASE x.name = "presence"
        BY <2>6, <2>7, <3>4, <3>5, <4>1
      <4>2. CASE x.name = "result"
        BY <2>6, <2>7, <3>4, <3>5, <4>2
      <4> QED  BY <2>11, <4>1, <4>2
    <3>8. WillBeShown(n)
      BY <1>1, <3>6 DEF GoodBrowser, WillBeShown
    <3>9. role[v] = "participant" => Discreet(y)
      BY <1>1, <3>3, <3>4 DEF GoodBrowser, Discreet
    <3>10. GoodBrowser(n, v)
      BY <1>1, <1>3, <1>11, <2>4, <2>8, <3>2, <3>4, <3>6, <3>8, <3>9 DEF GoodBrowser
    <3>11. Advances(b, n, v)
      BY <1>11, <2>1, <2>4, <3>2, <3>4, <3>6, Numbers DEF Advances
    <3>12. n.conn = k
      BY <1>4, <3>6
    <3> QED  BY <1>19, <2>4, <2>9, <3>6, <3>7, <3>10, <3>11, <3>12
  <2>12. CASE x.name \notin {"presence", "result"}
    <3>1. PICK s \in Refreshes :
            /\ s = Refreshed(b.refresh) /\ s.step # "none"
            /\ s.step = "answered" =>
                 b.refresh.step = "answered" /\ s.dirty /\ s.snapshot = b.refresh.snapshot
      BY Numbers, RefreshedIs
    <3>2. PICK n \in Browsers : n = [m EXCEPT !.refresh = s]
      BY DEF Browsers
    <3>3. /\ n.cursor = cursor /\ n.shown = b.shown /\ n.refresh = s /\ n.mode = b.mode
          /\ n.command = b.command /\ n.missed = b.missed /\ n.conn = b.conn /\ n.from = b.from
      BY <2>6, <3>2 DEF Browsers
    <3>4. browser' = [browser EXCEPT ![v] = n]
      BY <2>6, <2>7, <2>12, <3>1, <3>2
    <3>5. s.step \in {"asked", "answered"}
      BY <3>1 DEF Refreshes
    <3>6. WillBeShown(n)
      BY <1>1, <3>1, <3>3, <3>5 DEF GoodBrowser, WillBeShown
    <3>7. x.version >= b.cursor.version /\ x.version \in Nat /\ x.version > 0
      BY <1>11, <2>1 DEF x
    <3>8. role[v] = "participant" => b.shown.session.version <= x.version
      BY <1>1, <1>11, <3>7 DEF GoodBrowser
    <3>9. GoodBrowser(n, v)
      BY <1>1, <1>3, <2>4, <2>8, <3>1, <3>3, <3>6, <3>7, <3>8 DEF GoodBrowser
    <3>10. Advances(b, n, v)
      BY <1>10, <1>11, <2>1, <2>4, <3>3, <3>7, Numbers DEF Advances
    <3>11. n.conn = k
      BY <1>4, <3>3
    <3> QED  BY <1>19, <2>4, <2>9, <3>3, <3>4, <3>9, <3>10, <3>11
  <2> QED  BY <2>11, <2>12
<1> QED  BY <1>20, <1>21

-----------------------------------------------------------------------------
(* The invariant and what it proves.                                       *)

\* The invariant holds when the first viewer arrives.
LEMMA RuntimeInitially ==
  ASSUME Init
  PROVE  RuntimeInv
<1>1. events = <<>> /\ Len(events) = 0 /\ DOMAIN events = {} /\ Ledger = {}
  BY DEF Init, StreamInit, Ledger
<1>2. session \in Sessions /\ session.version = 1
  <2>1. PICK phase \in Starts :
          session = [version |-> 1, phase |-> phase, joined |-> 0,
                     result |-> IF phase \in {"closed", "revealed"} THEN 1 ELSE 0]
    BY DEF Init, StreamInit
  <2>2. phase \in Phases
    BY StreamAssumption DEF Phases
  <2> QED  BY <2>1, <2>2 DEF Sessions
<1>3. events \in Seq(Events)
  <2>1. <<>> \in Seq(Events)
    OBVIOUS
  <2> QED  BY <1>1, <2>1
<1>4. /\ \A k \in Conns : conns[k] = Unserved
      /\ conns \in [Conns -> Connections \cup {Unserved}]
  BY DEF Init, StreamInit
<1>5. stream = NoStream /\ role \in [Viewers -> Roles]
  BY DEF Init, StreamInit
<1>6. /\ stream \in [cursor : Nat, subscribers : SUBSET Conns, batch : SUBSET Deliveries]
      /\ stream.cursor = 0 /\ stream.subscribers = {} /\ stream.batch = {}
  BY <1>5 DEF NoStream
<1>7. StreamInv
  <2>1. StreamTypeOK
    BY <1>2, <1>3, <1>4, <1>5, <1>6 DEF StreamTypeOK
  <2>2. LedgerInOrder /\ VersionsAreTold
    BY <1>1, <1>2 DEF LedgerInOrder, VersionsAreTold
  <2>3. GoodStream(stream)
    BY <1>1, <1>6 DEF GoodStream, Distinct
  <2> QED  BY <1>4, <1>6, <2>1, <2>2, <2>3, NotServed DEF StreamInv
<1>8. PICK x \in Shown : x = NotShown /\ x.session.version = 0 /\ x.result = 0
  <2>1. PICK r \in Rows : r = [version |-> 0, phase |-> "none"]
    BY DEF Rows, Phases
  <2>2. PICK x \in Shown : x = [session |-> r, result |-> 0, count |-> 0]
    BY DEF Shown
  <2> QED  BY <2>1, <2>2 DEF NotShown
<1>9. NoRefresh \in Refreshes /\ NoRefresh.step = "none"
  BY DEF NoRefresh, Refreshes
<1>10. NoCommand \in Orders /\ NoCommand.step = "none"
  BY DEF NoCommand, Orders
<1>11. PICK b \in Browsers :
         b = [mode |-> "entering", from |-> 0, conn |-> 0,
              cursor |-> [event |-> 0, version |-> 0],
              shown |-> x, refresh |-> NoRefresh, command |-> NoCommand,
              missed |-> "nothing", started |-> 0]
  <2>1. [event |-> 0, version |-> 0] \in Cursors
    BY DEF Cursors
  <2> QED  BY <1>9, <1>10, <2>1 DEF Browsers, Modes
<1>12. /\ b.mode = "entering" /\ b.cursor.event = 0 /\ b.cursor.version = 0 /\ b.shown = x
       /\ b.refresh = NoRefresh /\ b.command = NoCommand
  BY <1>11
<1>13. browser = [v \in Viewers |-> b]
  BY <1>8, <1>11 DEF Init
<1>14. Divides(0, 0)
  <2>1. Changes = {}
    BY <1>1 DEF Changes, Committed
  <2> QED  BY <1>1, <1>2, <2>1 DEF Divides
<1>15. ASSUME NEW v \in Viewers
       PROVE  GoodBrowser(b, v) /\ Linked(b, v)
  <2>1. WillBeShown(b)
    BY <1>10, <1>12 DEF WillBeShown
  <2>2. Discreet(x)
    BY <1>8 DEF Discreet
  <2> QED  BY <1>8, <1>9, <1>12, <1>14, <2>1, <2>2 DEF GoodBrowser, Linked
<1>16. /\ browser \in [Viewers -> Browsers]
       /\ \A v \in Viewers : browser[v] = b
  BY <1>13
<1> QED  BY <1>7, <1>15, <1>16 DEF RuntimeInv

\* It is kept by everything the server does by itself.
LEMMA ServerStep ==
  ASSUME RuntimeInv, ServerNext \/ ChangeElsewhere, browser' = browser
  PROVE  RuntimeInv' /\ AllAdvance
<1>1. StreamInv /\ LedgerOK
  BY StreamInvFacts DEF RuntimeInv
<1>2. ASSUME UNCHANGED <<session, events, role>>, StreamMoves /\ HandsOn
      PROVE  RuntimeInv' /\ AllAdvance
  BY <1>1, <1>2, SameLedgerGrows, ServerKeepsRuntimeInv
<1>3. ASSUME UNCHANGED <<stream, conns>>, LedgerOK' /\ LedgerGrows
      PROVE  RuntimeInv' /\ AllAdvance
  BY <1>1, <1>3, QuietStreamMoves, ServerKeepsRuntimeInv
<1>4. CASE BeginJoin
  BY <1>1, <1>3, <1>4, BeginJoinGrows DEF BeginJoin
<1>5. ASSUME NEW i \in DOMAIN events, CommitJoin(i) \/ AbortJoin(i)
      PROVE  RuntimeInv' /\ AllAdvance
  <2>1. UNCHANGED <<stream, conns>>
    BY <1>5 DEF CommitJoin, AbortJoin
  <2> QED  BY <1>1, <1>3, <1>5, <2>1, JoinEndGrows
<1>6. ASSUME NEW k \in Conns, Subscribe(k)
      PROVE  RuntimeInv' /\ AllAdvance
  BY <1>1, <1>2, <1>6, SubscribeMoves DEF Subscribe
<1>7. ASSUME NEW k \in Conns, Install(k)
      PROVE  RuntimeInv' /\ AllAdvance
  BY <1>1, <1>2, <1>7, InstallMoves DEF Install
<1>8. ASSUME NEW k \in Conns, FailInit(k)
      PROVE  RuntimeInv' /\ AllAdvance
  BY <1>1, <1>2, <1>8, FailInitMoves DEF FailInit
<1>9. ASSUME NEW k \in Conns, CancelWait(k)
      PROVE  RuntimeInv' /\ AllAdvance
  BY <1>1, <1>2, <1>9, CancelWaitMoves DEF CancelWait
<1>10. ASSUME NEW k \in Conns, Replay(k)
       PROVE  RuntimeInv' /\ AllAdvance
  BY <1>1, <1>2, <1>10, ReplayMoves DEF Replay
<1>11. ASSUME NEW k \in Conns, Relay(k)
       PROVE  RuntimeInv' /\ AllAdvance
  BY <1>1, <1>2, <1>11, RelayMoves DEF Relay
<1>12. ASSUME NEW k \in Conns, Return(k)
       PROVE  RuntimeInv' /\ AllAdvance
  BY <1>1, <1>2, <1>12, ReturnMoves DEF Return
<1>13. CASE Poll
  BY <1>1, <1>2, <1>13, PollMoves DEF Poll
<1>14. CASE Publish
  BY <1>1, <1>2, <1>14, PublishMoves DEF Publish
<1>15. CASE FailStream
  BY <1>1, <1>2, <1>15, FailStreamMoves DEF FailStream
<1>16. CASE Crash
  BY <1>1, <1>2, <1>16, CrashMoves DEF Crash
<1>17. ASSUME NEW action \in Actions, Change(action)
       PROVE  RuntimeInv' /\ AllAdvance
  BY <1>1, <1>3, <1>17, ChangeGrows DEF Change
<1> QED  BY <1>4, <1>5, <1>6, <1>7, <1>8, <1>9, <1>10, <1>11, <1>12, <1>13, <1>14, <1>15,
            <1>16, <1>17 DEF ServerNext, ChangeElsewhere

\* It is kept by every step, and no step takes back what a browser has.
LEMMA RuntimeNext ==
  ASSUME RuntimeInv, [Next]_vars
  PROVE  RuntimeInv' /\ AllAdvance
<1>1. CASE UNCHANGED vars
  <2>1. StreamInv /\ LedgerOK
    BY StreamInvFacts DEF RuntimeInv
  <2>2. UNCHANGED <<session, events, role>> /\ UNCHANGED <<stream, conns>> /\ browser' = browser
    BY <1>1 DEF vars, streamVars
  <2>3. LedgerOK' /\ LedgerGrows /\ StreamMoves /\ HandsOn
    BY <2>1, <2>2, SameLedgerGrows, QuietStreamMoves
  <2> QED  BY <2>2, <2>3, ServerKeepsRuntimeInv
<1>2. CASE (ServerNext \/ ChangeElsewhere) /\ UNCHANGED browser
  BY <1>2, ServerStep
<1>3. ASSUME NEW v \in Viewers, NEW k \in Conns, OpenStream(v, k)
      PROVE  RuntimeInv' /\ AllAdvance
  BY <1>3, OpenStreamGoes
<1>4. ASSUME NEW v \in Viewers, NEW action \in Actions, SendCommand(v, action)
      PROVE  RuntimeInv' /\ AllAdvance
  BY <1>4, SendCommandGoes
<1>5. ASSUME NEW v \in Viewers,
             Enter(v) \/ ReadSnapshot(v) \/ StoreSnapshot(v) \/ FailRefresh(v)
      PROVE  RuntimeInv' /\ AllAdvance
  BY <1>5, EnterGoes, ReadSnapshotGoes, StoreSnapshotGoes, FailRefreshGoes
<1>6. ASSUME NEW v \in Viewers, Receive(v) \/ EndStream(v) \/ LoseStream(v) \/ Reconnect(v)
      PROVE  RuntimeInv' /\ AllAdvance
  BY <1>6, ReceiveGoes, EndStreamGoes, LoseStreamGoes, ReconnectGoes
<1>7. ASSUME NEW v \in Viewers,
             ApplyCommand(v) \/ FailCommand(v) \/ FinishCommand(v) \/ ContinueCommand(v)
      PROVE  RuntimeInv' /\ AllAdvance
  BY <1>7, ApplyCommandGoes, FailCommandGoes, FinishCommandGoes, ContinueCommandGoes
<1> QED  BY <1>1, <1>2, <1>3, <1>4, <1>5, <1>6, <1>7 DEF Next

\* The inductive invariant of the event stream and its browsers.
THEOREM RuntimeInvariant == Spec => []RuntimeInv
<1>1. Init => RuntimeInv
  BY RuntimeInitially
<1>2. RuntimeInv /\ [Next]_vars => RuntimeInv'
  BY RuntimeNext
<1> QED  BY <1>1, <1>2, PTL DEF Spec

\* A change that an open stream's browser has not passed is on its way, whatever
\* is polled, compacted, dropped, replayed or lost (event_broker.go, http.go).
THEOREM NothingIsLost == Spec => []NothingLost
<1>1. RuntimeInv => NothingLost
  <2> SUFFICES ASSUME RuntimeInv, NEW v \in Viewers, browser[v].mode = "open",
                      NEW i \in Changes, i > browser[v].cursor.event
               PROVE  LET c == conns[browser[v].conn]
                      IN  \/ i \in Ids(c.wire)
                          \/ c.step # "live"
                          \/ /\ i > c.after
                             /\ \/ browser[v].conn \notin stream.subscribers
                                \/ i \in Ids(c.queue)
                                \/ i \in {d.id : d \in stream.batch}
                                \/ i > stream.cursor
    BY DEF NothingLost
  <2>1. PICK k \in Conns : k = browser[v].conn
    BY DEF RuntimeInv, Linked
  <2>2. Told(browser[v].cursor, conns[k])
    BY <2>1 DEF RuntimeInv, Linked
  <2>3. i \in Ids(conns[k].wire) \/ i > conns[k].after
    BY <2>2 DEF Told
  <2>4. k \in stream.subscribers => GoodSubscriber(conns[k], stream)
    BY DEF RuntimeInv, StreamInv
  <2> QED  BY <2>1, <2>3, <2>4 DEF GoodSubscriber, IdsOf
<1> QED  BY <1>1, RuntimeInvariant, PTL

\* A browser with nothing under way and nothing failed shows the newest version it
\* has heard of: LiveRuntime.ts asks again for a refresh that was refused.
THEOREM ShownIsNewest == Spec => []ShownIsNewestHeard
<1>1. RuntimeInv => ShownIsNewestHeard
  BY DEF RuntimeInv, GoodBrowser, ShownIsNewestHeard, NoRefresh
<1> QED  BY <1>1, RuntimeInvariant, PTL

\* No snapshot, replay or live event shows a participant the result of an Activity
\* before its reveal (ParticipantSnapshot, eventVisibleToViewer).
THEOREM ResultsArePrivate == Spec => []ResultsStayPrivate
<1>1. RuntimeInv => ResultsStayPrivate
  BY DEF RuntimeInv, GoodBrowser, Discreet, ResultsStayPrivate
<1> QED  BY <1>1, RuntimeInvariant, PTL

\* No answer or event that arrives late takes a cursor back, or the session that a
\* participant sees (storeSnapshot, shouldApplyLiveEvent).
THEOREM NeverBack == Spec => NeverGoesBack
<1> DEFINE Forward ==
      \A v \in Viewers :
        /\ browser'[v].cursor.event >= browser[v].cursor.event
        /\ browser'[v].cursor.version >= browser[v].cursor.version
        /\ role[v] = "participant" =>
             browser'[v].shown.session.version >= browser[v].shown.session.version
<1>1. RuntimeInv /\ [Next]_vars => [Forward]_vars
  BY RuntimeNext DEF AllAdvance, Advances
<1>2. NeverGoesBack <=> [][Forward]_vars
  BY DEF NeverGoesBack
<1> HIDE DEF Forward
<1> QED  BY <1>1, <1>2, RuntimeInvariant, PTL DEF Spec

\* A refresh read before a manager's command does not hide its result once the
\* command is over (runAction, refreshAuthoritative).
THEOREM CommandResultShown == Spec => CommandShowsItsResult
<1> DEFINE Shows ==
      \A v \in Viewers :
        LET c == browser[v].command
        IN c.step = "settling" /\ browser'[v].command = NoCommand
             /\ browser'[v].missed = "nothing" =>
           browser'[v].shown.session.version >= c.row.version
<1>1. RuntimeInv /\ [Next]_vars => [Shows]_vars
  BY RuntimeNext DEF AllAdvance, Advances
<1>2. CommandShowsItsResult <=> [][Shows]_vars
  BY DEF CommandShowsItsResult
<1> HIDE DEF Shows
<1> QED  BY <1>1, <1>2, RuntimeInvariant, PTL DEF Spec
=============================================================================
