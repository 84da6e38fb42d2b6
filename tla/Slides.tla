------------------------------- MODULE Slides -------------------------------
(***************************************************************************)
(* One presentation and its slides in PostgreSQL, and the editing          *)
(* transactions of presentations/postgres_store.go.                        *)
(*                                                                         *)
(* Creating, replacing and reordering hold the presentation row from their *)
(* first statement to commit, so they exclude each other and each is one   *)
(* step.  DeleteSlide locks the slide row instead and reaches the          *)
(* presentation row last: it is three steps, between which the others      *)
(* commit.  Its uncommitted work is invisible to them, and a statement of  *)
(* theirs that needs one of its rows waits for it while it will wait for   *)
(* the presentation row: the database aborts one of the two.               *)
(***************************************************************************)
EXTENDS Integers, Sequences, FiniteSets

SE == INSTANCE SequencesExt

CONSTANTS
  SlideIds,    \* slide ids; one is given once
  FirstSlides, \* the ids of the initial slides, in order
  Texts,       \* slide definitions (kind and content)
  Music,       \* values of a presentation setting
  Deleters     \* clients whose DeleteSlide may be in progress, one each

ASSUME SlidesAssumption ==
  /\ FirstSlides \in Seq(SlideIds)
  /\ \A i, j \in DOMAIN FirstSlides : FirstSlides[i] = FirstSlides[j] => i = j
  /\ "old" \in Texts /\ "none" \notin Texts /\ "old" \in Music

VARIABLES
  presentation, \* revision and settings of the presentations row
  rows,         \* the slides rows, committed
  deleting,     \* the DeleteSlide transactions in progress
  answered      \* the slides that answers refer to

slideVars == <<presentation, rows, deleting, answered>>

\* No If-Match header; a revision is positive.
NoIfMatch == 0

Unborn == [pos |-> -1, rev |-> 0, text |-> "none"]
Gone   == [pos |-> -1, rev |-> 1, text |-> "none"]
Kept   == {s \in SlideIds : rows[s].pos >= 0}
NoDelete == [step |-> "idle", slide |-> "none", pos |-> -1, moved |-> {}]

SlidesInit ==
  /\ presentation = [rev |-> 1, music |-> "old"]
  /\ rows = [s \in SlideIds |->
       IF s \in SE!ToSet(FirstSlides)
       THEN [pos |-> CHOOSE i \in 0..Len(FirstSlides) - 1 : FirstSlides[i + 1] = s,
             rev |-> 1, text |-> "old"]
       ELSE Unborn]
  /\ deleting = [d \in Deleters |-> NoDelete]
  /\ answered = {}

\* ORDER BY position.
InOrder(S) ==
  LET place(s) == Cardinality({x \in S : rows[x].pos <= rows[s].pos})
  IN [n \in 1..Cardinality(S) |-> CHOOSE s \in S : place(s) = n]

Stale(expected, revision) == expected \notin {NoIfMatch, revision}
-----------------------------------------------------------------------------
(* Row locks.                                                              *)

Held(d) == CASE deleting[d].step = "found"   -> {deleting[d].slide}
             [] deleting[d].step = "shifted" -> {deleting[d].slide} \cup deleting[d].moved
             [] OTHER -> {}

Holders(S) == {d \in Deleters : Held(d) \cap S # {}}

Aborted(D) == [d \in Deleters |->
                 IF d \in D THEN [NoDelete EXCEPT !.step = "aborted"] ELSE deleting[d]]

Bug_WritesWithoutBump(S, result) ==
  /\ rows' = result
  /\ presentation' = presentation
  /\ deleting' = Aborted(Holders(S))

\* A transaction that holds the presentation row writes the slide rows S: a
\* delete that holds one of them is the deadlock's other party and its victim.
Write(S, result) ==
  /\ rows' = result
  /\ presentation' = [presentation EXCEPT !.rev = @ + 1]
  /\ deleting' = Aborted(Holders(S))

\* Nothing is written: refused, or (outcome "failed") the deadlock's victim.
Refuse == UNCHANGED <<presentation, rows, deleting>>

\* The outcome of a transaction that passes its checks and touches S.
Victim(S, outcome) == outcome = "failed" /\ Holders(S) # {} /\ Refuse
-----------------------------------------------------------------------------
(* The transactions.  outcome is the handler's answer; "conflict" is       *)
(* edit_conflict, "results" is slide_has_results.                          *)

From(pos) == {s \in Kept : rows[s].pos >= pos}

CreateSlide(s, pos, text, expected, outcome) ==
  /\ UNCHANGED answered
  /\ rows[s] = Unborn
  /\ \/ outcome = "conflict" /\ Stale(expected, presentation.rev) /\ Refuse
     \/ /\ ~Stale(expected, presentation.rev)
        /\ \/ outcome = "invalid" /\ pos \notin 0..Cardinality(Kept) /\ Refuse
           \/ /\ pos \in 0..Cardinality(Kept)
              /\ \/ Victim(From(pos), outcome)
                 \/ /\ outcome = "ok"
                    /\ Write(From(pos),
                         [x \in SlideIds |->
                            IF x = s THEN [pos |-> pos, rev |-> 1, text |-> text]
                            ELSE IF x \in From(pos)
                            THEN [rows[x] EXCEPT !.pos = @ + 1, !.rev = @ + 1]
                            ELSE rows[x]])

\* Every slide is put at its index; a moved one gets a new revision.
Replaced(s, pos, text) ==
  LET order == SE!InsertAt(InOrder(Kept \ {s}), pos + 1, s)
      place(x) == (CHOOSE i \in DOMAIN order : order[i] = x) - 1
  IN [x \in SlideIds |->
        IF x = s THEN [pos |-> pos, rev |-> rows[s].rev + 1, text |-> text]
        ELSE IF x \in Kept /\ place(x) # rows[x].pos
        THEN [rows[x] EXCEPT !.pos = place(x), !.rev = @ + 1]
        ELSE rows[x]]

\* The definition of a slide with answers may not change; its place may.
ChangesAnswered(s, text) == s \in answered /\ rows[s].text # text

Bug_StaleSlideAccepted(s, expected) == FALSE
StaleSlide(s, expected) == Stale(expected, rows[s].rev)

ReplaceSlide(s, pos, text, expected, outcome) ==
  /\ UNCHANGED answered
  /\ \/ outcome = "not_found" /\ s \notin Kept /\ Refuse
     \/ /\ s \in Kept
        /\ \/ Victim(Kept, outcome)
           \/ outcome = "conflict" /\ StaleSlide(s, expected) /\ Refuse
           \/ /\ ~StaleSlide(s, expected)
              /\ \/ outcome = "results" /\ ChangesAnswered(s, text) /\ Refuse
                 \/ /\ ~ChangesAnswered(s, text)
                    /\ \/ /\ outcome = "invalid"
                          /\ pos \notin 0..Cardinality(Kept) - 1 /\ Refuse
                       \/ /\ outcome = "ok"
                          /\ pos \in 0..Cardinality(Kept) - 1
                          /\ Write(Kept, Replaced(s, pos, text))

Bug_MovesQuietly(order) ==
  [x \in SlideIds |->
     IF x \in Kept
     THEN [rows[x] EXCEPT !.pos = (CHOOSE i \in DOMAIN order : order[i] = x) - 1]
     ELSE rows[x]]

Reordered(order) ==
  [x \in SlideIds |->
     IF x \in Kept
     THEN [rows[x] EXCEPT !.pos = (CHOOSE i \in DOMAIN order : order[i] = x) - 1,
                          !.rev = @ + 1]
     ELSE rows[x]]

ReorderSlides(order, expected, outcome) ==
  /\ UNCHANGED answered
  /\ \/ outcome = "conflict" /\ Stale(expected, presentation.rev) /\ Refuse
     \/ /\ ~Stale(expected, presentation.rev)
        /\ \/ outcome = "not_found" /\ SE!ToSet(order) # Kept /\ Refuse
           \/ /\ SE!ToSet(order) = Kept
              /\ \/ Victim(Kept, outcome)
                 \/ outcome = "ok" /\ Write(Kept, Reordered(order))

\* Update: one statement, on the presentation row alone.
UpdateSetting(value, expected, outcome) ==
  /\ UNCHANGED <<rows, deleting, answered>>
  /\ \/ /\ outcome = "conflict" /\ Stale(expected, presentation.rev)
        /\ UNCHANGED presentation
     \/ /\ outcome = "ok" /\ ~Stale(expected, presentation.rev)
        /\ presentation' = [rev |-> presentation.rev + 1, music |-> value]
-----------------------------------------------------------------------------
(* DeleteSlide.                                                            *)

\* SELECT ... FOR UPDATE OF sl, the revision and the answers, then the DELETE.
FindDoomed(d, s, expected, outcome) ==
  /\ UNCHANGED <<presentation, rows, answered>>
  /\ deleting[d].step = "idle"
  /\ Holders({s}) = {}
  /\ \/ outcome = "not_found" /\ s \notin Kept /\ UNCHANGED deleting
     \/ /\ s \in Kept
        /\ \/ outcome = "conflict" /\ StaleSlide(s, expected) /\ UNCHANGED deleting
           \/ /\ ~StaleSlide(s, expected)
              /\ \/ outcome = "results" /\ s \in answered /\ UNCHANGED deleting
                 \/ /\ outcome = "pending" /\ s \notin answered
                    /\ deleting' = [deleting EXCEPT ![d] =
                         [step |-> "found", slide |-> s, pos |-> rows[s].pos,
                          moved |-> {}]]

\* The two UPDATEs that close the gap take the rows above.
ShiftAbove(d) ==
  LET above == From(deleting[d].pos + 1)
  IN /\ deleting[d].step = "found"
     /\ Holders(above) \subseteq {d}
     /\ deleting' = [deleting EXCEPT ![d].step = "shifted", ![d].moved = above]
     /\ UNCHANGED <<presentation, rows, answered>>

\* The presentation's revision, and the commit.
CommitDelete(d) ==
  LET t == deleting[d]
  IN /\ t.step = "shifted"
     /\ rows' = [x \in SlideIds |->
          IF x = t.slide THEN Gone
          ELSE IF x \in t.moved THEN [rows[x] EXCEPT !.pos = @ - 1, !.rev = @ + 1]
          ELSE rows[x]]
     /\ presentation' = [presentation EXCEPT !.rev = @ + 1]
     /\ deleting' = [deleting EXCEPT ![d] = [NoDelete EXCEPT !.step = "committed"]]
     /\ UNCHANGED answered

\* A statement fails: a lost connection, or a deadlock of two deletes.
AbortDelete(d) ==
  /\ deleting[d].step \in {"found", "shifted"}
  /\ deleting' = Aborted({d})
  /\ UNCHANGED <<presentation, rows, answered>>
-----------------------------------------------------------------------------
Bug_IgnoresRowLock(s) == s \in Kept
\* The foreign key of an answer locks the slide row FOR KEY SHARE.
Answerable(s) == s \in Kept /\ Holders({s}) = {}

\* A live session on these slides accepts an answer to one of them.
AnswerSlide(s) ==
  /\ Answerable(s)
  /\ answered' = answered \cup {s}
  /\ UNCHANGED <<presentation, rows, deleting>>

\* DeleteResults, or a deleted session: the answers go with their sessions.
DeleteResults ==
  /\ answered # {}
  /\ answered' = {}
  /\ UNCHANGED <<presentation, rows, deleting>>
-----------------------------------------------------------------------------
\* A slide that participants have answered keeps its definition and is not
\* deleted until the results are: neither a check that ran before an answer
\* arrived nor an edit in between gets past the row locks.
AnsweredSlidesStand ==
  [][\A s \in answered : rows'[s].text = rows[s].text]_slideVars
=============================================================================
