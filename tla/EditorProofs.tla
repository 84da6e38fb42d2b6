---------------------------- MODULE EditorProofs ----------------------------
(***************************************************************************)
(* For any slides, settings, clients and numbers of calls: what the editor *)
(* believes of a presentation at a revision is what the server has stored  *)
(* at that revision.                                                       *)
(*                                                                         *)
(* None of the four properties is inductive.  SlidesInv adds what a delete *)
(* in progress holds: its slide has no answers and keeps its place, and    *)
(* the rows it took are the top ones, but for slides appended since.       *)
(* EditorInv adds that everything the tab keeps is true: every record it   *)
(* has of a slide, in the presentation it shows or loads, in a draft, in a *)
(* call or in what the reply to an accepted call will show, has the        *)
(* definition of the slide's stored revision, if it has that revision, and *)
(* its place; and a presentation at the stored revision has exactly the    *)
(* stored slides.  Where the tab guesses it adds one to a revision, and    *)
(* the server, which has accepted the change, added at least as much: a    *)
(* guess that equals the stored revision knows every change before it.     *)
(***************************************************************************)
EXTENDS Editor, FiniteSetTheorems, TLAPS

-----------------------------------------------------------------------------
(* The slides.                                                             *)

RowsAreSlides ==
  /\ presentation \in [rev : Nat \ {0}, music : Music]
  /\ rows \in [SlideIds -> [pos : Nat \cup {-1}, rev : Nat, text : Texts \cup {"none"}]]
  /\ \A s \in SlideIds : s \notin Kept => rows[s] \in {Unborn, Gone}
  /\ \A s \in Kept : rows[s].rev >= 1 /\ rows[s].text \in Texts
  /\ IsFiniteSet(Kept)
  /\ \A s, x \in Kept : rows[s].pos = rows[x].pos => s = x
  /\ answered \subseteq Kept

Deleting(d) == deleting[d].step \in {"found", "shifted"}

\* What a delete in progress holds stays as it found it, and what it moved is
\* all there is above its slide, or was appended above that since.
DeleteHolds(d) ==
  LET t == deleting[d]
  IN /\ Deleting(d) => /\ t.slide \in Kept \ answered
                       /\ t.pos = rows[t.slide].pos
     /\ t.step = "shifted" =>
          /\ t.moved \subseteq Kept
          /\ \A m \in t.moved : t.pos < rows[m].pos
          /\ \A x \in Kept \ t.moved, m \in t.moved : t.pos < rows[x].pos => rows[m].pos < rows[x].pos

DeletesHold ==
  /\ deleting \in [Deleters -> [step : {"idle", "found", "shifted", "committed", "aborted"},
                                slide : SlideIds \cup {"none"}, pos : Int,
                                moved : SUBSET SlideIds]]
  /\ \A d \in Deleters : DeleteHolds(d)
  /\ \A d, e \in Deleters : d # e => Held(d) \cap Held(e) = {}

SlidesInv == RowsAreSlides /\ DeletesHold

-----------------------------------------------------------------------------
(* The tab.                                                                *)
SlideRecords == [id : SlideIds, order : Int, rev : Nat, text : Texts]
Views == [rev : Nat, music : Music, slides : Seq(SlideRecords)]
Pairs(slides) == {<<slides[i].id, slides[i].text>> : i \in DOMAIN slides}
StoredPairs == {<<s, rows[s].text>> : s \in Kept}

SoundIsTrue(rev, sound) ==
  /\ 1 <= rev /\ rev <= presentation.rev
  /\ rev = presentation.rev => sound = presentation.music

SlideIsTrue(id, rev, text) ==
  /\ 1 <= rev /\ rows[id] # Unborn
  /\ id \in Kept => /\ rev <= rows[id].rev
                    /\ rev = rows[id].rev => text = rows[id].text
PlaceIsTrue(id, rev, order) ==
  id \in Kept /\ rev = rows[id].rev => order = rows[id].pos

SlidesAreTrue(slides) ==
  /\ \A i \in DOMAIN slides : SlideIsTrue(slides[i].id, slides[i].rev, slides[i].text)
  /\ \A i, j \in DOMAIN slides : slides[i].id = slides[j].id => i = j
PlacesAreTrue(slides) ==
  \A i \in DOMAIN slides : PlaceIsTrue(slides[i].id, slides[i].rev, slides[i].order)

\* A view vouches only for what is stored.
ViewIsTrue(v) ==
  /\ v \in Views
  /\ SoundIsTrue(v.rev, v.music)
  /\ v.rev = presentation.rev => Pairs(v.slides) = StoredPairs
  /\ SlidesAreTrue(v.slides) /\ PlacesAreTrue(v.slides)

FetchIsTrue(f) ==
  /\ f \in [step : {"none", "asked", "head", "read", "interrupted"}, shows : BOOLEAN, view : Views]
  /\ f.step = "head" => f.view.slides = <<>> /\ SoundIsTrue(f.view.rev, f.view.music)
  /\ f.step = "read" => ViewIsTrue(f.view)

DraftIsTrue(d) ==
  /\ d.kind = "content" =>
       /\ d \in [kind : {"content"}, id : SlideIds, rev : Nat, order : Int, base : Texts,
                 text : Texts, conflict : BOOLEAN]
       /\ SlideIsTrue(d.id, d.rev, d.base)
       /\ PlaceIsTrue(d.id, d.rev, d.order)
  /\ d.kind = "sound" =>
       /\ d \in [kind : {"sound"}, rev : Nat, base : Music, text : Music, conflict : BOOLEAN]
       /\ SoundIsTrue(d.rev, d.base)
  /\ d.kind \in {"content", "sound"} \/ d = NoDraft

\* What the handler of an accepted call will show.
Replacement(c) == [id |-> c.id, order |-> c.order, rev |-> c.rev, text |-> c.text]
Creation(c) == [id |-> c.id, order |-> c.order, rev |-> 1, text |-> c.text]
Reordering(c) ==
  [c.seen EXCEPT !.rev = @ + 1,
     !.slides = [i \in DOMAIN c.slides |-> [c.slides[i] EXCEPT !.rev = @ + 1]]]

CallIsTrue(k, c) ==
  /\ c.step \in {"sent", "answered"} => ViewIsTrue(c.seen)
  /\ c.step = "sent" =>
       /\ k \in {"save", "convert", "delete"} =>
            /\ c.id \in SlideIds
            /\ SlideIsTrue(c.id, c.rev, c.base)
            /\ PlaceIsTrue(c.id, c.rev, c.order)
       /\ k \in {"save", "convert", "create"} => c.text \in Texts
       /\ k = "setting" => SoundIsTrue(c.rev, c.base) /\ c.text \in Music
       /\ k \in {"create", "reorder"} => c.rev = c.seen.rev
       /\ k = "reorder" => /\ Pairs(c.slides) = Pairs(c.seen.slides)
                           /\ SlidesAreTrue(c.slides)
                           /\ \A i \in DOMAIN c.slides : c.slides[i].order = i - 1
  /\ c.step = "answered" /\ c.outcome = "ok" =>
       /\ k \in {"save", "convert"} => ViewIsTrue(ReplacePresentationSlide(c.seen, Replacement(c)))
       /\ k = "create" => ViewIsTrue(AppendPresentationSlide(c.seen, Creation(c)))
       /\ k = "reorder" => ViewIsTrue(Reordering(c))

CallRecords ==
  [step : {"idle", "sent", "answered", "refreshing"}, outcome : Outcomes \cup {"none"},
   seen : Views, behind : BOOLEAN, id : SlideIds \cup {"none"}, rev : Nat, order : Int,
   base : Texts \cup Music \cup {"none"}, text : Texts \cup Music \cup {"none"},
   slides : Seq(SlideRecords)]

CallsAreTrue ==
  /\ calls \in [Kinds -> CallRecords]
  /\ \A k \in Kinds : CallIsTrue(k, calls[k])

DeleteIsCalled ==
  deleting[Here].step # "idle" =>
    /\ calls["delete"].step = "sent"
    /\ Deleting(Here) => /\ deleting[Here].slide = calls["delete"].id
                         /\ rows[calls["delete"].id].text = calls["delete"].base

EditorInv ==
  /\ view = NoView \/ ViewIsTrue(view)
  /\ Ready => view # NoView
  /\ FetchIsTrue(fetch)
  /\ DraftIsTrue(draft)
  /\ CallsAreTrue
  /\ DeleteIsCalled

\* What a transaction may do to what others have read: every change makes a new
\* revision, and an id is not used again.
SlidesStep ==
  /\ presentation.rev <= presentation'.rev
  /\ presentation'.rev = presentation.rev => presentation' = presentation /\ rows' = rows
  /\ \A s \in SlideIds : rows[s] # Unborn => rows'[s] # Unborn /\ (s \in Kept' => s \in Kept)
  /\ \A s \in Kept \cap Kept' :
       /\ rows[s].rev <= rows'[s].rev
       /\ rows'[s].rev = rows[s].rev => rows'[s] = rows[s]

\* And to what a delete holds and to what was answered.
HeldStands ==
  /\ \A d \in Deleters : Deleting(d) /\ Deleting(d)' =>
       /\ deleting'[d].slide = deleting[d].slide
       /\ rows'[deleting[d].slide].text = rows[deleting[d].slide].text
  /\ \A d \in Deleters : deleting[d].step = "idle" /\ deleting'[d].step # "idle"
                           => deleting'[d].step = "found" /\ rows' = rows
  /\ \A d \in Deleters : deleting[d].step \in {"committed", "aborted"}
                           => deleting'[d].step \in {deleting[d].step, "idle"}

StandsFor(d) ==
  /\ Deleting(d) /\ Deleting(d)' =>
       /\ deleting'[d].slide = deleting[d].slide
       /\ rows'[deleting[d].slide].text = rows[deleting[d].slide].text
  /\ deleting[d].step = "idle" /\ deleting'[d].step # "idle"
       => deleting'[d].step = "found" /\ rows' = rows
  /\ deleting[d].step \in {"committed", "aborted"} => deleting'[d].step \in {deleting[d].step, "idle"}

LEMMA StandsForEach ==
  ASSUME \A d \in Deleters : StandsFor(d)
  PROVE  HeldStands
BY DEF StandsFor, HeldStands

AnsweredStand == \A s \in answered : rows'[s].text = rows[s].text

LEMMA RowsHaveFields ==
  ASSUME RowsAreSlides
  PROVE  /\ \A s \in SlideIds : /\ rows[s] = [pos |-> rows[s].pos, rev |-> rows[s].rev,
                                              text |-> rows[s].text]
                                /\ rows[s].pos \in Nat \cup {-1} /\ rows[s].rev \in Nat
                                /\ rows[s].text \in Texts \cup {"none"}
         /\ presentation.rev \in Nat \ {0} /\ presentation.music \in Music
         /\ presentation = [rev |-> presentation.rev, music |-> presentation.music]
         /\ Kept \subseteq SlideIds
         /\ \A s \in Kept : rows[s].pos \in Nat
         /\ \A s \in SlideIds : s \notin Kept => rows[s].pos = -1
BY DEF RowsAreSlides, Kept, Unborn, Gone

LEMMA AbortedFields ==
  ASSUME DeletesHold, NEW D
  PROVE  /\ Aborted(D) \in [Deleters -> [step : {"idle", "found", "shifted", "committed", "aborted"},
                                slide : SlideIds \cup {"none"}, pos : Int,
                                moved : SUBSET SlideIds]]
         /\ \A d \in Deleters : IF d \in D THEN Aborted(D)[d].step = "aborted"
                                ELSE Aborted(D)[d] = deleting[d]
BY DEF DeletesHold, Aborted, NoDelete

\* A writer of all the slides leaves no delete alive.
LEMMA WriteAllAborts ==
  ASSUME DeletesHold, NEW result, Write(Kept, result)
  PROVE  /\ \A d \in Deleters : ~Deleting(d)' /\ Held(d)' = {}
         /\ \A d \in Deleters : ~Deleting(d) => deleting'[d] = deleting[d]
         /\ \A d \in Deleters : deleting[d].step = "idle" <=> deleting'[d].step = "idle"
<1>1. deleting' = Aborted(Holders(Kept))
  BY DEF Write
<1>2. \A d \in Deleters : Deleting(d) <=> d \in Holders(Kept)
  BY DEF DeletesHold, DeleteHolds, Holders, Held, Deleting
<1>3. \A d \in Deleters : IF d \in Holders(Kept) THEN deleting'[d].step = "aborted"
                          ELSE deleting'[d] = deleting[d]
  BY <1>1, AbortedFields
<1> QED  BY <1>2, <1>3 DEF Deleting, Held

\* A result that only moves the kept slides and changes one of them.
LEMMA WriteAll ==
  ASSUME SlidesInv, NEW result, Write(Kept, result), answered' = answered,
         result \in [SlideIds -> [pos : Nat \cup {-1}, rev : Nat, text : Texts \cup {"none"}]],
         \A x \in SlideIds : IF x \in Kept THEN result[x].pos >= 0 ELSE result[x] = rows[x],
         \A x \in Kept : result[x].text \in Texts,
         \A x, y \in Kept : result[x].pos = result[y].pos => x = y,
         \A x \in Kept : \/ result[x] = rows[x]
                         \/ result[x].rev = rows[x].rev + 1
  PROVE  /\ SlidesInv' /\ SlidesStep /\ HeldStands /\ Kept' = Kept
<1> USE DEF SlidesInv
<1>1. rows' = result /\ presentation' = [presentation EXCEPT !.rev = @ + 1]
  BY DEF Write
<1>f. /\ \A s \in SlideIds : rows[s].pos \in Nat \cup {-1} /\ rows[s].rev \in Nat
      /\ presentation.rev \in Nat \ {0} /\ presentation.music \in Music
      /\ presentation = [rev |-> presentation.rev, music |-> presentation.music]
      /\ Kept \subseteq SlideIds
      /\ \A s \in SlideIds : s \notin Kept => rows[s].pos = -1
  BY RowsHaveFields
<1>2. Kept' = Kept
  <2>1. \A x \in SlideIds : rows'[x].pos >= 0 <=> x \in Kept
    BY <1>1, <1>f
  <2> QED  BY <2>1 DEF Kept
<1>3. RowsAreSlides'
  <2>1. presentation' \in [rev : Nat \ {0}, music : Music]
    BY <1>1, <1>f
  <2>2. \A s \in SlideIds : s \notin Kept' => rows'[s] \in {Unborn, Gone}
    BY <1>1, <1>2 DEF RowsAreSlides, Unborn, Gone
  <2>3. \A s \in Kept : rows'[s].rev >= 1 /\ rows'[s].text \in Texts
    BY <1>1, <1>f DEF RowsAreSlides
  <2>4. IsFiniteSet(Kept) /\ answered' \subseteq Kept
    BY DEF RowsAreSlides
  <2> QED  BY <1>1, <1>2, <2>1, <2>2, <2>3, <2>4 DEF RowsAreSlides
<1>4. /\ \A d \in Deleters : ~Deleting(d)' /\ Held(d)' = {}
      /\ \A d \in Deleters : ~Deleting(d) => deleting'[d] = deleting[d]
      /\ \A d \in Deleters : deleting[d].step = "idle" <=> deleting'[d].step = "idle"
  BY WriteAllAborts
<1>5. DeletesHold'
  <2>1. deleting' \in [Deleters -> [step : {"idle", "found", "shifted", "committed", "aborted"},
                                slide : SlideIds \cup {"none"}, pos : Int,
                                moved : SUBSET SlideIds]]
    BY AbortedFields DEF Write
  <2>2. \A d \in Deleters : DeleteHolds(d)'
    BY <1>4 DEF DeleteHolds, Deleting
  <2> QED  BY <2>1, <2>2, <1>4 DEF DeletesHold
<1>6. SlidesStep
  <2>1. presentation.rev < presentation'.rev
    BY <1>1, <1>f
  <2>2. \A s \in Kept : rows[s].rev <= rows'[s].rev
                        /\ (rows'[s].rev = rows[s].rev => rows'[s] = rows[s])
    BY <1>1, <1>f
  <2>3. \A s \in SlideIds : rows[s] # Unborn => rows'[s] # Unborn
    <3> SUFFICES ASSUME NEW s \in Kept PROVE rows'[s] # Unborn
      BY <1>1
    <3> QED  BY <1>1, <1>f DEF Unborn
  <2> QED  BY <1>1, <1>2, <1>f, <2>1, <2>2, <2>3 DEF SlidesStep
<1>7. HeldStands
  <2>1. \A d \in Deleters : StandsFor(d)
    BY <1>4 DEF StandsFor, Deleting
  <2> QED  BY <2>1, StandsForEach
<1> QED  BY <1>2, <1>3, <1>5, <1>6, <1>7

LEMMA RefuseStep ==
  ASSUME SlidesInv, Refuse, answered' = answered
  PROVE  SlidesInv' /\ SlidesStep /\ HeldStands
<1>1. Kept' = Kept /\ \A d \in Deleters : Deleting(d)' = Deleting(d) /\ Held(d)' = Held(d)
  BY DEF Refuse, Kept, Deleting, Held
<1>2. RowsAreSlides'
  BY <1>1 DEF SlidesInv, RowsAreSlides, Refuse
<1>3. DeletesHold'
  BY <1>1 DEF SlidesInv, DeletesHold, DeleteHolds, Refuse, Deleting
<1>4. presentation.rev \in Nat /\ \A s \in SlideIds : rows[s].rev \in Nat
  BY RowsHaveFields DEF SlidesInv
<1> QED  BY <1>1, <1>2, <1>3, <1>4 DEF SlidesInv, SlidesStep, HeldStands, Refuse, Kept

\* Creating a slide: what is at its place or above moves up.
LEMMA CreateStep ==
  ASSUME SlidesInv, NEW s \in SlideIds, NEW pos, NEW text \in Texts, NEW expected,
         NEW outcome, CreateSlide(s, pos, text, expected, outcome)
  PROVE  /\ SlidesInv' /\ SlidesStep /\ HeldStands /\ AnsweredStand
         /\ outcome = "ok" =>
              /\ ~Stale(expected, presentation.rev)
              /\ presentation' = [presentation EXCEPT !.rev = @ + 1]
              /\ rows[s] = Unborn /\ s \notin Kept
              /\ Kept' = Kept \cup {s}
              /\ rows'[s] = [pos |-> pos, rev |-> 1, text |-> text]
              /\ \A x \in Kept : rows'[x].text = rows[x].text
<1> USE DEF SlidesInv
<1>g. \A x \in SlideIds : rows[x] = [pos |-> rows[x].pos, rev |-> rows[x].rev,
                                     text |-> rows[x].text]
  BY RowsHaveFields
<1>f. /\ \A x \in SlideIds : /\ rows[x].pos \in Nat \cup {-1} /\ rows[x].rev \in Nat
                             /\ rows[x].text \in Texts \cup {"none"}
      /\ presentation.rev \in Nat \ {0} /\ presentation.music \in Music
      /\ presentation = [rev |-> presentation.rev, music |-> presentation.music]
      /\ Kept \subseteq SlideIds
      /\ \A x \in Kept : rows[x].pos \in Nat
      /\ \A x \in SlideIds : x \notin Kept => rows[x].pos = -1
  BY RowsHaveFields
<1>0. rows[s] = Unborn /\ s \notin Kept /\ answered' = answered
  <2>1. rows[s] = Unborn /\ answered' = answered
    BY DEF CreateSlide
  <2> QED  BY <2>1 DEF Kept, Unborn
<1>1. CASE Refuse /\ outcome # "ok"
  BY <1>1, <1>0, RefuseStep DEF AnsweredStand, Refuse
<1>2. ASSUME outcome = "ok", ~Stale(expected, presentation.rev), pos \in 0..Cardinality(Kept),
             Write(From(pos),
                         [x \in SlideIds |->
                            IF x = s THEN [pos |-> pos, rev |-> 1, text |-> text]
                            ELSE IF x \in From(pos)
                            THEN [rows[x] EXCEPT !.pos = @ + 1, !.rev = @ + 1]
                            ELSE rows[x]])
      PROVE  /\ SlidesInv' /\ SlidesStep /\ HeldStands
             /\ presentation' = [presentation EXCEPT !.rev = @ + 1]
             /\ Kept' = Kept \cup {s}
             /\ rows'[s] = [pos |-> pos, rev |-> 1, text |-> text]
             /\ \A x \in Kept : rows'[x].text = rows[x].text
  <2>p. presentation' = [presentation EXCEPT !.rev = @ + 1]
    BY <1>2 DEF Write
  <2>r. rows' = [x \in SlideIds |->
                            IF x = s THEN [pos |-> pos, rev |-> 1, text |-> text]
                            ELSE IF x \in From(pos)
                            THEN [rows[x] EXCEPT !.pos = @ + 1, !.rev = @ + 1]
                            ELSE rows[x]]
    BY <1>2 DEF Write
  <2>d. deleting' = Aborted(Holders(From(pos)))
    BY <1>2 DEF Write
  <2>c. pos \in 0..Cardinality(Kept)
    BY <1>2
  <2>2. pos \in Nat
    <3>1. IsFiniteSet(Kept)
      BY DEF RowsAreSlides
    <3>2. Cardinality(Kept) \in Nat
      BY <3>1, FS_CardinalityType
    <3> QED  BY <2>c, <3>2
  <2>3. \A x \in SlideIds : x \in From(pos) <=> x \in Kept /\ rows[x].pos >= pos
    BY <1>f DEF From
  <2>3r. \A x \in SlideIds :
           /\ x = s => rows'[x] = [pos |-> pos, rev |-> 1, text |-> text]
           /\ x # s /\ x \in From(pos) => rows'[x] = [pos |-> rows[x].pos + 1,
                                     rev |-> rows[x].rev + 1, text |-> rows[x].text]
           /\ x # s /\ x \notin From(pos) => rows'[x] = rows[x]
    <3> TAKE x \in SlideIds
    <3>1. rows'[x] = IF x = s THEN [pos |-> pos, rev |-> 1, text |-> text]
                            ELSE IF x \in From(pos)
                            THEN [rows[x] EXCEPT !.pos = @ + 1, !.rev = @ + 1]
                            ELSE rows[x]
      BY <2>r
    <3>2. rows[x] = [pos |-> rows[x].pos, rev |-> rows[x].rev, text |-> rows[x].text]
      BY <1>g
    <3> QED  BY <3>1, <3>2
  <2>4. /\ rows'[s].pos = pos /\ rows'[s].rev = 1 /\ rows'[s].text = text
        /\ \A x \in SlideIds : x # s /\ x \in From(pos) =>
              /\ rows'[x].pos = rows[x].pos + 1 /\ rows'[x].rev = rows[x].rev + 1
              /\ rows'[x].text = rows[x].text
        /\ \A x \in SlideIds : x # s /\ x \notin From(pos) => rows'[x] = rows[x]
    <3>1. rows'[s] = [pos |-> pos, rev |-> 1, text |-> text]
      BY <2>3r
    <3>2. ASSUME NEW x \in SlideIds, x # s, x \in From(pos)
          PROVE  /\ rows'[x].pos = rows[x].pos + 1 /\ rows'[x].rev = rows[x].rev + 1
                 /\ rows'[x].text = rows[x].text
      <4>1. rows'[x] = [pos |-> rows[x].pos + 1, rev |-> rows[x].rev + 1, text |-> rows[x].text]
        BY <2>3r, <3>2
      <4> QED  BY <4>1
    <3>3. \A x \in SlideIds : x # s /\ x \notin From(pos) => rows'[x] = rows[x]
      BY <2>3r
    <3> QED  BY <3>1, <3>2, <3>3
  <2>5. Kept' = Kept \cup {s}
    <3>1. \A x \in SlideIds : rows'[x].pos >= 0 <=> x \in Kept \cup {s}
      BY <1>f, <2>2, <2>3, <2>4
    <3> QED  BY <3>1, <1>f DEF Kept
  <2>6. RowsAreSlides'
    <3>1. presentation' \in [rev : Nat \ {0}, music : Music]
      BY <2>p, <1>f
    <3>2. rows' \in [SlideIds -> [pos : Nat \cup {-1}, rev : Nat, text : Texts \cup {"none"}]]
      <4>1. \A x \in SlideIds : rows'[x] \in [pos : Nat \cup {-1}, rev : Nat, text : Texts \cup {"none"}]
        <5> TAKE x \in SlideIds
        <5>1. rows[x] \in [pos : Nat \cup {-1}, rev : Nat, text : Texts \cup {"none"}]
          BY DEF RowsAreSlides
        <5>2. CASE x = s
          <6>1. rows'[x] = [pos |-> pos, rev |-> 1, text |-> text]
            BY <5>2, <2>3r
          <6> QED  BY <6>1, <2>2
        <5>3. CASE x # s /\ x \in From(pos)
          <6>1. rows'[x] = [pos |-> rows[x].pos + 1, rev |-> rows[x].rev + 1,
                            text |-> rows[x].text]
            BY <5>3, <2>3r
          <6>2. /\ rows[x].pos + 1 \in Nat \cup {-1} /\ rows[x].rev + 1 \in Nat
                /\ rows[x].text \in Texts \cup {"none"}
            BY <5>3, <1>f, <2>3
          <6> QED  BY <6>1, <6>2
        <5>4. CASE x # s /\ x \notin From(pos)
          BY <5>4, <2>4, <5>1
        <5> QED  BY <5>2, <5>3, <5>4
      <4>2. rows' = [x \in SlideIds |-> rows'[x]]
        BY <2>r
      <4> QED  BY <4>1, <4>2
    <3>3. \A x \in SlideIds : x \notin Kept' => rows'[x] \in {Unborn, Gone}
      BY <2>3, <2>4, <2>5 DEF RowsAreSlides, Unborn, Gone
    <3>4. \A x \in Kept' : rows'[x].rev >= 1 /\ rows'[x].text \in Texts
      BY <1>f, <2>3, <2>4, <2>5 DEF RowsAreSlides
    <3>5. IsFiniteSet(Kept') /\ answered' \subseteq Kept'
      BY <1>0, <2>5, FS_AddElement DEF RowsAreSlides
    <3>6. \A x, y \in Kept' : rows'[x].pos = rows'[y].pos => x = y
      <4> TAKE x, y \in Kept'
      <4>1. x \in SlideIds /\ y \in SlideIds /\ x \in Kept \cup {s} /\ y \in Kept \cup {s}
        BY <1>f, <2>5
      <4>2. x \in Kept /\ y \in Kept => (rows[x].pos = rows[y].pos => x = y)
        BY DEF RowsAreSlides
      <4> QED  BY <4>1, <4>2, <1>f, <2>2, <2>3, <2>4
    <3> QED  BY <3>1, <3>2, <3>3, <3>4, <3>5, <3>6 DEF RowsAreSlides
  <2>7. \A d \in Deleters : IF d \in Holders(From(pos)) THEN deleting'[d].step = "aborted"
                            ELSE deleting'[d] = deleting[d]
    BY <2>d, AbortedFields
  <2>8. \A d \in Deleters : ~Deleting(d) => d \notin Holders(From(pos))
    BY DEF Deleting, Holders, Held
  <2>9. ASSUME NEW d \in Deleters, d \notin Holders(From(pos)), Deleting(d)
        PROVE  DeleteHolds(d)' /\ rows'[deleting[d].slide] = rows[deleting[d].slide]
    <3> DEFINE t == deleting[d]
    <3>1. /\ deleting' [d] = t /\ DeleteHolds(d) /\ t.slide \in Kept \ answered
          /\ t.pos = rows[t.slide].pos /\ t.slide \in SlideIds
      BY <2>7, <2>9, <1>f DEF DeletesHold, DeleteHolds
    <3>2. t.slide \notin From(pos) /\ t.slide # s
      BY <1>0, <2>9, <3>1 DEF Holders, Held, Deleting
    <3>3. rows'[t.slide] = rows[t.slide] /\ rows[t.slide].pos < pos
      BY <2>2, <2>3, <2>4, <3>1, <3>2, <1>f
    <3>4. ASSUME t.step = "shifted"
          PROVE  /\ t.moved \subseteq Kept'
                 /\ \A m \in t.moved : t.pos < rows'[m].pos
                 /\ \A x \in Kept' \ t.moved, m \in t.moved :
                       t.pos < rows'[x].pos => rows'[m].pos < rows'[x].pos
      <4>1. /\ t.moved \subseteq Kept /\ s \notin t.moved
            /\ \A m \in t.moved : t.pos < rows[m].pos
            /\ \A x \in Kept \ t.moved, m \in t.moved :
                  t.pos < rows[x].pos => rows[m].pos < rows[x].pos
        BY <1>0, <3>1, <3>4 DEF DeleteHolds
      <4>2. \A m \in t.moved : m \notin From(pos)
        BY <2>9, <3>4 DEF Holders, Held
      <4>3. \A m \in t.moved : rows'[m] = rows[m] /\ rows[m].pos < pos /\ m \in Kept /\ m \in SlideIds
        BY <2>2, <2>3, <2>4, <4>1, <4>2, <1>f
      <4>4. ASSUME NEW x \in Kept' \ t.moved, NEW m \in t.moved, t.pos < rows'[x].pos
            PROVE  rows'[m].pos < rows'[x].pos
        <5>1. CASE x = s
          BY <5>1, <4>3, <2>4, <1>f, <2>2
        <5>2. CASE x # s /\ x \in From(pos)
          <6>1. x \in SlideIds /\ rows[x].pos >= pos
            BY <5>2, <2>3, <2>5, <1>f
          <6>2. rows'[x].pos = rows[x].pos + 1 /\ rows'[m].pos = rows[m].pos /\ rows[m].pos < pos
            BY <5>2, <6>1, <4>3, <2>4
          <6> QED  BY <6>1, <6>2, <4>3, <1>f, <2>2
        <5>3. CASE x # s /\ x \notin From(pos)
          BY <5>3, <4>1, <4>3, <4>4, <2>4, <2>5, <1>f
        <5> QED  BY <5>1, <5>2, <5>3
      <4> QED  BY <2>5, <4>1, <4>3, <4>4
    <3> QED  BY <2>5, <3>1, <3>3, <3>4, <1>0 DEF DeleteHolds
  <2>10. DeletesHold'
    <3>1. \A d \in Deleters : DeleteHolds(d)'
      BY <2>7, <2>8, <2>9 DEF DeleteHolds, Deleting
    <3>2. \A d \in Deleters : Held(d)' \subseteq Held(d)
      BY <2>7 DEF Held
    <3>3. deleting' \in [Deleters -> [step : {"idle", "found", "shifted", "committed", "aborted"},
                                slide : SlideIds \cup {"none"}, pos : Int,
                                moved : SUBSET SlideIds]]
      BY <2>d, AbortedFields
    <3> HIDE DEF SlidesInv
    <3>4. \A d, e \in Deleters : d # e => Held(d) \cap Held(e) = {}
      BY DEF SlidesInv, DeletesHold
    <3> QED  BY <3>1, <3>2, <3>3, <3>4 DEF DeletesHold
  <2>11. HeldStands
    <3>1. \A d \in Deleters : Deleting(d)' => d \notin Holders(From(pos)) /\ deleting'[d] = deleting[d]
      BY <2>7 DEF Deleting
    <3>2. \A d \in Deleters : ~Deleting(d) => deleting'[d] = deleting[d]
      BY <2>7, <2>8
    <3>3. \A d \in Deleters : deleting[d].step = "idle" => ~Deleting(d)
      BY DEF Deleting
    <3>4. \A d \in Deleters : Deleting(d) /\ Deleting(d)' =>
       /\ deleting'[d].slide = deleting[d].slide
       /\ rows'[deleting[d].slide].text = rows[deleting[d].slide].text
      BY <3>1, <2>9
    <3>5. \A d \in Deleters : StandsFor(d)
      <4> TAKE d \in Deleters
      <4>1. ~Deleting(d) => deleting'[d] = deleting[d]
        BY <3>2
      <4>2. deleting[d].step \in {"idle", "committed", "aborted"} => ~Deleting(d)
        BY DEF Deleting
      <4> QED  BY <3>4, <4>1, <4>2 DEF StandsFor
    <3> QED  BY <3>5, StandsForEach
  <2>12. SlidesStep
    <3>1. presentation.rev < presentation'.rev
      BY <2>p, <1>f
    <3>2. \A x \in Kept : /\ rows[x].rev <= rows'[x].rev
                          /\ rows'[x].rev = rows[x].rev => rows'[x] = rows[x]
      BY <1>0, <1>f, <2>4
    <3>3. \A x \in SlideIds : rows[x] # Unborn => rows'[x] # Unborn /\ (x \in Kept' => x \in Kept)
      BY <1>0, <1>f, <2>3, <2>4, <2>5 DEF Unborn
    <3>4. presentation.rev <= presentation'.rev /\ presentation.rev # presentation'.rev
      BY <3>1, <2>p, <1>f
    <3>5. \A x \in Kept \cap Kept' :
            /\ rows[x].rev <= rows'[x].rev
            /\ rows'[x].rev = rows[x].rev => rows'[x] = rows[x]
      BY <3>2
    <3> QED  BY <3>3, <3>4, <3>5 DEF SlidesStep
  <2>13. \A x \in Kept : rows'[x].text = rows[x].text
    BY <1>0, <1>f, <2>4
  <2> QED  BY <2>p, <2>3r, <2>4, <2>5, <2>6, <2>10, <2>11, <2>12, <2>13
<1>3. AnsweredStand
  <2>1. answered \subseteq Kept
    BY DEF RowsAreSlides
  <2> QED  BY <1>0, <1>1, <1>2, <2>1 DEF AnsweredStand, CreateSlide, Victim, Refuse
<1>4. CASE ~(Refuse /\ outcome # "ok")
  <2>1. /\ outcome = "ok" /\ ~Stale(expected, presentation.rev) /\ pos \in 0..Cardinality(Kept)
        /\ Write(From(pos),
                         [x \in SlideIds |->
                            IF x = s THEN [pos |-> pos, rev |-> 1, text |-> text]
                            ELSE IF x \in From(pos)
                            THEN [rows[x] EXCEPT !.pos = @ + 1, !.rev = @ + 1]
                            ELSE rows[x]])
    BY <1>4 DEF CreateSlide, Victim
  <2> QED  BY <1>0, <1>2, <1>3, <2>1
<1> QED  BY <1>1, <1>3, <1>4

PosUpTo(S, s) == {x \in S : rows[x].pos <= rows[s].pos}

LEMMA RanksAreTaken ==
  ASSUME RowsAreSlides, NEW S \in SUBSET Kept
  PROVE  LET rank == [s \in S |-> Cardinality(PosUpTo(S, s))]
         IN  /\ IsFiniteSet(S) /\ Cardinality(S) \in Nat
             /\ rank \in [S -> 1..Cardinality(S)]
             /\ \A s, x \in S : rows[s].pos < rows[x].pos => rank[s] < rank[x]
             /\ \A n \in 1..Cardinality(S) : \E s \in S : rank[s] = n
<1> DEFINE rank == [s \in S |-> Cardinality(PosUpTo(S, s))]
           size == Cardinality(S)
<1>0. /\ IsFiniteSet(S)
      /\ \A s \in S : rows[s].pos \in Nat
      /\ \A s, x \in S : rows[s].pos = rows[x].pos => s = x
  <2>1. IsFiniteSet(Kept) /\ \A s, x \in Kept : rows[s].pos = rows[x].pos => s = x
    BY DEF RowsAreSlides
  <2>2. \A s \in Kept : rows[s].pos \in Nat
    BY RowsHaveFields
  <2> QED  BY <2>1, <2>2, FS_Subset
<1>1. size \in Nat
  BY <1>0, FS_CardinalityType
<1>2. \A s \in S : IsFiniteSet(PosUpTo(S, s)) /\ Cardinality(PosUpTo(S, s)) \in 1..size
  <2> TAKE s \in S
  <2>1. PosUpTo(S, s) \in SUBSET S /\ s \in PosUpTo(S, s)
    BY <1>0 DEF PosUpTo
  <2>2. IsFiniteSet(PosUpTo(S, s)) /\ Cardinality(PosUpTo(S, s)) <= size
    BY <1>0, <2>1, FS_Subset
  <2>3. Cardinality(PosUpTo(S, s)) \in Nat /\ Cardinality(PosUpTo(S, s)) # 0
    BY <2>1, <2>2, FS_CardinalityType, FS_EmptySet
  <2> QED  BY <1>1, <2>2, <2>3
<1>3. rank \in [S -> 1..size]
  BY <1>2
<1>4. \A s, x \in S : rows[s].pos < rows[x].pos => rank[s] < rank[x]
  <2> SUFFICES ASSUME NEW s \in S, NEW x \in S, rows[s].pos < rows[x].pos
               PROVE  Cardinality(PosUpTo(S, s)) < Cardinality(PosUpTo(S, x))
    OBVIOUS
  <2>1. PosUpTo(S, s) \in SUBSET PosUpTo(S, x)
    BY <1>0 DEF PosUpTo
  <2>2. x \in PosUpTo(S, x) /\ x \notin PosUpTo(S, s)
    BY <1>0 DEF PosUpTo
  <2>3. /\ Cardinality(PosUpTo(S, s)) <= Cardinality(PosUpTo(S, x))
        /\ Cardinality(PosUpTo(S, x)) = Cardinality(PosUpTo(S, s)) => PosUpTo(S, x) = PosUpTo(S, s)
    BY <1>2, <2>1, FS_Subset
  <2>4. Cardinality(PosUpTo(S, s)) # Cardinality(PosUpTo(S, x))
    BY <2>2, <2>3
  <2>5. Cardinality(PosUpTo(S, s)) \in Nat /\ Cardinality(PosUpTo(S, x)) \in Nat
    BY <1>1, <1>2
  <2> QED  BY <2>3, <2>4, <2>5
<1>5. rank \in Surjection(S, 1..size)
  <2>2. \A s, x \in S : s # x => rank[s] # rank[x]
    <3> SUFFICES ASSUME NEW s \in S, NEW x \in S, s # x
                 PROVE  rank[s] # rank[x]
      OBVIOUS
    <3>1. rank[s] \in 1..size /\ rank[x] \in 1..size
      BY <1>3
    <3>2. rank[s] < rank[x] \/ rank[x] < rank[s]
      BY <1>0, <1>4
    <3> HIDE DEF rank
    <3> QED  BY <1>1, <3>1, <3>2
  <2>3. rank \in Injection(S, 1..size)
    <3> HIDE DEF rank
    <3> QED  BY <1>3, <2>2 DEF Injection, IsInjective
  <2>4. IsFiniteSet(1..size) /\ Cardinality(1..size) = size
    BY <1>1, FS_Interval
  <2> HIDE DEF rank
  <2>5. rank \in Surjection(S, 1..size) <=> Cardinality(S) = Cardinality(1..size)
    BY <2>3, <2>4, FS_Injection
  <2> QED  BY <2>4, <2>5
<1>6. \A n \in 1..size : \E s \in S : rank[s] = n
  <2> HIDE DEF rank
  <2> QED  BY <1>5 DEF Surjection
<1> QED  BY <1>0, <1>1, <1>3, <1>4, <1>6

\* ORDER BY position lists each slide once, at its rank.
LEMMA InOrderLists ==
  ASSUME RowsAreSlides, NEW S \in SUBSET Kept
  PROVE  /\ IsFiniteSet(S) /\ Cardinality(S) \in Nat
         /\ InOrder(S) \in Seq(S) /\ Len(InOrder(S)) = Cardinality(S)
         /\ \A s \in S : /\ Cardinality(PosUpTo(S, s)) \in 1..Cardinality(S)
                         /\ InOrder(S)[Cardinality(PosUpTo(S, s))] = s
         /\ \A n \in 1..Cardinality(S) : Cardinality(PosUpTo(S, InOrder(S)[n])) = n
         /\ \A s, x \in S : rows[s].pos < rows[x].pos =>
               Cardinality(PosUpTo(S, s)) < Cardinality(PosUpTo(S, x))
<1> DEFINE rank == [s \in S |-> Cardinality(PosUpTo(S, s))]
           size == Cardinality(S)
           l == InOrder(S)
<1>1. /\ IsFiniteSet(S) /\ size \in Nat /\ rank \in [S -> 1..size]
      /\ \A s, x \in S : rows[s].pos < rows[x].pos => rank[s] < rank[x]
      /\ \A n \in 1..size : \E s \in S : rank[s] = n
  BY RanksAreTaken
<1>2. /\ l = [n \in 1..size |-> CHOOSE s \in S : Cardinality(PosUpTo(S, s)) = n]
      /\ \A s \in S : rank[s] = Cardinality(PosUpTo(S, s))
  BY DEF InOrder, PosUpTo
<1> HIDE DEF rank, l, size
<1>3. \A n \in 1..size : l[n] \in S /\ rank[l[n]] = n
  <2> TAKE n \in 1..size
  <2>1. \E s \in S : Cardinality(PosUpTo(S, s)) = n
    BY <1>1, <1>2
  <2>2. l[n] \in S /\ Cardinality(PosUpTo(S, l[n])) = n
    BY <1>2, <2>1
  <2> QED  BY <1>2, <2>2
<1>4. l \in Seq(S) /\ Len(l) = size
  BY <1>1, <1>2, <1>3
<1>5. ASSUME NEW s \in S
      PROVE  l[rank[s]] = s
  <2>1. rank[s] \in 1..size
    BY <1>1
  <2>2. l[rank[s]] \in S /\ rank[l[rank[s]]] = rank[s]
    BY <1>3, <2>1
  <2>3. /\ \A x \in Kept : rows[x].pos \in Nat
        /\ \A x, y \in Kept : rows[x].pos = rows[y].pos => x = y
    BY RowsHaveFields DEF RowsAreSlides
  <2>4. ~(rows[l[rank[s]]].pos < rows[s].pos) /\ ~(rows[s].pos < rows[l[rank[s]]].pos)
    BY <1>1, <2>1, <2>2
  <2> QED  BY <2>2, <2>3, <2>4
<1>6. \A s \in S : Cardinality(PosUpTo(S, s)) \in 1..size /\ l[Cardinality(PosUpTo(S, s))] = s
  BY <1>1, <1>2, <1>5
<1>7. \A s, x \in S : rows[s].pos < rows[x].pos =>
               Cardinality(PosUpTo(S, s)) < Cardinality(PosUpTo(S, x))
  BY <1>1, <1>2
<1>8. \A n \in 1..size : Cardinality(PosUpTo(S, l[n])) = n
  BY <1>2, <1>3
<1> QED  BY <1>1, <1>4, <1>6, <1>7, <1>8 DEF l, size

LEMMA InsertAtIs ==
  ASSUME NEW l, NEW i, NEW e
  PROVE  SE!InsertAt(l, i, e) = SubSeq(l, 1, i - 1) \o <<e>> \o SubSeq(l, i, Len(l))
BY DEF SE!InsertAt

LEMMA SubSeqIs ==
  ASSUME NEW S, NEW l \in Seq(S), NEW p \in 0..Len(l)
  PROVE  /\ SubSeq(l, 1, p) \in Seq(S) /\ Len(SubSeq(l, 1, p)) = p
         /\ \A i \in 1..p : SubSeq(l, 1, p)[i] = l[i]
         /\ SubSeq(l, p + 1, Len(l)) \in Seq(S) /\ Len(SubSeq(l, p + 1, Len(l))) = Len(l) - p
         /\ \A i \in 1..(Len(l) - p) : SubSeq(l, p + 1, Len(l))[i] = l[i + p]
<1>1. SubSeq(l, 1, p) \in Seq(S) /\ Len(SubSeq(l, 1, p)) = p
  OBVIOUS
<1>2. \A i \in 1..p : SubSeq(l, 1, p)[i] = l[i]
  OBVIOUS
<1>3. SubSeq(l, p + 1, Len(l)) \in Seq(S)
  OBVIOUS
<1>4. Len(SubSeq(l, p + 1, Len(l))) = Len(l) - p
  OBVIOUS
<1>5. \A i \in 1..(Len(l) - p) : SubSeq(l, p + 1, Len(l))[i] = l[i + p]
  OBVIOUS
<1> QED  BY <1>1, <1>2, <1>3, <1>4, <1>5

\* InsertAt and RemoveAt shift what is behind.
Inserts(new, l, j, e) ==
  /\ Len(new) = Len(l) + 1
  /\ \A i \in 1..(Len(l) + 1) : new[i] = IF i < j THEN l[i] ELSE IF i = j THEN e ELSE l[i - 1]

LEMMA InsertAtPuts ==
  ASSUME NEW S, NEW l \in Seq(S), NEW e \in S, NEW j \in 1..(Len(l) + 1),
         NEW new, new = SE!InsertAt(l, j, e)
  PROVE  new \in Seq(S) /\ Inserts(new, l, j, e)
<1>1. PICK p \in Nat : p = j - 1
  OBVIOUS
<1>2. p \in 0..Len(l) /\ j = p + 1 /\ p \in Nat /\ Len(l) \in Nat /\ p <= Len(l) /\ j \in Nat
  BY <1>1
<1>3. PICK a : a = SubSeq(l, 1, p)
  OBVIOUS
<1>4. PICK b : b = SubSeq(l, p + 1, Len(l))
  OBVIOUS
<1>5. a \in Seq(S) /\ Len(a) = p /\ \A i \in 1..p : a[i] = l[i]
  BY <1>2, <1>3, SubSeqIs
<1>6. b \in Seq(S) /\ Len(b) = Len(l) - p /\ \A i \in 1..(Len(l) - p) : b[i] = l[i + p]
  BY <1>2, <1>4, SubSeqIs
<1>7. SE!InsertAt(l, j, e) = SubSeq(l, 1, j - 1) \o <<e>> \o SubSeq(l, j, Len(l))
  BY InsertAtIs
<1>8. SE!InsertAt(l, j, e) = a \o <<e>> \o b
  BY <1>1, <1>2, <1>3, <1>4, <1>7
<1>9. PICK q : q = <<e>>
  OBVIOUS
<1>10. q \in Seq(S) /\ Len(q) = 1 /\ q[1] = e
  BY <1>9
<1>11. PICK r : r = a \o q
  OBVIOUS
<1>12. r \in Seq(S) /\ Len(r) = p + 1 /\ (\A i \in 1..p : r[i] = l[i]) /\ r[p + 1] = e
  <2>1. r \in Seq(S)
    BY <1>5, <1>10, <1>11
  <2>2. Len(r) = p + 1
    <3>1. a \in Seq(S) /\ q \in Seq(S)
      BY <1>5, <1>10
    <3>2. Len(r) = Len(a) + Len(q)
      BY <1>11, <3>1
    <3> QED  BY <1>5, <1>10, <3>2
  <2>3. \A i \in 1..p : r[i] = l[i]
    BY <1>2, <1>5, <1>10, <1>11
  <2>4. r[p + 1] = e
    <3>1. a \in Seq(S) /\ q = <<e>>
      BY <1>5, <1>9
    <3>2. r[Len(a) + 1] = e
      BY <1>11, <3>1
    <3> QED  BY <1>5, <3>2
  <2> QED  BY <2>1, <2>2, <2>3, <2>4
<1>13. PICK w : w = r \o b
  OBVIOUS
<1>14. /\ w \in Seq(S) /\ Len(w) = Len(l) + 1
       /\ \A i \in 1..(p + 1) : w[i] = r[i]
       /\ \A i \in (p + 2)..(Len(l) + 1) : w[i] = l[i - 1]
  <2>1. w \in Seq(S)
    BY <1>6, <1>12, <1>13
  <2>2. Len(w) = Len(l) + 1
    BY <1>2, <1>6, <1>12, <1>13
  <2>3. \A i \in 1..(p + 1) : w[i] = r[i]
    BY <1>2, <1>6, <1>12, <1>13
  <2>4. ASSUME NEW i \in (p + 2)..(Len(l) + 1)
        PROVE  w[i] = l[i - 1]
    <3>1. i \in Nat /\ i > Len(r) /\ i <= Len(r) + Len(b)
      BY <1>2, <1>6, <1>12
    <3>2. w[i] = b[i - Len(r)]
      BY <1>6, <1>12, <1>13, <3>1
    <3>3. i - Len(r) \in 1..(Len(l) - p) /\ i - Len(r) + p = i - 1
      BY <1>2, <1>6, <1>12, <3>1
    <3> QED  BY <3>2, <3>3, <1>6
  <2> QED  BY <2>1, <2>2, <2>3, <2>4
<1>15. new = w
  BY <1>8, <1>9, <1>11, <1>13
<1>16. ASSUME NEW i \in 1..(Len(l) + 1)
       PROVE  w[i] = IF i < j THEN l[i] ELSE IF i = j THEN e ELSE l[i - 1]
  <2>1. CASE i < j
    <3>1. i \in 1..p /\ i \in 1..(p + 1)
      BY <2>1, <1>2
    <3> QED  BY <3>1, <2>1, <1>12, <1>14
  <2>2. CASE i = j
    <3>1. i \in 1..(p + 1) /\ i = p + 1
      BY <2>2, <1>2
    <3>2. w[i] = e
      BY <3>1, <1>12, <1>14
    <3> QED  BY <3>2, <2>2, <1>2
  <2>3. CASE i > j
    <3>1. i \in (p + 2)..(Len(l) + 1)
      BY <2>3, <1>2
    <3>2. w[i] = l[i - 1]
      BY <3>1, <1>14
    <3> QED  BY <3>2, <2>3, <1>2
  <2> QED  BY <1>2, <2>1, <2>2, <2>3
<1> QED  BY <1>14, <1>15, <1>16 DEF Inserts

LEMMA RemoveAtTakes ==
  ASSUME NEW S, NEW l \in Seq(S), NEW j \in 1..Len(l), NEW new, new = SE!RemoveAt(l, j)
  PROVE  /\ new \in Seq(S) /\ Len(new) = Len(l) - 1
         /\ \A i \in 1..(Len(l) - 1) : new[i] = IF i < j THEN l[i] ELSE l[i + 1]
<1>1. PICK p \in Nat : p = j - 1
  OBVIOUS
<1>2. /\ p \in 0..Len(l) /\ j \in 0..Len(l) /\ j = p + 1 /\ p \in Nat /\ Len(l) \in Nat
      /\ j <= Len(l) /\ j \in Nat
  BY <1>1
<1>3. PICK a : a = SubSeq(l, 1, p)
  OBVIOUS
<1>4. PICK b : b = SubSeq(l, j + 1, Len(l))
  OBVIOUS
<1>5. a \in Seq(S) /\ Len(a) = p /\ \A i \in 1..p : a[i] = l[i]
  BY <1>2, <1>3, SubSeqIs
<1>6. b \in Seq(S) /\ Len(b) = Len(l) - j /\ \A i \in 1..(Len(l) - j) : b[i] = l[i + j]
  BY <1>2, <1>4, SubSeqIs
<1>7. SE!RemoveAt(l, j) = SubSeq(l, 1, j - 1) \o SubSeq(l, j + 1, Len(l))
  BY DEF SE!RemoveAt
<1>8. PICK w : w = a \o b
  OBVIOUS
<1>9. new = w
  BY <1>1, <1>3, <1>4, <1>7, <1>8
<1>10. /\ w \in Seq(S) /\ Len(w) = Len(l) - 1
       /\ \A i \in 1..p : w[i] = l[i]
       /\ \A i \in j..(Len(l) - 1) : w[i] = l[i + 1]
  <2>1. w \in Seq(S)
    BY <1>5, <1>6, <1>8
  <2>2. Len(w) = Len(l) - 1
    BY <1>2, <1>5, <1>6, <1>8
  <2>3. \A i \in 1..p : w[i] = l[i]
    BY <1>2, <1>5, <1>6, <1>8
  <2>4. ASSUME NEW i \in j..(Len(l) - 1)
        PROVE  w[i] = l[i + 1]
    <3>1. i \in Nat /\ i > Len(a) /\ i <= Len(a) + Len(b)
      BY <1>2, <1>5, <1>6
    <3>2. w[i] = b[i - Len(a)]
      BY <1>5, <1>6, <1>8, <3>1
    <3>3. i - Len(a) \in 1..(Len(l) - j) /\ i - Len(a) + j = i + 1
      BY <1>2, <1>5, <1>6, <3>1
    <3> QED  BY <3>2, <3>3, <1>6
  <2> QED  BY <2>1, <2>2, <2>3, <2>4
<1>11. ASSUME NEW i \in 1..(Len(l) - 1)
       PROVE  w[i] = IF i < j THEN l[i] ELSE l[i + 1]
  <2>1. CASE i < j
    BY <2>1, <1>2, <1>10
  <2>2. CASE ~(i < j)
    <3>1. i \in j..(Len(l) - 1)
      BY <2>2, <1>2
    <3> QED  BY <3>1, <2>2, <1>10
  <2> QED  BY <2>1, <2>2
<1> QED  BY <1>9, <1>10, <1>11

\* Where a replaced slide's neighbours go: to their rank, around its place.
LEMMA ReplacedPlaces ==
  ASSUME RowsAreSlides, NEW s \in Kept, NEW pos \in 0..Cardinality(Kept) - 1, NEW text
  PROVE  LET rest == Kept \ {s}
             rank(x) == Cardinality(PosUpTo(rest, x))
         IN  /\ Cardinality(rest) = Cardinality(Kept) - 1 /\ Cardinality(rest) \in Nat
             /\ \A x \in rest : /\ rank(x) \in 1..Cardinality(rest)
                                /\ Replaced(s, pos, text)[x].pos =
                                     IF rank(x) <= pos THEN rank(x) - 1 ELSE rank(x)
             /\ \A x, y \in rest : rows[x].pos < rows[y].pos => rank(x) < rank(y)
<1> DEFINE rest == Kept \ {s}
           rank(x) == Cardinality(PosUpTo(rest, x))
           l == InOrder(rest)
           n == Cardinality(rest)
           order == SE!InsertAt(l, pos + 1, s)
<1>1. /\ IsFiniteSet(rest) /\ n \in Nat /\ l \in Seq(rest) /\ Len(l) = n
      /\ \A x \in rest : rank(x) \in 1..n /\ l[rank(x)] = x
      /\ \A i \in 1..n : rank(l[i]) = i
      /\ \A x, y \in rest : rows[x].pos < rows[y].pos => rank(x) < rank(y)
  <2>1. rest \in SUBSET Kept
    OBVIOUS
  <2> HIDE DEF rest
  <2> QED  BY <2>1, InOrderLists
<1>2. n = Cardinality(Kept) - 1
  BY FS_RemoveElement DEF RowsAreSlides
<1>3. pos \in 0..n
  BY <1>2
<1>4. /\ Len(order) = n + 1 /\ DOMAIN order = 1..(n + 1)
      /\ \A i \in 1..(n + 1) : order[i] = IF i <= pos THEN l[i]
                                          ELSE IF i = pos + 1 THEN s ELSE l[i - 1]
  <2>1. l \in Seq(Kept)
    BY <1>1
  <2> HIDE DEF l, n, rest
  <2>2. pos \in 0..Len(l) /\ Len(l) = n /\ s \in Kept
    BY <1>1, <1>3
  <2>3. PICK j \in Nat : j = pos + 1
    OBVIOUS
  <2>4. j \in 1..(Len(l) + 1) /\ order = SE!InsertAt(l, j, s)
    BY <2>1, <2>2, <2>3
  <2> HIDE DEF order
  <2>5. /\ order \in Seq(Kept) /\ Len(order) = Len(l) + 1
        /\ \A i \in 1..(Len(l) + 1) : order[i] =
              IF i < j THEN l[i] ELSE IF i = j THEN s ELSE l[i - 1]
    <3>1. s \in Kept /\ j \in 1..(Len(l) + 1)
      BY <2>2, <2>4
    <3>2. order \in Seq(Kept) /\ Inserts(order, l, j, s)
      BY <2>1, <2>4, <3>1, InsertAtPuts
    <3> QED  BY <3>2 DEF Inserts
  <2>6. DOMAIN order = 1..(n + 1)
    BY <2>2, <2>5
  <2>7. ASSUME NEW i \in 1..(n + 1)
        PROVE  order[i] = IF i <= pos THEN l[i]
                                          ELSE IF i = pos + 1 THEN s ELSE l[i - 1]
    BY <1>1, <1>3, <2>2, <2>3, <2>5
  <2> QED  BY <2>2, <2>5, <2>6, <2>7
<1>5. ASSUME NEW x \in rest
      PROVE  Replaced(s, pos, text)[x].pos = IF rank(x) <= pos THEN rank(x) - 1 ELSE rank(x)
  <2> DEFINE place == CHOOSE i \in DOMAIN order : order[i] = x
             at == IF rank(x) <= pos THEN rank(x) ELSE rank(x) + 1
  <2>1. rank(x) \in 1..n /\ l[rank(x)] = x /\ x # s
    BY <1>1
  <2>2. at \in DOMAIN order /\ order[at] = x
    <3> HIDE DEF l, n, rest, order, rank
    <3>1. at \in 1..(n + 1)
      BY <1>1, <1>3, <2>1
    <3>2. order[at] = IF at <= pos THEN l[at] ELSE IF at = pos + 1 THEN s ELSE l[at - 1]
      BY <1>4, <3>1
    <3>3. CASE rank(x) <= pos
      BY <1>4, <3>1, <3>2, <3>3, <2>1
    <3>4. CASE ~(rank(x) <= pos)
      <4>1. at = rank(x) + 1 /\ ~(at <= pos) /\ at # pos + 1 /\ at - 1 = rank(x)
        BY <3>4, <2>1, <1>1, <1>3
      <4> QED  BY <1>4, <3>1, <3>2, <4>1, <2>1
    <3> QED  BY <3>3, <3>4
  <2>3. place \in DOMAIN order /\ order[place] = x
    <3> HIDE DEF order, at
    <3> QED  BY <2>2
  <2>4. place = at
    <3> HIDE DEF l, n, rest, order, rank, place
    <3>1. place \in 1..(n + 1)
      BY <1>4, <2>3
    <3>2. order[place] = IF place <= pos THEN l[place] ELSE IF place = pos + 1 THEN s ELSE l[place - 1]
      BY <1>4, <3>1
    <3>3. CASE place <= pos
      <4>1. place \in 1..n /\ l[place] = x
        BY <3>1, <3>2, <3>3, <2>3, <1>1, <1>3
      <4> QED  BY <4>1, <1>1, <3>3
    <3>4. CASE place = pos + 1
      BY <3>2, <3>4, <2>3, <2>1, <1>3
    <3>5. CASE place > pos + 1
      <4>1. place - 1 \in 1..n /\ l[place - 1] = x
        BY <3>1, <3>2, <3>5, <2>3, <1>1, <1>3
      <4>2. rank(x) = place - 1
        BY <4>1, <1>1
      <4>3. ~(rank(x) <= pos) /\ rank(x) + 1 = place
        BY <4>2, <3>1, <3>5, <1>1, <1>3
      <4> QED  BY <4>3
    <3> QED  BY <3>1, <3>3, <3>4, <3>5, <1>1, <1>3
  <2>5. /\ x \in SlideIds /\ x # s /\ x \in Kept
        /\ rows[x] \in [pos : Nat \cup {-1}, rev : Nat, text : Texts \cup {"none"}]
    BY <2>1 DEF Kept, RowsAreSlides
  <2>6. Replaced(s, pos, text)[x] =
          IF place - 1 # rows[x].pos
          THEN [rows[x] EXCEPT !.pos = place - 1, !.rev = @ + 1] ELSE rows[x]
    BY <2>5 DEF Replaced
  <2>7. Replaced(s, pos, text)[x].pos = place - 1
    <3> HIDE DEF place
    <3> QED  BY <2>5, <2>6
  <2> HIDE DEF place, order, l, rest, n, rank
  <2> QED  BY <2>1, <2>4, <2>7, <1>1, <1>3
<1> QED  BY <1>1, <1>2, <1>5

\* The places that the other slides get, by their ranks among themselves.
RanksPlace(s, pos, new) ==
  \E rank \in [Kept \ {s} -> Nat] :
     /\ \A x \in Kept \ {s} :
          /\ rank[x] \in Nat \ {0}
          /\ new[x].pos = IF rank[x] <= pos THEN rank[x] - 1 ELSE rank[x]
     /\ \A x, y \in Kept \ {s} : rows[x].pos < rows[y].pos => rank[x] < rank[y]

LEMMA ReplacedRanks ==
  ASSUME RowsAreSlides, NEW s \in Kept, NEW pos \in 0..Cardinality(Kept) - 1, NEW text,
         NEW new, new = Replaced(s, pos, text)
  PROVE  RanksPlace(s, pos, new)
<1> DEFINE rest == Kept \ {s}
           r == [x \in rest |-> Cardinality(PosUpTo(rest, x))]
<1>1. /\ Cardinality(rest) \in Nat
      /\ \A x \in rest : /\ Cardinality(PosUpTo(rest, x)) \in 1..Cardinality(rest)
                         /\ Replaced(s, pos, text)[x].pos =
                              IF Cardinality(PosUpTo(rest, x)) <= pos
                              THEN Cardinality(PosUpTo(rest, x)) - 1
                              ELSE Cardinality(PosUpTo(rest, x))
      /\ \A x, y \in rest : rows[x].pos < rows[y].pos =>
            Cardinality(PosUpTo(rest, x)) < Cardinality(PosUpTo(rest, y))
  BY ReplacedPlaces
<1>2. /\ \A x \in rest : /\ r[x] \in 1..Cardinality(rest)
                         /\ new[x].pos = IF r[x] <= pos THEN r[x] - 1 ELSE r[x]
      /\ \A x, y \in rest : rows[x].pos < rows[y].pos => r[x] < r[y]
  BY <1>1
<1>3. PICK n \in Nat : n = Cardinality(rest)
  BY <1>1
<1>4. \A x \in rest : r[x] \in Nat \ {0}
  <2> TAKE x \in rest
  <2>1. r[x] \in 1..n
    BY <1>2, <1>3
  <2> HIDE DEF r
  <2> QED  BY <2>1
<1>5. r \in [rest -> Nat]
  <2>1. \A x \in rest : Cardinality(PosUpTo(rest, x)) \in Nat
    BY <1>4
  <2> QED  BY <2>1
<1> HIDE DEF r
<1> QED  BY <1>2, <1>4, <1>5 DEF RanksPlace

LEMMA ReplaceStep ==
  ASSUME SlidesInv, NEW s \in SlideIds, NEW pos, NEW text \in Texts, NEW expected,
         NEW outcome, ReplaceSlide(s, pos, text, expected, outcome)
  PROVE  /\ SlidesInv' /\ SlidesStep /\ HeldStands /\ AnsweredStand
         /\ outcome = "ok" =>
              /\ s \in Kept /\ ~StaleSlide(s, expected) /\ pos \in 0..Cardinality(Kept) - 1
              /\ presentation' = [presentation EXCEPT !.rev = @ + 1]
              /\ Kept' = Kept
              /\ rows' = Replaced(s, pos, text)
              /\ rows'[s] = [pos |-> pos, rev |-> rows[s].rev + 1, text |-> text]
              /\ \A x \in Kept : x # s => rows'[x].text = rows[x].text
<1> USE DEF SlidesInv
<1>f. /\ \A x \in SlideIds : /\ rows[x].pos \in Nat \cup {-1} /\ rows[x].rev \in Nat
                             /\ rows[x].text \in Texts \cup {"none"}
      /\ Kept \subseteq SlideIds
      /\ \A x \in Kept : rows[x].pos \in Nat
  BY RowsHaveFields
<1>0. answered' = answered
  BY DEF ReplaceSlide
<1>1. CASE Refuse /\ outcome # "ok"
  BY <1>1, <1>0, RefuseStep DEF AnsweredStand, Refuse
<1>2. ASSUME outcome = "ok", s \in Kept, ~StaleSlide(s, expected), ~ChangesAnswered(s, text),
             pos \in 0..Cardinality(Kept) - 1, Write(Kept, Replaced(s, pos, text))
      PROVE  /\ SlidesInv' /\ SlidesStep /\ HeldStands /\ AnsweredStand
             /\ presentation' = [presentation EXCEPT !.rev = @ + 1]
             /\ Kept' = Kept
             /\ rows' = Replaced(s, pos, text)
             /\ rows'[s] = [pos |-> pos, rev |-> rows[s].rev + 1, text |-> text]
             /\ \A x \in Kept : x # s => rows'[x].text = rows[x].text
  <2> DEFINE rest == Kept \ {s}
  <2>n. PICK new : new = Replaced(s, pos, text)
    OBVIOUS
  <2>1. pos \in Nat
    BY <1>2
  <2>2. new[s] = [pos |-> pos, rev |-> rows[s].rev + 1, text |-> text]
    BY <2>n DEF Replaced
  <2>3. \A x \in SlideIds : /\ x \notin Kept => new[x] = rows[x]
                            /\ x \in rest => \/ new[x] = rows[x]
                                             \/ \E p : new[x] = [rows[x] EXCEPT !.pos = p, !.rev = @ + 1]
    BY <1>2, <2>n DEF Replaced
  <2>4. PICK rank \in [rest -> Nat] :
          /\ \A x \in rest : /\ rank[x] \in Nat \ {0}
                             /\ new[x].pos = IF rank[x] <= pos THEN rank[x] - 1 ELSE rank[x]
          /\ \A x, y \in rest : rows[x].pos < rows[y].pos => rank[x] < rank[y]
    <3>1. s \in Kept /\ pos \in 0..Cardinality(Kept) - 1
      BY <1>2
    <3>2. RowsAreSlides
      OBVIOUS
    <3> HIDE DEF SlidesInv
    <3>3. RanksPlace(s, pos, new)
      BY <3>1, <3>2, <2>n, ReplacedRanks
    <3> QED  BY <3>3 DEF RanksPlace
  <2>5. \A x \in rest : /\ new[x] = rows[x] \/ new[x].rev = rows[x].rev + 1
                        /\ new[x].text = rows[x].text
                        /\ new[x].pos \in Nat
                        /\ new[x] \in [pos : Nat \cup {-1}, rev : Nat, text : Texts \cup {"none"}]
    <3> TAKE x \in rest
    <3>1. new[x].pos \in Nat
      BY <2>1, <2>4
    <3>2. /\ rows[x].pos \in Nat \cup {-1} /\ rows[x].rev \in Nat
          /\ rows[x].text \in Texts \cup {"none"}
          /\ x \in SlideIds
      BY <1>f
    <3>5. rows[x] = [pos |-> rows[x].pos, rev |-> rows[x].rev, text |-> rows[x].text]
      BY <3>2, RowsHaveFields
    <3>3. CASE new[x] = rows[x]
      <4>1. rows[x] \in [pos : Nat \cup {-1}, rev : Nat, text : Texts \cup {"none"}]
        BY <3>2, <3>5
      <4> QED  BY <4>1, <3>1, <3>3
    <3>4. ASSUME NEW p, new[x] = [rows[x] EXCEPT !.pos = p, !.rev = @ + 1]
          PROVE  /\ new[x].rev = rows[x].rev + 1
                 /\ new[x].text = rows[x].text
                 /\ new[x] \in [pos : Nat \cup {-1}, rev : Nat, text : Texts \cup {"none"}]
      <4>1. new[x] = [pos |-> p, rev |-> rows[x].rev + 1, text |-> rows[x].text]
        BY <3>5, <3>4
      <4>2. p \in Nat /\ rows[x].rev + 1 \in Nat
        BY <3>1, <3>2, <4>1
      <4> QED  BY <3>2, <4>1, <4>2
    <3> QED  BY <2>3, <3>1, <3>2, <3>3, <3>4
  <2>6. \A x, y \in rest : new[x].pos = new[y].pos => x = y
    <3> TAKE x, y \in rest
    <3>1. rows[x].pos = rows[y].pos => x = y
      BY DEF RowsAreSlides
    <3>2. rows[x].pos < rows[y].pos => new[x].pos < new[y].pos
      BY <2>1, <2>4
    <3>3. rows[y].pos < rows[x].pos => new[y].pos < new[x].pos
      BY <2>1, <2>4
    <3> QED  BY <3>1, <3>2, <3>3, <2>5, <1>f
  <2>7. \A x \in rest : new[x].pos # pos
    BY <2>1, <2>4
  <2>8. new \in [SlideIds -> [pos : Nat \cup {-1}, rev : Nat, text : Texts \cup {"none"}]]
    <3>1. \A x \in SlideIds : new[x] \in [pos : Nat \cup {-1}, rev : Nat, text : Texts \cup {"none"}]
      <4> TAKE x \in SlideIds
      <4>1. CASE x = s
        <5>1. rows[s].rev + 1 \in Nat /\ pos \in Nat \cup {-1} /\ text \in Texts \cup {"none"}
          BY <1>f, <2>1
        <5> QED  BY <4>1, <5>1, <2>2
      <4>2. CASE x \in rest
        BY <4>2, <2>5
      <4>3. CASE x \notin Kept
        BY <4>3, <2>3 DEF RowsAreSlides
      <4> QED  BY <4>1, <4>2, <4>3
    <3>2. new = [x \in SlideIds |-> new[x]]
      <4>1. Replaced(s, pos, text) = [x \in SlideIds |-> Replaced(s, pos, text)[x]]
        BY DEF Replaced
      <4> QED  BY <2>n, <4>1
    <3> QED  BY <3>1, <3>2
  <2>p. new[s].pos = pos /\ new[s].rev = rows[s].rev + 1
    BY <2>2
  <2>9. \A x \in SlideIds : IF x \in Kept THEN new[x].pos >= 0 ELSE new[x] = rows[x]
    <3> TAKE x \in SlideIds
    <3>1. CASE x = s
      BY <3>1, <1>2, <2>p, <2>1
    <3>2. CASE x # s /\ x \in Kept
      <4>1. new[x].pos \in Nat
        BY <3>2, <2>5
      <4> QED  BY <3>2, <4>1
    <3>3. CASE x \notin Kept
      BY <3>3, <2>3
    <3> QED  BY <3>1, <3>2, <3>3
  <2>10. \A x, y \in Kept : new[x].pos = new[y].pos => x = y
    <3> TAKE x, y \in Kept
    <3> QED  BY <2>p, <2>6, <2>7
  <2>11. \A x \in Kept : new[x] = rows[x] \/ new[x].rev = rows[x].rev + 1
    <3> TAKE x \in Kept
    <3> QED  BY <2>p, <2>5
  <2>t. \A x \in Kept : new[x].text \in Texts
    <3> TAKE x \in Kept
    <3>1. rows[x].text \in Texts
      BY DEF RowsAreSlides
    <3>2. new[s].text = text
      BY <2>2
    <3> QED  BY <2>5, <3>1, <3>2
  <2>12. Write(Kept, new)
    BY <1>2, <2>n
  <2>13. SlidesInv' /\ SlidesStep /\ HeldStands /\ Kept' = Kept
    BY <1>0, <2>t, <2>8, <2>9, <2>10, <2>11, <2>12, WriteAll
  <2>14. rows' = new /\ presentation' = [presentation EXCEPT !.rev = @ + 1]
    BY <2>12 DEF Write
  <2>15. AnsweredStand
    <3> SUFFICES ASSUME NEW x \in answered
                 PROVE  new[x].text = rows[x].text
      BY <2>14 DEF AnsweredStand
    <3>1. x \in Kept
      BY DEF RowsAreSlides
    <3>2. CASE x = s
      BY <1>2, <2>2, <3>2 DEF ChangesAnswered
    <3> QED  BY <2>5, <3>1, <3>2
  <2>16. \A x \in Kept : x # s => new[x].text = rows[x].text
    BY <2>5
  <2> QED  BY <2>2, <2>13, <2>14, <2>15, <2>16, <2>n
<1>4. CASE ~(Refuse /\ outcome # "ok")
  <2>1. /\ outcome = "ok" /\ s \in Kept /\ ~StaleSlide(s, expected) /\ ~ChangesAnswered(s, text)
        /\ pos \in 0..Cardinality(Kept) - 1 /\ Write(Kept, Replaced(s, pos, text))
    BY <1>4 DEF ReplaceSlide, Victim
  <2> QED  BY <1>2, <2>1
<1> QED  BY <1>1, <1>4

LEMMA ReorderStep ==
  ASSUME SlidesInv, NEW order \in Seq(SlideIds), NEW expected,
         NEW outcome, ReorderSlides(order, expected, outcome)
  PROVE  /\ SlidesInv' /\ SlidesStep /\ HeldStands /\ AnsweredStand
         /\ outcome = "ok" =>
              /\ ~Stale(expected, presentation.rev)
              /\ presentation' = [presentation EXCEPT !.rev = @ + 1]
              /\ Kept' = Kept /\ \A i \in DOMAIN order : order[i] \in Kept
              /\ \A x \in Kept : /\ rows'[x].text = rows[x].text
                                 /\ rows'[x].rev = rows[x].rev + 1
                                 /\ rows'[x].pos + 1 \in DOMAIN order
                                 /\ order[rows'[x].pos + 1] = x
<1> USE DEF SlidesInv
<1>f. /\ \A x \in SlideIds : /\ rows[x].pos \in Nat \cup {-1} /\ rows[x].rev \in Nat
                             /\ rows[x].text \in Texts \cup {"none"}
      /\ Kept \subseteq SlideIds
      /\ \A x \in Kept : rows[x].pos \in Nat
  BY RowsHaveFields
<1>0. answered' = answered
  BY DEF ReorderSlides
<1>1. CASE Refuse /\ outcome # "ok"
  BY <1>1, <1>0, RefuseStep DEF AnsweredStand, Refuse
<1>2. ASSUME outcome = "ok", ~Stale(expected, presentation.rev),
             SE!ToSet(order) = Kept, Write(Kept, Reordered(order))
      PROVE  /\ SlidesInv' /\ SlidesStep /\ HeldStands /\ AnsweredStand
             /\ presentation' = [presentation EXCEPT !.rev = @ + 1]
             /\ Kept' = Kept /\ \A i \in DOMAIN order : order[i] \in Kept
             /\ \A x \in Kept : /\ rows'[x].text = rows[x].text
                                /\ rows'[x].rev = rows[x].rev + 1
                                /\ rows'[x].pos + 1 \in DOMAIN order
                                /\ order[rows'[x].pos + 1] = x
  <2> DEFINE new == Reordered(order)
             at(x) == CHOOSE i \in DOMAIN order : order[i] = x
  <2>1. Kept = {order[i] : i \in DOMAIN order}
    BY <1>2 DEF SE!ToSet
  <2>2. ASSUME NEW x \in Kept
        PROVE  at(x) \in Nat \ {0} /\ at(x) \in DOMAIN order /\ order[at(x)] = x
    <3>1. \E i \in DOMAIN order : order[i] = x
      BY <2>1
    <3>2. at(x) \in DOMAIN order /\ order[at(x)] = x
      BY <3>1
    <3> HIDE DEF at
    <3> QED  BY <3>2
  <2>3. \A x \in SlideIds : IF x \in Kept THEN new[x] = [rows[x] EXCEPT !.pos = at(x) - 1, !.rev = @ + 1]
                            ELSE new[x] = rows[x]
    BY DEF Reordered
  <2>4. new = [x \in SlideIds |-> new[x]]
    BY DEF Reordered
  <2> HIDE DEF new, at
  <2>5. ASSUME NEW x \in Kept
        PROVE  /\ new[x].pos = at(x) - 1 /\ new[x].rev = rows[x].rev + 1
               /\ new[x].text = rows[x].text
               /\ new[x] \in [pos : Nat \cup {-1}, rev : Nat, text : Texts \cup {"none"}]
    <3>1. rows[x].rev \in Nat /\ rows[x].text \in Texts \cup {"none"} /\ x \in SlideIds
      BY <1>f
    <3>2. rows[x] = [pos |-> rows[x].pos, rev |-> rows[x].rev, text |-> rows[x].text]
      BY <3>1, RowsHaveFields
    <3>3. new[x] = [rows[x] EXCEPT !.pos = at(x) - 1, !.rev = @ + 1]
      BY <3>1, <2>3
    <3>4. PICK p \in Nat : p = at(x) - 1
      BY <2>2
    <3>5. new[x] = [pos |-> p, rev |-> rows[x].rev + 1, text |-> rows[x].text]
      BY <3>2, <3>3, <3>4
    <3> QED  BY <3>1, <3>4, <3>5
  <2>6. new \in [SlideIds -> [pos : Nat \cup {-1}, rev : Nat, text : Texts \cup {"none"}]]
    <3>1. \A x \in SlideIds : new[x] \in [pos : Nat \cup {-1}, rev : Nat, text : Texts \cup {"none"}]
      BY <2>3, <2>5 DEF RowsAreSlides
    <3> QED  BY <3>1, <2>4
  <2>7. \A x \in SlideIds : IF x \in Kept THEN new[x].pos >= 0 ELSE new[x] = rows[x]
    <3> TAKE x \in SlideIds
    <3>1. CASE x \in Kept
      BY <3>1, <2>2, <2>5
    <3>2. CASE x \notin Kept
      BY <3>2, <2>3
    <3> QED  BY <3>1, <3>2
  <2>8. \A x, y \in Kept : new[x].pos = new[y].pos => x = y
    <3> SUFFICES ASSUME NEW x \in Kept, NEW y \in Kept, new[x].pos = new[y].pos
                 PROVE  x = y
      OBVIOUS
    <3>1. at(x) = at(y)
      BY <2>2, <2>5
    <3> QED  BY <3>1, <2>2
  <2>t. \A x \in Kept : new[x].text \in Texts
    <3> TAKE x \in Kept
    <3>1. rows[x].text \in Texts
      BY DEF RowsAreSlides
    <3> QED  BY <2>5, <3>1
  <2>9. Write(Kept, new)
    BY <1>2 DEF new
  <2>10. SlidesInv' /\ SlidesStep /\ HeldStands /\ Kept' = Kept
    BY <1>0, <2>t, <2>5, <2>6, <2>7, <2>8, <2>9, WriteAll
  <2>11. rows' = new /\ presentation' = [presentation EXCEPT !.rev = @ + 1]
    BY <2>9 DEF Write
  <2>12. answered \subseteq Kept
    BY DEF RowsAreSlides
  <2>13. \A i \in DOMAIN order : order[i] \in Kept
    BY <2>1
  <2>14. \A x \in Kept : rows'[x].pos + 1 \in DOMAIN order /\ order[rows'[x].pos + 1] = x
    <3> TAKE x \in Kept
    <3>1. rows'[x].pos + 1 = at(x)
      BY <2>2, <2>5, <2>11
    <3> QED  BY <3>1, <2>2
  <2> QED  BY <2>5, <2>10, <2>11, <2>12, <2>13, <2>14 DEF AnsweredStand
<1>4. CASE ~(Refuse /\ outcome # "ok")
  <2>1. /\ outcome = "ok" /\ ~Stale(expected, presentation.rev)
        /\ SE!ToSet(order) = Kept /\ Write(Kept, Reordered(order))
    BY <1>4 DEF ReorderSlides, Victim
  <2> QED  BY <1>2, <2>1
<1> QED  BY <1>1, <1>4

LEMMA SameRows ==
  ASSUME SlidesInv, UNCHANGED <<presentation, rows>>
  PROVE  /\ Kept' = Kept /\ SlidesStep
         /\ answered' \subseteq Kept => RowsAreSlides'
<1>1. Kept' = Kept
  BY DEF Kept
<1>2. presentation.rev \in Nat /\ \A s \in SlideIds : rows[s].rev \in Nat
  BY RowsHaveFields DEF SlidesInv
<1>3. SlidesStep
  <2>1. \A s \in Kept : s \in SlideIds
    BY DEF Kept
  <2> QED  BY <1>1, <1>2, <2>1 DEF SlidesStep
<1>4. answered' \subseteq Kept => RowsAreSlides'
  BY <1>1 DEF SlidesInv, RowsAreSlides
<1> QED  BY <1>1, <1>3, <1>4

LEMMA SettingStep ==
  ASSUME SlidesInv, NEW value \in Music, NEW expected, NEW outcome,
         UpdateSetting(value, expected, outcome)
  PROVE  /\ SlidesInv' /\ SlidesStep /\ HeldStands /\ AnsweredStand
         /\ rows' = rows /\ Kept' = Kept
         /\ outcome = "ok" => /\ ~Stale(expected, presentation.rev)
                              /\ presentation' = [rev |-> presentation.rev + 1, music |-> value]
<1>1. UNCHANGED <<rows, deleting, answered>> /\ Kept' = Kept
  BY DEF UpdateSetting, Kept
<1>2. presentation.rev \in Nat \ {0} /\ \A s \in SlideIds : rows[s].rev \in Nat
  BY RowsHaveFields DEF SlidesInv
<1>3. \/ presentation' = presentation
      \/ presentation' = [rev |-> presentation.rev + 1, music |-> value]
  BY DEF UpdateSetting
<1>4. /\ presentation' \in [rev : Nat \ {0}, music : Music]
      /\ presentation.rev <= presentation'.rev
      /\ presentation'.rev = presentation.rev => presentation' = presentation
  <2>1. CASE presentation' = presentation
    BY <2>1, <1>2 DEF SlidesInv, RowsAreSlides
  <2>2. CASE presentation' = [rev |-> presentation.rev + 1, music |-> value]
    BY <2>2, <1>2
  <2> QED  BY <1>3, <2>1, <2>2
<1>5. RowsAreSlides'
  BY <1>1, <1>4 DEF SlidesInv, RowsAreSlides
<1>6. \A d \in Deleters : Held(d)' = Held(d) /\ Deleting(d)' = Deleting(d)
  BY <1>1 DEF Held, Deleting
<1>7. DeletesHold'
  BY <1>1, <1>6 DEF SlidesInv, DeletesHold, DeleteHolds
<1>8. SlidesStep
  <2>1. \A s \in Kept : s \in SlideIds
    BY DEF Kept
  <2> QED  BY <1>1, <1>2, <1>4, <2>1 DEF SlidesStep
<1>9. HeldStands /\ AnsweredStand
  BY <1>1, <1>6 DEF HeldStands, AnsweredStand
<1> QED  BY <1>1, <1>5, <1>7, <1>8, <1>9 DEF SlidesInv, UpdateSetting

LEMMA FindStep ==
  ASSUME SlidesInv, NEW d \in Deleters, NEW s \in SlideIds, NEW expected, NEW outcome,
         FindDoomed(d, s, expected, outcome)
  PROVE  /\ SlidesInv' /\ SlidesStep /\ HeldStands /\ AnsweredStand
         /\ UNCHANGED <<presentation, rows, answered>>
         /\ \A e \in Deleters : e # d => deleting'[e] = deleting[e]
         /\ deleting[d].step = "idle"
         /\ IF outcome = "pending"
            THEN /\ s \in Kept /\ ~StaleSlide(s, expected)
                 /\ deleting'[d].step = "found" /\ deleting'[d].slide = s
            ELSE deleting' = deleting
<1>1. UNCHANGED <<presentation, rows, answered>> /\ deleting[d].step = "idle" /\ Holders({s}) = {}
  BY DEF FindDoomed
<1>2. answered \subseteq Kept /\ Kept' = Kept /\ SlidesStep /\ RowsAreSlides'
  <2>1. answered \subseteq Kept
    BY DEF SlidesInv, RowsAreSlides
  <2> QED  BY <1>1, <2>1, SameRows
<1>3. AnsweredStand
  BY <1>1 DEF AnsweredStand
<1>4. CASE outcome = "pending"
  <2>1. /\ s \in Kept /\ ~StaleSlide(s, expected) /\ s \notin answered
        /\ deleting' = [deleting EXCEPT ![d] =
                         [step |-> "found", slide |-> s, pos |-> rows[s].pos,
                          moved |-> {}]]
    BY <1>4 DEF FindDoomed
  <2>2. rows[s].pos \in Int
    BY RowsHaveFields DEF SlidesInv
  <2>3. /\ deleting' \in [Deleters -> [step : {"idle", "found", "shifted", "committed", "aborted"},
                                slide : SlideIds \cup {"none"}, pos : Int,
                                moved : SUBSET SlideIds]]
        /\ deleting'[d] = [step |-> "found", slide |-> s, pos |-> rows[s].pos, moved |-> {}]
        /\ \A e \in Deleters : e # d => deleting'[e] = deleting[e]
    BY <2>1, <2>2 DEF SlidesInv, DeletesHold
  <2>4. /\ deleting'[d].step = "found" /\ deleting'[d].slide = s /\ deleting'[d].pos = rows[s].pos
        /\ Held(d)' = {s}
    BY <2>3 DEF Held
  <2>5. \A e \in Deleters : DeleteHolds(e)'
    <3> TAKE e \in Deleters
    <3>1. CASE e = d
      BY <3>1, <2>1, <2>4, <1>1, <1>2 DEF DeleteHolds, Deleting
    <3>2. CASE e # d
      <4>1. DeleteHolds(e) /\ deleting'[e] = deleting[e]
        BY <3>2, <2>3 DEF SlidesInv, DeletesHold
      <4> QED  BY <4>1, <1>1, <1>2 DEF DeleteHolds, Deleting
    <3> QED  BY <3>1, <3>2
  <2>6. \A e \in Deleters : e # d => Held(e)' = Held(e) /\ s \notin Held(e)
    <3>1. \A e \in Deleters : s \notin Held(e)
      BY <1>1 DEF Holders
    <3> QED  BY <3>1, <2>3 DEF Held
  <2>7. \A e, g \in Deleters : e # g => Held(e)' \cap Held(g)' = {}
    <3>1. \A e, g \in Deleters : e # g => Held(e) \cap Held(g) = {}
      BY DEF SlidesInv, DeletesHold
    <3> QED  BY <3>1, <2>4, <2>6
  <2>8. DeletesHold'
    BY <2>3, <2>5, <2>7 DEF DeletesHold
  <2>9. HeldStands
    <3>1. \A e \in Deleters : StandsFor(e)
      <4> TAKE e \in Deleters
      <4>1. CASE e = d
        BY <4>1, <1>1, <2>3, <2>4 DEF StandsFor, Deleting
      <4>2. CASE e # d
        BY <4>2, <1>1, <2>3, <2>4 DEF StandsFor, Deleting
      <4> QED  BY <4>1, <4>2
    <3> QED  BY <3>1, StandsForEach
  <2> QED  BY <1>1, <1>2, <1>3, <1>4, <2>1, <2>3, <2>4, <2>8, <2>9 DEF SlidesInv
<1>5. CASE outcome # "pending"
  <2>1. deleting' = deleting
    BY <1>5 DEF FindDoomed
  <2>2. SlidesInv' /\ HeldStands
    BY <1>1, <2>1, RefuseStep DEF Refuse
  <2> QED  BY <1>1, <1>2, <1>3, <1>5, <2>1, <2>2
<1> QED  BY <1>4, <1>5

LEMMA ShiftStep ==
  ASSUME SlidesInv, NEW d \in Deleters, ShiftAbove(d)
  PROVE  /\ SlidesInv' /\ SlidesStep /\ HeldStands /\ AnsweredStand
<1> DEFINE t == deleting[d]
           above == From(t.pos + 1)
<1>1. /\ t.step = "found" /\ Holders(above) \subseteq {d}
      /\ deleting' = [deleting EXCEPT ![d].step = "shifted", ![d].moved = above]
      /\ UNCHANGED <<presentation, rows, answered>>
  BY DEF ShiftAbove
<1>2. answered \subseteq Kept /\ Kept' = Kept /\ SlidesStep /\ RowsAreSlides'
  <2>1. answered \subseteq Kept
    BY DEF SlidesInv, RowsAreSlides
  <2> QED  BY <1>1, <2>1, SameRows
<1>3. /\ t \in [step : {"idle", "found", "shifted", "committed", "aborted"},
                slide : SlideIds \cup {"none"}, pos : Int, moved : SUBSET SlideIds]
      /\ t.slide \in Kept \ answered /\ t.pos = rows[t.slide].pos /\ t.pos \in Int
  BY <1>1 DEF SlidesInv, DeletesHold, DeleteHolds, Deleting
<1>4. /\ above \subseteq Kept /\ above \subseteq SlideIds
      /\ \A x \in Kept : x \in above <=> t.pos < rows[x].pos
  <2>1. \A x \in Kept : x \in SlideIds /\ rows[x].pos \in Int
    BY RowsHaveFields DEF SlidesInv
  <2> QED  BY <2>1, <1>3 DEF From
<1> HIDE DEF above
<1>5. /\ deleting'[d] = [step |-> "shifted", slide |-> t.slide, pos |-> t.pos, moved |-> above]
      /\ \A e \in Deleters : e # d => deleting'[e] = deleting[e]
      /\ deleting' \in [Deleters -> [step : {"idle", "found", "shifted", "committed", "aborted"},
                                slide : SlideIds \cup {"none"}, pos : Int,
                                moved : SUBSET SlideIds]]
  BY <1>1, <1>3, <1>4 DEF SlidesInv, DeletesHold
<1>6. /\ deleting'[d].step = "shifted" /\ deleting'[d].slide = t.slide
      /\ deleting'[d].pos = t.pos /\ deleting'[d].moved = above
      /\ Held(d)' = {t.slide} \cup above /\ Held(d) = {t.slide}
  BY <1>1, <1>5 DEF Held
<1>7. \A e \in Deleters : DeleteHolds(e)'
  <2> TAKE e \in Deleters
  <2>1. CASE e = d
    BY <2>1, <1>1, <1>2, <1>3, <1>4, <1>6 DEF DeleteHolds, Deleting
  <2>2. CASE e # d
    <3>1. DeleteHolds(e) /\ deleting'[e] = deleting[e]
      BY <2>2, <1>5 DEF SlidesInv, DeletesHold
    <3> QED  BY <3>1, <1>1, <1>2 DEF DeleteHolds, Deleting
  <2> QED  BY <2>1, <2>2
<1>8. \A e \in Deleters : e # d => Held(e)' = Held(e) /\ Held(e) \cap above = {}
  <2>1. \A e \in Deleters : e # d => Held(e) \cap above = {}
    BY <1>1 DEF Holders
  <2> QED  BY <2>1, <1>5 DEF Held
<1>9. \A e, g \in Deleters : e # g => Held(e)' \cap Held(g)' = {}
  <2>1. \A e, g \in Deleters : e # g => Held(e) \cap Held(g) = {}
    BY DEF SlidesInv, DeletesHold
  <2> QED  BY <2>1, <1>6, <1>8
<1>10. DeletesHold'
  BY <1>5, <1>7, <1>9 DEF DeletesHold
<1>11. HeldStands
  <2>1. \A e \in Deleters : StandsFor(e)
    <3> TAKE e \in Deleters
    <3>1. CASE e = d
      BY <3>1, <1>1, <1>5, <1>6 DEF StandsFor, Deleting
    <3>2. CASE e # d
      BY <3>2, <1>1, <1>5, <1>6 DEF StandsFor, Deleting
    <3> QED  BY <3>1, <3>2
  <2> QED  BY <2>1, StandsForEach
<1> QED  BY <1>1, <1>2, <1>10, <1>11 DEF SlidesInv, AnsweredStand

\* A transaction that ends without a write, and an ended one that is answered.
LEMMA EndStep ==
  ASSUME SlidesInv, NEW d \in Deleters, UNCHANGED <<presentation, rows, answered>>,
         deleting' \in [Deleters -> [step : {"idle", "found", "shifted", "committed", "aborted"},
                                slide : SlideIds \cup {"none"}, pos : Int,
                                moved : SUBSET SlideIds]],
         \A e \in Deleters : e # d => deleting'[e] = deleting[e],
         (Deleting(d) /\ deleting'[d].step = "aborted") \/ deleting'[d].step = "idle"
  PROVE  SlidesInv' /\ SlidesStep /\ HeldStands /\ AnsweredStand
<1>1. answered \subseteq Kept /\ Kept' = Kept /\ SlidesStep /\ RowsAreSlides'
  <2>1. answered \subseteq Kept
    BY DEF SlidesInv, RowsAreSlides
  <2> QED  BY <2>1, SameRows
<1>2. ~Deleting(d)' /\ Held(d)' = {} /\ deleting'[d].step # "shifted"
  BY DEF Deleting, Held
<1>3. \A e \in Deleters : DeleteHolds(e)'
  <2> TAKE e \in Deleters
  <2>1. CASE e = d
    BY <2>1, <1>2 DEF DeleteHolds
  <2>2. CASE e # d
    <3>1. DeleteHolds(e) /\ deleting'[e] = deleting[e]
      BY <2>2 DEF SlidesInv, DeletesHold
    <3> QED  BY <3>1, <1>1 DEF DeleteHolds, Deleting
  <2> QED  BY <2>1, <2>2
<1>4. \A e, g \in Deleters : e # g => Held(e)' \cap Held(g)' = {}
  <2>1. \A e, g \in Deleters : e # g => Held(e) \cap Held(g) = {}
    BY DEF SlidesInv, DeletesHold
  <2>2. \A e \in Deleters : e # d => Held(e)' = Held(e)
    BY DEF Held
  <2> QED  BY <2>1, <2>2, <1>2
<1>5. DeletesHold'
  BY <1>3, <1>4 DEF DeletesHold
<1>6. HeldStands
  <2>1. \A e \in Deleters : StandsFor(e)
    <3> TAKE e \in Deleters
    <3>1. CASE e = d
      BY <3>1, <1>2 DEF StandsFor, Deleting
    <3>2. CASE e # d
      BY <3>2, <1>2 DEF StandsFor, Deleting
    <3> QED  BY <3>1, <3>2
  <2> QED  BY <2>1, StandsForEach
<1> QED  BY <1>1, <1>5, <1>6 DEF SlidesInv, AnsweredStand

LEMMA AbortStep ==
  ASSUME SlidesInv, NEW d \in Deleters, AbortDelete(d)
  PROVE  SlidesInv' /\ SlidesStep /\ HeldStands /\ AnsweredStand
<1>1. UNCHANGED <<presentation, rows, answered>> /\ Deleting(d) /\ deleting' = Aborted({d})
  BY DEF AbortDelete, Deleting
<1>2. /\ deleting' \in [Deleters -> [step : {"idle", "found", "shifted", "committed", "aborted"},
                                slide : SlideIds \cup {"none"}, pos : Int,
                                moved : SUBSET SlideIds]]
      /\ \A e \in Deleters : e # d => deleting'[e] = deleting[e]
      /\ deleting'[d].step = "aborted"
  BY <1>1, AbortedFields DEF SlidesInv
<1> QED  BY <1>1, <1>2, EndStep

LEMMA AnswerStep ==
  ASSUME SlidesInv, NEW s \in SlideIds, AnswerSlide(s) \/ DeleteResults
  PROVE  SlidesInv' /\ SlidesStep /\ HeldStands /\ AnsweredStand
<1>1. UNCHANGED <<presentation, rows, deleting>>
  BY DEF AnswerSlide, DeleteResults
<1>2. answered \subseteq Kept
  BY DEF SlidesInv, RowsAreSlides
<1>3. answered' \subseteq Kept /\ \A d \in Deleters : Held(d) \cap answered' \subseteq answered
  <2>1. CASE AnswerSlide(s)
    BY <2>1, <1>2 DEF AnswerSlide, Answerable, Holders
  <2>2. CASE DeleteResults
    BY <2>2 DEF DeleteResults
  <2> QED  BY <2>1, <2>2
<1>4. Kept' = Kept /\ SlidesStep /\ RowsAreSlides'
  BY <1>1, <1>3, SameRows
<1>5. \A d \in Deleters : Held(d)' = Held(d) /\ Deleting(d)' = Deleting(d)
  BY <1>1 DEF Held, Deleting
<1>6. \A d \in Deleters : DeleteHolds(d)'
  <2> TAKE d \in Deleters
  <2>1. DeleteHolds(d)
    BY DEF SlidesInv, DeletesHold
  <2>2. Deleting(d) => deleting[d].slide \in Held(d)
    BY DEF Deleting, Held
  <2> QED  BY <1>1, <1>3, <1>4, <1>5, <2>1, <2>2 DEF DeleteHolds
<1>7. DeletesHold'
  BY <1>1, <1>5, <1>6 DEF SlidesInv, DeletesHold
<1>8. HeldStands /\ AnsweredStand
  BY <1>1, <1>5 DEF HeldStands, AnsweredStand
<1> QED  BY <1>4, <1>7, <1>8 DEF SlidesInv

LEMMA CommitStep ==
  ASSUME SlidesInv, NEW d \in Deleters, CommitDelete(d)
  PROVE  SlidesInv' /\ SlidesStep /\ HeldStands /\ AnsweredStand
<1>1. PICK t : t = deleting[d]
  OBVIOUS
<1>2. /\ t.step = "shifted" /\ answered' = answered
      /\ presentation' = [presentation EXCEPT !.rev = @ + 1]
      /\ deleting' = [deleting EXCEPT ![d] = [NoDelete EXCEPT !.step = "committed"]]
  BY <1>1 DEF CommitDelete
<1>3. rows' = [x \in SlideIds |->
         IF x = t.slide THEN Gone
         ELSE IF x \in t.moved THEN [rows[x] EXCEPT !.pos = @ - 1, !.rev = @ + 1]
         ELSE rows[x]]
  BY <1>1 DEF CommitDelete
<1>f. /\ \A x \in SlideIds : /\ rows[x].pos \in Nat \cup {-1} /\ rows[x].rev \in Nat
                             /\ rows[x].text \in Texts \cup {"none"}
      /\ presentation.rev \in Nat \ {0} /\ presentation.music \in Music
      /\ presentation = [rev |-> presentation.rev, music |-> presentation.music]
      /\ Kept \subseteq SlideIds
      /\ \A x \in Kept : rows[x].pos \in Nat
      /\ \A x \in SlideIds : x \notin Kept => rows[x].pos = -1
  BY RowsHaveFields DEF SlidesInv
<1>4. /\ t.slide \in Kept /\ t.slide \notin answered /\ t.pos = rows[t.slide].pos
      /\ t.moved \subseteq Kept
      /\ \A m \in t.moved : t.pos < rows[m].pos
      /\ \A x \in Kept \ t.moved, m \in t.moved : t.pos < rows[x].pos => rows[m].pos < rows[x].pos
  BY <1>1, <1>2 DEF SlidesInv, DeletesHold, DeleteHolds, Deleting
<1>5. t.pos \in Nat /\ t.slide \in SlideIds /\ t.slide \notin t.moved
  BY <1>4, <1>f
<1>6. \A x \in Kept : x # t.slide /\ x \notin t.moved => rows[x].pos # t.pos
  BY <1>4 DEF SlidesInv, RowsAreSlides
<1>7. /\ \A x \in SlideIds : x = t.slide => rows'[x] = Gone
      /\ \A x \in SlideIds : x # t.slide /\ x \notin t.moved => rows'[x] = rows[x]
  BY <1>3
<1>8. \A x \in t.moved : rows'[x] = [pos |-> rows[x].pos - 1, rev |-> rows[x].rev + 1,
                                     text |-> rows[x].text]
  <2> TAKE x \in t.moved
  <2>1. x \in SlideIds /\ x # t.slide
    BY <1>4, <1>5, <1>f
  <2>2. rows[x] = [pos |-> rows[x].pos, rev |-> rows[x].rev, text |-> rows[x].text]
    BY <2>1, RowsHaveFields DEF SlidesInv
  <2>3. rows'[x] = [rows[x] EXCEPT !.pos = @ - 1, !.rev = @ + 1]
    BY <2>1, <1>3
  <2> QED  BY <2>2, <2>3
<1>9. \A x \in t.moved : /\ rows'[x].pos = rows[x].pos - 1 /\ rows'[x].rev = rows[x].rev + 1
                         /\ rows'[x].text = rows[x].text
                         /\ rows[x].pos - 1 \in Nat
  <2> TAKE x \in t.moved
  <2>1. rows'[x] = [pos |-> rows[x].pos - 1, rev |-> rows[x].rev + 1, text |-> rows[x].text]
    BY <1>8
  <2>2. rows[x].pos - 1 \in Nat
    BY <1>4, <1>5, <1>f
  <2> QED  BY <2>1, <2>2
<1>10. Kept' = Kept \ {t.slide}
  <2>1. \A x \in SlideIds : rows'[x].pos >= 0 <=> x \in Kept /\ x # t.slide
    <3> TAKE x \in SlideIds
    <3>1. CASE x = t.slide
      BY <3>1, <1>7 DEF Gone
    <3>2. CASE x \in t.moved
      BY <3>2, <1>9, <1>4, <1>5
    <3>3. CASE x # t.slide /\ x \notin t.moved
      BY <3>3, <1>7, <1>f
    <3> QED  BY <3>1, <3>2, <3>3
  <2> QED  BY <2>1, <1>f DEF Kept
<1>11. \A x \in Kept' : x \in Kept /\ x \in SlideIds /\ x # t.slide
  BY <1>10, <1>f
<1>12. RowsAreSlides'
  <2>1. presentation' \in [rev : Nat \ {0}, music : Music]
    BY <1>2, <1>f
  <2>2. rows' \in [SlideIds -> [pos : Nat \cup {-1}, rev : Nat, text : Texts \cup {"none"}]]
    <3>1. \A x \in SlideIds : rows'[x] \in [pos : Nat \cup {-1}, rev : Nat, text : Texts \cup {"none"}]
      <4> TAKE x \in SlideIds
      <4>1. rows[x] \in [pos : Nat \cup {-1}, rev : Nat, text : Texts \cup {"none"}]
        BY DEF SlidesInv, RowsAreSlides
      <4>2. CASE x = t.slide
        BY <4>2, <1>7 DEF Gone
      <4>3. CASE x \in t.moved
        <5>1. rows'[x] = [pos |-> rows[x].pos - 1, rev |-> rows[x].rev + 1, text |-> rows[x].text]
          BY <4>3, <1>8
        <5>2. rows[x].pos - 1 \in Nat \cup {-1} /\ rows[x].rev + 1 \in Nat
              /\ rows[x].text \in Texts \cup {"none"}
          BY <4>3, <1>9, <1>f
        <5> QED  BY <5>1, <5>2
      <4>4. CASE x # t.slide /\ x \notin t.moved
        BY <4>1, <4>4, <1>7
      <4> QED  BY <4>2, <4>3, <4>4
    <3>2. rows' = [x \in SlideIds |-> rows'[x]]
      BY <1>3
    <3> QED  BY <3>1, <3>2
  <2>3. \A x \in SlideIds : x \notin Kept' => rows'[x] \in {Unborn, Gone}
    <3> SUFFICES ASSUME NEW x \in SlideIds, x \notin Kept'
                 PROVE  rows'[x] \in {Unborn, Gone}
      OBVIOUS
    <3>1. x = t.slide \/ x \notin Kept
      BY <1>10
    <3>2. x \notin Kept => rows[x] \in {Unborn, Gone} /\ x \notin t.moved
      BY <1>4 DEF SlidesInv, RowsAreSlides
    <3> QED  BY <3>1, <3>2, <1>7
  <2>4. \A x \in Kept' : rows'[x].rev >= 1 /\ rows'[x].text \in Texts
    <3> TAKE x \in Kept'
    <3>1. rows[x].rev >= 1 /\ rows[x].rev \in Nat /\ rows[x].text \in Texts
      BY <1>11, <1>f DEF SlidesInv, RowsAreSlides
    <3> QED  BY <3>1, <1>11, <1>7, <1>9
  <2>5. IsFiniteSet(Kept') /\ answered' \subseteq Kept'
    <3>1. IsFiniteSet(Kept) /\ answered \subseteq Kept
      BY DEF SlidesInv, RowsAreSlides
    <3> QED  BY <3>1, <1>2, <1>4, <1>10, FS_Subset
  <2>6. \A x, y \in Kept' : rows'[x].pos = rows'[y].pos => x = y
    <3> SUFFICES ASSUME NEW x \in Kept', NEW y \in Kept', rows'[x].pos = rows'[y].pos
                 PROVE  x = y
      OBVIOUS
    <3>1. /\ x \in Kept /\ y \in Kept /\ x \in SlideIds /\ y \in SlideIds
          /\ x # t.slide /\ y # t.slide
      BY <1>11
    <3>2. rows[x].pos = rows[y].pos => x = y
      BY <3>1 DEF SlidesInv, RowsAreSlides
    <3>3. rows[x].pos \in Nat /\ rows[y].pos \in Nat
      BY <3>1, <1>f
    <3>4. CASE x \in t.moved /\ y \in t.moved
      BY <3>2, <3>3, <3>4, <1>9
    <3>5. CASE x \notin t.moved /\ y \notin t.moved
      BY <3>1, <3>2, <3>5, <1>7
    <3>6. CASE x \in t.moved /\ y \notin t.moved
      <4>1. rows[x].pos - 1 = rows[y].pos /\ t.pos < rows[x].pos /\ rows[y].pos # t.pos
        BY <3>1, <3>6, <1>7, <1>9, <1>4, <1>6
      <4>2. t.pos < rows[y].pos
        BY <4>1, <3>3, <1>5
      <4> QED  BY <3>1, <3>3, <3>6, <4>1, <4>2, <1>4
    <3>7. CASE y \in t.moved /\ x \notin t.moved
      <4>1. rows[y].pos - 1 = rows[x].pos /\ t.pos < rows[y].pos /\ rows[x].pos # t.pos
        BY <3>1, <3>7, <1>7, <1>9, <1>4, <1>6
      <4>2. t.pos < rows[x].pos
        BY <4>1, <3>3, <1>5
      <4> QED  BY <3>1, <3>3, <3>7, <4>1, <4>2, <1>4
    <3> QED  BY <3>4, <3>5, <3>6, <3>7
  <2> QED  BY <2>1, <2>2, <2>3, <2>4, <2>5, <2>6 DEF RowsAreSlides
<1>13. /\ deleting' \in [Deleters -> [step : {"idle", "found", "shifted", "committed", "aborted"},
                                slide : SlideIds \cup {"none"}, pos : Int,
                                moved : SUBSET SlideIds]]
       /\ deleting'[d].step = "committed"
       /\ \A e \in Deleters : e # d => deleting'[e] = deleting[e]
  BY <1>2 DEF SlidesInv, DeletesHold, NoDelete
<1>14. Held(d) = {t.slide} \cup t.moved
  BY <1>1, <1>2 DEF Held
<1>15. ASSUME NEW e \in Deleters, e # d
       PROVE  DeleteHolds(e)' /\ (Deleting(e) => rows'[deleting[e].slide] = rows[deleting[e].slide])
  <2>1. PICK u : u = deleting[e]
    OBVIOUS
  <2>2. deleting'[e] = u /\ DeleteHolds(e) /\ Held(e) \cap Held(d) = {}
    BY <1>13, <1>15, <2>1 DEF SlidesInv, DeletesHold
  <2>3. ASSUME u.step \in {"found", "shifted"}
        PROVE  /\ u.slide \in Kept /\ u.slide \notin answered /\ u.pos = rows[u.slide].pos
               /\ u.slide # t.slide /\ u.slide \notin t.moved
               /\ rows'[u.slide] = rows[u.slide]
    <3>1. u.slide \in Kept /\ u.slide \notin answered /\ u.pos = rows[u.slide].pos
      BY <2>1, <2>2, <2>3 DEF DeleteHolds, Deleting
    <3>2. u.slide \in Held(e)
      BY <2>1, <2>3 DEF Held
    <3>3. u.slide # t.slide /\ u.slide \notin t.moved
      BY <3>2, <2>2, <1>14
    <3> QED  BY <3>1, <3>3, <1>7, <1>f
  <2>4. ASSUME u.step = "shifted"
        PROVE  /\ u.moved \subseteq Kept'
               /\ \A m \in u.moved : u.pos < rows'[m].pos
               /\ \A x \in Kept' \ u.moved, m \in u.moved :
                     u.pos < rows'[x].pos => rows'[m].pos < rows'[x].pos
    <3>1. /\ u.moved \subseteq Kept
          /\ \A m \in u.moved : u.pos < rows[m].pos
          /\ \A x \in Kept \ u.moved, m \in u.moved :
                u.pos < rows[x].pos => rows[m].pos < rows[x].pos
      BY <2>1, <2>2, <2>4 DEF DeleteHolds
    <3>2. u.moved \subseteq Held(e) /\ u.pos \in Nat
      BY <2>1, <2>3, <2>4, <1>f DEF Held
    <3>3. \A m \in u.moved : /\ m \in Kept /\ m # t.slide /\ m \notin t.moved
                             /\ rows'[m] = rows[m] /\ rows[m].pos \in Nat
      BY <3>1, <3>2, <2>2, <1>14, <1>7, <1>f
    <3>4. ASSUME NEW x \in Kept' \ u.moved, NEW m \in u.moved, u.pos < rows'[x].pos
          PROVE  rows'[m].pos < rows'[x].pos
      <4>1. x \in Kept /\ x # t.slide /\ rows[x].pos \in Nat /\ x \in SlideIds
        BY <1>11, <1>f
      <4>2. CASE x \notin t.moved
        <5>1. rows'[x] = rows[x]
          BY <4>1, <4>2, <1>7
        <5> QED  BY <5>1, <4>1, <3>1, <3>3, <3>4
      <4>3. CASE x \in t.moved
        <5>1. rows'[x].pos = rows[x].pos - 1 /\ t.pos < rows[x].pos
          BY <4>3, <1>9, <1>4
        <5>2. rows[m].pos < rows[x].pos
          BY <5>1, <4>1, <3>1, <3>2, <3>4
        <5>3. rows[m].pos # t.pos /\ m \in Kept \ t.moved
          BY <3>3, <1>6
        <5>4. ~(t.pos < rows[m].pos)
          <6> SUFFICES ASSUME t.pos < rows[m].pos PROVE FALSE
            OBVIOUS
          <6>1. rows[x].pos < rows[m].pos
            BY <5>3, <4>3, <1>4
          <6> QED  BY <6>1, <5>2, <4>1, <3>3
        <5> QED  BY <5>1, <5>3, <5>4, <4>1, <3>3, <1>5
      <4> QED  BY <4>2, <4>3
    <3>5. u.moved \subseteq Kept'
      BY <3>3, <1>10
    <3>6. \A m \in u.moved : u.pos < rows'[m].pos
      BY <3>1, <3>3
    <3> QED  BY <3>4, <3>5, <3>6
  <2>5. Deleting(e) <=> u.step \in {"found", "shifted"}
    BY <2>1 DEF Deleting
  <2>6. u.step \in {"found", "shifted"} => u.slide \in Kept'
    BY <2>3, <1>10
  <2> QED  BY <1>2, <2>1, <2>2, <2>3, <2>4, <2>5, <2>6 DEF DeleteHolds, Deleting
<1>16. DeletesHold'
  <2>1. \A e \in Deleters : DeleteHolds(e)'
    <3> TAKE e \in Deleters
    <3>1. CASE e = d
      BY <3>1, <1>13 DEF DeleteHolds, Deleting
    <3> QED  BY <3>1, <1>15
  <2>2. \A e, g \in Deleters : e # g => Held(e)' \cap Held(g)' = {}
    <3>1. \A e, g \in Deleters : e # g => Held(e) \cap Held(g) = {}
      BY DEF SlidesInv, DeletesHold
    <3>2. Held(d)' = {} /\ \A e \in Deleters : e # d => Held(e)' = Held(e)
      BY <1>13 DEF Held
    <3> QED  BY <3>1, <3>2
  <2> QED  BY <2>1, <2>2, <1>13 DEF DeletesHold
<1>17. HeldStands
  <2>1. \A e \in Deleters : StandsFor(e)
    <3> TAKE e \in Deleters
    <3>1. CASE e = d
      BY <3>1, <1>1, <1>2, <1>13 DEF StandsFor, Deleting
    <3>2. CASE e # d
      <4>1. deleting'[e] = deleting[e]
        BY <3>2, <1>13
      <4>2. Deleting(e) => rows'[deleting[e].slide] = rows[deleting[e].slide]
        BY <3>2, <1>15
      <4> QED  BY <4>1, <4>2 DEF StandsFor, Deleting
    <3> QED  BY <3>1, <3>2
  <2> QED  BY <2>1, StandsForEach
<1>18. SlidesStep
  <2>1. presentation.rev < presentation'.rev
    BY <1>2, <1>f
  <2>2. presentation.rev <= presentation'.rev /\ presentation.rev # presentation'.rev
    BY <2>1, <1>2, <1>f
  <2>3. \A x \in SlideIds : rows[x] # Unborn => rows'[x] # Unborn /\ (x \in Kept' => x \in Kept)
    <3> SUFFICES ASSUME NEW x \in SlideIds, rows[x] # Unborn
                 PROVE  rows'[x] # Unborn
      BY <1>11
    <3>1. CASE x = t.slide
      BY <3>1, <1>7 DEF Gone, Unborn
    <3>2. CASE x \in t.moved
      <4>1. rows'[x].pos \in Nat
        BY <3>2, <1>9
      <4> QED  BY <4>1 DEF Unborn
    <3>3. CASE x # t.slide /\ x \notin t.moved
      BY <3>3, <1>7
    <3> QED  BY <3>1, <3>2, <3>3
  <2>4. \A x \in Kept \cap Kept' :
          /\ rows[x].rev <= rows'[x].rev
          /\ rows'[x].rev = rows[x].rev => rows'[x] = rows[x]
    <3> TAKE x \in Kept \cap Kept'
    <3>1. CASE x \in t.moved
      <4>1. rows'[x].rev = rows[x].rev + 1 /\ rows[x].rev \in Nat
        BY <3>1, <1>9, <1>f
      <4> QED  BY <4>1
    <3>2. CASE x \notin t.moved
      <4>1. rows'[x] = rows[x] /\ rows[x].rev \in Nat
        BY <3>2, <1>7, <1>11, <1>f
      <4> QED  BY <4>1
    <3> QED  BY <3>1, <3>2
  <2> QED  BY <2>2, <2>3, <2>4 DEF SlidesStep
<1>19. AnsweredStand
  <2> SUFFICES ASSUME NEW x \in answered
               PROVE  rows'[x].text = rows[x].text
    BY DEF AnsweredStand
  <2>1. x \in Kept /\ x \in SlideIds /\ x # t.slide
    BY <1>4, <1>f DEF SlidesInv, RowsAreSlides
  <2> QED  BY <2>1, <1>7, <1>9
<1> QED  BY <1>12, <1>16, <1>17, <1>18, <1>19 DEF SlidesInv

LEMMA SlidesStart ==
  ASSUME SlidesInit
  PROVE  SlidesInv /\ Kept = {FirstSlides[i] : i \in DOMAIN FirstSlides}
<1> DEFINE first == {FirstSlides[i] : i \in DOMAIN FirstSlides}
           at(s) == CHOOSE i \in 0..Len(FirstSlides) - 1 : FirstSlides[i + 1] = s
<1>1. /\ presentation = [rev |-> 1, music |-> "old"] /\ answered = {}
      /\ deleting = [d \in Deleters |-> NoDelete]
      /\ rows = [s \in SlideIds |-> IF s \in first THEN [pos |-> at(s), rev |-> 1, text |-> "old"]
                                    ELSE Unborn]
  BY DEF SlidesInit, SE!ToSet
<1>2. FirstSlides \in Seq(SlideIds) /\ Len(FirstSlides) \in Nat
      /\ DOMAIN FirstSlides = 1..Len(FirstSlides)
  BY SlidesAssumption DEF SlidesAssumption
<1>3. ASSUME NEW s \in first
      PROVE  at(s) \in 0..Len(FirstSlides) - 1 /\ FirstSlides[at(s) + 1] = s
  <2>1. PICK i \in 1..Len(FirstSlides) : FirstSlides[i] = s
    BY <1>2
  <2>2. PICK j \in Nat : j = i - 1
    BY <1>2
  <2>3. j \in 0..Len(FirstSlides) - 1 /\ FirstSlides[j + 1] = s
    BY <1>2, <2>1, <2>2
  <2> QED  BY <2>3
<1> HIDE DEF at
<1>4. first \subseteq SlideIds
  BY <1>2
<1>5. IsFiniteSet(first)
  <2>1. IsFiniteSet(1..Len(FirstSlides))
    BY <1>2, FS_Interval
  <2>2. FirstSlides \in Surjection(1..Len(FirstSlides), first)
    <3>1. FirstSlides \in [1..Len(FirstSlides) -> first]
      BY <1>2
    <3>2. \A s \in first : \E i \in 1..Len(FirstSlides) : FirstSlides[i] = s
      BY <1>2
    <3> QED  BY <3>1, <3>2 DEF Surjection
  <2> QED  BY <2>1, <2>2, FS_Surjection
<1> HIDE DEF first
<1>6. /\ \A s \in SlideIds : s \in first => /\ rows[s].pos = at(s) /\ rows[s].rev = 1
                                            /\ rows[s].text = "old"
      /\ \A s \in SlideIds : s \notin first => rows[s] = Unborn
  BY <1>1
<1>7. Kept = first
  <2>1. \A s \in SlideIds : rows[s].pos >= 0 <=> s \in first
    <3> TAKE s \in SlideIds
    <3>1. CASE s \in first
      BY <3>1, <1>3, <1>6
    <3>2. CASE s \notin first
      BY <3>2, <1>6 DEF Unborn
    <3> QED  BY <3>1, <3>2
  <2> QED  BY <2>1, <1>4 DEF Kept
<1>8. RowsAreSlides
  <2>1. presentation \in [rev : Nat \ {0}, music : Music]
    BY <1>1, SlidesAssumption DEF SlidesAssumption
  <2>2. rows \in [SlideIds -> [pos : Nat \cup {-1}, rev : Nat, text : Texts \cup {"none"}]]
    <3>1. \A s \in SlideIds : (IF s \in first THEN [pos |-> at(s), rev |-> 1, text |-> "old"]
                                    ELSE Unborn)
             \in [pos : Nat \cup {-1}, rev : Nat, text : Texts \cup {"none"}]
      <4> TAKE s \in SlideIds
      <4>1. CASE s \in first
        BY <4>1, <1>3, SlidesAssumption DEF SlidesAssumption
      <4>2. CASE s \notin first
        BY <4>2 DEF Unborn
      <4> QED  BY <4>1, <4>2
    <3> QED  BY <3>1, <1>1
  <2>3. \A x, y \in first : rows[x].pos = rows[y].pos => x = y
    <3> TAKE x, y \in first
    <3>1. rows[x].pos = at(x) /\ rows[y].pos = at(y)
      BY <1>4, <1>6
    <3> QED  BY <3>1, <1>3
  <2>4. \A x \in first : rows[x].rev >= 1 /\ rows[x].text \in Texts
    BY <1>4, <1>6, SlidesAssumption DEF SlidesAssumption
  <2> QED  BY <2>1, <2>2, <2>3, <2>4, <1>1, <1>5, <1>6, <1>7 DEF RowsAreSlides
<1>9. DeletesHold
  BY <1>1 DEF DeletesHold, DeleteHolds, Deleting, Held, NoDelete
<1> QED  BY <1>7, <1>8, <1>9 DEF SlidesInv, first

-----------------------------------------------------------------------------
(* What was read stays true.                                               *)

Lasting == SlidesInv /\ SlidesInv' /\ SlidesStep

LEMMA SoundLasts ==
  ASSUME Lasting, NEW rev \in Nat, NEW sound, SoundIsTrue(rev, sound)
  PROVE  SoundIsTrue(rev, sound)'
<1>1. presentation.rev \in Nat /\ presentation'.rev \in Nat
  BY DEF Lasting, SlidesInv, RowsAreSlides
<1>2. presentation.rev <= presentation'.rev
      /\ (presentation'.rev = presentation.rev => presentation' = presentation)
  BY DEF Lasting, SlidesStep
<1> QED  BY <1>1, <1>2 DEF SoundIsTrue

LEMMA SlideLasts ==
  ASSUME Lasting, NEW id \in SlideIds, NEW rev \in Nat, NEW text, SlideIsTrue(id, rev, text)
  PROVE  /\ SlideIsTrue(id, rev, text)'
         /\ \A order : PlaceIsTrue(id, rev, order) => PlaceIsTrue(id, rev, order)'
<1>1. rows[id].rev \in Nat /\ rows'[id].rev \in Nat
  BY DEF Lasting, SlidesInv, RowsAreSlides
<1>2. rows[id] # Unborn /\ 1 <= rev
  BY DEF SlideIsTrue
<1>3. rows'[id] # Unborn /\ (id \in Kept' => id \in Kept)
  BY <1>2 DEF Lasting, SlidesStep
<1>4. id \in Kept' => /\ rev <= rows[id].rev
                      /\ rev = rows[id].rev => text = rows[id].text
                      /\ rows[id].rev <= rows'[id].rev
                      /\ rows'[id].rev = rows[id].rev => rows'[id] = rows[id]
  BY <1>3 DEF Lasting, SlidesStep, SlideIsTrue
<1>5. id \in Kept' => /\ rev <= rows'[id].rev
                      /\ rev = rows'[id].rev => rows'[id] = rows[id] /\ rev = rows[id].rev
  BY <1>1, <1>4
<1> QED  BY <1>2, <1>3, <1>4, <1>5 DEF SlideIsTrue, PlaceIsTrue

LEMMA SlidesLast ==
  ASSUME Lasting, NEW slides \in Seq(SlideRecords), SlidesAreTrue(slides)
  PROVE  /\ SlidesAreTrue(slides)'
         /\ PlacesAreTrue(slides) => PlacesAreTrue(slides)'
<1>1. ASSUME NEW i \in DOMAIN slides
      PROVE  /\ SlideIsTrue(slides[i].id, slides[i].rev, slides[i].text)'
             /\ PlaceIsTrue(slides[i].id, slides[i].rev, slides[i].order)
                  => PlaceIsTrue(slides[i].id, slides[i].rev, slides[i].order)'
  <2>1. slides[i] \in SlideRecords
    BY <1>1
  <2>2. slides[i].id \in SlideIds /\ slides[i].rev \in Nat
    BY <2>1 DEF SlideRecords
  <2>3. SlideIsTrue(slides[i].id, slides[i].rev, slides[i].text)
    BY DEF SlidesAreTrue
  <2> QED  BY <2>2, <2>3, SlideLasts
<1> QED  BY <1>1 DEF SlidesAreTrue, PlacesAreTrue

LEMMA ViewLasts ==
  ASSUME Lasting, NEW v, ViewIsTrue(v)
  PROVE  ViewIsTrue(v)'
<1>1. v \in Views /\ v.rev \in Nat /\ v.slides \in Seq(SlideRecords)
  BY DEF ViewIsTrue, Views
<1>2. SoundIsTrue(v.rev, v.music)'
  BY <1>1, SoundLasts DEF ViewIsTrue
<1>3. SlidesAreTrue(v.slides)' /\ PlacesAreTrue(v.slides)'
  BY <1>1, SlidesLast DEF ViewIsTrue
<1>4. v.rev = presentation'.rev => Pairs(v.slides) = StoredPairs'
  <2> SUFFICES ASSUME v.rev = presentation'.rev
               PROVE  Pairs(v.slides) = StoredPairs'
    OBVIOUS
  <2>1. presentation.rev \in Nat /\ presentation'.rev \in Nat /\ v.rev <= presentation.rev
    BY DEF Lasting, SlidesInv, RowsAreSlides, ViewIsTrue, SoundIsTrue
  <2>2. presentation.rev <= presentation'.rev
    BY DEF Lasting, SlidesStep
  <2>3. presentation'.rev = presentation.rev
    BY <2>1, <2>2
  <2>4. rows' = rows /\ v.rev = presentation.rev
    BY <2>3 DEF Lasting, SlidesStep
  <2>5. StoredPairs' = StoredPairs
    BY <2>4 DEF StoredPairs, Kept
  <2> QED  BY <2>4, <2>5 DEF ViewIsTrue
<1> QED  BY <1>1, <1>2, <1>3, <1>4 DEF ViewIsTrue

LEMMA FetchLasts ==
  ASSUME Lasting, NEW f, FetchIsTrue(f)
  PROVE  FetchIsTrue(f)'
<1>1. f.step = "read" => ViewIsTrue(f.view)'
  BY ViewLasts DEF FetchIsTrue
<1>2. f.step = "head" => SoundIsTrue(f.view.rev, f.view.music)'
  <2>1. f.view.rev \in Nat
    BY DEF FetchIsTrue, Views
  <2> QED  BY <2>1, SoundLasts DEF FetchIsTrue
<1> QED  BY <1>1, <1>2 DEF FetchIsTrue

LEMMA DraftLasts ==
  ASSUME Lasting, NEW d, DraftIsTrue(d)
  PROVE  DraftIsTrue(d)'
<1>1. d.kind = "content" => /\ SlideIsTrue(d.id, d.rev, d.base)'
                            /\ PlaceIsTrue(d.id, d.rev, d.order)'
  <2> SUFFICES ASSUME d.kind = "content"
               PROVE  SlideIsTrue(d.id, d.rev, d.base)' /\ PlaceIsTrue(d.id, d.rev, d.order)'
    OBVIOUS
  <2>1. d.id \in SlideIds /\ d.rev \in Nat
    BY DEF DraftIsTrue
  <2>2. SlideIsTrue(d.id, d.rev, d.base) /\ PlaceIsTrue(d.id, d.rev, d.order)
    BY DEF DraftIsTrue
  <2> QED  BY <2>1, <2>2, SlideLasts
<1>2. d.kind = "sound" => SoundIsTrue(d.rev, d.base)'
  <2> SUFFICES ASSUME d.kind = "sound"
               PROVE  SoundIsTrue(d.rev, d.base)'
    OBVIOUS
  <2>1. d.rev \in Nat /\ SoundIsTrue(d.rev, d.base)
    BY DEF DraftIsTrue
  <2> QED  BY <2>1, SoundLasts
<1> QED  BY <1>1, <1>2 DEF DraftIsTrue

LEMMA CallLasts ==
  ASSUME Lasting, NEW k \in Kinds, NEW c \in CallRecords, CallIsTrue(k, c)
  PROVE  CallIsTrue(k, c)'
<1>1. c.rev \in Nat /\ c.slides \in Seq(SlideRecords)
  BY DEF CallRecords
<1>2. c.step \in {"sent", "answered"} => ViewIsTrue(c.seen)'
  BY ViewLasts DEF CallIsTrue
<1>3. c.step = "sent" /\ k \in {"save", "convert", "delete"} =>
        /\ c.id \in SlideIds
        /\ SlideIsTrue(c.id, c.rev, c.base)'
        /\ PlaceIsTrue(c.id, c.rev, c.order)'
  <2> SUFFICES ASSUME c.step = "sent", k \in {"save", "convert", "delete"}
               PROVE  /\ c.id \in SlideIds
                      /\ SlideIsTrue(c.id, c.rev, c.base)'
                      /\ PlaceIsTrue(c.id, c.rev, c.order)'
    OBVIOUS
  <2>1. c.id \in SlideIds /\ SlideIsTrue(c.id, c.rev, c.base) /\ PlaceIsTrue(c.id, c.rev, c.order)
    BY DEF CallIsTrue
  <2> QED  BY <1>1, <2>1, SlideLasts
<1>4. c.step = "sent" /\ k = "setting" => SoundIsTrue(c.rev, c.base)'
  BY <1>1, SoundLasts DEF CallIsTrue
<1>5. c.step = "sent" /\ k = "reorder" => SlidesAreTrue(c.slides)'
  BY <1>1, SlidesLast DEF CallIsTrue
<1>6. c.step = "answered" /\ c.outcome = "ok" /\ k \in {"save", "convert"}
        => ViewIsTrue(ReplacePresentationSlide(c.seen, Replacement(c)))'
  <2>1. PICK v : v = ReplacePresentationSlide(c.seen, Replacement(c))
    OBVIOUS
  <2> QED  BY <2>1, ViewLasts DEF CallIsTrue
<1>7. c.step = "answered" /\ c.outcome = "ok" /\ k = "create"
        => ViewIsTrue(AppendPresentationSlide(c.seen, Creation(c)))'
  <2>1. PICK v : v = AppendPresentationSlide(c.seen, Creation(c))
    OBVIOUS
  <2> QED  BY <2>1, ViewLasts DEF CallIsTrue
<1>8. c.step = "answered" /\ c.outcome = "ok" /\ k = "reorder" => ViewIsTrue(Reordering(c))'
  <2>1. PICK v : v = Reordering(c)
    OBVIOUS
  <2> QED  BY <2>1, ViewLasts DEF CallIsTrue
<1>9. c.step = "sent" =>
       /\ k \in {"save", "convert", "create"} => c.text \in Texts
       /\ k = "setting" => c.text \in Music
       /\ k \in {"create", "reorder"} => c.rev = c.seen.rev
       /\ k = "reorder" => /\ Pairs(c.slides) = Pairs(c.seen.slides)
                           /\ \A i \in DOMAIN c.slides : c.slides[i].order = i - 1
  BY DEF CallIsTrue
<1> QED  BY <1>2, <1>3, <1>4, <1>5, <1>6, <1>7, <1>8, <1>9 DEF CallIsTrue

-----------------------------------------------------------------------------
(* The steps of the tab.                                                   *)

LEMMA ViewIsSomething ==
  ASSUME NEW v, ViewIsTrue(v)
  PROVE  v # NoView
BY DEF ViewIsTrue, SoundIsTrue, NoView

LEMMA NoCallIsTrue ==
  /\ NoCall \in CallRecords
  /\ \A k : CallIsTrue(k, NoCall)
  /\ NoView \in Views
<1>1. NoView \in Views
  BY SlidesAssumption DEF NoView, Views, SlidesAssumption
<1>2. NoCall \in CallRecords
  BY <1>1 DEF NoCall, CallRecords
<1> QED  BY <1>1, <1>2 DEF NoCall, CallIsTrue

LEMMA EditorConstants ==
  /\ Here \in Deleters /\ There \in Deleters /\ Here # There
  /\ {"old", "mine", "theirs", "fresh"} \subseteq Texts /\ {"old", "mine", "theirs"} \subseteq Music
  /\ "delete" \in Kinds
BY SlidesAssumption, EditorAssumption DEF SlidesAssumption, EditorAssumption, Kinds

\* No call is accepted and no delete begins.
Quiet ==
  /\ \A k \in Kinds : ~Accepted(k)
  /\ deleting[Here].step # "found" => deleting'[Here].step # "found"

\* A step that leaves the server alone.
LEMMA TabStep ==
  ASSUME SlidesInv, EditorInv, UNCHANGED slideVars,
         (view' = view /\ (Ready' => Ready)) \/ ViewIsTrue(view'),
         FetchIsTrue(fetch'), DraftIsTrue(draft'),
         calls' \in [Kinds -> CallRecords],
         \A k \in Kinds : calls'[k] = calls[k] \/ CallIsTrue(k, calls'[k]),
         calls'["delete"] = calls["delete"] \/ deleting[Here].step = "idle",
         \A k \in Kinds : ~Accepted(k)
  PROVE  SlidesInv' /\ EditorInv' /\ Quiet
<1>1. presentation' = presentation /\ rows' = rows /\ deleting' = deleting /\ answered' = answered
  BY DEF slideVars
<1>2. SlidesInv' /\ Lasting
  <2>1. SlidesInv' /\ SlidesStep
    BY <1>1, RefuseStep DEF Refuse
  <2> QED  BY <2>1 DEF Lasting
<1>3. PICK v : v = view'
  OBVIOUS
<1>4. v = NoView \/ ViewIsTrue(v)
  BY <1>3 DEF EditorInv
<1>5. v = NoView \/ ViewIsTrue(v)'
  BY <1>2, <1>4, ViewLasts
<1>6. Ready' => v # NoView
  BY <1>3, ViewIsSomething DEF EditorInv
<1>7. PICK f : f = fetch'
  OBVIOUS
<1>8. FetchIsTrue(f)'
  BY <1>2, <1>7, FetchLasts
<1>9. PICK d : d = draft'
  OBVIOUS
<1>10. DraftIsTrue(d)'
  BY <1>2, <1>9, DraftLasts
<1>11. CallsAreTrue'
  <2>1. ASSUME NEW k \in Kinds
        PROVE  CallIsTrue(k, calls[k])'
    <3>1. PICK c \in CallRecords : c = calls'[k]
      OBVIOUS
    <3>2. CallIsTrue(k, c)
      BY <3>1 DEF EditorInv, CallsAreTrue
    <3>3. CallIsTrue(k, c)'
      BY <1>2, <3>2, CallLasts
    <3> QED  BY <3>1, <3>3
  <2> QED  BY <2>1 DEF CallsAreTrue
<1>12. DeleteIsCalled'
  BY <1>1 DEF DeleteIsCalled, Deleting, EditorInv
<1>13. EditorInv'
  BY <1>3, <1>5, <1>6, <1>7, <1>8, <1>9, <1>10, <1>11, <1>12 DEF EditorInv
<1> QED  BY <1>1, <1>2, <1>13 DEF Quiet

\* A call that changes only for a record that is not an accepted answer.
LEMMA OneCall ==
  ASSUME EditorInv, NEW k \in Kinds, NEW c \in CallRecords, CallIsTrue(k, c),
         calls' = [calls EXCEPT ![k] = c],
         c.step # "answered" \/ c.outcome # "ok" \/ calls[k].step # "sent"
  PROVE  /\ calls' \in [Kinds -> CallRecords]
         /\ \A j \in Kinds : calls'[j] = calls[j] \/ CallIsTrue(j, calls'[j])
         /\ \A j \in Kinds : ~Accepted(j)
         /\ k # "delete" => calls'["delete"] = calls["delete"]
         /\ calls'[k] = c
<1>1. calls \in [Kinds -> CallRecords] /\ "delete" \in Kinds
  BY EditorConstants DEF EditorInv, CallsAreTrue
<1>2. /\ calls' \in [Kinds -> CallRecords] /\ calls'[k] = c
      /\ \A j \in Kinds : j # k => calls'[j] = calls[j]
  BY <1>1
<1> QED  BY <1>1, <1>2 DEF Accepted

LEMMA SameCalls ==
  ASSUME EditorInv, calls' = calls
  PROVE  /\ calls' \in [Kinds -> CallRecords]
         /\ \A j \in Kinds : calls'[j] = calls[j] \/ CallIsTrue(j, calls'[j])
         /\ \A j \in Kinds : ~Accepted(j)
         /\ calls'["delete"] = calls["delete"]
BY DEF EditorInv, CallsAreTrue, Accepted

LEMMA NoDraftIsTrue == DraftIsTrue(NoDraft)
BY DEF DraftIsTrue, NoDraft

LEMMA NoFetchIsTrue ==
  /\ FetchIsTrue(NoFetch)
  /\ \A shows \in BOOLEAN : Load(shows) => FetchIsTrue(fetch')
BY NoCallIsTrue DEF FetchIsTrue, NoFetch, Load

\* The slide that the tab looks up is one it shows.
LEMMA LookedUp ==
  ASSUME NEW v, v \in Views, NEW s, \E i \in DOMAIN v.slides : v.slides[i].id = s,
         NEW x, x = SlideIn(v, s)
  PROVE  \E i \in DOMAIN v.slides : x = v.slides[i] /\ x.id = s /\ x \in SlideRecords
<1>1. SE!ToSet(v.slides) = {v.slides[i] : i \in DOMAIN v.slides} /\ v.slides \in Seq(SlideRecords)
  BY DEF SE!ToSet, Views
<1>2. x = CHOOSE y \in SE!ToSet(v.slides) : y.id = s
  BY DEF SlideIn
<1>3. \E y \in SE!ToSet(v.slides) : y.id = s
  BY <1>1
<1>4. x \in SE!ToSet(v.slides) /\ x.id = s
  BY <1>2, <1>3
<1>5. PICK i \in DOMAIN v.slides : x = v.slides[i]
  BY <1>1, <1>4
<1> QED  BY <1>1, <1>4, <1>5

LEMMA ActiveIsShown ==
  ASSUME NEW v, v \in Views, NEW s, NEW a, a = ActiveIn(v, s), v.slides # <<>> \/ a # "none"
  PROVE  \E i \in DOMAIN v.slides : v.slides[i].id = a
<1>1. /\ SE!ToSet(v.slides) = {v.slides[i] : i \in DOMAIN v.slides} /\ v.slides \in Seq(SlideRecords)
      /\ v.slides # <<>>
  BY DEF SE!ToSet, Views, ActiveIn
<1>2. CASE \E x \in SE!ToSet(v.slides) : x.id = s
  BY <1>1, <1>2 DEF ActiveIn
<1>3. CASE ~\E x \in SE!ToSet(v.slides) : x.id = s
  <2>1. a = v.slides[1].id
    BY <1>1, <1>3 DEF ActiveIn
  <2>2. 1 \in DOMAIN v.slides
    BY <1>1
  <2> QED  BY <2>1, <2>2
<1> QED  BY <1>2, <1>3

LEMMA ShownIsTrue ==
  ASSUME NEW v, ViewIsTrue(v), NEW s, \E i \in DOMAIN v.slides : v.slides[i].id = s,
         NEW x, x = SlideIn(v, s)
  PROVE  /\ x \in SlideRecords /\ x.id = s
         /\ SlideIsTrue(x.id, x.rev, x.text) /\ PlaceIsTrue(x.id, x.rev, x.order)
<1>1. PICK i \in DOMAIN v.slides : x = v.slides[i] /\ x.id = s /\ x \in SlideRecords
  BY LookedUp DEF ViewIsTrue
<1> QED  BY <1>1 DEF ViewIsTrue, SlidesAreTrue, PlacesAreTrue

\* What is left of a true draft beside a true view is true.
LEMMA DraftInIsTrue ==
  ASSUME DraftIsTrue(draft), NEW v, v = NoView \/ ViewIsTrue(v), NEW s, NEW renewed
  PROVE  /\ DraftIsTrue(DraftIn(v, s, renewed))
         /\ DraftIsTrue(ToContent(DraftIn(v, s, renewed)))
<1>1. DraftIsTrue(NoDraft)
  BY NoDraftIsTrue
<1>2. CASE draft.kind = "content"
  BY <1>1, <1>2 DEF DraftIn, ToContent, NoDraft
<1>3. CASE draft.kind = "sound"
  <2>1. PICK d : d = draft
    OBVIOUS
  <2>2. d \in [kind : {"sound"}, rev : Nat, base : Music, text : Music, conflict : BOOLEAN]
        /\ SoundIsTrue(d.rev, d.base)
    BY <1>3, <2>1 DEF DraftIsTrue
  <2>3. DraftIn(v, s, renewed) = IF v.music = d.base /\ v.rev > d.rev THEN [d EXCEPT !.rev = v.rev] ELSE d
    BY <1>3, <2>1 DEF DraftIn, RebasedSound
  <2>4. CASE v.music = d.base /\ v.rev > d.rev
    <3>1. PICK e : e = [d EXCEPT !.rev = v.rev]
      OBVIOUS
    <3>0. ViewIsTrue(v)
      BY <2>2, <2>4 DEF NoView
    <3>2. v.rev \in Nat /\ SoundIsTrue(v.rev, d.base)
      BY <2>4, <3>0 DEF ViewIsTrue, Views
    <3>3. /\ e \in [kind : {"sound"}, rev : Nat, base : Music, text : Music, conflict : BOOLEAN]
          /\ e.kind = "sound" /\ e.rev = v.rev /\ e.base = d.base
      BY <3>1, <3>2, <2>2
    <3>4. DraftIsTrue(e)
      BY <3>2, <3>3 DEF DraftIsTrue
    <3> QED  BY <3>1, <3>3, <3>4, <2>3, <2>4, <1>1 DEF ToContent
  <2>5. CASE ~(v.music = d.base /\ v.rev > d.rev)
    BY <2>1, <2>3, <2>5, <1>1 DEF ToContent
  <2> QED  BY <2>4, <2>5
<1>4. CASE draft.kind \notin {"content", "sound"}
  BY <1>1, <1>4 DEF DraftIn, ToContent, NoDraft
<1> QED  BY <1>2, <1>3, <1>4

LEMMA DraftStep ==
  ASSUME SlidesInv, EditorInv, UNCHANGED <<screen, view, fetch, calls>>, UNCHANGED slideVars,
         DraftIsTrue(draft')
  PROVE  SlidesInv' /\ EditorInv' /\ Quiet
<1>1. Ready' => Ready
  BY DEF Ready
<1>2. FetchIsTrue(fetch')
  BY DEF EditorInv
<1> QED  BY <1>1, <1>2, SameCalls, TabStep

LEMMA EditingStep ==
  ASSUME SlidesInv, EditorInv,
         \/ EditContent \/ EditSound \/ OpenSound \/ ClosePanel
         \/ \E s \in SlideIds : SelectSlide(s)
         \/ BeginAddSlide \/ OpenTypeSelection \/ CancelTypeSelection \/ SelectSameType
  PROVE  SlidesInv' /\ EditorInv' /\ Quiet
<1>1. UNCHANGED <<screen, view, fetch, calls>> /\ UNCHANGED slideVars
  BY DEF EditContent, EditSound, OpenSound, ClosePanel, SelectSlide, BeginAddSlide,
         OpenTypeSelection, CancelTypeSelection, SelectSameType
<1>2. DraftIsTrue(draft) /\ DraftIsTrue(NoDraft)
  BY NoDraftIsTrue DEF EditorInv
<1>3. Ready => ViewIsTrue(view)
  BY DEF EditorInv
<1>4. DraftIsTrue(draft')
  <2>1. CASE EditContent
    <3>1. ViewIsTrue(view) /\ view \in Views /\ view.slides # <<>>
      BY <2>1, <1>3 DEF EditContent, AtPage, ViewIsTrue
    <3>2. PICK x : x = SlideIn(view, Active)
      OBVIOUS
    <3>3. draft' = [kind |-> "content", id |-> x.id, rev |-> x.rev, order |-> x.order,
                    base |-> x.text, text |-> "mine", conflict |-> FALSE]
      BY <2>1, <3>2 DEF EditContent
    <3>4. PICK a : a = Active
      OBVIOUS
    <3>5. \E i \in DOMAIN view.slides : view.slides[i].id = a
      BY <3>1, <3>4, ActiveIsShown DEF Active
    <3>6. /\ x \in SlideRecords
          /\ SlideIsTrue(x.id, x.rev, x.text) /\ PlaceIsTrue(x.id, x.rev, x.order)
      BY <3>1, <3>2, <3>4, <3>5, ShownIsTrue
    <3>7. "mine" \in Texts
      BY EditorConstants
    <3> QED  BY <3>3, <3>6, <3>7 DEF DraftIsTrue, SlideRecords
  <2>2. CASE EditSound
    <3>1. ViewIsTrue(view)
      BY <2>2, <1>3 DEF EditSound, AtPage
    <3>2. draft' = [kind |-> "sound", rev |-> view.rev, base |-> view.music, text |-> "mine",
               conflict |-> FALSE]
      BY <2>2 DEF EditSound
    <3>3. /\ view.rev \in Nat /\ view.music \in Music /\ SoundIsTrue(view.rev, view.music)
          /\ "mine" \in Music
      BY <3>1, EditorConstants DEF ViewIsTrue, Views
    <3> QED  BY <3>2, <3>3 DEF DraftIsTrue
  <2>3. CASE SelectSameType
    BY <2>3, <1>2 DEF SelectSameType, ToContent
  <2>4. CASE \E s \in SlideIds : SelectSlide(s)
    BY <2>4, <1>2 DEF SelectSlide
  <2>5. CASE \/ OpenSound \/ ClosePanel \/ BeginAddSlide \/ OpenTypeSelection \/ CancelTypeSelection
    BY <2>5, <1>2 DEF OpenSound, ClosePanel, BeginAddSlide, OpenTypeSelection, CancelTypeSelection
  <2> QED  BY <2>1, <2>2, <2>3, <2>4, <2>5
<1> QED  BY <1>1, <1>4, DraftStep

\* A read of the slides: every kept slide, once, as it is stored.
LEMMA ReadIsTrue ==
  ASSUME RowsAreSlides, NEW rev \in Nat, NEW music \in Music,
         NEW v, v = SlidesOf([rev |-> rev, music |-> music, slides |-> <<>>])
  PROVE  /\ v \in Views /\ v.rev = rev /\ v.music = music
         /\ Pairs(v.slides) = StoredPairs
         /\ SlidesAreTrue(v.slides) /\ PlacesAreTrue(v.slides)
<1>1. PICK l : l = InOrder(Kept)
  OBVIOUS
<1>2. PICK n : n = Cardinality(Kept)
  OBVIOUS
<1>3. /\ n \in Nat /\ l \in Seq(Kept) /\ Len(l) = n
      /\ \A s \in Kept : \E i \in 1..n : l[i] = s
      /\ \A i, j \in 1..n : l[i] = l[j] => i = j
  <2>1. /\ n \in Nat /\ l \in Seq(Kept) /\ Len(l) = n
        /\ \A s \in Kept : /\ Cardinality(PosUpTo(Kept, s)) \in 1..n
                           /\ l[Cardinality(PosUpTo(Kept, s))] = s
        /\ \A i \in 1..n : Cardinality(PosUpTo(Kept, l[i])) = i
    BY <1>1, <1>2, InOrderLists
  <2> QED  BY <2>1
<1>4. PICK slides : slides = [i \in 1..n |-> [id |-> l[i], order |-> rows[l[i]].pos,
                                              rev |-> rows[l[i]].rev, text |-> rows[l[i]].text]]
  OBVIOUS
<1>5. v = [rev |-> rev, music |-> music, slides |-> slides]
  BY <1>1, <1>2, <1>4 DEF SlidesOf
<1>6. \A i \in 1..n : /\ l[i] \in Kept /\ l[i] \in SlideIds /\ rows[l[i]] # Unborn
                      /\ rows[l[i]].pos \in Int /\ rows[l[i]].rev \in Nat /\ 1 <= rows[l[i]].rev
                      /\ rows[l[i]].text \in Texts
  <2> TAKE i \in 1..n
  <2>1. l[i] \in Kept
    BY <1>3
  <2>2. /\ l[i] \in SlideIds /\ rows[l[i]].pos \in Nat /\ rows[l[i]].rev \in Nat
        /\ rows[l[i]].text \in Texts \cup {"none"}
    BY <2>1, RowsHaveFields
  <2>3. rows[l[i]].rev >= 1 /\ rows[l[i]].text \in Texts
    BY <2>1 DEF RowsAreSlides
  <2> QED  BY <2>1, <2>2, <2>3 DEF Unborn
<1>7. \A i \in 1..n : /\ slides[i].id = l[i] /\ slides[i].order = rows[l[i]].pos
                      /\ slides[i].rev = rows[l[i]].rev /\ slides[i].text = rows[l[i]].text
                      /\ slides[i] \in SlideRecords
  <2> TAKE i \in 1..n
  <2>1. slides[i] = [id |-> l[i], order |-> rows[l[i]].pos,
                     rev |-> rows[l[i]].rev, text |-> rows[l[i]].text]
    BY <1>4
  <2> QED  BY <2>1, <1>6 DEF SlideRecords
<1>8. slides \in Seq(SlideRecords) /\ DOMAIN slides = 1..n
  <2>1. slides \in [1..n -> SlideRecords]
    <3>1. slides = [i \in 1..n |-> slides[i]]
      BY <1>4
    <3> QED  BY <3>1, <1>7
  <2> QED  BY <2>1, <1>3
<1>9. Pairs(slides) = StoredPairs
  <2>1. Pairs(slides) = {<<l[i], rows[l[i]].text>> : i \in 1..n}
    BY <1>7, <1>8 DEF Pairs
  <2> QED  BY <2>1, <1>3, <1>6 DEF StoredPairs
<1>10. SlidesAreTrue(slides)
  BY <1>3, <1>6, <1>7, <1>8 DEF SlidesAreTrue, SlideIsTrue
<1>11. PlacesAreTrue(slides)
  BY <1>7, <1>8 DEF PlacesAreTrue, PlaceIsTrue
<1> QED  BY <1>5, <1>8, <1>9, <1>10, <1>11 DEF Views

LEMMA LoadingStep ==
  ASSUME SlidesInv, EditorInv,
         \/ ReadPresentation \/ ReadSlides \/ FetchDone \/ FetchFailed \/ Interrupt
         \/ \E shows \in BOOLEAN : Resume(shows)
         \/ ReloadConflict
  PROVE  SlidesInv' /\ EditorInv' /\ Quiet
<1>0. UNCHANGED slideVars
  BY DEF ReadPresentation, ReadSlides, FetchDone, FetchFailed, Interrupt, Resume, ReloadConflict
<1>1. DraftIsTrue(draft) /\ DraftIsTrue(NoDraft) /\ FetchIsTrue(fetch) /\ FetchIsTrue(NoFetch)
  BY NoDraftIsTrue, NoFetchIsTrue DEF EditorInv
<1>2. /\ presentation.rev \in Nat \ {0} /\ presentation.music \in Music
      /\ RowsAreSlides
  BY RowsHaveFields DEF SlidesInv
<1>3. calls' = calls \/ calls' = Settled =>
        /\ calls' \in [Kinds -> CallRecords]
        /\ \A j \in Kinds : calls'[j] = calls[j] \/ CallIsTrue(j, calls'[j])
        /\ \A j \in Kinds : ~Accepted(j)
        /\ calls'["delete"] = calls["delete"]
  <2>1. CASE calls' = calls
    BY <2>1, SameCalls
  <2>2. CASE calls' = [calls EXCEPT !["reorder"] = NoCall]
    <3>1. "reorder" \in Kinds /\ NoCall.step # "answered"
      BY DEF Kinds, NoCall
    <3> QED  BY <2>2, <3>1, OneCall, NoCallIsTrue
  <2>3. calls' = Settled => calls' = calls \/ calls' = [calls EXCEPT !["reorder"] = NoCall]
    BY DEF Settled, EditorInv, CallsAreTrue, Kinds
  <2> QED  BY <2>1, <2>2, <2>3
<1>f. /\ fetch \in [step : {"none", "asked", "head", "read", "interrupted"},
                    shows : BOOLEAN, view : Views]
      /\ NoView \in Views
  BY <1>1, NoCallIsTrue DEF FetchIsTrue
<1>s. screen' = screen => (Ready' => Ready)
  BY DEF Ready
<1>4. CASE ReadPresentation
  <2>1. PICK f : f = fetch'
    OBVIOUS
  <2>2. PICK v : v = [NoView EXCEPT !.rev = presentation.rev, !.music = presentation.music]
    OBVIOUS
  <2>3. v = [rev |-> presentation.rev, music |-> presentation.music, slides |-> <<>>]
    BY <2>2 DEF NoView
  <2>4. f = [step |-> "head", shows |-> fetch.shows, view |-> v]
    BY <1>4, <1>f, <2>1, <2>2 DEF ReadPresentation
  <2>5. v \in Views /\ SoundIsTrue(v.rev, v.music) /\ v.slides = <<>>
    BY <1>2, <2>3 DEF Views, SoundIsTrue
  <2>6. FetchIsTrue(f)
    BY <1>f, <2>4, <2>5 DEF FetchIsTrue
  <2>7. UNCHANGED <<screen, view, calls, draft>>
    BY <1>4 DEF ReadPresentation
  <2> QED  BY <1>0, <1>1, <1>3, <1>s, <2>1, <2>6, <2>7, TabStep
<1>5. CASE ReadSlides
  <2>1. PICK f : f = fetch'
    OBVIOUS
  <2>2. PICK w : w = fetch.view
    OBVIOUS
  <2>3. PICK v : v = SlidesOf(w)
    OBVIOUS
  <2>4. fetch.step = "head" /\ f = [step |-> "read", shows |-> fetch.shows, view |-> v]
    BY <1>5, <1>f, <2>1, <2>2, <2>3 DEF ReadSlides
  <2>5. w \in Views /\ w.slides = <<>> /\ SoundIsTrue(w.rev, w.music)
    BY <1>1, <1>f, <2>2, <2>4 DEF FetchIsTrue
  <2>6. /\ w.rev \in Nat /\ w.music \in Music
        /\ w = [rev |-> w.rev, music |-> w.music, slides |-> <<>>]
    BY <2>5 DEF Views
  <2>7. ViewIsTrue(v)
    <3>1. PICK rev \in Nat, music \in Music : rev = w.rev /\ music = w.music
      BY <2>6
    <3>2. v = SlidesOf([rev |-> rev, music |-> music, slides |-> <<>>])
      BY <2>3, <2>6, <3>1
    <3>3. /\ v \in Views /\ v.rev = rev /\ v.music = music
          /\ Pairs(v.slides) = StoredPairs
          /\ SlidesAreTrue(v.slides) /\ PlacesAreTrue(v.slides)
      BY <1>2, <3>2, ReadIsTrue
    <3> QED  BY <2>5, <3>1, <3>3 DEF ViewIsTrue
  <2>8. FetchIsTrue(f)
    <3>1. v \in Views
      BY <2>7 DEF ViewIsTrue
    <3> QED  BY <1>f, <2>4, <2>7, <3>1 DEF FetchIsTrue
  <2>9. UNCHANGED <<screen, view, calls, draft>>
    BY <1>5 DEF ReadSlides
  <2> QED  BY <1>0, <1>1, <1>3, <1>s, <2>1, <2>8, <2>9, TabStep
<1>6. CASE FetchDone
  <2>1. PICK v : v = fetch.view
    OBVIOUS
  <2>2. ViewIsTrue(v) /\ view' = v
    BY <1>1, <1>6, <2>1 DEF FetchDone, FetchIsTrue
  <2>3. DraftIsTrue(draft')
    <3>1. draft' = DraftIn(v, selected, SlideIds) \/ draft' = NoDraft
      BY <1>6, <2>1 DEF FetchDone
    <3> QED  BY <1>1, <2>2, <3>1, DraftInIsTrue
  <2>4. fetch' = NoFetch /\ calls' = Settled
    BY <1>6 DEF FetchDone
  <2> QED  BY <1>0, <1>1, <1>3, <2>2, <2>3, <2>4, TabStep
<1>7. CASE FetchFailed
  <2>1. fetch' = NoFetch /\ calls' = Settled /\ draft' = NoDraft /\ view' = view /\ ~Ready'
    BY <1>7 DEF FetchFailed, Ready
  <2> QED  BY <1>0, <1>1, <1>3, <2>1, TabStep
<1>8. CASE Interrupt
  <2>1. /\ calls' = Settled /\ UNCHANGED <<screen, view, draft>>
        /\ fetch' = [fetch EXCEPT !.step = "interrupted", !.view = NoView]
    BY <1>8 DEF Interrupt
  <2>2. FetchIsTrue(fetch')
    <3>1. PICK f : f = [fetch EXCEPT !.step = "interrupted", !.view = NoView]
      OBVIOUS
    <3>2. f = [step |-> "interrupted", shows |-> fetch.shows, view |-> NoView]
      BY <1>f, <3>1
    <3>3. FetchIsTrue(f)
      BY <1>f, <3>2 DEF FetchIsTrue
    <3> QED  BY <2>1, <3>1, <3>3
  <2> QED  BY <1>0, <1>1, <1>3, <1>s, <2>1, <2>2, TabStep
<1>9. CASE (\E shows \in BOOLEAN : Resume(shows)) \/ ReloadConflict
  <2>1. /\ calls' = calls /\ view' = view /\ (Ready' => Ready)
        /\ draft' = draft \/ draft' = NoDraft
        /\ \E shows \in BOOLEAN : Load(shows)
    BY <1>9 DEF Resume, ReloadConflict, Ready
  <2>2. FetchIsTrue(fetch')
    BY <2>1, NoFetchIsTrue
  <2> QED  BY <1>0, <1>1, <1>3, <2>1, <2>2, TabStep
<1> QED  BY <1>4, <1>5, <1>6, <1>7, <1>8, <1>9

LEMMA InsertAtGives ==
  ASSUME NEW S, NEW l \in Seq(S), NEW e \in S, NEW j \in 1..(Len(l) + 1),
         NEW new, new = SE!InsertAt(l, j, e)
  PROVE  /\ \A m \in 1..(Len(l) + 1) : m < j => new[m] = l[m]
         /\ new[j] = e
         /\ \A m \in 1..(Len(l) + 1) : j < m => new[m] = l[m - 1]
<1>1. Inserts(new, l, j, e)
  BY InsertAtPuts
<1> QED  BY <1>1 DEF Inserts

\* reorderEditorSlides keeps the slides and numbers them.
LEMMA MovedKeeps ==
  ASSUME NEW slides \in Seq(SlideRecords), NEW i \in DOMAIN slides, NEW j \in DOMAIN slides,
         NEW new, new = Moved(slides, i, j)
  PROVE  /\ new \in Seq(SlideRecords) /\ Pairs(new) = Pairs(slides)
         /\ SlidesAreTrue(slides) => SlidesAreTrue(new)
         /\ \A n \in DOMAIN new : new[n].order = n - 1
<1>1. PICK len \in Nat : len = Len(slides)
  OBVIOUS
<1>2. DOMAIN slides = 1..len /\ i \in 1..len /\ j \in 1..len
  BY <1>1
<1>3. PICK r : r = SE!RemoveAt(slides, i)
  OBVIOUS
<1>4. PICK e : e = slides[i]
  OBVIOUS
<1>5. e \in SlideRecords
  BY <1>4
<1>6. /\ r \in Seq(SlideRecords) /\ Len(r) = len - 1
      /\ \A m \in 1..(len - 1) : r[m] = IF m < i THEN slides[m] ELSE slides[m + 1]
  BY <1>1, <1>2, <1>3, RemoveAtTakes
<1>7. PICK s : s = SE!InsertAt(r, j, e)
  OBVIOUS
<1>8. /\ s \in Seq(SlideRecords) /\ Len(s) = len
      /\ \A m \in 1..len : m < j => s[m] = r[m]
      /\ s[j] = e
      /\ \A m \in 1..len : j < m => s[m] = r[m - 1]
  <2>1. j \in 1..(Len(r) + 1) /\ Len(r) + 1 = len
    BY <1>2, <1>6
  <2>r. r \in Seq(SlideRecords)
    BY <1>6
  <2>j. e \in SlideRecords /\ j \in 1..(Len(r) + 1)
    BY <1>5, <2>1
  <2>2. s \in Seq(SlideRecords) /\ Len(s) = Len(r) + 1
    <3>1. s \in Seq(SlideRecords) /\ Inserts(s, r, j, e)
      BY <1>7, <2>j, <2>r, InsertAtPuts
    <3> QED  BY <3>1 DEF Inserts
  <2>3. /\ \A m \in 1..(Len(r) + 1) : m < j => s[m] = r[m]
        /\ s[j] = e
        /\ \A m \in 1..(Len(r) + 1) : j < m => s[m] = r[m - 1]
    BY <1>7, <2>j, <2>r, InsertAtGives
  <2> QED  BY <2>1, <2>2, <2>3, <1>2
<1>9. new = [n \in DOMAIN s |-> [s[n] EXCEPT !.order = n - 1]]
  BY <1>3, <1>4, <1>7 DEF Moved
<1>10. DOMAIN s = 1..len
  BY <1>8
<1>11. \A n \in 1..len : /\ new[n].id = s[n].id /\ new[n].rev = s[n].rev /\ new[n].text = s[n].text
                         /\ new[n].order = n - 1 /\ new[n] \in SlideRecords
  <2> TAKE n \in 1..len
  <2>1. s[n] \in SlideRecords
    BY <1>8
  <2>2. new[n] = [s[n] EXCEPT !.order = n - 1]
    BY <1>9, <1>10
  <2>3. n - 1 \in Int
    OBVIOUS
  <2> QED  BY <2>1, <2>2, <2>3 DEF SlideRecords
<1>12. new \in Seq(SlideRecords) /\ DOMAIN new = 1..len
  <2>1. new \in [1..len -> SlideRecords]
    <3>1. new = [n \in 1..len |-> new[n]]
      BY <1>9, <1>10
    <3> QED  BY <3>1, <1>11
  <2> QED  BY <2>1, <1>1
<1>13. PICK from : from = [n \in 1..len |->
          IF n < j THEN IF n < i THEN n ELSE n + 1
          ELSE IF n = j THEN i ELSE IF n - 1 < i THEN n - 1 ELSE n]
  OBVIOUS
<1>14. \A n \in 1..len : from[n] \in 1..len /\ s[n] = slides[from[n]]
  <2> TAKE n \in 1..len
  <2>1. from[n] = IF n < j THEN IF n < i THEN n ELSE n + 1
          ELSE IF n = j THEN i ELSE IF n - 1 < i THEN n - 1 ELSE n
    BY <1>13
  <2>2. CASE n < j
    <3>1. n \in 1..(len - 1) /\ s[n] = r[n]
      BY <2>2, <1>2, <1>8
    <3> QED  BY <2>1, <2>2, <3>1, <1>2, <1>6
  <2>3. CASE n = j
    BY <2>1, <2>3, <1>2, <1>4, <1>8
  <2>4. CASE n > j
    <3>1. PICK m \in 1..(len - 1) : m = n - 1
      BY <2>4, <1>2
    <3>2. s[n] = r[m] /\ r[m] = IF m < i THEN slides[m] ELSE slides[m + 1]
      BY <2>4, <3>1, <1>2, <1>6, <1>8
    <3> QED  BY <2>1, <2>4, <3>1, <3>2, <1>2
  <2> QED  BY <2>2, <2>3, <2>4, <1>2
<1>15. \A n, m \in 1..len : from[n] = from[m] => n = m
  <2> TAKE n, m \in 1..len
  <2>1. /\ from[n] = IF n < j THEN IF n < i THEN n ELSE n + 1
          ELSE IF n = j THEN i ELSE IF n - 1 < i THEN n - 1 ELSE n
        /\ from[m] = IF m < j THEN IF m < i THEN m ELSE m + 1
          ELSE IF m = j THEN i ELSE IF m - 1 < i THEN m - 1 ELSE m
    BY <1>13
  <2> QED  BY <2>1, <1>2
<1>16. \A m \in 1..len : \E n \in 1..len : from[n] = m
  <2> TAKE m \in 1..len
  <2>1. CASE m = i
    <3>1. from[j] = i
      BY <1>2, <1>13
    <3> QED  BY <2>1, <3>1, <1>2
  <2>2. CASE m < i
    <3>1. PICK n \in Nat : n = IF m < j THEN m ELSE m + 1
      OBVIOUS
    <3>2. n \in 1..len
      BY <2>2, <3>1, <1>2
    <3>3. from[n] = m
      BY <2>2, <3>1, <3>2, <1>2, <1>13
    <3> QED  BY <3>2, <3>3
  <2>3. CASE m > i
    <3>1. PICK n \in Nat : n = IF m - 1 < j THEN m - 1 ELSE m
      OBVIOUS
    <3>2. n \in 1..len
      BY <2>3, <3>1, <1>2
    <3>3. from[n] = m
      BY <2>3, <3>1, <3>2, <1>2, <1>13
    <3> QED  BY <3>2, <3>3
  <2> QED  BY <2>1, <2>2, <2>3, <1>2
<1>17. Pairs(new) = Pairs(slides)
  <2>1. \A n \in 1..len : /\ new[n].id = slides[from[n]].id /\ new[n].text = slides[from[n]].text
                          /\ from[n] \in 1..len
    BY <1>11, <1>14
  <2>2. \A n \in 1..len : <<new[n].id, new[n].text>> \in Pairs(slides)
    <3> TAKE n \in 1..len
    <3> QED  BY <2>1, <1>2 DEF Pairs
  <2>3. \A m \in 1..len : <<slides[m].id, slides[m].text>> \in Pairs(new)
    <3> TAKE m \in 1..len
    <3>1. PICK n \in 1..len : from[n] = m
      BY <1>16
    <3> QED  BY <2>1, <3>1, <1>12 DEF Pairs
  <2>4. Pairs(new) = {<<new[n].id, new[n].text>> : n \in 1..len}
    BY <1>12 DEF Pairs
  <2>5. Pairs(slides) = {<<slides[n].id, slides[n].text>> : n \in 1..len}
    BY <1>2 DEF Pairs
  <2>6. Pairs(new) \subseteq Pairs(slides)
    BY <2>2, <2>4
  <2>7. Pairs(slides) \subseteq Pairs(new)
    BY <2>3, <2>5
  <2> QED  BY <2>6, <2>7
<1>18. ASSUME SlidesAreTrue(slides)
       PROVE  SlidesAreTrue(new)
  <2>1. \A n \in 1..len : SlideIsTrue(new[n].id, new[n].rev, new[n].text)
    <3> TAKE n \in 1..len
    <3>1. /\ new[n].id = slides[from[n]].id /\ new[n].rev = slides[from[n]].rev
          /\ new[n].text = slides[from[n]].text /\ from[n] \in 1..len
      BY <1>11, <1>14
    <3> QED  BY <3>1, <1>2, <1>18 DEF SlidesAreTrue
  <2>2. \A n, m \in 1..len : new[n].id = new[m].id => n = m
    <3> TAKE n, m \in 1..len
    <3>1. /\ new[n].id = slides[from[n]].id /\ new[m].id = slides[from[m]].id
          /\ from[n] \in 1..len /\ from[m] \in 1..len
      BY <1>11, <1>14
    <3>2. new[n].id = new[m].id => from[n] = from[m]
      BY <3>1, <1>2, <1>18 DEF SlidesAreTrue
    <3> QED  BY <3>2, <1>15
  <2> QED  BY <2>1, <2>2, <1>12 DEF SlidesAreTrue
<1> QED  BY <1>11, <1>12, <1>17, <1>18

LEMMA SendIsTrue ==
  ASSUME SlidesInv, EditorInv, NEW k \in Kinds, NEW request, NEW behind \in BOOLEAN,
         Send(k, request, behind), UNCHANGED <<screen, view, fetch, draft>>, UNCHANGED slideVars,
         NEW c, c = [request EXCEPT !.step = "sent", !.seen = view, !.behind = behind],
         c \in CallRecords, CallIsTrue(k, c), c.step = "sent"
  PROVE  SlidesInv' /\ EditorInv' /\ Quiet
<1>1. calls' = [calls EXCEPT ![k] = c] /\ calls[k] = NoCall
  BY DEF Send
<1>2. /\ calls' \in [Kinds -> CallRecords]
      /\ \A j \in Kinds : calls'[j] = calls[j] \/ CallIsTrue(j, calls'[j])
      /\ \A j \in Kinds : ~Accepted(j)
      /\ k # "delete" => calls'["delete"] = calls["delete"]
  BY <1>1, OneCall
<1>3. k = "delete" => deleting[Here].step = "idle"
  BY <1>1 DEF EditorInv, DeleteIsCalled, NoCall
<1>4. (Ready' => Ready) /\ FetchIsTrue(fetch') /\ DraftIsTrue(draft')
  BY DEF Ready, EditorInv
<1> QED  BY <1>2, <1>3, <1>4, TabStep

LEMMA SendingStep ==
  ASSUME SlidesInv, EditorInv,
         \/ SaveContent \/ SaveSetting \/ SelectType
         \/ \E s \in SlideIds : DeleteShown(s)
         \/ \E i, j \in 1..Cardinality(SlideIds) : ReorderShown(i, j)
  PROVE  SlidesInv' /\ EditorInv' /\ Quiet
<1>0. UNCHANGED <<screen, view, fetch, draft>> /\ UNCHANGED slideVars /\ Ready
  BY DEF SaveContent, SaveSetting, SelectType, DeleteShown, ReorderShown, AtPage, Send
<1>1. PICK v : v = view
  OBVIOUS
<1>2. /\ ViewIsTrue(v) /\ v \in Views
      /\ v.rev \in Nat /\ v.music \in Music /\ v.slides \in Seq(SlideRecords)
      /\ SoundIsTrue(v.rev, v.music) /\ SlidesAreTrue(v.slides)
  BY <1>0, <1>1 DEF EditorInv, ViewIsTrue, Views
<1>3. \A k, s : InFlight(k, s) \in BOOLEAN
  BY DEF InFlight
<1>4. CASE SaveContent
  <2>1. PICK d : d = draft
    OBVIOUS
  <2>2. PICK behind \in BOOLEAN : behind = InFlight("convert", d.id)
    BY <1>3
  <2>3. PICK q : q = SlideRequest(d.id, d.rev, d.order, d.base, d.text)
    OBVIOUS
  <2>4. d.kind = "content" /\ Send("save", q, behind)
    BY <1>4, <2>1, <2>2, <2>3 DEF SaveContent
  <2>5. /\ d \in [kind : {"content"}, id : SlideIds, rev : Nat, order : Int, base : Texts,
                  text : Texts, conflict : BOOLEAN]
        /\ SlideIsTrue(d.id, d.rev, d.base) /\ PlaceIsTrue(d.id, d.rev, d.order)
    BY <2>1, <2>4 DEF EditorInv, DraftIsTrue
  <2>6. PICK c : c = [q EXCEPT !.step = "sent", !.seen = view, !.behind = behind]
    OBVIOUS
  <2>7. c = [step |-> "sent", outcome |-> "none", seen |-> v, behind |-> behind,
             id |-> d.id, rev |-> d.rev, order |-> d.order, base |-> d.base, text |-> d.text,
             slides |-> <<>>]
    BY <1>1, <2>3, <2>6 DEF SlideRequest, NoCall
  <2>8. c \in CallRecords
    BY <1>2, <2>5, <2>7 DEF CallRecords
  <2>9. CallIsTrue("save", c)
    BY <1>2, <2>5, <2>7 DEF CallIsTrue
  <2>10. c.step = "sent" /\ "save" \in Kinds
    BY <2>7 DEF Kinds
  <2> QED  BY <1>0, <2>4, <2>6, <2>8, <2>9, <2>10, SendIsTrue
<1>5. ASSUME NEW rev \in Nat, NEW base \in Music, NEW text \in Music, SoundIsTrue(rev, base),
             Send("setting", SettingRequest(rev, base, text), FALSE)
      PROVE  SlidesInv' /\ EditorInv' /\ Quiet
  <2>1. PICK q : q = SettingRequest(rev, base, text)
    OBVIOUS
  <2>2. PICK c : c = [q EXCEPT !.step = "sent", !.seen = view, !.behind = FALSE]
    OBVIOUS
  <2>3. c = [step |-> "sent", outcome |-> "none", seen |-> v, behind |-> FALSE,
             id |-> "none", rev |-> rev, order |-> 0, base |-> base, text |-> text,
             slides |-> <<>>]
    BY <1>1, <2>1, <2>2 DEF SettingRequest, NoCall
  <2>4. c \in CallRecords
    BY <1>2, <1>5, <2>3 DEF CallRecords
  <2>5. CallIsTrue("setting", c)
    BY <1>2, <1>5, <2>3 DEF CallIsTrue
  <2>6. c.step = "sent" /\ "setting" \in Kinds /\ Send("setting", q, FALSE)
    BY <1>5, <2>1, <2>3 DEF Kinds
  <2> QED  BY <1>0, <2>2, <2>4, <2>5, <2>6, SendIsTrue
<1>6. CASE SaveSetting
  <2>1. CASE draft.kind = "sound" /\ Send("setting", SettingRequest(draft.rev, draft.base, draft.text), FALSE)
    <3>1. PICK d : d = draft
      OBVIOUS
    <3>2. /\ d \in [kind : {"sound"}, rev : Nat, base : Music, text : Music, conflict : BOOLEAN]
          /\ SoundIsTrue(d.rev, d.base)
      BY <2>1, <3>1 DEF EditorInv, DraftIsTrue
    <3>3. d.rev \in Nat /\ d.base \in Music /\ d.text \in Music
      BY <3>2
    <3> QED  BY <2>1, <3>1, <3>2, <3>3, <1>5
  <2>2. CASE Send("setting", SettingRequest(view.rev, view.music, view.music), FALSE)
    BY <2>2, <1>1, <1>2, <1>5
  <2> QED  BY <1>6, <2>1, <2>2 DEF SaveSetting
<1>7. CASE \E s \in SlideIds : DeleteShown(s)
  <2>1. PICK s \in SlideIds : DeleteShown(s)
    BY <1>7
  <2>2. \E i \in DOMAIN v.slides : v.slides[i].id = s
    BY <1>1, <2>1 DEF DeleteShown, Shown
  <2>3. PICK x : x = SlideIn(view, s)
    OBVIOUS
  <2>4. /\ x \in SlideRecords /\ x.id = s
        /\ SlideIsTrue(x.id, x.rev, x.text) /\ PlaceIsTrue(x.id, x.rev, x.order)
    BY <1>1, <1>2, <2>2, <2>3, ShownIsTrue
  <2>5. PICK q : q = SlideRequest(s, x.rev, x.order, x.text, "none")
    OBVIOUS
  <2>6. Send("delete", q, FALSE)
    BY <2>1, <2>3, <2>5 DEF DeleteShown
  <2>7. PICK c : c = [q EXCEPT !.step = "sent", !.seen = view, !.behind = FALSE]
    OBVIOUS
  <2>8. c = [step |-> "sent", outcome |-> "none", seen |-> v, behind |-> FALSE,
             id |-> s, rev |-> x.rev, order |-> x.order, base |-> x.text, text |-> "none",
             slides |-> <<>>]
    BY <1>1, <2>5, <2>7 DEF SlideRequest, NoCall
  <2>9. c \in CallRecords
    BY <1>2, <2>4, <2>8 DEF CallRecords, SlideRecords
  <2>10. CallIsTrue("delete", c)
    BY <1>2, <2>4, <2>8 DEF CallIsTrue
  <2>11. c.step = "sent" /\ "delete" \in Kinds
    BY <2>8 DEF Kinds
  <2> QED  BY <1>0, <2>6, <2>7, <2>9, <2>10, <2>11, SendIsTrue
<1>8. CASE SelectType
  <2>1. CASE dialog.creating
    <3>1. PICK q : q = SlideRequest("none", view.rev, Len(view.slides), "none", "fresh")
      OBVIOUS
    <3>2. Send("create", q, FALSE)
      BY <1>8, <2>1, <3>1 DEF SelectType
    <3>3. PICK c : c = [q EXCEPT !.step = "sent", !.seen = view, !.behind = FALSE]
      OBVIOUS
    <3>4. c = [step |-> "sent", outcome |-> "none", seen |-> v, behind |-> FALSE,
               id |-> "none", rev |-> v.rev, order |-> Len(v.slides), base |-> "none",
               text |-> "fresh", slides |-> <<>>]
      BY <1>1, <3>1, <3>3 DEF SlideRequest, NoCall
    <3>5. Len(v.slides) \in Int /\ "fresh" \in Texts
      BY <1>2, EditorConstants
    <3>6. c \in CallRecords
      BY <1>2, <3>4, <3>5 DEF CallRecords
    <3>7. CallIsTrue("create", c)
      BY <1>2, <3>4, <3>5 DEF CallIsTrue
    <3>8. c.step = "sent" /\ "create" \in Kinds
      BY <3>4 DEF Kinds
    <3> QED  BY <1>0, <3>2, <3>3, <3>6, <3>7, <3>8, SendIsTrue
  <2>2. CASE ~dialog.creating
    <3>1. PICK a : a = Active
      OBVIOUS
    <3>2. PICK x : x = SlideIn(view, a)
      OBVIOUS
    <3>3. PICK q : q = SlideRequest(x.id, x.rev, x.order, x.text, "fresh")
      OBVIOUS
    <3>4. PICK behind \in BOOLEAN : behind = InFlight("save", x.id)
      BY <1>3
    <3>5. a # "none" /\ Send("convert", q, behind)
      BY <1>8, <2>2, <3>1, <3>2, <3>3, <3>4 DEF SelectType
    <3>6. \E i \in DOMAIN v.slides : v.slides[i].id = a
      BY <1>1, <1>2, <3>1, <3>5, ActiveIsShown DEF Active
    <3>7. /\ x \in SlideRecords
          /\ SlideIsTrue(x.id, x.rev, x.text) /\ PlaceIsTrue(x.id, x.rev, x.order)
      BY <1>1, <1>2, <3>2, <3>6, ShownIsTrue
    <3>8. PICK c : c = [q EXCEPT !.step = "sent", !.seen = view, !.behind = behind]
      OBVIOUS
    <3>9. c = [step |-> "sent", outcome |-> "none", seen |-> v, behind |-> behind,
               id |-> x.id, rev |-> x.rev, order |-> x.order, base |-> x.text, text |-> "fresh",
               slides |-> <<>>]
      BY <1>1, <3>3, <3>8 DEF SlideRequest, NoCall
    <3>10. "fresh" \in Texts
      BY EditorConstants
    <3>11. c \in CallRecords
      BY <1>2, <3>7, <3>9, <3>10 DEF CallRecords, SlideRecords
    <3>12. CallIsTrue("convert", c)
      BY <1>2, <3>7, <3>9, <3>10 DEF CallIsTrue, SlideRecords
    <3>13. c.step = "sent" /\ "convert" \in Kinds
      BY <3>9 DEF Kinds
    <3> QED  BY <1>0, <3>5, <3>8, <3>11, <3>12, <3>13, SendIsTrue
  <2> QED  BY <2>1, <2>2
<1>9. CASE \E i, j \in 1..Cardinality(SlideIds) : ReorderShown(i, j)
  <2>1. PICK i, j : /\ i \in DOMAIN v.slides /\ j \in DOMAIN v.slides
                    /\ Send("reorder", ReorderRequest(view.rev, Moved(view.slides, i, j)), FALSE)
    BY <1>1, <1>9 DEF ReorderShown
  <2>2. PICK new : new = Moved(v.slides, i, j)
    OBVIOUS
  <2>3. /\ new \in Seq(SlideRecords) /\ Pairs(new) = Pairs(v.slides)
        /\ SlidesAreTrue(new)
        /\ \A n \in DOMAIN new : new[n].order = n - 1
    BY <1>2, <2>1, <2>2, MovedKeeps
  <2>4. PICK q : q = ReorderRequest(view.rev, new)
    OBVIOUS
  <2>5. PICK c : c = [q EXCEPT !.step = "sent", !.seen = view, !.behind = FALSE]
    OBVIOUS
  <2>6. c = [step |-> "sent", outcome |-> "none", seen |-> v, behind |-> FALSE,
             id |-> "none", rev |-> v.rev, order |-> 0, base |-> "none", text |-> "none",
             slides |-> new]
    BY <1>1, <2>4, <2>5 DEF ReorderRequest, NoCall
  <2>7. c \in CallRecords
    BY <1>2, <2>3, <2>6 DEF CallRecords
  <2>8. CallIsTrue("reorder", c)
    BY <1>2, <2>3, <2>6 DEF CallIsTrue
  <2>9. c.step = "sent" /\ "reorder" \in Kinds /\ Send("reorder", q, FALSE)
    BY <1>1, <2>1, <2>2, <2>4, <2>6 DEF Kinds
  <2> QED  BY <1>0, <2>5, <2>7, <2>8, <2>9, SendIsTrue
<1> QED  BY <1>4, <1>6, <1>7, <1>8, <1>9

\* The record of an answered call.
AnswerTo(c, outcome) == [c EXCEPT !.step = "answered", !.outcome = outcome]

LEMMA AnswerIs ==
  ASSUME NEW c \in CallRecords, NEW outcome \in Outcomes, NEW a, a = AnswerTo(c, outcome)
  PROVE  /\ a \in CallRecords /\ a.step = "answered" /\ a.outcome = outcome
         /\ a.seen = c.seen /\ a.id = c.id /\ a.rev = c.rev /\ a.order = c.order
         /\ a.base = c.base /\ a.text = c.text /\ a.slides = c.slides
<1>1. c = [step |-> c.step, outcome |-> c.outcome, seen |-> c.seen, behind |-> c.behind,
           id |-> c.id, rev |-> c.rev, order |-> c.order, base |-> c.base, text |-> c.text,
           slides |-> c.slides]
  BY DEF CallRecords
<1>2. a = [step |-> "answered", outcome |-> outcome, seen |-> c.seen, behind |-> c.behind,
           id |-> c.id, rev |-> c.rev, order |-> c.order, base |-> c.base, text |-> c.text,
           slides |-> c.slides]
  BY <1>1 DEF AnswerTo
<1> QED  BY <1>2 DEF CallRecords

LEMMA LosingStep ==
  ASSUME SlidesInv, EditorInv, NEW k \in Kinds, LoseCall(k)
  PROVE  SlidesInv' /\ EditorInv' /\ Quiet
<1>1. PICK c \in CallRecords : c = calls[k]
  BY DEF EditorInv, CallsAreTrue
<1>2. PICK b : b = [c EXCEPT !.behind = FALSE]
  OBVIOUS
<1>3. b \in CallRecords /\ b.seen = c.seen
  BY <1>2 DEF CallRecords
<1>4. PICK a : a = AnswerTo(b, "failed")
  OBVIOUS
<1>5. "failed" \in Outcomes
  BY DEF Outcomes
<1>6. a \in CallRecords /\ a.step = "answered" /\ a.outcome = "failed" /\ a.seen = c.seen
  BY <1>3, <1>4, <1>5, AnswerIs
<1>7. calls' = [calls EXCEPT ![k] = a] /\ c.step \in {"sent", "answered"}
  BY <1>1, <1>2, <1>4 DEF LoseCall, Answered, AnswerTo
<1>8. CallIsTrue(k, c)
  BY <1>1 DEF EditorInv, CallsAreTrue
<1>9. CallIsTrue(k, a)
  BY <1>6, <1>7, <1>8 DEF CallIsTrue
<1>10. /\ calls' \in [Kinds -> CallRecords]
       /\ \A j \in Kinds : calls'[j] = calls[j] \/ CallIsTrue(j, calls'[j])
       /\ \A j \in Kinds : ~Accepted(j)
       /\ k # "delete" => calls'["delete"] = calls["delete"]
  BY <1>6, <1>7, <1>9, OneCall
<1>11. k = "delete" => deleting[Here].step = "idle"
  BY DEF LoseCall
<1>12. UNCHANGED <<screen, view, fetch, draft>> /\ UNCHANGED slideVars
  BY DEF LoseCall
<1>13. (Ready' => Ready) /\ FetchIsTrue(fetch') /\ DraftIsTrue(draft')
  BY <1>12 DEF Ready, EditorInv
<1> QED  BY <1>10, <1>11, <1>12, <1>13, TabStep

LEMMA ShowIsTrue ==
  ASSUME DraftIsTrue(draft), NEW v, ViewIsTrue(v), NEW s, NEW renewed, NEW toContent,
         Show(v, s, renewed, toContent)
  PROVE  view' = v /\ DraftIsTrue(draft')
<1>1. PICK r : r = IF view = NoView THEN SlideIds ELSE renewed
  OBVIOUS
<1>2. /\ view' = v
      /\ draft' = DraftIn(v, s, r) \/ draft' = ToContent(DraftIn(v, s, r))
  BY <1>1 DEF Show
<1>3. DraftIsTrue(DraftIn(v, s, r)) /\ DraftIsTrue(ToContent(DraftIn(v, s, r)))
  BY DraftInIsTrue
<1> QED  BY <1>2, <1>3

\* The call that a reply ends, and the reorder that waits for its load.
LEMMA EndedCall ==
  ASSUME SlidesInv, EditorInv, NEW k \in Kinds, calls[k].step = "answered",
         \/ calls' = [calls EXCEPT ![k] = NoCall]
         \/ k = "reorder" /\ calls' = [calls EXCEPT ![k].step = "refreshing"]
  PROVE  /\ calls' \in [Kinds -> CallRecords]
         /\ \A j \in Kinds : calls'[j] = calls[j] \/ CallIsTrue(j, calls'[j])
         /\ \A j \in Kinds : ~Accepted(j)
         /\ calls'["delete"] = calls["delete"] \/ deleting[Here].step = "idle"
<1>1. k = "delete" => deleting[Here].step = "idle"
  BY DEF EditorInv, DeleteIsCalled
<1>2. CASE calls' = [calls EXCEPT ![k] = NoCall]
  <2>1. NoCall.step # "answered"
    BY DEF NoCall
  <2> QED  BY <1>1, <1>2, <2>1, OneCall, NoCallIsTrue
<1>3. CASE k = "reorder" /\ calls' = [calls EXCEPT ![k].step = "refreshing"]
  <2>1. PICK c \in CallRecords : c = calls[k]
    BY DEF EditorInv, CallsAreTrue
  <2>2. PICK a : a = [c EXCEPT !.step = "refreshing"]
    OBVIOUS
  <2>3. a \in CallRecords /\ a.step = "refreshing"
    BY <2>2 DEF CallRecords
  <2>4. CallIsTrue(k, a)
    BY <2>3 DEF CallIsTrue
  <2>5. calls' = [calls EXCEPT ![k] = a]
    BY <1>3, <2>1, <2>2
  <2> QED  BY <1>3, <2>3, <2>4, <2>5, OneCall
<1> QED  BY <1>2, <1>3

LEMMA ReplyStep ==
  ASSUME SlidesInv, EditorInv, HandleReply
  PROVE  SlidesInv' /\ EditorInv' /\ Quiet
<1>0. UNCHANGED slideVars /\ (Ready' => Ready)
  BY DEF HandleReply, Ready
<1>1. /\ DraftIsTrue(draft) /\ DraftIsTrue(NoDraft) /\ FetchIsTrue(fetch)
      /\ view = NoView \/ ViewIsTrue(view)
      /\ \A k \in Kinds : CallIsTrue(k, calls[k]) /\ calls[k] \in CallRecords
  BY NoDraftIsTrue DEF EditorInv, CallsAreTrue
<1>l. Load(FALSE) => FetchIsTrue(fetch')
  BY NoFetchIsTrue
<1>2. ASSUME NEW k \in {"save", "convert"}, SlideReplaced(k)
      PROVE  SlidesInv' /\ EditorInv' /\ Quiet
  <2>1. PICK c : c = calls[k]
    OBVIOUS
  <2>2. k \in Kinds /\ c.step = "answered" /\ c.outcome = "ok" /\ calls' = [calls EXCEPT ![k] = NoCall]
        /\ fetch' = fetch
    BY <1>2, <2>1 DEF SlideReplaced, Kinds, Done, Ended
  <2>3. PICK v : v = ReplacePresentationSlide(c.seen, Replacement(c))
    OBVIOUS
  <2>4. ViewIsTrue(v)
    BY <1>1, <2>1, <2>2, <2>3 DEF CallIsTrue
  <2>5. \E renewed : Show(v, c.id, renewed, k = "convert")
    BY <1>2, <2>1, <2>3 DEF SlideReplaced, Replacement
  <2>6. view' = v /\ DraftIsTrue(draft')
    BY <1>1, <2>4, <2>5, ShowIsTrue
  <2> QED  BY <1>0, <1>1, <2>1, <2>2, <2>4, <2>6, EndedCall, TabStep
<1>3. CASE SlideCreated
  <2>1. PICK c : c = calls["create"]
    OBVIOUS
  <2>2. /\ "create" \in Kinds /\ c.step = "answered" /\ c.outcome = "ok"
        /\ calls' = [calls EXCEPT !["create"] = NoCall] /\ fetch' = fetch
    BY <1>3, <2>1 DEF SlideCreated, Kinds, Done, Ended
  <2>3. PICK v : v = AppendPresentationSlide(c.seen, Creation(c))
    OBVIOUS
  <2>4. ViewIsTrue(v)
    BY <1>1, <2>1, <2>2, <2>3 DEF CallIsTrue
  <2>5. \E renewed : Show(v, selected, renewed, TRUE)
    BY <1>3, <2>1, <2>3 DEF SlideCreated, Creation
  <2>6. view' = v /\ DraftIsTrue(draft')
    BY <1>1, <2>4, <2>5, ShowIsTrue
  <2> QED  BY <1>0, <1>1, <2>1, <2>2, <2>4, <2>6, EndedCall, TabStep
<1>4. CASE SlideDeleted
  <2>1. /\ "delete" \in Kinds /\ calls["delete"].step = "answered"
        /\ calls' = [calls EXCEPT !["delete"] = NoCall] /\ view' = view /\ Load(FALSE)
        /\ draft' = DraftIn(view, selected', {})
    BY <1>4 DEF SlideDeleted, Kinds, Done, Ended
  <2>2. DraftIsTrue(draft')
    <3>1. PICK v, s : v = view /\ s = selected'
      OBVIOUS
    <3>2. DraftIsTrue(DraftIn(v, s, {}))
      BY <1>1, <3>1, DraftInIsTrue
    <3> QED  BY <2>1, <3>1, <3>2
  <2> QED  BY <1>0, <1>1, <1>l, <2>1, <2>2, EndedCall, TabStep
<1>5. CASE OrderCommitted
  <2>1. PICK c : c = calls["reorder"]
    OBVIOUS
  <2>2. /\ "reorder" \in Kinds /\ c.step = "answered" /\ c.outcome = "ok" /\ Load(FALSE)
        /\ calls' = [calls EXCEPT !["reorder"].step = "refreshing"]
    BY <1>5, <2>1 DEF OrderCommitted, Kinds, Done
  <2>3. PICK v : v = Reordering(c)
    OBVIOUS
  <2>4. ViewIsTrue(v)
    BY <1>1, <2>1, <2>2, <2>3 DEF CallIsTrue
  <2>5. Show(v, selected, SlideIds, FALSE)
    BY <1>5, <2>1, <2>3 DEF OrderCommitted, Reordering
  <2>6. view' = v /\ DraftIsTrue(draft')
    BY <1>1, <2>4, <2>5, ShowIsTrue
  <2> QED  BY <1>0, <1>l, <2>1, <2>2, <2>4, <2>6, EndedCall, TabStep
<1>6. CASE SettingSaved
  <2>1. PICK c : c = calls["setting"]
    OBVIOUS
  <2>2. /\ "setting" \in Kinds /\ c.step = "answered"
        /\ calls' = [calls EXCEPT !["setting"] = NoCall] /\ fetch' = fetch /\ view' = c.seen
    BY <1>6, <2>1 DEF SettingSaved, Kinds, Done, Ended
  <2>d. draft' = NoDraft \/ draft' = DraftIn(view', selected, SlideIds)
    BY <1>6 DEF SettingSaved
  <2>3. PICK v, s : v = c.seen /\ s = selected
    OBVIOUS
  <2>4. ViewIsTrue(v) /\ view' = v
    BY <1>1, <2>1, <2>2, <2>3 DEF CallIsTrue
  <2>5. DraftIsTrue(draft')
    <3>1. DraftIsTrue(DraftIn(v, s, SlideIds))
      BY <1>1, <2>4, DraftInIsTrue
    <3> QED  BY <1>1, <2>d, <2>3, <2>4, <3>1
  <2> QED  BY <1>0, <1>1, <2>1, <2>2, <2>4, <2>5, EndedCall, TabStep
<1>7. ASSUME NEW k \in Kinds, Conflicted(k)
      PROVE  SlidesInv' /\ EditorInv' /\ Quiet
  <2>1. /\ calls[k].step = "answered" /\ view' = view
        /\ \/ calls' = [calls EXCEPT ![k] = NoCall]
           \/ k = "reorder" /\ calls' = [calls EXCEPT ![k].step = "refreshing"]
    BY <1>7 DEF Conflicted, Done
  <2>2. CASE draft' = draft /\ Load(FALSE)
    BY <1>0, <1>1, <1>l, <2>1, <2>2, EndedCall, TabStep
  <2>3. CASE /\ draft.kind \in {"content", "sound"}
             /\ draft' = [draft EXCEPT !.conflict = TRUE] /\ fetch' = fetch
    <3>1. PICK d, e : d = draft /\ e = [d EXCEPT !.conflict = TRUE]
      OBVIOUS
    <3>2. DraftIsTrue(d) /\ d.kind \in {"content", "sound"} /\ draft' = e
      BY <1>1, <2>3, <3>1
    <3>3. DraftIsTrue(e)
      <4>1. CASE d.kind = "content"
        <5>1. d \in [kind : {"content"}, id : SlideIds, rev : Nat, order : Int, base : Texts,
                     text : Texts, conflict : BOOLEAN]
          BY <3>2, <4>1 DEF DraftIsTrue
        <5>2. /\ e \in [kind : {"content"}, id : SlideIds, rev : Nat, order : Int, base : Texts,
                        text : Texts, conflict : BOOLEAN]
              /\ e.kind = "content" /\ e.id = d.id /\ e.rev = d.rev /\ e.order = d.order
              /\ e.base = d.base
          BY <3>1, <5>1
        <5> QED  BY <3>2, <4>1, <5>2 DEF DraftIsTrue
      <4>2. CASE d.kind = "sound"
        <5>1. d \in [kind : {"sound"}, rev : Nat, base : Music, text : Music, conflict : BOOLEAN]
          BY <3>2, <4>2 DEF DraftIsTrue
        <5>2. /\ e \in [kind : {"sound"}, rev : Nat, base : Music, text : Music, conflict : BOOLEAN]
              /\ e.kind = "sound" /\ e.rev = d.rev /\ e.base = d.base
          BY <3>1, <5>1
        <5> QED  BY <3>2, <4>2, <5>2 DEF DraftIsTrue
      <4> QED  BY <3>2, <4>1, <4>2
    <3> QED  BY <1>0, <1>1, <2>1, <2>3, <3>2, <3>3, EndedCall, TabStep
  <2> QED  BY <1>7, <2>2, <2>3 DEF Conflicted
<1>8. ASSUME NEW k \in Kinds, Refused(k)
      PROVE  SlidesInv' /\ EditorInv' /\ Quiet
  <2>1. /\ calls[k].step = "answered" /\ UNCHANGED <<view, draft, fetch>>
        /\ calls' = [calls EXCEPT ![k] = NoCall]
    BY <1>8 DEF Refused, Done, KeepView, Ended
  <2> QED  BY <1>0, <1>1, <2>1, EndedCall, TabStep
<1> QED  BY <1>2, <1>3, <1>4, <1>5, <1>6, <1>7, <1>8 DEF HandleReply

\* What the server does to the tab: nothing but its reply to one call.
LEMMA ServedCall ==
  ASSUME Lasting, EditorInv, UNCHANGED <<screen, view, fetch, draft>>,
         NEW k \in Kinds, NEW a \in CallRecords, CallIsTrue(k, a)',
         calls' = [calls EXCEPT ![k] = a] \/ calls' = calls,
         DeleteIsCalled'
  PROVE  EditorInv' /\ (\A j \in Kinds : j # k => calls'[j] = calls[j])
<1>1. view' = NoView \/ ViewIsTrue(view)'
  <2>1. PICK v : v = view
    OBVIOUS
  <2>2. v = NoView \/ ViewIsTrue(v)'
    BY <2>1, ViewLasts DEF EditorInv
  <2> QED  BY <2>1, <2>2
<1>2. Ready' => view' # NoView
  BY DEF EditorInv, Ready
<1>3. FetchIsTrue(fetch)'
  <2>1. PICK f : f = fetch
    OBVIOUS
  <2>2. FetchIsTrue(f)'
    BY <2>1, FetchLasts DEF EditorInv
  <2> QED  BY <2>1, <2>2
<1>4. DraftIsTrue(draft)'
  <2>1. PICK d : d = draft
    OBVIOUS
  <2>2. DraftIsTrue(d)'
    BY <2>1, DraftLasts DEF EditorInv
  <2> QED  BY <2>1, <2>2
<1>0. /\ calls \in [Kinds -> CallRecords] /\ calls' \in [Kinds -> CallRecords]
      /\ \A j \in Kinds : calls'[j] = IF j = k /\ calls' # calls THEN a ELSE calls[j]
  BY DEF EditorInv, CallsAreTrue
<1>5. ASSUME NEW j \in Kinds
      PROVE  CallIsTrue(j, calls[j])'
  <2>1. PICK n \in CallRecords : n = calls'[j]
    BY <1>0
  <2>2. CallIsTrue(j, n)'
    <3>1. CASE n = calls[j]
      <4>1. CallIsTrue(j, n)
        BY <3>1 DEF EditorInv, CallsAreTrue
      <4> QED  BY <4>1, CallLasts
    <3>2. CASE j = k /\ n = a
      BY <3>2
    <3> QED  BY <1>0, <2>1, <3>1, <3>2
  <2> QED  BY <2>1, <2>2
<1>6. CallsAreTrue'
  BY <1>0, <1>5 DEF CallsAreTrue
<1>7. EditorInv'
  BY <1>1, <1>2, <1>3, <1>4, <1>6 DEF EditorInv
<1> QED  BY <1>0, <1>7

LEMMA AbortsOnlyHolders ==
  ASSUME SlidesInv, NEW S, deleting' = Aborted(Holders(S)), NEW d \in Deleters,
         deleting[d].step = "idle"
  PROVE  deleting'[d].step = "idle"
<1>1. Held(d) = {}
  BY DEF Held
<1>2. d \notin Holders(S)
  BY <1>1 DEF Holders
<1> QED  BY <1>2, AbortedFields DEF SlidesInv

\* The transactions on the presentation's row begin no delete.
LEMMA NoneStarts ==
  ASSUME SlidesInv,
         \/ \E s, pos, text, expected, outcome : CreateSlide(s, pos, text, expected, outcome)
         \/ \E s, pos, text, expected, outcome : ReplaceSlide(s, pos, text, expected, outcome)
         \/ \E order, expected, outcome : ReorderSlides(order, expected, outcome)
         \/ \E value, expected, outcome : UpdateSetting(value, expected, outcome),
         NEW d \in Deleters, deleting[d].step = "idle"
  PROVE  deleting'[d].step = "idle"
<1>1. deleting' = deleting \/ \E S : deleting' = Aborted(Holders(S))
  BY DEF CreateSlide, ReplaceSlide, ReorderSlides, UpdateSetting, Refuse, Victim, Write
<1> QED  BY <1>1, AbortsOnlyHolders

\* A delete that is not begun now is the one that the tab called for.
LEMMA DeleteStaysCalled ==
  ASSUME SlidesInv, EditorInv, HeldStands, calls'["delete"] = calls["delete"],
         deleting[Here].step = "idle" => deleting'[Here].step = "idle"
  PROVE  DeleteIsCalled' /\ (deleting'[Here].step = "found" => Deleting(Here))
<1>1. Here \in Deleters
  BY EditorConstants
<1>2. deleting[Here].step \in {"idle", "found", "shifted", "committed", "aborted"}
  BY <1>1 DEF SlidesInv, DeletesHold
<1>3. Deleting(Here)' => Deleting(Here)
  BY <1>1, <1>2 DEF HeldStands, Deleting
<1>4. Deleting(Here)' => /\ deleting'[Here].slide = deleting[Here].slide
                         /\ rows'[deleting[Here].slide].text = rows[deleting[Here].slide].text
  BY <1>1, <1>3 DEF HeldStands
<1>5. deleting'[Here].step # "idle" => calls'["delete"].step = "sent"
  BY DEF EditorInv, DeleteIsCalled
<1>6. Deleting(Here)' => /\ deleting'[Here].slide = calls'["delete"].id
                         /\ rows'[calls'["delete"].id].text = calls'["delete"].base
  BY <1>3, <1>4 DEF EditorInv, DeleteIsCalled, Deleting
<1>7. DeleteIsCalled'
  BY <1>5, <1>6 DEF DeleteIsCalled
<1> QED  BY <1>3, <1>7 DEF Deleting

\* The view that the handler of a replaced slide builds is true of what the
\* server has stored.
LEMMA ReplacementIsTrue ==
  ASSUME Lasting, NEW s \in Kept, NEW pos \in Int, NEW text \in Texts,
         presentation' = [presentation EXCEPT !.rev = @ + 1], Kept' = Kept,
         rows'[s] = [pos |-> pos, rev |-> rows[s].rev + 1, text |-> text],
         \A x \in Kept : x # s => rows'[x].text = rows[x].text,
         NEW v, ViewIsTrue(v),
         NEW x, x = [id |-> s, order |-> pos, rev |-> rows[s].rev + 1, text |-> text],
         NEW w, w = ReplacePresentationSlide(v, x)
  PROVE  ViewIsTrue(w)'
<1>1. /\ v \in Views /\ v.rev \in Nat /\ v.music \in Music /\ v.slides \in Seq(SlideRecords)
      /\ SoundIsTrue(v.rev, v.music)
  BY DEF ViewIsTrue, Views
<1>2. PICK old \in Seq(SlideRecords) : old = v.slides
  BY <1>1
<1>3. PICK new : new = [i \in DOMAIN old |-> IF old[i].id = x.id THEN x ELSE old[i]]
  OBVIOUS
<1>4. w.rev = v.rev + 1 /\ w.music = v.music /\ w.slides = new
      /\ w = [rev |-> v.rev + 1, music |-> v.music, slides |-> new]
  BY <1>1, <1>2, <1>3 DEF ReplacePresentationSlide, Views
<1>5. /\ s \in SlideIds /\ rows[s].rev \in Nat /\ presentation.rev \in Nat
      /\ presentation'.rev = presentation.rev + 1 /\ presentation'.music = presentation.music
      /\ rows'[s].rev = rows[s].rev + 1 /\ rows'[s].text = text /\ rows'[s].pos = pos
  BY RowsHaveFields DEF Lasting, SlidesInv, RowsAreSlides
<1>6. x \in SlideRecords /\ x.id = s /\ x.rev = rows[s].rev + 1 /\ x.order = pos /\ x.text = text
  BY <1>5 DEF SlideRecords
<1>7. /\ DOMAIN new = DOMAIN old /\ new \in Seq(SlideRecords)
      /\ \A i \in DOMAIN old : /\ old[i] \in SlideRecords
                               /\ old[i].id = s => new[i] = x
                               /\ old[i].id # s => new[i] = old[i]
  <2>1. PICK n \in Nat : n = Len(old) /\ DOMAIN old = 1..n
    OBVIOUS
  <2>2. \A i \in 1..n : /\ old[i] \in SlideRecords
                        /\ old[i].id = s => new[i] = x
                        /\ old[i].id # s => new[i] = old[i]
    BY <1>3, <1>6, <2>1
  <2>3. DOMAIN new = 1..n
    BY <1>3, <2>1
  <2>4. new \in [1..n -> SlideRecords]
    BY <1>3, <1>6, <2>1, <2>2
  <2>5. new \in Seq(SlideRecords)
    BY <2>1, <2>4
  <2> QED  BY <2>1, <2>2, <2>3, <2>5
<1>8. \A i \in DOMAIN old : new[i].id = old[i].id
  BY <1>6, <1>7
<1>9. SlidesAreTrue(new)' /\ PlacesAreTrue(new)'
  <2>1. SlidesAreTrue(old)' /\ PlacesAreTrue(old)'
    BY <1>2, SlidesLast DEF ViewIsTrue
  <2>2. SlideIsTrue(s, x.rev, text)' /\ PlaceIsTrue(s, x.rev, pos)'
    BY <1>5, <1>6 DEF SlideIsTrue, PlaceIsTrue, Unborn
  <2>3. ASSUME NEW i \in DOMAIN new
        PROVE  /\ SlideIsTrue(new[i].id, new[i].rev, new[i].text)'
               /\ PlaceIsTrue(new[i].id, new[i].rev, new[i].order)'
    <3>1. CASE old[i].id = s
      BY <1>6, <1>7, <2>2, <3>1
    <3>2. CASE old[i].id # s
      BY <1>7, <2>1, <3>2 DEF SlidesAreTrue, PlacesAreTrue
    <3> QED  BY <3>1, <3>2
  <2>4. \A i, j \in DOMAIN new : new[i].id = new[j].id => i = j
    BY <1>7, <1>8, <2>1 DEF SlidesAreTrue
  <2> QED  BY <2>3, <2>4 DEF SlidesAreTrue, PlacesAreTrue
<1>10. SoundIsTrue(w.rev, w.music)'
  BY <1>1, <1>4, <1>5 DEF SoundIsTrue
<1>11. w.rev = presentation'.rev => Pairs(w.slides) = StoredPairs'
  <2> SUFFICES ASSUME w.rev = presentation'.rev
               PROVE  Pairs(w.slides) = StoredPairs'
    OBVIOUS
  <2>1. v.rev = presentation.rev
    BY <1>1, <1>4, <1>5
  <2>2. Pairs(old) = StoredPairs
    BY <1>2, <2>1 DEF ViewIsTrue
  <2>3. \A p \in Pairs(new) : p \in StoredPairs'
    <3> SUFFICES ASSUME NEW i \in DOMAIN new
                 PROVE  <<new[i].id, new[i].text>> \in StoredPairs'
      BY DEF Pairs
    <3>1. <<old[i].id, old[i].text>> \in StoredPairs
      BY <1>7, <2>2 DEF Pairs
    <3>2. old[i].id \in Kept /\ old[i].text = rows[old[i].id].text
      BY <3>1 DEF StoredPairs
    <3>3. new[i].id \in Kept' /\ new[i].text = rows'[new[i].id].text
      BY <1>5, <1>6, <1>7, <3>2
    <3> QED  BY <3>3 DEF StoredPairs
  <2>4. \A p \in StoredPairs' : p \in Pairs(new)
    <3> SUFFICES ASSUME NEW y \in Kept
                 PROVE  <<y, rows'[y].text>> \in Pairs(new)
      BY DEF StoredPairs
    <3>1. <<y, rows[y].text>> \in Pairs(old)
      BY <2>2 DEF StoredPairs
    <3>2. PICK i \in DOMAIN old : old[i].id = y /\ old[i].text = rows[y].text
      BY <3>1 DEF Pairs
    <3>3. new[i].id = y /\ new[i].text = rows'[y].text
      BY <1>5, <1>6, <1>7, <3>2
    <3> QED  BY <1>7, <3>3 DEF Pairs
  <2> QED  BY <1>4, <2>3, <2>4
<1>12. w \in Views
  BY <1>1, <1>4, <1>7 DEF Views
<1> QED  BY <1>4, <1>9, <1>10, <1>11, <1>12 DEF ViewIsTrue

\* So is the one of a created slide, which is sent with the view's revision.
LEMMA CreationIsTrue ==
  ASSUME Lasting, NEW s \in SlideIds, NEW pos \in Int, NEW text \in Texts,
         rows[s] = Unborn, Kept' = Kept \cup {s},
         presentation' = [presentation EXCEPT !.rev = @ + 1],
         rows'[s] = [pos |-> pos, rev |-> 1, text |-> text],
         \A x \in Kept : rows'[x].text = rows[x].text,
         NEW v, ViewIsTrue(v), v.rev = presentation.rev,
         NEW x, x = [id |-> s, order |-> pos, rev |-> 1, text |-> text],
         NEW w, w = AppendPresentationSlide(v, x)
  PROVE  ViewIsTrue(w)'
<1>1. /\ v \in Views /\ v.rev \in Nat /\ v.music \in Music /\ v.slides \in Seq(SlideRecords)
      /\ SoundIsTrue(v.rev, v.music)
  BY DEF ViewIsTrue, Views
<1>2. PICK old \in Seq(SlideRecords) : old = v.slides
  BY <1>1
<1>3. PICK new : new = Append(old, x)
  OBVIOUS
<1>4. w.rev = v.rev + 1 /\ w.music = v.music /\ w.slides = new
      /\ w = [rev |-> v.rev + 1, music |-> v.music, slides |-> new]
  BY <1>1, <1>2, <1>3 DEF AppendPresentationSlide, Views
<1>5. /\ presentation.rev \in Nat
      /\ presentation'.rev = presentation.rev + 1 /\ presentation'.music = presentation.music
      /\ rows'[s].rev = 1 /\ rows'[s].text = text /\ rows'[s].pos = pos
  BY RowsHaveFields DEF Lasting, SlidesInv, RowsAreSlides
<1>6. x \in SlideRecords /\ x.id = s /\ x.rev = 1 /\ x.order = pos /\ x.text = text
  BY DEF SlideRecords
<1>7. PICK n \in Nat : n = Len(old)
  OBVIOUS
<1>8. /\ DOMAIN old = 1..n /\ DOMAIN new = 1..(n + 1) /\ new \in Seq(SlideRecords)
      /\ new[n + 1] = x /\ \A i \in 1..n : new[i] = old[i]
  BY <1>3, <1>6, <1>7
<1>9. SlidesAreTrue(old) /\ SlidesAreTrue(old)' /\ PlacesAreTrue(old)'
  BY <1>2, SlidesLast DEF ViewIsTrue
<1>10. \A i \in 1..n : old[i].id # s
  BY <1>8, <1>9 DEF SlidesAreTrue, SlideIsTrue
<1>11. SlidesAreTrue(new)' /\ PlacesAreTrue(new)'
  <2>2. SlideIsTrue(s, 1, text)' /\ PlaceIsTrue(s, 1, pos)'
    BY <1>5 DEF SlideIsTrue, PlaceIsTrue, Unborn
  <2>3. ASSUME NEW i \in DOMAIN new
        PROVE  /\ SlideIsTrue(new[i].id, new[i].rev, new[i].text)'
               /\ PlaceIsTrue(new[i].id, new[i].rev, new[i].order)'
    <3>1. CASE i = n + 1
      BY <1>6, <1>8, <2>2, <3>1
    <3>2. CASE i \in 1..n
      BY <1>8, <1>9, <3>2 DEF SlidesAreTrue, PlacesAreTrue
    <3> QED  BY <1>8, <3>1, <3>2
  <2>4. \A i, j \in DOMAIN new : new[i].id = new[j].id => i = j
    <3>1. \A i, j \in 1..n : old[i].id = old[j].id => i = j
      BY <1>8, <1>9 DEF SlidesAreTrue
    <3> QED  BY <1>6, <1>8, <1>10, <3>1
  <2> QED  BY <2>3, <2>4 DEF SlidesAreTrue, PlacesAreTrue
<1>12. SoundIsTrue(w.rev, w.music)'
  BY <1>1, <1>4, <1>5 DEF SoundIsTrue
<1>13. Pairs(w.slides) = StoredPairs'
  <2>2. Pairs(old) = StoredPairs
    BY <1>2 DEF ViewIsTrue
  <2>3. Pairs(new) = Pairs(old) \cup {<<s, text>>}
    <3>1. \A p \in Pairs(new) : p \in Pairs(old) \cup {<<s, text>>}
      <4> SUFFICES ASSUME NEW i \in DOMAIN new
                   PROVE  <<new[i].id, new[i].text>> \in Pairs(old) \cup {<<s, text>>}
        BY DEF Pairs
      <4>1. CASE i = n + 1
        BY <1>6, <1>8, <4>1
      <4>2. CASE i \in 1..n
        BY <1>8, <4>2 DEF Pairs
      <4> QED  BY <1>8, <4>1, <4>2
    <3>2. <<s, text>> \in Pairs(new)
      <4>1. n + 1 \in DOMAIN new /\ new[n + 1].id = s /\ new[n + 1].text = text
        BY <1>6, <1>8
      <4> QED  BY <4>1 DEF Pairs
    <3>3. \A p \in Pairs(old) : p \in Pairs(new)
      <4> SUFFICES ASSUME NEW i \in 1..n
                   PROVE  <<old[i].id, old[i].text>> \in Pairs(new)
        BY <1>8 DEF Pairs
      <4>1. i \in DOMAIN new /\ new[i] = old[i]
        BY <1>8
      <4> QED  BY <4>1 DEF Pairs
    <3> QED  BY <3>1, <3>2, <3>3
  <2>4. StoredPairs' = StoredPairs \cup {<<s, text>>}
    <3>1. s \notin Kept
      BY DEF Kept, Unborn
    <3> QED  BY <1>5, <3>1 DEF StoredPairs
  <2> QED  BY <1>4, <2>2, <2>3, <2>4
<1>14. w \in Views
  BY <1>1, <1>4, <1>8 DEF Views
<1> QED  BY <1>4, <1>11, <1>12, <1>13, <1>14 DEF ViewIsTrue

\* So is the one of an accepted order.
LEMMA ReorderingIsTrue ==
  ASSUME Lasting, NEW c \in CallRecords, ViewIsTrue(c.seen), c.seen.rev = presentation.rev,
         Pairs(c.slides) = Pairs(c.seen.slides), SlidesAreTrue(c.slides),
         \A i \in DOMAIN c.slides : c.slides[i].order = i - 1,
         Kept' = Kept, presentation' = [presentation EXCEPT !.rev = @ + 1],
         \A i \in DOMAIN c.slides : c.slides[i].id \in Kept,
         \A x \in Kept : /\ rows'[x].text = rows[x].text
                         /\ rows'[x].rev = rows[x].rev + 1
                         /\ rows'[x].pos + 1 \in DOMAIN c.slides
                         /\ c.slides[rows'[x].pos + 1].id = x,
         NEW w, w = Reordering(c)
  PROVE  ViewIsTrue(w)'
<1>1. PICK v, old : v = c.seen /\ old = c.slides
  OBVIOUS
<1>2. /\ v \in Views /\ v.rev \in Nat /\ v.music \in Music /\ v.slides \in Seq(SlideRecords)
      /\ old \in Seq(SlideRecords) /\ SoundIsTrue(v.rev, v.music)
  BY <1>1 DEF ViewIsTrue, Views, CallRecords
<1>3. PICK new : new = [i \in DOMAIN old |-> [old[i] EXCEPT !.rev = @ + 1]]
  OBVIOUS
<1>4. w.rev = v.rev + 1 /\ w.music = v.music /\ w.slides = new
      /\ w = [rev |-> v.rev + 1, music |-> v.music, slides |-> new]
  BY <1>1, <1>2, <1>3 DEF Reordering, Views
<1>5. /\ presentation.rev \in Nat
      /\ presentation'.rev = presentation.rev + 1 /\ presentation'.music = presentation.music
      /\ Kept \subseteq SlideIds
      /\ \A x \in SlideIds : rows[x].rev \in Nat
  BY RowsHaveFields DEF Lasting, SlidesInv, RowsAreSlides
<1>5p. \A x \in Kept : rows'[x].pos \in Nat
  BY DEF Lasting, SlidesInv, RowsAreSlides, Kept
<1>6. ASSUME NEW i \in DOMAIN old
      PROVE  /\ new[i] \in SlideRecords /\ old[i].id \in Kept /\ old[i].rev \in Nat
             /\ new[i].id = old[i].id /\ new[i].rev = old[i].rev + 1
             /\ new[i].text = old[i].text /\ new[i].order = i - 1
  <2>1. old[i] \in SlideRecords
    BY <1>2
  <2>2. new[i] = [old[i] EXCEPT !.rev = @ + 1]
    BY <1>3
  <2>3. /\ new[i] \in SlideRecords /\ new[i].id = old[i].id /\ new[i].rev = old[i].rev + 1
        /\ new[i].text = old[i].text /\ new[i].order = old[i].order /\ old[i].rev \in Nat
    BY <2>1, <2>2 DEF SlideRecords
  <2> QED  BY <1>1, <2>3
<1>7. new \in Seq(SlideRecords) /\ DOMAIN new = DOMAIN old
  <2>1. PICK n \in Nat : n = Len(old) /\ DOMAIN old = 1..n
    BY <1>2
  <2>2. new \in [1..n -> SlideRecords]
    BY <1>3, <1>6, <2>1
  <2> QED  BY <1>3, <2>1, <2>2
<1>8. \A i, j \in DOMAIN old : old[i].id = old[j].id => i = j
  BY <1>1 DEF SlidesAreTrue
<1>9. ASSUME NEW i \in DOMAIN new
      PROVE  /\ SlideIsTrue(new[i].id, new[i].rev, new[i].text)'
             /\ PlaceIsTrue(new[i].id, new[i].rev, new[i].order)'
  <2>1. /\ new[i].id \in Kept /\ new[i].rev = old[i].rev + 1 /\ old[i].rev \in Nat
        /\ new[i].id = old[i].id /\ new[i].text = old[i].text /\ new[i].order = i - 1
    BY <1>6, <1>7
  <2>2. SlideIsTrue(old[i].id, old[i].rev, old[i].text)
    BY <1>1, <1>7 DEF SlidesAreTrue
  <2>3. PICK s \in Kept : s = old[i].id
    BY <2>1
  <2>4. /\ rows'[s].text = rows[s].text /\ rows'[s].rev = rows[s].rev + 1
        /\ rows'[s].pos + 1 \in DOMAIN old /\ old[rows'[s].pos + 1].id = s
        /\ rows[s].rev \in Nat /\ rows'[s].pos \in Nat /\ i \in Nat
    BY <1>1, <1>2, <1>5, <1>5p, <1>7
  <2>5. rows'[s].pos + 1 = i
    BY <1>7, <1>8, <2>3, <2>4
  <2>6. rows'[s] # Unborn
    BY <2>4 DEF Unborn
  <2>7. 1 <= old[i].rev /\ old[i].rev <= rows[s].rev
        /\ (old[i].rev = rows[s].rev => old[i].text = rows[s].text)
    BY <2>2, <2>3 DEF SlideIsTrue
  <2>8. SlideIsTrue(new[i].id, new[i].rev, new[i].text)'
    BY <2>1, <2>3, <2>4, <2>6, <2>7 DEF SlideIsTrue
  <2>9. PlaceIsTrue(new[i].id, new[i].rev, new[i].order)'
    BY <2>1, <2>3, <2>4, <2>5 DEF PlaceIsTrue
  <2> QED  BY <2>8, <2>9
<1>10. SlidesAreTrue(new)' /\ PlacesAreTrue(new)'
  <2>1. \A i, j \in DOMAIN new : new[i].id = new[j].id => i = j
    BY <1>6, <1>7, <1>8
  <2> QED  BY <1>9, <2>1 DEF SlidesAreTrue, PlacesAreTrue
<1>11. SoundIsTrue(w.rev, w.music)'
  BY <1>2, <1>4, <1>5 DEF SoundIsTrue
<1>12. Pairs(w.slides) = StoredPairs'
  <2>1. Pairs(old) = StoredPairs
    BY <1>1 DEF ViewIsTrue
  <2>2. StoredPairs' = StoredPairs
    BY DEF StoredPairs
  <2>3. Pairs(new) = Pairs(old)
    <3>1. \A i \in DOMAIN old : <<new[i].id, new[i].text>> = <<old[i].id, old[i].text>>
      BY <1>6
    <3>2. Pairs(new) = {<<new[i].id, new[i].text>> : i \in DOMAIN old}
      BY <1>7 DEF Pairs
    <3>3. Pairs(old) = {<<old[i].id, old[i].text>> : i \in DOMAIN old}
      BY DEF Pairs
    <3>4. \A p \in Pairs(new) : p \in Pairs(old)
      BY <3>1, <3>2, <3>3
    <3>5. \A p \in Pairs(old) : p \in Pairs(new)
      BY <3>1, <3>2, <3>3
    <3> QED  BY <3>4, <3>5
  <2> QED  BY <1>4, <2>1, <2>2, <2>3
<1>13. w \in Views
  BY <1>2, <1>4, <1>7 DEF Views
<1> QED  BY <1>4, <1>10, <1>11, <1>12, <1>13 DEF ViewIsTrue

-----------------------------------------------------------------------------
(* Saves and the order.                                                    *)

\* A slide replaced at its own place moves no other; and where the places have
\* no gap, itself past no other.
LEMMA ReplacedKeeps ==
  ASSUME RowsAreSlides, NEW s \in Kept, NEW text, NEW pos, pos = rows[s].pos,
         pos \in 0..Cardinality(Kept) - 1,
         NEW new, new = Replaced(s, pos, text)
  PROVE  /\ new[s].pos = pos
         /\ \A x, y \in Kept \ {s} : rows[x].pos < rows[y].pos <=> new[x].pos < new[y].pos
         /\ Gapless => \A x \in Kept \ {s} : /\ new[x].pos < pos <=> rows[x].pos < pos
                                             /\ pos < new[x].pos <=> pos < rows[x].pos
<1> DEFINE rest == Kept \ {s}
           rank(x) == Cardinality(PosUpTo(rest, x))
           n == Cardinality(rest)
<1>1. /\ n = Cardinality(Kept) - 1 /\ n \in Nat
      /\ \A x \in rest : /\ rank(x) \in 1..n
                         /\ new[x].pos = IF rank(x) <= pos THEN rank(x) - 1 ELSE rank(x)
      /\ \A x, y \in rest : rows[x].pos < rows[y].pos => rank(x) < rank(y)
  BY ReplacedPlaces
<1>r. \A x \in rest : rank(x) \in Nat
  <2>1. PICK m \in Nat : m = n
    BY <1>1
  <2>2. ASSUME NEW x \in rest
        PROVE  rank(x) \in Nat
    <3>1. PICK r : r = rank(x)
      OBVIOUS
    <3>2. r \in 1..m
      BY <1>1, <2>1, <3>1
    <3>3. r \in Nat
      BY <3>2
    <3> QED  BY <3>1, <3>3
  <2> QED  BY <2>2
<1>2. /\ \A x \in Kept : rows[x].pos \in Nat
      /\ \A x, y \in Kept : rows[x].pos = rows[y].pos => x = y
      /\ IsFiniteSet(Kept) /\ Kept \subseteq SlideIds /\ pos \in Nat
  BY RowsHaveFields DEF RowsAreSlides
<1>3. new[s].pos = pos
  BY <1>2 DEF Replaced
<1>4. \A x, y \in rest : rows[x].pos < rows[y].pos <=> new[x].pos < new[y].pos
  <2>1. \A x, y \in rest : rows[x].pos < rows[y].pos <=> rank(x) < rank(y)
    <3> SUFFICES ASSUME NEW x \in rest, NEW y \in rest
                 PROVE  rows[x].pos < rows[y].pos <=> rank(x) < rank(y)
      OBVIOUS
    <3>1. rank(x) \in Nat /\ rank(y) \in Nat
      BY <1>r
    <3>2. CASE rows[x].pos < rows[y].pos
      BY <1>1, <3>2
    <3>3. CASE rows[y].pos < rows[x].pos
      <4>1. rank(y) < rank(x)
        BY <1>1, <3>3
      <4> QED  BY <1>2, <3>1, <3>3, <4>1
    <3>4. CASE x = y
      BY <1>2, <3>1, <3>4
    <3> QED  BY <1>2, <3>2, <3>3, <3>4
  <2> HIDE DEF rank, n
  <2>2. \A x, y \in rest : rank(x) < rank(y) <=> new[x].pos < new[y].pos
    BY <1>1, <1>2
  <2> QED  BY <2>1, <2>2
<1>5. ASSUME Gapless, NEW x \in rest
      PROVE  /\ rows[x].pos < pos => rank(x) <= pos
             /\ pos < rows[x].pos => pos < rank(x)
  <2>1. PICK p \in Nat : p = rows[x].pos
    BY <1>2
  <2>2. p # pos /\ p <= n
    <3>1. p \in 0..Cardinality(Kept) - 1
      BY <1>5, <2>1 DEF Gapless
    <3>2. p # pos
      BY <1>2, <2>1
    <3> QED  BY <1>1, <3>1, <3>2
  <2>3. PICK P : P = PosUpTo(rest, x)
    OBVIOUS
  <2>4. P = {y \in rest : rows[y].pos <= p} /\ P \subseteq Kept /\ rank(x) = Cardinality(P)
    BY <2>1, <2>3 DEF PosUpTo
  <2>5. IsFiniteSet(P)
    BY <1>2, <2>4, FS_Subset
  <2>6. PICK f : f = [y \in P |-> rows[y].pos]
    OBVIOUS
  <2>i. IsFiniteSet(0..p) /\ Cardinality(0..p) = p + 1
    <3>1. 0 \in Int /\ p \in Int /\ ~(0 > p) /\ p - 0 + 1 = p + 1
      BY <2>1
    <3> QED  BY <3>1, FS_Interval
  <2>7. CASE p < pos
    <3>1. f \in Injection(P, 0..p)
      <4>1. f \in [P -> 0..p]
        BY <1>2, <2>1, <2>4, <2>6
      <4>2. \A a, b \in P : f[a] = f[b] => a = b
        BY <1>2, <2>4, <2>6
      <4> QED  BY <4>1, <4>2 DEF Injection, IsInjective
    <3>2. IsFiniteSet(0..p) /\ Cardinality(0..p) = p + 1
      BY <2>i
    <3>3. Cardinality(P) <= p + 1
      BY <2>5, <3>1, <3>2, FS_Injection
    <3>4. rank(x) \in Nat
      BY <1>r
    <3> QED  BY <1>2, <2>1, <2>4, <2>7, <3>3, <3>4
  <2>8. CASE pos < p
    <3>1. PICK T : T = (0..p) \ {pos}
      OBVIOUS
    <3>2. f \in Surjection(P, T)
      <4>1. f \in [P -> T]
        BY <1>2, <2>1, <2>4, <2>6, <3>1
      <4>2. ASSUME NEW m \in T
            PROVE  \E y \in P : f[y] = m
        <5>1. m \in 0..Cardinality(Kept) - 1 /\ m # pos /\ m <= p
          BY <1>1, <2>2, <3>1
        <5>2. PICK y \in Kept : rows[y].pos = m
          BY <1>5, <5>1 DEF Gapless
        <5>3. y \in P
          BY <2>4, <5>1, <5>2
        <5> QED  BY <2>6, <5>2, <5>3
      <4> QED  BY <4>1, <4>2 DEF Surjection
    <3>3. IsFiniteSet(T) /\ Cardinality(T) <= Cardinality(P)
      BY <2>5, <3>2, FS_Surjection
    <3>5. Cardinality(T) = p
      <4>1. pos \in 0..p
        BY <1>2, <2>1, <2>8
      <4>2. PICK I : I = 0..p
        OBVIOUS
      <4>3. IsFiniteSet(I) /\ Cardinality(I) = p + 1 /\ pos \in I /\ T = I \ {pos}
        BY <2>i, <3>1, <4>1, <4>2
      <4>4. Cardinality(I \ {pos}) = Cardinality(I) - 1
        BY <4>3, FS_RemoveElement
      <4> QED  BY <2>1, <4>3, <4>4
    <3>6. rank(x) \in Nat
      BY <1>r
    <3> QED  BY <1>2, <2>1, <2>4, <2>8, <3>3, <3>5, <3>6
  <2> QED  BY <1>2, <2>1, <2>2, <2>7, <2>8
<1>6. ASSUME Gapless, NEW x \in rest
      PROVE  /\ new[x].pos < pos <=> rows[x].pos < pos
             /\ pos < new[x].pos <=> pos < rows[x].pos
  <2>1. rows[x].pos # pos
    BY <1>2
  <2>2. PICK r \in Nat \ {0} : r = rank(x)
    BY <1>1
  <2>3. new[x].pos = IF r <= pos THEN r - 1 ELSE r
    BY <1>1, <2>2
  <2>4. CASE rows[x].pos < pos
    <3>1. r <= pos
      BY <1>5, <1>6, <2>2, <2>4
    <3> QED  BY <1>2, <2>3, <2>4, <3>1
  <2>5. CASE pos < rows[x].pos
    <3>1. pos < r
      BY <1>5, <1>6, <2>2, <2>5
    <3> QED  BY <1>2, <2>3, <2>5, <3>1
  <2> QED  BY <1>2, <2>1, <2>4, <2>5
<1> QED  BY <1>3, <1>4, <1>6

-----------------------------------------------------------------------------
(* The server answers.                                                     *)

\* What the properties say of a step.
EditsFit ==
  /\ \A k \in {"save", "convert"} :
       Accepted(k) => rows[calls[k].id].text = calls[k].base
  /\ calls["delete"].step = "sent" /\ deleting'[Here].step = "found"
       => rows[calls["delete"].id].text = calls["delete"].base
  /\ Accepted("setting") => presentation.music = calls["setting"].base

SaveFits(k) ==
  \A s, x \in Kept : Gapless \/ calls[k].id \notin {s, x} =>
    (rows[s].pos < rows[x].pos <=> rows'[s].pos < rows'[x].pos)
SavesFit == \A k \in {"save", "convert"} : Accepted(k) => SaveFits(k)

LEMMA CalmFits ==
  ASSUME EditorInv, \A k \in {"save", "convert", "setting"} : ~Accepted(k),
         deleting'[Here].step = "found" => Deleting(Here)
  PROVE  EditsFit /\ SavesFit
BY DEF EditsFit, SavesFit, EditorInv, DeleteIsCalled, Deleting

LEMMA NotAccepted ==
  ASSUME NEW k, calls'[k] = calls[k] \/ calls'[k].outcome # "ok"
  PROVE  ~Accepted(k)
BY DEF Accepted

LEMMA ServeReplaceStep ==
  ASSUME SlidesInv, EditorInv, UNCHANGED <<screen, view, fetch, draft>>,
         NEW k \in {"save", "convert"}, NEW outcome, ServeReplace(k, outcome)
  PROVE  SlidesInv' /\ EditorInv' /\ AnsweredStand /\ EditsFit /\ SavesFit
<1>0. k \in Kinds /\ k # "delete" /\ "delete" \in Kinds /\ "setting" \in Kinds /\ k # "setting"
      /\ \A j \in {"save", "convert"} : j \in Kinds
  BY DEF Kinds
<1>1. PICK c \in CallRecords : c = calls[k]
  BY <1>0 DEF EditorInv, CallsAreTrue
<1>2. /\ c.step = "sent" /\ CallIsTrue(k, c)
      /\ ReplaceSlide(c.id, c.order, c.text, c.rev, outcome)
      /\ Answered(k, outcome, [c EXCEPT !.rev = rows'[c.id].rev])
  BY <1>0, <1>1 DEF ServeReplace, EditorInv, CallsAreTrue
<1>3. /\ ViewIsTrue(c.seen) /\ c.id \in SlideIds /\ c.text \in Texts
      /\ SlideIsTrue(c.id, c.rev, c.base) /\ c.order \in Int /\ c.rev \in Nat
  BY <1>2 DEF CallIsTrue, CallRecords
<1>4. /\ SlidesInv' /\ SlidesStep /\ HeldStands /\ AnsweredStand
      /\ outcome = "ok" =>
           /\ c.id \in Kept /\ ~StaleSlide(c.id, c.rev) /\ c.order \in 0..Cardinality(Kept) - 1
           /\ presentation' = [presentation EXCEPT !.rev = @ + 1]
           /\ Kept' = Kept
           /\ rows' = Replaced(c.id, c.order, c.text)
           /\ rows'[c.id] = [pos |-> c.order, rev |-> rows[c.id].rev + 1, text |-> c.text]
           /\ \A x \in Kept : x # c.id => rows'[x].text = rows[x].text
  BY <1>2, <1>3, ReplaceStep
<1>5. Lasting
  BY <1>4 DEF Lasting
<1>6. outcome \in Outcomes
  BY <1>2 DEF ReplaceSlide, Victim, Outcomes
<1>7. PICK b : b = [c EXCEPT !.rev = rows'[c.id].rev]
  OBVIOUS
<1>8. /\ b \in CallRecords /\ b.seen = c.seen /\ b.id = c.id /\ b.order = c.order
      /\ b.text = c.text /\ b.rev = rows'[c.id].rev
  <2>1. rows'[c.id].rev \in Nat
    BY <1>3, <1>4 DEF SlidesInv, RowsAreSlides
  <2> QED  BY <1>7, <2>1 DEF CallRecords
<1>9. PICK a : a = AnswerTo(b, outcome)
  OBVIOUS
<1>10. /\ a \in CallRecords /\ a.step = "answered" /\ a.outcome = outcome /\ a.seen = c.seen
       /\ a.id = c.id /\ a.order = c.order /\ a.text = c.text /\ a.rev = rows'[c.id].rev
  BY <1>6, <1>8, <1>9, AnswerIs
<1>11. calls' = [calls EXCEPT ![k] = a]
  BY <1>2, <1>7, <1>9 DEF Answered, AnswerTo
<1>12. CallIsTrue(k, a)'
  <2>1. ViewIsTrue(a.seen)'
    BY <1>3, <1>5, <1>10, ViewLasts
  <2>2. outcome = "ok" => ViewIsTrue(ReplacePresentationSlide(a.seen, Replacement(a)))'
    <3> SUFFICES ASSUME outcome = "ok"
                 PROVE  ViewIsTrue(ReplacePresentationSlide(a.seen, Replacement(a)))'
      OBVIOUS
    <3>1. PICK x : x = Replacement(a)
      OBVIOUS
    <3>2. x = [id |-> c.id, order |-> c.order, rev |-> rows[c.id].rev + 1, text |-> c.text]
      BY <1>4, <1>10, <3>1 DEF Replacement
    <3>3. PICK w : w = ReplacePresentationSlide(c.seen, x)
      OBVIOUS
    <3>4. ViewIsTrue(w)'
      BY <1>3, <1>4, <1>5, <3>2, <3>3, ReplacementIsTrue
    <3> QED  BY <1>10, <3>1, <3>3, <3>4
  <2> QED  BY <1>0, <1>10, <2>1, <2>2 DEF CallIsTrue
<1>13. /\ calls \in [Kinds -> CallRecords]
       /\ calls'[k] = a /\ \A j \in Kinds : j # k => calls'[j] = calls[j]
  BY <1>0, <1>11 DEF EditorInv, CallsAreTrue
<1>14. DeleteIsCalled' /\ (deleting'[Here].step = "found" => Deleting(Here))
  <2>1. deleting[Here].step = "idle" => deleting'[Here].step = "idle"
    BY <1>2, NoneStarts, EditorConstants
  <2> QED  BY <1>0, <1>4, <1>13, <2>1, DeleteStaysCalled
<1>15. EditorInv'
  BY <1>0, <1>5, <1>10, <1>11, <1>12, <1>14, ServedCall
<1>16. \A j \in Kinds : j # k => ~Accepted(j)
  BY <1>13, NotAccepted
<1>17. CASE outcome # "ok"
  <2>1. ~Accepted(k)
    BY <1>10, <1>13, <1>17, NotAccepted
  <2> QED  BY <1>0, <1>4, <1>14, <1>15, <1>16, <2>1, CalmFits
<1>18. CASE outcome = "ok"
  <2>1. rows[c.id].rev \in Nat /\ rows[c.id].pos \in Nat
    BY <1>4, <1>18, RowsHaveFields DEF SlidesInv
  <2>2. c.rev = rows[c.id].rev
    BY <1>3, <1>4, <1>18 DEF StaleSlide, Stale, NoIfMatch, SlideIsTrue
  <2>3. rows[c.id].text = c.base
    BY <1>3, <1>4, <1>18, <2>2 DEF SlideIsTrue
  <2>4. c.order = rows[c.id].pos
    BY <1>2, <1>4, <1>18, <2>2 DEF CallIsTrue, PlaceIsTrue
  <2>5. EditsFit
    BY <1>0, <1>1, <1>14, <1>16, <2>3 DEF EditsFit, EditorInv, DeleteIsCalled, Deleting
  <2>6. SaveFits(k)
    <3>1. PICK new : new = rows'
      OBVIOUS
    <3>2. /\ new[c.id].pos = rows[c.id].pos
          /\ \A x, y \in Kept \ {c.id} : rows[x].pos < rows[y].pos <=> new[x].pos < new[y].pos
          /\ Gapless => \A x \in Kept \ {c.id} :
               /\ new[x].pos < rows[c.id].pos <=> rows[x].pos < rows[c.id].pos
               /\ rows[c.id].pos < new[x].pos <=> rows[c.id].pos < rows[x].pos
      BY <1>4, <1>18, <2>4, <3>1, ReplacedKeeps DEF SlidesInv
    <3>3. \A s, x \in Kept : Gapless \/ c.id \notin {s, x} =>
            (rows[s].pos < rows[x].pos <=> new[s].pos < new[x].pos)
      <4> SUFFICES ASSUME NEW s \in Kept, NEW x \in Kept, Gapless \/ c.id \notin {s, x}
                   PROVE  rows[s].pos < rows[x].pos <=> new[s].pos < new[x].pos
        OBVIOUS
      <4>1. CASE s = c.id /\ x = c.id
        BY <2>1, <3>2, <4>1
      <4>2. CASE s = c.id /\ x # c.id
        BY <3>2, <4>2
      <4>3. CASE s # c.id /\ x = c.id
        BY <3>2, <4>3
      <4>4. CASE s # c.id /\ x # c.id
        BY <3>2, <4>4
      <4> QED  BY <4>1, <4>2, <4>3, <4>4
    <3> QED  BY <1>1, <3>1, <3>3 DEF SaveFits
  <2>7. SavesFit
    BY <1>0, <1>16, <2>6 DEF SavesFit
  <2> QED  BY <1>4, <1>15, <2>5, <2>7
<1> QED  BY <1>17, <1>18

LEMMA ServeCreateStep ==
  ASSUME SlidesInv, EditorInv, UNCHANGED <<screen, view, fetch, draft>>,
         NEW outcome, ServeCreate(outcome)
  PROVE  SlidesInv' /\ EditorInv' /\ AnsweredStand /\ EditsFit /\ SavesFit
<1>0. /\ "create" \in Kinds /\ \A j \in {"save", "convert", "setting", "delete"} : j \in Kinds /\ j # "create"
  BY DEF Kinds
<1>1. PICK c \in CallRecords : c = calls["create"]
  BY <1>0 DEF EditorInv, CallsAreTrue
<1>2. PICK s \in SlideIds : /\ c.step = "sent" /\ CallIsTrue("create", c)
                            /\ CreateSlide(s, c.order, c.text, c.rev, outcome)
                            /\ Answered("create", outcome, [c EXCEPT !.id = s])
  BY <1>0, <1>1 DEF ServeCreate, EditorInv, CallsAreTrue
<1>3. ViewIsTrue(c.seen) /\ c.text \in Texts /\ c.rev = c.seen.rev /\ c.order \in Int /\ c.rev \in Nat
  BY <1>2 DEF CallIsTrue, CallRecords
<1>4. /\ SlidesInv' /\ SlidesStep /\ HeldStands /\ AnsweredStand
      /\ outcome = "ok" =>
           /\ ~Stale(c.rev, presentation.rev)
           /\ presentation' = [presentation EXCEPT !.rev = @ + 1]
           /\ rows[s] = Unborn
           /\ Kept' = Kept \cup {s}
           /\ rows'[s] = [pos |-> c.order, rev |-> 1, text |-> c.text]
           /\ \A x \in Kept : rows'[x].text = rows[x].text
  BY <1>2, <1>3, CreateStep
<1>5. Lasting
  BY <1>4 DEF Lasting
<1>6. outcome \in Outcomes
  BY <1>2 DEF CreateSlide, Victim, Outcomes
<1>7. PICK b : b = [c EXCEPT !.id = s]
  OBVIOUS
<1>8. /\ b \in CallRecords /\ b.seen = c.seen /\ b.id = s /\ b.order = c.order /\ b.text = c.text
  BY <1>7 DEF CallRecords
<1>9. PICK a : a = AnswerTo(b, outcome)
  OBVIOUS
<1>10. /\ a \in CallRecords /\ a.step = "answered" /\ a.outcome = outcome /\ a.seen = c.seen
       /\ a.id = s /\ a.order = c.order /\ a.text = c.text
  BY <1>6, <1>8, <1>9, AnswerIs
<1>11. calls' = [calls EXCEPT !["create"] = a]
  BY <1>2, <1>7, <1>9 DEF Answered, AnswerTo
<1>12. CallIsTrue("create", a)'
  <2>1. ViewIsTrue(a.seen)'
    BY <1>3, <1>5, <1>10, ViewLasts
  <2>2. outcome = "ok" => ViewIsTrue(AppendPresentationSlide(a.seen, Creation(a)))'
    <3> SUFFICES ASSUME outcome = "ok"
                 PROVE  ViewIsTrue(AppendPresentationSlide(a.seen, Creation(a)))'
      OBVIOUS
    <3>1. PICK x : x = Creation(a)
      OBVIOUS
    <3>2. x = [id |-> s, order |-> c.order, rev |-> 1, text |-> c.text]
      BY <1>10, <3>1 DEF Creation
    <3>3. PICK w : w = AppendPresentationSlide(c.seen, x)
      OBVIOUS
    <3>4. c.seen.rev = presentation.rev
      BY <1>3, <1>4 DEF Stale, NoIfMatch, ViewIsTrue, SoundIsTrue
    <3>5. ViewIsTrue(w)'
      BY <1>3, <1>4, <1>5, <3>2, <3>3, <3>4, CreationIsTrue
    <3> QED  BY <1>10, <3>1, <3>3, <3>5
  <2> QED  BY <1>10, <2>1, <2>2 DEF CallIsTrue
<1>13. \A j \in Kinds : j # "create" => calls'[j] = calls[j]
  BY <1>0, <1>11 DEF EditorInv, CallsAreTrue
<1>14. DeleteIsCalled' /\ (deleting'[Here].step = "found" => Deleting(Here))
  <2>1. deleting[Here].step = "idle" => deleting'[Here].step = "idle"
    BY <1>2, NoneStarts, EditorConstants
  <2> QED  BY <1>0, <1>4, <1>13, <2>1, DeleteStaysCalled
<1>15. EditorInv'
  BY <1>0, <1>5, <1>10, <1>11, <1>12, <1>14, ServedCall
<1>16. \A j \in {"save", "convert", "setting"} : ~Accepted(j)
  BY <1>0, <1>13, NotAccepted
<1> QED  BY <1>4, <1>14, <1>15, <1>16, CalmFits

LEMMA ServeReorderStep ==
  ASSUME SlidesInv, EditorInv, UNCHANGED <<screen, view, fetch, draft>>,
         NEW outcome, ServeReorder(outcome)
  PROVE  SlidesInv' /\ EditorInv' /\ AnsweredStand /\ EditsFit /\ SavesFit
<1>0. /\ "reorder" \in Kinds /\ \A j \in {"save", "convert", "setting", "delete"} : j \in Kinds /\ j # "reorder"
  BY DEF Kinds
<1>1. PICK c \in CallRecords : c = calls["reorder"]
  BY <1>0 DEF EditorInv, CallsAreTrue
<1>2. PICK order : order = [i \in DOMAIN c.slides |-> c.slides[i].id]
  OBVIOUS
<1>3. /\ c.step = "sent" /\ CallIsTrue("reorder", c)
      /\ ReorderSlides(order, c.rev, outcome) /\ Answered("reorder", outcome, c)
  BY <1>0, <1>1, <1>2 DEF ServeReorder, EditorInv, CallsAreTrue
<1>4. /\ ViewIsTrue(c.seen) /\ c.rev = c.seen.rev /\ c.slides \in Seq(SlideRecords)
      /\ Pairs(c.slides) = Pairs(c.seen.slides) /\ SlidesAreTrue(c.slides)
      /\ \A i \in DOMAIN c.slides : c.slides[i].order = i - 1
  BY <1>3 DEF CallIsTrue, CallRecords
<1>5. order \in Seq(SlideIds) /\ DOMAIN order = DOMAIN c.slides
  <2>1. PICK n \in Nat : n = Len(c.slides) /\ DOMAIN c.slides = 1..n
    BY <1>4
  <2>2. ASSUME NEW i \in 1..n
        PROVE  c.slides[i].id \in SlideIds
    <3>1. c.slides[i] \in SlideRecords
      BY <1>4, <2>1
    <3> QED  BY <3>1 DEF SlideRecords
  <2>3. order \in [1..n -> SlideIds]
    BY <1>2, <2>1, <2>2
  <2> QED  BY <1>2, <2>1, <2>3
<1>6. /\ SlidesInv' /\ SlidesStep /\ HeldStands /\ AnsweredStand
      /\ outcome = "ok" =>
           /\ ~Stale(c.rev, presentation.rev)
           /\ presentation' = [presentation EXCEPT !.rev = @ + 1]
           /\ Kept' = Kept /\ \A i \in DOMAIN order : order[i] \in Kept
           /\ \A x \in Kept : /\ rows'[x].text = rows[x].text
                              /\ rows'[x].rev = rows[x].rev + 1
                              /\ rows'[x].pos + 1 \in DOMAIN order
                              /\ order[rows'[x].pos + 1] = x
  BY <1>3, <1>5, ReorderStep
<1>7. Lasting
  BY <1>6 DEF Lasting
<1>8. outcome \in Outcomes
  BY <1>3 DEF ReorderSlides, Victim, Outcomes
<1>9. PICK a : a = AnswerTo(c, outcome)
  OBVIOUS
<1>10. /\ a \in CallRecords /\ a.step = "answered" /\ a.outcome = outcome /\ a.seen = c.seen
       /\ a.slides = c.slides
  BY <1>8, <1>9, AnswerIs
<1>11. calls' = [calls EXCEPT !["reorder"] = a]
  BY <1>3, <1>9 DEF Answered, AnswerTo
<1>12. CallIsTrue("reorder", a)'
  <2>1. ViewIsTrue(a.seen)'
    BY <1>4, <1>7, <1>10, ViewLasts
  <2>2. outcome = "ok" => ViewIsTrue(Reordering(a))'
    <3> SUFFICES ASSUME outcome = "ok"
                 PROVE  ViewIsTrue(Reordering(a))'
      OBVIOUS
    <3>1. PICK w : w = Reordering(c)
      OBVIOUS
    <3>2. c.seen.rev = presentation.rev
      BY <1>4, <1>6 DEF Stale, NoIfMatch, ViewIsTrue, SoundIsTrue
    <3>3. \A i \in DOMAIN c.slides : c.slides[i].id \in Kept
      BY <1>2, <1>5, <1>6
    <3>4. ASSUME NEW x \in Kept
          PROVE  /\ rows'[x].text = rows[x].text
                 /\ rows'[x].rev = rows[x].rev + 1
                 /\ rows'[x].pos + 1 \in DOMAIN c.slides
                 /\ c.slides[rows'[x].pos + 1].id = x
      BY <1>2, <1>5, <1>6
    <3>5. ViewIsTrue(w)'
      BY <1>4, <1>6, <1>7, <3>1, <3>2, <3>3, <3>4, ReorderingIsTrue
    <3>6. Reordering(a) = Reordering(c)
      BY <1>10 DEF Reordering
    <3> QED  BY <3>1, <3>5, <3>6
  <2> QED  BY <1>10, <2>1, <2>2 DEF CallIsTrue
<1>13. \A j \in Kinds : j # "reorder" => calls'[j] = calls[j]
  BY <1>0, <1>11 DEF EditorInv, CallsAreTrue
<1>14. DeleteIsCalled' /\ (deleting'[Here].step = "found" => Deleting(Here))
  <2>1. deleting[Here].step = "idle" => deleting'[Here].step = "idle"
    BY <1>3, NoneStarts, EditorConstants
  <2> QED  BY <1>0, <1>6, <1>13, <2>1, DeleteStaysCalled
<1>15. EditorInv'
  BY <1>0, <1>7, <1>10, <1>11, <1>12, <1>14, ServedCall
<1>16. \A j \in {"save", "convert", "setting"} : ~Accepted(j)
  BY <1>0, <1>13, NotAccepted
<1> QED  BY <1>6, <1>14, <1>15, <1>16, CalmFits

LEMMA ServeSettingStep ==
  ASSUME SlidesInv, EditorInv, UNCHANGED <<screen, view, fetch, draft>>,
         NEW outcome, ServeSetting(outcome)
  PROVE  SlidesInv' /\ EditorInv' /\ AnsweredStand /\ EditsFit /\ SavesFit
<1>0. /\ "setting" \in Kinds /\ \A j \in {"save", "convert", "delete"} : j \in Kinds /\ j # "setting"
  BY DEF Kinds
<1>1. PICK c \in CallRecords : c = calls["setting"]
  BY <1>0 DEF EditorInv, CallsAreTrue
<1>2. PICK v : v = SlidesOf([rev |-> presentation'.rev, music |-> presentation'.music,
                             slides |-> <<>>])
  OBVIOUS
<1>2v. [NoView EXCEPT !.rev = presentation'.rev, !.music = presentation'.music]
         = [rev |-> presentation'.rev, music |-> presentation'.music, slides |-> <<>>]
  <2>1. PICK u : u = [NoView EXCEPT !.rev = presentation'.rev, !.music = presentation'.music]
    OBVIOUS
  <2>2. u = [rev |-> presentation'.rev, music |-> presentation'.music, slides |-> <<>>]
    BY <2>1 DEF NoView
  <2> QED  BY <2>1, <2>2
<1>3. /\ c.step = "sent" /\ CallIsTrue("setting", c)
      /\ UpdateSetting(c.text, c.rev, outcome)
      /\ Answered("setting", outcome, [c EXCEPT !.seen = v])
  <2>1. /\ c.step = "sent" /\ UpdateSetting(c.text, c.rev, outcome)
        /\ Answered("setting", outcome, [c EXCEPT !.seen =
             SlidesOf([NoView EXCEPT !.rev = presentation'.rev, !.music = presentation'.music])])
    BY <1>1 DEF ServeSetting
  <2>2. CallIsTrue("setting", c)
    BY <1>0, <1>1 DEF EditorInv, CallsAreTrue
  <2> QED  BY <1>2, <1>2v, <2>1, <2>2
<1>4. c.text \in Music /\ c.rev \in Nat /\ SoundIsTrue(c.rev, c.base)
  BY <1>3 DEF CallIsTrue, CallRecords
<1>5. /\ SlidesInv' /\ SlidesStep /\ HeldStands /\ AnsweredStand
      /\ rows' = rows /\ Kept' = Kept
      /\ outcome = "ok" => ~Stale(c.rev, presentation.rev)
  BY <1>3, <1>4, SettingStep
<1>6. Lasting
  BY <1>5 DEF Lasting
<1>7. outcome \in Outcomes
  BY <1>3 DEF UpdateSetting, Outcomes
<1>8. ViewIsTrue(v)'
  <2>1. presentation'.rev \in Nat /\ presentation'.music \in Music /\ 1 <= presentation'.rev
    BY <1>5 DEF SlidesInv, RowsAreSlides
  <2>2. /\ v \in Views /\ v.rev = presentation'.rev /\ v.music = presentation'.music
        /\ Pairs(v.slides) = StoredPairs
        /\ SlidesAreTrue(v.slides) /\ PlacesAreTrue(v.slides)
    BY <1>2, <2>1, ReadIsTrue DEF SlidesInv
  <2>3. SlidesAreTrue(v.slides)' /\ PlacesAreTrue(v.slides)'
    BY <1>6, <2>2, SlidesLast DEF Views
  <2>4. StoredPairs' = StoredPairs
    BY <1>5 DEF StoredPairs
  <2>5. SoundIsTrue(v.rev, v.music)'
    BY <2>1, <2>2 DEF SoundIsTrue
  <2> QED  BY <2>2, <2>3, <2>4, <2>5 DEF ViewIsTrue
<1>9. PICK b : b = [c EXCEPT !.seen = v]
  OBVIOUS
<1>10. b \in CallRecords /\ b.seen = v
  <2>1. v \in Views
    BY <1>8 DEF ViewIsTrue, Views, SlideRecords
  <2> QED  BY <1>9, <2>1 DEF CallRecords
<1>11. PICK a : a = AnswerTo(b, outcome)
  OBVIOUS
<1>12. a \in CallRecords /\ a.step = "answered" /\ a.outcome = outcome /\ a.seen = v
  BY <1>7, <1>10, <1>11, AnswerIs
<1>13. calls' = [calls EXCEPT !["setting"] = a]
  BY <1>3, <1>9, <1>11 DEF Answered, AnswerTo
<1>14. CallIsTrue("setting", a)'
  BY <1>8, <1>12 DEF CallIsTrue
<1>15. /\ calls \in [Kinds -> CallRecords]
       /\ calls'["setting"] = a /\ \A j \in Kinds : j # "setting" => calls'[j] = calls[j]
  BY <1>0, <1>13 DEF EditorInv, CallsAreTrue
<1>16. deleting' = deleting
  BY <1>3 DEF UpdateSetting
<1>17. DeleteIsCalled' /\ (deleting'[Here].step = "found" => Deleting(Here))
  BY <1>0, <1>5, <1>15, <1>16, DeleteStaysCalled
<1>18. EditorInv'
  BY <1>0, <1>6, <1>12, <1>13, <1>14, <1>17, ServedCall
<1>19. \A j \in {"save", "convert"} : ~Accepted(j)
  BY <1>0, <1>15, NotAccepted
<1>20. Accepted("setting") => presentation.music = c.base
  <2> SUFFICES ASSUME Accepted("setting")
               PROVE  presentation.music = c.base
    OBVIOUS
  <2>1. outcome = "ok"
    BY <1>12, <1>15 DEF Accepted
  <2>2. presentation.rev \in Nat /\ c.rev = presentation.rev
    BY <1>4, <1>5, <2>1, RowsHaveFields DEF Stale, NoIfMatch, SoundIsTrue, SlidesInv
  <2> QED  BY <1>4, <2>2 DEF SoundIsTrue
<1>21. EditsFit /\ SavesFit
  BY <1>1, <1>17, <1>19, <1>20 DEF EditsFit, SavesFit, EditorInv, DeleteIsCalled, Deleting
<1> QED  BY <1>5, <1>18, <1>21

LEMMA ServeDeleteStep ==
  ASSUME SlidesInv, EditorInv, UNCHANGED <<screen, view, fetch, draft>>,
         NEW outcome \in Outcomes \cup {"pending"}, ServeDelete(outcome)
  PROVE  SlidesInv' /\ EditorInv' /\ AnsweredStand /\ EditsFit /\ SavesFit
<1>0. /\ "delete" \in Kinds /\ \A j \in {"save", "convert", "setting"} : j \in Kinds /\ j # "delete"
      /\ Here \in Deleters
  BY EditorConstants DEF Kinds
<1>1. PICK c \in CallRecords : c = calls["delete"]
  BY <1>0 DEF EditorInv, CallsAreTrue
<1>2. CallIsTrue("delete", c) /\ c.step = "sent"
  BY <1>0, <1>1 DEF ServeDelete, EditorInv, CallsAreTrue
<1>3. /\ ViewIsTrue(c.seen) /\ c.id \in SlideIds /\ c.rev \in Nat
      /\ SlideIsTrue(c.id, c.rev, c.base)
  BY <1>2 DEF CallIsTrue, CallRecords
<1>4. PICK a : a = AnswerTo(c, outcome)
  OBVIOUS
<1>5. outcome \in Outcomes => a \in CallRecords /\ a.step = "answered" /\ a.seen = c.seen
  BY <1>4, AnswerIs
<1>6. ASSUME Lasting, AnsweredStand, DeleteIsCalled', deleting'[Here].step = "found" => EditsFit,
             calls' = calls \/ (outcome \in Outcomes /\ Answered("delete", outcome, c))
      PROVE  SlidesInv' /\ EditorInv' /\ AnsweredStand /\ EditsFit /\ SavesFit
  <2>1. PICK b \in CallRecords : /\ CallIsTrue("delete", b)'
                                 /\ calls' = [calls EXCEPT !["delete"] = b] \/ calls' = calls
    <3>1. CASE calls' = calls
      <4>1. CallIsTrue("delete", c)'
        BY <1>0, <1>2, <1>6, CallLasts
      <4> QED  BY <3>1, <4>1
    <3>2. CASE outcome \in Outcomes /\ Answered("delete", outcome, c)
      <4>1. calls' = [calls EXCEPT !["delete"] = a]
        BY <1>4, <3>2 DEF Answered, AnswerTo
      <4>2. ViewIsTrue(a.seen)'
        BY <1>3, <1>5, <1>6, <3>2, ViewLasts
      <4>3. CallIsTrue("delete", a)'
        BY <1>5, <3>2, <4>2 DEF CallIsTrue
      <4> QED  BY <1>5, <3>2, <4>1, <4>3
    <3> QED  BY <1>6, <3>1, <3>2
  <2>2. EditorInv' /\ \A j \in Kinds : j # "delete" => calls'[j] = calls[j]
    BY <1>0, <1>6, <2>1, ServedCall
  <2>3. \A j \in {"save", "convert", "setting"} : ~Accepted(j)
    BY <1>0, <2>2, NotAccepted
  <2>4. EditsFit
    BY <1>6, <2>3 DEF EditsFit
  <2>5. SavesFit
    BY <2>3 DEF SavesFit
  <2> QED  BY <1>6, <2>2, <2>4, <2>5 DEF Lasting
<1>7. CASE /\ deleting[Here].step = "idle"
           /\ FindDoomed(Here, c.id, c.rev, outcome)
           /\ IF outcome = "pending" THEN UNCHANGED calls ELSE Answered("delete", outcome, c)
  <2>1. /\ SlidesInv' /\ SlidesStep /\ HeldStands /\ AnsweredStand
        /\ UNCHANGED <<presentation, rows, answered>>
        /\ IF outcome = "pending"
           THEN /\ c.id \in Kept /\ ~StaleSlide(c.id, c.rev)
                /\ deleting'[Here].step = "found" /\ deleting'[Here].slide = c.id
           ELSE deleting' = deleting
    BY <1>0, <1>3, <1>7, FindStep
  <2>2. Lasting
    BY <2>1 DEF Lasting
  <2>3. CASE outcome = "pending"
    <3>1. rows[c.id].rev \in Nat
      BY <2>1, <2>3, RowsHaveFields DEF SlidesInv
    <3>2. c.rev = rows[c.id].rev
      BY <1>3, <2>1, <2>3 DEF StaleSlide, Stale, NoIfMatch, SlideIsTrue
    <3>3. rows[c.id].text = c.base
      BY <1>3, <2>1, <2>3, <3>2 DEF SlideIsTrue
    <3>4. DeleteIsCalled'
      BY <1>1, <1>2, <1>7, <2>1, <2>3, <3>3 DEF DeleteIsCalled
    <3>5. calls' = calls
      BY <1>7, <2>3
    <3>6. EditsFit
      <4>1. \A j \in {"save", "convert", "setting"} : ~Accepted(j)
        BY <3>5, NotAccepted
      <4> QED  BY <1>1, <3>3, <4>1 DEF EditsFit
    <3>7. AnsweredStand
      BY <2>1
    <3> QED  BY <1>6, <2>2, <3>4, <3>5, <3>6, <3>7
  <2>4. CASE outcome # "pending"
    <3>1. deleting'[Here].step = "idle"
      BY <1>7, <2>1, <2>4
    <3>2. DeleteIsCalled'
      BY <3>1 DEF DeleteIsCalled
    <3> QED  BY <1>6, <1>7, <2>1, <2>2, <2>4, <3>1, <3>2
  <2> QED  BY <2>3, <2>4
<1>8. CASE /\ \/ outcome = "ok" /\ deleting[Here].step = "committed"
              \/ outcome = "failed" /\ deleting[Here].step = "aborted"
           /\ deleting' = [deleting EXCEPT ![Here] = NoDelete]
           /\ Answered("delete", outcome, c)
           /\ UNCHANGED <<presentation, rows, answered>>
  <2>1. deleting \in [Deleters -> [step : {"idle", "found", "shifted", "committed", "aborted"},
                                   slide : SlideIds \cup {"none"}, pos : Int,
                                   moved : SUBSET SlideIds]]
    BY DEF SlidesInv, DeletesHold
  <2>2. NoDelete \in [step : {"idle", "found", "shifted", "committed", "aborted"},
                      slide : SlideIds \cup {"none"}, pos : Int, moved : SUBSET SlideIds]
        /\ NoDelete.step = "idle"
    BY DEF NoDelete
  <2>3. /\ deleting' \in [Deleters -> [step : {"idle", "found", "shifted", "committed", "aborted"},
                                   slide : SlideIds \cup {"none"}, pos : Int,
                                   moved : SUBSET SlideIds]]
        /\ deleting'[Here].step = "idle"
        /\ \A e \in Deleters : e # Here => deleting'[e] = deleting[e]
    BY <1>0, <1>8, <2>1, <2>2
  <2>4. SlidesInv' /\ SlidesStep /\ HeldStands /\ AnsweredStand
    BY <1>0, <1>8, <2>3, EndStep
  <2>5. Lasting
    BY <2>4 DEF Lasting
  <2>6. DeleteIsCalled'
    BY <2>3 DEF DeleteIsCalled
  <2>7. outcome \in Outcomes
    BY <1>8 DEF Outcomes
  <2> QED  BY <1>6, <1>8, <2>3, <2>4, <2>5, <2>6, <2>7
<1> QED  BY <1>1, <1>7, <1>8 DEF ServeDelete

LEMMA ServingStep ==
  ASSUME SlidesInv, EditorInv, Serve
  PROVE  SlidesInv' /\ EditorInv' /\ AnsweredStand /\ EditsFit /\ SavesFit
<1>1. UNCHANGED <<screen, view, fetch, draft>>
  BY DEF Serve
<1>2. PICK outcome \in Outcomes \cup {"pending"} :
        \/ \E k \in {"save", "convert"} : ServeReplace(k, outcome)
        \/ ServeCreate(outcome) \/ ServeReorder(outcome) \/ ServeSetting(outcome)
        \/ ServeDelete(outcome)
  BY DEF Serve
<1> QED  BY <1>1, <1>2, ServeReplaceStep, ServeCreateStep, ServeReorderStep, ServeSettingStep,
            ServeDeleteStep

-----------------------------------------------------------------------------
(* The other clients.                                                      *)

LEMMA ReversedIsSeq ==
  ASSUME NEW S, NEW l \in Seq(S)
  PROVE  SE!Reverse(l) \in Seq(S)
<1>1. PICK n \in Nat : n = Len(l) /\ DOMAIN l = 1..n
  OBVIOUS
<1>2. \A i \in 1..n : l[(n - i) + 1] \in S
  BY <1>1
<1>3. SE!Reverse(l) = [i \in 1..n |-> l[(n - i) + 1]]
  BY <1>1 DEF SE!Reverse
<1> QED  BY <1>2, <1>3

LEMMA OthersStep ==
  ASSUME SlidesInv, EditorInv, Others
  PROVE  SlidesInv' /\ EditorInv' /\ AnsweredStand /\ EditsFit /\ SavesFit
<1>0. /\ UNCHANGED <<screen, view, fetch, draft>> /\ calls' = calls
      /\ Here \in Deleters /\ There \in Deleters /\ Here # There /\ "delete" \in Kinds
      /\ "theirs" \in Texts /\ "theirs" \in Music
  BY EditorConstants DEF Others
<1>1. ASSUME SlidesInv', SlidesStep, HeldStands, AnsweredStand,
             deleting[Here].step = "idle" => deleting'[Here].step = "idle"
      PROVE  SlidesInv' /\ EditorInv' /\ AnsweredStand /\ EditsFit /\ SavesFit
  <2>1. Lasting
    BY <1>1 DEF Lasting
  <2>2. PICK c \in CallRecords : c = calls["delete"] /\ CallIsTrue("delete", c)
    BY <1>0 DEF EditorInv, CallsAreTrue
  <2>3. CallIsTrue("delete", c)'
    BY <1>0, <2>1, <2>2, CallLasts
  <2>4. DeleteIsCalled' /\ (deleting'[Here].step = "found" => Deleting(Here))
    BY <1>0, <1>1, DeleteStaysCalled
  <2>5. EditorInv'
    BY <1>0, <2>1, <2>3, <2>4, ServedCall
  <2>6. \A j \in {"save", "convert", "setting"} : ~Accepted(j)
    BY <1>0, NotAccepted
  <2> QED  BY <1>1, <2>4, <2>5, <2>6, CalmFits
<1>2. ASSUME NEW s \in SlideIds, NEW pos, CreateSlide(s, pos, "theirs", NoIfMatch, "ok")
      PROVE  SlidesInv' /\ EditorInv' /\ AnsweredStand /\ EditsFit /\ SavesFit
  <2>1. SlidesInv' /\ SlidesStep /\ HeldStands /\ AnsweredStand
    BY <1>0, <1>2, CreateStep
  <2>2. deleting[Here].step = "idle" => deleting'[Here].step = "idle"
    BY <1>0, <1>2, NoneStarts
  <2> QED  BY <1>1, <2>1, <2>2
<1>3. ASSUME NEW s \in Kept, ReplaceSlide(s, rows[s].pos, "theirs", NoIfMatch, "ok")
      PROVE  SlidesInv' /\ EditorInv' /\ AnsweredStand /\ EditsFit /\ SavesFit
  <2>1. PICK pos : pos = rows[s].pos
    OBVIOUS
  <2>2. s \in SlideIds /\ ReplaceSlide(s, pos, "theirs", NoIfMatch, "ok")
    BY <1>3, <2>1 DEF Kept
  <2>3. SlidesInv' /\ SlidesStep /\ HeldStands /\ AnsweredStand
    BY <1>0, <2>2, ReplaceStep
  <2>4. deleting[Here].step = "idle" => deleting'[Here].step = "idle"
    BY <1>0, <2>2, NoneStarts
  <2> QED  BY <1>1, <2>3, <2>4
<1>4. CASE ReorderSlides(SE!Reverse(InOrder(Kept)), NoIfMatch, "ok")
  <2>1. PICK order : order = SE!Reverse(InOrder(Kept))
    OBVIOUS
  <2>2. order \in Seq(SlideIds)
    <3>1. InOrder(Kept) \in Seq(Kept)
      BY InOrderLists DEF SlidesInv
    <3>2. PICK l \in Seq(Kept) : l = InOrder(Kept)
      BY <3>1
    <3>3. Kept \subseteq SlideIds
      BY DEF Kept
    <3>4. l \in Seq(SlideIds)
      BY <3>2, <3>3
    <3> QED  BY <2>1, <3>2, <3>4, ReversedIsSeq
  <2>3. ReorderSlides(order, NoIfMatch, "ok")
    BY <1>4, <2>1
  <2>4. SlidesInv' /\ SlidesStep /\ HeldStands /\ AnsweredStand
    BY <2>2, <2>3, ReorderStep
  <2>5. deleting[Here].step = "idle" => deleting'[Here].step = "idle"
    BY <1>0, <2>3, NoneStarts
  <2> QED  BY <1>1, <2>4, <2>5
<1>5. CASE UpdateSetting("theirs", NoIfMatch, "ok")
  <2>1. SlidesInv' /\ SlidesStep /\ HeldStands /\ AnsweredStand
    BY <1>0, <1>5, SettingStep
  <2>2. deleting[Here].step = "idle" => deleting'[Here].step = "idle"
    BY <1>0, <1>5, NoneStarts
  <2> QED  BY <1>1, <2>1, <2>2
<1>6. ASSUME NEW s \in SlideIds, FindDoomed(There, s, NoIfMatch, "pending")
      PROVE  SlidesInv' /\ EditorInv' /\ AnsweredStand /\ EditsFit /\ SavesFit
  <2>1. /\ SlidesInv' /\ SlidesStep /\ HeldStands /\ AnsweredStand
        /\ \A e \in Deleters : e # There => deleting'[e] = deleting[e]
    BY <1>0, <1>6, FindStep
  <2> QED  BY <1>0, <1>1, <2>1
<1>7. ASSUME NEW s \in SlideIds, AnswerSlide(s) \/ DeleteResults
      PROVE  SlidesInv' /\ EditorInv' /\ AnsweredStand /\ EditsFit /\ SavesFit
  <2>1. SlidesInv' /\ SlidesStep /\ HeldStands /\ AnsweredStand
    BY <1>7, AnswerStep
  <2>2. deleting' = deleting
    BY <1>7 DEF AnswerSlide, DeleteResults
  <2> QED  BY <1>1, <2>1, <2>2
<1>8. ASSUME NEW d \in Deleters, ShiftAbove(d) \/ CommitDelete(d) \/ AbortDelete(d)
      PROVE  SlidesInv' /\ EditorInv' /\ AnsweredStand /\ EditsFit /\ SavesFit
  <2>1. SlidesInv' /\ SlidesStep /\ HeldStands /\ AnsweredStand
    BY <1>8, ShiftStep, CommitStep, AbortStep
  <2>2. deleting[Here].step = "idle" => deleting'[Here].step = "idle"
    <3> SUFFICES ASSUME deleting[Here].step = "idle"
                 PROVE  deleting'[Here].step = "idle"
      OBVIOUS
    <3>1. d # Here
      BY <1>8 DEF ShiftAbove, CommitDelete, AbortDelete
    <3>2. CASE ShiftAbove(d)
      BY <1>0, <3>1, <3>2 DEF ShiftAbove, SlidesInv, DeletesHold
    <3>3. CASE CommitDelete(d)
      BY <1>0, <3>1, <3>3 DEF CommitDelete, SlidesInv, DeletesHold
    <3>4. CASE AbortDelete(d)
      BY <1>0, <3>1, <3>4 DEF AbortDelete, Aborted
    <3> QED  BY <1>8, <3>2, <3>3, <3>4
  <2> QED  BY <1>1, <2>1, <2>2
<1>9. CASE DeleteResults
  <2>1. SlidesInv' /\ SlidesStep /\ HeldStands /\ AnsweredStand
    BY <1>9, AnswerStep DEF SlidesInv, RowsAreSlides, DeleteResults, Kept
  <2>2. deleting' = deleting
    BY <1>9 DEF DeleteResults
  <2> QED  BY <1>1, <2>1, <2>2
<1>10. CASE OtherEdit
  BY <1>2, <1>3, <1>4, <1>5, <1>6, <1>7, <1>9, <1>10 DEF OtherEdit
<1>11. CASE ContinueDelete
  BY <1>8, <1>11 DEF ContinueDelete
<1> QED  BY <1>10, <1>11 DEF Others

-----------------------------------------------------------------------------
(* Every step, and the specification.                                      *)

LEMMA EditorStarts ==
  ASSUME EditorInit
  PROVE  SlidesInv /\ EditorInv
<1>1. SlidesInv
  BY SlidesStart DEF EditorInit
<1>2. view = NoView /\ ~Ready
  BY DEF EditorInit, Ready
<1>3. FetchIsTrue(fetch)
  BY NoCallIsTrue DEF EditorInit, NoFetch, FetchIsTrue
<1>4. DraftIsTrue(draft)
  BY NoDraftIsTrue DEF EditorInit
<1>5. CallsAreTrue
  BY NoCallIsTrue DEF EditorInit, CallsAreTrue
<1>6. DeleteIsCalled
  BY EditorConstants DEF EditorInit, SlidesInit, DeleteIsCalled, NoDelete
<1> QED  BY <1>1, <1>2, <1>3, <1>4, <1>5, <1>6 DEF EditorInv

LEMMA EditorStep ==
  ASSUME SlidesInv, EditorInv, [EditorNext]_editorVars
  PROVE  SlidesInv' /\ EditorInv' /\ AnsweredStand /\ EditsFit /\ SavesFit
<1>1. ASSUME SlidesInv' /\ EditorInv' /\ Quiet, UNCHANGED slideVars
      PROVE  SlidesInv' /\ EditorInv' /\ AnsweredStand /\ EditsFit /\ SavesFit
  <2>1. AnsweredStand
    BY <1>1 DEF AnsweredStand, slideVars
  <2>2. \A k \in {"save", "convert", "setting"} : ~Accepted(k)
    BY <1>1 DEF Quiet, Kinds
  <2>3. deleting'[Here].step = "found" => Deleting(Here)
    BY <1>1 DEF Quiet, Deleting
  <2> QED  BY <1>1, <2>1, <2>2, <2>3, CalmFits
<1>2. CASE \/ ReadPresentation \/ ReadSlides \/ FetchDone \/ FetchFailed \/ Interrupt
           \/ \E shows \in BOOLEAN : Resume(shows)
           \/ ReloadConflict
  <2>1. UNCHANGED slideVars
    BY <1>2 DEF ReadPresentation, ReadSlides, FetchDone, FetchFailed, Interrupt, Resume,
                ReloadConflict
  <2> QED  BY <1>1, <1>2, <2>1, LoadingStep
<1>3. CASE \/ EditContent \/ EditSound \/ OpenSound \/ ClosePanel
           \/ \E s \in SlideIds : SelectSlide(s)
           \/ BeginAddSlide \/ OpenTypeSelection \/ CancelTypeSelection \/ SelectSameType
  <2>1. UNCHANGED slideVars
    BY <1>3 DEF EditContent, EditSound, OpenSound, ClosePanel, SelectSlide, BeginAddSlide,
                OpenTypeSelection, CancelTypeSelection, SelectSameType
  <2> QED  BY <1>1, <1>3, <2>1, EditingStep
<1>4. CASE \/ SaveContent \/ SaveSetting \/ SelectType
           \/ \E s \in SlideIds : DeleteShown(s)
           \/ \E i, j \in 1..Cardinality(SlideIds) : ReorderShown(i, j)
  <2>1. UNCHANGED slideVars
    BY <1>4 DEF SaveContent, SaveSetting, SelectType, DeleteShown, ReorderShown
  <2> QED  BY <1>1, <1>4, <2>1, SendingStep
<1>5. CASE \E k \in Kinds : LoseCall(k)
  <2>1. UNCHANGED slideVars
    BY <1>5 DEF LoseCall
  <2> QED  BY <1>1, <1>5, <2>1, LosingStep
<1>6. CASE HandleReply
  <2>1. UNCHANGED slideVars
    BY <1>6 DEF HandleReply
  <2> QED  BY <1>1, <1>6, <2>1, ReplyStep
<1>7. CASE Serve
  BY <1>7, ServingStep
<1>8. CASE Others
  BY <1>8, OthersStep
<1>9. CASE UNCHANGED editorVars
  <2>1. UNCHANGED <<screen, view, fetch, calls>> /\ UNCHANGED slideVars /\ draft' = draft
    BY <1>9 DEF editorVars
  <2>2. DraftIsTrue(draft')
    BY <2>1 DEF EditorInv
  <2> QED  BY <1>1, <2>1, <2>2, DraftStep
<1> QED  BY <1>2, <1>3, <1>4, <1>5, <1>6, <1>7, <1>8, <1>9 DEF EditorNext

\* The slides of the server are consistent and what a delete in progress holds
\* stands, and all that the tab keeps, the loaded presentation, the drafts, the
\* calls and what their replies will show, is true of them at its revision.
THEOREM EditorIsTrue == EditorSpec => [](SlidesInv /\ EditorInv)
<1>1. EditorInit => SlidesInv /\ EditorInv
  BY EditorStarts
<1>2. SlidesInv /\ EditorInv /\ [EditorNext]_editorVars => (SlidesInv /\ EditorInv)'
  BY EditorStep
<1> QED  BY <1>1, <1>2, PTL DEF EditorSpec

\* A revision that the tab guessed vouches for nothing but what is stored.
THEOREM TrustedViews == EditorSpec => []TrustedViewIsCurrent
<1>1. SlidesInv /\ EditorInv => TrustedViewIsCurrent
  <2> SUFFICES ASSUME SlidesInv, EditorInv, view.rev = presentation.rev
               PROVE  /\ view.music = presentation.music
                      /\ {<<x.id, x.text>> : x \in SE!ToSet(view.slides)}
                           = {<<s, rows[s].text>> : s \in Kept}
    BY DEF TrustedViewIsCurrent
  <2>1. view # NoView
    BY RowsHaveFields DEF SlidesInv, NoView
  <2>2. ViewIsTrue(view)
    BY <2>1 DEF EditorInv
  <2>3. view.music = presentation.music /\ Pairs(view.slides) = StoredPairs
    BY <2>2 DEF ViewIsTrue, SoundIsTrue
  <2>4. SE!ToSet(view.slides) = {view.slides[i] : i \in DOMAIN view.slides}
    BY DEF SE!ToSet
  <2>5. {<<x.id, x.text>> : x \in SE!ToSet(view.slides)} = Pairs(view.slides)
    BY <2>4 DEF Pairs
  <2> QED  BY <2>3, <2>5 DEF StoredPairs
<1> QED  BY <1>1, EditorIsTrue, PTL

\* What the server accepts from the tab acts on the definition it had shown.
THEOREM EditsAreOfWhatWasSeen == EditorSpec => EditsActOnWhatWasSeen
<1>1. SlidesInv /\ EditorInv /\ [EditorNext]_editorVars =>
        [/\ \A k \in {"save", "convert"} :
              Accepted(k) => rows[calls[k].id].text = calls[k].base
         /\ calls["delete"].step = "sent" /\ deleting'[Here].step = "found"
              => rows[calls["delete"].id].text = calls["delete"].base
         /\ Accepted("setting") => presentation.music = calls["setting"].base]_editorVars
  BY EditorStep DEF EditsFit
<1> QED  BY <1>1, EditorIsTrue, PTL DEF EditorSpec, EditsActOnWhatWasSeen

\* No save moves another slide, nor its own while the positions have no gap.
THEOREM OrderOutlivesSaves == EditorSpec => SavesKeepTheOrder
<1>1. SlidesInv /\ EditorInv /\ [EditorNext]_editorVars =>
        [\A k \in {"save", "convert"} : Accepted(k) =>
           \A s, x \in Kept : Gapless \/ calls[k].id \notin {s, x} =>
             (rows[s].pos < rows[x].pos <=> rows'[s].pos < rows'[x].pos)]_editorVars
  BY EditorStep DEF SavesFit, SaveFits
<1> QED  BY <1>1, EditorIsTrue, PTL DEF EditorSpec, SavesKeepTheOrder

\* A slide with answers keeps its definition, whatever transactions interleave.
THEOREM AnswersKeepTheirSlides == EditorSpec => AnsweredSlidesStand
<1>1. SlidesInv /\ EditorInv /\ [EditorNext]_editorVars =>
        [\A s \in answered : rows'[s].text = rows[s].text]_slideVars
  BY EditorStep DEF AnsweredStand
<1> QED  BY <1>1, EditorIsTrue, PTL DEF EditorSpec, AnsweredSlidesStand
=============================================================================
