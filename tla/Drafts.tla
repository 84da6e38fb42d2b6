------------------------------- MODULE Drafts -------------------------------
(***************************************************************************)
(* What one slide says: its definition on the server, the slide the editor *)
(* shows, and the unsaved draft of the open inspector                      *)
(* (presentations/editor/inspector and editor/model).                      *)
(*                                                                         *)
(* A definition is written in four forms, each made from the one before by *)
(* a conversion that drops and normalises: the draft, the editor's slide,  *)
(* the transport definition, and what the server stores after a validation *)
(* of its own.  Module Editor orders the calls and keeps the revisions;    *)
(* this module follows what they carry.                                    *)
(*                                                                         *)
(* A text is empty, blank, a word or a padded word; an image address names *)
(* an image or nothing that loads; a number is one of a few at the limits, *)
(* NaN when the input holds no whole number.                               *)
(***************************************************************************)
EXTENDS Integers, Sequences, FiniteSets

SQ == INSTANCE SequencesExt

CONSTANTS
  OptionNames, \* option ids
  ApiItems,    \* the definitions other clients store, if the server lets them
  MaxOptions,  \* QUESTION_LIMITS.maxOptions
  Efforts      \* bounds: the edits, the image dialogs, the calls of all clients

NaN == -1
DraftTexts == {"", " ", "word", " word"}
Images == {"", "image", "broken"}

\* Definitions: a choice question with these options, a text activity, content.
Questions(options) ==
  [kind: {"choice"}, text: DraftTexts, image: Images, type: {"single", "multiple"},
   evaluation: {"none", "correctness"}, scoring: {"none", "points"}, key: SUBSET OptionNames,
   time: Int, min: Int, max: Int, faster: BOOLEAN, partial: BOOLEAN, board: BOOLEAN,
   options: Seq(options)]
TextActivities ==
  [kind: {"text"}, title: DraftTexts, text: DraftTexts, image: Images, length: Int, words: Int,
   time: Int]
Contents == [kind: {"content"}, title: DraftTexts, text: DraftTexts, image: Images]
Options == [id: OptionNames, text: DraftTexts, image: Images]
Items == Questions(Options) \cup TextActivities \cup Contents

\* Ids do not run out: a new option gets one that no option has.
ASSUME DraftsAssumption ==
  /\ ApiItems \subseteq Items
  /\ MaxOptions \in Nat /\ MaxOptions >= 2
  /\ {"o1", "o2"} \subseteq OptionNames
  /\ \A S \in SUBSET OptionNames :
       IsFiniteSet(S) /\ Cardinality(S) < MaxOptions => OptionNames \ S # {}
  /\ Efforts \subseteq [edits: Nat, pickers: Nat, calls: Nat]
Trim == [t \in DraftTexts |-> IF t \in {"word", " word"} THEN "word" ELSE ""]
Blank(t) == Trim[t] = ""

VARIABLES
  item,    \* the stored definition; revision 0 is no slide yet
  slide,   \* the slide the editor shows
  sketch,  \* the inspector's draft
  sending, \* the create, save or conversion in progress
  warned,  \* conflictPending: a save met a newer revision
  picker,  \* ImageUrlDialog
  effort   \* what the bounds have left

sketchVars == <<item, slide, sketch, sending, warned, picker, effort>>

None == [kind |-> "none"]
NoSending == [step |-> "idle"]
NoPicker == [target |-> "none", url |-> "", preview |-> "", checking |-> FALSE, asked |-> ""]
-----------------------------------------------------------------------------
(* The conversions.                                                        *)

Marked(options) == {i \in DOMAIN options : options[i].correct}
SetOf(options) == {options[i].id : i \in Marked(options)}

\* The same options, marked at these places.
Remarked(options, places) ==
  [i \in DOMAIN options |-> [options[i] EXCEPT !.correct = i \in places]]

\* A question without evaluation has no correct options.
Counting(options, evaluation) ==
  Remarked(options, IF evaluation = "correctness" THEN Marked(options) ELSE {})

Trimmed(options) == [i \in DOMAIN options |-> [options[i] EXCEPT !.text = Trim[@]]]

WithMarks(options, key) ==
  [i \in DOMAIN options |->
     [id |-> options[i].id, text |-> options[i].text, image |-> options[i].image,
      correct |-> options[i].id \in key]]

Bug_ForgetsPartial(d) ==
  IF d.kind # "choice" THEN d
  ELSE [d EXCEPT !.options = WithMarks(@, d.key), !.partial = FALSE, !.key = {}]

\* fromTransport: the correct ids become marks on the options.
FromTransport(d) ==
  IF d.kind # "choice" THEN d
  ELSE [d EXCEPT !.options = WithMarks(@, d.key), !.partial = d.type = "multiple" /\ @, !.key = {}]

\* createQuestionDraft, createWordCloudDraft, createContentDraft.
DraftOf(s) ==
  CASE s.kind = "choice" ->
         [s EXCEPT !.board = s.scoring = "points" /\ @,
                   !.partial = s.type = "multiple" /\ @,
                   !.options = Counting(@, s.evaluation)]
    [] s.kind = "text" ->
         [s EXCEPT !.length = IF @ = 0 THEN 80 ELSE @,
                   !.words = IF @ = 0 THEN 3 ELSE @,
                   !.time = IF @ = 0 THEN 30 ELSE @]
    [] OTHER -> s

\* draftQuestionLike: an unscored question has no policy, a poll no marks.
Questioned(w) ==
  LET scored == w.scoring = "points"
  IN [w EXCEPT !.min = IF scored THEN @ ELSE 0, !.max = IF scored THEN @ ELSE 0,
               !.faster = scored /\ @,
               !.partial = scored /\ w.type = "multiple" /\ @,
               !.options = Counting(@, w.evaluation)]

\* questionDraftToEditorSlide trims what was typed; the other kinds keep it.
ToEditorSlide(w) ==
  IF w.kind # "choice" THEN w
  ELSE [Questioned(w) EXCEPT !.text = Trim[@], !.board = w.scoring = "points" /\ @,
          !.options = Trimmed(@)]

Unmarked(options) ==
  [i \in DOMAIN options |->
     [id |-> options[i].id, text |-> options[i].text, image |-> options[i].image]]

\* editorSlideToTransportDefinition.
ToDefinition(s) ==
  IF s.kind # "choice" THEN s
  ELSE LET scored == s.scoring # "none"
       IN [s EXCEPT !.key = IF s.evaluation = "none" THEN {} ELSE SetOf(s.options),
                    !.min = IF scored THEN @ ELSE 0, !.max = IF scored THEN @ ELSE 0,
                    !.faster = scored /\ @, !.board = scored /\ @,
                    !.partial = scored /\ s.type = "multiple" /\ @,
                    !.options = Unmarked(@)]
-----------------------------------------------------------------------------
(* The two validations.                                                    *)

Distinct(options) == \A i, j \in DOMAIN options : options[i].id = options[j].id => i = j

\* A set of correct options as an evaluation mode and a selection allow it.
LegalKey(key, type, evaluation) ==
  CASE evaluation = "none" -> key = {}
    [] evaluation = "correctness" -> key # {} /\ (type = "single" => Cardinality(key) = 1)

\* QUESTION_LIMITS and TEXT_ACTIVITY_LIMITS.
MaxDuration == 86400
MaxLength == 500
Duration(n) == n \in 1..MaxDuration

ValidScoring(q) ==
  /\ q.scoring = "points" => q.evaluation = "correctness"
  /\ ~(q.type = "single" /\ q.partial)
  /\ IF q.scoring = "none" THEN q.min = 0 /\ q.max = 0 /\ ~q.faster /\ ~q.partial
     ELSE 0 <= q.min /\ 1 <= q.max /\ q.min <= q.max

\* validateEditorQuestion.
ValidQuestion(q) ==
  /\ ~Blank(q.text) /\ Duration(q.time)
  /\ Len(q.options) \in 2..MaxOptions /\ Distinct(q.options)
  /\ \A i \in DOMAIN q.options : ~Blank(q.options[i].text)
  /\ LegalKey(SetOf(q.options), q.type, q.evaluation)
  /\ ValidScoring(q)

\* validateEditorTextActivity.
ValidTextActivity(a) ==
  ~Blank(a.text) /\ a.length \in 1..MaxLength /\ a.words \in 1..10 /\ Duration(a.time)

\* validateEditorContent.
ValidContent(c) == ~Blank(c.title) \/ ~Blank(c.text) \/ c.image # ""

\* What an inspector checks before it saves.
SketchIsValid(w) ==
  CASE w.kind = "choice" -> ValidQuestion(Questioned(w))
    [] w.kind = "text" -> ValidTextActivity(w)
    [] w.kind = "content" -> ValidContent(w)

\* The registration's validate: every slide, before a presentation starts.
ClientAccepts(s) ==
  CASE s.kind = "choice" -> ValidQuestion(s) /\ ~(s.board /\ s.scoring = "none")
    [] s.kind = "text" -> ValidTextActivity(s)
    [] s.kind = "content" -> ValidContent(s)

Bug_PointsForPolls(d) ==
  /\ Len(d.options) \in 2..MaxOptions /\ Distinct(d.options)
  /\ \A i \in DOMAIN d.options : ~Blank(d.options[i].text)
  /\ d.key \subseteq {d.options[i].id : i \in DOMAIN d.options}
  /\ LegalKey(d.key, d.type, d.evaluation)
  /\ d.scoring = "none" => d.min = 0 /\ d.max = 0 /\ ~d.faster /\ ~d.partial
  /\ d.scoring = "points" => 0 <= d.min /\ 1 <= d.max /\ d.min <= d.max
  /\ d.board => d.scoring = "points"

\* validateChoiceActivityDefinition.
ServerAcceptsChoice(d) ==
  /\ Len(d.options) \in 2..MaxOptions /\ Distinct(d.options)
  /\ \A i \in DOMAIN d.options : ~Blank(d.options[i].text)
  /\ d.key \subseteq {d.options[i].id : i \in DOMAIN d.options}
  /\ LegalKey(d.key, d.type, d.evaluation)
  /\ CASE d.scoring = "none" -> d.min = 0 /\ d.max = 0 /\ ~d.faster /\ ~d.partial
       [] d.scoring = "points" ->
            /\ d.evaluation = "correctness"
            /\ 0 <= d.min /\ 1 <= d.max /\ d.min <= d.max
            /\ ~(d.type = "single" /\ d.partial)
  /\ d.board => d.scoring = "points"

\* validateTextActivityDefinition.
ServerAcceptsText(d) == d.length \in 1..MaxLength /\ d.words \in 1..10

\* normalizeSlideDefinition.
ServerAccepts(d) ==
  IF d.kind = "content" THEN ~Blank(d.title) \/ ~Blank(d.text) \/ d.image # ""
  ELSE /\ ~Blank(d.text) /\ Duration(d.time)
       /\ IF d.kind = "choice" THEN ServerAcceptsChoice(d) ELSE ServerAcceptsText(d)
-----------------------------------------------------------------------------
(* New slides and conversions between kinds.                               *)

TypeChoices == {"poll", "word-cloud", "choice-single", "choice-multiple", "content"}

Policy(choice) == IF choice = "poll" THEN [evaluation |-> "none", scoring |-> "none"]
                  ELSE [evaluation |-> "correctness", scoring |-> "points"]

NewQuestion(type, policy) ==
  [kind |-> "choice", text |-> "word", image |-> "", type |-> type, key |-> {},
   evaluation |-> policy.evaluation, scoring |-> policy.scoring, time |-> 10, min |-> 0,
   max |-> IF policy.scoring = "points" THEN 100 ELSE 0, faster |-> FALSE,
   partial |-> FALSE, board |-> FALSE,
   options |-> <<[id |-> "o1", text |-> "word", image |-> "",
                  correct |-> policy.evaluation = "correctness"],
                 [id |-> "o2", text |-> "word", image |-> "", correct |-> FALSE]>>]

NewTextActivity ==
  [kind |-> "text", title |-> "", text |-> "word", image |-> "", length |-> 80,
   words |-> 3, time |-> 30]

NewContent == [kind |-> "content", title |-> "word", text |-> "", image |-> ""]

SelectionOf(choice) == IF choice = "choice-multiple" THEN "multiple" ELSE "single"

\* createEditorSlideForType.
NewSlide(choice) ==
  CASE choice = "content" -> NewContent
    [] choice = "word-cloud" -> NewTextActivity
    [] OTHER -> NewQuestion(SelectionOf(choice), Policy(choice))

\* editorSlideMatchesTypeChoice.
Matches(s, choice) ==
  CASE choice = "content" -> s.kind = "content"
    [] choice = "word-cloud" -> s.kind = "text"
    [] OTHER -> /\ s.kind = "choice"
                /\ choice = "poll" \/ s.type = SelectionOf(choice)
                /\ s.evaluation = Policy(choice).evaluation
                /\ s.scoring = Policy(choice).scoring

FirstMarked(options) ==
  IF Marked(options) = {} THEN 1
  ELSE CHOOSE i \in Marked(options) : \A j \in Marked(options) : i <= j

Bug_KeepsEveryMark(s, type, policy) ==
  [s EXCEPT !.type = type, !.evaluation = policy.evaluation, !.scoring = policy.scoring,
            !.max = IF policy.scoring = "none" THEN 0 ELSE IF @ = 0 THEN 100 ELSE @]

\* The options a conversion leaves marked.
Places(s, type, policy) ==
  CASE policy.evaluation = "none" -> {}
    [] policy.evaluation # "none" ->
         IF type = "single" \/ Marked(s.options) = {} THEN {FirstMarked(s.options)}
         ELSE Marked(s.options)

MostPoints(s, policy) ==
  IF policy.scoring # "points" THEN 0 ELSE IF s.max = 0 THEN 100 ELSE s.max

\* convertSlideToQuestion on a question: the options stay, the marks and the
\* scoring policy follow the new type.
AsQuestion(s, type, policy) ==
  LET scored == policy.scoring = "points"
      most == MostPoints(s, policy)
  IN [s EXCEPT !.type = type, !.evaluation = policy.evaluation, !.scoring = policy.scoring,
               !.max = most,
               !.min = IF ~scored THEN 0 ELSE IF @ > most THEN most ELSE @,
               !.faster = scored /\ @, !.board = scored /\ @,
               !.partial = scored /\ type = "multiple" /\ @,
               !.options = Remarked(@, Places(s, type, policy))]

\* convertEditorSlideToType: a poll keeps the selection of its question.
Converted(s, choice) ==
  IF s.kind # "choice" \/ choice \in {"content", "word-cloud"} THEN NewSlide(choice)
  ELSE AsQuestion(s, IF choice = "poll" THEN s.type ELSE SelectionOf(choice), Policy(choice))
-----------------------------------------------------------------------------
(* Showing a slide.                                                        *)

\* The initial states: no slide yet, or one that the server let in.
DraftsInit ==
  /\ item \in {[rev |-> 0, def |-> None]} \cup
       {[rev |-> 1, def |-> d] : d \in {x \in ApiItems : ServerAccepts(x)}}
  /\ slide = IF item.rev = 0 THEN [rev |-> 0, def |-> None]
             ELSE [rev |-> 1, def |-> FromTransport(item.def)]
  /\ sketch = IF item.rev = 0 THEN None ELSE DraftOf(slide.def)
  /\ sending = NoSending
  /\ warned = FALSE
  /\ picker = NoPicker
  /\ effort \in Efforts

SpendOn(on) == effort[on] > 0 /\ effort' = [effort EXCEPT ![on] = @ - 1]

\* A picker whose target has another address now starts again from that.
ImageAt(w, target) ==
  IF target = "slide" THEN w.image
  ELSE LET at == {i \in DOMAIN w.options : w.options[i].id = target}
       IN IF at = {} THEN "" ELSE w.options[CHOOSE i \in at : TRUE].image

Reopened(w) ==
  IF picker.target = "none" \/ ImageAt(w, picker.target) = ImageAt(sketch, picker.target)
  THEN picker
  ELSE [picker EXCEPT !.url = ImageAt(w, picker.target), !.preview = "", !.checking = FALSE]

\* The route shows this definition: a new object, so a new draft.  The
\* inspector of another kind is another component.
ShowSlide(rev, d) ==
  LET s == FromTransport(d)
      same == s.kind = slide.def.kind
  IN /\ slide' = [rev |-> rev, def |-> s]
     /\ sketch' = DraftOf(s)
     /\ warned' = (warned /\ same /\ rev = slide.rev)
     /\ picker' = IF same THEN Reopened(DraftOf(s)) ELSE NoPicker

\* The presentation is loaded again, or a reply carries all of it.
RefreshSlide ==
  /\ item.rev > 0
  /\ ShowSlide(item.rev, item.def)
  /\ <<slide, sketch, warned>> # <<slide', sketch', warned'>>
  /\ UNCHANGED <<item, sending, effort>>

\* reloadConflict.
ReloadWarned ==
  /\ warned /\ picker = NoPicker
  /\ slide' = [rev |-> item.rev, def |-> FromTransport(item.def)]
  /\ sketch' = DraftOf(slide'.def)
  /\ warned' = FALSE
  /\ UNCHANGED <<item, sending, picker, effort>>

SketchIsDirty == sketch # DraftOf(slide.def)
Saving == sending.step # "idle" /\ sending.kind = "save"
\* Every input of an inspector is disabled otherwise; a picker covers it.
Editable == slide.rev > 0 /\ ~Saving /\ ~warned /\ picker = NoPicker

\* The confirmed discard.
Discard ==
  /\ SketchIsDirty /\ ~Saving /\ picker = NoPicker
  /\ sketch' = DraftOf(slide.def)
  /\ UNCHANGED <<item, slide, sending, warned, picker, effort>>
-----------------------------------------------------------------------------
(* Edits.                                                                  *)

Edit(w) ==
  /\ Editable /\ SpendOn("edits")
  /\ sketch' = w /\ sketch' # sketch
  /\ UNCHANGED <<item, slide, sending, warned, picker>>

IsQuestion == sketch.kind = "choice"
Scored == sketch.scoring = "points"
OptionIds == {sketch.options[i].id : i \in DOMAIN sketch.options}

Typed == {" ", " word"}
EditQuestion ==
  /\ IsQuestion
  /\ \/ \E t \in Typed : Edit([sketch EXCEPT !.text = t])
     \/ \E n \in {NaN, 0, MaxDuration + 1} : Edit([sketch EXCEPT !.time = n])

\* The scoring section; the least points only count with the speed bonus.
EditScoring ==
  /\ IsQuestion /\ Scored
  /\ \/ \E n \in {NaN, 0, 1} : Edit([sketch EXCEPT !.max = n])
     \/ sketch.faster /\ \E n \in {NaN, 1, 2} : Edit([sketch EXCEPT !.min = n])
     \/ Edit([sketch EXCEPT !.faster = ~@])
     \/ sketch.type # "single" /\ Edit([sketch EXCEPT !.partial = sketch.type = "multiple" /\ ~@])
     \/ Edit([sketch EXCEPT !.board = ~@])

AddOption ==
  /\ IsQuestion /\ Len(sketch.options) < MaxOptions
  /\ Edit([sketch EXCEPT !.options = Append(@,
       [id |-> CHOOSE n \in OptionNames : n \notin OptionIds, text |-> "word", image |-> "",
        correct |-> sketch.evaluation = "correctness" /\ @ = <<>>])])

\* ensureCorrectOption.
EnsureCorrectOption(options, type, evaluation) ==
  CASE evaluation = "none" -> Remarked(options, {})
    [] evaluation # "none" /\ Marked(options) = {} -> Remarked(options, {1})
    [] evaluation # "none" /\ Marked(options) # {} ->
         IF type = "single" /\ Cardinality(Marked(options)) > 1 THEN Remarked(options, {1})
         ELSE options

DeleteOption(i) ==
  /\ IsQuestion /\ i \in DOMAIN sketch.options /\ Len(sketch.options) > 2
  /\ Edit([sketch EXCEPT !.options =
              EnsureCorrectOption(SQ!RemoveAt(@, i), sketch.type, sketch.evaluation)])

EditOption(i) ==
  /\ IsQuestion /\ i \in DOMAIN sketch.options
  /\ \/ \E t \in Typed : Edit([sketch EXCEPT !.options[i].text = t])
     \/ sketch.options[i].image # "" /\ Edit([sketch EXCEPT !.options[i].image = ""])

\* Of several marks the last one stays.
ToggleCorrect(i) ==
  /\ IsQuestion /\ sketch.evaluation # "none" /\ i \in DOMAIN sketch.options
  /\ IF sketch.type = "single"
     THEN Edit([sketch EXCEPT !.options = Remarked(@, {i})])
     ELSE /\ Marked(sketch.options) # {i}
          /\ Edit([sketch EXCEPT !.options[i].correct = ~@])

MoveOption(i, j) ==
  /\ IsQuestion /\ {i, j} \subseteq DOMAIN sketch.options /\ i # j
  /\ Edit([sketch EXCEPT !.options = SQ!InsertAt(SQ!RemoveAt(@, i), j, @[i])])

EditTextActivity ==
  /\ sketch.kind = "text"
  /\ \/ \E t \in Typed : Edit([sketch EXCEPT !.title = t]) \/ Edit([sketch EXCEPT !.text = t])
     \/ \E n \in {0, 11} : Edit([sketch EXCEPT !.words = n])
     \/ \E n \in {0, MaxLength + 1} : Edit([sketch EXCEPT !.length = n])
     \/ \E n \in {0, MaxDuration + 1} : Edit([sketch EXCEPT !.time = n])

EditSlideContent ==
  /\ sketch.kind = "content"
  /\ \E t \in Typed \cup {""} :
       Edit([sketch EXCEPT !.title = t]) \/ Edit([sketch EXCEPT !.text = t])

\* The word cloud's inspector has no button for it.
RemoveImage ==
  /\ sketch.kind \in {"choice", "content"} /\ sketch.image # ""
  /\ Edit([sketch EXCEPT !.image = ""])
-----------------------------------------------------------------------------
(* ImageUrlDialog.  A check of an address outlives the address.            *)

Targets == {"slide"} \cup (IF IsQuestion THEN OptionIds ELSE {})

OpenPicker(target) ==
  /\ Editable /\ SpendOn("pickers")
  /\ picker' = [NoPicker EXCEPT !.target = target, !.url = ImageAt(sketch, target)]
  /\ UNCHANGED <<item, slide, sketch, sending, warned>>

Pick(p) ==
  /\ picker.target # "none"
  /\ picker' = p /\ picker' # picker
  /\ UNCHANGED <<item, slide, sketch, sending, warned, effort>>

\* The check under way goes on.
TypeAddress(url) == Pick([picker EXCEPT !.url = url, !.preview = ""])

CheckPreview ==
  /\ ~picker.checking /\ picker.url # ""
  /\ Pick([picker EXCEPT !.preview = "", !.checking = TRUE, !.asked = picker.url])

\* onload, or onerror and the timeout.
PreviewChecked ==
  /\ picker.asked # ""
  /\ \/ picker.asked # "broken"
        /\ Pick([picker EXCEPT !.preview = picker.asked, !.checking = FALSE, !.asked = ""])
     \/ Pick([picker EXCEPT !.checking = FALSE, !.asked = ""])

Illustrated(options, id, url) ==
  [i \in DOMAIN options |->
     IF options[i].id = id THEN [options[i] EXCEPT !.image = url] ELSE options[i]]

Bug_TrustsAnyPreview == picker.preview # ""
PreviewIsOfThisUrl == picker.preview # "" /\ picker.preview = picker.url

ConfirmPicker ==
  /\ picker.target # "none" /\ ~picker.checking /\ PreviewIsOfThisUrl
  /\ sketch' = IF picker.target = "slide" THEN [sketch EXCEPT !.image = picker.url]
               ELSE [sketch EXCEPT !.options = Illustrated(@, picker.target, picker.url)]
  /\ picker' = NoPicker
  /\ UNCHANGED <<item, slide, sending, warned, effort>>

ClosePicker == Pick(NoPicker)
-----------------------------------------------------------------------------
(* Saves, creations and conversions, one at a time: module Editor has the  *)
(* calls that overlap, module Slides what a started run still allows.      *)

SendDefinition(kind, s) ==
  /\ sending = NoSending /\ picker = NoPicker /\ SpendOn("calls")
  /\ sending' = [step |-> "sent", kind |-> kind, rev |-> slide.rev, def |-> ToDefinition(s),
                 shown |-> sketch]

\* handleSave.
SaveSketch ==
  /\ SketchIsDirty /\ ~warned /\ SketchIsValid(sketch)
  /\ SendDefinition("save", ToEditorSlide(sketch))
  /\ UNCHANGED <<item, slide, sketch, warned, picker>>

\* createSlide and applyTypeChange; the confirmed conversion drops the draft.
ChooseType(choice) ==
  /\ IF slide.rev = 0 THEN item.rev = 0 /\ SendDefinition("create", NewSlide(choice))
     ELSE ~Matches(slide.def, choice) /\ SendDefinition("convert", Converted(slide.def, choice))
  /\ sketch' = IF slide.rev = 0 THEN None ELSE DraftOf(slide.def)
  /\ UNCHANGED <<item, slide, warned, picker>>

Stored(d) == [rev |-> item.rev + 1, def |-> d]

\* The server's answer; the reply may get lost behind what it stored.
AnswerDefinition ==
  /\ sending.step = "sent"
  /\ LET outcome == IF ~ServerAccepts(sending.def) THEN "invalid"
                    ELSE IF sending.kind # "create" /\ sending.rev # item.rev THEN "conflict"
                    ELSE "ok"
     IN /\ item' = IF outcome = "ok" THEN Stored(sending.def) ELSE item
        /\ \E o \in {outcome, "failed"} : sending' = [sending EXCEPT !.step = o, !.rev = item'.rev]
  /\ UNCHANGED <<slide, sketch, warned, picker, effort>>

\* The request never arrives.
LoseDefinition ==
  /\ sending.step = "sent"
  /\ sending' = [sending EXCEPT !.step = "failed"]
  /\ UNCHANGED <<item, slide, sketch, warned, picker, effort>>

\* markSaved and onSlideUpdated.
DefinitionSaved ==
  /\ sending.step = "ok"
  /\ ShowSlide(sending.rev, sending.def)
  /\ sending' = NoSending
  /\ UNCHANGED <<item, effort>>

\* A save that met a newer revision keeps its draft and waits for the reload;
\* a conversion loads at once (module Editor); the rest is a notice.
DefinitionRefused ==
  /\ sending.step \in {"conflict", "invalid", "failed"}
  /\ warned' = (warned \/ (sending.step = "conflict" /\ sending.kind = "save"))
  /\ sending' = NoSending
  /\ UNCHANGED <<item, slide, sketch, picker, effort>>

\* Another client stores what the server lets in.
OtherStores(d) ==
  /\ item.rev > 0 /\ ServerAccepts(d) /\ SpendOn("calls")
  /\ item' = Stored(d)
  /\ UNCHANGED <<slide, sketch, sending, warned, picker>>
-----------------------------------------------------------------------------
DraftsNext ==
  \/ RefreshSlide \/ ReloadWarned \/ Discard
  \/ EditQuestion \/ EditScoring \/ AddOption \/ EditTextActivity \/ EditSlideContent
  \/ \E i \in 1..MaxOptions : DeleteOption(i) \/ EditOption(i) \/ ToggleCorrect(i)
  \/ \E i, j \in 1..MaxOptions : MoveOption(i, j)
  \/ RemoveImage
  \/ sketch # None /\ \E target \in Targets : OpenPicker(target)
  \/ \E url \in Images : TypeAddress(url)
  \/ CheckPreview \/ PreviewChecked \/ ConfirmPicker \/ ClosePicker
  \/ SaveSketch
  \/ \E choice \in TypeChoices : ChooseType(choice)
  \/ AnswerDefinition \/ LoseDefinition \/ DefinitionSaved \/ DefinitionRefused
  \/ \E d \in ApiItems : OtherStores(d)

DraftsSpec == DraftsInit /\ [][DraftsNext]_sketchVars
-----------------------------------------------------------------------------
\* The server never refuses what this client sends as a definition of its own:
\* neither a draft that passed the inspector, nor a new slide, nor a conversion
\* of whatever the slide was, ends in invalid_slide with nothing to correct.
SentIsAccepted == sending.step # "invalid"

\* And whatever any client got stored passes the check that a presentation
\* must pass to start: no slide of another client locks the manager out.
StoredCanStart == item.rev > 0 => ClientAccepts(FromTransport(item.def))

Tidy(w) ==
  IF w.kind # "choice" THEN w
  ELSE [w EXCEPT !.text = Trim[@], !.options = Trimmed(@)]

\* A save that succeeds leaves in the inspector what the manager saw when
\* saving, texts trimmed: nothing is lost or invented on the way through the
\* conversions and the server, and nothing typed meanwhile is dropped.
SavedAsShown ==
  [][sending.step = "ok" /\ sending'.step = "idle" /\ sending.kind = "save"
       => Tidy(sketch') = Tidy(sending.shown)]_sketchVars

\* An address is applied only if its own image was seen to load: a check that
\* ends after the address was edited vouches for nothing.
OnlyCheckedImages ==
  sketch # None => \A target \in Targets : ImageAt(sketch, target) # "broken"
=============================================================================
