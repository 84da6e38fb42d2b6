------------------------------ MODULE MCPages ------------------------------
(* The pages of the browser client, each with the part of the server it     *)
(* works on.  They share no state: a behaviour is that of one page, chosen  *)
(* in the initial state, while the variables of the others stay at one of   *)
(* their initial states.                                                    *)
EXTENDS Editor, Drafts, Settings, Answering, Presenting, Joining, Stage,
  Directory, Library, Reports, Accounts, TLC

VARIABLE page

MCFirstSlides == <<"s1", "s2">>
MCBudgets == {[calls |-> 2, others |-> 0], [calls |-> 1, others |-> 1], [calls |-> 0, others |-> 2]}
MCShows == {<<"content", "content", "quiz", "content">>,
            <<"ranked", "content", "content", "quiz">>,
            <<"cloud", "content", "cloud">>}

MCQuestion(type, evaluation, scoring, options) ==
  [kind |-> "choice", text |-> "word", image |-> "image", type |-> type, evaluation |-> evaluation,
   key |-> IF evaluation = "none" THEN {} ELSE {"o2"},
   scoring |-> scoring, time |-> 10, min |-> 0, max |-> IF scoring = "none" THEN 0 ELSE 1,
   faster |-> FALSE, partial |-> FALSE, board |-> scoring = "points",
   options |-> [i \in 1..options |-> [id |-> "o" \o ToString(i), text |-> "word", image |-> ""]]]
\* What other clients may send; the server refuses points without correctness.
MCApiItems ==
  {[MCQuestion("multiple", "correctness", "points", 3)
      EXCEPT !.key = {"o2", "o3"}, !.partial = TRUE],
   MCQuestion("single", "correctness", "none", 3),
   MCQuestion("multiple", "none", "none", 2),
   MCQuestion("single", "none", "points", 2),
   [kind |-> "text", title |-> " ", text |-> " word", image |-> "image", length |-> 500,
    words |-> 1, time |-> 86400],
   [kind |-> "content", title |-> "", text |-> " ", image |-> "image"]}
MCEfforts == {[edits |-> 2, pickers |-> 0, calls |-> 1],
              [edits |-> 1, pickers |-> 0, calls |-> 2],
              [edits |-> 0, pickers |-> 1, calls |-> 1]}

MCFirstRow == [rev |-> 1, title |-> "old", bg |-> Slate, ink |-> White, music |-> "old"]
MCForeign == {[title |-> "theirs"], [bg |-> 190, ink |-> 190], [music |-> "theirs"], [f \in {} |-> 0]}
MCSaveBudgets == {[saves |-> 2, foreign |-> 0], [saves |-> 1, foreign |-> 1]}

MCSearches == {{"t1", "t2", "t3", "t4"}, {"t1", "t4"}}
MCRooms == {[picks |-> 2, clicks |-> 1, others |-> 1, leaves |-> 0],
            [picks |-> 1, clicks |-> 2, others |-> 0, leaves |-> 1],
            [picks |-> 3, clicks |-> 1, others |-> 0, leaves |-> 0]}

MCDefinitions ==
  [q \in {"q1", "q2"} |->
     IF q = "q1" THEN [options |-> 2, correct |-> {1}, single |-> TRUE, partial |-> FALSE]
     ELSE [options |-> 3, correct |-> {1, 2}, single |-> FALSE, partial |-> TRUE]]
MCScenes ==
  {[watch |-> {"ranking"}, people |-> 2, answers |-> 2, sessions |-> 1, loads |-> 3],
   [watch |-> {"sessions"}, people |-> 0, answers |-> 0, sessions |-> 4, loads |-> 4],
   [watch |-> {"totals"}, people |-> 1, answers |-> 2, sessions |-> 1, loads |-> 1],
   [watch |-> {"q1"}, people |-> 2, answers |-> 2, sessions |-> 1, loads |-> 2]}

\* A page that is not open makes none of its initial choices.
OthersFixed ==
  /\ page # "editor" => budget = CHOOSE b \in Budgets : TRUE
  /\ page # "draft" => item.rev = 0 /\ effort = CHOOSE e \in Efforts : TRUE
  /\ page # "settings" => bounds = CHOOSE b \in SaveBudgets : TRUE
  /\ page # "answer" => form = CHOOSE f \in Forms : TRUE
  /\ page # "present" => show = CHOOSE s \in Shows : TRUE
  /\ page # "library" => room = CHOOSE r \in Rooms : TRUE
  /\ page # "reports" => scene = CHOOSE s \in Scenes : TRUE
  /\ page # "dashboard" => decks[CHOOSE d \in Decks : TRUE] = NoDeck

Init ==
  /\ EditorInit /\ DraftsInit /\ SettingsInit /\ AnsweringInit /\ PresentingInit
  /\ JoiningInit /\ StageInit /\ DirectoryInit /\ LibraryInit /\ ReportsInit /\ AccountsInit
  /\ page \in {"editor", "draft", "settings", "answer", "present", "join", "stage", "dashboard",
               "library", "reports", "accounts"}
  /\ OthersFixed

Next ==
  /\ UNCHANGED page
  /\ \/ /\ page = "editor" /\ EditorNext
        /\ UNCHANGED <<sketchVars, settingsVars, answerVars, presentingVars,
                       joiningVars, stageVars, directoryVars, libraryVars, reportsVars,
                       accountVars>>
     \/ /\ page = "draft" /\ DraftsNext
        /\ UNCHANGED <<editorVars, settingsVars, answerVars, presentingVars,
                       joiningVars, stageVars, directoryVars, libraryVars, reportsVars,
                       accountVars>>
     \/ /\ page = "settings" /\ SettingsNext
        /\ UNCHANGED <<editorVars, sketchVars, answerVars, presentingVars, joiningVars,
                       stageVars, directoryVars, libraryVars, reportsVars, accountVars>>
     \/ /\ page = "answer" /\ AnsweringNext
        /\ UNCHANGED <<editorVars, sketchVars, settingsVars, presentingVars,
                       joiningVars, stageVars, directoryVars, libraryVars, reportsVars,
                       accountVars>>
     \/ /\ page = "present" /\ PresentingNext
        /\ UNCHANGED <<editorVars, sketchVars, settingsVars, answerVars, joiningVars,
                       stageVars, directoryVars, libraryVars, reportsVars, accountVars>>
     \/ /\ page = "join" /\ JoiningNext
        /\ UNCHANGED <<editorVars, sketchVars, settingsVars, answerVars,
                       presentingVars, stageVars, directoryVars, libraryVars, reportsVars,
                       accountVars>>
     \/ /\ page = "stage" /\ StageNext
        /\ UNCHANGED <<editorVars, sketchVars, settingsVars, answerVars,
                       presentingVars, joiningVars, directoryVars, libraryVars, reportsVars,
                       accountVars>>
     \/ /\ page = "dashboard" /\ DirectoryNext
        /\ UNCHANGED <<editorVars, sketchVars, settingsVars, answerVars,
                       presentingVars, joiningVars, stageVars, libraryVars, reportsVars,
                       accountVars>>
     \/ /\ page = "library" /\ LibraryNext
        /\ UNCHANGED <<editorVars, sketchVars, settingsVars, answerVars,
                       presentingVars, joiningVars, stageVars, directoryVars, reportsVars,
                       accountVars>>
     \/ /\ page = "reports" /\ ReportsNext
        /\ UNCHANGED <<editorVars, sketchVars, settingsVars, answerVars,
                       presentingVars, joiningVars, stageVars, directoryVars, libraryVars,
                       accountVars>>
     \/ /\ page = "accounts" /\ AccountsNext
        /\ UNCHANGED <<editorVars, sketchVars, settingsVars, answerVars,
                       presentingVars, joiningVars, stageVars, directoryVars, libraryVars,
                       reportsVars>>

Spec == Init /\ [][Next]_<<page, editorVars, sketchVars, settingsVars, answerVars,
                           presentingVars, joiningVars, stageVars, directoryVars, libraryVars,
                           reportsVars, accountVars>>
=============================================================================
