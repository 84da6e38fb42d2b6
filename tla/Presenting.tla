------------------------------ MODULE Presenting ------------------------------
(***************************************************************************)
(* The presenter's page: from a press on one of its controls to the        *)
(* commands sent to the session, and from a snapshot back to the view and  *)
(* the slide counter (live/manager).                                       *)
(*                                                                         *)
(* A snapshot carries the session and the item on the stage.  The reply to *)
(* a command replaces the session only, so that until the refresh that     *)
(* follows it the page holds a new session and the item of the old one.    *)
(* Each publication runs the effects of the controller.  Recovery of a     *)
(* command whose reply was lost is in LiveRuntime.                         *)
(***************************************************************************)
EXTENDS Integers, Sequences

CONSTANTS
  Shows,      \* presentations: sequences of kinds of items
  MaxVersion  \* bound: no press at this state version

ASSUME PresentingAssumption ==
  /\ Shows \subseteq Seq({"content", "quiz", "ranked", "cloud"}) \ {<<>>}
  /\ MaxVersion \in Nat

VARIABLES
  show,    \* the items; "ranked" is an activity with show_overall_leaderboard_after
  run,     \* the session on the server
  desk,    \* snapshot and controller state of the page
  command  \* what a press has still to send, and the closure that waits for it

presentingVars == <<show, run, desk, command>>

Last == Len(show)
IsActivity(i) == i \in 1..Last /\ show[i] # "content"
Lobby == [state |-> "lobby", item |-> 0, phase |-> "none", ranking |-> FALSE, version |-> 1]
Idle == [step |-> "idle", actions |-> <<>>, target |-> 0, then |-> "none", pressed |-> [fallback |-> "join"]]

(* The session (CanApplyAction and ApplyAction, the part the presenter     *)
(* sees: LiveSession has the rest).                                        *)
CanApply(s, action) ==
  CASE action = "present_item" ->
         s.state = "lobby" \/ (s.state = "presenting" /\ s.phase \in {"none", "revealed"})
    [] action = "close_activity" -> s.state = "presenting" /\ s.phase = "accepting"
    [] action = "reveal_activity" -> s.state = "presenting" /\ s.phase = "closed"
    [] action = "show_overall_ranking" -> s.state = "presenting" /\ s.phase = "revealed"
    [] action = "end" -> s.state = "lobby" \/ (s.state = "presenting" /\ s.phase # "accepting")

Applied(s, action, target) ==
  LET t == [s EXCEPT !.version = @ + 1]
  IN CASE action = "present_item" ->
            [t EXCEPT !.state = "presenting", !.item = target, !.ranking = FALSE,
                      !.phase = IF IsActivity(target) THEN "accepting" ELSE "none"]
       [] action = "close_activity" -> [t EXCEPT !.phase = "closed"]
       [] action = "reveal_activity" -> [t EXCEPT !.phase = "revealed"]
       [] action = "show_overall_ranking" -> [t EXCEPT !.ranking = TRUE]
       [] action = "end" -> [t EXCEPT !.state = "ended", !.phase = "none"]

DeadlinePasses ==
  /\ run.phase = "accepting"
  /\ run' = Applied(run, "close_activity", 0)
  /\ UNCHANGED <<show, desk, command>>
-----------------------------------------------------------------------------
(* What the page makes of a snapshot.                                      *)

OnStage(d) == d.session.state = "presenting" /\ ~d.session.ranking
QuestionOf(d) ==
  IF OnStage(d) /\ IsActivity(d.item) /\ d.session.phase # "none" THEN d.item ELSE 0
ContentOf(d) == IF OnStage(d) /\ d.item # 0 /\ ~IsActivity(d.item) THEN d.item ELSE 0

ViewOf(d) ==
  IF d.fallback = "final" \/ d.session.state = "ended" THEN "final"
  ELSE CASE d.session.ranking -> "ranking"
         [] ContentOf(d) # 0 -> "content"
         [] QuestionOf(d) # 0 -> "question"
         [] OTHER -> d.fallback

\* The effects of useManagerPresentationController; that of the ranking runs
\* when it comes up or its item changes, the others on every projection.
Projected(d) ==
  LET ranked == IF d.session.ranking THEN d.session.item ELSE 0
      e == [d EXCEPT !.ranked = ranked]
  IN CASE QuestionOf(d) # 0 -> [e EXCEPT !.current = d.item, !.fallback = "question"]
       [] ContentOf(d) # 0 -> [e EXCEPT !.current = d.item, !.fallback = "content"]
       [] ranked # 0 /\ ranked # d.ranked -> [e EXCEPT !.current = ranked, !.fallback = "ranking"]
       [] OTHER -> e

Snapshot(d) == Projected([d EXCEPT !.session = run, !.item = run.item])
Fresh == [session |-> run, item |-> run.item, fallback |-> "join", current |-> 1, ranked |-> 0]

PresentingInit ==
  /\ show \in Shows
  /\ run = Lobby
  /\ desk = Fresh
  /\ command = Idle

\* A session event brings the authoritative snapshot.
HearEvent ==
  /\ desk.session # run \/ desk.item # run.item
  /\ desk' = Snapshot(desk)
  /\ UNCHANGED <<show, run, command>>

\* Presence, results and roster publish a new projection of the same snapshot.
Reproject ==
  /\ desk' = Projected(desk) /\ desk' # desk
  /\ UNCHANGED <<show, run, command>>

ReopenDesk ==
  /\ run.state = "presenting"
  /\ desk' = Projected(Fresh) /\ command' = Idle
  /\ UNCHANGED <<show, run>>
-----------------------------------------------------------------------------
(* Presses.                                                                *)

\* planLiveNavigation; the runtime always finds the session in the lobby or later.
Bug_RevealsWhileOpen(s, target) ==
  IF s.state = "presenting" /\ s.phase \in {"accepting", "closed"} THEN <<"reveal_activity">>
  ELSE IF target # 0 THEN <<"present_item">> ELSE <<"show_overall_ranking">>
PlanLiveNavigation(s, target) ==
  CASE s.state = "ended" -> <<>>
    [] s.state = "presenting" /\ s.phase = "accepting" -> <<"close_activity", "reveal_activity">>
    [] s.state = "presenting" /\ s.phase = "closed" -> <<"reveal_activity">>
    [] s.state = "presenting" /\ s.phase = "revealed" /\ ~s.ranking /\ target = 0 ->
         <<"show_overall_ranking">>
    [] OTHER -> IF target # 0 THEN <<"present_item">> ELSE <<>>

PlanLiveEnd(s) ==
  CASE s.state = "presenting" /\ s.phase = "accepting" -> <<"close_activity", "end">>
    [] s.state = "ended" -> <<>>
    [] OTHER -> <<"end">>

NextSlide(d) == IF d.current < Last THEN d.current + 1 ELSE 0
Plan(actions, target, then) == [actions |-> actions, target |-> target, then |-> then]
Ending(d) == Plan(PlanLiveEnd(d.session), 0, "onEndGame")
Moving(d, target, then) == Plan(PlanLiveNavigation(d.session, target), target, then)

\* A question is pictured from the presentation, at the counter; without one
\* the view is "preparing" and its Next is disabled.  The join page takes an
\* activity without two options for an invalid one, a word cloud included.
FooterOffersNext(d) ==
  /\ ViewOf(d) = "question" => IsActivity(d.current)
  /\ ViewOf(d) = "join" => \A i \in 1..Last : show[i] # "cloud"

\* handleNext of the page in view.  On a content slide and on the ranking the
\* footer offers the end instead at the last slide.
FooterNext(d) ==
  CASE ViewOf(d) = "join" -> Moving(d, 1, "onNext")
    [] ViewOf(d) = "question" ->
         IF d.session.phase \in {"accepting", "closed"} \/ show[d.current] = "ranked"
         THEN Moving(d, 0, "none")
         ELSE IF NextSlide(d) = 0 THEN Ending(d) ELSE Moving(d, NextSlide(d), "none")
    [] OTHER -> IF NextSlide(d) = 0 THEN Ending(d) ELSE Moving(d, NextSlide(d), "onNext")

\* runPrimaryControl and finishSession of the backstage drawer.
BackstageNext(d) ==
  CASE d.session.state = "lobby" -> Moving(d, 1, "onNext")
    [] d.session.phase = "accepting" -> Plan(<<"close_activity">>, 0, "none")
    [] d.session.phase = "closed" -> Plan(<<"reveal_activity">>, 0, "none")
    [] d.session.phase = "revealed" /\ QuestionOf(d) # 0 /\ show[d.item] = "ranked" ->
         Plan(<<"show_overall_ranking">>, 0, "none")
    [] OTHER -> IF NextSlide(d) = 0 THEN Ending(d) ELSE Moving(d, NextSlide(d), "onNext")

Closure(d) == [fallback |-> d.fallback, current |-> d.current,
               content |-> ContentOf(d) # 0, ranking |-> d.session.ranking]
Begin(plan) ==
  /\ command = Idle /\ ViewOf(desk) # "final" /\ run.version < MaxVersion
  /\ command' = [step |-> IF plan.actions = <<>> THEN "refresh" ELSE "act",
                 actions |-> plan.actions, target |-> plan.target, then |-> plan.then,
                 pressed |-> Closure(desk)]
  /\ UNCHANGED <<show, run, desk>>

PressNext == FooterOffersNext(desk) /\ Begin(FooterNext(desk))
PressBackstage == Begin(BackstageNext(desk))
PressEnd == Begin(Ending(desk))
-----------------------------------------------------------------------------
(* sendNavigation, sendManagerAction and sendEnd.                          *)

Accepts(action) == desk.session.version = run.version /\ CanApply(run, action)

SendAction ==
  /\ command.step = "act"
  /\ LET action == Head(command.actions)
     IN /\ Accepts(action)
        /\ run' = Applied(run, action, command.target)
        /\ desk' = Projected([desk EXCEPT !.session = run'])
  /\ command' = [command EXCEPT !.actions = Tail(@),
                                !.step = IF Len(command.actions) = 1 THEN "refresh" ELSE @]
  /\ UNCHANGED show

\* A conflict, or no answer: then the action may have been applied.
Bug_EndsAnyway(d, c) == IF c.then = "onEndGame" THEN [d EXCEPT !.fallback = "final"] ELSE d
NotConfirmed(d, c) == d
ActionFails ==
  /\ command.step = "act"
  /\ \/ run' = run
     \/ /\ Accepts(Head(command.actions))
        /\ run' = Applied(run, Head(command.actions), command.target)
  /\ desk' = NotConfirmed(desk, command) /\ command' = Idle
  /\ UNCHANGED show

Refresh ==
  /\ command.step = "refresh"
  /\ desk' = Snapshot(desk) /\ command' = [command EXCEPT !.step = "roster"]
  /\ UNCHANGED <<show, run>>

\* The controller's handleNext, as it was rendered when the control was pressed;
\* the counter it adds to is the current one.
HandleNext(d, p) ==
  CASE p.fallback = "join" ->
         [d EXCEPT !.fallback = IF p.ranking THEN "ranking" ELSE IF p.content THEN "content" ELSE "question"]
    [] p.fallback # "join" /\ p.current < Last ->
         [d EXCEPT !.fallback = IF IsActivity(p.current + 1) THEN "question" ELSE "content",
                   !.current = IF @ < Last THEN @ + 1 ELSE Last]
    [] OTHER -> d

Continue(d) ==
  CASE command.then = "onNext" -> HandleNext(d, command.pressed)
    [] command.then = "onEndGame" -> [d EXCEPT !.fallback = "final"]
    [] OTHER -> d

\* The roster has come, or the refresh failed: the press returns.
Confirmed ==
  /\ \/ command.step = "roster" /\ desk' = Continue(Projected(desk))
     \/ command.step = "refresh" /\ desk' = Continue(desk)
  /\ command' = Idle
  /\ UNCHANGED <<show, run>>

PresentingNext ==
  \/ DeadlinePasses \/ HearEvent \/ Reproject \/ ReopenDesk
  \/ PressNext \/ PressBackstage \/ PressEnd
  \/ SendAction \/ ActionFails \/ Refresh \/ Confirmed

PresentingSpec == PresentingInit /\ [][PresentingNext]_presentingVars
-----------------------------------------------------------------------------
(* Properties.                                                             *)

\* A page that is up to date is never a dead end: whatever view it is on, the
\* drawer's control and the footer's Next, where offered, send something that
\* the session accepts.
NextIsNeverRefused ==
  (command = Idle /\ desk.session = run /\ desk.item = run.item /\ ViewOf(desk) # "final") =>
    \A plan \in {BackstageNext(desk)} \union (IF FooterOffersNext(desk) THEN {FooterNext(desk)} ELSE {}) :
      plan.actions # <<>> /\ CanApply(run, Head(plan.actions))

\* The podium is shown only for a session that has ended, although ending it
\* may take two commands of which either may fail.
PodiumMeansEnded == ViewOf(desk) = "final" => run.state = "ended"

\* The presenter goes through the items one by one.
NoItemIsSkipped == [][run'.item # run.item => run'.item = run.item + 1]_presentingVars
=============================================================================
