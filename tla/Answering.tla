------------------------------ MODULE Answering ------------------------------
(***************************************************************************)
(* A participant's answer, from the choice on the screen to the answers    *)
(* table: the answer controller of a choice question and the component of  *)
(* a word cloud (live/participant), each with its sessionStorage copy of   *)
(* the draft and of the attempt whose outcome is not known.                *)
(*                                                                         *)
(* React runs the effects of a commit together: what they do after a       *)
(* snapshot, a tick or a reply is part of that action.  A run is one       *)
(* opening of an Activity (question id and state version); the presenter   *)
(* only goes forward, so a run that is over does not come back.            *)
(***************************************************************************)
EXTENDS Integers, FiniteSets

CONSTANTS
  Forms,      \* kinds of question asked in a behaviour: "choice", "text"
  Choices,    \* what a participant may select or write
  MaxRuns,    \* bound: openings
  MaxPosts,   \* bound: answers sent
  MaxTouches  \* bound: changes of the selection

ASSUME AnsweringAssumption ==
  /\ Forms \subseteq {"choice", "text"} /\ "none" \notin Choices
  /\ {MaxRuns, MaxPosts, MaxTouches} \subseteq Nat

VARIABLES
  form,      \* the kind of the questions
  asked,     \* the server's Activity: its run, and whether it takes answers
  responses, \* the participant's row in answers, of each run
  coming,    \* a snapshot on its way to the tab
  linked,    \* isConnected
  panel,     \* state and refs of the mounted component
  kept,      \* sessionStorage: draft and pending attempt, of each run
  posts,     \* the answers sent
  touches    \* how often the participant changed the selection

answerVars == <<form, asked, responses, coming, linked, panel, kept, posts, touches>>

Runs == 1..MaxRuns
NoAttempt == [request |-> 0, choice |-> "none"]
NotAsked == [run |-> 0, responded |-> FALSE]
Absent == [run |-> 0, submit |-> "idle", left |-> FALSE, choice |-> "none",
           pending |-> NoAttempt, inflight |-> 0, restored |-> FALSE]

AnsweringInit ==
  /\ form \in Forms
  /\ asked = [run |-> 0, open |-> FALSE]
  /\ responses = [r \in Runs |-> NoAttempt]
  /\ coming = {} /\ linked = FALSE
  /\ panel = Absent
  /\ kept = [r \in Runs |-> [pending |-> NoAttempt, choice |-> "none"]]
  /\ posts = {} /\ touches = 0

Taking(r) == asked.open /\ asked.run = r
Locked == panel.submit \in {"sending", "sent", "rejected", "expired"}
Mounted == panel.run # 0

\* clearPendingAnswer and clearAnswerDraft.
Forget(r) == [kept EXCEPT ![r] = [pending |-> NoAttempt, choice |-> "none"]]
-----------------------------------------------------------------------------
(* The server.                                                             *)

OpenNext ==
  /\ ~asked.open /\ asked.run < MaxRuns
  /\ asked' = [run |-> asked.run + 1, open |-> TRUE]
  /\ UNCHANGED <<form, responses, coming, linked, panel, kept, posts, touches>>

\* By the presenter, or by the deadline.
CloseRun ==
  /\ asked.open
  /\ asked' = [asked EXCEPT !.open = FALSE]
  /\ UNCHANGED <<form, responses, coming, linked, panel, kept, posts, touches>>

\* SubmitAnswer: the duplicate lookup, the state of the session, the unique key.
Verdict(p) ==
  IF responses[p.run].request = p.request
     \/ (Taking(p.run) /\ responses[p.run] = NoAttempt) THEN "stored" ELSE "refused"

\* A request may arrive long after the tab stopped waiting for it.
Reach(p) ==
  /\ p.reached = "no"
  /\ posts' = (posts \ {p}) \cup {[p EXCEPT !.reached = Verdict(p)]}
  /\ responses' = IF Verdict(p) = "stored"
                  THEN [responses EXCEPT ![p.run] = [request |-> p.request, choice |-> p.choice]]
                  ELSE responses
  /\ UNCHANGED <<form, asked, coming, linked, panel, kept, touches>>

\* A participant sees a question while it is open, with has_responded.
ReadSnapshot ==
  /\ coming = {}
  /\ coming' = {IF asked.open
                THEN [run |-> asked.run, responded |-> responses[asked.run] # NoAttempt]
                ELSE NotAsked}
  /\ UNCHANGED <<form, asked, responses, linked, panel, kept, posts, touches>>
-----------------------------------------------------------------------------
(* The tab.                                                                *)

\* sendAttempt, send: the attempt leaves for the run on the screen.
PostOf(attempt, r) ==
  [request |-> attempt.request, choice |-> attempt.choice, run |-> r,
   touch |-> touches, n |-> Cardinality(posts) + 1, reached |-> "no", told |-> "waiting"]

Sending(c, attempt) ==
  [c EXCEPT !.submit = "sending", !.inflight = attempt.request, !.restored = FALSE]

Bug_ForgetsAttempt(r) ==
  [Absent EXCEPT !.run = r, !.left = TRUE, !.choice = kept[r].choice]

\* The effect of a new run, or of a mount: what sessionStorage has of it.
Restored(r) ==
  LET attempt == kept[r].pending
      pending == attempt # NoAttempt
  IN [run |-> r, submit |-> IF pending THEN "retryable" ELSE "idle", left |-> TRUE,
      choice |-> IF form = "text" /\ pending THEN attempt.choice ELSE kept[r].choice,
      pending |-> attempt, inflight |-> 0, restored |-> pending]

\* The effect of has_responded.
Acknowledged(c, responded) ==
  IF responded THEN [c EXCEPT !.submit = "sent", !.pending = NoAttempt,
                              !.inflight = 0, !.restored = FALSE]
  ELSE c

Bug_ExpiresWhenMounted == ~Mounted
\* The word cloud's expiry effect runs in the commit that mounts it, while
\* timeLeft still has its initial 0; the controller waits for its timer.
ExpiresOnMount == form = "text" /\ ~Mounted

Expired(c) == [c EXCEPT !.submit = "expired", !.pending = NoAttempt]

Deaf == {[p EXCEPT !.told = "unheard"] : p \in posts}

\* The component mounts, changes to another run, stays, or leaves the screen.
\* An attempt of unknown outcome goes out again when it was restored, or when
\* the connection came back.
ApplySnapshot ==
  \E snapshot \in coming :
    LET r == snapshot.run
        c == Acknowledged(IF panel.run = r THEN panel ELSE Restored(r), snapshot.responded)
        shown == IF ExpiresOnMount THEN Expired(c) ELSE c
        again == /\ shown.submit = "retryable" /\ shown.pending # NoAttempt /\ shown.left
                 /\ ~snapshot.responded /\ (shown.restored \/ ~linked)
    IN /\ coming' = {} /\ linked' = TRUE
       /\ \/ /\ r = 0
             /\ panel' = Absent /\ posts' = Deaf
             /\ UNCHANGED kept
          \/ /\ r # 0
             /\ kept' = IF snapshot.responded \/ ExpiresOnMount THEN Forget(r) ELSE kept
             /\ IF again
                THEN /\ Cardinality(posts) < MaxPosts
                     /\ panel' = Sending(shown, shown.pending)
                     /\ posts' = posts \cup {PostOf(shown.pending, r)}
                ELSE panel' = shown /\ UNCHANGED posts
       /\ UNCHANGED <<form, asked, responses, touches>>

\* A refresh or the stream failed.
LinkLost ==
  /\ linked
  /\ linked' = FALSE
  /\ coming' = {}
  /\ UNCHANGED <<form, asked, responses, panel, kept, posts, touches>>

\* The page is loaded again: sessionStorage stays, the handlers are gone.
ReloadPage ==
  /\ panel' = Absent /\ linked' = FALSE /\ coming' = {}
  /\ posts' = Deaf
  /\ UNCHANGED <<form, asked, responses, kept, touches>>

\* The timer starts from the remaining time a snapshot carried, when it
\* arrives: it ends after the server's deadline.
TimeUp ==
  /\ Mounted /\ panel.left /\ ~Taking(panel.run)
  /\ LET c == [panel EXCEPT !.left = FALSE]
     IN IF Locked THEN panel' = c /\ UNCHANGED kept
        ELSE panel' = Expired(c) /\ kept' = Forget(panel.run)
  /\ UNCHANGED <<form, asked, responses, coming, linked, posts, touches>>

\* toggleOption, the text field: a new selection withdraws the old attempt.
Choose(x) ==
  /\ Mounted /\ panel.left /\ ~Locked
  /\ x # panel.choice /\ touches < MaxTouches
  /\ panel' = IF panel.submit = "retryable"
              THEN [panel EXCEPT !.choice = x, !.pending = NoAttempt, !.restored = FALSE,
                                 !.submit = "idle"]
              ELSE [panel EXCEPT !.choice = x]
  /\ kept' = [kept EXCEPT ![panel.run] =
                [choice |-> x,
                 pending |-> IF panel.submit = "retryable" THEN NoAttempt ELSE @.pending]]
  /\ touches' = touches + 1
  /\ UNCHANGED <<form, asked, responses, coming, linked, posts>>

\* The button that submits is there in the idle state, else it retries.
Submit ==
  LET attempt == [request |-> Cardinality(posts) + 1, choice |-> panel.choice]
  IN /\ Mounted /\ panel.left /\ panel.submit = "idle" /\ panel.choice # "none"
     /\ panel.inflight = 0 /\ Cardinality(posts) < MaxPosts
     /\ panel' = Sending([panel EXCEPT !.pending = attempt], attempt)
     /\ kept' = [kept EXCEPT ![panel.run].pending = attempt]
     /\ posts' = posts \cup {PostOf(attempt, panel.run)}
     /\ UNCHANGED <<form, asked, responses, coming, linked, touches>>

Retry ==
  /\ Mounted /\ panel.left /\ panel.submit = "retryable" /\ panel.pending # NoAttempt
  /\ panel.inflight = 0 /\ Cardinality(posts) < MaxPosts
  /\ panel' = Sending(panel, panel.pending)
  /\ posts' = posts \cup {PostOf(panel.pending, panel.run)}
  /\ UNCHANGED <<form, asked, responses, coming, linked, kept, touches>>

Bug_HeardByAnyRun(p) == Mounted
\* The controller drops the reply of another run; the word cloud does not.
Concerns(p) == Mounted /\ (form = "text" \/ p.run = panel.run)

\* An attempt whose outcome is unknown stays in sessionStorage while it can be
\* tried again.
Clears(outcome) == outcome # "lost" \/ ~panel.left

\* What follows the await of submitAnswer.
After(p, outcome) ==
  LET c == [panel EXCEPT !.inflight = IF form = "text" \/ @ = p.request THEN 0 ELSE @]
  IN /\ p.told = "waiting"
     /\ posts' = (posts \ {p}) \cup {[p EXCEPT !.told = outcome]}
     /\ \/ ~Concerns(p) /\ UNCHANGED <<panel, kept>>
        \/ /\ Concerns(p)
           /\ kept' = IF Clears(outcome)
                      THEN Forget(IF outcome = "lost" THEN panel.run ELSE p.run) ELSE kept
           /\ \/ outcome = "stored" /\ panel' = [c EXCEPT !.submit = "sent", !.pending = NoAttempt]
              \/ outcome = "refused" /\ panel' = [Expired(c) EXCEPT !.submit = "rejected"]
              \/ /\ outcome = "lost"
                 /\ panel' = IF ~c.left THEN Expired(c)
                             ELSE [c EXCEPT !.submit = "retryable",
                                     !.pending = [request |-> p.request, choice |-> p.choice]]
     /\ UNCHANGED <<form, asked, responses, coming, linked, touches>>

Reply(p) == p.reached # "no" /\ After(p, p.reached)

\* An error that is no refusal, or no answer in time.
NoReply(p) == After(p, "lost")
-----------------------------------------------------------------------------
AnsweringNext ==
  \/ OpenNext \/ CloseRun \/ ReadSnapshot \/ ApplySnapshot \/ LinkLost \/ ReloadPage
  \/ TimeUp \/ Submit \/ Retry
  \/ \E x \in Choices \cup {"none"} : Choose(x)
  \/ \E p \in posts : Reach(p) \/ Reply(p) \/ NoReply(p)

AnsweringSpec == AnsweringInit /\ [][AnsweringNext]_answerVars
-----------------------------------------------------------------------------
\* "Your answer was recorded" is only shown on a question whose answer the
\* server has: a reply that is late for its question confirms no other one.
SentMeansStored ==
  form = "choice" /\ panel.submit = "sent" => responses[panel.run] # NoAttempt

\* Until the participant changes the selection, every try of an answer carries
\* the request id of the first, through lost replies, reconnects and reloads.
OneKeyPerAnswer ==
  form = "choice" =>
    \A p, q \in posts : p.run = q.run /\ p.touch = q.touch => p.request = q.request

\* A question the server still takes an answer to is never shown as expired.
GivesUpOnlyAfterClose ==
  form = "choice" /\ panel.submit = "expired" => ~Taking(panel.run)
=============================================================================
