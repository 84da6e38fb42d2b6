------------------------------- MODULE Joining -------------------------------
(***************************************************************************)
(* How a participant's browser takes its seat in a session: the join page  *)
(* and the resume hook that replaces it once an item has been seen         *)
(* (live/participant), both through joinParticipant and the server's Join. *)
(* The claim of a seat by its name is in LiveSession.                      *)
(*                                                                         *)
(* A join that fails publishes isConnected = FALSE.  That re-runs the      *)
(* effect of the page that sent it, whose clean-up cancels the handler of  *)
(* the reply before joinParticipant returns: the page neither clears       *)
(* joinSentRef nor schedules its retry, and waits for a press.  The hook   *)
(* clears its own ref and sends again at once.                             *)
(***************************************************************************)
EXTENDS Integers, FiniteSets

CONSTANTS
  Nicks,      \* names a participant may type
  HeldNicks,  \* names of the other participants
  MaxJoins,   \* bound: joins sent
  MaxVisits   \* bound: loads of the page

ASSUME JoiningAssumption == HeldNicks \subseteq Nicks /\ {MaxJoins, MaxVisits} \subseteq Nat

VARIABLES
  seats,    \* participants: request id and name; id 0 is another browser's
  profile,  \* localStorage: name and request id; id 0 when there is none
  lobby,    \* the page: controller of the join page and the runtime
  resume,   \* usePlayerSessionRecovery
  joins,    \* joins sent whose outcome is not known
  spent     \* joins sent, loads

joiningVars == <<seats, profile, lobby, resume, joins, spent>>

NoProfile == [id |-> 0, nick |-> "none"]
LobbyAt(stored) ==
  [editing |-> stored = NoProfile, joining |-> stored # NoProfile, sent |-> FALSE,
   connected |-> FALSE, seated |-> FALSE, nick |-> stored.nick]

JoiningInit ==
  /\ seats = {[id |-> 0, nick |-> n] : n \in HeldNicks}
  /\ profile = NoProfile /\ lobby = LobbyAt(NoProfile)
  /\ resume = [seen |-> FALSE, idle |-> TRUE, profile |-> NoProfile, sent |-> FALSE]
  /\ joins = {} /\ spent = [joins |-> 0, visits |-> 1]

ShouldResume(r) == r.seen /\ r.idle /\ r.profile # NoProfile
PageJoins(l, r) == ~r.seen /\ ~l.editing /\ l.joining
Cancelled(J) == {[j EXCEPT !.heard = FALSE] : j \in J}

\* The effects of a commit in which the inputs of the joining effects changed:
\* connect, which succeeds at once for a player, then join, with the request id
\* of the stored profile.
Settle(l, r, J, stored, visit) ==
  LET online == [l EXCEPT !.connected = @ \/ PageJoins(l, r) \/ ShouldResume(r)]
      pageSends == PageJoins(l, r) /\ ~l.sent
      hookSends == ShouldResume(r) /\ ~r.sent
      join == [no |-> spent.joins + 1, visit |-> visit, by |-> IF r.seen THEN "hook" ELSE "page",
               id |-> stored.id, nick |-> IF r.seen THEN r.profile.nick ELSE l.nick,
               heard |-> TRUE, outcome |-> "none"]
  IN /\ pageSends \/ hookSends => spent.joins < MaxJoins
     /\ lobby' = [online EXCEPT !.sent = @ \/ pageSends]
     /\ resume' = [r EXCEPT !.sent = ShouldResume(r)]
     /\ joins' = J \union (IF pageSends \/ hookSends THEN {join} ELSE {})
     /\ profile' = stored
     /\ spent' = [joins |-> IF pageSends \/ hookSends THEN spent.joins + 1 ELSE spent.joins,
                  visits |-> visit]
-----------------------------------------------------------------------------
(* The participant.                                                        *)

NewId == 10 * spent.visits + spent.joins + 1
Bug_NewIdEachTime == NewId
IdToKeep == IF profile.id # 0 THEN profile.id ELSE NewId

SubmitProfile(nick) ==
  /\ ~resume.seen /\ lobby.editing
  /\ Settle([lobby EXCEPT !.editing = FALSE, !.joining = TRUE, !.sent = FALSE, !.nick = nick],
            resume, Cancelled(joins), [id |-> IdToKeep, nick |-> nick], spent.visits)
  /\ UNCHANGED seats

RetryNow ==
  /\ ~resume.seen /\ ~lobby.editing /\ ~lobby.seated
  /\ Settle([lobby EXCEPT !.sent = FALSE, !.joining = TRUE],
            resume, Cancelled(joins), profile, spent.visits)
  /\ UNCHANGED seats

EditProfile ==
  /\ ~resume.seen /\ ~lobby.editing /\ ~lobby.seated
  /\ Settle([lobby EXCEPT !.sent = FALSE, !.joining = FALSE, !.editing = TRUE],
            resume, Cancelled(joins), profile, spent.visits)
  /\ UNCHANGED seats

\* A join of the page that is left may still reach the server.
Revisit ==
  /\ spent.visits < MaxVisits
  /\ Settle(LobbyAt(profile), [resume EXCEPT !.profile = profile, !.idle = TRUE, !.sent = FALSE],
            joins, profile, spent.visits + 1)
  /\ UNCHANGED seats

\* The session shows an item, or stops showing one, to a seated participant.
StageTurns ==
  /\ lobby.seated
  /\ Settle(lobby, [resume EXCEPT !.seen = TRUE, !.idle = ~@], joins, profile, spent.visits)
  /\ UNCHANGED seats
-----------------------------------------------------------------------------
(* joinParticipant.                                                        *)

SeatsOf(id) == {s \in seats : s.id = id}

\* Join: the seat of the request id, a conflict on the name, or a new seat.
ReachServer(j) ==
  /\ j.outcome = "none"
  /\ LET free == \A s \in seats : s.nick # j.nick
         known == SeatsOf(j.id) # {}
     IN /\ seats' = IF known \/ ~free THEN seats ELSE seats \union {[id |-> j.id, nick |-> j.nick]}
        /\ joins' = (joins \ {j}) \union
                    {[j EXCEPT !.outcome = IF known \/ free THEN "seated" ELSE "rejected"]}
  /\ UNCHANGED <<profile, lobby, resume, spent>>

Live(j) == j.visit = spent.visits

\* The result, saved in the profile, and the snapshot that follows it.
Seated(j) ==
  /\ j.outcome = "seated" /\ Live(j)
  /\ \E s \in SeatsOf(j.id) : profile' = [id |-> j.id, nick |-> s.nick]
  /\ lobby' = [lobby EXCEPT !.seated = TRUE, !.connected = TRUE,
                            !.joining = IF j.heard /\ j.by = "page" THEN FALSE ELSE @]
  /\ joins' = joins \ {j}
  /\ UNCHANGED <<seats, resume, spent>>

Rejected(j) ==
  /\ j.outcome = "rejected" /\ Live(j)
  /\ lobby' = IF j.heard /\ j.by = "page"
              THEN [lobby EXCEPT !.sent = FALSE, !.editing = TRUE, !.joining = FALSE] ELSE lobby
  /\ joins' = joins \ {j}
  /\ UNCHANGED <<seats, profile, resume, spent>>

Disconnected(r) == [r EXCEPT !.sent = FALSE]

\* The join, its reply or the snapshot is lost; the profile is saved when only
\* the snapshot is.
Fails(j) ==
  /\ Live(j)
  /\ \E stored \in {profile} \union
                  (IF j.outcome = "seated" THEN {[id |-> j.id, nick |-> s.nick] : s \in SeatsOf(j.id)} ELSE {}) :
       Settle([lobby EXCEPT !.connected = FALSE], Disconnected(resume), Cancelled(joins \ {j}),
              stored, spent.visits)
  /\ UNCHANGED seats

Forgotten(j) ==
  /\ ~Live(j) /\ joins' = joins \ {j}
  /\ UNCHANGED <<seats, profile, lobby, resume, spent>>

JoiningNext ==
  \/ \E n \in Nicks : SubmitProfile(n)
  \/ RetryNow \/ EditProfile \/ Revisit \/ StageTurns
  \/ \E j \in joins : ReachServer(j) \/ Seated(j) \/ Rejected(j) \/ Fails(j) \/ Forgotten(j)

JoiningSpec == JoiningInit /\ [][JoiningNext]_joiningVars
-----------------------------------------------------------------------------
(* Properties.                                                             *)

\* Whatever is lost, retried, reloaded or renamed, and although a request of
\* an earlier page may arrive late, a browser takes one seat.
OneSeat == \A s, t \in seats : (s.id # 0 /\ t.id # 0) => s = t
=============================================================================
