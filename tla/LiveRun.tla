------------------------------ MODULE LiveRun ------------------------------
(***************************************************************************)
(* What a live run promises its presenter and its audience, with no word   *)
(* of requests, locks, versions, deadlines or events: the session goes     *)
(* draft -> lobby -> presenting -> ended, an Activity goes accepting ->    *)
(* closed -> revealed before the run may move on, and a response counts    *)
(* only for the Activity on stage while it accepts, once per participant   *)
(* and Activity.  LiveSession is shown to implement this module.           *)
(***************************************************************************)
CONSTANTS
  Names,        \* display names a participant may hold
  Items,        \* items of the presentation
  Activities,   \* the items that accept responses, a subset of Items
  NoItem        \* "no active item" (active_item_id IS NULL), not one of Items

VARIABLES
  state,        \* draft, lobby, presenting or ended
  item,         \* the item on stage
  phase,        \* none, accepting, closed or revealed
  responses     \* pairs <<name, item>>: the responses that count

vars == <<state, item, phase, responses>>

States == {"draft", "lobby", "presenting", "ended"}
Phases == {"none", "accepting", "closed", "revealed"}

\* The state machine as the domain package declares it.
CanTransition(from, to) ==
  \/ from = "draft"      /\ to = "lobby"
  \/ from = "lobby"      /\ to \in {"presenting", "ended"}
  \/ from = "presenting" /\ to \in {"presenting", "ended"}

Enter(to, i, p) ==
  /\ CanTransition(state, to)
  /\ state' = to
  /\ item' = i
  /\ phase' = p
  /\ UNCHANGED responses

Init ==
  /\ state = "draft"
  /\ item = NoItem
  /\ phase = "none"
  /\ responses = {}

Start == Enter("lobby", NoItem, "none")

Present(i) ==
  /\ phase \in {"none", "revealed"}
  /\ Enter("presenting", i, IF i \in Activities THEN "accepting" ELSE "none")

Respond(n) ==
  /\ phase = "accepting"
  /\ <<n, item>> \notin responses
  /\ responses' = responses \cup {<<n, item>>}
  /\ UNCHANGED <<state, item, phase>>

Close  == phase = "accepting" /\ Enter("presenting", item, "closed")
Reveal == phase = "closed"    /\ Enter("presenting", item, "revealed")
End    == phase # "accepting" /\ Enter("ended", NoItem, "none")

Next ==
  \/ Start \/ Close \/ Reveal \/ End
  \/ \E i \in Items : Present(i)
  \/ \E n \in Names : Respond(n)

Spec == Init /\ [][Next]_vars
=============================================================================
