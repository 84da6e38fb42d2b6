---------------------------- MODULE AccountsProofs ----------------------------
(***************************************************************************)
(* Why a code is not compared with more than MaxAttempts wrong guesses:    *)
(* AttemptsBounded of Accounts, for any number of addresses and codes; and *)
(* why the verify screen calls a code expired only when it is:             *)
(* ExpiredMeansExpired.                                                    *)
(*                                                                         *)
(* The attempt is counted in a later step than the look at the counter.    *)
(* What makes it safe is the lock of the rows: an address is checked by    *)
(* one transaction at a time (OneCheck), so the counter cannot have grown  *)
(* since it was looked at (RoomForCheck).                                  *)
(***************************************************************************)
EXTENDS Accounts, TLAPS

IsCode(r) == r = [no |-> r.no, attempts |-> r.attempts, expires |-> r.expires, sent |-> r.sent]
AccountsTypeOK ==
  /\ codes = [row |-> codes.row, last |-> codes.last]
  /\ codes.row = [e \in Emails |-> codes.row[e]]
  /\ \A e \in Emails : IsCode(codes.row[e]) /\ codes.row[e].attempts \in Nat
  /\ checks = [c \in Clients |-> checks[c]]

OneCheck == \A c, d \in Clients : c # d /\ checks[c].email \in Emails => checks[d].email # checks[c].email
RoomForCheck ==
  \A c \in Clients : checks[c].email \in Emails => codes.row[checks[c].email].attempts < MaxAttempts
AttemptsInv == AccountsTypeOK /\ OneCheck /\ RoomForCheck /\ AttemptsBounded

LEMMA AttemptsInvInit == AccountsInit => AttemptsInv
<1> SUFFICES ASSUME AccountsInit  PROVE AttemptsInv
  OBVIOUS
<1>1. /\ codes = [row |-> [e \in Emails |-> NoCode], last |-> 0]
      /\ checks = [c \in Clients |-> NoCheck]
  BY DEF AccountsInit
<1>2. \A e \in Emails : IsCode(codes.row[e]) /\ codes.row[e].attempts = 0
  BY <1>1 DEF NoCode, IsCode
<1>3. \A c \in Clients : checks[c].email \notin Emails
  BY <1>1, AccountsAssumption DEF NoCheck
<1>4. AccountsTypeOK
  BY <1>1, <1>2 DEF AccountsTypeOK
<1> QED  BY <1>2, <1>3, <1>4, AccountsAssumption DEF AttemptsInv, OneCheck, RoomForCheck, AttemptsBounded

\* The look: the row is free, and the counter has room.
LEMMA BeginKeeps ==
  ASSUME AttemptsInv, NEW c \in Clients, NEW e, NEW guess, NEW outcome,
         BeginCheck(c, e, guess, outcome), codes' = codes
  PROVE  AttemptsInv'
<1>1. CASE checks' = checks
  BY <1>1 DEF AttemptsInv, AccountsTypeOK, OneCheck, RoomForCheck, AttemptsBounded
<1>2. CASE checks' # checks
  <2>1. /\ checks' = [checks EXCEPT ![c] = [email |-> e, guess |-> guess]]
        /\ \A d \in Clients : checks[d].email # e
        /\ Looked(e) = "compared"
    BY <1>2 DEF BeginCheck, RowFree
  <2>2. e \in Emails => codes.row[e].attempts < MaxAttempts
    BY <2>1, AccountsAssumption DEF Looked, AttemptsInv, AccountsTypeOK
  <2>3. /\ checks' = [d \in Clients |-> checks'[d]]
        /\ \A d \in Clients : checks'[d].email = IF d = c THEN e ELSE checks[d].email
    BY <2>1 DEF AttemptsInv, AccountsTypeOK
  <2>4. OneCheck' /\ RoomForCheck'
    BY <2>1, <2>2, <2>3 DEF AttemptsInv, OneCheck, RoomForCheck
  <2> QED  BY <2>3, <2>4 DEF AttemptsInv, AccountsTypeOK, AttemptsBounded
<1> QED  BY <1>1, <1>2

\* Codes that change, but by no more than the step of a check that has room, or
\* to a new code, keep their bound while nobody else checks the address.
LEMMA EndKeeps ==
  ASSUME AttemptsInv, NEW c \in Clients, NEW outcome, EndCheck(c, outcome)
  PROVE  AttemptsInv'
<1> DEFINE a == checks[c].email
<1>1. checks' = [d \in Clients |-> IF d = c THEN NoCheck ELSE checks[d]]
  BY DEF EndCheck, AttemptsInv, AccountsTypeOK
<1>2. /\ \A d \in Clients : checks'[d].email \in Emails => d # c /\ checks'[d] = checks[d]
      /\ checks' = [d \in Clients |-> checks'[d]]
  BY <1>1, AccountsAssumption DEF NoCheck
<1>3. OneCheck'
  BY <1>2 DEF AttemptsInv, OneCheck
<1>4. /\ codes' = [row |-> codes'.row, last |-> codes'.last]
      /\ codes'.row = [e \in Emails |-> codes'.row[e]]
      /\ \A e \in Emails :
           /\ IsCode(codes'.row[e])
           /\ codes'.row[e].attempts = codes.row[e].attempts
                \/ (e = a /\ codes'.row[e].attempts = codes.row[e].attempts + 1)
  <2>1. PICK r \in {[codes.row[a] EXCEPT !.attempts = @ + 1], [codes.row[a] EXCEPT !.no = 0]} :
          codes' = [codes EXCEPT !.row = [codes.row EXCEPT ![a] = r]]
    BY DEF EndCheck
  <2>2. codes' = [row |-> [e \in Emails |-> IF e = a THEN r ELSE codes.row[e]], last |-> codes.last]
    BY <2>1 DEF AttemptsInv, AccountsTypeOK
  <2>3. ASSUME a \in Emails
        PROVE  IsCode(r) /\ r.attempts \in {codes.row[a].attempts, codes.row[a].attempts + 1}
    BY <2>1, <2>3 DEF AttemptsInv, AccountsTypeOK, IsCode
  <2>4. \A e \in Emails : IsCode(codes.row[e])
    BY DEF AttemptsInv, AccountsTypeOK
  <2> HIDE DEF a
  <2> QED  BY <2>2, <2>3, <2>4
<1>5. AccountsTypeOK'
  BY <1>2, <1>4 DEF AttemptsInv, AccountsTypeOK
<1>6. AttemptsBounded'
  <2> SUFFICES ASSUME NEW e \in Emails  PROVE codes'.row[e].attempts <= MaxAttempts
    BY DEF AttemptsBounded
  <2>1. /\ codes.row[e].attempts \in Nat /\ codes.row[e].attempts <= MaxAttempts /\ MaxAttempts \in Nat
        /\ e = a => codes.row[e].attempts < MaxAttempts
    BY AccountsAssumption DEF AttemptsInv, AccountsTypeOK, AttemptsBounded, RoomForCheck
  <2> QED  BY <1>4, <2>1
<1>7. RoomForCheck'
  <2> SUFFICES ASSUME NEW d \in Clients, checks'[d].email \in Emails
               PROVE  codes'.row[checks'[d].email].attempts < MaxAttempts
    BY DEF RoomForCheck
  <2>1. d # c /\ checks'[d] = checks[d] /\ checks[d].email # a
    BY <1>2 DEF AttemptsInv, OneCheck
  <2> QED  BY <1>4, <2>1 DEF AttemptsInv, RoomForCheck
<1> QED  BY <1>3, <1>5, <1>6, <1>7 DEF AttemptsInv

LEMMA IssueKeeps ==
  ASSUME AttemptsInv, NEW e, codes' = Issued(e), checks' = checks
  PROVE  AttemptsInv'
<1>1. /\ codes' = [row |-> codes'.row, last |-> codes'.last]
      /\ codes'.row = [x \in Emails |-> codes'.row[x]]
      /\ \A x \in Emails : IsCode(codes'.row[x]) /\ codes'.row[x].attempts \in {0, codes.row[x].attempts}
  BY DEF Issued, AttemptsInv, AccountsTypeOK, IsCode
<1>2. 0 < MaxAttempts /\ MaxAttempts \in Nat
  BY AccountsAssumption
<1> QED  BY <1>1, <1>2 DEF AttemptsInv, AccountsTypeOK, OneCheck, RoomForCheck, AttemptsBounded

\* The steps of the system, by what they do to the codes and to those who check.
LEMMA StepKinds ==
  ASSUME [AccountsNext]_accountVars
  PROVE  \/ codes' = codes /\ checks' = checks
         \/ \E c \in Clients : \E e, guess, outcome : BeginCheck(c, e, guess, outcome) /\ codes' = codes
         \/ \E c \in Clients : \E outcome : EndCheck(c, outcome)
         \/ \E e : codes' = Issued(e) /\ checks' = checks
<1>1. CASE UNCHANGED accountVars
  BY <1>1 DEF accountVars
<1>2. CASE OtherClient
  BY <1>2 DEF OtherClient, Resend, Clients
<1>3. CASE OtherEnds
  BY <1>3 DEF OtherEnds, Clients
<1>4. CASE ServeRequest
  <2>1. CASE ServeLogin(requests.form)
    BY <2>1 DEF ServeLogin
  <2>2. CASE ServeSignup(requests.form)
    BY <2>2 DEF ServeSignup
  <2>3. CASE ServeVerify(requests.form)
    BY <2>3 DEF ServeVerify, Clients
  <2>4. CASE ServeResend(requests.resend)
    BY <2>4 DEF ServeResend, Resend
  <2> QED  BY <1>4, <2>1, <2>2, <2>3, <2>4 DEF ServeRequest
<1>5. CASE Tick \/ OpenPage \/ SwitchMode \/ HandleOutcome \/ LoseRequest \/ \E e \in Emails : TypeEmail(e)
  BY <1>5 DEF Tick, OpenPage, SwitchMode, HandleOutcome, LoseRequest, TypeEmail
<1>6. CASE SubmitForm \/ ResendVerification
  BY <1>6 DEF SubmitForm, ResendVerification, Place
<1> QED  BY <1>1, <1>2, <1>3, <1>4, <1>5, <1>6 DEF AccountsNext

LEMMA AttemptsInvStep == AttemptsInv /\ [AccountsNext]_accountVars => AttemptsInv'
<1> SUFFICES ASSUME AttemptsInv, [AccountsNext]_accountVars  PROVE AttemptsInv'
  OBVIOUS
<1>1. CASE codes' = codes /\ checks' = checks
  BY <1>1 DEF AttemptsInv, AccountsTypeOK, OneCheck, RoomForCheck, AttemptsBounded
<1> QED  BY <1>1, StepKinds, BeginKeeps, EndKeeps, IssueKeeps

\* AttemptsBounded: for any addresses, limits and numbers of codes, and however
\* many requests check, resend and sign in at once, a code meets at most
\* MaxAttempts wrong guesses (VerifyEmail and ReplaceEmailVerification).
THEOREM AttemptsStayBounded == AccountsSpec => []AttemptsBounded
<1>1. AttemptsInv => AttemptsBounded
  BY DEF AttemptsInv
<1> QED  BY <1>1, AttemptsInvInit, AttemptsInvStep, PTL DEF AccountsSpec
-----------------------------------------------------------------------------
(* What the page knows of the code it was told of.  The clocks agree, so a   *)
(* countdown started on a late reply outlives the server's; what has to be   *)
(* shown is that no countdown, and no reply, of another address or of an     *)
(* older code reaches the screen that shows this one.                        *)

Pending(q) == q.kind # "none"
IsRequest(q) ==
  q = NoRequest
    \/ /\ Pending(q)
       /\ q = [kind |-> q.kind, email |-> q.email, guess |-> q.guess, step |-> q.step,
               outcome |-> q.outcome, no |-> q.no]
       /\ q.email \in Emails /\ q.no \in 0..codes.last
Deadlines ==
  /\ clock \in Nat /\ codes.last \in Nat
  /\ \A e \in Emails : codes.row[e].no \in 0..codes.last /\ codes.row[e].expires \in 0..clock + Ttl
PageTypeOK ==
  /\ signIn = [mode |-> signIn.mode, email |-> signIn.email, otp |-> signIn.otp,
               resend |-> signIn.resend, told |-> signIn.told]
  /\ signIn.mode \in {"login", "signup", "verify", "in"}
  /\ signIn.email \in Emails /\ signIn.otp \in Nat
  /\ signIn.told = [email |-> signIn.told.email, no |-> signIn.told.no] /\ signIn.told.no \in 0..codes.last
  /\ requests = [form |-> requests.form, resend |-> requests.resend]
  /\ IsRequest(requests.form) /\ IsRequest(requests.resend)

OneRequest == ~Pending(requests.form) \/ ~Pending(requests.resend)
Current(e) == signIn.told.no # 0 /\ signIn.told.email = e /\ signIn.told.no = codes.row[e].no
ScreenIsRight ==
  signIn.mode = "verify" /\ Current(signIn.email) =>
    codes.row[signIn.email].expires <= clock \/ codes.row[signIn.email].expires <= signIn.otp
ExpiredReply(q) == Pending(q) /\ q.outcome = "expired" /\ Current(q.email) => codes.row[q.email].expires <= clock
ReplyIsRight == ExpiredReply(requests.form)
ForThisField(q) == Pending(q) /\ q.email # signIn.email => signIn.told.email # signIn.email
RepliesForField == ForThisField(requests.form) /\ ForThisField(requests.resend)
PageInv ==
  AttemptsInv /\ Deadlines /\ PageTypeOK /\ OneRequest /\ ScreenIsRight /\ ReplyIsRight /\ RepliesForField

LEMMA PageInvInit == AccountsInit => PageInv
<1> SUFFICES ASSUME AccountsInit  PROVE PageInv
  OBVIOUS
<1>1. /\ clock = 1 /\ codes = [row |-> [e \in Emails |-> NoCode], last |-> 0]
      /\ signIn = FreshForm(CHOOSE e \in Emails : TRUE)
      /\ requests = [form |-> NoRequest, resend |-> NoRequest]
  BY DEF AccountsInit
<1>2. Ttl \in Nat /\ (CHOOSE e \in Emails : TRUE) \in Emails
  BY AccountsAssumption
<1>3. Deadlines
  BY <1>1, <1>2 DEF Deadlines, NoCode
<1>4. PageTypeOK
  BY <1>1, <1>2 DEF PageTypeOK, FreshForm, IsRequest
<1>5. ~Pending(requests.form) /\ ~Pending(requests.resend) /\ signIn.mode = "login"
  BY <1>1 DEF Pending, NoRequest, FreshForm
<1> QED
  BY <1>3, <1>4, <1>5, AttemptsInvInit
  DEF PageInv, OneRequest, ScreenIsRight, ReplyIsRight, RepliesForField, ExpiredReply, ForThisField

\* What becomes of the code of an address: it stays, it is used up, or a newer
\* one takes its place.
CodeMoves ==
  /\ clock' \in Nat /\ clock <= clock' /\ codes.last <= codes'.last
  /\ \A e \in Emails :
       codes'.row[e].no \in {0, codes.last + 1}
         \/ (codes'.row[e].no = codes.row[e].no /\ codes'.row[e].expires = codes.row[e].expires)

LEMMA ClockMoves == ASSUME [AccountsNext]_accountVars  PROVE clock' = clock \/ Tick
<1>1. CASE UNCHANGED accountVars
  BY <1>1 DEF accountVars
<1>2. CASE SubmitForm \/ ResendVerification
  BY <1>2 DEF SubmitForm, ResendVerification, Place
<1>3. CASE \/ OtherClient \/ OtherEnds \/ OpenPage \/ SwitchMode \/ ServeRequest \/ HandleOutcome
           \/ LoseRequest \/ \E e \in Emails : TypeEmail(e)
  BY <1>3 DEF OtherClient, OtherEnds, OpenPage, SwitchMode, ServeRequest, HandleOutcome, LoseRequest, TypeEmail
<1> QED  BY <1>1, <1>2, <1>3 DEF AccountsNext

LEMMA CodesMove == ASSUME PageInv, [AccountsNext]_accountVars  PROVE Deadlines' /\ CodeMoves
<1>1. /\ clock \in Nat /\ codes.last \in Nat /\ Ttl \in Nat
      /\ \A e \in Emails : codes.row[e].no \in 0..codes.last /\ codes.row[e].expires \in 0..clock + Ttl
      /\ codes = [row |-> codes.row, last |-> codes.last]
      /\ codes.row = [e \in Emails |-> codes.row[e]]
      /\ \A e \in Emails : codes.row[e] = [no |-> codes.row[e].no, attempts |-> codes.row[e].attempts,
                                          expires |-> codes.row[e].expires, sent |-> codes.row[e].sent]
  BY AccountsAssumption DEF PageInv, Deadlines, AttemptsInv, AccountsTypeOK, IsCode
<1>2. clock' \in Nat /\ clock <= clock'
  BY <1>1, ClockMoves DEF Tick
<1> DEFINE Kept(e) == codes'.row[e].expires = codes.row[e].expires /\ codes'.row[e].no \in {0, codes.row[e].no}
           New(e) == codes'.row[e].expires = clock + Ttl /\ codes'.row[e].no = codes'.last
<1>3. \/ codes'.last = codes.last /\ \A e \in Emails : Kept(e)
      \/ codes'.last = codes.last + 1 /\ \A e \in Emails : Kept(e) \/ New(e)
  <2>1. CASE codes' = codes
    BY <2>1
  <2>2. ASSUME NEW c \in Clients, NEW outcome, EndCheck(c, outcome)
        PROVE  codes'.last = codes.last /\ \A e \in Emails : Kept(e)
    <3> DEFINE a == checks[c].email
    <3>1. PICK r \in {[codes.row[a] EXCEPT !.attempts = @ + 1], [codes.row[a] EXCEPT !.no = 0]} :
            codes' = [codes EXCEPT !.row = [codes.row EXCEPT ![a] = r]]
      BY <2>2 DEF EndCheck
    <3>2. codes' = [row |-> [e \in Emails |-> IF e = a THEN r ELSE codes.row[e]], last |-> codes.last]
      BY <1>1, <3>1
    <3>3. a \in Emails => r.expires = codes.row[a].expires /\ r.no \in {0, codes.row[a].no}
      BY <1>1, <3>1
    <3> HIDE DEF a
    <3> QED  BY <3>2, <3>3
  <2>3. ASSUME NEW e, codes' = Issued(e)
        PROVE  codes'.last = codes.last + 1 /\ \A x \in Emails : Kept(x) \/ New(x)
    <3>1. codes' = [row |-> [x \in Emails |->
                              IF x = e THEN [no |-> codes.last + 1, attempts |-> 0,
                                             expires |-> clock + Ttl, sent |-> clock]
                              ELSE codes.row[x]],
                    last |-> codes.last + 1]
      BY <1>1, <2>3 DEF Issued
    <3> QED  BY <3>1
  <2> QED  BY <2>1, <2>2, <2>3, StepKinds
<1>4. \A e \in Emails : codes'.row[e].no \in 0..codes'.last /\ codes'.row[e].expires \in 0..clock + Ttl
  BY <1>1, <1>3
<1>5. Deadlines'
  BY <1>1, <1>2, <1>3, <1>4 DEF Deadlines
<1> QED  BY <1>1, <1>2, <1>3, <1>5 DEF CodeMoves

\* A code the page was told of is current only if it was current before: an
\* issued code is newer than all the page can have been told of.
LEMMA CurrentStays ==
  ASSUME PageInv, CodeMoves, NEW e \in Emails, signIn'.told = signIn.told, Current(e)'
  PROVE  Current(e) /\ codes'.row[e].expires = codes.row[e].expires
<1>1. signIn.told.no \in 0..codes.last /\ codes.last \in Nat
  BY DEF PageInv, PageTypeOK, Deadlines
<1>2. signIn.told.no # 0 /\ signIn.told.email = e /\ signIn.told.no = codes'.row[e].no
  BY DEF Current
<1>3. codes'.row[e].no # codes.last + 1
  BY <1>1, <1>2
<1> QED  BY <1>2, <1>3 DEF CodeMoves, Current

\* The page stands still, while the codes and the clock may move.
LEMMA StillKeeps ==
  ASSUME PageInv, Deadlines', CodeMoves, signIn' = signIn
  PROVE  /\ ScreenIsRight'
         /\ \A q : IsRequest(q) => IsRequest(q)'
         /\ \A q : ExpiredReply(q) /\ IsRequest(q) => ExpiredReply(q)'
<1>1. /\ clock \in Nat /\ clock' \in Nat /\ clock <= clock'
      /\ codes.last \in Nat /\ codes'.last \in Nat /\ codes.last <= codes'.last
      /\ \A e \in Emails : codes.row[e].expires \in Nat
      /\ signIn.email \in Emails
  BY AccountsAssumption DEF PageInv, Deadlines, CodeMoves, PageTypeOK
<1>2. ASSUME signIn.mode = "verify", Current(signIn.email)'
      PROVE  \/ codes'.row[signIn.email].expires <= clock'
             \/ codes'.row[signIn.email].expires <= signIn.otp
  <2>1. Current(signIn.email) /\ codes'.row[signIn.email].expires = codes.row[signIn.email].expires
    BY <1>1, <1>2, CurrentStays
  <2> QED  BY <1>1, <1>2, <2>1 DEF PageInv, ScreenIsRight
<1>3. ScreenIsRight'
  BY <1>2 DEF ScreenIsRight, Current
<1>4. \A q : IsRequest(q) => IsRequest(q)'
  BY <1>1 DEF IsRequest, Pending
<1>5. ASSUME NEW q, ExpiredReply(q), IsRequest(q), Pending(q), q.outcome = "expired", Current(q.email)'
      PROVE  codes'.row[q.email].expires <= clock'
  <2>1. q.email \in Emails
    BY <1>5 DEF IsRequest, Pending, NoRequest
  <2>2. Current(q.email) /\ codes'.row[q.email].expires = codes.row[q.email].expires
    BY <1>5, <2>1, CurrentStays
  <2> QED  BY <1>1, <1>5, <2>1, <2>2 DEF ExpiredReply
<1>6. \A q : ExpiredReply(q) /\ IsRequest(q) => ExpiredReply(q)'
  BY <1>5 DEF ExpiredReply, Pending
<1> QED  BY <1>3, <1>4, <1>6

\* While the page stands still, what is left to show is about its requests.
LEMMA StillPage ==
  ASSUME PageInv, AttemptsInv', Deadlines', CodeMoves, signIn' = signIn,
         requests' = [form |-> requests'.form, resend |-> requests'.resend],
         IsRequest(requests.form)', IsRequest(requests.resend)',
         OneRequest', ReplyIsRight', RepliesForField'
  PROVE  PageInv'
<1>1. PageTypeOK'
  <2>1. /\ codes.last \in Nat /\ codes'.last \in Nat /\ codes.last <= codes'.last
        /\ signIn.told.no \in 0..codes.last
    BY DEF PageInv, PageTypeOK, Deadlines, CodeMoves
  <2> QED  BY <2>1 DEF PageInv, PageTypeOK
<1> QED  BY <1>1, StillKeeps DEF PageInv

\* Steps of others and lost requests: each request of the page stays or is gone.
LEMMA DroppedKeeps ==
  ASSUME PageInv, AttemptsInv', Deadlines', CodeMoves, signIn' = signIn,
         NEW f \in {requests.form, NoRequest}, NEW r \in {requests.resend, NoRequest},
         requests' = [form |-> f, resend |-> r]
  PROVE  PageInv'
<1>1. requests'.form = f /\ requests'.resend = r /\ ~Pending(NoRequest)
  BY DEF Pending, NoRequest
<1>2. IsRequest(requests.form)' /\ IsRequest(requests.resend)'
  <2>1. IsRequest(f) /\ IsRequest(r)
    BY DEF PageInv, PageTypeOK, IsRequest
  <2>2. IsRequest(f)' /\ IsRequest(r)'
    BY <2>1, StillKeeps
  <2> QED  BY <1>1, <2>2 DEF IsRequest, Pending
<1>3. OneRequest'
  BY <1>1 DEF PageInv, OneRequest, Pending
<1>4. ReplyIsRight'
  <2>1. CASE f = NoRequest
    BY <1>1, <2>1 DEF ReplyIsRight, ExpiredReply, Pending
  <2>2. CASE f = requests.form
    <3>1. ExpiredReply(f)'
      BY <2>2, StillKeeps DEF PageInv, PageTypeOK, ReplyIsRight, ExpiredReply, Pending
    <3> QED  BY <1>1, <3>1 DEF ReplyIsRight, ExpiredReply, Pending, Current
  <2> QED  BY <2>1, <2>2
<1>5. RepliesForField'
  BY <1>1 DEF PageInv, RepliesForField, ForThisField, Pending
<1> QED  BY <1>1, <1>2, <1>3, <1>4, <1>5, StillPage

LEMMA QuietKeeps ==
  ASSUME PageInv, AttemptsInv', Deadlines', CodeMoves,
         UNCHANGED accountVars \/ Tick \/ OtherClient \/ OtherEnds \/ LoseRequest
  PROVE  PageInv'
<1>1. requests = [form |-> requests.form, resend |-> requests.resend] /\ signIn' = signIn
  BY DEF PageInv, PageTypeOK, accountVars, Tick, OtherClient, OtherEnds, LoseRequest
<1>2. CASE requests' = requests
  BY <1>1, <1>2, DroppedKeeps
<1>3. CASE LoseRequest
  <2>1. \/ requests' = [requests EXCEPT !["form"] = NoRequest]
        \/ requests' = [requests EXCEPT !["resend"] = NoRequest]
    BY <1>3 DEF LoseRequest
  <2>2. \/ requests' = [form |-> NoRequest, resend |-> requests.resend]
        \/ requests' = [form |-> requests.form, resend |-> NoRequest]
    BY <1>1, <2>1
  <2> QED  BY <1>1, <2>2, DroppedKeeps
<1> QED  BY <1>2, <1>3 DEF accountVars, Tick, OtherClient, OtherEnds

\* A request carries the address in the field, and waits for the other kind.
LEMMA PlaceKeeps ==
  ASSUME PageInv, AttemptsInv', Deadlines', CodeMoves, SubmitForm \/ ResendVerification
  PROVE  PageInv'
<1>1. PICK kind \in {"login", "signup", "verify", "resend"} : \E guess :
        \/ requests.resend = NoRequest /\ Place("form", kind, guess)
        \/ requests.form = NoRequest /\ Place("resend", kind, guess)
  <2>1. CASE SubmitForm
    <3>1. signIn.mode \in {"login", "signup", "verify"}
      BY <2>1 DEF PageInv, PageTypeOK, SubmitForm
    <3>2. \E guess : Place("form", signIn.mode, guess) /\ requests.resend = NoRequest
      BY <2>1 DEF SubmitForm
    <3> QED  BY <3>1, <3>2
  <2>2. CASE ResendVerification
    BY <2>2 DEF ResendVerification
  <2> QED  BY <2>1, <2>2
<1>2. PICK guess :
        \/ requests.resend = NoRequest /\ Place("form", kind, guess)
        \/ requests.form = NoRequest /\ Place("resend", kind, guess)
  BY <1>1
<1> DEFINE q == [kind |-> kind, email |-> signIn.email, guess |-> guess, step |-> "sent",
                 outcome |-> "none", no |-> 0]
<1>3. /\ signIn' = signIn /\ signIn.email \in Emails
      /\ requests = [form |-> requests.form, resend |-> requests.resend]
      /\ \/ requests' = [form |-> q, resend |-> NoRequest]
         \/ requests' = [form |-> NoRequest, resend |-> q]
  <2>1. requests = [form |-> requests.form, resend |-> requests.resend] /\ signIn.email \in Emails
    BY DEF PageInv, PageTypeOK
  <2>2. CASE requests.resend = NoRequest /\ Place("form", kind, guess)
    <3>1. requests' = [requests EXCEPT !["form"] = q] /\ signIn' = signIn
      BY <2>2 DEF Place
    <3> QED  BY <2>1, <2>2, <3>1
  <2>3. CASE requests.form = NoRequest /\ Place("resend", kind, guess)
    <3>1. requests' = [requests EXCEPT !["resend"] = q] /\ signIn' = signIn
      BY <2>3 DEF Place
    <3> QED  BY <2>1, <2>3, <3>1
  <2> QED  BY <1>2, <2>1, <2>2, <2>3
<1>4. IsRequest(q)' /\ IsRequest(NoRequest)' /\ ~Pending(NoRequest)
  <2>1. codes'.last \in Nat
    BY DEF Deadlines
  <2> QED  BY <1>3, <2>1 DEF IsRequest, Pending, NoRequest
<1>5. IsRequest(requests.form)' /\ IsRequest(requests.resend)'
  BY <1>3, <1>4 DEF IsRequest, Pending
<1>6. OneRequest' /\ ReplyIsRight' /\ RepliesForField'
  <2>1. q.outcome # "expired" /\ q.email = signIn.email
    OBVIOUS
  <2> HIDE DEF q
  <2> QED
    BY <1>3, <1>4, <2>1
    DEF OneRequest, ReplyIsRight, ExpiredReply, RepliesForField, ForThisField, Pending
<1>7. requests' = [form |-> requests'.form, resend |-> requests'.resend]
  BY <1>3
<1> HIDE DEF q
<1> QED  BY <1>3, <1>5, <1>6, <1>7, StillPage

\* What the server does to the page's requests: one moves on, and only a code
\* that has run out is called expired.
LEMMA ServerAnswers ==
  ASSUME PageInv, Deadlines', ServeRequest
  PROVE  /\ signIn' = signIn
         /\ \/ requests' = requests
            \/ Pending(requests.form) /\ requests' = [requests EXCEPT !.form.step = "created"]
            \/ \E outcome, no :
                 /\ no \in 0..codes'.last
                 /\ \/ /\ Pending(requests.form) /\ Concluded("form", outcome, no)
                       /\ outcome = "expired" =>
                            codes' = codes /\ clock' = clock /\ codes.row[requests.form.email].expires <= clock
                    \/ Pending(requests.resend) /\ Concluded("resend", outcome, no)
<1>1. signIn' = signIn /\ clock' = clock
  BY DEF ServeRequest
<1>2. codes'.last \in Nat /\ 0 \in 0..codes'.last
  BY DEF Deadlines
<1>3. CASE Pending(requests.form) /\ ServeLogin(requests.form)
  <2>1. PICK outcome \in {"refused", "in", "inactive"} : Concluded("form", outcome, 0)
    BY <1>3 DEF ServeLogin
  <2> QED  BY <1>1, <1>2, <1>3, <2>1
<1>4. CASE Pending(requests.form) /\ ServeSignup(requests.form)
  <2>1. CASE Concluded("form", "taken", 0)
    BY <1>1, <1>2, <1>4, <2>1
  <2>2. CASE requests' = [requests EXCEPT !.form.step = "created"]
    BY <1>1, <1>4, <2>2
  <2>3. ASSUME NEW outcome \in {"sent", "unavailable"}, Concluded("form", outcome, codes'.last)
        PROVE  \E no : no \in 0..codes'.last /\ Pending(requests.form) /\ Concluded("form", outcome, no)
    BY <1>2, <1>4, <2>3
  <2> QED  BY <1>1, <1>4, <2>1, <2>2, <2>3 DEF ServeSignup
<1>5. CASE Pending(requests.form) /\ ServeVerify(requests.form)
  <2> DEFINE q == requests.form
  <2>1. ASSUME NEW outcome, BeginCheck("page", q.email, q.guess, outcome),
               IF outcome = "compared" THEN UNCHANGED requests ELSE Concluded("form", outcome, 0),
               UNCHANGED codes
        PROVE  \/ requests' = requests
               \/ /\ Concluded("form", outcome, 0)
                  /\ outcome = "expired" => codes' = codes /\ codes.row[q.email].expires <= clock
    BY <2>1 DEF BeginCheck, Looked
  <2>2. ASSUME NEW outcome \in {"invalid", "in"}, Concluded("form", outcome, 0)
        PROVE  \E o : o # "expired" /\ Concluded("form", o, 0)
    BY <2>2
  <2>3. \/ requests' = requests
        \/ \E outcome : /\ Concluded("form", outcome, 0)
                        /\ outcome = "expired" => codes' = codes /\ codes.row[q.email].expires <= clock
    BY <1>5, <2>1, <2>2 DEF ServeVerify
  <2> QED  BY <1>1, <1>2, <1>5, <2>3
<1>6. CASE Pending(requests.resend) /\ ServeResend(requests.resend)
  <2>1. requests.resend.email \in Emails
    BY <1>6 DEF PageInv, PageTypeOK, IsRequest, Pending, NoRequest
  <2>2. codes'.row[requests.resend.email].no \in 0..codes'.last
    BY <2>1 DEF Deadlines
  <2>3. PICK outcome : Concluded("resend", outcome, codes'.row[requests.resend.email].no)
    BY <1>6 DEF ServeResend
  <2> QED  BY <1>1, <1>6, <2>2, <2>3
<1>7. \/ Pending(requests.form) /\ (ServeLogin(requests.form) \/ ServeSignup(requests.form) \/ ServeVerify(requests.form))
      \/ Pending(requests.resend) /\ ServeResend(requests.resend)
  BY DEF ServeRequest, Pending
<1> QED  BY <1>3, <1>4, <1>5, <1>6, <1>7

LEMMA ServeKeeps ==
  ASSUME PageInv, AttemptsInv', Deadlines', CodeMoves, ServeRequest
  PROVE  PageInv'
<1>1. /\ requests = [form |-> requests.form, resend |-> requests.resend]
      /\ IsRequest(requests.form) /\ IsRequest(requests.resend)
      /\ signIn' = signIn
  BY DEF PageInv, PageTypeOK, ServeRequest
<1>0. PICK f, r : f = requests.form /\ r = requests.resend
  OBVIOUS
<1> DEFINE Moved(x, step, outcome, no) == [x EXCEPT !.step = step, !.outcome = outcome, !.no = no]
<1>a. ASSUME NEW q, IsRequest(q), Pending(q)
      PROVE  /\ q = [kind |-> q.kind, email |-> q.email, guess |-> q.guess, step |-> q.step,
                     outcome |-> q.outcome, no |-> q.no]
             /\ q.email \in Emails /\ q.no \in 0..codes.last
  BY <1>a DEF IsRequest, Pending, NoRequest
<1>b. ASSUME NEW q, IsRequest(q), Pending(q), NEW step, NEW outcome, NEW no
      PROVE  Moved(q, step, outcome, no) = [kind |-> q.kind, email |-> q.email, guess |-> q.guess,
                                            step |-> step, outcome |-> outcome, no |-> no]
  <2>1. q = [kind |-> q.kind, email |-> q.email, guess |-> q.guess, step |-> q.step,
             outcome |-> q.outcome, no |-> q.no]
    BY <1>a, <1>b
  <2>2. PICK a : a = [q EXCEPT !.step = step]
    OBVIOUS
  <2>3. PICK b : b = [a EXCEPT !.outcome = outcome]
    OBVIOUS
  <2>4. a = [kind |-> q.kind, email |-> q.email, guess |-> q.guess, step |-> step,
             outcome |-> q.outcome, no |-> q.no]
    BY <2>1, <2>2
  <2>5. b = [kind |-> q.kind, email |-> q.email, guess |-> q.guess, step |-> step,
             outcome |-> outcome, no |-> q.no]
    BY <2>3, <2>4
  <2>6. [b EXCEPT !.no = no]
          = [kind |-> q.kind, email |-> q.email, guess |-> q.guess, step |-> step,
             outcome |-> outcome, no |-> no]
    BY <2>5
  <2> QED  BY <2>2, <2>3, <2>6
<1>2. CASE requests' = requests
  BY <1>0, <1>1, <1>2, DroppedKeeps
<1>3. ASSUME NEW step, NEW outcome, NEW no \in 0..codes'.last, Pending(f),
             requests' = [form |-> Moved(f, step, outcome, no), resend |-> r],
             outcome = "expired" =>
               \/ f.outcome = "expired"
               \/ codes' = codes /\ clock' = clock /\ codes.row[f.email].expires <= clock
      PROVE  PageInv'
  <2>1. /\ requests'.form = Moved(f, step, outcome, no) /\ requests'.resend = r
        /\ Moved(f, step, outcome, no) = [kind |-> f.kind, email |-> f.email, guess |-> f.guess,
                                          step |-> step, outcome |-> outcome, no |-> no]
        /\ f.email \in Emails
    <3> HIDE DEF Moved
    <3> QED  BY <1>0, <1>1, <1>3, <1>a, <1>b
  <2>2. IsRequest(requests.form)' /\ IsRequest(requests.resend)'
    <3>1. IsRequest(r)'
      BY <1>0, <1>1, StillKeeps
    <3>2. Pending(f)
      BY <1>3
    <3> QED  BY <1>0, <2>1, <3>1, <3>2 DEF IsRequest, Pending
  <2>3. OneRequest' /\ RepliesForField'
    BY <1>0, <1>1, <1>3, <2>1 DEF PageInv, OneRequest, RepliesForField, ForThisField, Pending
  <2>4. ReplyIsRight'
    <3> SUFFICES ASSUME outcome = "expired", Current(f.email)'  PROVE codes'.row[f.email].expires <= clock'
      BY <1>0, <2>1 DEF ReplyIsRight, ExpiredReply, Pending, Current
    <3>1. CASE f.outcome = "expired"
      <4>1. ExpiredReply(f)'
        BY <1>0, <1>1, StillKeeps DEF PageInv, ReplyIsRight
      <4> QED  BY <1>3, <3>1, <4>1 DEF ExpiredReply, Pending, Current
    <3> QED  BY <1>0, <1>3, <3>1
  <2>5. requests' = [form |-> requests'.form, resend |-> requests'.resend]
    BY <1>3, <2>1
  <2> QED  BY <1>0, <1>1, <2>2, <2>3, <2>4, <2>5, StillPage
<1>4. ASSUME NEW outcome, NEW no \in 0..codes'.last, Pending(r),
             requests' = [form |-> f, resend |-> Moved(r, "answered", outcome, no)]
      PROVE  PageInv'
  <2>1. /\ requests'.resend = Moved(r, "answered", outcome, no) /\ requests'.form = f
        /\ Moved(r, "answered", outcome, no) = [kind |-> r.kind, email |-> r.email, guess |-> r.guess,
                                                step |-> "answered", outcome |-> outcome, no |-> no]
        /\ r.email \in Emails
    <3> HIDE DEF Moved
    <3> QED  BY <1>0, <1>1, <1>4, <1>a, <1>b
  <2>2. IsRequest(requests.form)' /\ IsRequest(requests.resend)'
    <3>1. IsRequest(f)'
      BY <1>0, <1>1, StillKeeps
    <3>2. Pending(r)
      BY <1>4
    <3> QED  BY <1>0, <2>1, <3>1, <3>2 DEF IsRequest, Pending
  <2>3. OneRequest' /\ RepliesForField'
    BY <1>0, <1>1, <1>4, <2>1 DEF PageInv, OneRequest, RepliesForField, ForThisField, Pending
  <2>4. ReplyIsRight'
    BY <1>0, <1>4, <2>1 DEF PageInv, OneRequest, ReplyIsRight, ExpiredReply, Pending
  <2>5. requests' = [form |-> requests'.form, resend |-> requests'.resend]
    BY <1>4, <2>1
  <2> QED  BY <1>0, <1>1, <2>2, <2>3, <2>4, <2>5, StillPage
<1>5. ASSUME Pending(f), requests' = [requests EXCEPT !.form.step = "created"]
      PROVE  PageInv'
  <2>1. f = [kind |-> f.kind, email |-> f.email, guess |-> f.guess, step |-> f.step,
             outcome |-> f.outcome, no |-> f.no] /\ f.no \in 0..codes'.last
    <3>1. IsRequest(f)'
      BY <1>0, <1>1, StillKeeps
    <3> QED  BY <1>0, <1>1, <1>5, <3>1 DEF IsRequest, Pending, NoRequest
  <2>2. requests' = [form |-> Moved(f, "created", f.outcome, f.no), resend |-> r]
    <3>1. requests' = [form |-> [f EXCEPT !.step = "created"], resend |-> r]
      BY <1>0, <1>1, <1>5
    <3>2. [f EXCEPT !.step = "created"] = Moved(f, "created", f.outcome, f.no)
      BY <1>0, <2>1
    <3> QED  BY <3>1, <3>2
  <2>3. PICK o, n : o = f.outcome /\ n = f.no
    OBVIOUS
  <2>4. /\ n \in 0..codes'.last
        /\ o = "expired" => f.outcome = "expired"
        /\ requests' = [form |-> Moved(f, "created", o, n), resend |-> r]
    BY <2>1, <2>2, <2>3
  <2> HIDE DEF Moved
  <2> QED  BY <1>3, <1>5, <2>4
<1>6. ASSUME NEW outcome, NEW no \in 0..codes'.last,
             \/ /\ Pending(f) /\ Concluded("form", outcome, no)
                /\ outcome = "expired" =>
                     codes' = codes /\ clock' = clock /\ codes.row[f.email].expires <= clock
             \/ Pending(r) /\ Concluded("resend", outcome, no)
      PROVE  PageInv'
  <2>1. CASE /\ Concluded("form", outcome, no) /\ Pending(f)
             /\ outcome = "expired" =>
                  codes' = codes /\ clock' = clock /\ codes.row[f.email].expires <= clock
    <3>1. requests' = [form |-> Moved(f, "answered", outcome, no), resend |-> r]
      BY <1>0, <1>1, <2>1 DEF Concluded
    <3> HIDE DEF Moved
    <3> QED  BY <1>3, <2>1, <3>1
  <2>2. CASE Concluded("resend", outcome, no) /\ Pending(r)
    <3>1. requests' = [form |-> f, resend |-> Moved(r, "answered", outcome, no)]
      BY <1>0, <1>1, <2>2 DEF Concluded
    <3> QED  BY <1>4, <2>2, <3>1
  <2> QED  BY <1>6, <2>1, <2>2
<1> QED  BY <1>0, <1>2, <1>5, <1>6, ServerAnswers

\* Opening the page, and leaving the verify mode, end what the screen shows; a
\* new address in the field is one the page was told of no code for.
LEMMA NavigateKeeps ==
  ASSUME PageInv, AttemptsInv', OpenPage \/ SwitchMode \/ \E e \in Emails : TypeEmail(e)
  PROVE  PageInv'
<1> DEFINE s == signIn
           Form(mode, email, otp, resend, told) ==
             [mode |-> mode, email |-> email, otp |-> otp, resend |-> resend, told |-> told]
           nobody == [email |-> "none", no |-> 0]
<1>1. /\ s = Form(s.mode, s.email, s.otp, s.resend, s.told)
      /\ s.email \in Emails /\ s.otp \in Nat /\ s.mode \in {"login", "signup", "verify", "in"}
      /\ s.told = [email |-> s.told.email, no |-> s.told.no] /\ s.told.no \in 0..codes.last
      /\ requests = [form |-> requests.form, resend |-> requests.resend]
      /\ IsRequest(requests.form) /\ IsRequest(requests.resend)
      /\ clock \in Nat /\ codes.last \in Nat
  BY DEF PageInv, PageTypeOK, Deadlines
<1>2. clock' = clock /\ codes' = codes
  BY DEF OpenPage, SwitchMode, TypeEmail
<1>3. ASSUME NEW q  PROVE IsRequest(q)' <=> IsRequest(q)
  BY <1>2 DEF IsRequest
<1>4. Deadlines'
  BY <1>2 DEF PageInv, Deadlines
<1>5. CASE OpenPage
  <2>1. /\ signIn' = Form("login", signIn.email, 0, 0, nobody)
        /\ requests' = [form |-> NoRequest, resend |-> NoRequest]
    BY <1>5 DEF OpenPage, FreshForm
  <2>2. ~Pending(NoRequest) /\ IsRequest(NoRequest)'
    BY DEF Pending, NoRequest, IsRequest
  <2>3. PageTypeOK'
    BY <1>1, <1>2, <2>1, <2>2 DEF PageTypeOK, IsRequest
  <2> QED
    BY <1>4, <2>1, <2>2, <2>3
    DEF PageInv, OneRequest, ScreenIsRight, ReplyIsRight, ExpiredReply, RepliesForField, ForThisField, Pending
<1>6. CASE SwitchMode
  <2>1. PICK mode \in {"login", "signup"} : signIn' = Form(mode, signIn.email, 0, 0, signIn.told)
    <3>1. PICK mode \in {"login", "signup"} : signIn' = [[s EXCEPT !.otp = 0, !.resend = 0] EXCEPT !.mode = mode]
      BY <1>6 DEF SwitchMode, Reset
    <3>2. PICK a, b : a = [s EXCEPT !.otp = 0] /\ b = [a EXCEPT !.resend = 0]
      OBVIOUS
    <3>3. a = Form(s.mode, s.email, 0, s.resend, s.told)
      BY <1>1, <3>2
    <3>4. b = Form(s.mode, s.email, 0, 0, s.told)
      BY <3>2, <3>3
    <3> QED  BY <3>1, <3>2, <3>4
  <2>2. requests' = requests
    BY <1>6 DEF SwitchMode
  <2>3. PageTypeOK'
    BY <1>1, <1>2, <2>1, <2>2 DEF PageTypeOK, IsRequest
  <2> QED
    BY <1>2, <1>4, <2>1, <2>2, <2>3
    DEF PageInv, OneRequest, ScreenIsRight, ReplyIsRight, ExpiredReply, RepliesForField, ForThisField,
        Pending, Current
<1>7. ASSUME NEW e \in Emails, TypeEmail(e)  PROVE PageInv'
  <2>1. signIn' = Form(s.mode, e, s.otp, s.resend, nobody)
    BY <1>1, <1>7 DEF TypeEmail
  <2>2. requests' = requests /\ signIn.mode \in {"login", "signup"} /\ e # "none"
    BY <1>7, AccountsAssumption DEF TypeEmail
  <2>3. PageTypeOK'
    BY <1>1, <1>2, <2>1, <2>2 DEF PageTypeOK, IsRequest
  <2>4. ~Current(e)' /\ ~Current(requests.form.email)' /\ signIn'.told.email # signIn'.email
    BY <2>1, <2>2 DEF Current
  <2> QED
    BY <1>2, <1>4, <2>1, <2>2, <2>3, <2>4
    DEF PageInv, OneRequest, ScreenIsRight, ReplyIsRight, ExpiredReply, RepliesForField, ForThisField,
        Pending, Current
<1> QED  BY <1>5, <1>6, <1>7

StoredOK == stored = [otp |-> stored.otp, resend |-> stored.resend]

\* What is left to show of a handled reply: the request is gone, and with it,
\* since there is one at a time, every request.
LEMMA HandledKeeps ==
  ASSUME PageInv, AttemptsInv', UNCHANGED <<clock, codes>>,
         requests' = [form |-> NoRequest, resend |-> NoRequest],
         NEW mode \in {"login", "signup", "verify", "in"}, NEW otp \in Nat, NEW resend,
         NEW told, told = [email |-> told.email, no |-> told.no], told.no \in 0..codes.last,
         signIn' = [mode |-> mode, email |-> signIn.email, otp |-> otp, resend |-> resend, told |-> told],
         ScreenIsRight'
  PROVE  PageInv'
<1>1. ~Pending(requests'.form) /\ ~Pending(requests'.resend) /\ IsRequest(NoRequest)'
  BY DEF Pending, NoRequest, IsRequest
<1>2. PageTypeOK'
  <2>1. signIn.email \in Emails
    BY DEF PageInv, PageTypeOK
  <2> QED  BY <1>1, <2>1 DEF PageTypeOK, IsRequest
<1>3. Deadlines'
  BY DEF PageInv, Deadlines
<1> QED
  BY <1>1, <1>2, <1>3
  DEF PageInv, OneRequest, ReplyIsRight, ExpiredReply, RepliesForField, ForThisField, Pending

\* A reply about a code the page was told of: the countdown starts anew, or the
\* server had already found the code expired.
LEMMA HandleKeeps ==
  ASSUME PageInv, StoredOK, AttemptsInv', HandleOutcome
  PROVE  PageInv'
<1>0. PICK s : s = signIn
  OBVIOUS
<1> DEFINE Form(mode, otp, resend, told) ==
             [mode |-> mode, email |-> s.email, otp |-> otp, resend |-> resend, told |-> told]
<1>1. /\ s = Form(s.mode, s.otp, s.resend, s.told)
      /\ s.email \in Emails /\ s.otp \in Nat /\ s.mode \in {"login", "signup", "verify", "in"}
      /\ s.told = [email |-> s.told.email, no |-> s.told.no] /\ s.told.no \in 0..codes.last
      /\ requests = [form |-> requests.form, resend |-> requests.resend]
      /\ IsRequest(requests.form) /\ IsRequest(requests.resend)
      /\ clock \in Nat /\ codes.last \in Nat
      /\ Ttl \in Nat /\ Delay \in Nat
      /\ \A e \in Emails : codes.row[e].expires \in 0..clock + Ttl
  BY <1>0, AccountsAssumption DEF PageInv, PageTypeOK, Deadlines
<1>2. clock' = clock /\ codes' = codes
  BY DEF HandleOutcome
<1>3. ASSUME NEW q, IsRequest(q), Pending(q)
      PROVE  /\ Told(q) = [email |-> q.email, no |-> q.no] /\ q.no \in 0..codes.last /\ q.email \in Emails
  BY <1>3 DEF IsRequest, Pending, NoRequest, Told
\* A screen of a new countdown, or of no more than what was known, is right.
<1>4. ASSUME NEW mode, NEW otp, NEW resend, NEW told, signIn' = Form(mode, otp, resend, told),
             \/ mode # "verify" \/ otp = clock + Ttl \/ told.email # s.email
             \/ told = s.told /\ mode = s.mode /\ otp = s.otp
      PROVE  ScreenIsRight'
  <2>1. CASE mode # "verify" \/ told.email # s.email
    BY <1>4, <2>1 DEF ScreenIsRight, Current
  <2>2. CASE otp = clock + Ttl
    BY <1>1, <1>2, <1>4, <2>2 DEF ScreenIsRight
  <2>3. CASE told = s.told /\ mode = s.mode /\ otp = s.otp
    BY <1>0, <1>2, <1>4, <2>3 DEF PageInv, ScreenIsRight, Current
  <2> QED  BY <1>4, <2>1, <2>2, <2>3
<1>5. \/ /\ Pending(requests.form) /\ requests' = [requests EXCEPT !["form"] = NoRequest]
         /\ HandleForm(requests.form)
      \/ /\ Pending(requests.resend) /\ requests' = [requests EXCEPT !["resend"] = NoRequest]
         /\ HandleResend(requests.resend)
  BY DEF HandleOutcome, Pending
<1>6. requests' = [form |-> NoRequest, resend |-> NoRequest]
  <2>1. ASSUME NEW q, IsRequest(q), ~Pending(q)  PROVE q = NoRequest
    BY <2>1 DEF IsRequest
  <2>2. requests.form = NoRequest \/ requests.resend = NoRequest
    BY <1>1, <2>1 DEF PageInv, OneRequest
  <2>3. ~Pending(NoRequest)
    BY DEF Pending, NoRequest
  <2> QED  BY <1>1, <1>5, <2>2, <2>3
<1>7. ASSUME NEW mode \in {"login", "signup", "verify", "in"}, NEW otp \in Nat, NEW resend, NEW told,
             told = [email |-> told.email, no |-> told.no], told.no \in 0..codes.last,
             signIn' = Form(mode, otp, resend, told), ScreenIsRight'
      PROVE  PageInv'
  BY <1>0, <1>2, <1>6, <1>7, HandledKeeps
<1>8. signIn' = signIn => PageInv'
  BY <1>0, <1>1, <1>4, <1>7
<1>9. CASE Pending(requests.form) /\ HandleForm(requests.form)
  <2>0. PICK q : q = requests.form
    OBVIOUS
  <2>1. /\ Told(q) = [email |-> q.email, no |-> q.no] /\ q.no \in 0..codes.last /\ q.email \in Emails
        /\ q.email # s.email => s.told.email # s.email
        /\ IsRequest(q) /\ Pending(q) /\ HandleForm(q)
    BY <1>0, <1>1, <1>3, <1>9, <2>0 DEF PageInv, RepliesForField, ForThisField
  <2>2. ASSUME NEW d, d = [otp |-> d.otp, resend |-> d.resend], d.otp = KeptFor(q.email, Ttl)
        PROVE  \E resend :
                 Entered(s, d) = Form("verify", IF q.email = s.email THEN clock + Ttl ELSE 0, resend, s.told)
    <3>1. d.otp.email = q.email /\ d.otp.at = clock + Ttl
      BY <2>2 DEF KeptFor
    <3>2. PICK a, o, r : /\ a = [s EXCEPT !.mode = "verify"]
                         /\ o = (IF q.email = s.email THEN clock + Ttl ELSE 0)
                         /\ r = (IF d.resend.email = s.email THEN d.resend.at ELSE 0)
      OBVIOUS
    <3>3. Entered(s, d) = [[a EXCEPT !.otp = o] EXCEPT !.resend = r]
      BY <3>1, <3>2 DEF Entered
    <3>4. PICK b : b = [a EXCEPT !.otp = o]
      OBVIOUS
    <3>5. a = Form("verify", s.otp, s.resend, s.told)
      BY <1>1, <3>2
    <3>6. b = Form("verify", o, s.resend, s.told)
      BY <3>4, <3>5
    <3>7. [b EXCEPT !.resend = r] = Form("verify", o, r, s.told)
      BY <3>6
    <3> QED  BY <3>2, <3>3, <3>4, <3>7
  <2>3. CASE q.outcome = "in"
    <3>1. signIn' = Form("in", s.otp, s.resend, s.told)
      BY <1>0, <1>1, <2>1, <2>3 DEF HandleForm
    <3> QED  BY <1>1, <1>4, <1>7, <3>1
  <2>4. CASE q.outcome = "inactive"
    <3>1. signIn' = Entered(signIn, stored') /\ stored' = [stored EXCEPT !.otp = KeptFor(q.email, Ttl)]
      BY <1>0, <2>1, <2>4 DEF HandleForm
    <3>2. stored' = [otp |-> KeptFor(q.email, Ttl), resend |-> stored.resend]
      BY <3>1 DEF StoredOK
    <3>3. PICK d : d = stored'
      OBVIOUS
    <3>4. d = [otp |-> d.otp, resend |-> d.resend] /\ d.otp = KeptFor(q.email, Ttl)
      BY <3>2, <3>3
    <3>5. PICK resend :
            signIn' = Form("verify", IF q.email = s.email THEN clock + Ttl ELSE 0, resend, s.told)
      BY <1>0, <2>2, <3>1, <3>3, <3>4
    <3>6. CASE q.email = s.email
      <4>1. signIn' = Form("verify", clock + Ttl, resend, s.told) /\ clock + Ttl \in Nat
        BY <1>1, <3>5, <3>6
      <4>2. ScreenIsRight'
        BY <1>4, <4>1
      <4> QED  BY <1>1, <1>7, <4>1, <4>2
    <3>7. CASE q.email # s.email
      <4>1. signIn' = Form("verify", 0, resend, s.told)
        BY <3>5, <3>7
      <4>2. ScreenIsRight'
        BY <1>4, <2>1, <3>7, <4>1
      <4> QED  BY <1>1, <1>7, <4>1, <4>2
    <3> QED  BY <3>6, <3>7
  <2>5. CASE q.outcome = "sent"
    <3>1. /\ signIn' = [Entered(signIn, stored') EXCEPT !.told = Told(q)]
          /\ stored' = [otp |-> KeptFor(q.email, Ttl), resend |-> KeptFor(q.email, Delay)]
      BY <2>1, <2>5 DEF HandleForm
    <3>2. PICK d : d = stored'
      OBVIOUS
    <3>3. d = [otp |-> d.otp, resend |-> d.resend] /\ d.otp = KeptFor(q.email, Ttl)
      BY <3>1, <3>2
    <3>4. PICK o, resend : /\ o = (IF q.email = s.email THEN clock + Ttl ELSE 0)
                           /\ Entered(s, d) = Form("verify", o, resend, s.told)
      BY <2>2, <3>3
    <3>5. PICK told : told = Told(q)
      OBVIOUS
    <3>6. [Form("verify", o, resend, s.told) EXCEPT !.told = told] = Form("verify", o, resend, told)
      OBVIOUS
    <3>7. signIn' = Form("verify", o, resend, told)
      BY <1>0, <3>1, <3>2, <3>4, <3>5, <3>6
    <3>8. /\ told = [email |-> told.email, no |-> told.no] /\ told.no \in 0..codes.last /\ o \in Nat
          /\ told.email = q.email
      BY <1>1, <2>1, <3>4, <3>5
    <3>9. ScreenIsRight'
      BY <1>4, <3>4, <3>7, <3>8
    <3> QED  BY <1>7, <3>7, <3>8, <3>9
  <2>6. CASE q.outcome = "expired"
    <3>1. signIn' = Form(s.mode, clock, s.resend, s.told)
      BY <1>0, <1>1, <2>1, <2>6 DEF HandleForm
    <3>2. ScreenIsRight'
      <4> SUFFICES ASSUME Current(s.email)  PROVE codes.row[s.email].expires <= clock
        BY <1>0, <1>2, <3>1 DEF ScreenIsRight, Current
      <4>1. s.email = q.email
        BY <1>0, <2>1 DEF Current
      <4> QED  BY <2>0, <2>1, <2>6, <4>1 DEF PageInv, ReplyIsRight, ExpiredReply
    <3> QED  BY <1>1, <1>7, <3>1, <3>2
  <2>7. CASE q.outcome \notin {"in", "inactive", "sent", "expired"}
    BY <1>8, <2>1, <2>7 DEF HandleForm
  <2> QED  BY <2>3, <2>4, <2>5, <2>6, <2>7
<1>10. CASE Pending(requests.resend) /\ HandleResend(requests.resend)
  <2>0. PICK q : q = requests.resend
    OBVIOUS
  <2>1. /\ Told(q) = [email |-> q.email, no |-> q.no] /\ q.no \in 0..codes.last /\ HandleResend(q)
    BY <1>1, <1>3, <1>10, <2>0
  <2>2. CASE q.outcome = "sent"
    <3>1. PICK a, b, told : /\ a = [s EXCEPT !.otp = clock + Ttl]
                            /\ b = [a EXCEPT !.resend = clock + Delay] /\ told = Told(q)
      OBVIOUS
    <3>2. signIn' = [b EXCEPT !.told = told]
      BY <1>0, <2>1, <2>2, <3>1 DEF HandleResend
    <3>3. a = Form(s.mode, clock + Ttl, s.resend, s.told)
      BY <1>1, <3>1
    <3>4. b = Form(s.mode, clock + Ttl, clock + Delay, s.told)
      BY <3>1, <3>3
    <3>5. signIn' = Form(s.mode, clock + Ttl, clock + Delay, told)
      BY <3>2, <3>4
    <3>6. told = [email |-> told.email, no |-> told.no] /\ told.no \in 0..codes.last /\ clock + Ttl \in Nat
      BY <1>1, <2>1, <3>1
    <3>7. ScreenIsRight'
      BY <1>4, <3>5
    <3> QED  BY <1>1, <1>7, <3>5, <3>6, <3>7
  <2>3. CASE q.outcome = "too_soon"
    <3>1. signIn' = Form(s.mode, s.otp, clock + Delay, s.told)
      BY <1>0, <1>1, <2>1, <2>3 DEF HandleResend
    <3>2. ScreenIsRight'
      BY <1>4, <3>1
    <3> QED  BY <1>1, <1>7, <3>1, <3>2
  <2>4. CASE q.outcome \notin {"sent", "too_soon"}
    BY <1>8, <2>1, <2>4 DEF HandleResend
  <2> QED  BY <2>2, <2>3, <2>4
<1> QED  BY <1>5, <1>9, <1>10

LEMMA StoredStays == StoredOK /\ [AccountsNext]_accountVars => StoredOK'
<1> SUFFICES ASSUME StoredOK, [AccountsNext]_accountVars  PROVE StoredOK'
  OBVIOUS
<1>1. CASE UNCHANGED stored
  BY <1>1 DEF StoredOK
<1>2. CASE OpenPage \/ SwitchMode
  BY <1>2 DEF OpenPage, SwitchMode, Cleared, StoredOK
<1>3. CASE HandleOutcome
  <2>1. PICK q : HandleForm(q) \/ HandleResend(q)
    BY <1>3 DEF HandleOutcome
  <2>2. PICK d, e : \/ stored' = stored \/ stored' = [otp |-> d, resend |-> e]
                    \/ stored' = [stored EXCEPT !.otp = d] \/ stored' = [stored EXCEPT !.resend = e]
    BY <2>1 DEF HandleForm, HandleResend
  <2> QED  BY <2>2 DEF StoredOK
<1>4. CASE SubmitForm \/ ResendVerification
  BY <1>1, <1>4 DEF SubmitForm, ResendVerification, Place
<1>5. CASE Tick \/ OtherClient \/ OtherEnds \/ ServeRequest \/ LoseRequest \/ \E e \in Emails : TypeEmail(e)
  BY <1>1, <1>5 DEF Tick, OtherClient, OtherEnds, ServeRequest, LoseRequest, TypeEmail
<1> QED  BY <1>1, <1>2, <1>3, <1>4, <1>5 DEF AccountsNext, accountVars

\* ExpiredMeansExpired: for any addresses, life of a code and pause, however
\* replies are lost or late and whatever other clients ask for, the verify screen
\* calls the code the page was told of expired only when the server does
\* (startOtpExpiry, the effect that reads the deadlines back, VerifyEmail).
THEOREM ExpiryIsTrue == AccountsSpec => []ExpiredMeansExpired
<1>1. AccountsInit => PageInv /\ StoredOK
  BY PageInvInit DEF AccountsInit, Cleared, StoredOK
<1>2. PageInv /\ StoredOK /\ [AccountsNext]_accountVars => (PageInv /\ StoredOK)'
  <2> SUFFICES ASSUME PageInv, StoredOK, [AccountsNext]_accountVars  PROVE PageInv'
    BY StoredStays
  <2>1. AttemptsInv' /\ Deadlines' /\ CodeMoves
    BY AttemptsInvStep, CodesMove DEF PageInv
  <2>2. CASE UNCHANGED accountVars \/ Tick \/ OtherClient \/ OtherEnds \/ LoseRequest
    BY <2>1, <2>2, QuietKeeps
  <2>3. CASE SubmitForm \/ ResendVerification
    BY <2>1, <2>3, PlaceKeeps
  <2>4. CASE ServeRequest
    BY <2>1, <2>4, ServeKeeps
  <2>5. CASE OpenPage \/ SwitchMode \/ \E e \in Emails : TypeEmail(e)
    BY <2>1, <2>5, NavigateKeeps
  <2>6. CASE HandleOutcome
    BY <2>1, <2>6, HandleKeeps
  <2> QED  BY <2>2, <2>3, <2>4, <2>5, <2>6 DEF AccountsNext
<1>3. PageInv => ExpiredMeansExpired
  <2> SUFFICES ASSUME PageInv, signIn.mode = "verify", signIn.otp <= clock, signIn.told.no # 0,
                      signIn.told = [email |-> signIn.email, no |-> codes.row[signIn.email].no]
               PROVE  codes.row[signIn.email].expires <= clock
    BY DEF ExpiredMeansExpired
  <2>1. Current(signIn.email)
    BY DEF Current
  <2>2. /\ signIn.otp \in Nat /\ clock \in Nat /\ Ttl \in Nat
        /\ codes.row[signIn.email].expires \in 0..clock + Ttl
    BY AccountsAssumption DEF PageInv, PageTypeOK, Deadlines
  <2> QED  BY <2>1, <2>2 DEF PageInv, ScreenIsRight
<1> QED  BY <1>1, <1>2, <1>3, PTL DEF AccountsSpec
=============================================================================
