------------------------------- MODULE Accounts -------------------------------
(***************************************************************************)
(* Signing up and confirming the address with a code: the sign-in page     *)
(* (identity/routes/AuthRoute.tsx) with the two countdowns it also keeps   *)
(* in localStorage, and the transactions of identity/postgres_store.go.    *)
(* Addresses must be confirmed (AUTH_REQUIRE_EMAIL_VERIFICATION).          *)
(*                                                                         *)
(* VerifyEmail locks the rows of the user and of the code, reads the code, *)
(* and then writes what follows from the comparison: two steps.  Resending *)
(* runs under the lock of the user row and is one.                         *)
(***************************************************************************)
EXTENDS Integers

CONSTANTS
  Emails,       \* addresses
  MaxAttempts,  \* EMAIL_VERIFICATION_MAX_ATTEMPTS
  Ttl, Delay,   \* life of a code (and the page's default), pause between codes
  MaxCodes,     \* bound: codes issued
  MaxTime,      \* bound: the clock
  MaxSubmits    \* bound: requests of the page

ASSUME AccountsAssumption ==
  /\ {MaxAttempts, Ttl, Delay} \subseteq Nat \ {0}
  /\ {MaxCodes, MaxTime, MaxSubmits} \subseteq Nat /\ "none" \notin Emails
  /\ Emails # {}

VARIABLES
  clock,
  users,     \* of each address: no row, inactive, or active
  codes,     \* the email_verifications table, and the code issued last
  checks,    \* VerifyEmail transactions in progress: the page's, another client's
  signIn,    \* the form: mode, address field, deadlines of the two countdowns, and the code
             \* it was told of since the field was last edited
  stored,    \* localStorage: each deadline with the address it is for
  requests,  \* of the page: the submitted form, and a resend
  submits    \* how many requests the page has sent

accountVars == <<clock, users, codes, checks, signIn, stored, requests, submits>>

Clients == {"page", "other"}
NoCode == [no |-> 0, attempts |-> 0, expires |-> 0, sent |-> 0]
NoCheck == [email |-> "none", guess |-> 0]
NoRequest == [kind |-> "none"]
NoDeadline == [email |-> "none", at |-> 0]
FreshForm(e) == [mode |-> "login", email |-> e, otp |-> 0, resend |-> 0,
                 told |-> [email |-> "none", no |-> 0]]
Cleared == [otp |-> NoDeadline, resend |-> NoDeadline]

AccountsInit ==
  /\ clock = 1 /\ submits = 0
  /\ users = [e \in Emails |-> "none"]
  /\ codes = [row |-> [e \in Emails |-> NoCode], last |-> 0]
  /\ checks = [c \in Clients |-> NoCheck]
  /\ signIn = FreshForm(CHOOSE e \in Emails : TRUE) /\ stored = Cleared
  /\ requests = [form |-> NoRequest, resend |-> NoRequest]

Tick ==
  /\ clock < MaxTime /\ clock' = clock + 1
  /\ UNCHANGED <<users, codes, checks, signIn, stored, requests, submits>>
-----------------------------------------------------------------------------
(* Store.                                                                  *)

Bug_NoRowLock(e) == TRUE
RowFree(e) == \A c \in Clients : checks[c].email # e

Issued(e) ==
  [row |-> [codes.row EXCEPT ![e] = [no |-> codes.last + 1, attempts |-> 0,
                                     expires |-> clock + Ttl, sent |-> clock]],
   last |-> codes.last + 1]

\* VerifyEmail, up to the comparison.
Looked(e) ==
  LET row == codes.row[e]
  IN IF users[e] # "inactive" \/ row.no = 0 THEN "invalid"
     ELSE IF row.attempts >= MaxAttempts THEN "too_many"
     ELSE IF row.expires <= clock THEN "expired"
     ELSE "compared"

BeginCheck(c, e, guess, outcome) ==
  /\ checks[c] = NoCheck /\ RowFree(e) /\ outcome = Looked(e)
  /\ checks' = IF outcome = "compared" THEN [checks EXCEPT ![c] = [email |-> e, guess |-> guess]]
               ELSE checks

\* The wrong guess is counted, or the account is activated.
EndCheck(c, outcome) ==
  LET t == checks[c]
  IN /\ t # NoCheck /\ checks' = [checks EXCEPT ![c] = NoCheck]
     /\ \/ /\ outcome = "invalid" /\ t.guess # codes.row[t.email].no
           /\ codes' = [codes EXCEPT !.row[t.email].attempts = @ + 1]
           /\ UNCHANGED users
        \/ /\ outcome = "in" /\ t.guess = codes.row[t.email].no
           /\ codes' = [codes EXCEPT !.row[t.email].no = 0]
           /\ users' = [users EXCEPT ![t.email] = "active"]

\* ReplaceEmailVerification, and the mail, which may fail after the commit.
Resend(e, outcome) ==
  /\ RowFree(e)
  /\ \/ outcome = "sent" /\ users[e] # "inactive" /\ UNCHANGED codes
     \/ /\ users[e] = "inactive"
        /\ IF codes.row[e].sent > clock - Delay
           THEN outcome = "too_soon" /\ UNCHANGED codes
           ELSE outcome \in {"sent", "unavailable"} /\ codes.last < MaxCodes /\ codes' = Issued(e)

\* Another tab or device tries a code, asks for one, or signs in with Google.
OtherClient ==
  /\ \E e \in Emails :
       \/ \E guess \in {0, codes.row[e].no} :
            /\ BeginCheck("other", e, guess, "compared") /\ UNCHANGED <<users, codes>>
       \/ \E outcome \in {"sent", "unavailable"} :
            Resend(e, outcome) /\ codes' # codes /\ UNCHANGED <<users, checks>>
       \/ /\ users[e] # "active" /\ RowFree(e)
          /\ users' = [users EXCEPT ![e] = "active"] /\ UNCHANGED <<codes, checks>>
  /\ UNCHANGED <<clock, signIn, stored, requests, submits>>

OtherEnds ==
  /\ \E outcome \in {"invalid", "in"} : EndCheck("other", outcome)
  /\ UNCHANGED <<clock, signIn, stored, requests, submits>>
-----------------------------------------------------------------------------
(* The page.                                                               *)

\* resetVerificationTimers.
Reset(p) == [p EXCEPT !.otp = 0, !.resend = 0]

\* The form opens at login; an earlier tab's request goes on at the server.
OpenPage ==
  /\ signIn.mode # "login" \/ requests.form # NoRequest
  /\ signIn' = FreshForm(signIn.email) /\ stored' = Cleared
  /\ requests' = [form |-> NoRequest, resend |-> NoRequest]
  /\ checks["page"] = NoCheck
  /\ UNCHANGED <<clock, users, codes, checks, submits>>

\* The address is read-only in the verify mode only: not while a request runs.
TypeEmail(e) ==
  /\ signIn.mode \in {"login", "signup"} /\ signIn.email # e
  /\ signIn' = [signIn EXCEPT !.email = e, !.told = [email |-> "none", no |-> 0]]
  /\ UNCHANGED <<clock, users, codes, checks, stored, requests, submits>>

\* handleModeSwitch, and handleEditEmail; neither waits for a request.
SwitchMode ==
  /\ signIn.mode # "in"
  /\ signIn' = [Reset(signIn) EXCEPT !.mode = IF @ = "login" THEN "signup" ELSE "login"]
  /\ stored' = Cleared
  /\ UNCHANGED <<clock, users, codes, checks, requests, submits>>

Place(slot, kind, guess) ==
  /\ requests[slot] = NoRequest /\ submits < MaxSubmits
  /\ requests' = [requests EXCEPT ![slot] =
       [kind |-> kind, email |-> signIn.email, guess |-> guess, step |-> "sent", outcome |-> "none", no |-> 0]]
  /\ submits' = submits + 1
  /\ UNCHANGED <<clock, users, codes, checks, signIn, stored>>

SubmitForm ==
  /\ signIn.mode # "in" /\ requests.resend = NoRequest
  /\ \E guess \in {0, codes.row[signIn.email].no} :
       (signIn.mode # "verify" => guess = 0) /\ Place("form", signIn.mode, guess)

ResendVerification ==
  /\ signIn.mode = "verify" /\ signIn.resend <= clock /\ requests.form = NoRequest
  /\ Place("resend", "resend", 0)

\* The server's part of a request.
Concluded(slot, outcome, no) ==
  requests' = [requests EXCEPT ![slot].step = "answered", ![slot].outcome = outcome, ![slot].no = no]

ServeLogin(q) ==
  /\ q.kind = "login"
  /\ \E outcome \in {"refused", IF users[q.email] = "active" THEN "in"
                                ELSE IF users[q.email] = "inactive" THEN "inactive" ELSE "refused"} :
       Concluded("form", outcome, 0)
  /\ UNCHANGED <<users, codes, checks>>

\* Register: the user; the code; the mail, which may fail.
ServeSignup(q) ==
  /\ q.kind = "signup" /\ UNCHANGED checks
  /\ \/ /\ q.step = "sent" /\ users[q.email] # "none"
        /\ Concluded("form", "taken", 0) /\ UNCHANGED <<users, codes>>
     \/ /\ q.step = "sent" /\ users[q.email] = "none"
        /\ users' = [users EXCEPT ![q.email] = "inactive"]
        /\ requests' = [requests EXCEPT !.form.step = "created"] /\ UNCHANGED codes
     \/ /\ q.step = "created" /\ RowFree(q.email) /\ codes.last < MaxCodes
        /\ codes' = Issued(q.email) /\ UNCHANGED users
        /\ \E outcome \in {"sent", "unavailable"} : Concluded("form", outcome, codes'.last)

ServeVerify(q) ==
  /\ q.kind = "verify"
  /\ \/ /\ \E outcome \in {"invalid", "too_many", "expired", "compared"} :
             /\ BeginCheck("page", q.email, q.guess, outcome)
             /\ IF outcome = "compared" THEN UNCHANGED requests ELSE Concluded("form", outcome, 0)
        /\ UNCHANGED <<users, codes>>
     \/ \E outcome \in {"invalid", "in"} : EndCheck("page", outcome) /\ Concluded("form", outcome, 0)

ServeResend(q) ==
  /\ \E outcome \in {"sent", "too_soon", "unavailable"} :
       Resend(q.email, outcome) /\ Concluded("resend", outcome, codes'.row[q.email].no)
  /\ UNCHANGED <<users, checks>>

ServeRequest ==
  /\ \/ requests.form.kind # "none" /\ requests.form.step # "answered"
        /\ (ServeLogin(requests.form) \/ ServeSignup(requests.form) \/ ServeVerify(requests.form))
     \/ requests.resend.kind # "none" /\ requests.resend.step = "sent" /\ ServeResend(requests.resend)
  /\ UNCHANGED <<clock, signIn, stored, submits>>

\* startOtpExpiry and startResendCooldown keep the deadline with the address
\* their closure saw, that of the request.
Bug_KeptFor(e, seconds) == NoDeadline
KeptFor(e, seconds) == [email |-> e, at |-> clock + seconds]

\* Entering the verify mode runs the effect that reads the deadlines back, for
\* the address in the field.
Entered(p, deadlines) ==
  LET back(d) == IF d.email = p.email THEN d.at ELSE 0
  IN [p EXCEPT !.mode = "verify", !.otp = back(deadlines.otp), !.resend = back(deadlines.resend)]

Told(q) == [email |-> q.email, no |-> q.no]

\* What the handlers do after their await.
HandleForm(q) ==
  CASE q.outcome = "in" -> signIn' = [signIn EXCEPT !.mode = "in"] /\ UNCHANGED stored
    [] q.outcome = "inactive" ->
         /\ stored' = [stored EXCEPT !.otp = KeptFor(q.email, Ttl)]
         /\ signIn' = Entered(signIn, stored')
    [] q.outcome = "sent" ->
         /\ stored' = [otp |-> KeptFor(q.email, Ttl), resend |-> KeptFor(q.email, Delay)]
         /\ signIn' = [Entered(signIn, stored') EXCEPT !.told = Told(q)]
    [] q.outcome = "expired" ->
         /\ stored' = [stored EXCEPT !.otp = KeptFor(q.email, 0)]
         /\ signIn' = [signIn EXCEPT !.otp = clock]
    [] OTHER -> UNCHANGED <<signIn, stored>>

HandleResend(q) ==
  CASE q.outcome = "sent" ->
         /\ stored' = [otp |-> KeptFor(q.email, Ttl), resend |-> KeptFor(q.email, Delay)]
         /\ signIn' = [signIn EXCEPT !.otp = clock + Ttl, !.resend = clock + Delay, !.told = Told(q)]
    [] q.outcome = "too_soon" ->
         /\ stored' = [stored EXCEPT !.resend = KeptFor(q.email, Delay)]
         /\ signIn' = [signIn EXCEPT !.resend = clock + Delay]
    [] OTHER -> UNCHANGED <<signIn, stored>>

HandleOutcome ==
  /\ \E slot \in {"form", "resend"} :
       /\ requests[slot].kind # "none" /\ requests[slot].step = "answered"
       /\ IF slot = "form" THEN HandleForm(requests.form) ELSE HandleResend(requests.resend)
       /\ requests' = [requests EXCEPT ![slot] = NoRequest]
  /\ UNCHANGED <<clock, users, codes, checks, submits>>

\* The request, or its reply, is lost.
LoseRequest ==
  /\ \E slot \in {"form", "resend"} :
       /\ requests[slot].kind # "none" /\ requests[slot].step \in {"sent", "answered"}
       /\ slot = "form" => checks["page"] = NoCheck
       /\ requests' = [requests EXCEPT ![slot] = NoRequest]
  /\ UNCHANGED <<clock, users, codes, checks, signIn, stored, submits>>

AccountsNext ==
  \/ Tick \/ OtherClient \/ OtherEnds
  \/ OpenPage \/ SwitchMode \/ SubmitForm \/ ResendVerification
  \/ \E e \in Emails : TypeEmail(e)
  \/ ServeRequest \/ HandleOutcome \/ LoseRequest

AccountsSpec == AccountsInit /\ [][AccountsNext]_accountVars
-----------------------------------------------------------------------------
(* Properties.                                                             *)

\* However many clients guess at once, and while codes are being replaced, a
\* code is compared with at most MaxAttempts wrong guesses
\* (configuration.md:28).
AttemptsBounded == \A e \in Emails : codes.row[e].attempts <= MaxAttempts

\* The verify screen calls a code expired only when it is: the countdown for the
\* code the page was told of, through leaving the screen, coming back and late
\* replies, outlives the server's.  (An address edited while a request runs
\* brings the verify screen up for an address that no countdown is for.)
ExpiredMeansExpired ==
  (signIn.mode = "verify" /\ signIn.otp <= clock /\ signIn.told.no # 0
     /\ signIn.told = [email |-> signIn.email, no |-> codes.row[signIn.email].no]) =>
    codes.row[signIn.email].expires <= clock
=============================================================================
