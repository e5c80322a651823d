------------------------------- MODULE SignIn -------------------------------
(***************************************************************************)
(* The panel's sign-in: a password, then a time-based code when the        *)
(* account has a second factor; switching that factor on, off, and off     *)
(* from the server (apps/admin login, ajustes, create-admin).  One         *)
(* account, whose requests each come from a browser of its own.  A code is *)
(* the secret and the time step it was computed for.                       *)
(***************************************************************************)
EXTENDS Naturals

CONSTANTS
  Logins,      \* browsers of the account's owner
  Secrets,     \* generateSecret never gives one twice
  NoSecret,
  MaxClock,    \* bound on the time steps
  MaxGuesses   \* ADMIN_TOTP_RATE_LIMIT

ASSUME SignInAssumption ==
  /\ NoSecret \notin Secrets /\ MaxClock \in Nat \ {0} /\ MaxGuesses \in Nat

VARIABLES
  admin,    \* the row of admin_users: [secret, last, active], last = 0 for null
  clock,    \* the current time step
  issued,   \* secrets given out so far
  stage,    \* browser -> where it stands
  hits,     \* login codes tried, within one window of the limiter
  opened    \* what happened: sessions by secret and step, since the factor was
            \* last set up

adminVars == <<admin, clock, issued, stage, hits, opened>>

Out == [ pc |-> "out" ]
In  == [ pc |-> "in" ]

NothingOpened == [ s \in Secrets |-> [ k \in 1..(MaxClock + 1) |-> 0 ] ]

AdminInit ==
  /\ admin = [ secret |-> NoSecret, last |-> 0, active |-> TRUE ] /\ clock = 1
  /\ issued = {} /\ stage = [ r \in Logins |-> Out ] /\ hits = 0
  /\ opened = NothingOpened

Becomes(r, s) == stage' = [ stage EXCEPT ![r] = s ]

\* Half a minute.
Tick == /\ clock < MaxClock /\ clock' = clock + 1
        /\ UNCHANGED <<admin, issued, stage, hits, opened>>

\* verifyTotp: the steps a code is looked for at, one to either side.
Window == { k \in (clock - 1)..(clock + 1) : k > 0 }

\* login, with the right password and an active account; otherwise nothing
\* changes.  With a second factor the browser only gets the pending cookie.
Login(r) ==
  /\ stage[r] = Out /\ admin.active
  /\ Becomes(r, IF admin.secret = NoSecret THEN In ELSE [ pc |-> "pending" ])
  /\ UNCHANGED <<admin, clock, issued, hits, opened>>

\* verifyLoginTotp up to its verdict: the limiter, the row, the code.
ReadCode(r, code, step) ==
  /\ stage[r].pc = "pending"
  /\ IF hits >= MaxGuesses THEN Becomes(r, Out) /\ UNCHANGED hits
     ELSE /\ hits' = hits + 1
          /\ CASE ~admin.active \/ admin.secret = NoSecret -> Becomes(r, Out)
               [] admin.active /\ admin.secret = code /\ step \in Window /\ admin.last < step ->
                    Becomes(r, [ pc |-> "claim", code |-> code, step |-> step ])
               [] OTHER -> UNCHANGED stage
  /\ UNCHANGED <<admin, clock, issued, opened>>

\* The guard of the UPDATE: the row must still be behind the step.
Claimable(step) == admin.last < step

\* The step is claimed, the count starts anew and the session is given; or
\* another request was first.
ClaimStep(r) ==
  /\ stage[r].pc = "claim"
  /\ LET s == stage[r]
     IN  IF Claimable(s.step)
         THEN /\ admin' = [ admin EXCEPT !.last = s.step ]
              /\ opened' = [ opened EXCEPT ![s.code][s.step] = @ + 1 ]
              /\ hits' = 0 /\ Becomes(r, In)
         ELSE Becomes(r, [ pc |-> "pending" ]) /\ UNCHANGED <<admin, opened, hits>>
  /\ UNCHANGED <<clock, issued>>

InPanel(r) == stage[r].pc \in { "in", "enrol" }

\* startTotpEnrollment: a new secret, in a cookie only.
StartEnrollment(r) ==
  /\ InPanel(r)
  /\ \E s \in Secrets \ issued :
       issued' = issued \cup {s} /\ Becomes(r, [ pc |-> "enrol", code |-> s ])
  /\ UNCHANGED <<admin, clock, hits, opened>>

\* confirmTotpEnrollment with a code of the new secret, which replaces
\* whatever the row holds; a wrong one changes nothing.
ConfirmEnrollment(r) ==
  /\ stage[r].pc = "enrol"
  /\ \E step \in Window : admin' = [ admin EXCEPT !.secret = stage[r].code, !.last = step ]
  /\ opened' = NothingOpened /\ Becomes(r, In)
  /\ UNCHANGED <<clock, issued, hits>>

SwitchOff(active) ==
  /\ admin' = [ secret |-> NoSecret, last |-> 0, active |-> active ]
  /\ opened' = NothingOpened
  /\ UNCHANGED <<clock, issued, stage, hits>>

\* disableTotp, with the password again.
DisableTotp(r) == InPanel(r) /\ SwitchOff(admin.active)

\* create-admin, for an account that exists.
ResetPassword == SwitchOff(TRUE)

\* The account is put out of use in the database; no code of the panel does it,
\* and a session that is open stays open.
Deactivate ==
  /\ admin.active /\ admin' = [ admin EXCEPT !.active = FALSE ]
  /\ UNCHANGED <<clock, issued, stage, hits, opened>>

\* logout, a cookie that ran out, a page that was closed, a request that died.
Leave(r) == /\ stage[r] # Out /\ Becomes(r, Out)
            /\ UNCHANGED <<admin, clock, issued, hits, opened>>

\* The limiter's window passes.
WindowPasses == /\ hits > 0 /\ hits' = 0
                /\ UNCHANGED <<admin, clock, issued, stage, opened>>

AdminNext ==
  \/ Tick \/ ResetPassword \/ Deactivate \/ WindowPasses
  \/ \E r \in Logins :
       \/ Login(r) \/ ClaimStep(r) \/ StartEnrollment(r) \/ ConfirmEnrollment(r)
       \/ DisableTotp(r) \/ Leave(r)
       \/ \E code \in Secrets, step \in 1..(MaxClock + 1) : ReadCode(r, code, step)
=============================================================================
