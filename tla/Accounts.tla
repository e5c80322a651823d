------------------------------ MODULE Accounts ------------------------------
(***************************************************************************)
(* Customer accounts: a code is mailed and verified, an account is opened  *)
(* for a mailbox that was proven, and its Free Fire id may change once per *)
(* season (apps/web cuenta, customer-auth-store.ts and                     *)
(* customer-profile-store.ts).  Every server action is a request of some   *)
(* browser, and every write it sends to the database a step of its own, so *)
(* requests interleave between them.  A code is the number of its row: its *)
(* digits, their hash and the signature of a cookie come down to equality, *)
(* and the limiter, which only makes codes rarer, to the bound MaxCodes.   *)
(***************************************************************************)
EXTENDS SequencesExt

CONSTANTS
  Browsers,     \* each with its own cookies, and one request at a time
  Emails,
  Reads,        \* browser -> the mailboxes its owner reads
  Ids,          \* Free Fire ids the provider confirms
  MaxTries,     \* OTP_MAX_ATTEMPTS
  None,
  MaxCodes, MaxSeasons, MaxLogouts, MaxCrashes  \* bounds

ASSUME AccountsAssumption ==
  /\ IsFiniteSet(Browsers) /\ Reads \in [Browsers -> SUBSET Emails]
  /\ None \notin Emails \cup Ids
  /\ MaxTries \in Nat /\ MaxCodes \in Nat /\ MaxSeasons \in Nat
  /\ MaxLogouts \in Nat /\ MaxCrashes \in Nat

VARIABLES
  codes,      \* player_otp_codes, oldest first
  profile,    \* mailbox -> the id of its row of player_profiles, or None
  changes,    \* player_linked_id_changes
  season,     \* the active season, 0 before the first
  session,    \* browser -> its session cookie, or None
  pending,    \* browser -> the mailbox of its pending-signup cookie, or None
  request,    \* browser -> the request it is waiting for
  signins,    \* what happened: how often a code was accepted
  moves,      \* what happened: how often an id moved, by mailbox and season
  spent       \* the bounds' counters

cookies == <<session, pending>>
rows    == <<profile, changes>>
past    == <<signins, moves>>
customerVars == <<codes, rows, season, cookies, request, past, spent>>

Free == [ pc |-> "idle" ]

CustomerInit ==
  /\ codes = << >> /\ profile = [ e \in Emails |-> None ] /\ changes = {}
  /\ season = 0
  /\ session = [ b \in Browsers |-> None ] /\ pending = [ b \in Browsers |-> None ]
  /\ request = [ b \in Browsers |-> Free ]
  /\ signins = [ i \in 1..MaxCodes |-> 0 ] /\ moves = [ e \in Emails |-> [ s \in 1..MaxSeasons |-> 0 ] ]
  /\ spent = [ logouts |-> 0, crashes |-> 0 ]

\* The counter of a bound goes up.
Use(bound, max) == spent[bound] < max /\ spent' = [ spent EXCEPT ![bound] = @ + 1 ]

Answer(b)   == request' = [ request EXCEPT ![b] = Free ]
Waits(b, r) == request' = [ request EXCEPT ![b] = r ]
Enters(b, e, id) == session' = [ session EXCEPT ![b] = [ email |-> e, id |-> id ] ]

------------------------------------------------------------------------------
(* Codes.                                                                  *)

\* createOtpCode, then the mail: the row is there even when it was not sent.
RequestOtp(b, e) ==
  /\ request[b] = Free /\ Len(codes) < MaxCodes
  /\ \E sent \in BOOLEAN :
       codes' = Append(codes, [ email |-> e, tries |-> 0, used |-> FALSE,
                                expired |-> FALSE, mailed |-> sent ])
  /\ UNCHANGED <<rows, season, cookies, request, past, spent>>

\* Codes live ten minutes each, so the oldest expires first.
CodeExpires ==
  /\ \E i \in DOMAIN codes :
       /\ ~codes[i].expired /\ \A j \in 1..(i - 1) : codes[j].expired
       /\ codes' = [ codes EXCEPT ![i].expired = TRUE ]
  /\ UNCHANGED <<rows, season, cookies, request, past, spent>>

Live(e) == { i \in DOMAIN codes : codes[i].email = e /\ ~codes[i].used /\ ~codes[i].expired }

\* findActiveOtpCode: the newest; an older one comes back once it is used.
IsActive(e, i) == i \in Live(e) /\ \A j \in Live(e) : j <= i

\* Codes a browser's owner can type: those in the mailboxes they read.
Known(b) == { i \in DOMAIN codes : codes[i].mailed /\ codes[i].email \in Reads[b] }

\* verifyOtp up to the comparison; typed is a row's number, or 0 for digits
\* nobody was sent.  Without a live code, or with one that was missed too
\* often, the request ends here.
FindCode(b, e, typed) ==
  /\ request[b] = Free
  /\ \E i \in DOMAIN codes :
       /\ IsActive(e, i) /\ codes[i].tries < MaxTries
       /\ Waits(b, [ pc |-> IF typed = i THEN "consume" ELSE "missed", email |-> e, code |-> i ])
  /\ UNCHANGED <<codes, rows, season, cookies, past, spent>>

\* incrementOtpAttempts.
MissCode(b) ==
  /\ request[b].pc = "missed"
  /\ codes' = [ codes EXCEPT ![request[b].code].tries = @ + 1 ]
  /\ Answer(b)
  /\ UNCHANGED <<rows, season, cookies, past, spent>>

ConsumeAnyway(b) ==    \* mutant: written without looking
  /\ request[b].pc = "consume"
  /\ LET r == request[b]
     IN  /\ codes' = [ codes EXCEPT ![r.code].used = TRUE ]
         /\ signins' = [ signins EXCEPT ![r.code] = @ + 1 ]
         /\ Waits(b, [ pc |-> "known", email |-> r.email ])
  /\ UNCHANGED <<rows, season, cookies, moves, spent>>

\* consumeOtpCode: of two requests with the same code, the second finds it used.
Consume(b) ==
  /\ request[b].pc = "consume"
  /\ LET r == request[b]
     IN  IF codes[r.code].used THEN Answer(b) /\ UNCHANGED <<codes, signins>>
         ELSE /\ codes' = [ codes EXCEPT ![r.code].used = TRUE ]
              /\ signins' = [ signins EXCEPT ![r.code] = @ + 1 ]
              /\ Waits(b, [ pc |-> "known", email |-> r.email ])
  /\ UNCHANGED <<rows, season, cookies, moves, spent>>

\* findProfileByEmail: a session for the account, or leave to open one.
SignIn(b) ==
  /\ request[b].pc = "known"
  /\ LET e == request[b].email
     IN  IF profile[e] # None THEN Enters(b, e, profile[e]) /\ UNCHANGED pending
         ELSE pending' = [ pending EXCEPT ![b] = e ] /\ UNCHANGED session
  /\ Answer(b)
  /\ UNCHANGED <<codes, rows, season, past, spent>>

------------------------------------------------------------------------------
(* Opening an account.                                                     *)

TakenBeside(e, id) == \E f \in Emails \ {e} : profile[f] = id

\* completeSignup: the mailbox comes from the signed cookie, the id from the
\* form; one the provider does not confirm is refused here.
Signup(b, id) ==
  /\ request[b] = Free /\ pending[b] # None
  /\ Waits(b, [ pc |-> "create", email |-> pending[b], id |-> id ])
  /\ UNCHANGED <<codes, rows, season, cookies, past, spent>>

TakenByMailbox(r) == profile[r.email] # None    \* mutant: no index on the id
Taken(r) == profile[r.email] # None \/ TakenBeside(r.email, r.id)

\* createPlayerProfile: two unique indexes decide.
CreateProfile(b) ==
  /\ request[b].pc = "create"
  /\ LET r == request[b]
     IN  IF Taken(r) THEN Answer(b) /\ UNCHANGED profile
         ELSE /\ profile' = [ profile EXCEPT ![r.email] = r.id ]
              /\ Waits(b, [ pc |-> "welcome", email |-> r.email, id |-> r.id ])
  /\ UNCHANGED <<codes, changes, season, cookies, past, spent>>

\* The Founder badge, which is Badges' subject, and then the cookies.
Welcome(b) ==
  /\ request[b].pc = "welcome"
  /\ Enters(b, request[b].email, request[b].id)
  /\ pending' = [ pending EXCEPT ![b] = None ]
  /\ Answer(b)
  /\ UNCHANGED <<codes, rows, season, past, spent>>

\* Ten minutes pass.
PendingExpires(b) ==
  /\ request[b] = Free /\ pending[b] # None
  /\ pending' = [ pending EXCEPT ![b] = None ]
  /\ UNCHANGED <<codes, rows, season, session, request, past, spent>>

------------------------------------------------------------------------------
(* The linked id.                                                          *)

\* changeLinkedPlayerId, its reads, of which the season is the last.  An id
\* that is linked already only renews the cookie.
PlanChange(b, id) ==
  /\ request[b] = Free /\ session[b] # None
  /\ LET e == session[b].email
     IN  IF profile[e] = id THEN Enters(b, e, id) /\ UNCHANGED request
         ELSE /\ ~TakenBeside(e, id)
              /\ Waits(b, [ pc |-> "change", email |-> e, id |-> id, season |-> season ])
              /\ UNCHANGED session
  /\ UNCHANGED <<codes, rows, season, pending, past, spent>>

\* The allowance's row; outside a season there is none.
Row(r) == [ email |-> r.email, season |-> r.season ]
Recorded(r) == IF r.season = 0 THEN {} ELSE { Row(r) }

ConflictsNever(r) == FALSE    \* mutant: whoever read that it may, may
Conflicts(r) == Recorded(r) \cap changes # {}

\* The transaction. The row conflicts, or the id was taken since, which
\* throws: nothing is kept then.
WriteChange(b) ==
  /\ request[b].pc = "change"
  /\ LET r == request[b]
     IN  IF Conflicts(r) \/ TakenBeside(r.email, r.id)
         THEN UNCHANGED <<profile, changes, moves, session>>
         ELSE /\ changes' = changes \cup Recorded(r)
              /\ profile' = [ profile EXCEPT ![r.email] = r.id ]
              /\ moves' = IF r.season = 0 THEN moves
                          ELSE [ moves EXCEPT ![r.email][r.season] = @ + 1 ]
              /\ Enters(b, r.email, r.id)
  /\ Answer(b)
  /\ UNCHANGED <<codes, season, pending, signins, spent>>

\* Or its thirty days are over.
Logout(b) ==
  /\ request[b] = Free /\ session[b] # None /\ Use("logouts", MaxLogouts)
  /\ session' = [ session EXCEPT ![b] = None ]
  /\ UNCHANGED <<codes, rows, season, pending, request, past>>

\* The process dies, or the database does not answer: the request is lost
\* after the step it last made.
Dies(b) ==
  /\ request[b] # Free /\ Use("crashes", MaxCrashes)
  /\ Answer(b)
  /\ UNCHANGED <<codes, rows, season, cookies, past>>

\* The worker closes a season and opens the next, as LevelPass models it.
SeasonTurns ==
  /\ season < MaxSeasons /\ season' = season + 1
  /\ UNCHANGED <<codes, rows, cookies, request, past, spent>>

VerifyOtp(b)          == MissCode(b) \/ Consume(b) \/ SignIn(b)
CompleteSignup(b)     == CreateProfile(b) \/ Welcome(b)
SaveLinkedPlayerId(b) == WriteChange(b) \/ \E id \in Ids : PlanChange(b, id)

CustomerNext ==
  \/ CodeExpires \/ SeasonTurns
  \/ \E b \in Browsers :
       \/ VerifyOtp(b) \/ CompleteSignup(b) \/ SaveLinkedPlayerId(b)
       \/ PendingExpires(b) \/ Logout(b) \/ Dies(b)
       \/ \E e \in Emails :
            \/ RequestOtp(b, e)
            \/ \E typed \in Known(b) \cup {0} : FindCode(b, e, typed)
       \/ \E id \in Ids : Signup(b, id)
=============================================================================
