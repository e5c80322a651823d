---------------------------- MODULE AccountsProofs ----------------------------
(***************************************************************************)
(* What holds of accounts for any number of browsers, mailboxes, codes,    *)
(* seasons, secrets, time steps, badges, hands, sales, days and owner's    *)
(* accounts: every way in was proven, whatever may happen once is on       *)
(* record once, reports are heard or given up in the open, statements      *)
(* stand, customers pay to what was reviewed, and what is stored has the   *)
(* types the unique indexes and the guards give it.  Each part has an      *)
(* inductive invariant of its own; at the end they are put side by side.   *)
(***************************************************************************)
EXTENDS AccountsProps, SumTheorems, SequenceTheorems

------------------------------------------------------------------------------
(* The panel's sign-in.                                                    *)

Steps == 1..(MaxClock + 1)
Stages ==
  { Out, In, [ pc |-> "pending" ] }
    \cup [ pc : {"claim"}, code : Secrets, step : Steps ]
    \cup [ pc : {"enrol"}, code : Secrets ]

\* A step that is not claimed yet has opened nothing, whatever the secret.
AdminInv ==
  /\ admin \in [ secret : Secrets \cup {NoSecret}, last : Nat, active : BOOLEAN ]
  /\ clock \in Nat
  /\ stage \in [ Logins -> Stages ]
  /\ opened \in [ Secrets -> [ Steps -> 0..1 ] ]
  /\ \A s \in Secrets, k \in Steps : k > admin.last => opened[s][k] = 0

LEMMA StagesHold ==
  ASSUME AdminInv, NEW r \in Logins
  PROVE  /\ stage[r].pc = "claim" => stage[r].code \in Secrets /\ stage[r].step \in Steps
         /\ stage[r].pc = "enrol" => stage[r].code \in Secrets
BY DEF AdminInv, Stages, Out, In

LEMMA Opened0 ==
  NothingOpened \in [ Secrets -> [ Steps -> 0..1 ] ]
  /\ \A s \in Secrets, k \in Steps : NothingOpened[s][k] = 0
BY DEF NothingOpened, Steps

LEMMA AdminInvInit == AdminInit => AdminInv
BY Opened0 DEF AdminInit, AdminInv, Stages

LEMMA AdminInvStep == AdminInv /\ (AdminNext \/ UNCHANGED adminVars) => AdminInv'
<1> SUFFICES ASSUME AdminInv, AdminNext \/ UNCHANGED adminVars PROVE AdminInv'
  OBVIOUS
<1>1. CASE UNCHANGED adminVars
  BY <1>1 DEF AdminInv, adminVars
<1>2. CASE Tick \/ WindowPasses
  BY <1>2 DEF Tick, WindowPasses, AdminInv
<1>3. ASSUME NEW active \in BOOLEAN, SwitchOff(active) PROVE AdminInv'
  BY <1>3, Opened0 DEF SwitchOff, AdminInv
<1>31. CASE Deactivate
  BY <1>31 DEF Deactivate, AdminInv
<1>4. ASSUME NEW r \in Logins, NEW s \in Stages, Becomes(r, s),
             UNCHANGED <<admin, clock, opened>>
      PROVE  AdminInv'
  BY <1>4 DEF Becomes, AdminInv
<1>5. ASSUME NEW r \in Logins, Login(r) PROVE AdminInv'
  BY <1>4, <1>5 DEF Login, Stages
<1>6. ASSUME NEW r \in Logins, NEW code \in Secrets, NEW k \in Steps, ReadCode(r, code, k)
      PROVE  AdminInv'
  <2>1. UNCHANGED <<admin, clock, opened>>
    BY <1>6 DEF ReadCode
  <2>2. \/ UNCHANGED stage
        \/ \E s \in Stages : Becomes(r, s)
    BY <1>6 DEF ReadCode, Stages
  <2> QED BY <1>4, <2>1, <2>2 DEF AdminInv
<1>7. ASSUME NEW r \in Logins, ClaimStep(r) PROVE AdminInv'
  <2> DEFINE s == stage[r]
  <2>1. s.code \in Secrets /\ s.step \in Steps /\ s.step \in Nat
    BY <1>7, StagesHold DEF ClaimStep, Steps
  <2>2. CASE ~Claimable(s.step)
    BY <1>4, <1>7, <2>2 DEF ClaimStep, Stages
  <2>3. CASE Claimable(s.step)
    <3>1. /\ admin' = [ admin EXCEPT !.last = s.step ]
          /\ opened' = [ opened EXCEPT ![s.code][s.step] = @ + 1 ]
          /\ stage' = [ stage EXCEPT ![r] = In ]
          /\ UNCHANGED clock
      BY <1>7, <2>3 DEF ClaimStep, Becomes
    <3>2. admin.last < s.step /\ opened[s.code][s.step] = 0
      BY <2>1, <2>3 DEF Claimable, AdminInv, Steps
    <3>3. opened' = [ opened EXCEPT ![s.code][s.step] = 1 ]
      BY <3>1, <3>2 DEF AdminInv
    <3>4. opened' \in [ Secrets -> [ Steps -> 0..1 ] ]
      BY <2>1, <3>3 DEF AdminInv
    <3>5. stage' \in [ Logins -> Stages ]
      BY <3>1 DEF AdminInv, Stages
    <3>6. /\ admin' \in [ secret : Secrets \cup {NoSecret}, last : Nat, active : BOOLEAN ]
          /\ admin'.last = s.step
      BY <2>1, <3>1 DEF AdminInv
    <3>7. ASSUME NEW z \in Secrets, NEW k \in Steps, k > admin'.last
          PROVE  opened'[z][k] = 0
      <4>1. k # s.step /\ k > admin.last
        BY <2>1, <3>2, <3>6, <3>7 DEF AdminInv, Steps
      <4> QED BY <2>1, <3>3, <4>1 DEF AdminInv
    <3> QED BY <3>1, <3>4, <3>5, <3>6, <3>7 DEF AdminInv
  <2> QED BY <2>2, <2>3
<1>8. ASSUME NEW r \in Logins, StartEnrollment(r) PROVE AdminInv'
  <2>1. PICK s \in Secrets : Becomes(r, [ pc |-> "enrol", code |-> s ])
    BY <1>8 DEF StartEnrollment
  <2>2. [ pc |-> "enrol", code |-> s ] \in Stages
    BY DEF Stages
  <2> QED BY <1>4, <1>8, <2>1, <2>2 DEF StartEnrollment
<1>9. ASSUME NEW r \in Logins, ConfirmEnrollment(r) PROVE AdminInv'
  <2>1. PICK k \in Window : admin' = [ admin EXCEPT !.secret = stage[r].code, !.last = k ]
    BY <1>9 DEF ConfirmEnrollment
  <2>2. stage[r].code \in Secrets /\ k \in Nat
    BY <1>9, StagesHold DEF ConfirmEnrollment, Window, AdminInv
  <2>3. stage' \in [ Logins -> Stages ]
    BY <1>9 DEF ConfirmEnrollment, Becomes, AdminInv, Stages
  <2> QED BY <1>9, <2>1, <2>2, <2>3, Opened0 DEF ConfirmEnrollment, AdminInv
<1>10. ASSUME NEW r \in Logins, Leave(r) PROVE AdminInv'
  BY <1>4, <1>10 DEF Leave, Stages
<1>11. admin.active \in BOOLEAN
  BY DEF AdminInv
<1> QED BY <1>1, <1>2, <1>3, <1>31, <1>5, <1>6, <1>7, <1>8, <1>9, <1>10, <1>11
        DEF AdminNext, ResetPassword, DisableTotp, Steps

------------------------------------------------------------------------------
(* Badges.                                                                 *)

\* What is written on record is what the rows say.
BadgeInv ==
  /\ owned \in [ Both -> { "none", "held", "revoked" } ]
  /\ given \in [ Both -> 0..1 ] /\ taken \in [ Both -> 0..1 ]
  /\ \A h \in Hands : hand[h].pc \in { "found", "give", "revoke" } => hand[h].row \in Both
  /\ \A x \in Both : /\ x \in byHand => owned[x] # "none"
                     /\ given[x] = IF x \in byHand THEN 1 ELSE 0
                     /\ taken[x] = IF owned[x] = "revoked" THEN 1 ELSE 0
  /\ DOMAIN hand = Hands

LEMMA BadgeInvInit == BadgeInit => BadgeInv
BY DEF BadgeInit, BadgeInv, Resting

LEMMA BadgeInvStep == BadgeInv /\ (BadgeNext \/ UNCHANGED badgeVars) => BadgeInv'
<1> SUFFICES ASSUME BadgeInv, BadgeNext \/ UNCHANGED badgeVars PROVE BadgeInv'
  OBVIOUS
<1>1. CASE UNCHANGED badgeVars
  BY <1>1 DEF BadgeInv, badgeVars
<1>2. CASE \E b \in Badges, obtainable \in BOOLEAN, open \in BOOLEAN :
             EditDefinition(b, obtainable, open)
  BY <1>2 DEF EditDefinition, BadgeInv
<1>3. ASSUME NEW h \in Hands, NEW what,
             what.pc \in { "found", "give", "revoke" } => what.row \in Both,
             Begins(h, what), UNCHANGED <<owned, given, taken, byHand>>
      PROVE  BadgeInv'
  BY <1>3 DEF Begins, BadgeInv
<1>4. ASSUME NEW h \in Hands, NEW x \in Both, FindBadge(h, x) \/ PickHolder(h, x)
      PROVE  BadgeInv'
  <2>1. \/ Begins(h, [ pc |-> "give", row |-> x ])
        \/ Begins(h, [ pc |-> "revoke", row |-> x ])
    BY <1>4 DEF FindBadge, PickHolder
  <2> QED BY <1>3, <1>4, <2>1 DEF FindBadge, PickHolder
<1>5. ASSUME NEW h \in Hands, NEW p \in Players, FindFounder(h, p) PROVE BadgeInv'
  <2>1. <<p, Founder>> \in Both
    BY BadgesAssumption DEF Both
  <2>2. Begins(h, [ pc |-> "found", row |-> <<p, Founder>> ])
    BY <1>5 DEF FindFounder
  <2> QED BY <1>3, <1>5, <2>1, <2>2 DEF FindFounder
<1>6. ASSUME NEW h \in Hands, NEW p \in Players, NEW chosen \in SUBSET Badges,
             CheckFeatured(h, p, chosen)
      PROVE  BadgeInv'
  <2>1. Begins(h, [ pc |-> "feature", player |-> p, chosen |-> chosen, seen |-> {} ])
    BY <1>6 DEF CheckFeatured
  <2> QED BY <1>3, <1>6, <2>1 DEF CheckFeatured
<1>7. ASSUME NEW h \in Hands, Ends(h)
      PROVE  /\ DOMAIN hand' = Hands
             /\ \A g \in Hands : hand'[g].pc \in { "found", "give", "revoke" }
                                   => hand'[g].row \in Both
  BY <1>7 DEF Ends, BadgeInv, Resting
<1>8. ASSUME NEW h \in Hands, AwardFounder(h) PROVE BadgeInv'
  <2>1. hand[h].row \in Both
    BY <1>8 DEF AwardFounder, BadgeInv
  <2>2. owned' = [ owned EXCEPT ![hand[h].row] = IF @ = "none" THEN "held" ELSE @ ]
    BY <1>8 DEF AwardFounder
  <2> QED BY <1>7, <1>8, <2>1, <2>2 DEF AwardFounder, BadgeInv
<1>9. ASSUME NEW h \in Hands, Give(h) PROVE BadgeInv'
  <2> DEFINE x == hand[h].row
  <2>1. x \in Both
    BY <1>9 DEF Give, BadgeInv
  <2>2. CASE owned[x] # "none"
    BY <1>7, <1>9, <2>2 DEF Give, BadgeInv
  <2>3. CASE owned[x] = "none"
    <3>1. /\ owned' = [ owned EXCEPT ![x] = "held" ]
          /\ byHand' = byHand \cup {x}
          /\ given' = [ given EXCEPT ![x] = @ + 1 ]
      BY <1>9, <2>3 DEF Give
    <3>2. given[x] = 0
      BY <2>1, <2>3 DEF BadgeInv
    <3>3. UNCHANGED taken /\ Ends(h)
      BY <1>9 DEF Give
    <3> HIDE DEF x
    <3> QED BY <1>7, <2>1, <2>3, <3>1, <3>2, <3>3 DEF BadgeInv
  <2> QED BY <2>2, <2>3
<1>10. ASSUME NEW h \in Hands, Revoke(h) PROVE BadgeInv'
  <2> DEFINE x == hand[h].row
  <2>1. x \in Both
    BY <1>10 DEF Revoke, BadgeInv
  <2>2. CASE owned[x] = "revoked"
    BY <1>7, <1>10, <2>2 DEF Revoke, BadgeInv
  <2>3. CASE owned[x] # "revoked"
    <3>1. /\ owned' = [ owned EXCEPT ![x] = "revoked" ]
          /\ taken' = [ taken EXCEPT ![x] = @ + 1 ]
      BY <1>10, <2>3 DEF Revoke
    <3>2. taken[x] = 0
      BY <2>1, <2>3 DEF BadgeInv
    <3>3. UNCHANGED <<given, byHand>> /\ Ends(h)
      BY <1>10 DEF Revoke
    <3> HIDE DEF x
    <3> QED BY <1>7, <2>1, <2>3, <3>1, <3>2, <3>3 DEF BadgeInv
  <2> QED BY <2>2, <2>3
<1>11. ASSUME NEW h \in Hands, ClearFeatured(h) \/ SetFeatured(h) PROVE BadgeInv'
  <2>1. UNCHANGED <<owned, given, taken, byHand>>
    BY <1>11 DEF ClearFeatured, SetFeatured
  <2>2. CASE Ends(h)
    BY <1>7, <2>1, <2>2 DEF BadgeInv
  <2>3. CASE ~Ends(h)
    <3>1. /\ DOMAIN hand' = Hands
          /\ \A g \in Hands : \/ hand'[g].pc \in { "rest", "insert" }
                              \/ hand'[g] = hand[g]
      <4>1. CASE ClearFeatured(h)
        <5> DEFINE seen == featured[hand[h].player]
        <5>1. hand[h].pc = "feature"
              /\ hand' = [ hand EXCEPT ![h] = [ @ EXCEPT !.pc = "insert", !.seen = seen ] ]
          BY <4>1 DEF ClearFeatured
        <5> HIDE DEF seen
        <5>2. hand'[h].pc = "insert"
          BY <5>1 DEF BadgeInv
        <5> QED BY <5>1, <5>2 DEF BadgeInv
      <4>2. CASE SetFeatured(h)
        <5>1. \E p, gone : hand' = [ g \in Hands |-> IF g = h THEN Resting ELSE Without(g, p, gone) ]
          BY <2>3, <4>2 DEF SetFeatured
        <5> QED BY <5>1 DEF Without, Resting
      <4> QED BY <1>11, <4>1, <4>2
    <3> QED BY <2>1, <3>1 DEF BadgeInv
  <2> QED BY <2>2, <2>3
<1> QED BY <1>1, <1>2, <1>4, <1>5, <1>6, <1>8, <1>9, <1>10, <1>11 DEF BadgeNext

------------------------------------------------------------------------------
(* Customers.                                                              *)

CodeRow == [ email : Emails, tries : Nat, used : BOOLEAN, expired : BOOLEAN, mailed : BOOLEAN ]

\* What a request may do is what the owner of its browser was let in for.
RequestHolds(b, r) ==
  /\ r.pc \in { "consume", "missed" } => r.code \in DOMAIN codes
  /\ r.pc \in { "consume", "known", "create", "welcome", "change" } => r.email \in Reads[b]
  /\ r.pc = "change" => r.season \in 0..MaxSeasons

CookiesHold ==
  /\ DOMAIN session = Browsers /\ DOMAIN pending = Browsers
  /\ \A b \in Browsers : /\ session[b] # None => session[b].email \in Reads[b]
                         /\ pending[b] # None => pending[b] \in Reads[b]

\* An accepted code is a used one, and a move is a spent allowance.
CodesHold ==
  /\ codes \in Seq(CodeRow) /\ Len(codes) <= MaxCodes
  /\ signins \in [ 1..MaxCodes -> 0..1 ]
  /\ \A i \in 1..MaxCodes : signins[i] = 1 => i \in DOMAIN codes /\ codes[i].used

MovesHold ==
  /\ season \in 0..MaxSeasons
  /\ moves \in [ Emails -> [ 1..MaxSeasons -> 0..1 ] ]
  /\ \A e \in Emails, s \in 1..MaxSeasons :
       moves[e][s] = IF [ email |-> e, season |-> s ] \in changes THEN 1 ELSE 0

RequestsHold ==
  /\ DOMAIN request = Browsers
  /\ \A b \in Browsers : RequestHolds(b, request[b])

CustomerInv == CodesHold /\ CookiesHold /\ MovesHold /\ RequestsHold

LEMMA CustomerInvInit == CustomerInit => CustomerInv
<1> SUFFICES ASSUME CustomerInit PROVE CustomerInv
  OBVIOUS
<1>1. CodesHold
  BY AccountsAssumption DEF CustomerInit, CodesHold
<1>2. CookiesHold
  BY DEF CustomerInit, CookiesHold
<1>3. MovesHold
  BY AccountsAssumption DEF CustomerInit, MovesHold
<1>4. RequestsHold
  BY DEF CustomerInit, RequestsHold, RequestHolds, Free
<1> QED BY <1>1, <1>2, <1>3, <1>4 DEF CustomerInv

\* A request that ends, or goes on to what it may do, leaves the others be.
LEMMA RequestsHoldStep ==
  ASSUME RequestsHold, DOMAIN codes \subseteq DOMAIN codes',
         \/ UNCHANGED request
         \/ \E b \in Browsers : Answer(b)
         \/ \E b \in Browsers : \E r : RequestHolds(b, r) /\ Waits(b, r)
  PROVE  RequestsHold'
<1>1. ASSUME NEW b \in Browsers, NEW r, RequestHolds(b, r)
      PROVE  /\ r.pc \in { "consume", "missed" } => r.code \in DOMAIN codes'
             /\ r.pc \in { "consume", "known", "create", "welcome", "change" } => r.email \in Reads[b]
             /\ r.pc = "change" => r.season \in 0..MaxSeasons
  BY <1>1 DEF RequestHolds
<1>2. ASSUME NEW b \in Browsers, NEW r, RequestHolds(b, r), Waits(b, r) PROVE RequestsHold'
  BY <1>1, <1>2 DEF RequestsHold, RequestHolds, Waits
<1>3. ASSUME UNCHANGED request PROVE RequestsHold'
  BY <1>1, <1>3 DEF RequestsHold, RequestHolds
<1>4. ASSUME NEW b \in Browsers, Answer(b) PROVE RequestsHold'
  <2>1. RequestHolds(b, Free) /\ Waits(b, Free)
    BY <1>4 DEF RequestHolds, Free, Answer, Waits
  <2> QED BY <1>2, <2>1
<1> QED BY <1>2, <1>3, <1>4

LEMMA CookiesHoldStep ==
  ASSUME CookiesHold, NEW b \in Browsers,
         \/ UNCHANGED session
         \/ session' = [ session EXCEPT ![b] = None ]
         \/ \E e \in Reads[b] : \E id : Enters(b, e, id),
         \/ UNCHANGED pending
         \/ pending' = [ pending EXCEPT ![b] = None ]
         \/ \E e \in Reads[b] : pending' = [ pending EXCEPT ![b] = e ]
  PROVE  CookiesHold'
<1>1. /\ DOMAIN session' = Browsers
      /\ \A a \in Browsers : session'[a] # None => session'[a].email \in Reads[a]
  BY DEF CookiesHold, Enters
<1>2. /\ DOMAIN pending' = Browsers
      /\ \A a \in Browsers : pending'[a] # None => pending'[a] \in Reads[a]
  BY DEF CookiesHold
<1> QED BY <1>1, <1>2 DEF CookiesHold

LEMMA RowIsPut ==
  ASSUME NEW Rows, NEW rs \in Seq(Rows), NEW i \in DOMAIN rs, NEW c \in Rows
  PROVE  LET new == [ rs EXCEPT ![i] = c ]
         IN  /\ new \in Seq(Rows) /\ Len(new) = Len(rs) /\ DOMAIN new = DOMAIN rs
             /\ \A j \in DOMAIN rs : new[j] = IF j = i THEN c ELSE rs[j]
OBVIOUS

LEMMA RowKept ==
  ASSUME NEW c \in CodeRow
  PROVE  /\ [ c EXCEPT !.expired = TRUE ] \in CodeRow
         /\ [ c EXCEPT !.expired = TRUE ].used = c.used
         /\ [ c EXCEPT !.tries = @ + 1 ] \in CodeRow
         /\ [ c EXCEPT !.tries = @ + 1 ].used = c.used
         /\ [ c EXCEPT !.used = TRUE ] \in CodeRow
         /\ [ c EXCEPT !.used = TRUE ].used
<1>1. [ c EXCEPT !.expired = TRUE ] \in CodeRow /\ [ c EXCEPT !.expired = TRUE ].used = c.used
  BY DEF CodeRow
<1>2. [ c EXCEPT !.tries = @ + 1 ] \in CodeRow /\ [ c EXCEPT !.tries = @ + 1 ].used = c.used
  BY DEF CodeRow
<1>3. [ c EXCEPT !.used = TRUE ] \in CodeRow /\ [ c EXCEPT !.used = TRUE ].used
  BY DEF CodeRow
<1> QED BY <1>1, <1>2, <1>3

LEMMA CodesHoldStep ==
  ASSUME CodesHold,
         \/ UNCHANGED <<codes, signins>>
         \/ UNCHANGED signins /\ Len(codes) < MaxCodes
            /\ \E c \in CodeRow : codes' = Append(codes, c)
         \/ UNCHANGED signins /\ \E i \in DOMAIN codes : codes' = [ codes EXCEPT ![i].expired = TRUE ]
         \/ UNCHANGED signins /\ \E i \in DOMAIN codes : codes' = [ codes EXCEPT ![i].tries = @ + 1 ]
         \/ \E i \in DOMAIN codes :
              /\ ~codes[i].used
              /\ codes' = [ codes EXCEPT ![i].used = TRUE ]
              /\ signins' = [ signins EXCEPT ![i] = @ + 1 ]
  PROVE  CodesHold' /\ DOMAIN codes \subseteq DOMAIN codes'
<1> USE DEF CodesHold
<1>0. ASSUME NEW i \in DOMAIN codes
      PROVE  /\ codes[i] \in CodeRow
             /\ [ codes[i] EXCEPT !.expired = TRUE ] \in CodeRow
             /\ [ codes[i] EXCEPT !.expired = TRUE ].used = codes[i].used
             /\ [ codes[i] EXCEPT !.tries = @ + 1 ] \in CodeRow
             /\ [ codes[i] EXCEPT !.tries = @ + 1 ].used = codes[i].used
             /\ [ codes[i] EXCEPT !.used = TRUE ] \in CodeRow
             /\ [ codes[i] EXCEPT !.used = TRUE ].used
  <2>1. codes[i] \in CodeRow
    OBVIOUS
  <2> QED BY <2>1, RowKept
<1>1. CASE UNCHANGED <<codes, signins>>
  BY <1>1
<1>2. CASE UNCHANGED signins /\ Len(codes) < MaxCodes
            /\ \E c \in CodeRow : codes' = Append(codes, c)
  <2>1. PICK c \in CodeRow : codes' = Append(codes, c)
    BY <1>2
  <2>2. codes' \in Seq(CodeRow) /\ Len(codes') = Len(codes) + 1
    BY <2>1
  <2>3. \A i \in DOMAIN codes : i \in DOMAIN codes' /\ codes'[i] = codes[i]
    BY <2>1
  <2> QED BY <1>2, <2>2, <2>3, AccountsAssumption
<1>3. CASE UNCHANGED signins /\ \E i \in DOMAIN codes : codes' = [ codes EXCEPT ![i].expired = TRUE ]
  <2>1. PICK i \in DOMAIN codes : codes' = [ codes EXCEPT ![i].expired = TRUE ]
    BY <1>3
  <2> DEFINE c == [ codes[i] EXCEPT !.expired = TRUE ]
  <2>2. c \in CodeRow /\ c.used = codes[i].used /\ codes' = [ codes EXCEPT ![i] = c ]
    BY <1>0, <2>1
  <2> HIDE DEF c
  <2>3. codes' \in Seq(CodeRow) /\ Len(codes') = Len(codes) /\ DOMAIN codes' = DOMAIN codes
    BY <2>2, RowIsPut
  <2>4. \A j \in DOMAIN codes : codes'[j].used = codes[j].used
    BY <2>2, RowIsPut
  <2> QED BY <1>3, <2>3, <2>4
<1>4. CASE UNCHANGED signins /\ \E i \in DOMAIN codes : codes' = [ codes EXCEPT ![i].tries = @ + 1 ]
  <2>1. PICK i \in DOMAIN codes : codes' = [ codes EXCEPT ![i].tries = @ + 1 ]
    BY <1>4
  <2> DEFINE c == [ codes[i] EXCEPT !.tries = @ + 1 ]
  <2>2. c \in CodeRow /\ c.used = codes[i].used /\ codes' = [ codes EXCEPT ![i] = c ]
    BY <1>0, <2>1
  <2> HIDE DEF c
  <2>3. codes' \in Seq(CodeRow) /\ Len(codes') = Len(codes) /\ DOMAIN codes' = DOMAIN codes
    BY <2>2, RowIsPut
  <2>4. \A j \in DOMAIN codes : codes'[j].used = codes[j].used
    BY <2>2, RowIsPut
  <2> QED BY <1>4, <2>3, <2>4
<1>5. ASSUME NEW i \in DOMAIN codes, ~codes[i].used,
             codes' = [ codes EXCEPT ![i].used = TRUE ],
             signins' = [ signins EXCEPT ![i] = @ + 1 ]
      PROVE  CodesHold' /\ DOMAIN codes \subseteq DOMAIN codes'
  <2> DEFINE c == [ codes[i] EXCEPT !.used = TRUE ]
  <2>0. c \in CodeRow /\ c.used /\ codes' = [ codes EXCEPT ![i] = c ]
    BY <1>0, <1>5
  <2> HIDE DEF c
  <2>1. codes' \in Seq(CodeRow) /\ Len(codes') = Len(codes) /\ DOMAIN codes' = DOMAIN codes
    BY <2>0, RowIsPut
  <2>2. i \in 1..MaxCodes /\ signins[i] = 0
    BY <1>5, AccountsAssumption
  <2>3. signins' = [ signins EXCEPT ![i] = 1 ]
    BY <1>5, <2>2
  <2>4. \A j \in DOMAIN codes : codes[j].used \/ j = i => codes'[j].used
    BY <2>0, RowIsPut
  <2>5. signins' \in [ 1..MaxCodes -> 0..1 ]
    BY <2>2, <2>3
  <2> QED BY <2>1, <2>2, <2>3, <2>4, <2>5
<1> QED BY <1>1, <1>2, <1>3, <1>4, <1>5

LEMMA MovesHoldStep ==
  ASSUME MovesHold, NEW e \in Emails, NEW s \in 0..MaxSeasons,
         \/ UNCHANGED <<season, moves, changes>>
         \/ season < MaxSeasons /\ season' = season + 1 /\ UNCHANGED <<moves, changes>>
         \/ /\ s = 0 /\ UNCHANGED <<season, moves, changes>>
         \/ /\ s # 0 /\ [ email |-> e, season |-> s ] \notin changes
            /\ changes' = changes \cup { [ email |-> e, season |-> s ] }
            /\ moves' = [ moves EXCEPT ![e][s] = @ + 1 ]
            /\ UNCHANGED season
  PROVE  MovesHold'
<1> USE AccountsAssumption DEF MovesHold
<1>1. CASE UNCHANGED <<season, moves, changes>>
  BY <1>1
<1>2. CASE season < MaxSeasons /\ season' = season + 1 /\ UNCHANGED <<moves, changes>>
  BY <1>2
<1>3. CASE /\ s # 0 /\ [ email |-> e, season |-> s ] \notin changes
           /\ changes' = changes \cup { [ email |-> e, season |-> s ] }
           /\ moves' = [ moves EXCEPT ![e][s] = @ + 1 ]
           /\ UNCHANGED season
  <2>1. s \in 1..MaxSeasons /\ moves[e][s] = 0
    BY <1>3
  <2>2. moves' = [ moves EXCEPT ![e][s] = 1 ]
    BY <1>3, <2>1
  <2>3. moves' \in [ Emails -> [ 1..MaxSeasons -> 0..1 ] ]
    BY <2>1, <2>2
  <2>4. ASSUME NEW f \in Emails, NEW t \in 1..MaxSeasons
        PROVE  moves'[f][t] = IF [ email |-> f, season |-> t ] \in changes' THEN 1 ELSE 0
    <3>1. CASE f = e /\ t = s
      BY <1>3, <2>1, <2>2, <3>1
    <3>2. CASE ~(f = e /\ t = s)
      <4>1. moves'[f][t] = moves[f][t]
        BY <2>1, <2>2, <3>2
      <4>2. [ email |-> f, season |-> t ] # [ email |-> e, season |-> s ]
        BY <3>2
      <4> QED BY <1>3, <4>1, <4>2
    <3> QED BY <3>1, <3>2
  <2> QED BY <1>3, <2>3, <2>4
<1> QED BY <1>1, <1>2, <1>3

LEMMA CustomerInvStep == CustomerInv /\ (CustomerNext \/ UNCHANGED customerVars) => CustomerInv'
<1> SUFFICES ASSUME CustomerInv, CustomerNext \/ UNCHANGED customerVars PROVE CustomerInv'
  OBVIOUS
<1> USE DEF CustomerInv
<1>1. CASE UNCHANGED customerVars
  BY <1>1, CodesHoldStep, RequestsHoldStep
     DEF customerVars, rows, cookies, past, CookiesHold, MovesHold
\* An action has one step for each of the four parts; the part it leaves alone
\* is one of these.
<1>2. UNCHANGED <<codes, signins>> => CodesHold' /\ DOMAIN codes \subseteq DOMAIN codes'
  BY CodesHoldStep
<1>3. UNCHANGED cookies => CookiesHold'
  BY DEF cookies, CookiesHold
<1>4. UNCHANGED <<season, moves, changes>> => MovesHold'
  BY DEF MovesHold
<1>5. ASSUME NEW b \in Browsers, request[b] # Free
      PROVE  /\ RequestHolds(b, request[b])
             /\ Answer(b) /\ DOMAIN codes \subseteq DOMAIN codes' => RequestsHold'
  BY RequestsHoldStep DEF RequestsHold
<1>6. ASSUME NEW b \in Browsers, NEW r, RequestHolds(b, r), Waits(b, r),
             DOMAIN codes \subseteq DOMAIN codes'
      PROVE  RequestsHold'
  BY <1>6, RequestsHoldStep
<1>7. ASSUME UNCHANGED request, DOMAIN codes \subseteq DOMAIN codes' PROVE RequestsHold'
  BY <1>7, RequestsHoldStep
<1>8. ASSUME NEW b \in Browsers, NEW e \in Emails, RequestOtp(b, e) PROVE CustomerInv'
  <2>1. PICK sent \in BOOLEAN :
          codes' = Append(codes, [ email |-> e, tries |-> 0, used |-> FALSE,
                                   expired |-> FALSE, mailed |-> sent ])
    BY <1>8 DEF RequestOtp
  <2>2. [ email |-> e, tries |-> 0, used |-> FALSE, expired |-> FALSE, mailed |-> sent ] \in CodeRow
    BY DEF CodeRow
  <2>3. CodesHold' /\ DOMAIN codes \subseteq DOMAIN codes'
    BY <1>8, <2>1, <2>2, CodesHoldStep DEF RequestOtp, past
  <2> QED BY <1>3, <1>4, <1>7, <1>8, <2>3 DEF RequestOtp, rows, past
<1>9. CASE CodeExpires
  <2>1. CodesHold' /\ DOMAIN codes \subseteq DOMAIN codes'
    BY <1>9, CodesHoldStep DEF CodeExpires, past
  <2> QED BY <1>3, <1>4, <1>7, <1>9, <2>1 DEF CodeExpires, rows, past
<1>10. CASE SeasonTurns
  <2>1. MovesHold'
    BY <1>10, AccountsAssumption DEF SeasonTurns, MovesHold, rows, past
  <2> QED BY <1>2, <1>3, <1>7, <1>10, <2>1 DEF SeasonTurns, past
<1>11. ASSUME NEW b \in Browsers, NEW e \in Emails, NEW digits \in Known(b) \cup {0},
              FindCode(b, e, digits)
       PROVE  CustomerInv'
  <2>1. PICK i \in DOMAIN codes :
          /\ IsActive(e, i)
          /\ Waits(b, [ pc |-> IF digits = i THEN "consume" ELSE "missed", email |-> e, code |-> i ])
    BY <1>11 DEF FindCode
  <2>2. codes[i].email = e
    BY <2>1 DEF IsActive, Live
  <2>3. i # 0
    BY DEF CodesHold
  <2>4. digits = i => e \in Reads[b]
    BY <2>2, <2>3 DEF Known
  <2>5. RequestHolds(b, [ pc |-> IF digits = i THEN "consume" ELSE "missed", email |-> e, code |-> i ])
    BY <2>4 DEF RequestHolds
  <2> QED BY <1>2, <1>3, <1>4, <1>6, <1>11, <2>1, <2>5 DEF FindCode, rows, past
<1>12. ASSUME NEW b \in Browsers, MissCode(b) PROVE CustomerInv'
  <2>1. request[b] # Free
    BY <1>12 DEF MissCode, Free
  <2>2. request[b].code \in DOMAIN codes
    BY <1>5, <1>12, <2>1 DEF MissCode, RequestHolds
  <2>3. CodesHold' /\ DOMAIN codes \subseteq DOMAIN codes'
    BY <1>12, <2>2, CodesHoldStep DEF MissCode, past
  <2> QED BY <1>3, <1>4, <1>5, <1>12, <2>1, <2>3 DEF MissCode, rows, past
<1>13. ASSUME NEW b \in Browsers, Consume(b) PROVE CustomerInv'
  <2> DEFINE r == request[b]
  <2>1. r # Free
    BY <1>13 DEF Consume, Free
  <2>2. r.code \in DOMAIN codes /\ r.email \in Reads[b]
    BY <1>5, <1>13, <2>1 DEF Consume, RequestHolds
  <2>3. CookiesHold' /\ MovesHold'
    BY <1>3, <1>4, <1>13 DEF Consume, rows
  <2>4. CASE codes[r.code].used
    BY <1>2, <1>5, <1>13, <2>1, <2>3, <2>4 DEF Consume
  <2>5. CASE ~codes[r.code].used
    <3>1. /\ codes' = [ codes EXCEPT ![r.code].used = TRUE ]
          /\ signins' = [ signins EXCEPT ![r.code] = @ + 1 ]
          /\ Waits(b, [ pc |-> "known", email |-> r.email ])
      BY <1>13, <2>5 DEF Consume
    <3>2. CodesHold' /\ DOMAIN codes \subseteq DOMAIN codes'
      BY <2>2, <2>5, <3>1, CodesHoldStep
    <3>3. RequestHolds(b, [ pc |-> "known", email |-> r.email ])
      BY <2>2 DEF RequestHolds
    <3> QED BY <1>6, <2>3, <3>1, <3>2, <3>3
  <2> QED BY <2>4, <2>5
<1>14. ASSUME NEW b \in Browsers, SignIn(b) PROVE CustomerInv'
  <2>1. request[b] # Free
    BY <1>14 DEF SignIn, Free
  <2>2. request[b].email \in Reads[b]
    BY <1>5, <1>14, <2>1 DEF SignIn, RequestHolds
  <2>3. CookiesHold'
    BY <1>14, <2>2, CookiesHoldStep DEF SignIn
  <2> QED BY <1>2, <1>4, <1>5, <1>14, <2>1, <2>3 DEF SignIn, rows, past
<1>15. ASSUME NEW b \in Browsers, NEW id \in Ids, Signup(b, id) PROVE CustomerInv'
  <2>1. pending[b] \in Reads[b]
    BY <1>15 DEF Signup, CookiesHold
  <2>2. RequestHolds(b, [ pc |-> "create", email |-> pending[b], id |-> id ])
    BY <2>1 DEF RequestHolds
  <2> QED BY <1>2, <1>3, <1>4, <1>6, <1>15, <2>2 DEF Signup, rows, past
<1>16. ASSUME NEW b \in Browsers, CreateProfile(b) PROVE CustomerInv'
  <2> DEFINE r == request[b]
  <2>1. r # Free
    BY <1>16 DEF CreateProfile, Free
  <2>2. r.email \in Reads[b]
    BY <1>5, <1>16, <2>1 DEF CreateProfile, RequestHolds
  <2>3. RequestHolds(b, [ pc |-> "welcome", email |-> r.email, id |-> r.id ])
    BY <2>2 DEF RequestHolds
  <2>4. RequestsHold'
    BY <1>2, <1>5, <1>6, <1>16, <2>1, <2>3 DEF CreateProfile, past
  <2> QED BY <1>2, <1>3, <1>4, <1>16, <2>4 DEF CreateProfile, past
<1>17. ASSUME NEW b \in Browsers, Welcome(b) PROVE CustomerInv'
  <2>1. request[b] # Free
    BY <1>17 DEF Welcome, Free
  <2>2. request[b].email \in Reads[b]
    BY <1>5, <1>17, <2>1 DEF Welcome, RequestHolds
  <2>3. CookiesHold'
    BY <1>17, <2>2, CookiesHoldStep DEF Welcome
  <2> QED BY <1>2, <1>4, <1>5, <1>17, <2>1, <2>3 DEF Welcome, rows, past
<1>18. ASSUME NEW b \in Browsers, PendingExpires(b) \/ Logout(b) PROVE CustomerInv'
  <2>1. CookiesHold'
    BY <1>18, CookiesHoldStep DEF PendingExpires, Logout
  <2> QED BY <1>2, <1>4, <1>7, <1>18, <2>1 DEF PendingExpires, Logout, rows, past
<1>19. ASSUME NEW b \in Browsers, NEW id \in Ids, PlanChange(b, id) PROVE CustomerInv'
  <2> DEFINE e == session[b].email
  <2>1. e \in Reads[b]
    BY <1>19 DEF PlanChange, CookiesHold
  <2>2. CodesHold' /\ MovesHold' /\ DOMAIN codes \subseteq DOMAIN codes'
    BY <1>2, <1>4, <1>19 DEF PlanChange, rows, past
  <2>3. CASE profile[e] = id
    <3>1. CookiesHold'
      BY <1>19, <2>1, <2>3, CookiesHoldStep DEF PlanChange
    <3> QED BY <1>7, <1>19, <2>2, <2>3, <3>1 DEF PlanChange
  <2>4. CASE profile[e] # id
    <3>1. RequestHolds(b, [ pc |-> "change", email |-> e, id |-> id, season |-> season ])
      BY <2>1 DEF RequestHolds, MovesHold
    <3>2. Waits(b, [ pc |-> "change", email |-> e, id |-> id, season |-> season ]) /\ UNCHANGED cookies
      BY <1>19, <2>4 DEF PlanChange, cookies
    <3> QED BY <1>3, <1>6, <2>2, <3>1, <3>2
  <2> QED BY <2>3, <2>4
<1>20. ASSUME NEW b \in Browsers, WriteChange(b) PROVE CustomerInv'
  <2> DEFINE r == request[b]
  <2>1. r # Free
    BY <1>20 DEF WriteChange, Free
  <2>2. r.email \in Reads[b] /\ r.season \in 0..MaxSeasons
    BY <1>5, <1>20, <2>1 DEF WriteChange, RequestHolds
  <2>3. CodesHold' /\ RequestsHold'
    BY <1>2, <1>5, <1>20, <2>1 DEF WriteChange
  <2>4. CASE Conflicts(r) \/ TakenBeside(r.email, r.id)
    BY <1>3, <1>4, <1>20, <2>3, <2>4 DEF WriteChange, cookies
  <2>5. CASE ~(Conflicts(r) \/ TakenBeside(r.email, r.id))
    <3>1. /\ changes' = changes \cup Recorded(r)
          /\ moves' = IF r.season = 0 THEN moves
                      ELSE [ moves EXCEPT ![r.email][r.season] = @ + 1 ]
          /\ Enters(b, r.email, r.id)
          /\ UNCHANGED <<season, pending>>
      BY <1>20, <2>5 DEF WriteChange
    <3>2. CookiesHold'
      BY <2>2, <3>1, CookiesHoldStep
    <3>3. r.email \in Emails
      BY <2>2, AccountsAssumption
    <3>4. \/ r.season = 0 /\ UNCHANGED <<season, moves, changes>>
          \/ /\ r.season # 0 /\ [ email |-> r.email, season |-> r.season ] \notin changes
             /\ changes' = changes \cup { [ email |-> r.email, season |-> r.season ] }
             /\ moves' = [ moves EXCEPT ![r.email][r.season] = @ + 1 ]
             /\ UNCHANGED season
      BY <2>5, <3>1 DEF Conflicts, Recorded, Row
    <3>5. MovesHold'
      BY <2>2, <3>3, <3>4, MovesHoldStep
    <3> QED BY <2>3, <3>2, <3>5
  <2> QED BY <2>4, <2>5
<1>21. ASSUME NEW b \in Browsers, Dies(b) PROVE CustomerInv'
  <2>1. CodesHold' /\ CookiesHold' /\ MovesHold' /\ DOMAIN codes \subseteq DOMAIN codes'
    BY <1>2, <1>3, <1>4, <1>21 DEF Dies, rows, past
  <2> QED BY <1>5, <1>21, <2>1 DEF Dies
<1> QED BY <1>1, <1>8, <1>9, <1>10, <1>11, <1>12, <1>13, <1>14, <1>15, <1>16, <1>17,
           <1>18, <1>19, <1>20, <1>21
        DEF CustomerNext, VerifyOtp, CompleteSignup, SaveLinkedPlayerId

------------------------------------------------------------------------------
(* Reports to the ad platform.                                             *)

Held == [ order : Bought, tries : Nat ]
Sending == [ at |-> "send" ]
StatusRow == [ status : { "unpaid", "sold" } \cup CalledOff, paid : Nat,
               tries : 0..MaxAttempts, sent : BOOLEAN ]

AlertIsDue(o) == step.at = "alert" /\ Current.order = o

\* How many alerts an order with n failed tries may have seen.
MostAlerts(n) == IF n >= MaxAttempts THEN 2 ELSE IF n >= 1 THEN 1 ELSE 0

RowsHold ==
  /\ day \in Nat /\ row \in [ Bought -> StatusRow ]
  /\ \A o \in Bought : row[o].sent => o \in counted
  /\ undone \subseteq Bought
  /\ \A o \in undone : /\ row[o].status \in CalledOff
                       /\ o \in counted => row[o].status = "refunded"

\* One sweep at a time: what it read of the tries is still true.
BatchHolds ==
  /\ batch \in Seq(Held)
  /\ \A i, j \in DOMAIN batch : i # j => batch[i].order # batch[j].order
  /\ \A i \in DOMAIN batch :
       /\ batch[i].tries < MaxAttempts
       /\ batch[i].order \in undone => row[batch[i].order].status = "refunded"
       /\ row[batch[i].order].tries =
            IF i = 1 /\ step.at = "alert" THEN batch[i].tries + 1 ELSE batch[i].tries

StepHolds ==
  /\ step \in { Asleep, Sending, [ at |-> "mark" ] } \cup [ at : { "book", "alert" }, again : BOOLEAN ]
  /\ step = Asleep <=> batch = << >>
  /\ step.at = "mark" => Current.order \in counted
  /\ step.at = "alert" => Alerting(row[Current.order].tries, step.again)

\* An alert that is due has not been counted yet.
AlertsHold ==
  /\ alerts \in [ Bought -> Nat ]
  /\ \A o \in Bought :
       /\ alerts[o] <= MostAlerts(IF AlertIsDue(o) THEN row[o].tries - 1 ELSE row[o].tries)
       /\ row[o].tries >= MaxAttempts => alerts[o] > 0 \/ o \in cut \/ AlertIsDue(o)

ReportsInv == RowsHold /\ BatchHolds /\ StepHolds /\ AlertsHold

\* What was called off in time has not become anything else since.
LEMMA UndoneIsCalledOff ==
  ASSUME ReportsInv, NEW o \in undone
  PROVE  /\ o \in Bought /\ row[o].status \in CalledOff
         /\ o \in counted => row[o].status = "refunded"
BY DEF ReportsInv, RowsHold

LEMMA ReportsInvInit == ReportsInit => ReportsInv
<1> SUFFICES ASSUME ReportsInit PROVE ReportsInv
  OBVIOUS
<1>1. RowsHold
  BY ConversionsAssumption DEF ReportsInit, RowsHold, NotPaid, StatusRow
<1>2. BatchHolds
  BY DEF ReportsInit, BatchHolds
<1>3. StepHolds
  BY DEF ReportsInit, StepHolds, Asleep
<1>4. AlertsHold
  BY ConversionsAssumption DEF ReportsInit, AlertsHold, NotPaid, AlertIsDue, Asleep, MostAlerts
<1> QED BY <1>1, <1>2, <1>3, <1>4 DEF ReportsInv

LEMMA CurrentIsHeld ==
  ASSUME BatchHolds, StepHolds, step # Asleep
  PROVE  /\ 1 \in DOMAIN batch /\ Current = batch[1]
         /\ Current.order \in Bought /\ Current.tries \in Nat /\ Current.tries < MaxAttempts
         /\ Current.order \in undone => row[Current.order].status = "refunded"
         /\ row[Current.order].tries = IF step.at = "alert" THEN Current.tries + 1 ELSE Current.tries
<1>1. Len(batch) \in Nat /\ Len(batch) # 0 /\ 1 \in DOMAIN batch
  BY DEF BatchHolds, StepHolds
<1>2. Current = batch[1] /\ batch[1] \in Held
  BY <1>1 DEF BatchHolds, Current
<1> QED BY <1>1, <1>2 DEF BatchHolds, Held

\* After an order the sweep holds the others as it did, or none.
LEMMA SweepGoesOn ==
  ASSUME BatchHolds, StepHolds, step # Asleep, NEW on \in BOOLEAN, Goes(on),
         \A o \in Bought : o # Current.order => row'[o].tries = row[o].tries,
         \A o \in Bought : row'[o].status = row[o].status,
         UNCHANGED undone
  PROVE  BatchHolds' /\ StepHolds' /\ step' \in { Asleep, Sending }
<1>1. step' \in { Asleep, Sending } /\ (step' = Asleep <=> batch' = << >>)
  BY DEF Goes, Asleep, Sending
<1>2. StepHolds'
  BY <1>1 DEF StepHolds, Asleep, Sending
<1>3. step'.at # "alert"
  BY <1>1 DEF Asleep, Sending
<1>4. CASE ~on
  <2>1. batch' = << >> /\ DOMAIN batch' = {} /\ batch' \in Seq(Held)
    BY <1>4 DEF Goes
  <2> QED BY <1>1, <1>2, <2>1 DEF BatchHolds
<1>5. CASE on
  <2>1. batch' = Tail(batch) /\ batch # << >>
    BY <1>5 DEF Goes, StepHolds
  <2>2. batch' \in Seq(Held)
    BY <2>1 DEF BatchHolds
  <2>3. ASSUME NEW i \in DOMAIN batch'
        PROVE  i + 1 \in DOMAIN batch /\ i \in Nat /\ i # 0 /\ batch'[i] = batch[i + 1]
    BY <2>1 DEF BatchHolds
  <2>4. ASSUME NEW i \in DOMAIN batch', NEW j \in DOMAIN batch', i # j
        PROVE  batch'[i].order # batch'[j].order
    <3>1. i + 1 # j + 1
      BY <2>3, <2>4
    <3> QED BY <2>3, <3>1 DEF BatchHolds
  <2>5. ASSUME NEW i \in DOMAIN batch'
        PROVE  /\ batch'[i].tries < MaxAttempts
               /\ batch'[i].order \in undone' => row'[batch'[i].order].status = "refunded"
               /\ row'[batch'[i].order].tries =
                    IF i = 1 /\ step'.at = "alert" THEN batch'[i].tries + 1 ELSE batch'[i].tries
    <3>1. i + 1 # 1 /\ 1 \in DOMAIN batch /\ Current = batch[1]
      BY <2>3, CurrentIsHeld
    <3>2. batch[i + 1].order # batch[1].order
      BY <2>3, <3>1 DEF BatchHolds
    <3>3. batch[i + 1] \in Held
      BY <2>3 DEF BatchHolds
    <3>4. /\ batch[i + 1].tries < MaxAttempts
          /\ batch[i + 1].order \in undone => row[batch[i + 1].order].status = "refunded"
          /\ row[batch[i + 1].order].tries = batch[i + 1].tries
      BY <2>3, <3>1 DEF BatchHolds
    <3> QED BY <1>3, <2>3, <3>1, <3>2, <3>3, <3>4 DEF Held
  <2> QED BY <1>1, <1>2, <2>2, <2>4, <2>5 DEF BatchHolds
<1> QED BY <1>2, <1>1, <1>4, <1>5

\* What happens to an order between two steps of the sweep.
LEMMA OrderChanges ==
  ASSUME ReportsInv, NEW o \in Bought, NEW new \in StatusRow,
         row' = [ row EXCEPT ![o] = new ], new.tries = row[o].tries, new.sent = row[o].sent,
         UNCHANGED <<day, batch, step, counted, alerts, cut>>,
         \/ undone' = undone \ {o}
         \/ /\ undone' = undone \cup {o} /\ ~HeldBySweep(o) /\ o \notin counted
            /\ new.status \in CalledOff
  PROVE  ReportsInv'
<1>1. \A p \in Bought : /\ row'[p].tries = row[p].tries /\ row'[p].sent = row[p].sent
                        /\ p # o => row'[p].status = row[p].status
                        /\ row'[o].status = new.status
  BY DEF ReportsInv, RowsHold
<1>2. \A i \in DOMAIN batch : batch[i] \in Held
  BY DEF ReportsInv, BatchHolds
<1>3. \A i \in DOMAIN batch : batch[i].order \in Bought
  BY <1>2 DEF Held
<1>4. RowsHold'
  <2>1. row' \in [ Bought -> StatusRow ]
    BY DEF ReportsInv, RowsHold
  <2>2. \A p \in undone' : /\ p \in Bought /\ row'[p].status \in CalledOff
                           /\ p \in counted => row'[p].status = "refunded"
    BY <1>1 DEF ReportsInv, RowsHold
  <2> QED BY <1>1, <2>1, <2>2 DEF ReportsInv, RowsHold
<1>5. BatchHolds'
  BY <1>1, <1>3 DEF ReportsInv, BatchHolds, HeldBySweep
<1>6. StepHolds'
  <2>1. step # Asleep => Current.order \in Bought
    BY CurrentIsHeld DEF ReportsInv
  <2>2. Current' = Current
    BY DEF Current
  <2> QED BY <1>1, <2>1, <2>2 DEF ReportsInv, StepHolds, Asleep
<1>7. AlertsHold'
  <2>1. \A p \in Bought : AlertIsDue(p)' = AlertIsDue(p)
    BY DEF AlertIsDue, Current
  <2> QED BY <1>1, <2>1 DEF ReportsInv, AlertsHold
<1> QED BY <1>4, <1>5, <1>6, <1>7 DEF ReportsInv

LEMMA FindUnreportedHolds == ReportsInv /\ FindUnreported => ReportsInv'
<1> SUFFICES ASSUME ReportsInv, FindUnreported PROVE ReportsInv'
  OBVIOUS
<1>1. PICK q \in OldestFirst(Unreported) :
        batch' = [ i \in 1..(IF Len(q) < BatchLimit THEN Len(q) ELSE BatchLimit) |->
                     [ order |-> q[i], tries |-> row[q[i]].tries ] ]
  BY DEF FindUnreported
<1> DEFINE n == IF Len(q) < BatchLimit THEN Len(q) ELSE BatchLimit
<1>2. Cardinality(Unreported) \in Nat
  <2>1. Unreported \subseteq Bought
    BY DEF Unreported
  <2> QED BY <2>1, FS_Subset, FS_CardinalityType, ConversionsAssumption
<1>3. /\ q \in [ 1..Cardinality(Unreported) -> Unreported ]
      /\ \A i, j \in 1..Cardinality(Unreported) : i # j => q[i] # q[j]
  BY DEF OldestFirst, SetToSeqs
<1>4. Len(q) = Cardinality(Unreported) /\ n \in Nat /\ n <= Len(q)
  BY <1>2, <1>3, ConversionsAssumption
<1>5. \A i \in 1..n : /\ q[i] \in Bought /\ row[q[i]].tries \in Nat /\ row[q[i]].tries < MaxAttempts
                      /\ row[q[i]].status \notin NotASale
  <2> SUFFICES ASSUME NEW i \in 1..n
               PROVE  /\ q[i] \in Bought /\ row[q[i]].tries \in Nat /\ row[q[i]].tries < MaxAttempts
                      /\ row[q[i]].status \notin NotASale
    OBVIOUS
  <2>1. q[i] \in Unreported
    BY <1>2, <1>3, <1>4
  <2>2. /\ q[i] \in Bought /\ row[q[i]].tries < MaxAttempts
        /\ row[q[i]].status \notin NotASale
    BY <2>1 DEF Unreported
  <2>3. row[q[i]] \in StatusRow
    BY <2>2 DEF ReportsInv, RowsHold
  <2> QED BY <2>2, <2>3, ConversionsAssumption DEF StatusRow
<1>6. step' \in { Asleep, Sending } /\ (step' = Asleep <=> batch' = << >>)
  BY DEF FindUnreported, Asleep, Sending
<1>7. UNCHANGED <<day, row, counted, alerts, undone, cut>> /\ step = Asleep
  BY DEF FindUnreported
<1> HIDE DEF n
<1>8. batch' = [ i \in 1..n |-> [ order |-> q[i], tries |-> row[q[i]].tries ] ]
  BY <1>1 DEF n
<1>9. BatchHolds'
  <2>1. batch' \in Seq(Held) /\ DOMAIN batch' = 1..n
    BY <1>4, <1>5, <1>8 DEF Held
  <2>2. \A i \in 1..n : batch'[i].order = q[i] /\ batch'[i].tries = row[q[i]].tries
    BY <1>8
  <2>3. \A i, j \in 1..n : i # j => q[i] # q[j]
    BY <1>2, <1>3, <1>4
  <2>4. \A i \in 1..n : q[i] \in undone => row[q[i]].status = "refunded"
    BY <1>5, UndoneIsCalledOff DEF CalledOff, NotASale
  <2>5. step'.at # "alert"
    BY <1>6 DEF Asleep, Sending
  <2> QED BY <1>5, <1>7, <2>1, <2>2, <2>3, <2>4, <2>5 DEF BatchHolds
<1>10. RowsHold'
  BY <1>7 DEF ReportsInv, RowsHold
<1>11. StepHolds'
  BY <1>6 DEF StepHolds, Asleep, Sending
<1>12. AlertsHold'
  BY <1>6, <1>7 DEF ReportsInv, AlertsHold, AlertIsDue, Asleep, Sending
<1> QED BY <1>9, <1>10, <1>11, <1>12 DEF ReportsInv

LEMMA SendHolds == ReportsInv /\ Send => ReportsInv'
<1> SUFFICES ASSUME ReportsInv, Send PROVE ReportsInv'
  OBVIOUS
<1>1. PICK outcome \in { "ok", "retry", "refused" }, heard \in BOOLEAN :
        /\ outcome = "ok" => heard
        /\ counted' = IF heard THEN counted \cup { Current.order } ELSE counted
        /\ step' = IF outcome = "ok" THEN [ at |-> "mark" ]
                                     ELSE [ at |-> "book", again |-> outcome = "retry" ]
  BY DEF Send
<1>2. UNCHANGED <<day, row, batch, alerts, undone, cut>> /\ step.at = "send" /\ Current' = Current
  BY DEF Send, Current
<1>3. step # Asleep /\ step'.at \in { "mark", "book" }
  BY <1>1, <1>2 DEF Asleep
<1>4. /\ Current.order \in Bought
      /\ Current.order \in undone => row[Current.order].status = "refunded"
  BY <1>3, CurrentIsHeld DEF ReportsInv
<1>5. RowsHold'
  BY <1>1, <1>2, <1>4 DEF ReportsInv, RowsHold
<1>6. BatchHolds'
  BY <1>2, <1>3 DEF ReportsInv, BatchHolds
<1>7. StepHolds'
  <2>1. step' \in { [ at |-> "mark" ] } \cup [ at : { "book", "alert" }, again : BOOLEAN ]
    BY <1>1
  <2>2. step' # Asleep /\ batch' # << >>
    BY <1>2, <1>3 DEF Asleep, ReportsInv, StepHolds
  <2>3. step'.at = "mark" => Current'.order \in counted'
    BY <1>1, <1>2
  <2> QED BY <1>3, <2>1, <2>2, <2>3 DEF StepHolds
<1>8. AlertsHold'
  BY <1>2, <1>3 DEF ReportsInv, AlertsHold, AlertIsDue
<1> QED BY <1>5, <1>6, <1>7, <1>8 DEF ReportsInv

LEMMA MarkReportedHolds == ReportsInv /\ MarkReported => ReportsInv'
<1> SUFFICES ASSUME ReportsInv, MarkReported PROVE ReportsInv'
  OBVIOUS
<1> DEFINE o == Current.order
<1>1. /\ step.at = "mark" /\ step # Asleep
      /\ row' = [ row EXCEPT ![o].sent = TRUE ] /\ Goes(TRUE)
      /\ UNCHANGED <<day, counted, alerts, undone, cut>>
  <2>1. step.at = "mark" /\ row' = [ row EXCEPT ![o].sent = TRUE ] /\ Goes(TRUE)
    BY Zenon DEF MarkReported
  <2>2. UNCHANGED <<day, counted, alerts, undone, cut>>
    BY DEF MarkReported
  <2>3. step # Asleep
    BY <2>1 DEF Asleep
  <2> QED BY <2>1, <2>2, <2>3, Zenon
<1>2. o \in Bought /\ o \in counted
  BY <1>1, CurrentIsHeld DEF ReportsInv, StepHolds
<1> HIDE DEF o
<1>3. row[o] \in StatusRow
  BY <1>2 DEF ReportsInv, RowsHold
<1> DEFINE new == [ row[o] EXCEPT !.sent = TRUE ]
<1>4. /\ new \in StatusRow /\ new.tries = row[o].tries /\ new.status = row[o].status
      /\ row' = [ row EXCEPT ![o] = new ]
  BY <1>1, <1>3 DEF StatusRow
<1> HIDE DEF new
<1>5. /\ row' \in [ Bought -> StatusRow ]
      /\ \A p \in Bought : /\ row'[p].tries = row[p].tries /\ row'[p].status = row[p].status
                           /\ p # o => row'[p].sent = row[p].sent
  BY <1>2, <1>4 DEF ReportsInv, RowsHold
<1>6. RowsHold'
  BY <1>1, <1>2, <1>5 DEF ReportsInv, RowsHold
<1>7. BatchHolds' /\ StepHolds' /\ step' \in { Asleep, Sending }
  BY <1>1, <1>5, SweepGoesOn DEF ReportsInv
<1>8. AlertsHold'
  BY <1>1, <1>5, <1>7 DEF ReportsInv, AlertsHold, AlertIsDue, Asleep, Sending
<1> QED BY <1>6, <1>7, <1>8 DEF ReportsInv

LEMMA RecordHolds == ReportsInv /\ RecordFailedAttempt => ReportsInv'
<1> SUFFICES ASSUME ReportsInv, RecordFailedAttempt PROVE ReportsInv'
  OBVIOUS
<1> DEFINE o == Current.order
<1>1. /\ step.at = "book" /\ step # Asleep
      /\ row' = [ row EXCEPT ![o].tries = @ + 1 ]
      /\ UNCHANGED <<day, counted, alerts, undone, cut>>
  BY DEF RecordFailedAttempt, Asleep
<1>2. /\ o \in Bought /\ Current.tries < MaxAttempts /\ Current.tries \in Nat
      /\ row[o].tries = Current.tries
  BY <1>1, CurrentIsHeld DEF ReportsInv
<1> HIDE DEF o
<1>3. row[o] \in StatusRow
  BY <1>2 DEF ReportsInv, RowsHold
<1> DEFINE new == [ row[o] EXCEPT !.tries = @ + 1 ]
<1>4. new \in StatusRow /\ new.tries = Current.tries + 1
  BY <1>2, <1>3, ConversionsAssumption DEF StatusRow
<1>5. /\ new.status = row[o].status /\ new.sent = row[o].sent
      /\ row' = [ row EXCEPT ![o] = new ]
  BY <1>1, <1>3 DEF StatusRow
<1> HIDE DEF new
<1>6. /\ row' \in [ Bought -> StatusRow ]
      /\ \A p \in Bought : /\ row'[p].status = row[p].status /\ row'[p].sent = row[p].sent
                           /\ p # o => row'[p].tries = row[p].tries
      /\ row'[o].tries = Current.tries + 1
  BY <1>2, <1>4, <1>5 DEF ReportsInv, RowsHold
<1>7. RowsHold'
  BY <1>1, <1>6 DEF ReportsInv, RowsHold
<1>8. step.again \in BOOLEAN
  BY <1>1 DEF ReportsInv, StepHolds, Asleep, Sending
<1>9. \A p \in Bought : /\ alerts[p] \in Nat /\ row[p].tries \in 0..MaxAttempts
                        /\ alerts[p] <= MostAlerts(row[p].tries)
                        /\ row[p].tries >= MaxAttempts => alerts[p] > 0 \/ p \in cut
  <2>1. \A p \in Bought : row[p] \in StatusRow
    BY DEF ReportsInv, RowsHold
  <2> QED BY <1>1, <2>1 DEF ReportsInv, AlertsHold, AlertIsDue, StatusRow
<1>10. CASE Alerting(Current.tries + 1, step.again)
  <2>1. step' = [ step EXCEPT !.at = "alert" ] /\ UNCHANGED batch /\ Current' = Current
    BY <1>10 DEF RecordFailedAttempt, Current
  <2>2. /\ step' \in [ at : { "book", "alert" }, again : BOOLEAN ]
        /\ step'.at = "alert" /\ step'.again = step.again
    BY <1>1, <2>1 DEF ReportsInv, StepHolds, Asleep, Sending
  <2>3. StepHolds'
    BY <1>1, <1>6, <1>10, <2>1, <2>2 DEF ReportsInv, StepHolds, Asleep, o
  <2>4. BatchHolds'
    <3>1. /\ 1 \in DOMAIN batch /\ o = batch[1].order /\ Current.tries = batch[1].tries
          /\ \A i \in DOMAIN batch : batch[i] \in Held
      BY <1>1, CurrentIsHeld DEF ReportsInv, BatchHolds, o
    <3>2. \A i \in DOMAIN batch : i # 1 => batch[i].order # o
      BY <3>1 DEF ReportsInv, BatchHolds
    <3>3. \A i \in DOMAIN batch : batch[i].order \in Bought
      BY <3>1 DEF Held
    <3> QED BY <1>1, <1>6, <2>1, <2>2, <3>1, <3>2, <3>3 DEF ReportsInv, BatchHolds
  <2>5. AlertsHold'
    <3>1. \A p \in Bought : AlertIsDue(p)' <=> p = o
      BY <2>1, <2>2 DEF AlertIsDue, o
    <3> QED BY <1>1, <1>2, <1>6, <1>9, <3>1 DEF ReportsInv, AlertsHold
  <2> QED BY <1>7, <2>3, <2>4, <2>5 DEF ReportsInv
<1>11. CASE ~Alerting(Current.tries + 1, step.again)
  <2>1. Goes(step.again)
    BY <1>11 DEF RecordFailedAttempt
  <2>2. BatchHolds' /\ StepHolds' /\ step' \in { Asleep, Sending }
    BY <1>1, <1>6, <1>8, <2>1, SweepGoesOn DEF ReportsInv, o
  <2>3. AlertsHold'
    <3>1. \A p \in Bought : ~AlertIsDue(p)'
      BY <2>2 DEF AlertIsDue, Asleep, Sending
    <3>2. Current.tries + 1 < MaxAttempts
      BY <1>2, <1>11, ConversionsAssumption DEF Alerting
    <3>3. MostAlerts(Current.tries) <= MostAlerts(Current.tries + 1)
      BY <1>2, <3>2, ConversionsAssumption DEF MostAlerts
    <3>4. \A n : MostAlerts(n) \in Nat
      BY DEF MostAlerts
    <3>5. alerts[o] <= MostAlerts(Current.tries + 1)
      BY <1>2, <1>9, <3>3, <3>4
    <3> QED BY <1>1, <1>2, <1>6, <1>9, <3>1, <3>2, <3>5, ConversionsAssumption DEF ReportsInv, AlertsHold
  <2> QED BY <1>7, <2>2, <2>3 DEF ReportsInv
<1> QED BY <1>10, <1>11

LEMMA AlertHolds == ReportsInv /\ Alert => ReportsInv'
<1> SUFFICES ASSUME ReportsInv, Alert PROVE ReportsInv'
  OBVIOUS
<1> DEFINE o == Current.order
<1>1. /\ step.at = "alert" /\ step # Asleep /\ Goes(step.again)
      /\ alerts' = [ alerts EXCEPT ![o] = @ + 1 ]
      /\ UNCHANGED <<day, row, counted, undone, cut>>
  BY DEF Alert, Asleep
<1>2. /\ o \in Bought /\ Current.tries < MaxAttempts /\ Current.tries \in Nat
      /\ row[o].tries = Current.tries + 1
  BY <1>1, CurrentIsHeld DEF ReportsInv
<1>3. step.again \in BOOLEAN /\ Alerting(row[o].tries, step.again)
  BY <1>1 DEF ReportsInv, StepHolds, Asleep, Sending
<1>4. BatchHolds' /\ StepHolds' /\ step' \in { Asleep, Sending }
  BY <1>1, <1>3, SweepGoesOn DEF ReportsInv
<1>5. RowsHold'
  BY <1>1 DEF ReportsInv, RowsHold
<1>6. \A p \in Bought : AlertIsDue(p) <=> p = o
  BY <1>1 DEF AlertIsDue
<1>7. alerts[o] \in Nat /\ alerts[o] <= MostAlerts(Current.tries)
  BY <1>2, <1>6 DEF ReportsInv, AlertsHold
<1> HIDE DEF o
<1>8. alerts[o] + 1 <= MostAlerts(row[o].tries)
  BY <1>2, <1>3, <1>7, ConversionsAssumption DEF MostAlerts, Alerting
<1>9. AlertsHold'
  <2>1. \A p \in Bought : ~AlertIsDue(p)'
    BY <1>4 DEF AlertIsDue, Asleep, Sending
  <2>2. alerts' \in [ Bought -> Nat ] /\ alerts'[o] = alerts[o] + 1 /\ alerts'[o] > 0
    BY <1>1, <1>2, <1>7 DEF ReportsInv, AlertsHold
  <2>3. \A p \in Bought : p # o => alerts'[p] = alerts[p]
    BY <1>1 DEF ReportsInv, AlertsHold
  <2> QED BY <1>1, <1>6, <1>8, <2>1, <2>2, <2>3 DEF ReportsInv, AlertsHold
<1> QED BY <1>4, <1>5, <1>9 DEF ReportsInv

LEMMA BreaksHolds == ReportsInv /\ Breaks => ReportsInv'
<1> SUFFICES ASSUME ReportsInv, Breaks PROVE ReportsInv'
  OBVIOUS
<1>1. /\ step' = Asleep /\ batch' = << >>
      /\ cut' = IF step.at = "alert" THEN cut \cup { Current.order } ELSE cut
      /\ UNCHANGED <<day, row, counted, alerts, undone>>
  BY DEF Breaks
<1>2. RowsHold' /\ StepHolds'
  BY <1>1 DEF ReportsInv, RowsHold, StepHolds, Asleep
<1>3. BatchHolds'
  BY <1>1 DEF BatchHolds
<1>4. AlertsHold'
  <2>1. \A p \in Bought : ~AlertIsDue(p)'
    BY <1>1 DEF AlertIsDue, Asleep
  <2>2. \A p \in Bought : row[p].tries \in Nat /\ row[p].tries <= MaxAttempts /\ alerts[p] \in Nat
    <3>1. \A p \in Bought : row[p] \in StatusRow
      BY DEF ReportsInv, RowsHold
    <3> QED BY <3>1, ConversionsAssumption DEF StatusRow, ReportsInv, AlertsHold
  <2>3. \A n \in Nat : MostAlerts(n - 1) <= MostAlerts(n) /\ MostAlerts(n - 1) \in Nat /\ MostAlerts(n) \in Nat
    BY ConversionsAssumption DEF MostAlerts
  <2>4. \A p \in Bought : alerts[p] <= MostAlerts(row[p].tries)
    BY <2>2, <2>3 DEF ReportsInv, AlertsHold
  <2>5. \A p \in Bought : row[p].tries >= MaxAttempts => alerts[p] > 0 \/ p \in cut'
    BY <1>1 DEF ReportsInv, AlertsHold, AlertIsDue
  <2> QED BY <1>1, <2>1, <2>4, <2>5 DEF ReportsInv, AlertsHold
<1> QED BY <1>2, <1>3, <1>4 DEF ReportsInv

LEMMA ReportsInvStep == ReportsInv /\ (ReportsNext \/ UNCHANGED reportVars) => ReportsInv'
<1> SUFFICES ASSUME ReportsInv, ReportsNext \/ UNCHANGED reportVars PROVE ReportsInv'
  OBVIOUS
<1>1. ASSUME UNCHANGED <<row, batch, step, counted, alerts, undone, cut>>, day' \in Nat
      PROVE  ReportsInv'
  BY <1>1 DEF ReportsInv, RowsHold, BatchHolds, StepHolds, AlertsHold, AlertIsDue, Current
<1>2. CASE UNCHANGED reportVars \/ DayPasses
  BY <1>1, <1>2 DEF reportVars, DayPasses, ReportsInv, RowsHold
<1>3. ASSUME NEW o \in Bought, Paid(o) PROVE ReportsInv'
  <2> DEFINE new == [ row[o] EXCEPT !.status = "sold", !.paid = day ]
  <2>1. row[o] \in StatusRow /\ day \in Nat /\ row[o].status = "unpaid" /\ row' = [ row EXCEPT ![o] = new ]
    BY <1>3 DEF Paid, ReportsInv, RowsHold
  <2>2. new \in StatusRow /\ new.tries = row[o].tries /\ new.sent = row[o].sent
    BY <2>1 DEF StatusRow
  <2>3. o \notin undone
    BY <2>1, UndoneIsCalledOff DEF CalledOff
  <2>4. undone' = undone \ {o}
    BY <1>3, <2>3 DEF Paid
  <2> HIDE DEF new
  <2> QED BY <1>3, <2>1, <2>2, <2>4, OrderChanges DEF Paid
<1>4. ASSUME NEW o \in Bought, CallOff(o) PROVE ReportsInv'
  <2>1. PICK status \in CalledOff : row' = [ row EXCEPT ![o].status = status ]
    BY <1>4 DEF CallOff
  <2> DEFINE new == [ row[o] EXCEPT !.status = status ]
  <2>2. row[o] \in StatusRow /\ row[o].status = "sold" /\ row' = [ row EXCEPT ![o] = new ]
    BY <1>4, <2>1 DEF CallOff, ReportsInv, RowsHold
  <2>3. /\ new \in StatusRow /\ new.tries = row[o].tries /\ new.sent = row[o].sent
        /\ new.status \in CalledOff
    BY <2>1, <2>2 DEF StatusRow
  <2>4. o \notin undone
    BY <2>2, UndoneIsCalledOff DEF CalledOff
  <2>5. \/ undone' = undone \ {o}
        \/ undone' = undone \cup {o} /\ ~HeldBySweep(o) /\ o \notin counted
    BY <1>4, <2>4 DEF CallOff
  <2>6. UNCHANGED <<day, batch, step, counted, alerts, cut>>
    BY <1>4 DEF CallOff
  <2> HIDE DEF new
  <2> QED BY <2>2, <2>3, <2>5, <2>6, OrderChanges
<1>5. ASSUME NEW o \in Bought, RefreshOrderStatus(o) PROVE ReportsInv'
  <2> DEFINE new == [ row[o] EXCEPT !.status = "sold" ]
  <2>1. row[o] \in StatusRow /\ row' = [ row EXCEPT ![o] = new ]
    BY <1>5 DEF RefreshOrderStatus, ReportsInv, RowsHold
  <2>2. new \in StatusRow /\ new.tries = row[o].tries /\ new.sent = row[o].sent
    BY <2>1 DEF StatusRow
  <2> HIDE DEF new
  <2> QED BY <1>5, <2>1, <2>2, OrderChanges DEF RefreshOrderStatus
<1> QED BY <1>2, <1>3, <1>4, <1>5, FindUnreportedHolds, SendHolds, MarkReportedHolds, RecordHolds,
           AlertHolds, BreaksHolds DEF ReportsNext, ReportConversions

------------------------------------------------------------------------------
(* The account customers pay to.                                           *)

\* A set of numbers has a least.
LEMMA LeastNumber ==
  ASSUME NEW S \in SUBSET Nat, S # {}
  PROVE  \E m \in S : \A k \in S : m <= k
<1> DEFINE R == OpToRel(<, Nat)
<1>1. IsWellFoundedOn(R, Nat)
  BY NatLessThanWellFounded
<1>2. \A x, y \in Nat : y < x => <<y, x>> \in R
  BY DEF OpToRel
<1> HIDE DEF R
<1>3. PICK x \in S : \A y \in S : ~ (<<y, x>> \in R)
  BY <1>1, WFMin
<1>4. ASSUME NEW y \in S PROVE x <= y
  <2>1. x \in Nat /\ y \in Nat
    OBVIOUS
  <2>2. ~ (y < x)
    BY <1>2, <1>3, <2>1
  <2> QED BY <2>1, <2>2
<1> QED BY <1>4

\* What holds of no number, or of one with none before it, holds of none.
LEMMA LeastMissing ==
  ASSUME NEW L \in Nat, NEW S \in SUBSET (0..L),
         0 \in S, \A n \in 0..L : n + 1 \in 0..L /\ n \in S => n + 1 \in S
  PROVE  \A n \in 0..L : n \in S
<1> DEFINE Missing == (0..L) \ S
<1>1. SUFFICES ASSUME Missing # {} PROVE FALSE
  OBVIOUS
<1>2. Missing \in SUBSET Nat
  OBVIOUS
<1>3. PICK m \in Missing : \A k \in Missing : m <= k
  BY <1>1, <1>2, LeastNumber
<1>4. m \in 0..L /\ m # 0 /\ m - 1 \in 0..L /\ m - 1 \notin Missing
  BY <1>3
<1> QED BY <1>3, <1>4

\* The sums a tally is made of exist: one for every number of places.
Sums(f, n) == CHOOSE g : g = [ k \in 0..n |-> IF k = 0 THEN 0 ELSE g[k - 1] + f[k] ]

LEMMA TallyDefined ==
  ASSUME NEW L \in Nat, NEW f
  PROVE  Sums(f, L) = [ k \in 0..L |-> IF k = 0 THEN 0 ELSE Sums(f, L)[k - 1] + f[k] ]
<1> DEFINE next(g, k) == IF k = 0 THEN 0 ELSE g[k - 1] + f[k]
           S == { m \in 0..L : \E g : g = [ k \in 0..m |-> next(g, k) ] }
<1>1. 0 \in S
  <2> DEFINE g == [ k \in 0..0 |-> 0 ]
  <2>1. g = [ k \in 0..0 |-> next(g, k) ]
    OBVIOUS
  <2> HIDE DEF g, next
  <2> QED BY <2>1
<1>2. ASSUME NEW m \in 0..L, m + 1 \in 0..L, m \in S PROVE m + 1 \in S
  <2>1. PICK g : g = [ k \in 0..m |-> next(g, k) ]
    BY <1>2
  <2> DEFINE h == [ k \in 0..(m + 1) |-> IF k \in 0..m THEN g[k] ELSE g[m] + f[m + 1] ]
  <2>2. ASSUME NEW k \in 0..(m + 1) PROVE h[k] = next(h, k)
    <3>1. CASE k \in 0..m
      <4>1. k # 0 => k - 1 \in 0..m /\ k - 1 \in 0..(m + 1)
        BY <3>1
      <4>2. g[k] = next(g, k)
        BY <2>1, <3>1
      <4> QED BY <3>1, <4>1, <4>2
    <3>2. CASE k = m + 1
      BY <3>2
    <3> QED BY <3>1, <3>2
  <2>3. h = [ k \in 0..(m + 1) |-> next(h, k) ]
    BY <2>2
  <2> QED BY <1>2, <2>3
<1> HIDE DEF next
<1>3. S \in SUBSET (0..L)
  OBVIOUS
<1>4. \A m \in 0..L : m + 1 \in 0..L /\ m \in S => m + 1 \in S
  BY <1>2
<1>5. L \in S
  <2> HIDE DEF S
  <2>1. \A m \in 0..L : m \in S
    BY ONLY <1>1, <1>3, <1>4, L \in Nat, LeastMissing
  <2> QED BY <2>1
<1>6. \E g : g = [ k \in 0..L |-> next(g, k) ]
  BY <1>5
<1>7. Sums(f, L) = CHOOSE g : g = [ k \in 0..L |-> next(g, k) ]
  BY DEF Sums, next
<1>8. Sums(f, L) = [ k \in 0..L |-> next(Sums(f, L), k) ]
  BY <1>6, <1>7
<1> QED BY <1>8 DEF next

\* Every sum of numbers is a number.
LEMMA SumsAreNumbers ==
  ASSUME NEW L \in Nat, NEW f \in [ 1..L -> Nat ]
  PROVE  /\ Sums(f, L) \in [ 0..L -> Nat ] /\ Sums(f, L)[0] = 0
         /\ \A k \in 0..L : k + 1 \in 0..L => Sums(f, L)[k + 1] = Sums(f, L)[k] + f[k + 1]
         /\ Tally(f, L) = Sums(f, L)[L]
<1>0. PICK a : a = Sums(f, L)
  OBVIOUS
<1>1. a = [ k \in 0..L |-> IF k = 0 THEN 0 ELSE a[k - 1] + f[k] ]
  BY <1>0, TallyDefined
<1>2. a[0] = 0
  BY <1>1
<1>3. ASSUME NEW k \in 0..L, k + 1 \in 0..L PROVE a[k + 1] = a[k] + f[k + 1]
  <2>1. k + 1 # 0 /\ (k + 1) - 1 = k
    OBVIOUS
  <2>2. a[k + 1] = a[(k + 1) - 1] + f[k + 1]
    BY ONLY <1>1, <1>3, <2>1
  <2> QED BY <2>1, <2>2
<1> DEFINE S == { k \in 0..L : a[k] \in Nat }
<1>4. ASSUME NEW k \in 0..L, k + 1 \in 0..L, a[k] \in Nat PROVE a[k + 1] \in Nat
  <2>1. \A x, y \in Nat : x + y \in Nat
    OBVIOUS
  <2>2. f[k + 1] \in Nat
    BY <1>4
  <2>3. a[k] + f[k + 1] \in Nat
    BY ONLY <1>4, <2>1, <2>2, Zenon
  <2> QED BY <1>3, <1>4, <2>3, Zenon
<1>5. /\ S \in SUBSET (0..L) /\ 0 \in S
      /\ \A k \in 0..L : k + 1 \in 0..L /\ k \in S => k + 1 \in S
  BY <1>2, <1>4
<1>6. \A k \in 0..L : k \in S
  <2> HIDE DEF S
  <2> QED BY ONLY <1>5, L \in Nat, LeastMissing
<1>7. a \in [ 0..L -> Nat ]
  BY <1>1, <1>6
<1> QED BY <1>0, <1>2, <1>3, <1>7 DEF Tally, Sums

LEMMA SumGoes ==
  ASSUME NEW i \in Nat, NEW k \in Nat, NEW a \in Nat, NEW b \in Nat,
         NEW x \in Nat, NEW y \in Nat, NEW u \in Nat, NEW v \in Nat,
         k + 1 # i => y = x, k + 1 = i => x = u /\ y = v,
         k < i => b = a, ~ (k < i) => b + u = a + v
  PROVE  /\ k + 1 < i => b + y = a + x
         /\ ~ (k + 1 < i) => (b + y) + u = (a + x) + v
OBVIOUS

\* Places that differ move the sum by what they differ by.
LEMMA TallyMoves ==
  ASSUME NEW L \in Nat, NEW i \in 1..L,
         NEW f \in [ 1..L -> Nat ], NEW g \in [ 1..L -> Nat ],
         \A k \in 1..L : k # i => g[k] = f[k]
  PROVE  /\ Tally(f, L) \in Nat /\ Tally(g, L) \in Nat
         /\ Tally(g, L) + f[i] = Tally(f, L) + g[i]
<1>0. PICK a \in [ 0..L -> Nat ], b \in [ 0..L -> Nat ] : a = Sums(f, L) /\ b = Sums(g, L)
  BY SumsAreNumbers
<1>1. /\ a[0] = 0 /\ \A k \in 0..L : k + 1 \in 0..L => a[k + 1] = a[k] + f[k + 1]
      /\ b[0] = 0 /\ \A k \in 0..L : k + 1 \in 0..L => b[k + 1] = b[k] + g[k + 1]
  BY <1>0, SumsAreNumbers
<1>2. Tally(f, L) = a[L] /\ Tally(g, L) = b[L]
  BY <1>0, SumsAreNumbers
<1> DEFINE Good(k) == /\ k < i => b[k] = a[k]
                      /\ ~ (k < i) => b[k] + f[i] = a[k] + g[i]
           S == { k \in 0..L : Good(k) }
<1>3. Good(0)
  BY <1>1
<1> HIDE DEF Good
<1>4. ASSUME NEW k \in 0..L, k + 1 \in 0..L, Good(k) PROVE Good(k + 1)
  <2>0. k \in Nat /\ i \in Nat /\ k + 1 \in 1..L
    BY <1>4
  <2>1. a[k + 1] = a[k] + f[k + 1] /\ b[k + 1] = b[k] + g[k + 1]
    BY <1>1, <1>4
  <2>2. f[k + 1] \in Nat /\ g[k + 1] \in Nat /\ f[i] \in Nat /\ g[i] \in Nat
    BY <2>0
  <2>3. k + 1 # i => g[k + 1] = f[k + 1]
    BY <2>0
  <2>4. a[k] \in Nat /\ b[k] \in Nat
    OBVIOUS
  <2>5. (k < i => b[k] = a[k]) /\ (~ (k < i) => b[k] + f[i] = a[k] + g[i])
    BY <1>4 DEF Good
  <2>6. k + 1 = i => f[k + 1] = f[i] /\ g[k + 1] = g[i]
    OBVIOUS
  <2>7. /\ k + 1 < i => b[k] + g[k + 1] = a[k] + f[k + 1]
        /\ ~ (k + 1 < i) => (b[k] + g[k + 1]) + f[i] = (a[k] + f[k + 1]) + g[i]
    <3>1. PICK A \in Nat, B \in Nat, X \in Nat, Y \in Nat, U \in Nat, V \in Nat :
            /\ A = a[k] /\ B = b[k] /\ X = f[k + 1] /\ Y = g[k + 1] /\ U = f[i] /\ V = g[i]
      BY <2>2, <2>4
    <3>2. /\ k + 1 # i => Y = X
          /\ k + 1 = i => X = U /\ Y = V
          /\ k < i => B = A
          /\ ~ (k < i) => B + U = A + V
      BY ONLY <3>1, <2>3, <2>5, <2>6
    <3>3. (k + 1 < i => B + Y = A + X) /\ (~ (k + 1 < i) => (B + Y) + U = (A + X) + V)
      BY ONLY <3>2, <2>0, SumGoes, A \in Nat, B \in Nat, X \in Nat, Y \in Nat, U \in Nat, V \in Nat
    <3> QED BY ONLY <3>1, <3>3
  <2> QED BY <2>1, <2>7 DEF Good
<1>5. /\ S \in SUBSET (0..L) /\ 0 \in S
      /\ \A k \in 0..L : k + 1 \in 0..L /\ k \in S => k + 1 \in S
  BY <1>3, <1>4
<1>6. L \in S
  <2> HIDE DEF S
  <2>1. \A k \in 0..L : k \in S
    BY ONLY <1>5, L \in Nat, LeastMissing
  <2> QED BY <2>1
<1>7. b[L] + f[i] = a[L] + g[i]
  BY <1>6 DEF Good
<1>8. a[L] \in Nat /\ b[L] \in Nat
  OBVIOUS
<1> QED BY ONLY <1>2, <1>7, <1>8, Zenon

LEMMA TallyMovesTwice ==
  ASSUME NEW L \in Nat, NEW i \in 1..L, NEW j \in 1..L, i # j,
         NEW f \in [ 1..L -> Nat ], NEW g \in [ 1..L -> Nat ],
         \A k \in 1..L : k # i /\ k # j => g[k] = f[k]
  PROVE  /\ Tally(f, L) \in Nat /\ Tally(g, L) \in Nat
         /\ Tally(g, L) + f[i] + f[j] = Tally(f, L) + g[i] + g[j]
<1> DEFINE h == [ f EXCEPT ![i] = g[i] ]
<1>1. /\ h \in [ 1..L -> Nat ] /\ h[i] = g[i] /\ h[j] = f[j]
      /\ \A k \in 1..L : k # i => h[k] = f[k]
      /\ \A k \in 1..L : k # j => g[k] = h[k]
  OBVIOUS
<1> HIDE DEF h
<1>2. Tally(f, L) \in Nat /\ Tally(h, L) \in Nat /\ Tally(h, L) + f[i] = Tally(f, L) + h[i]
  BY <1>1, TallyMoves
<1>3. Tally(g, L) \in Nat /\ Tally(g, L) + h[j] = Tally(h, L) + g[j]
  BY <1>1, TallyMoves
<1>4. f[i] \in Nat /\ f[j] \in Nat /\ g[i] \in Nat /\ g[j] \in Nat
  OBVIOUS
<1>5. Tally(h, L) + f[i] = Tally(f, L) + g[i] /\ Tally(g, L) + f[j] = Tally(h, L) + g[j]
  BY <1>1, <1>2, <1>3
<1>6. Tally(g, L) + f[i] + f[j] = Tally(f, L) + g[i] + g[j]
  <2>1. PICK P \in Nat, Q \in Nat, R \in Nat, U \in Nat, V \in Nat, X \in Nat, Y \in Nat :
          /\ P = Tally(f, L) /\ Q = Tally(h, L) /\ R = Tally(g, L)
          /\ U = g[i] /\ V = g[j] /\ X = f[i] /\ Y = f[j]
    BY <1>2, <1>3, <1>4
  <2>2. Q + X = P + U /\ R + Y = Q + V
    BY ONLY <2>1, <1>5
  <2>3. R + X + Y = P + U + V
    BY <2>2
  <2> QED BY ONLY <2>1, <2>3
<1> QED BY <1>2, <1>3, <1>6

\* What a digit counts for in a CLABE, and in a card number.
InClabe(i, x) == (x * Weight(i)) % 10
InCard(i, x)  == IF i % 2 = 1 THEN Doubled(x) ELSE x

LEMMA WeightsCycle ==
  ASSUME NEW i \in Nat
  PROVE  \/ Weight(i) = 3 /\ Weight(i + 1) = 7
         \/ Weight(i) = 7 /\ Weight(i + 1) = 1
         \/ Weight(i) = 1 /\ Weight(i + 1) = 3
<1>1. \/ i % 3 = 1 /\ (i + 1) % 3 = 2
      \/ i % 3 = 2 /\ (i + 1) % 3 = 0
      \/ i % 3 = 0 /\ (i + 1) % 3 = 1
  OBVIOUS
<1> QED BY <1>1 DEF Weight

\* Two digits count differently wherever they stand, and side by side in either
\* order too, but for those five apart.
LEMMA ClabeTells ==
  ASSUME NEW i \in Nat, NEW x \in Digits, NEW y \in Digits
  PROVE  /\ InClabe(i, x) \in Digits
         /\ InClabe(i, x) = InClabe(i, y) => x = y
         /\ (InClabe(i, x) + InClabe(i + 1, y)) % 10 = (InClabe(i, y) + InClabe(i + 1, x)) % 10
              => x = y \/ x - y \in { -5, 5 }
<1>0. x \in 0..9 /\ y \in 0..9
  BY DEF Digits
<1>1. CASE Weight(i) = 3 /\ Weight(i + 1) = 7
  <2>1. /\ InClabe(i, x) = (x * 3) % 10 /\ InClabe(i, y) = (y * 3) % 10
        /\ InClabe(i + 1, x) = (x * 7) % 10 /\ InClabe(i + 1, y) = (y * 7) % 10
    BY <1>1 DEF InClabe
  <2>2. /\ (x * 3) % 10 \in 0..9
        /\ (x * 3) % 10 = (y * 3) % 10 => x = y
    BY <1>0
  <2>3. (((x * 3) % 10) + ((y * 7) % 10)) % 10 = (((y * 3) % 10) + ((x * 7) % 10)) % 10
          => x = y \/ x - y = 5 \/ x - y = -5
    BY <1>0
  <2> QED BY <2>1, <2>2, <2>3 DEF Digits
<1>2. CASE Weight(i) = 7 /\ Weight(i + 1) = 1
  <2>1. /\ InClabe(i, x) = (x * 7) % 10 /\ InClabe(i, y) = (y * 7) % 10
        /\ InClabe(i + 1, x) = (x * 1) % 10 /\ InClabe(i + 1, y) = (y * 1) % 10
    BY <1>2 DEF InClabe
  <2>2. /\ (x * 7) % 10 \in 0..9
        /\ (x * 7) % 10 = (y * 7) % 10 => x = y
    BY <1>0
  <2>3. (((x * 7) % 10) + ((y * 1) % 10)) % 10 = (((y * 7) % 10) + ((x * 1) % 10)) % 10
          => x = y \/ x - y = 5 \/ x - y = -5
    BY <1>0
  <2> QED BY <2>1, <2>2, <2>3 DEF Digits
<1>3. CASE Weight(i) = 1 /\ Weight(i + 1) = 3
  <2>1. /\ InClabe(i, x) = (x * 1) % 10 /\ InClabe(i, y) = (y * 1) % 10
        /\ InClabe(i + 1, x) = (x * 3) % 10 /\ InClabe(i + 1, y) = (y * 3) % 10
    BY <1>3 DEF InClabe
  <2>2. /\ (x * 1) % 10 \in 0..9
        /\ (x * 1) % 10 = (y * 1) % 10 => x = y
    BY <1>0
  <2>3. (((x * 1) % 10) + ((y * 3) % 10)) % 10 = (((y * 1) % 10) + ((x * 3) % 10)) % 10
          => x = y \/ x - y = 5 \/ x - y = -5
    BY <1>0
  <2> QED BY <2>1, <2>2, <2>3 DEF Digits
<1> QED BY <1>1, <1>2, <1>3, WeightsCycle

LEMMA CardTells ==
  ASSUME NEW i \in Nat, NEW x \in Digits, NEW y \in Digits
  PROVE  /\ InCard(i, x) \in Digits
         /\ InCard(i, x) = InCard(i, y) => x = y
         /\ (InCard(i, x) + InCard(i + 1, y)) % 10 = (InCard(i, y) + InCard(i + 1, x)) % 10
              => x = y \/ { x, y } = { 0, 9 }
<1> USE DEF Digits, InCard, Doubled
<1>1. (i % 2 = 1 /\ (i + 1) % 2 = 0) \/ (i % 2 = 0 /\ (i + 1) % 2 = 1)
  OBVIOUS
<1>2. CASE i % 2 = 1 /\ (i + 1) % 2 = 0
  <2>1. \/ x = y \/ (x = 0 /\ y = 9) \/ (x = 9 /\ y = 0)
        \/ (InCard(i, x) + InCard(i + 1, y)) % 10 # (InCard(i, y) + InCard(i + 1, x)) % 10
    BY <1>2
  <2> QED BY <1>2, <2>1
<1>3. CASE i % 2 = 0 /\ (i + 1) % 2 = 1
  <2>1. \/ x = y \/ (x = 0 /\ y = 9) \/ (x = 9 /\ y = 0)
        \/ (InCard(i, x) + InCard(i + 1, y)) % 10 # (InCard(i, y) + InCard(i + 1, x)) % 10
    BY <1>3
  <2> QED BY <1>3, <2>1
<1> QED BY <1>1, <1>2, <1>3

ClabePlaces(d) == [ i \in 1..17 |-> InClabe(i, d[i]) ]
CardPlaces(d)  == [ i \in 1..16 |-> InCard(i, d[i]) ]
ClabeChecks(d) == d[18] = (10 - (Tally(ClabePlaces(d), 17) % 10)) % 10
CardChecks(d)  == Tally(CardPlaces(d), 16) % 10 = 0

LEMMA DigitsStand ==
  ASSUME NEW d \in Seq(Digits)
  PROVE  d \in [ 1..Len(d) -> Digits ]
OBVIOUS

LEMMA ValidChecks ==
  ASSUME NEW d
  PROVE  /\ IsValidClabe(d) => Len(d) = 18 /\ ClabeChecks(d)
         /\ IsValidCardNumber(d) => Len(d) = 16 /\ CardChecks(d)
<1>1. ASSUME IsValidClabe(d) PROVE Len(d) = 18 /\ ClabeChecks(d)
  <2>1. ClabePlaces(d) = [ i \in 1..17 |-> (d[i] * Weight(i)) % 10 ]
    BY Zenon DEF ClabePlaces, InClabe
  <2> QED BY <1>1, <2>1, Zenon DEF IsValidClabe, ClabeChecks
<1>2. ASSUME IsValidCardNumber(d) PROVE Len(d) = 16 /\ CardChecks(d)
  <2>1. CardPlaces(d) = [ i \in 1..16 |-> IF i % 2 = 1 THEN Doubled(d[i]) ELSE d[i] ]
    BY Zenon DEF CardPlaces, InCard
  <2> QED BY <1>2, <2>1, Zenon DEF IsValidCardNumber, CardChecks
<1> QED BY <1>1, <1>2, Zenon

\* The places of a number that checks, one by one.
LEMMA ClabeCounts ==
  ASSUME NEW d \in [ 1..18 -> Digits ]
  PROVE  /\ ClabePlaces(d) \in [ 1..17 -> Nat ]
         /\ \A i \in 1..17 : ClabePlaces(d)[i] = InClabe(i, d[i]) /\ ClabePlaces(d)[i] \in 0..9
<1>1. ASSUME NEW i \in 1..17 PROVE InClabe(i, d[i]) \in 0..9
  <2>1. d[i] \in Digits /\ i \in Nat
    OBVIOUS
  <2> QED BY <2>1, ClabeTells DEF Digits
<1> QED BY <1>1 DEF ClabePlaces

LEMMA CardCounts ==
  ASSUME NEW d \in [ 1..16 -> Digits ]
  PROVE  /\ CardPlaces(d) \in [ 1..16 -> Nat ]
         /\ \A i \in 1..16 : CardPlaces(d)[i] = InCard(i, d[i]) /\ CardPlaces(d)[i] \in 0..9
<1>1. ASSUME NEW i \in 1..16 PROVE InCard(i, d[i]) \in 0..9
  <2>1. d[i] \in Digits /\ i \in Nat
    OBVIOUS
  <2> QED BY <2>1, CardTells DEF Digits
<1> QED BY <1>1 DEF CardPlaces

\* What check digits that agree say of the digits behind them.
LEMMA OneRemainder ==
  ASSUME NEW T \in Nat, NEW U \in Nat, NEW a \in 0..9, NEW b \in 0..9, U + a = T + b
  PROVE  /\ (10 - (T % 10)) % 10 = (10 - (U % 10)) % 10 => a = b
         /\ T % 10 = 0 /\ U % 10 = 0 => a = b
OBVIOUS

LEMMA LastRemainder ==
  ASSUME NEW T \in Nat, NEW U \in Nat, NEW x \in 0..9, NEW y \in 0..9,
         U + ((x * 7) % 10) = T + ((y * 7) % 10),
         y = (10 - (T % 10)) % 10, x = (10 - (U % 10)) % 10
  PROVE  x = y \/ x - y = 5 \/ x - y = -5
OBVIOUS

\* One wrong digit shows: the other places are as they were.
LEMMA WrongClabeShows ==
  ASSUME NEW d \in [ 1..18 -> Digits ], NEW e \in [ 1..18 -> Digits ], NEW i \in 1..18,
         \A k \in 1..18 : k # i => e[k] = d[k], ClabeChecks(d), ClabeChecks(e)
  PROVE  e[i] = d[i]
<1>1. PICK f \in [ 1..17 -> Nat ], g \in [ 1..17 -> Nat ] :
        f = ClabePlaces(d) /\ g = ClabePlaces(e)
  BY ClabeCounts
<1>2. \A k \in 1..17 : /\ f[k] = InClabe(k, d[k]) /\ f[k] \in 0..9
                       /\ g[k] = InClabe(k, e[k]) /\ g[k] \in 0..9
  BY <1>1, ClabeCounts
<1>3. /\ d[18] = (10 - (Tally(f, 17) % 10)) % 10
      /\ e[18] = (10 - (Tally(g, 17) % 10)) % 10
  BY <1>1 DEF ClabeChecks
<1>4. \A k \in 1..17 : k # i => g[k] = f[k]
  BY <1>2
<1>5. CASE i = 18
  <2>1. g = f
    BY <1>4, <1>5
  <2> QED BY <1>3, <1>5, <2>1
<1>6. CASE i \in 1..17
  <2>1. Tally(f, 17) \in Nat /\ Tally(g, 17) \in Nat /\ Tally(g, 17) + f[i] = Tally(f, 17) + g[i]
    BY <1>4, <1>6, TallyMoves
  <2>2. PICK T \in Nat, U \in Nat, a \in 0..9, b \in 0..9 :
          T = Tally(f, 17) /\ U = Tally(g, 17) /\ a = f[i] /\ b = g[i]
    BY <1>2, <1>6, <2>1
  <2>3. U + a = T + b
    BY <2>1, <2>2
  <2>4. (10 - (T % 10)) % 10 = (10 - (U % 10)) % 10
    BY <1>3, <1>6, <2>2
  <2>5. a = b
    BY ONLY <2>3, <2>4, OneRemainder, T \in Nat, U \in Nat, a \in 0..9, b \in 0..9
  <2>6. d[i] \in Digits /\ e[i] \in Digits /\ i \in Nat
    OBVIOUS
  <2>7. InClabe(i, d[i]) = InClabe(i, e[i])
    BY <1>2, <1>6, <2>2, <2>5
  <2> QED BY ONLY <2>6, <2>7, ClabeTells
<1> QED BY <1>5, <1>6

LEMMA WrongCardShows ==
  ASSUME NEW d \in [ 1..16 -> Digits ], NEW e \in [ 1..16 -> Digits ], NEW i \in 1..16,
         \A k \in 1..16 : k # i => e[k] = d[k], CardChecks(d), CardChecks(e)
  PROVE  e[i] = d[i]
<1>1. PICK f \in [ 1..16 -> Nat ], g \in [ 1..16 -> Nat ] :
        f = CardPlaces(d) /\ g = CardPlaces(e)
  BY CardCounts
<1>2. \A k \in 1..16 : /\ f[k] = InCard(k, d[k]) /\ f[k] \in 0..9
                       /\ g[k] = InCard(k, e[k]) /\ g[k] \in 0..9
  BY <1>1, CardCounts
<1>3. Tally(f, 16) % 10 = 0 /\ Tally(g, 16) % 10 = 0
  BY <1>1 DEF CardChecks
<1>4. \A k \in 1..16 : k # i => g[k] = f[k]
  BY <1>2
<1>5. Tally(f, 16) \in Nat /\ Tally(g, 16) \in Nat /\ Tally(g, 16) + f[i] = Tally(f, 16) + g[i]
  BY <1>4, TallyMoves
<1>6. PICK T \in Nat, U \in Nat, a \in 0..9, b \in 0..9 :
        T = Tally(f, 16) /\ U = Tally(g, 16) /\ a = f[i] /\ b = g[i]
  BY <1>2, <1>5
<1>7. U + a = T + b /\ T % 10 = 0 /\ U % 10 = 0
  BY <1>3, <1>5, <1>6
<1>8. a = b
  BY ONLY <1>7, OneRemainder, T \in Nat, U \in Nat, a \in 0..9, b \in 0..9
<1>9. d[i] \in Digits /\ e[i] \in Digits /\ i \in Nat
  OBVIOUS
<1>10. InCard(i, d[i]) = InCard(i, e[i])
  BY <1>2, <1>6, <1>8
<1> QED BY ONLY <1>9, <1>10, CardTells

\* Two neighbours swapped show, but for the pairs a check digit is blind to.
LEMMA SwappedClabeShows ==
  ASSUME NEW d \in [ 1..18 -> Digits ], NEW e \in [ 1..18 -> Digits ], NEW i \in 1..17,
         e[i] = d[i + 1], e[i + 1] = d[i],
         \A k \in 1..18 : k # i /\ k # i + 1 => e[k] = d[k], ClabeChecks(d), ClabeChecks(e)
  PROVE  d[i] = d[i + 1] \/ d[i] - d[i + 1] \in { -5, 5 }
<1>0. d[i] \in Digits /\ d[i + 1] \in Digits /\ i \in Nat /\ i + 1 \in 1..18 /\ i + 1 \in Nat
  OBVIOUS
<1>1. PICK f \in [ 1..17 -> Nat ], g \in [ 1..17 -> Nat ] :
        f = ClabePlaces(d) /\ g = ClabePlaces(e)
  BY ClabeCounts
<1>2. \A k \in 1..17 : /\ f[k] = InClabe(k, d[k]) /\ f[k] \in 0..9
                       /\ g[k] = InClabe(k, e[k]) /\ g[k] \in 0..9
  BY <1>1, ClabeCounts
<1>3. /\ d[18] = (10 - (Tally(f, 17) % 10)) % 10
      /\ e[18] = (10 - (Tally(g, 17) % 10)) % 10
  BY <1>1 DEF ClabeChecks
<1>4. \A k \in 1..17 : k # i /\ k # i + 1 => g[k] = f[k]
  BY <1>2
<1>5. CASE i = 17
  <2>1. \A k \in 1..17 : k # 17 => g[k] = f[k]
    BY <1>4, <1>5
  <2>2. 17 \in 1..17
    OBVIOUS
  <2>3. Tally(f, 17) \in Nat /\ Tally(g, 17) \in Nat /\ Tally(g, 17) + f[17] = Tally(f, 17) + g[17]
    BY <2>1, <2>2, TallyMoves
  <2>4. Weight(17) = 7
    BY DEF Weight
  <2>5. e[17] = d[18] /\ e[18] = d[17]
    BY <1>5
  <2>6. f[17] = (d[17] * 7) % 10 /\ g[17] = (d[18] * 7) % 10
    BY <1>2, <2>2, <2>4, <2>5 DEF InClabe
  <2>7. PICK T \in Nat, U \in Nat, x \in 0..9, y \in 0..9 :
          T = Tally(f, 17) /\ U = Tally(g, 17) /\ x = d[17] /\ y = d[18]
    BY <1>0, <1>5, <2>3, SMTT(30) DEF Digits
  <2>8. /\ U + ((x * 7) % 10) = T + ((y * 7) % 10)
        /\ y = (10 - (T % 10)) % 10 /\ x = (10 - (U % 10)) % 10
    BY <1>3, <2>3, <2>5, <2>6, <2>7
  <2>9. x = y \/ x - y = 5 \/ x - y = -5
    BY ONLY <2>8, LastRemainder, T \in Nat, U \in Nat, x \in 0..9, y \in 0..9
  <2> QED BY <1>5, <2>7, <2>9
<1>6. CASE i # 17
  <2>0. i \in 1..17 /\ i + 1 \in 1..17 /\ i # i + 1
    BY <1>6
  <2>1. /\ Tally(f, 17) \in Nat /\ Tally(g, 17) \in Nat
        /\ Tally(g, 17) + f[i] + f[i + 1] = Tally(f, 17) + g[i] + g[i + 1]
    <3>1. PICK j \in 1..17 : j = i + 1
      BY <2>0
    <3>2. i # j /\ \A k \in 1..17 : k # i /\ k # j => g[k] = f[k]
      BY <1>4, <2>0, <3>1
    <3>3. /\ Tally(f, 17) \in Nat /\ Tally(g, 17) \in Nat
          /\ Tally(g, 17) + f[i] + f[j] = Tally(f, 17) + g[i] + g[j]
      <4>1. 17 \in Nat
        OBVIOUS
      <4> QED BY ONLY <2>0, <3>2, <4>1, j \in 1..17, f \in [ 1..17 -> Nat ],
                      g \in [ 1..17 -> Nat ], TallyMovesTwice, Zenon
    <3> QED BY <3>1, <3>3
  <2>2. /\ f[i] = InClabe(i, d[i]) /\ f[i + 1] = InClabe(i + 1, d[i + 1])
        /\ g[i] = InClabe(i, d[i + 1]) /\ g[i + 1] = InClabe(i + 1, d[i])
    BY <1>2, <2>0
  <2>3. PICK T \in Nat, U \in Nat, a \in 0..9, b \in 0..9, p \in 0..9, q \in 0..9 :
          /\ T = Tally(f, 17) /\ U = Tally(g, 17)
          /\ a = f[i] /\ b = g[i] /\ p = f[i + 1] /\ q = g[i + 1]
    BY <1>2, <2>0, <2>1
  <2>4. U + a + p = T + b + q
    BY <2>1, <2>3
  <2>5. e[18] = d[18]
    BY <1>6
  <2>6. (10 - (T % 10)) % 10 = (10 - (U % 10)) % 10
    BY <1>3, <2>3, <2>5
  <2>7. (a + p) % 10 = (b + q) % 10
    BY ONLY <2>4, <2>6, T \in Nat, U \in Nat, a \in 0..9, b \in 0..9,
            p \in 0..9, q \in 0..9
  <2>8. (InClabe(i, d[i]) + InClabe(i + 1, d[i + 1])) % 10
          = (InClabe(i, d[i + 1]) + InClabe(i + 1, d[i])) % 10
    BY ONLY <2>2, <2>3, <2>7
  <2> QED BY ONLY <1>0, <2>8, ClabeTells
<1> QED BY <1>5, <1>6

LEMMA SwappedCardShows ==
  ASSUME NEW d \in [ 1..16 -> Digits ], NEW e \in [ 1..16 -> Digits ], NEW i \in 1..15,
         e[i] = d[i + 1], e[i + 1] = d[i],
         \A k \in 1..16 : k # i /\ k # i + 1 => e[k] = d[k], CardChecks(d), CardChecks(e)
  PROVE  d[i] = d[i + 1] \/ { d[i], d[i + 1] } = { 0, 9 }
<1>0. /\ d[i] \in Digits /\ d[i + 1] \in Digits /\ i \in Nat
      /\ i \in 1..16 /\ i + 1 \in 1..16 /\ i # i + 1
  OBVIOUS
<1>1. PICK f \in [ 1..16 -> Nat ], g \in [ 1..16 -> Nat ] :
        f = CardPlaces(d) /\ g = CardPlaces(e)
  BY CardCounts
<1>2. \A k \in 1..16 : /\ f[k] = InCard(k, d[k]) /\ f[k] \in 0..9
                       /\ g[k] = InCard(k, e[k]) /\ g[k] \in 0..9
  BY <1>1, CardCounts
<1>3. Tally(f, 16) % 10 = 0 /\ Tally(g, 16) % 10 = 0
  BY <1>1 DEF CardChecks
<1>4. \A k \in 1..16 : k # i /\ k # i + 1 => g[k] = f[k]
  BY <1>2
<1>5. /\ Tally(f, 16) \in Nat /\ Tally(g, 16) \in Nat
      /\ Tally(g, 16) + f[i] + f[i + 1] = Tally(f, 16) + g[i] + g[i + 1]
  <2>1. PICK j \in 1..16 : j = i + 1
    BY <1>0
  <2>2. i # j /\ \A k \in 1..16 : k # i /\ k # j => g[k] = f[k]
    BY <1>0, <1>4, <2>1
  <2>3. /\ Tally(f, 16) \in Nat /\ Tally(g, 16) \in Nat
        /\ Tally(g, 16) + f[i] + f[j] = Tally(f, 16) + g[i] + g[j]
    <3>1. 16 \in Nat
      OBVIOUS
    <3> QED BY ONLY <1>0, <2>2, <3>1, j \in 1..16, f \in [ 1..16 -> Nat ],
                    g \in [ 1..16 -> Nat ], TallyMovesTwice, Zenon
  <2> QED BY <2>1, <2>3
<1>6. /\ f[i] = InCard(i, d[i]) /\ f[i + 1] = InCard(i + 1, d[i + 1])
      /\ g[i] = InCard(i, d[i + 1]) /\ g[i + 1] = InCard(i + 1, d[i])
  BY <1>0, <1>2
<1>7. PICK T \in Nat, U \in Nat, a \in 0..9, b \in 0..9, p \in 0..9, q \in 0..9 :
        /\ T = Tally(f, 16) /\ U = Tally(g, 16)
        /\ a = f[i] /\ b = g[i] /\ p = f[i + 1] /\ q = g[i + 1]
  BY <1>0, <1>2, <1>5
<1>8. U + a + p = T + b + q /\ T % 10 = 0 /\ U % 10 = 0
  BY <1>3, <1>5, <1>7
<1>9. (a + p) % 10 = (b + q) % 10
  BY ONLY <1>8, T \in Nat, U \in Nat, a \in 0..9, b \in 0..9,
          p \in 0..9, q \in 0..9
<1>10. (InCard(i, d[i]) + InCard(i + 1, d[i + 1])) % 10
         = (InCard(i, d[i + 1]) + InCard(i + 1, d[i])) % 10
  BY ONLY <1>6, <1>7, <1>9
<1> QED BY ONLY <1>0, <1>10, CardTells

\* A slip of the hand, taken apart.
LEMMA DigitLeftOut ==
  ASSUME NEW d \in Seq(Digits), NEW i \in 1..Len(d)
  PROVE  Len(SubSeq(d, 1, i - 1) \o SubSeq(d, i + 1, Len(d))) = Len(d) - 1
<1>1. PICK n \in Nat : n = Len(d)
  OBVIOUS
<1>2. i \in 1..n
  BY <1>1
<1>3. PICK a \in Seq(Digits) : a = SubSeq(d, 1, i - 1) /\ Len(a) = i - 1
  <2>1. i - 1 \in Int /\ (IF 1 <= i - 1 THEN (i - 1) - 1 + 1 ELSE 0) = i - 1
    BY <1>2
  <2>2. \A k \in 1..(i - 1) : d[k] \in Digits
    BY <1>1, <1>2
  <2>3. /\ SubSeq(d, 1, i - 1) \in Seq(Digits)
        /\ Len(SubSeq(d, 1, i - 1)) = IF 1 <= i - 1 THEN (i - 1) - 1 + 1 ELSE 0
    <3>1. 1 \in Int /\ i - 1 \in Int
      BY <2>1
    <3>2. PICK m \in Int : m = i - 1
      BY <3>1
    <3>3. \A k \in 1..m : d[k] \in Digits
      BY <2>2, <3>2
    <3>4. /\ SubSeq(d, 1, m) \in Seq(Digits)
          /\ Len(SubSeq(d, 1, m)) = IF 1 <= m THEN m - 1 + 1 ELSE 0
      BY ONLY <3>1, <3>3, m \in Int, SubSeqProperties
    <3> QED BY ONLY <3>2, <3>4
  <2> QED BY ONLY <2>1, <2>3, Zenon
<1>4. PICK b \in Seq(Digits) : b = SubSeq(d, i + 1, Len(d)) /\ Len(b) = n - i
  <2>1. i + 1 \in Int /\ n \in Int /\ (IF i + 1 <= n THEN n - (i + 1) + 1 ELSE 0) = n - i
    BY <1>2
  <2>2. \A k \in (i + 1)..n : d[k] \in Digits
    BY <1>1, <1>2
  <2>3. /\ SubSeq(d, i + 1, n) \in Seq(Digits)
        /\ Len(SubSeq(d, i + 1, n)) = IF i + 1 <= n THEN n - (i + 1) + 1 ELSE 0
    <3>1. PICK m \in Int : m = i + 1
      BY <2>1
    <3>2. \A k \in m..n : d[k] \in Digits
      BY <2>2, <3>1
    <3>3. /\ SubSeq(d, m, n) \in Seq(Digits)
          /\ Len(SubSeq(d, m, n)) = IF m <= n THEN n - m + 1 ELSE 0
      BY ONLY <2>1, <3>2, m \in Int, SubSeqProperties
    <3> QED BY ONLY <3>1, <3>3
  <2> QED BY ONLY <1>1, <2>1, <2>3, Zenon
<1>5. Len(a \o b) = Len(a) + Len(b)
  OBVIOUS
<1>6. (i - 1) + (n - i) = n - 1
  BY <1>2
<1> QED BY ONLY <1>1, <1>3, <1>4, <1>5, <1>6

LEMMA SlipKinds ==
  ASSUME NEW d \in Seq(Digits), NEW e \in Slips(d)
  PROVE  \/ e = d
         \/ \E i \in 1..Len(d) : \E x \in Digits : e = [ d EXCEPT ![i] = x ]
         \/ Len(e) = Len(d) - 1
         \/ \E i \in 1..(Len(d) - 1) : e = Swapped(d, i)
<1>1. DOMAIN d = 1..Len(d)
  OBVIOUS
<1>2. \/ e = d
      \/ \E i \in DOMAIN d : \E x \in Digits : e = [ d EXCEPT ![i] = x ]
      \/ \E i \in DOMAIN d : e = SubSeq(d, 1, i - 1) \o SubSeq(d, i + 1, Len(d))
      \/ \E i \in 1..(Len(d) - 1) : e = Swapped(d, i)
  BY Zenon DEF Slips, WrongDigit
<1>3. ASSUME NEW i \in DOMAIN d, e = SubSeq(d, 1, i - 1) \o SubSeq(d, i + 1, Len(d))
      PROVE  Len(e) = Len(d) - 1
  BY <1>1, <1>3, DigitLeftOut, Zenon
<1> QED BY <1>1, <1>2, <1>3, Zenon

\* An edit of one place.
LEMMA Edited ==
  ASSUME NEW n \in Nat, NEW d \in [ 1..n -> Digits ], NEW i \in 1..n, NEW x \in Digits
  PROVE  LET e == [ d EXCEPT ![i] = x ]
         IN  /\ e \in [ 1..n -> Digits ] /\ \A k \in 1..n : k # i => e[k] = d[k]
             /\ e[i] = d[i] => e = d
OBVIOUS

\* What is reviewed and accepted, and is a slip of an account that is meant,
\* is that account.
LEMMA SlipOfAClabe ==
  ASSUME NEW d \in Seq(Digits), IsValidClabe(d),
         NEW e \in Slips(d), IsValidClabe(e)
  PROVE  e = d \/ e \in BlindSwaps(d, ClabeBlind)
<1>1. /\ Len(d) = 18 /\ d \in [ 1..18 -> Digits ] /\ ClabeChecks(d)
      /\ Len(e) = 18 /\ ClabeChecks(e)
  <2>1. Len(d) = 18 /\ ClabeChecks(d) /\ Len(e) = 18 /\ ClabeChecks(e)
    BY ValidChecks, Zenon
  <2>2. d \in [ 1..Len(d) -> Digits ]
    BY DigitsStand
  <2> QED BY ONLY <2>1, <2>2, Zenon
<1>2. \/ e = d
      \/ \E i \in 1..18 : \E x \in Digits : e = [ d EXCEPT ![i] = x ]
      \/ \E i \in 1..17 : e = Swapped(d, i)
  <2>1. \/ e = d
        \/ \E i \in 1..Len(d) : \E x \in Digits : e = [ d EXCEPT ![i] = x ]
        \/ Len(e) = Len(d) - 1
        \/ \E i \in 1..(Len(d) - 1) : e = Swapped(d, i)
    BY SlipKinds
  <2>2. Len(d) - 1 = 17 /\ Len(e) # Len(d) - 1
    BY ONLY <1>1
  <2> QED BY ONLY <1>1, <2>1, <2>2, Zenon
<1>3. ASSUME NEW i \in 1..18, NEW x \in Digits, e = [ d EXCEPT ![i] = x ] PROVE e = d
  <2>1. 18 \in Nat
    OBVIOUS
  <2>2. /\ e \in [ 1..18 -> Digits ] /\ \A k \in 1..18 : k # i => e[k] = d[k]
        /\ e[i] = d[i] => e = d
    BY ONLY <1>1, <1>3, <2>1, i \in 1..18, x \in Digits, Edited, SMTT(30)
  <2>3. e[i] = d[i]
    BY ONLY <1>1, <2>2, i \in 1..18, WrongClabeShows
  <2> QED BY <2>2, <2>3, Zenon
<1>4. ASSUME NEW i \in 1..17, <<d[i], d[i + 1]>> \notin ClabeBlind, e = Swapped(d, i)
      PROVE  e = d
  <2>1. 18 \in Nat /\ 17 = 18 - 1
    OBVIOUS
  <2>2. /\ e \in [ 1..18 -> Digits ] /\ e[i] = d[i + 1] /\ e[i + 1] = d[i]
        /\ \A k \in 1..18 : k # i /\ k # i + 1 => e[k] = d[k]
        /\ d[i] = d[i + 1] => e = d
    <3>1. PICK j \in 1..18 : j = i + 1
      OBVIOUS
    <3>2. i \in 1..18 /\ i # j
      BY <3>1
    <3>3. e = [ d EXCEPT ![i] = d[j], ![j] = d[i] ]
      BY <1>4, <3>1 DEF Swapped
    <3>4. /\ e \in [ 1..18 -> Digits ] /\ e[i] = d[j] /\ e[j] = d[i]
          /\ \A k \in 1..18 : k # i /\ k # j => e[k] = d[k]
          /\ d[i] = d[j] => e = d
      BY ONLY <1>1, <2>1, <3>2, <3>3, j \in 1..18
    <3> QED BY ONLY <3>1, <3>4
  <2>3. d[i] = d[i + 1]
    <3>1. d[i] = d[i + 1] \/ d[i] - d[i + 1] \in { -5, 5 }
      BY ONLY <1>1, <2>2, i \in 1..17, SwappedClabeShows
    <3>2. d[i] \in Digits /\ d[i + 1] \in Digits
      BY ONLY <1>1, i \in 1..17, SMTT(30)
    <3> QED BY ONLY <1>4, <3>1, <3>2 DEF ClabeBlind
  <2> QED BY <2>2, <2>3, Zenon
<1>5. ASSUME NEW i \in 1..17, <<d[i], d[i + 1]>> \in ClabeBlind
      PROVE  Swapped(d, i) \in BlindSwaps(d, ClabeBlind)
  <2>1. i \in { j \in 1..(Len(d) - 1) : <<d[j], d[j + 1]>> \in ClabeBlind }
    BY <1>1, <1>5
  <2> QED BY ONLY <2>1, Zenon DEF BlindSwaps
<1> QED BY <1>2, <1>3, <1>4, <1>5, Zenon

LEMMA SlipOfACard ==
  ASSUME NEW d \in Seq(Digits), IsValidCardNumber(d),
         NEW e \in Slips(d), e # << >> => IsValidCardNumber(e)
  PROVE  e = d \/ e \in BlindSwaps(d, CardBlind)
<1>0. Len(d) = 16 /\ d \in [ 1..16 -> Digits ] /\ CardChecks(d)
  <2>1. Len(d) = 16 /\ CardChecks(d)
    BY ValidChecks, Zenon
  <2>2. d \in [ 1..Len(d) -> Digits ]
    BY DigitsStand
  <2> QED BY ONLY <2>1, <2>2, Zenon
<1>1. \/ e = d
      \/ \E i \in 1..16 : \E x \in Digits : e = [ d EXCEPT ![i] = x ]
      \/ Len(e) = 15
      \/ \E i \in 1..15 : e = Swapped(d, i)
  <2>1. \/ e = d
        \/ \E i \in 1..Len(d) : \E x \in Digits : e = [ d EXCEPT ![i] = x ]
        \/ Len(e) = Len(d) - 1
        \/ \E i \in 1..(Len(d) - 1) : e = Swapped(d, i)
    BY SlipKinds
  <2>2. Len(d) - 1 = 15
    BY ONLY <1>0
  <2> QED BY ONLY <1>0, <2>1, <2>2, Zenon
<1>2. Len(e) # 15
  <2>1. Len(<< >>) = 0
    OBVIOUS
  <2>2. e = << >> \/ Len(e) = 16
    BY ValidChecks, Zenon
  <2>3. 0 # 15 /\ 16 # 15
    OBVIOUS
  <2> QED BY ONLY <2>1, <2>2, <2>3, Zenon
<1>3. e # << >> => CardChecks(e)
  BY ValidChecks, Zenon
<1>4. ASSUME e \in [ 1..16 -> Digits ] PROVE CardChecks(e)
  <2>1. DOMAIN e = 1..16 /\ DOMAIN << >> = {}
    BY <1>4
  <2>2. 1 \in 1..16
    OBVIOUS
  <2> QED BY ONLY <1>3, <2>1, <2>2, Zenon
<1>5. ASSUME NEW i \in 1..16, NEW x \in Digits, e = [ d EXCEPT ![i] = x ] PROVE e = d
  <2>1. 16 \in Nat
    OBVIOUS
  <2>2. /\ e \in [ 1..16 -> Digits ] /\ \A k \in 1..16 : k # i => e[k] = d[k]
        /\ e[i] = d[i] => e = d
    BY ONLY <1>0, <1>5, <2>1, i \in 1..16, x \in Digits, Edited, SMTT(30)
  <2>3. CardChecks(e)
    BY <1>4, <2>2, Zenon
  <2>4. e[i] = d[i]
    BY ONLY <1>0, <2>2, <2>3, i \in 1..16, WrongCardShows
  <2> QED BY <2>2, <2>4, Zenon
<1>6. ASSUME NEW i \in 1..15, <<d[i], d[i + 1]>> \notin CardBlind, e = Swapped(d, i)
      PROVE  e = d
  <2>1. 16 \in Nat /\ 15 = 16 - 1
    OBVIOUS
  <2>2. /\ e \in [ 1..16 -> Digits ] /\ e[i] = d[i + 1] /\ e[i + 1] = d[i]
        /\ \A k \in 1..16 : k # i /\ k # i + 1 => e[k] = d[k]
        /\ d[i] = d[i + 1] => e = d
    <3>1. PICK j \in 1..16 : j = i + 1
      OBVIOUS
    <3>2. i \in 1..16 /\ i # j
      BY <3>1
    <3>3. e = [ d EXCEPT ![i] = d[j], ![j] = d[i] ]
      BY <1>6, <3>1 DEF Swapped
    <3>4. /\ e \in [ 1..16 -> Digits ] /\ e[i] = d[j] /\ e[j] = d[i]
          /\ \A k \in 1..16 : k # i /\ k # j => e[k] = d[k]
          /\ d[i] = d[j] => e = d
      BY ONLY <1>0, <2>1, <3>2, <3>3, j \in 1..16
    <3> QED BY ONLY <3>1, <3>4
  <2>3. CardChecks(e)
    BY <1>4, <2>2, Zenon
  <2>4. d[i] = d[i + 1]
    <3>1. d[i] = d[i + 1] \/ { d[i], d[i + 1] } = { 0, 9 }
      BY ONLY <1>0, <2>2, <2>3, i \in 1..15, SwappedCardShows
    <3>2. { d[i], d[i + 1] } = { 0, 9 } =>
            (d[i] = 0 /\ d[i + 1] = 9) \/ (d[i] = 9 /\ d[i + 1] = 0) \/ d[i] = d[i + 1]
      OBVIOUS
    <3> QED BY ONLY <1>6, <3>1, <3>2 DEF CardBlind
  <2> QED BY <2>2, <2>4, Zenon
<1>7. ASSUME NEW i \in 1..15, <<d[i], d[i + 1]>> \in CardBlind
      PROVE  Swapped(d, i) \in BlindSwaps(d, CardBlind)
  <2>1. i \in { j \in 1..(Len(d) - 1) : <<d[j], d[j + 1]>> \in CardBlind }
    BY <1>0, <1>7
  <2> QED BY ONLY <2>1, Zenon DEF BlindSwaps
<1> QED BY <1>1, <1>2, <1>5, <1>6, <1>7, Zenon

\* The review lets nothing through but what is meant, and what nobody can tell
\* from it.
LEMMA AcceptedAreReviewed == Accepted \subseteq Reviewed
<1> SUFFICES ASSUME NEW draft \in Accepted PROVE draft \in Reviewed
  OBVIOUS
<1>1. PICK o \in Owners : draft \in Typed(o)
  BY Zenon DEF Accepted
<1>2. ReviewPaymentDetails(draft)
  BY Zenon DEF Accepted
<1>3. /\ o \in [ clabe : Seq(Digits), card : Seq(Digits), oxxo : Seq(Digits) ]
      /\ IsValidClabe(o.clabe) /\ (o.card # << >> => IsValidCardNumber(o.card))
  BY SettingsAssumption, Zenon
<1>4. /\ o = [ clabe |-> o.clabe, card |-> o.card, oxxo |-> o.oxxo ]
      /\ o.clabe \in Seq(Digits) /\ o.card \in Seq(Digits)
  BY ONLY <1>3
<1>5. ASSUME NEW d \in Slips(o.clabe), draft = [ o EXCEPT !.clabe = d ]
      PROVE  draft \in Unseen(o)
  <2>1. draft = [ clabe |-> d, card |-> o.card, oxxo |-> o.oxxo ]
    BY ONLY <1>4, <1>5
  <2>2. draft.clabe = d
    BY ONLY <2>1
  <2>3. IsValidClabe(d)
    BY ONLY <1>2, <2>2, Zenon DEF ReviewPaymentDetails
  <2>4. d = o.clabe \/ d \in BlindSwaps(o.clabe, ClabeBlind)
    BY ONLY <1>3, <1>4, <2>3, d \in Slips(o.clabe), SlipOfAClabe, Zenon
  <2>5. d = o.clabe => draft = o
    BY ONLY <1>4, <2>1
  <2> QED BY ONLY <1>5, <2>4, <2>5, Zenon DEF Unseen
<1>6. ASSUME NEW d \in Slips(o.card), draft = [ o EXCEPT !.card = d ]
      PROVE  draft \in Unseen(o)
  <2>1. draft = [ clabe |-> o.clabe, card |-> d, oxxo |-> o.oxxo ]
    BY ONLY <1>4, <1>6
  <2>2. draft.card = d
    BY ONLY <2>1
  <2>3. d # << >> => IsValidCardNumber(d)
    BY ONLY <1>2, <2>2, Zenon DEF ReviewPaymentDetails
  <2>4. d = o.card \/ d \in BlindSwaps(o.card, CardBlind)
    <3>1. CASE o.card # << >>
      BY ONLY <1>3, <1>4, <2>3, <3>1, d \in Slips(o.card), SlipOfACard, Zenon
    <3>2. CASE o.card = << >>
      <4>1. \/ d = << >>
            \/ \E i \in 1..Len(<< >>) : \E x \in Digits : d = [ << >> EXCEPT ![i] = x ]
            \/ Len(d) = Len(<< >>) - 1
            \/ \E i \in 1..(Len(<< >>) - 1) : TRUE
        <5>1. << >> \in Seq(Digits) /\ d \in Slips(<< >>)
          BY <3>2
        <5> QED BY ONLY <5>1, SlipKinds, Zenon
      <4>2. Len(<< >>) = 0 /\ 1..0 = {} /\ 1..(0 - 1) = {} /\ 0 - 1 # 16 /\ Len(<< >>) - 1 = 0 - 1
        OBVIOUS
      <4>3. d = << >> \/ Len(d) = 16
        BY ONLY <2>3, ValidChecks, Zenon
      <4> QED BY ONLY <3>2, <4>1, <4>2, <4>3, Zenon
    <3> QED BY ONLY <3>1, <3>2
  <2>5. d = o.card => draft = o
    BY ONLY <1>4, <2>1
  <2> QED BY ONLY <1>6, <2>4, <2>5, Zenon DEF Unseen
<1>7. ASSUME NEW d \in OxxoTyped, draft = [ o EXCEPT !.oxxo = d ]
      PROVE  draft \in Unseen(o)
  <2>1. draft.oxxo = d
    BY ONLY <1>4, <1>7
  <2>2. d = << >> \/ OxxoFits(d)
    BY ONLY <1>2, <2>1, Zenon DEF ReviewPaymentDetails
  <2> QED BY ONLY <1>7, <2>2, Zenon DEF Unseen
<1>8. draft \in Unseen(o)
  BY ONLY <1>1, <1>5, <1>6, <1>7, Zenon DEF Typed
<1> QED BY ONLY <1>8, o \in Owners, Zenon DEF Reviewed

\* What a row and a form hold was reviewed; a page that offers anything shows
\* what was, or what the deployment was set up with.
Payees == Reviewed \cup ({ Environment } \ { NoAccount })
SettingsInv ==
  /\ account \in Reviewed \cup { NoAccount }
  /\ DOMAIN form = Editors /\ DOMAIN page = Buyers
  /\ \A e \in Editors : form[e].at = "details" => form[e].draft \in Reviewed
  /\ \A b \in Buyers : page[b].offers # {} => page[b].account \in Payees
  /\ paidTo \subseteq Payees

LEMMA SettingsInvInit == SettingsInit => SettingsInv
BY DEF SettingsInit, SettingsInv, NoForm, NoPage

LEMMA SettingsInvStep == SettingsInv /\ (SettingsNext \/ UNCHANGED settingsVars) => SettingsInv'
<1> SUFFICES ASSUME SettingsInv, SettingsNext \/ UNCHANGED settingsVars PROVE SettingsInv'
  OBVIOUS
<1> USE DEF SettingsInv
<1>1. CASE UNCHANGED settingsVars
  BY <1>1 DEF settingsVars
<1>2. ASSUME NEW e \in Editors, SaveSettings(e) PROVE SettingsInv'
  <2>1. PICK draft \in Accepted, on \in SUBSET ByHandMethods :
          form' = [ form EXCEPT ![e] = [ at |-> "details", draft |-> draft, on |-> on ] ]
    BY <1>2 DEF SaveSettings
  <2>2. draft \in Reviewed
    BY AcceptedAreReviewed
  <2> QED BY <1>2, <2>1, <2>2 DEF SaveSettings
<1>3. ASSUME NEW e \in Editors, SavePaymentDetails(e) PROVE SettingsInv'
  BY <1>3 DEF SavePaymentDetails
<1>4. ASSUME NEW e \in Editors, SavePaymentMethods(e) PROVE SettingsInv'
  BY <1>4 DEF SavePaymentMethods, NoForm
<1>5. ASSUME NEW e \in Editors, Abandon(e) PROVE SettingsInv'
  BY <1>5 DEF Abandon, NoForm
<1>6. ASSUME NEW b \in Buyers, OpenPage(b) PROVE SettingsInv'
  <2>1. GetPaymentDetails # NoAccount => GetPaymentDetails \in Payees
    BY DEF GetPaymentDetails, Payees
  <2>2. GetPaymentDetails = NoAccount => Payable(GetPaymentDetails) = {}
    BY DEF Payable
  <2> QED BY <1>6, <2>1, <2>2 DEF OpenPage
<1>7. ASSUME NEW b \in Buyers, PlaceByHand(b) PROVE SettingsInv'
  BY <1>7 DEF PlaceByHand, NoPage
<1> QED BY <1>1, <1>2, <1>3, <1>4, <1>5, <1>6, <1>7 DEF SettingsNext

------------------------------------------------------------------------------
(* Types.                                                                  *)

\* An id belongs to one account, whoever is about to write one.
ProfilesHold ==
  /\ profile \in [ Emails -> Ids \cup {None} ]
  /\ \A e, f \in Emails : profile[e] = profile[f] /\ profile[e] # None => e = f
  /\ changes \subseteq [ email : Emails, season : 1..MaxSeasons ]
  /\ pending \in [ Browsers -> Emails \cup {None} ]

IdHolds(r) == r.pc \in { "create", "welcome", "change" } => r.id \in Ids
IdsHold == \A b \in Browsers : IdHolds(request[b])

\* Every try that is still to be counted is of a browser, and was begun when
\* the code had tries left.
Missing(i) == { b \in Browsers : request[b].pc = "missed" /\ request[b].code = i }
TriesHold ==
  \A i \in DOMAIN codes :
    codes[i].tries + Cardinality(Missing(i)) <= MaxTries + Cardinality(Browsers)

LEMMA TriesTypes ==
  ASSUME CodesHold, NEW i \in DOMAIN codes
  PROVE  codes[i] \in CodeRow /\ codes[i].tries \in Nat
<1>1. codes[i] \in CodeRow
  BY DEF CodesHold
<1> QED BY <1>1 DEF CodeRow

LEMMA MissingTypes ==
  ASSUME NEW i
  PROVE  /\ IsFiniteSet(Missing(i)) /\ Cardinality(Missing(i)) \in Nat
         /\ Cardinality(Missing(i)) <= Cardinality(Browsers) /\ Cardinality(Browsers) \in Nat
<1>1. Missing(i) \subseteq Browsers /\ IsFiniteSet(Browsers)
  BY AccountsAssumption DEF Missing
<1> QED BY <1>1, FS_Subset, FS_CardinalityType

\* Steps that miss no code: requests end or go on with an id that is one.
LEMMA RequestsGoOn ==
  ASSUME CodesHold, RequestsHold, IdsHold, TriesHold,
         \/ UNCHANGED request
         \/ \E b \in Browsers : Answer(b)
         \/ \E b \in Browsers : \E r : IdHolds(r) /\ r.pc # "missed" /\ Waits(b, r),
         DOMAIN codes' = DOMAIN codes,
         \A i \in DOMAIN codes : codes'[i].tries = codes[i].tries
  PROVE  IdsHold' /\ TriesHold'
<1>1. \A b \in Browsers : \/ request'[b] = request[b]
                          \/ IdHolds(request'[b]) /\ request'[b].pc # "missed"
  <2>1. IdHolds(Free) /\ Free.pc # "missed"
    BY DEF IdHolds, Free
  <2> QED BY <2>1 DEF Answer, Waits, RequestsHold
<1>2. IdsHold'
  BY <1>1 DEF IdsHold, IdHolds
<1>3. ASSUME NEW i \in DOMAIN codes
      PROVE  codes'[i].tries + Cardinality(Missing(i)') <= MaxTries + Cardinality(Browsers)
  <2>1. PICK M, N : M = Missing(i) /\ N = Missing(i)'
    OBVIOUS
  <2>2. N \subseteq M
    BY <1>1, <2>1 DEF Missing
  <2>3. IsFiniteSet(M) /\ Cardinality(M) \in Nat
    BY <2>1, MissingTypes
  <2>4. Cardinality(N) \in Nat /\ Cardinality(N) <= Cardinality(M)
    BY <2>2, <2>3, FS_Subset, FS_CardinalityType
  <2>5. codes[i].tries \in Nat /\ codes'[i].tries = codes[i].tries
    BY TriesTypes
  <2>6. Cardinality(Browsers) \in Nat /\ MaxTries \in Nat
    BY MissingTypes, AccountsAssumption
  <2>7. codes[i].tries + Cardinality(M) <= MaxTries + Cardinality(Browsers)
    BY <2>1 DEF TriesHold
  <2> QED BY ONLY <2>1, <2>3, <2>4, <2>5, <2>6, <2>7
<1>4. TriesHold'
  BY <1>3 DEF TriesHold
<1> QED BY <1>2, <1>4

\* Another row, which nobody has missed more often than there are browsers.
LEMMA RequestOtpTries ==
  ASSUME CodesHold, TriesHold, NEW b \in Browsers, NEW e \in Emails, RequestOtp(b, e)
  PROVE  TriesHold'
<1>1. PICK c \in CodeRow : codes' = Append(codes, c) /\ c.tries = 0
  <2>1. PICK sent \in BOOLEAN :
          codes' = Append(codes, [ email |-> e, tries |-> 0, used |-> FALSE,
                                   expired |-> FALSE, mailed |-> sent ])
    BY DEF RequestOtp
  <2>2. PICK c : c = [ email |-> e, tries |-> 0, used |-> FALSE,
                       expired |-> FALSE, mailed |-> sent ]
    OBVIOUS
  <2>3. c \in CodeRow /\ c.tries = 0
    BY <2>2 DEF CodeRow
  <2> QED BY <2>1, <2>2, <2>3
<1>2. codes \in Seq(CodeRow)
  BY DEF CodesHold
<1>3. ASSUME NEW i \in DOMAIN codes'
      PROVE  \/ i \in DOMAIN codes /\ codes'[i] = codes[i]
             \/ codes'[i].tries = 0
  BY <1>1, <1>2
<1>4. ASSUME NEW i \in DOMAIN codes'
      PROVE  codes'[i].tries + Cardinality(Missing(i)) <= MaxTries + Cardinality(Browsers)
  BY <1>3, MissingTypes, AccountsAssumption DEF TriesHold
<1>5. \A i : Missing(i)' = Missing(i)
  BY DEF RequestOtp, Missing
<1> QED BY <1>4, <1>5 DEF TriesHold

LEMMA FindCodeTries ==
  ASSUME CodesHold, RequestsHold, TriesHold,
         NEW b \in Browsers, NEW e, NEW digits, FindCode(b, e, digits)
  PROVE  TriesHold'
<1>1. PICK i \in DOMAIN codes :
        /\ codes[i].tries < MaxTries
        /\ Waits(b, [ pc |-> IF digits = i THEN "consume" ELSE "missed", email |-> e, code |-> i ])
  BY DEF FindCode
<1>2. /\ \A a \in Browsers \ {b} : request'[a] = request[a]
      /\ request'[b].code = i /\ UNCHANGED codes
  BY <1>1 DEF FindCode, Waits, RequestsHold
<1>3. ASSUME NEW k \in DOMAIN codes
      PROVE  codes[k].tries + Cardinality(Missing(k)') <= MaxTries + Cardinality(Browsers)
  <2>1. PICK M, N : M = Missing(k) /\ N = Missing(k)'
    OBVIOUS
  <2>2. /\ IsFiniteSet(M) /\ Cardinality(M) \in Nat /\ Cardinality(Browsers) \in Nat
        /\ Cardinality(M) <= Cardinality(Browsers)
    BY <2>1, MissingTypes
  <2>3. N \subseteq Browsers /\ IsFiniteSet(Browsers) /\ MaxTries \in Nat
    BY <2>1, AccountsAssumption DEF Missing
  <2>4. Cardinality(N) \in Nat /\ Cardinality(N) <= Cardinality(Browsers)
    BY <2>3, FS_Subset, FS_CardinalityType
  <2>5. codes[k].tries \in Nat
    BY TriesTypes
  <2>6. CASE k = i
    BY <1>1, <2>1, <2>2, <2>3, <2>4, <2>5, <2>6
  <2>7. CASE k # i
    <3>1. N \subseteq M
      BY <1>2, <2>1, <2>7 DEF Missing
    <3>2. Cardinality(N) <= Cardinality(M)
      BY <2>2, <3>1, FS_Subset
    <3>3. codes[k].tries + Cardinality(M) <= MaxTries + Cardinality(Browsers)
      BY <2>1 DEF TriesHold
    <3> QED BY ONLY <2>1, <2>2, <2>3, <2>4, <2>5, <3>2, <3>3
  <2> QED BY <2>6, <2>7
<1> QED BY <1>2, <1>3 DEF TriesHold

LEMMA MissCodeTries ==
  ASSUME CodesHold, RequestsHold, TriesHold, NEW b \in Browsers, MissCode(b)
  PROVE  TriesHold'
<1>1. PICK i : i = request[b].code /\ i \in DOMAIN codes
  BY DEF MissCode, RequestsHold, RequestHolds
<1>2. codes \in Seq(CodeRow) /\ codes[i] \in CodeRow
  BY <1>1 DEF CodesHold
<1>3. PICK c : c = [ codes[i] EXCEPT !.tries = @ + 1 ]
  OBVIOUS
<1>4. c \in CodeRow /\ c.tries = codes[i].tries + 1
  <2>1. PICK x : x = codes[i] /\ x \in CodeRow
    BY <1>2
  <2>2. c = [ x EXCEPT !.tries = @ + 1 ]
    BY <1>3, <2>1
  <2>3. c \in CodeRow /\ c.tries = x.tries + 1
    BY ONLY <2>1, <2>2 DEF CodeRow
  <2> QED BY <2>1, <2>3
<1>5. codes' = [ codes EXCEPT ![i] = c ]
  BY <1>1, <1>3 DEF MissCode
<1>6. DOMAIN codes' = DOMAIN codes /\ \A k \in DOMAIN codes : codes'[k] = IF k = i THEN c ELSE codes[k]
  BY <1>1, <1>2, <1>4, <1>5, RowIsPut
<1>7. request'[b].pc # "missed" /\ \A a \in Browsers \ {b} : request'[a] = request[a]
  BY DEF MissCode, Answer, RequestsHold, Free
<1>8. ASSUME NEW k \in DOMAIN codes
      PROVE  codes'[k].tries + Cardinality(Missing(k)') <= MaxTries + Cardinality(Browsers)
  <2>1. PICK M, N : M = Missing(k) /\ N = Missing(k)'
    OBVIOUS
  <2>2. /\ IsFiniteSet(M) /\ Cardinality(M) \in Nat /\ Cardinality(Browsers) \in Nat
        /\ MaxTries \in Nat
    BY <2>1, MissingTypes, AccountsAssumption
  <2>3. codes[k].tries \in Nat
    BY TriesTypes
  <2>4. codes[k].tries + Cardinality(M) <= MaxTries + Cardinality(Browsers)
    BY <2>1 DEF TriesHold
  <2>5. CASE k = i
    <3>1. N = M \ {b} /\ b \in M
      BY <1>1, <1>7, <2>1, <2>5 DEF Missing, MissCode
    <3>2. Cardinality(N) = Cardinality(M) - 1
      BY <2>2, <3>1, FS_RemoveElement
    <3>3. codes'[k].tries = codes[k].tries + 1
      BY <1>4, <1>6, <2>5
    <3> QED BY ONLY <2>1, <2>2, <2>3, <2>4, <3>2, <3>3
  <2>6. CASE k # i
    <3>1. N = M
      BY <1>1, <1>7, <2>1, <2>6 DEF Missing
    <3>2. codes'[k].tries = codes[k].tries
      BY <1>6, <2>6
    <3> QED BY <2>1, <2>4, <3>1, <3>2
  <2> QED BY <2>5, <2>6
<1> QED BY <1>6, <1>8 DEF TriesHold

CustomerTypes == ProfilesHold /\ IdsHold /\ TriesHold

LEMMA CustomerTypesInit == CustomerInit => CustomerTypes
<1> SUFFICES ASSUME CustomerInit PROVE CustomerTypes
  OBVIOUS
<1>1. ProfilesHold
  BY DEF CustomerInit, ProfilesHold
<1>2. IdsHold
  BY DEF CustomerInit, IdsHold, IdHolds, Free
<1>3. TriesHold
  BY DEF CustomerInit, TriesHold
<1> QED BY <1>1, <1>2, <1>3 DEF CustomerTypes

\* The two indexes of player_profiles: the mailbox, and the id.
LEMMA ProfileIsPut ==
  ASSUME ProfilesHold, NEW e \in Emails, NEW id \in Ids, ~TakenBeside(e, id),
         profile' = [ profile EXCEPT ![e] = id ]
  PROVE  /\ profile' \in [ Emails -> Ids \cup {None} ]
         /\ \A f, g \in Emails : profile'[f] = profile'[g] /\ profile'[f] # None => f = g
BY DEF ProfilesHold, TakenBeside

LEMMA CustomerTypesStep ==
  ASSUME CustomerInv, CustomerTypes, CustomerNext \/ UNCHANGED customerVars
  PROVE  CustomerTypes'
<1> USE DEF CustomerInv, CustomerTypes
\* What most steps leave alone, and what they do with the requests.
<1>1. UNCHANGED <<profile, changes, pending>> => ProfilesHold'
  BY DEF ProfilesHold
<1>2. ASSUME UNCHANGED codes, NEW b \in Browsers, Answer(b) PROVE IdsHold' /\ TriesHold'
  BY <1>2, RequestsGoOn
<1>3. ASSUME UNCHANGED codes, NEW b \in Browsers, NEW r, IdHolds(r), r.pc # "missed", Waits(b, r)
      PROVE  IdsHold' /\ TriesHold'
  BY <1>3, RequestsGoOn
<1>4. ASSUME UNCHANGED <<codes, request>> PROVE IdsHold' /\ TriesHold'
  BY <1>4, RequestsGoOn
<1>5. CASE UNCHANGED customerVars
  BY <1>1, <1>4, <1>5 DEF customerVars, rows, cookies
<1>6. CASE SeasonTurns
  BY <1>1, <1>4, <1>6 DEF SeasonTurns, rows, cookies
<1>7. CASE CodeExpires
  <2>1. PICK i \in DOMAIN codes : codes' = [ codes EXCEPT ![i].expired = TRUE ]
    BY <1>7 DEF CodeExpires
  <2>2. PICK c : c = [ codes[i] EXCEPT !.expired = TRUE ]
    OBVIOUS
  <2>3. c \in CodeRow /\ c.tries = codes[i].tries /\ codes \in Seq(CodeRow)
    BY <2>2, TriesTypes DEF CodeRow, CodesHold
  <2>4. codes' = [ codes EXCEPT ![i] = c ]
    BY <2>1, <2>2
  <2>5. /\ DOMAIN codes' = DOMAIN codes
        /\ \A k \in DOMAIN codes : codes'[k] = IF k = i THEN c ELSE codes[k]
    BY <2>3, <2>4, RowIsPut
  <2>6. \A k \in DOMAIN codes : codes'[k].tries = codes[k].tries
    BY <2>3, <2>5
  <2>7. IdsHold' /\ TriesHold'
    BY <1>7, <2>5, <2>6, RequestsGoOn DEF CodeExpires
  <2> QED BY <1>1, <1>7, <2>7 DEF CodeExpires, rows, cookies
<1>8. ASSUME NEW b \in Browsers, NEW e \in Emails, RequestOtp(b, e) PROVE CustomerTypes'
  <2>1. TriesHold'
    BY <1>8, RequestOtpTries
  <2>2. IdsHold'
    BY <1>8 DEF RequestOtp, IdsHold, IdHolds
  <2> QED BY <1>1, <1>8, <2>1, <2>2 DEF RequestOtp, rows, cookies
<1>9. ASSUME NEW b \in Browsers, NEW e \in Emails, NEW digits \in Known(b) \cup {0},
             FindCode(b, e, digits)
      PROVE  CustomerTypes'
  <2>1. TriesHold'
    BY <1>9, FindCodeTries
  <2>2. PICK i :
          Waits(b, [ pc |-> IF digits = i THEN "consume" ELSE "missed", email |-> e, code |-> i ])
    BY <1>9 DEF FindCode
  <2>3. IdsHold'
    BY <2>2 DEF Waits, IdsHold, IdHolds, RequestsHold
  <2> QED BY <1>1, <1>9, <2>1, <2>3 DEF FindCode, rows, cookies
<1>10. ASSUME NEW b \in Browsers, MissCode(b) PROVE CustomerTypes'
  <2>1. TriesHold'
    BY <1>10, MissCodeTries
  <2>2. IdsHold'
    BY <1>10 DEF MissCode, Answer, Free, IdsHold, IdHolds, RequestsHold
  <2> QED BY <1>1, <1>10, <2>1, <2>2 DEF MissCode, rows, cookies
<1>11. ASSUME NEW b \in Browsers, Consume(b) PROVE CustomerTypes'
  <2>1. PICK i : i = request[b].code
    OBVIOUS
  <2>2. CASE codes[i].used
    BY <1>1, <1>2, <1>11, <2>1, <2>2 DEF Consume, rows, cookies
  <2>3. CASE ~codes[i].used
    <3>1. /\ codes' = [ codes EXCEPT ![i].used = TRUE ]
          /\ Waits(b, [ pc |-> "known", email |-> request[b].email ])
      BY <1>11, <2>1, <2>3 DEF Consume
    <3>2. i \in DOMAIN codes
      BY <1>11, <2>1 DEF Consume, RequestsHold, RequestHolds
    <3>3. PICK c : c = [ codes[i] EXCEPT !.used = TRUE ]
      OBVIOUS
    <3>4. c \in CodeRow /\ c.tries = codes[i].tries /\ codes \in Seq(CodeRow)
      BY <3>2, <3>3, TriesTypes DEF CodeRow, CodesHold
    <3>5. codes' = [ codes EXCEPT ![i] = c ]
      BY <3>1, <3>3
    <3>6. /\ DOMAIN codes' = DOMAIN codes
          /\ \A k \in DOMAIN codes : codes'[k] = IF k = i THEN c ELSE codes[k]
      BY <3>2, <3>4, <3>5, RowIsPut
    <3>7. \A k \in DOMAIN codes : codes'[k].tries = codes[k].tries
      BY <3>4, <3>6
    <3>8. PICK r : r = [ pc |-> "known", email |-> request[b].email ]
      OBVIOUS
    <3>9. IdHolds(r) /\ r.pc # "missed"
      BY <3>8 DEF IdHolds
    <3>10. IdsHold' /\ TriesHold'
      BY <3>1, <3>6, <3>7, <3>8, <3>9, RequestsGoOn
    <3> QED BY <1>1, <1>11, <3>10 DEF Consume, rows, cookies
  <2> QED BY <2>2, <2>3
<1>12. ASSUME NEW b \in Browsers, SignIn(b) PROVE CustomerTypes'
  <2>1. request[b].email \in Emails
    BY <1>12, AccountsAssumption DEF SignIn, RequestsHold, RequestHolds
  <2>2. \/ UNCHANGED pending
        \/ pending' = [ pending EXCEPT ![b] = request[b].email ]
    BY <1>12 DEF SignIn
  <2>3. ProfilesHold'
    BY <1>12, <2>1, <2>2 DEF SignIn, rows, ProfilesHold
  <2> QED BY <1>2, <1>12, <2>3 DEF SignIn
<1>13. ASSUME NEW b \in Browsers, NEW id \in Ids, Signup(b, id) PROVE CustomerTypes'
  <2>1. PICK r : r = [ pc |-> "create", email |-> pending[b], id |-> id ]
    OBVIOUS
  <2>2. IdHolds(r) /\ r.pc # "missed"
    BY <2>1 DEF IdHolds
  <2> QED BY <1>1, <1>3, <1>13, <2>1, <2>2 DEF Signup, rows, cookies
<1>14. ASSUME NEW b \in Browsers, CreateProfile(b) PROVE CustomerTypes'
  <2>1. PICK r : r = request[b]
    OBVIOUS
  <2>2. r.email \in Emails /\ r.id \in Ids
    BY <1>14, <2>1, AccountsAssumption
       DEF CreateProfile, RequestsHold, RequestHolds, IdsHold, IdHolds
  <2>3. CASE Taken(r)
    BY <1>1, <1>2, <1>14, <2>1, <2>3 DEF CreateProfile, cookies
  <2>4. CASE ~Taken(r)
    <3>1. /\ profile' = [ profile EXCEPT ![r.email] = r.id ]
          /\ Waits(b, [ pc |-> "welcome", email |-> r.email, id |-> r.id ])
      BY <1>14, <2>1, <2>4 DEF CreateProfile
    <3>2. PICK w : w = [ pc |-> "welcome", email |-> r.email, id |-> r.id ]
      OBVIOUS
    <3>3. IdHolds(w) /\ w.pc # "missed"
      BY <2>2, <3>2 DEF IdHolds
    <3>4. IdsHold' /\ TriesHold'
      BY <1>3, <1>14, <3>1, <3>2, <3>3 DEF CreateProfile
    <3>5. ProfilesHold'
      BY <1>14, <2>2, <2>4, <3>1, ProfileIsPut DEF CreateProfile, Taken, ProfilesHold, cookies
    <3> QED BY <3>4, <3>5
  <2> QED BY <2>3, <2>4
<1>15. ASSUME NEW b \in Browsers, Welcome(b) PROVE CustomerTypes'
  <2>1. ProfilesHold'
    BY <1>15 DEF Welcome, rows, ProfilesHold
  <2> QED BY <1>2, <1>15, <2>1 DEF Welcome
<1>16. ASSUME NEW b \in Browsers, PendingExpires(b) \/ Logout(b) PROVE CustomerTypes'
  <2>1. ProfilesHold'
    BY <1>16 DEF PendingExpires, Logout, rows, ProfilesHold
  <2> QED BY <1>4, <1>16, <2>1 DEF PendingExpires, Logout
<1>17. ASSUME NEW b \in Browsers, NEW id \in Ids, PlanChange(b, id) PROVE CustomerTypes'
  <2>1. ProfilesHold'
    BY <1>1, <1>17 DEF PlanChange, rows
  <2>2. CASE UNCHANGED request
    BY <1>4, <1>17, <2>1, <2>2 DEF PlanChange
  <2>3. CASE ~ UNCHANGED request
    <3>1. PICK r : /\ r = [ pc |-> "change", email |-> session[b].email, id |-> id,
                            season |-> season ]
                   /\ Waits(b, r)
      BY <1>17, <2>3 DEF PlanChange
    <3>2. IdHolds(r) /\ r.pc # "missed"
      BY <3>1 DEF IdHolds
    <3> QED BY <1>3, <1>17, <2>1, <3>1, <3>2 DEF PlanChange
  <2> QED BY <2>2, <2>3
<1>18. ASSUME NEW b \in Browsers, WriteChange(b) PROVE CustomerTypes'
  <2>1. PICK r : r = request[b]
    OBVIOUS
  <2>2. r.email \in Emails /\ r.id \in Ids /\ r.season \in 0..MaxSeasons
    BY <1>18, <2>1, AccountsAssumption
       DEF WriteChange, RequestsHold, RequestHolds, IdsHold, IdHolds
  <2>3. CASE Conflicts(r) \/ TakenBeside(r.email, r.id)
    BY <1>1, <1>2, <1>18, <2>1, <2>3 DEF WriteChange
  <2>4. CASE ~(Conflicts(r) \/ TakenBeside(r.email, r.id))
    <3>1. /\ changes' = changes \cup Recorded(r)
          /\ profile' = [ profile EXCEPT ![r.email] = r.id ]
          /\ UNCHANGED pending
      BY <1>18, <2>1, <2>4 DEF WriteChange
    <3>2. Recorded(r) \subseteq [ email : Emails, season : 1..MaxSeasons ]
      BY <2>2, AccountsAssumption DEF Recorded, Row
    <3>3. ProfilesHold'
      BY <2>2, <2>4, <3>1, <3>2, ProfileIsPut DEF ProfilesHold
    <3> QED BY <1>2, <1>18, <3>3 DEF WriteChange
  <2> QED BY <2>3, <2>4
<1>19. ASSUME NEW b \in Browsers, Dies(b) PROVE CustomerTypes'
  BY <1>1, <1>2, <1>19 DEF Dies, rows, cookies
<1> QED BY <1>5, <1>6, <1>7, <1>8, <1>9, <1>10, <1>11, <1>12, <1>13, <1>14, <1>15, <1>16,
           <1>17, <1>18, <1>19
        DEF CustomerNext, VerifyOtp, CompleteSignup, SaveLinkedPlayerId

\* The panel's counters stay within what they count to.
PanelTypes ==
  /\ clock \in 1..MaxClock /\ admin.last \in 0..(MaxClock + 1)
  /\ issued \subseteq Secrets /\ hits \in 0..MaxGuesses

LEMMA PanelTypesStep ==
  ASSUME AdminInv, PanelTypes, AdminNext \/ UNCHANGED adminVars
  PROVE  PanelTypes'
<1>1. clock' \in 1..MaxClock
  <2>1. UNCHANGED clock \/ (clock < MaxClock /\ clock' = clock + 1)
    <3>1. CASE Tick
      BY <3>1 DEF Tick
    <3>2. CASE ~Tick
      BY <3>2 DEF AdminNext, adminVars, ResetPassword, SwitchOff, Deactivate, WindowPasses, Login,
         ReadCode, ClaimStep, StartEnrollment, ConfirmEnrollment, DisableTotp, Leave
    <3> QED BY <3>1, <3>2
  <2> QED BY <2>1, SignInAssumption DEF PanelTypes
<1>2. issued' \subseteq Secrets
  BY DEF PanelTypes, AdminNext, adminVars, Tick, ResetPassword, SwitchOff, Deactivate, WindowPasses,
     Login, ReadCode, ClaimStep, StartEnrollment, ConfirmEnrollment, DisableTotp, Leave
<1>3. hits' \in 0..MaxGuesses
  <2>1. \/ UNCHANGED hits
        \/ hits' = 0
        \/ \E r \in Logins, code \in Secrets, at \in 1..(MaxClock + 1) : ReadCode(r, code, at)
    BY DEF AdminNext, adminVars, Tick, ResetPassword, SwitchOff, Deactivate, WindowPasses, Login,
       ClaimStep, StartEnrollment, ConfirmEnrollment, DisableTotp, Leave
  <2>2. ASSUME NEW r, NEW code, NEW at, ReadCode(r, code, at)
        PROVE  UNCHANGED hits \/ (~(hits >= MaxGuesses) /\ hits' = hits + 1)
    <3>1. CASE hits >= MaxGuesses
      BY <2>2, <3>1 DEF ReadCode
    <3>2. CASE ~(hits >= MaxGuesses)
      BY <2>2, <3>2 DEF ReadCode
    <3> QED BY <3>1, <3>2
  <2> QED BY <2>1, <2>2, SignInAssumption DEF PanelTypes
<1>4. admin'.last \in 0..(MaxClock + 1)
  <2>1. \/ UNCHANGED admin
        \/ \E a \in BOOLEAN : admin' = [ secret |-> NoSecret, last |-> 0, active |-> a ]
        \/ admin' = [ admin EXCEPT !.active = FALSE ]
        \/ \E r \in Logins : ClaimStep(r) \/ ConfirmEnrollment(r)
    BY DEF AdminInv, AdminNext, adminVars, Tick, ResetPassword, SwitchOff, Deactivate, WindowPasses,
       Login, ReadCode, StartEnrollment, DisableTotp, Leave
  <2>2. ASSUME NEW r \in Logins, ClaimStep(r) PROVE admin'.last \in 0..(MaxClock + 1)
    <3>1. stage[r].step \in Steps
      BY <2>2, StagesHold DEF ClaimStep
    <3>2. UNCHANGED admin \/ admin' = [ admin EXCEPT !.last = stage[r].step ]
      BY <2>2 DEF ClaimStep
    <3>3. admin \in [ secret : Secrets \cup {NoSecret}, last : Nat, active : BOOLEAN ]
      BY DEF AdminInv
    <3> QED BY <3>1, <3>2, <3>3, SignInAssumption DEF Steps, PanelTypes
  <2>3. ASSUME NEW r \in Logins, ConfirmEnrollment(r) PROVE admin'.last \in 0..(MaxClock + 1)
    <3>1. PICK k \in Window : admin' = [ admin EXCEPT !.secret = stage[r].code, !.last = k ]
      BY <2>3 DEF ConfirmEnrollment
    <3>2. k \in 0..(MaxClock + 1)
      BY SignInAssumption DEF Window, PanelTypes
    <3> QED BY <3>1, <3>2 DEF AdminInv
  <2>4. CASE admin' = [ admin EXCEPT !.active = FALSE ]
    BY <2>4 DEF AdminInv, PanelTypes
  <2> QED BY <2>1, <2>2, <2>3, <2>4, SignInAssumption DEF PanelTypes
<1> QED BY <1>1, <1>2, <1>3, <1>4 DEF PanelTypes

\* What is on display was awarded, and so was what is about to be.
Displayable(p, chosen) == \A b \in chosen : owned[<<p, b>>] # "none"
Featuring(h) == hand[h].pc \in { "feature", "insert" }
DisplayHolds ==
  /\ DOMAIN featured = Players
  /\ \A p \in Players : featured[p] \subseteq Badges /\ Displayable(p, featured[p])
  /\ \A h \in Hands : Featuring(h) =>
       /\ hand[h].player \in Players /\ hand[h].chosen \subseteq Badges
       /\ Displayable(hand[h].player, hand[h].chosen)

LEMMA DisplayStep ==
  ASSUME BadgeInv, DisplayHolds, BadgeNext \/ UNCHANGED badgeVars
  PROVE  DisplayHolds'
<1>1. \A x \in Both : owned[x] # "none" => owned'[x] # "none"
  <2>1. \/ UNCHANGED owned
        \/ \E h \in Hands : AwardFounder(h) \/ Give(h) \/ Revoke(h)
    BY DEF BadgeNext, badgeVars, EditDefinition, FindFounder, FindBadge, PickHolder,
       CheckFeatured, ClearFeatured, SetFeatured
  <2>2. ASSUME NEW h \in Hands, AwardFounder(h) \/ Give(h) \/ Revoke(h)
        PROVE  \/ UNCHANGED owned
               \/ owned' = [ owned EXCEPT ![hand[h].row] = IF @ = "none" THEN "held" ELSE @ ]
               \/ owned' = [ owned EXCEPT ![hand[h].row] = "held" ]
               \/ owned' = [ owned EXCEPT ![hand[h].row] = "revoked" ]
    BY <2>2 DEF AwardFounder, Give, Revoke
  <2> QED BY <2>1, <2>2 DEF BadgeInv
<1>2. ASSUME NEW p \in Players, NEW chosen \in SUBSET Badges, Displayable(p, chosen)
      PROVE  Displayable(p, chosen)'
  BY <1>1, <1>2 DEF Displayable, Both
\* A request that features has chosen before, or chooses now.
<1>3. ASSUME NEW h \in Hands, Featuring(h)'
      PROVE  /\ hand'[h].player \in Players /\ hand'[h].chosen \in SUBSET Badges
             /\ Displayable(hand'[h].player, hand'[h].chosen)
  <2>1. CASE Featuring(h) /\ hand'[h].player = hand[h].player /\ hand'[h].chosen = hand[h].chosen
    BY <2>1 DEF DisplayHolds
  <2>2. CASE \E p \in Players, chosen \in SUBSET Badges :
               /\ Displayable(p, chosen)
               /\ hand'[h] = [ pc |-> "feature", player |-> p, chosen |-> chosen, seen |-> {} ]
    BY <2>2
  <2>3. \/ Featuring(h) /\ hand'[h].player = hand[h].player /\ hand'[h].chosen = hand[h].chosen
        \/ \E p \in Players, chosen \in SUBSET Badges :
             /\ Displayable(p, chosen)
             /\ hand'[h] = [ pc |-> "feature", player |-> p, chosen |-> chosen, seen |-> {} ]
    <3>1. CASE UNCHANGED hand
      BY <1>3, <3>1 DEF Featuring
    <3>2. CASE \E g \in Hands : Ends(g)
      BY <1>3, <3>2 DEF Ends, Resting, Featuring, BadgeInv
    <3>3. CASE \E g \in Hands : \E x : \/ Begins(g, [ pc |-> "found", row |-> x ])
                                       \/ Begins(g, [ pc |-> "give", row |-> x ])
                                       \/ Begins(g, [ pc |-> "revoke", row |-> x ])
      BY <1>3, <3>3 DEF Begins, Featuring, BadgeInv
    <3>4. ASSUME NEW g \in Hands, NEW p \in Players, NEW chosen \in SUBSET Badges,
                 CheckFeatured(g, p, chosen)
          PROVE  \/ hand'[h] = hand[h]
                 \/ /\ Displayable(p, chosen)
                    /\ hand'[h] = [ pc |-> "feature", player |-> p, chosen |-> chosen, seen |-> {} ]
      BY <3>4 DEF CheckFeatured, Begins, Displayable, BadgeInv
    <3>5. ASSUME NEW g \in Hands, ClearFeatured(g)
          PROVE  Featuring(h) /\ hand'[h].player = hand[h].player /\ hand'[h].chosen = hand[h].chosen
      <4>1. CASE g = h
        <5> DEFINE seen == featured[hand[h].player]
        <5>1. hand[h].pc = "feature"
              /\ hand' = [ hand EXCEPT ![h] = [ @ EXCEPT !.pc = "insert", !.seen = seen ] ]
          BY <3>5, <4>1 DEF ClearFeatured
        <5> HIDE DEF seen
        <5> QED BY <5>1 DEF Featuring, BadgeInv
      <4>2. CASE g # h
        BY <1>3, <3>5, <4>2 DEF ClearFeatured, Featuring, BadgeInv
      <4> QED BY <4>1, <4>2
    <3>6. ASSUME NEW g \in Hands, SetFeatured(g), ~Ends(g)
          PROVE  Featuring(h) /\ hand'[h].player = hand[h].player /\ hand'[h].chosen = hand[h].chosen
      <4>1. PICK p, gone : hand' = [ k \in Hands |-> IF k = g THEN Resting ELSE Without(k, p, gone) ]
        BY <3>6 DEF SetFeatured
      <4>2. g # h
        BY <1>3, <4>1 DEF Featuring, Resting
      <4>3. hand'[h] = Without(h, p, gone)
        BY <4>1, <4>2
      <4> DEFINE seen == hand[h].seen \ gone
      <4>4. \/ hand'[h] = hand[h]
            \/ hand[h].pc = "insert" /\ hand'[h] = [ hand[h] EXCEPT !.seen = seen ]
        BY <4>3 DEF Without
      <4> HIDE DEF seen
      <4>5. CASE hand'[h] = hand[h]
        BY <1>3, <4>5 DEF Featuring
      <4>6. CASE hand[h].pc = "insert" /\ hand'[h] = [ hand[h] EXCEPT !.seen = seen ]
        BY <4>6 DEF Featuring
      <4> QED BY <4>4, <4>5, <4>6
    <3>7. \/ UNCHANGED hand
          \/ \E g \in Hands : Ends(g) \/ ClearFeatured(g) \/ (SetFeatured(g) /\ ~Ends(g))
          \/ \E g \in Hands : \E x : \/ Begins(g, [ pc |-> "found", row |-> x ])
                                     \/ Begins(g, [ pc |-> "give", row |-> x ])
                                     \/ Begins(g, [ pc |-> "revoke", row |-> x ])
          \/ \E g \in Hands, p \in Players, chosen \in SUBSET Badges : CheckFeatured(g, p, chosen)
      BY DEF BadgeNext, badgeVars, EditDefinition, FindFounder, FindBadge, PickHolder,
         AwardFounder, Give, Revoke
    <3>8. CASE \E g \in Hands, p \in Players, chosen \in SUBSET Badges : CheckFeatured(g, p, chosen)
      <4>1. PICK g \in Hands, p \in Players, chosen \in SUBSET Badges : CheckFeatured(g, p, chosen)
        BY <3>8
      <4>2. \/ hand'[h] = hand[h]
            \/ /\ Displayable(p, chosen)
               /\ hand'[h] = [ pc |-> "feature", player |-> p, chosen |-> chosen, seen |-> {} ]
        BY <3>4, <4>1
      <4> QED BY <1>3, <4>2 DEF Featuring
    <3> QED BY <3>1, <3>2, <3>3, <3>5, <3>6, <3>7, <3>8
  <2> QED BY <2>1, <2>2, <2>3
<1>4. ASSUME NEW p \in Players
      PROVE  featured'[p] \in SUBSET Badges /\ Displayable(p, featured'[p])
  <2>1. \/ UNCHANGED featured
        \/ \E h \in Hands : /\ hand[h].pc = "insert"
                            /\ featured' = [ featured EXCEPT ![hand[h].player] =
                                               (@ \ hand[h].seen) \cup hand[h].chosen ]
    BY DEF BadgeNext, badgeVars, EditDefinition, FindFounder, FindBadge, PickHolder,
       CheckFeatured, ClearFeatured, SetFeatured, AwardFounder, Give, Revoke
  <2>2. ASSUME NEW h \in Hands, hand[h].pc = "insert",
               featured' = [ featured EXCEPT ![hand[h].player] =
                               (@ \ hand[h].seen) \cup hand[h].chosen ]
        PROVE  featured'[p] \in SUBSET Badges /\ Displayable(p, featured'[p])
    BY <2>2 DEF DisplayHolds, Displayable, Featuring
  <2> QED BY <2>1, <2>2 DEF DisplayHolds
<1>5. DOMAIN featured' = Players
  BY DEF DisplayHolds, BadgeNext, badgeVars, EditDefinition, FindFounder, FindBadge, PickHolder,
     CheckFeatured, ClearFeatured, SetFeatured, AwardFounder, Give, Revoke
<1>6. ASSUME NEW p \in Players PROVE Displayable(p, featured[p])'
  <2>1. PICK chosen : chosen = featured'[p]
    OBVIOUS
  <2>2. Displayable(p, chosen)'
    BY <1>2, <1>4, <2>1
  <2> QED BY <2>1, <2>2 DEF Displayable
<1>7. ASSUME NEW h \in Hands, Featuring(h)' PROVE Displayable(hand[h].player, hand[h].chosen)'
  <2>1. PICK p, chosen : p = hand'[h].player /\ chosen = hand'[h].chosen
    OBVIOUS
  <2>2. Displayable(p, chosen)'
    BY <1>2, <1>3, <1>7, <2>1
  <2> QED BY <2>1, <2>2 DEF Displayable
<1> QED BY <1>3, <1>4, <1>5, <1>6, <1>7 DEF DisplayHolds

------------------------------------------------------------------------------
(* The books.                                                              *)

\* What was sold and what went back: a sale that counts was completed at an
\* hour that has passed, and each sale that was called off after has one entry
\* in the ledger, for its price.
Refunds == { e \in ledger : e.type = "order_refund" }
Returned == { s \in DOMAIN Sales : sale[s].status = "refunded" }
BooksInv ==
  /\ now \in Hours /\ rate \in Int /\ typed \in Nat
  /\ sale \in [ DOMAIN Sales -> [ status : { "open", "cancelled", "completed", "refunded" },
                                  done : Nat ] ]
  /\ \A s \in DOMAIN Sales : sale[s].status \in Recognised =>
                               sale[s].done \in Hours /\ sale[s].done <= now
  /\ IsFiniteSet(ledger)
  /\ \A e \in ledger : e.at \in Int /\ e.cents \in Int
  /\ \A e \in Refunds : /\ e.id \in Returned /\ e.at \in Hours
                        /\ e.cents = -Sales[e.id].price
  /\ \A e, f \in Refunds : e.id = f.id => e = f
  /\ \A s \in Returned : \E e \in Refunds : e.id = s

\* The clock starts at the first hour, and there is a last.
LEMMA HoursEnd ==
  /\ Min(Hours) \in Hours /\ \A t \in Hours : Min(Hours) <= t
  /\ Max(Hours) \in Hours /\ \A t \in Hours : t <= Max(Hours)
<1>1. Hours \in SUBSET Int /\ IsFiniteSet(Hours) /\ Hours # {}
  BY BooksAssumption
<1>2. \E x \in Hours : \A y \in Hours : x <= y
  BY <1>1, FiniteHasMin
<1>3. \E x \in Hours : \A y \in Hours : x >= y
  <2>1. PICK x \in Hours : \A y \in Hours : y <= x
    BY <1>1, FiniteHasMax
  <2>2. \A y \in Hours : x >= y
    BY <1>1, <2>1
  <2> QED BY <2>2
<1>4. /\ Min(Hours) \in Hours /\ \A t \in Hours : Min(Hours) <= t
  BY <1>2 DEF Min
<1>5. /\ Max(Hours) \in Hours /\ \A t \in Hours : Max(Hours) >= t
  BY <1>3 DEF Max
<1> QED BY <1>1, <1>4, <1>5

LEMMA BooksInvInit == BooksInit => BooksInv
<1> SUFFICES ASSUME BooksInit PROVE BooksInv
  OBVIOUS
<1>1. IsFiniteSet({})
  BY FS_EmptySet
<1> QED BY <1>1, HoursEnd DEF BooksInit, BooksInv, Placed, Refunds, Returned, Recognised

\* An entry that is not a refund touches no refund.
LEMMA EntriesHold ==
  ASSUME BooksInv, UNCHANGED <<now, sale>>, rate' \in Int, typed' \in Nat,
         NEW e, e.type # "order_refund", e.at \in Int, e.cents \in Int,
         ledger' = ledger \cup {e} \/ ledger' = ledger \ {e}
  PROVE  BooksInv'
<1>1. IsFiniteSet(ledger')
  BY FS_AddElement, FS_RemoveElement DEF BooksInv
<1>2. Refunds' = Refunds /\ Returned' = Returned
  BY DEF Refunds, Returned
<1>3. \A x \in ledger' : x.at \in Int /\ x.cents \in Int
  BY DEF BooksInv
<1> QED BY <1>1, <1>2, <1>3 DEF BooksInv

LEMMA BooksInvStep ==
  ASSUME BooksInv, BooksNext \/ UNCHANGED bookVars
  PROVE  BooksInv'
<1>0. Hours \subseteq Nat /\ Cents \subseteq Int /\ Rates \subseteq Int
  BY BooksAssumption
<1>1. CASE UNCHANGED bookVars
  BY <1>1 DEF bookVars, BooksInv, Refunds, Returned
<1>2. CASE Passes
  BY <1>0, <1>2 DEF Passes, BooksInv, Refunds, Returned
<1>3. ASSUME NEW s \in DOMAIN Sales, Complete(s) PROVE BooksInv'
  <2>1. /\ sale[s].status = "open" /\ UNCHANGED <<now, ledger, rate, typed>>
        /\ \/ sale' = [ sale EXCEPT ![s].status = "cancelled" ]
           \/ sale' = [ sale EXCEPT ![s] = [ @ EXCEPT !.status = "completed", !.done = now ] ]
    BY <1>3 DEF Complete, Turns
  <2>2. /\ DOMAIN sale' = DOMAIN Sales /\ sale'[s].status \in { "cancelled", "completed" }
        /\ sale'[s].status = "completed" => sale'[s].done = now
        /\ sale'[s] \in [ status : { "open", "cancelled", "completed", "refunded" }, done : Nat ]
        /\ \A r \in DOMAIN Sales : r # s => sale'[r] = sale[r]
    BY <1>0, <2>1, ZenonT(30) DEF BooksInv
  <2>3. Refunds' = Refunds /\ Returned' = Returned
    BY <2>1, <2>2 DEF Refunds, Returned
  <2>4. sale' \in [ DOMAIN Sales -> [ status : { "open", "cancelled", "completed", "refunded" },
                                      done : Nat ] ]
    BY <2>1, <2>2, SMTT(30) DEF BooksInv
  <2>5. \A r \in DOMAIN Sales : sale'[r].status \in Recognised =>
                                  sale'[r].done \in Hours /\ sale'[r].done <= now
    BY <1>0, <2>2 DEF BooksInv, Recognised
  <2> QED BY <2>1, <2>3, <2>4, <2>5 DEF BooksInv
<1>4. ASSUME NEW s \in DOMAIN Sales, ReverseSale(s) PROVE BooksInv'
  <2> DEFINE e == Entry("order_refund", s, now, -Sales[s].price)
  <2>1. /\ sale[s].status = "completed" /\ UNCHANGED <<now, rate, typed>>
        /\ sale' = [ sale EXCEPT ![s].status = "refunded" ] /\ ledger' = ledger \cup {e}
    BY <1>4 DEF ReverseSale, Turns
  <2>2. /\ DOMAIN sale' = DOMAIN Sales /\ sale'[s].status = "refunded"
        /\ sale'[s].done = sale[s].done
        /\ sale'[s] \in [ status : { "open", "cancelled", "completed", "refunded" }, done : Nat ]
        /\ \A r \in DOMAIN Sales : r # s => sale'[r] = sale[r]
    BY <2>1 DEF BooksInv
  <2>3. /\ e.type = "order_refund" /\ e.id = s /\ e.at = now /\ e.cents = -Sales[s].price
    BY DEF Entry
  <2>4. Refunds' = Refunds \cup {e} /\ Returned' = Returned \cup {s} /\ s \notin Returned
    <3> HIDE DEF e
    <3> QED BY <2>1, <2>2, <2>3 DEF Refunds, Returned
  <2>5. sale' \in [ DOMAIN Sales -> [ status : { "open", "cancelled", "completed", "refunded" },
                                      done : Nat ] ]
    BY <2>1, <2>2 DEF BooksInv
  <2>6. \A r \in DOMAIN Sales : sale'[r].status \in Recognised =>
                                  sale'[r].done \in Hours /\ sale'[r].done <= now
    BY <2>1, <2>2 DEF BooksInv, Recognised
  <2>7. IsFiniteSet(ledger')
    BY <2>1, FS_AddElement DEF BooksInv
  <2>8. now \in Hours /\ now \in Int /\ -Sales[s].price \in Int
    BY <1>0, BooksAssumption DEF BooksInv
  <2> HIDE DEF e
  <2>9. \A x \in ledger' : x.at \in Int /\ x.cents \in Int
    BY <2>1, <2>3, <2>8 DEF BooksInv
  <2>10. \A x \in Refunds' : /\ x.id \in Returned' /\ x.at \in Hours
                             /\ x.cents = -Sales[x.id].price
    BY <2>3, <2>4, <2>8 DEF BooksInv
  <2>11. \A x, y \in Refunds' : x.id = y.id => x = y
    BY <2>3, <2>4 DEF BooksInv
  <2>12. \A r \in Returned' : \E x \in Refunds' : x.id = r
    BY <2>3, <2>4 DEF BooksInv
  <2> QED BY <2>1, <2>5, <2>6, <2>7, <2>9, <2>10, <2>11, <2>12 DEF BooksInv
<1>5. ASSUME NEW s \in DOMAIN Sales, GrantReward(s) PROVE BooksInv'
  <2>1. PICK cost \in Cents \cap Nat :
          ledger' = ledger \cup { Entry("level_pass_reward", s, now, -cost) }
    BY <1>5 DEF GrantReward
  <2>2. PICK e : e = Entry("level_pass_reward", s, now, -cost)
    OBVIOUS
  <2>3. /\ e.type # "order_refund" /\ e.at \in Int /\ e.cents \in Int
        /\ ledger' = ledger \cup {e} /\ UNCHANGED <<now, sale>> /\ rate' \in Int /\ typed' \in Nat
    BY <1>0, <1>5, <2>1, <2>2 DEF Entry, GrantReward, BooksInv
  <2> QED BY <2>3, EntriesHold
<1>6. ASSUME NEW id \in Manual, DeleteEntry(id) PROVE BooksInv'
  <2>1. PICK e \in ledger : IsManual(e) /\ ledger' = ledger \ {e}
    BY <1>6 DEF DeleteEntry
  <2>2. /\ e.type # "order_refund" /\ e.at \in Int /\ e.cents \in Int
        /\ UNCHANGED <<now, sale>> /\ rate' \in Int /\ typed' \in Nat
    BY <1>6, <2>1 DEF DeleteEntry, ByHand, IsManual, BooksInv
  <2> QED BY <2>1, <2>2, EntriesHold
<1>7. ASSUME NEW id \in Manual, NEW kind, NEW cents \in Cents, NEW t \in Hours,
             NEW d, d = Day(t), AddEntry(id, kind, d, cents)
      PROVE  BooksInv'
  <2>1. d \in Int
    BY <1>0, <1>7 DEF Day
  <2>2. PICK e : /\ ledger' = ledger \cup {e}
                 /\ \/ e = Entry("manual_expense", id, Midnight(d) + 12, -cents)
                    \/ e = Entry("manual_income", id, Midnight(d) + 12, cents)
    BY <1>7 DEF AddEntry
  <2>3. /\ e.type # "order_refund" /\ e.at \in Int /\ e.cents \in Int
        /\ UNCHANGED <<now, sale>> /\ rate' \in Int /\ typed' \in Nat
    BY <1>0, <1>7, <2>1, <2>2 DEF AddEntry, ByHand, Entry, Midnight, BooksInv
  <2> QED BY <2>2, <2>3, EntriesHold
<1>8. ASSUME NEW r \in Rates, SaveFxRate(r) PROVE BooksInv'
  BY <1>0, <1>8 DEF SaveFxRate, ByHand, BooksInv, Refunds, Returned
<1> QED BY <1>1, <1>2, <1>3, <1>4, <1>5, <1>6, <1>7, <1>8 DEF BooksNext

\* The days on which something may happen, and every hour is within them.
LEMMA DaysEnd ==
  /\ Min(Days) = Day(Min(Hours)) /\ Max(Days) = Day(Max(Hours)) /\ Days \in SUBSET Int
  /\ Min(Days) \in Int /\ \A d \in Days : Min(Days) <= d
  /\ \A t \in Hours : t \in Int /\ Within(t, CustomRange(Min(Days), Max(Days)))
<1> DEFINE a == Day(Min(Hours))
           b == Day(Max(Hours))
<1>1. /\ \A t \in Hours : t \in Int /\ Min(Hours) <= t /\ t <= Max(Hours)
      /\ Min(Hours) \in Int /\ Max(Hours) \in Int /\ Min(Hours) <= Max(Hours)
  <2>1. \A t \in Hours : t \in Int
    BY BooksAssumption
  <2> QED BY <2>1, HoursEnd
<1>2. a \in Int /\ b \in Int /\ a <= b /\ Days = a..b
  BY <1>1 DEF Day, Days
<1>3. \A t \in Hours : 24 * a - 18 <= t /\ t < 24 * (b + 1) - 18
  BY <1>1 DEF Day
<1> HIDE DEF a, b
<1>4. Min(Days) = a
  <2>1. a \in Days /\ \A y \in Days : a <= y
    BY <1>2
  <2>2. Min(Days) \in Days /\ \A y \in Days : Min(Days) <= y
    BY <2>1 DEF Min
  <2> QED BY <1>2, <2>1, <2>2
<1>5. Max(Days) = b
  <2>1. b \in Days /\ \A y \in Days : b >= y
    BY <1>2
  <2>2. Max(Days) \in Days /\ \A y \in Days : Max(Days) >= y
    BY <2>1 DEF Max
  <2> QED BY <1>2, <2>1, <2>2
<1>6. \A t \in Hours : Within(t, CustomRange(a, b))
  BY <1>2, <1>3 DEF Within, CustomRange, Midnight
<1> QED BY <1>1, <1>2, <1>4, <1>5, <1>6 DEF a, b

\* A range that another begins and a third ends, with nothing counted twice.
Splits(w, s, l) == \A t \in Int : /\ Within(t, w) <=> Within(t, s) \/ Within(t, l)
                                  /\ ~(Within(t, s) /\ Within(t, l))

LEMMA LastDay ==
  ASSUME NEW a \in Int, NEW d \in Int, a < d
  PROVE  Splits(CustomRange(a, d), CustomRange(a, d - 1), DayRange(d))
BY DEF Splits, CustomRange, DayRange, Midnight, Within

LEMMA DayOfWeek ==
  ASSUME NEW d \in Int, NEW t \in Int, Within(t, DayRange(d))
  PROVE  Within(t, WeekRange(d))
<1> DEFINE monday == d - ((d - 1) % 7)
<1>1. monday \in Int /\ monday <= d /\ d <= monday + 6
  OBVIOUS
<1>2. WeekRange(d) = [ start |-> Midnight(monday), end |-> Midnight(monday + 7) ]
  BY DEF WeekRange
<1> HIDE DEF monday
<1> QED BY <1>1, <1>2 DEF DayRange, Midnight, Within

\* The columns that are summed.
LEMMA ColumnTypes ==
  \A s \in DOMAIN Sales : /\ Prices[s] \in Int /\ Fees[s] \in Int
                          /\ Sales[s].cost # Unknown => Costs[s] \in Int
<1> SUFFICES ASSUME NEW s \in DOMAIN Sales
             PROVE  /\ Prices[s] \in Int /\ Fees[s] \in Int
                    /\ Sales[s].cost # Unknown => Costs[s] \in Int
  OBVIOUS
<1> DEFINE fee == FeeRate(Sales[s].gateway, Sales[s].method)
<1>1. Sales[s].price \in Int /\ (Sales[s].cost # Unknown => Sales[s].cost \in Int)
  BY BooksAssumption
<1>2. fee[1] \in Int /\ fee[2] \in Int
  BY DEF FeeRate
<1>3. EstimateFee(Sales[s].gateway, Sales[s].method, Sales[s].price)
        = ((Sales[s].price * fee[1] + fee[2] * 10000) * 29 + 125000) \div 250000
  BY DEF EstimateFee
<1> HIDE DEF fee
<1>4. EstimateFee(Sales[s].gateway, Sales[s].method, Sales[s].price) \in Int
  BY <1>1, <1>2, <1>3
<1> QED BY <1>1, <1>4 DEF Prices, Fees, Costs

\* What a range sold and booked is what its two parts did.
LEMMA SalesSplit ==
  ASSUME BooksInv, NEW w, NEW s, NEW l, Splits(w, s, l)
  PROVE  /\ Gross(w) = Gross(s) + Gross(l)
         /\ EstimatedFee(w) = EstimatedFee(s) + EstimatedFee(l)
         /\ SumFunctionOnSet(Costs, Costed(w))
              = SumFunctionOnSet(Costs, Costed(s)) + SumFunctionOnSet(Costs, Costed(l))
         /\ \A r \in {s, l} : /\ Gross(r) \in Int /\ EstimatedFee(r) \in Int
                              /\ SumFunctionOnSet(Costs, Costed(r)) \in Int
<1>1. \A x \in DOMAIN Sales : sale[x].done \in Int
  BY DEF BooksInv
<1>2. Sold(w) = Sold(s) \cup Sold(l) /\ Sold(s) \cap Sold(l) = {}
  BY <1>1 DEF Sold, Splits
<1>3. Costed(w) = Costed(s) \cup Costed(l) /\ Costed(s) \cap Costed(l) = {}
  BY <1>2 DEF Costed
<1>4. \A r : /\ IsFiniteSet(Sold(r)) /\ IsFiniteSet(Costed(r))
             /\ Sold(r) \in SUBSET (DOMAIN Sales) /\ Costed(r) \in SUBSET Sold(r)
  <2> TAKE r
  <2>1. Sold(r) \in SUBSET (DOMAIN Sales) /\ Costed(r) \in SUBSET (DOMAIN Sales)
    BY DEF Sold, Costed
  <2>2. IsFiniteSet(DOMAIN Sales)
    BY BooksAssumption
  <2> QED BY <2>1, <2>2, FS_Subset DEF Costed
<1>5. \A r : /\ \A x \in Sold(r) : Prices[x] \in Int /\ Fees[x] \in Int
             /\ \A x \in Costed(r) : Costs[x] \in Int
  BY <1>4, ColumnTypes DEF Costed
<1>6. Gross(w) = Gross(s) + Gross(l)
  <2>1. \A x \in Sold(s) \cup Sold(l) : Prices[x] \in Int
    BY <1>5
  <2> QED BY <1>2, <1>4, <2>1, SumOfUnion DEF Gross
<1>7. EstimatedFee(w) = EstimatedFee(s) + EstimatedFee(l)
  <2>1. \A x \in Sold(s) \cup Sold(l) : Fees[x] \in Int
    BY <1>5
  <2> QED BY <1>2, <1>4, <2>1, SumOfUnion DEF EstimatedFee
<1>8. SumFunctionOnSet(Costs, Costed(w))
        = SumFunctionOnSet(Costs, Costed(s)) + SumFunctionOnSet(Costs, Costed(l))
  <2>1. \A x \in Costed(s) \cup Costed(l) : Costs[x] \in Int
    BY <1>5
  <2> QED BY <1>3, <1>4, <2>1, SumOfUnion
<1>9. ASSUME NEW r
      PROVE  /\ Gross(r) \in Int /\ EstimatedFee(r) \in Int
             /\ SumFunctionOnSet(Costs, Costed(r)) \in Int
  BY <1>4, <1>5, SumTypes DEF Gross, EstimatedFee
<1> QED BY <1>6, <1>7, <1>8, <1>9

\* What is booked of one kind within a range.
BookedIn(type, range) == { e \in ledger : e.type = type /\ Within(e.at, range) }
Amounts == [ e \in ledger |-> e.cents ]

LEMMA BookedTypes ==
  ASSUME BooksInv, NEW type, NEW r
  PROVE  /\ IsFiniteSet(BookedIn(type, r)) /\ \A e \in BookedIn(type, r) : Amounts[e] \in Int
         /\ Booked(type, r) = SumFunctionOnSet(Amounts, BookedIn(type, r))
         /\ Booked(type, r) \in Int
<1>1. IsFiniteSet(BookedIn(type, r)) /\ \A e \in BookedIn(type, r) : Amounts[e] \in Int
  <2>1. IsFiniteSet(ledger) /\ BookedIn(type, r) \in SUBSET ledger
    BY DEF BookedIn, BooksInv
  <2>2. IsFiniteSet(BookedIn(type, r))
    BY <2>1, FS_Subset
  <2> QED BY <2>2 DEF BookedIn, Amounts, BooksInv
<1>2. Booked(type, r) = SumFunctionOnSet(Amounts, BookedIn(type, r))
  BY DEF Booked, BookedIn, Amounts
<1> QED BY <1>1, <1>2, SumTypes

LEMMA BookedSplit ==
  ASSUME BooksInv, NEW type, NEW w, NEW s, NEW l, Splits(w, s, l)
  PROVE  /\ Booked(type, w) = Booked(type, s) + Booked(type, l)
         /\ Booked(type, s) \in Int /\ Booked(type, l) \in Int
<1>1. /\ BookedIn(type, w) = BookedIn(type, s) \cup BookedIn(type, l)
      /\ BookedIn(type, s) \cap BookedIn(type, l) = {}
  BY DEF BookedIn, Splits, BooksInv
<1>2. \A e \in BookedIn(type, s) \cup BookedIn(type, l) : Amounts[e] \in Int
  BY BookedTypes
<1>3. IsFiniteSet(BookedIn(type, s)) /\ IsFiniteSet(BookedIn(type, l))
  BY BookedTypes
<1>4. SumFunctionOnSet(Amounts, BookedIn(type, w))
        = SumFunctionOnSet(Amounts, BookedIn(type, s)) + SumFunctionOnSet(Amounts, BookedIn(type, l))
  BY <1>1, <1>2, <1>3, SumOfUnion
<1> QED BY <1>4, BookedTypes

\* Rounding twice may cost a centavo, either way.
LEMMA RoundedTwice ==
  ASSUME NEW m \in Int, NEW n \in Int
  PROVE  ((m + n + 5000) \div 10000) - ((m + 5000) \div 10000) - ((n + 5000) \div 10000) \in -1..1
OBVIOUS

\* What went back is what the sales that were called off had cost, and a
\* reward had cost nothing.
LEMMA RefundsMatch ==
  ASSUME BooksInv, NEW all, \A t \in Hours : Within(t, all)
  PROVE  Gross(all) + Booked("order_refund", all) = SumFunctionOnSet(Prices, Movements(all))
<1> DEFINE back == { s \in Returned : ~Sales[s].reward }
           gifts == { s \in Returned : Sales[s].reward }
           loss == [ s \in DOMAIN Sales |-> -Sales[s].price ]
           h == [ e \in Refunds |-> e.id ]
<1>1. /\ IsFiniteSet(Returned) /\ IsFiniteSet(back) /\ IsFiniteSet(gifts)
      /\ IsFiniteSet(Movements(all)) /\ Returned = back \cup gifts /\ back \cap gifts = {}
      /\ Returned \in SUBSET (DOMAIN Sales) /\ Movements(all) \in SUBSET (DOMAIN Sales)
  <2>1. /\ back \in SUBSET Returned /\ gifts \in SUBSET Returned
        /\ Returned \in SUBSET (DOMAIN Sales) /\ Movements(all) \in SUBSET (DOMAIN Sales)
    BY DEF Returned, Movements, Sold
  <2>2. IsFiniteSet(Returned) /\ IsFiniteSet(Movements(all))
    BY <2>1, BooksAssumption, FS_Subset
  <2>3. IsFiniteSet(back) /\ IsFiniteSet(gifts)
    BY <2>1, <2>2, FS_Subset
  <2> QED BY <2>1, <2>2, <2>3
<1>2. \A s \in DOMAIN Sales : Prices[s] \in Int /\ loss[s] \in Int /\ loss[s] = -Prices[s]
  BY BooksAssumption DEF Prices
<1>3. Sold(all) = Movements(all) \cup back /\ Movements(all) \cap back = {}
  BY DEF Sold, Movements, Returned, Recognised, BooksInv
<1>4. Gross(all) = SumFunctionOnSet(Prices, Movements(all)) + SumFunctionOnSet(Prices, back)
  <2>1. \A s \in Movements(all) \cup back : Prices[s] \in Int
    BY <1>1, <1>2
  <2> HIDE DEF back
  <2> QED BY <1>1, <1>3, <2>1, SumOfUnion DEF Gross
<1>5. SumFunctionOnSet(Prices, Returned) = SumFunctionOnSet(Prices, back)
  <2>1. \A s \in gifts : Prices[s] = 0
    BY <1>1, BooksAssumption DEF Prices
  <2>2. \A s \in back \cup gifts : Prices[s] \in Int
    BY <1>1, <1>2
  <2> HIDE DEF back, gifts
  <2>3. SumFunctionOnSet(Prices, gifts) = 0
    BY <1>1, <2>1, SumOfZeros
  <2>4. SumFunctionOnSet(Prices, Returned)
          = SumFunctionOnSet(Prices, back) + SumFunctionOnSet(Prices, gifts)
    BY <1>1, <2>2, SumOfUnion
  <2>5. SumFunctionOnSet(Prices, back) \in Int
    BY <1>1, <2>2, SumTypes
  <2> QED BY <2>3, <2>4, <2>5
<1>6. SumFunctionOnSet(loss, Returned) = -SumFunctionOnSet(Prices, Returned)
  <2>1. \A s \in Returned : Prices[s] \in Int /\ loss[s] = -Prices[s]
    BY <1>1, <1>2
  <2> HIDE DEF loss
  <2> QED BY <1>1, <2>1, SumNegates
<1>7. BookedIn("order_refund", all) = Refunds
  BY DEF BookedIn, Refunds, BooksInv
<1>8. SumFunctionOnSet(Amounts, Refunds) = SumFunctionOnSet(loss, Returned)
  <2>1. IsFiniteSet(Refunds)
    BY <1>7, BookedTypes
  <2>2. h \in [ Refunds -> Returned ]
    BY DEF BooksInv
  <2>3. /\ \A e, f \in Refunds : h[e] = h[f] => e = f
        /\ \A s \in Returned : \E e \in Refunds : h[e] = s
    BY DEF BooksInv
  <2>4. \A e \in Refunds : Amounts[e] \in Int
    BY <1>7, BookedTypes
  <2>5. \A e \in Refunds : Amounts[e] = loss[h[e]]
    <3> SUFFICES ASSUME NEW e \in Refunds PROVE Amounts[e] = loss[h[e]]
      OBVIOUS
    <3>1. e \in ledger /\ h[e] = e.id /\ e.id \in DOMAIN Sales /\ e.cents = -Sales[e.id].price
      BY <1>1 DEF BooksInv, Refunds
    <3> QED BY <3>1 DEF Amounts
  <2> HIDE DEF h, loss
  <2> QED BY <1>1, <2>1, <2>2, <2>3, <2>4, <2>5, SumsMatch
<1>9. /\ SumFunctionOnSet(Prices, Movements(all)) \in Int
      /\ SumFunctionOnSet(Prices, back) \in Int
  <2>1. \A s \in Movements(all) \cup back : Prices[s] \in Int
    BY <1>1, <1>2
  <2> HIDE DEF back
  <2> QED BY <1>1, <2>1, SumTypes
<1>10. Booked("order_refund", all) = SumFunctionOnSet(Amounts, Refunds)
  BY <1>7, BookedTypes
<1> QED BY <1>4, <1>5, <1>6, <1>8, <1>9, <1>10

LEMMA DaysAddUpAlways == BooksInv => DaysAddUp
<1> SUFFICES ASSUME BooksInv PROVE DaysAddUp
  OBVIOUS
<1>1. ASSUME NEW d \in Days \ { Min(Days) }
      PROVE  LET whole == Statement(CustomRange(Min(Days), d))
                 start == Statement(CustomRange(Min(Days), d - 1))
                 last  == Statement(DayRange(d))
             IN  /\ whole.gross - whole.fee = start.gross - start.fee + last.gross - last.fee
                 /\ whole.ledger.refunds = start.ledger.refunds + last.ledger.refunds
                 /\ whole.cost - start.cost - last.cost \in -1..1
  <2> DEFINE w == CustomRange(Min(Days), d)
             s == CustomRange(Min(Days), d - 1)
             l == DayRange(d)
             C(r) == SumFunctionOnSet(Costs, Costed(r))
  <2>1. Splits(w, s, l)
    <3>1. Min(Days) \in Int /\ d \in Int /\ Min(Days) < d
      BY DaysEnd
    <3> QED BY <3>1, LastDay
  <2> HIDE DEF w, s, l
  <2>2. /\ Gross(w) = Gross(s) + Gross(l) /\ EstimatedFee(w) = EstimatedFee(s) + EstimatedFee(l)
        /\ C(w) = C(s) + C(l)
        /\ \A r \in {s, l} : Gross(r) \in Int /\ EstimatedFee(r) \in Int /\ C(r) \in Int
    BY <2>1, SalesSplit
  <2>3. Gross(w) - EstimatedFee(w) = Gross(s) - EstimatedFee(s) + Gross(l) - EstimatedFee(l)
    BY <2>2
  <2>4. -Booked("order_refund", w) = -Booked("order_refund", s) + -Booked("order_refund", l)
    <3>1. /\ Booked("order_refund", w) = Booked("order_refund", s) + Booked("order_refund", l)
          /\ Booked("order_refund", s) \in Int /\ Booked("order_refund", l) \in Int
      BY <2>1, BookedSplit
    <3> QED BY <3>1
  <2>5. RecargaCost(w) - RecargaCost(s) - RecargaCost(l) \in -1..1
    <3> HIDE DEF C
    <3>1. C(s) * rate \in Int /\ C(l) * rate \in Int /\ C(w) * rate = C(s) * rate + C(l) * rate
      BY <2>2 DEF BooksInv
    <3>2. (((C(s) * rate) + (C(l) * rate) + 5000) \div 10000)
            - (((C(s) * rate) + 5000) \div 10000) - (((C(l) * rate) + 5000) \div 10000) \in -1..1
      BY <3>1, RoundedTwice
    <3>3. \A r : RecargaCost(r) = (C(r) * rate + 5000) \div 10000
      BY DEF RecargaCost, C
    <3> QED BY <3>1, <3>2, <3>3
  <2>6. \A r : /\ Statement(r).gross = Gross(r) /\ Statement(r).fee = EstimatedFee(r)
               /\ Statement(r).cost = RecargaCost(r)
               /\ Statement(r).ledger.refunds = -Booked("order_refund", r)
    BY DEF Statement, LedgerTotals
  <2> QED BY <2>3, <2>4, <2>5, <2>6 DEF w, s, l
<1>2. ASSUME NEW d \in Days PROVE Sold(DayRange(d)) \subseteq Sold(WeekRange(d))
  <2>1. d \in Int /\ \A x \in DOMAIN Sales : sale[x].done \in Int
    BY DaysEnd DEF BooksInv
  <2>2. \A x \in DOMAIN Sales : Within(sale[x].done, DayRange(d)) => Within(sale[x].done, WeekRange(d))
    BY <2>1, DayOfWeek
  <2> QED BY <2>2 DEF Sold
<1>3. LET all == CustomRange(Min(Days), Max(Days))
      IN  Gross(all) - LedgerTotals(all).refunds = SumFunctionOnSet(Prices, Movements(all))
  <2> DEFINE all == CustomRange(Min(Days), Max(Days))
  <2>1. \A t \in Hours : Within(t, all)
    BY DaysEnd
  <2> HIDE DEF all
  <2>2. Gross(all) + Booked("order_refund", all) = SumFunctionOnSet(Prices, Movements(all))
    BY <2>1, RefundsMatch
  <2>3. LedgerTotals(all).refunds = -Booked("order_refund", all)
    BY DEF LedgerTotals
  <2>4. Booked("order_refund", all) \in Int
    BY BookedTypes
  <2>5. Gross(all) \in Int
    <3>1. Splits(all, all, [ start |-> 0, end |-> 0 ])
      BY DEF Splits, Within
    <3> QED BY <3>1, SalesSplit
  <2>6. Gross(all) - LedgerTotals(all).refunds = SumFunctionOnSet(Prices, Movements(all))
    BY <2>2, <2>3, <2>4, <2>5
  <2> QED BY <2>6 DEF all
<1> QED BY <1>1, <1>2, <1>3 DEF DaysAddUp

\* A statement is of its own range: what is entered outside it, and what a
\* sale of it becomes among the recognised, leave it as it is.
LEMMA StatementHolds ==
  ASSUME BooksInv, NEW r, rate' = rate, Sold(r)' = Sold(r), BooksInv',
         \A type : BookedIn(type, r)' = BookedIn(type, r)
  PROVE  Statement(r)' = Statement(r)
<1>1. ASSUME NEW type PROVE Booked(type, r)' = Booked(type, r)
  <2>1. /\ IsFiniteSet(BookedIn(type, r)) /\ BookedIn(type, r)' = BookedIn(type, r)
        /\ Booked(type, r) = SumFunctionOnSet(Amounts, BookedIn(type, r))
    BY BookedTypes
  <2>2. Booked(type, r)' = SumFunctionOnSet(Amounts', BookedIn(type, r))
    BY <2>1 DEF Booked, BookedIn, Amounts
  <2>3. \A e \in BookedIn(type, r) : Amounts[e] = Amounts'[e]
    <3>1. BookedIn(type, r) \in SUBSET ledger /\ BookedIn(type, r)' \in SUBSET ledger'
      BY DEF BookedIn
    <3> QED BY <2>1, <3>1 DEF Amounts
  <2>4. SumFunctionOnSet(Amounts, BookedIn(type, r)) = SumFunctionOnSet(Amounts', BookedIn(type, r))
    BY <2>1, <2>3, SumsEqual
  <2> QED BY <2>1, <2>2, <2>4
<1>2. LedgerTotals(r)' = LedgerTotals(r)
  BY <1>1 DEF LedgerTotals
<1>3. Costed(r)' = Costed(r)
  BY DEF Costed
<1>4. /\ Gross(r)' = Gross(r) /\ EstimatedFee(r)' = EstimatedFee(r)
      /\ RecargaCost(r)' = RecargaCost(r) /\ CostDataIncomplete(r)' = CostDataIncomplete(r)
  BY <1>3 DEF Gross, EstimatedFee, RecargaCost, CostDataIncomplete
<1>5. NetSales(r)' = NetSales(r)
  BY <1>4 DEF NetSales
<1>6. RealNetProfit(r)' = RealNetProfit(r)
  BY <1>2, <1>5 DEF RealNetProfit
<1> QED BY <1>2, <1>4, <1>6 DEF Statement

LEMMA ClosedDaysStand ==
  ASSUME BooksInv, BooksNext, typed' = typed, NEW d \in Days, d < Day(now)
  PROVE  Statement(DayRange(d))' = Statement(DayRange(d))
<1> DEFINE r == DayRange(d)
<1>1. BooksInv'
  BY BooksInvStep
<1>2. ~Within(now, r)
  <2>1. now \in Int /\ d \in Int
    BY DaysEnd, BooksAssumption DEF BooksInv
  <2> QED BY <2>1 DEF DayRange, Midnight, Within, Day
<1> HIDE DEF r
<1>3. /\ rate' = rate
      /\ \/ Passes
         \/ \E s \in DOMAIN Sales : Complete(s) \/ ReverseSale(s) \/ GrantReward(s)
  <2>1. typed + 1 # typed
    BY DEF BooksInv
  <2>2. ~ByHand
    BY <2>1 DEF ByHand
  <2>3. \A id, kind, d0, cents : AddEntry(id, kind, d0, cents) => ByHand
    BY DEF AddEntry
  <2>4. \A id, x : DeleteEntry(id) \/ SaveFxRate(x) => ByHand
    BY DEF DeleteEntry, SaveFxRate
  <2>5. \/ Passes
        \/ \E s \in DOMAIN Sales : Complete(s) \/ ReverseSale(s) \/ GrantReward(s)
    BY <2>2, <2>3, <2>4 DEF BooksNext
  <2> QED BY <2>5 DEF Passes, Complete, ReverseSale, GrantReward
<1>4. Sold(r)' = Sold(r)
  <2>1. ASSUME NEW s \in DOMAIN Sales
        PROVE  (sale'[s].status \in Recognised /\ Within(sale'[s].done, r))
                 <=> (sale[s].status \in Recognised /\ Within(sale[s].done, r))
    <3>1. CASE sale'[s] = sale[s]
      BY <3>1
    <3>2. CASE Complete(s)
      <4>1. /\ sale[s].status = "open"
            /\ sale'[s].status = "cancelled" \/ sale'[s].done = now
        BY <3>2 DEF Complete, Turns, BooksInv
      <4> QED BY <1>2, <4>1 DEF Recognised
    <3>3. CASE ReverseSale(s)
      <4>1. /\ sale[s].status = "completed" /\ sale'[s].status = "refunded"
            /\ sale'[s].done = sale[s].done
        BY <3>3 DEF ReverseSale, Turns, BooksInv
      <4> QED BY <4>1 DEF Recognised
    <3>4. sale'[s] = sale[s] \/ Complete(s) \/ ReverseSale(s)
      BY <1>3 DEF Passes, Complete, ReverseSale, GrantReward, Turns, BooksInv
    <3> QED BY <3>1, <3>2, <3>3, <3>4
  <2> QED BY <2>1 DEF Sold
<1>5. ASSUME NEW type PROVE BookedIn(type, r)' = BookedIn(type, r)
  <2>1. ledger \in SUBSET ledger' /\ \A e \in ledger' \ ledger : e.at = now
    <3>1. CASE UNCHANGED ledger
      BY <3>1
    <3>2. ASSUME NEW s, ReverseSale(s) \/ GrantReward(s)
          PROVE  ledger \in SUBSET ledger' /\ \A e \in ledger' \ ledger : e.at = now
      <4>1. \E kind, cents : ledger' = ledger \cup { Entry(kind, s, now, cents) }
        BY <3>2 DEF ReverseSale, GrantReward
      <4> QED BY <4>1 DEF Entry
    <3> QED BY <1>3, <3>1, <3>2 DEF Passes, Complete
  <2> QED BY <1>2, <2>1 DEF BookedIn
<1>6. Statement(r)' = Statement(r)
  BY <1>1, <1>3, <1>4, <1>5, StatementHolds
<1> QED BY <1>6 DEF r

------------------------------------------------------------------------------
(* Side by side.                                                           *)

\* A step of one part leaves the rows of the others as they are.
LEMMA PartsStep ==
  ASSUME Next \/ UNCHANGED vars
  PROVE  /\ CustomerNext \/ UNCHANGED customerVars
         /\ AdminNext \/ UNCHANGED adminVars
         /\ BadgeNext \/ UNCHANGED badgeVars
         /\ BooksNext \/ UNCHANGED bookVars
         /\ ReportsNext \/ UNCHANGED reportVars
         /\ SettingsNext \/ UNCHANGED settingsVars
BY DEF Next, vars, Customers, Panel, BadgeHands, Bookkeeping, Reporting, Configuring

\* Every way in was proven, in every reachable state: a mailed code opens one
\* session at most, a browser is let in for a mailbox its owner reads, and a
\* step of the second factor opens one session per set-up.
THEOREM AccountsProven == Spec => []SignInsAreProven
<1> DEFINE Inv == CustomerInv /\ AdminInv
<1>1. Init => Inv
  BY CustomerInvInit, AdminInvInit DEF Init
<1>2. Inv /\ [Next]_vars => Inv'
  BY CustomerInvStep, AdminInvStep, PartsStep
<1>3. Inv => SignInsAreProven
  <2> SUFFICES ASSUME Inv PROVE SignInsAreProven
    OBVIOUS
  <2>1. \A i \in DOMAIN signins : signins[i] <= 1
    BY DEF CustomerInv, CodesHold
  <2>2. \A b \in Browsers : /\ session[b] # None => session[b].email \in Reads[b]
                            /\ pending[b] # None => pending[b] \in Reads[b]
    BY DEF CustomerInv, CookiesHold
  <2>3. \A s \in Secrets : \A k \in DOMAIN opened[s] : opened[s][k] <= 1
    BY DEF AdminInv
  <2> QED BY <2>1, <2>2, <2>3 DEF SignInsAreProven
<1> QED BY <1>1, <1>2, <1>3, PTL DEF Spec

\* Whatever may happen once is on record once, in every reachable state: an id
\* moved in a season exactly if the allowance is spent, and a badge given or
\* taken by hand has its one line in the audit log.
THEOREM AccountsRecorded == Spec => []OnceAndOnRecord
<1> DEFINE Inv == CustomerInv /\ BadgeInv
<1>1. Init => Inv
  BY CustomerInvInit, BadgeInvInit DEF Init
<1>2. Inv /\ [Next]_vars => Inv'
  BY CustomerInvStep, BadgeInvStep, PartsStep
<1>3. Inv => OnceAndOnRecord
  BY DEF CustomerInv, MovesHold, BadgeInv, OnceAndOnRecord
<1> QED BY <1>1, <1>2, <1>3, PTL DEF Spec

\* Reports in every reachable state: what is marked was heard; of the sales
\* called off in time, whatever rewrites their status later, only one that was
\* reversed after it was completed is reported; an order whose tries are used
\* up was alerted, unless the process stopped right before, and none more than
\* twice.
THEOREM AccountsReported == Spec => []SalesAreReported
<1>1. Init => ReportsInv
  BY ReportsInvInit DEF Init
<1>2. ReportsInv /\ [Next]_vars => ReportsInv'
  BY ReportsInvStep, PartsStep
<1>3. ReportsInv => SalesAreReported
  <2> SUFFICES ASSUME ReportsInv PROVE SalesAreReported
    OBVIOUS
  <2>1. \A o \in Bought : row[o].sent => o \in counted
    BY DEF ReportsInv, RowsHold
  <2>2. \A o \in undone \cap counted : row[o].status = "refunded"
    BY UndoneIsCalledOff
  <2>3. \A o \in Bought :
          row[o].tries >= MaxAttempts =>
            alerts[o] > 0 \/ o \in cut \/ (step.at = "alert" /\ Current.order = o)
    BY DEF ReportsInv, AlertsHold, AlertIsDue
  <2>4. ASSUME NEW o \in Bought PROVE alerts[o] <= 2 /\ row[o].tries <= MaxAttempts
    <3>1. alerts[o] \in Nat /\ \E n : alerts[o] <= MostAlerts(n)
      BY DEF ReportsInv, AlertsHold
    <3>2. row[o] \in StatusRow
      BY DEF ReportsInv, RowsHold
    <3> QED BY <3>1, <3>2, ConversionsAssumption DEF MostAlerts, StatusRow
  <2> QED BY <2>1, <2>2, <2>3, <2>4 DEF SalesAreReported
<1> QED BY <1>1, <1>2, <1>3, PTL DEF Spec

\* Statements stand, in every reachable state and for any sales, hours and
\* rates: days add up whichever range they are read by, what went back is what
\* the sales called off had cost, and no step restates a day that is over but
\* an entry made by hand or another exchange rate.
THEOREM AccountsStand == Spec => StatementsStand
<1> DEFINE Stands == part = "books" /\ typed' = typed =>
                       \A d \in Days : d < Day(now) =>
                         Statement(DayRange(d))' = Statement(DayRange(d))
<1>1. Init => BooksInv
  BY BooksInvInit DEF Init
<1>2. BooksInv /\ [Next]_vars => BooksInv'
  BY BooksInvStep, PartsStep
<1>3. BooksInv => (part = "books" => DaysAddUp)
  BY DaysAddUpAlways
<1>4. BooksInv /\ [Next]_vars => [Stands]_bookVars
  BY PartsStep, ClosedDaysStand
<1> QED BY <1>1, <1>2, <1>3, <1>4, PTL DEF Spec, StatementsStand

\* Customers pay to what was reviewed, in every reachable state, for whatever
\* accounts the owner has and whatever is typed for OXXO: of the slips of a hand
\* in a CLABE or a card number, the swaps that the check digits are blind to are
\* all that is ever saved, shown or paid to; and no account is put together
\* from two forms.
THEOREM PayeesAreReviewed == Spec => []PayeeIsReviewed
<1>1. Init => SettingsInv
  BY SettingsInvInit DEF Init
<1>2. SettingsInv /\ [Next]_vars => SettingsInv'
  BY SettingsInvStep, PartsStep
<1>3. SettingsInv => PayeeIsReviewed
  BY DEF SettingsInv, PayeeIsReviewed, Payees
<1> QED BY <1>1, <1>2, <1>3, PTL DEF Spec

\* Types, in every reachable state: an id belongs to one account, with any
\* number of browsers writing one; a code is missed as often as it may be and
\* once more per browser that had read it in time; no badge is on display that
\* was not awarded.
THEOREM AccountsTypes == Spec => []TypeOK
<1> DEFINE Inv == CustomerInv /\ CustomerTypes /\ AdminInv /\ PanelTypes /\ BadgeInv /\ DisplayHolds
<1>1. Init => Inv
  <2> SUFFICES ASSUME Init PROVE Inv
    OBVIOUS
  <2>1. PanelTypes
    BY SignInAssumption DEF Init, AdminInit, PanelTypes
  <2>2. DisplayHolds
    BY BadgesAssumption DEF Init, BadgeInit, DisplayHolds, Displayable, Resting, Featuring
  <2> QED BY <2>1, <2>2, CustomerInvInit, CustomerTypesInit, AdminInvInit, BadgeInvInit DEF Init
<1>2. Inv /\ [Next]_vars => Inv'
  <2> SUFFICES ASSUME Inv, [Next]_vars PROVE Inv'
    OBVIOUS
  <2>1. CustomerInv' /\ CustomerTypes'
    BY PartsStep, CustomerInvStep, CustomerTypesStep
  <2>2. AdminInv' /\ PanelTypes'
    BY PartsStep, AdminInvStep, PanelTypesStep
  <2>3. BadgeInv' /\ DisplayHolds'
    BY PartsStep, BadgeInvStep, DisplayStep
  <2> QED BY <2>1, <2>2, <2>3
<1>3. Inv => TypeOK
  <2> SUFFICES ASSUME Inv PROVE TypeOK
    OBVIOUS
  <2>1. ASSUME NEW i \in DOMAIN codes PROVE codes[i] \in Code
    <3>1. codes[i] \in CodeRow /\ codes[i].tries \in Nat
      BY TriesTypes DEF CustomerInv
    <3>2. codes[i].tries <= MaxTries + Cardinality(Browsers)
      <4>1. codes[i].tries + Cardinality(Missing(i)) <= MaxTries + Cardinality(Browsers)
        BY DEF CustomerTypes, TriesHold
      <4> QED BY <3>1, <4>1, MissingTypes, AccountsAssumption
    <3>3. codes[i].tries \in 0..(MaxTries + Cardinality(Browsers))
      BY <3>1, <3>2, MissingTypes, AccountsAssumption
    <3> QED BY <3>1, <3>3 DEF CodeRow, Code
  <2>2. ProfilesHold
    BY DEF CustomerTypes
  <2>3. admin \in [ secret : Secrets \cup {NoSecret}, last : 0..(MaxClock + 1), active : BOOLEAN ]
    BY DEF AdminInv, PanelTypes
  <2>4. \A p \in Players : \A b \in featured[p] : owned[<<p, b>>] # "none"
    BY DEF DisplayHolds, Displayable
  <2> QED BY <2>1, <2>2, <2>3, <2>4 DEF TypeOK, ProfilesHold, PanelTypes
<1> QED BY <1>1, <1>2, <1>3, PTL DEF Spec

==============================================================================
