---------------------------- MODULE AccountsProps ----------------------------
(***************************************************************************)
(* The accounts around the store side by side, and what each must keep:    *)
(* those of customers, the panel's sign-in, badges, the books, what is     *)
(* reported to the ad platform, and the account customers pay to.  The     *)
(* parts read and write different rows, cookies and keys, so no step of one*)
(* is seen by another and it is enough to follow one at a time: part says  *)
(* which.  The books and the reports both read orders, which each keeps for*)
(* itself: neither writes what the other reads.                            *)
(***************************************************************************)
EXTENDS Accounts, SignIn, Badges, Books, Conversions, Settings

VARIABLE part

Init == /\ CustomerInit /\ AdminInit /\ BadgeInit /\ BooksInit /\ ReportsInit /\ SettingsInit
        /\ part \in { "customers", "panel", "badges", "books", "reports", "settings" }

Customers == /\ part = "customers" /\ CustomerNext
             /\ UNCHANGED <<adminVars, badgeVars, bookVars, reportVars, settingsVars, part>>
Panel     == /\ part = "panel" /\ AdminNext
             /\ UNCHANGED <<customerVars, badgeVars, bookVars, reportVars, settingsVars, part>>
BadgeHands == /\ part = "badges" /\ BadgeNext
              /\ UNCHANGED <<customerVars, adminVars, bookVars, reportVars, settingsVars, part>>
Bookkeeping == /\ part = "books" /\ BooksNext
               /\ UNCHANGED <<customerVars, adminVars, badgeVars, reportVars, settingsVars, part>>
Reporting  == /\ part = "reports" /\ ReportsNext
              /\ UNCHANGED <<customerVars, adminVars, badgeVars, bookVars, settingsVars, part>>
Configuring == /\ part = "settings" /\ SettingsNext
               /\ UNCHANGED <<customerVars, adminVars, badgeVars, bookVars, reportVars, part>>

vars == <<customerVars, adminVars, badgeVars, bookVars, reportVars, settingsVars, part>>
Next == Customers \/ Panel \/ BadgeHands \/ Bookkeeping \/ Reporting \/ Configuring
Spec == Init /\ [][Next]_vars

------------------------------------------------------------------------------

Code == [ email : Emails, tries : 0..(MaxTries + Cardinality(Browsers)), used : BOOLEAN,
          expired : BOOLEAN, mailed : BOOLEAN ]

\* Types, with what the unique indexes and the guards leave: an id belongs to
\* one account, a code is missed a few times at most, and a display shows only
\* badges that were awarded.  That it keeps to its limit is not among them: two
\* requests at once may leave the rows of both (customer-profile-store.ts).
TypeOK ==
  /\ \A i \in DOMAIN codes : codes[i] \in Code
  /\ profile \in [ Emails -> Ids \cup {None} ]
  /\ \A e, f \in Emails : profile[e] = profile[f] /\ profile[e] # None => e = f
  /\ changes \subseteq [ email : Emails, season : 1..MaxSeasons ]
  /\ pending \in [ Browsers -> Emails \cup {None} ]
  /\ admin \in [ secret : Secrets \cup {NoSecret}, last : 0..(MaxClock + 1), active : BOOLEAN ]
  /\ issued \subseteq Secrets /\ hits \in 0..MaxGuesses
  /\ \A p \in Players : \A b \in featured[p] : owned[<<p, b>>] # "none"

\* Every way in was proven.  A mailed code opens one session and never two,
\* whichever tabs submit it at once; a customer is signed in, or lets an
\* account be opened, only for a mailbox they read, although the last step
\* learns it from a cookie (cuenta/actions.ts); and a step of the panel's
\* second factor opens one session per set-up, of whoever races for it
\* (login/verify/actions.ts).
SignInsAreProven ==
  /\ \A i \in DOMAIN signins : signins[i] <= 1
  /\ \A b \in Browsers : session[b] # None => session[b].email \in Reads[b]
  /\ \A b \in Browsers : pending[b] # None => pending[b] \in Reads[b]
  /\ \A s \in Secrets : \A k \in DOMAIN opened[s] : opened[s][k] <= 1

\* Whatever may happen once is on record once.  An account's id moved in a
\* season exactly if the season's allowance is spent, with two requests at it
\* or an id that was taken in between (customer-profile-store.ts); a badge
\* given by hand, or taken, has one line in the audit log, with two hands at
\* it (badge-admin-store.ts).
OnceAndOnRecord ==
  /\ \A e \in Emails, s \in 1..MaxSeasons :
       moves[e][s] = IF [ email |-> e, season |-> s ] \in changes THEN 1 ELSE 0
  /\ \A x \in Both : /\ given[x] = IF x \in byHand THEN 1 ELSE 0
                     /\ taken[x] = IF owned[x] = "revoked" THEN 1 ELSE 0

------------------------------------------------------------------------------

Days == Day(Min(Hours))..Day(Max(Hours))

\* A longer range is a shorter one and a day, but for the centavo its cost is
\* rounded by; a week has its days; and the money of the sales that stand is
\* what was sold less what went back.
DaysAddUp ==
  /\ \A d \in Days \ { Min(Days) } :
       LET whole == Statement(CustomRange(Min(Days), d))
           start == Statement(CustomRange(Min(Days), d - 1))
           last  == Statement(DayRange(d))
       IN  /\ whole.gross - whole.fee = start.gross - start.fee + last.gross - last.fee
           /\ whole.ledger.refunds = start.ledger.refunds + last.ledger.refunds
           /\ whole.cost - start.cost - last.cost \in -1..1
  /\ \A d \in Days : Sold(DayRange(d)) \subseteq Sold(WeekRange(d))
  /\ LET all == CustomRange(Min(Days), Max(Days))
     IN  Gross(all) - LedgerTotals(all).refunds
           = SumFunctionOnSet(Prices, Movements(all))

\* Statements stand.  Days add up whichever range they are read by, and the
\* statement of a day that is over is restated by nothing but an entry made by
\* hand or another exchange rate: a sale reversed weeks later stays on its own
\* day, and the money that goes back is of the day it goes (accounting-
\* queries.ts, completedFilter and orderRefundsCents).
StatementsStand ==
  /\ [](part = "books" => DaysAddUp)
  /\ [][ part = "books" /\ typed' = typed =>
            \A d \in Days : d < Day(now) =>
              Statement(DayRange(d))' = Statement(DayRange(d)) ]_bookVars

\* What is marked as reported was heard.  A sale cancelled or to be refunded
\* before a sweep held it is not reported while it stays so; one that was
\* completed and then reversed is, for NOT_A_SALE leaves 'refunded' out
\* although its comment would have it in (conversion-store.ts:15-16).  An order
\* whose tries are used up was alerted, unless the process stopped right
\* before.  A token refused for good alerts at an order's first try and again
\* at its last, where conversions.ts:18-20 speaks of one alert; never a third
\* time.  A sale older than the window is dropped without an alert.
SalesAreReported ==
  /\ \A o \in Bought : row[o].sent => o \in counted
  /\ \A o \in undone \cap counted : row[o].status = "refunded"
  /\ \A o \in Bought :
       row[o].tries >= MaxAttempts =>
         alerts[o] > 0 \/ o \in cut \/ (step.at = "alert" /\ Current.order = o)
  /\ \A o \in Bought : alerts[o] <= 2 /\ row[o].tries <= MaxAttempts

\* Neighbours that the check digit of a CLABE, or of a card, takes for each
\* other.
ClabeBlind == { p \in Digits \X Digits : p[1] - p[2] \in { -5, 5 } }
CardBlind  == { <<0, 9>>, <<9, 0>> }
BlindSwaps(d, blind) ==
  { Swapped(d, i) : i \in { j \in 1..(Len(d) - 1) : <<d[j], d[j + 1]>> \in blind } }

\* An owner's account, and the slips that nobody can see in it.
Unseen(o) ==
  { o } \cup { [ o EXCEPT !.clabe = d ] : d \in BlindSwaps(o.clabe, ClabeBlind) }
        \cup { [ o EXCEPT !.card = d ] : d \in BlindSwaps(o.card, CardBlind) }
        \cup { [ o EXCEPT !.oxxo = d ] : d \in { t \in OxxoTyped : t = << >> \/ OxxoFits(t) } }

Reviewed == UNION { Unseen(o) : o \in Owners }

\* Customers pay to what was reviewed.  Of the slips of a hand, the review lets
\* past in the CLABE a swap of neighbours five apart, in the card a swap of a 0
\* and a 9, in the number of OXXO whatever keeps to its length, and nothing
\* else; where isValidClabe says that it "catches the transposed or dropped
\* digit".  And whoever saves at once, what an order was placed against was
\* saved together: one owner's CLABE with that owner's card, or what the
\* deployment was set up with (payment-settings.ts, ajustes/actions.ts).
PayeeIsReviewed ==
  /\ account \in Reviewed \cup { NoAccount }
  /\ paidTo \subseteq Reviewed \cup ({ Environment } \ { NoAccount })
=============================================================================
