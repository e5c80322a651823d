------------------------------ MODULE Settings ------------------------------
(***************************************************************************)
(* Where customers are told to send money: what the owner types and how it *)
(* is reviewed, the rows it is saved in, one write after the other, and    *)
(* the pages that were opened meanwhile (payment-settings.ts, ajustes).    *)
(* The exchange rate, saved between the two, is in Books.                  *)
(***************************************************************************)
EXTENDS Integers, Sequences

CONSTANTS
  Owners,       \* the accounts that are meant: [clabe, card, oxxo], the last two
                \* or none
  OxxoTyped,    \* what may be typed for a number of OXXO
  Environment,  \* PAY_CLABE and the rest, or NoAccount; nothing reviews it
  NoAccount,
  Editors,      \* admins with the form open
  Buyers,
  MaxSaves      \* bound on forms sent

VARIABLES
  account,   \* the settings row payment_details
  methods,   \* the settings row payment_methods_enabled: what is offered by hand
  form,      \* what each editor's request has reviewed and not yet written
  page,      \* what each buyer's page shows
  paidTo,    \* what happened: the accounts orders were placed against
  saves      \* how much of the bound is spent

settingsVars == <<account, methods, form, page, paidTo, saves>>

Digits == 0..9
ByHandMethods == { "transfer", "oxxo" }
NoForm == [ at |-> "none" ]
NoPage == [ account |-> NoAccount, offers |-> {} ]

SettingsInit ==
  /\ account = NoAccount /\ methods = ByHandMethods
  /\ form = [ e \in Editors |-> NoForm ] /\ page = [ b \in Buyers |-> NoPage ]
  /\ paidTo = {} /\ saves = 0

------------------------------------------------------------------------------
(* The check digits.                                                       *)

\* The sum of the first n places of f.
Tally(f, n) == LET upTo[k \in 0..n] == IF k = 0 THEN 0 ELSE upTo[k - 1] + f[k]
               IN  upTo[n]

Weight(i) == CASE i % 3 = 1 -> 3 [] i % 3 = 2 -> 7 [] OTHER -> 1

EighteenDigits(d) == Len(d) = 18    \* mutant: only the length is looked at
\* isValidClabe: each digit counts with the last place of its product.
IsValidClabe(d) ==
  /\ Len(d) = 18
  /\ d[18] = (10 - (Tally([ i \in 1..17 |-> (d[i] * Weight(i)) % 10 ], 17) % 10)) % 10

\* isValidCardNumber: every second digit from the right is doubled.
Doubled(n) == IF 2 * n > 9 THEN 2 * n - 9 ELSE 2 * n
IsValidCardNumber(d) ==
  /\ Len(d) = 16
  /\ Tally([ i \in 1..16 |-> IF i % 2 = 1 THEN Doubled(d[i]) ELSE d[i] ], 16) % 10 = 0

ASSUME SettingsAssumption ==
  /\ MaxSaves \in Nat /\ OxxoTyped \subseteq Seq(Digits)
  /\ Owners \subseteq [ clabe : Seq(Digits), card : Seq(Digits), oxxo : Seq(Digits) ]
  /\ \A o \in Owners : IsValidClabe(o.clabe) /\ (o.card # << >> => IsValidCardNumber(o.card))

\* A hand slips: a digit too few, a wrong one, or two neighbours swapped.
Swapped(d, i) == [ d EXCEPT ![i] = d[i + 1], ![i + 1] = d[i] ]
WrongDigit(d) == UNION { { [ d EXCEPT ![i] = x ] : x \in Digits } : i \in DOMAIN d }
Slips(d) ==
  { d } \cup WrongDigit(d)
        \cup { SubSeq(d, 1, i - 1) \o SubSeq(d, i + 1, Len(d)) : i \in DOMAIN d }
        \cup { Swapped(d, i) : i \in 1..(Len(d) - 1) }

\* A slip in one field of the form, whichever it is.
Typed(o) == { [ o EXCEPT !.clabe = d ] : d \in Slips(o.clabe) }
              \cup { [ o EXCEPT !.card = d ] : d \in Slips(o.card) }
              \cup { [ o EXCEPT !.oxxo = d ] : d \in OxxoTyped }

\* Nothing but its length is asked of a number of OXXO.
OxxoFits(d) == Len(d) \in 10..19

\* reviewPaymentDetails, of a form whose names are filled in.
ReviewPaymentDetails(draft) ==
  /\ IsValidClabe(draft.clabe)
  /\ draft.card # << >> => IsValidCardNumber(draft.card)
  /\ draft.oxxo # << >> => OxxoFits(draft.oxxo)
Accepted == { draft \in UNION { Typed(o) : o \in Owners } : ReviewPaymentDetails(draft) }

------------------------------------------------------------------------------
(* saveSettings: reviewed as a whole, written row by row.                  *)

SaveSettings(e) ==
  /\ form[e] = NoForm /\ saves < MaxSaves /\ saves' = saves + 1
  /\ \E draft \in Accepted, on \in SUBSET ByHandMethods :
       form' = [ form EXCEPT ![e] = [ at |-> "details", draft |-> draft, on |-> on ] ]
  /\ UNCHANGED <<account, methods, page, paidTo>>

SavePaymentDetails(e) ==
  /\ form[e].at = "details" /\ account' = form[e].draft
  /\ form' = [ form EXCEPT ![e] = [ at |-> "methods", on |-> @.on ] ]
  /\ UNCHANGED <<methods, page, paidTo, saves>>

SavePaymentMethods(e) ==
  /\ form[e].at = "methods" /\ methods' = form[e].on
  /\ form' = [ form EXCEPT ![e] = NoForm ]
  /\ UNCHANGED <<account, page, paidTo, saves>>

\* A write fails, or the process dies: the rows before it stay.
Abandon(e) == /\ form[e] # NoForm /\ form' = [ form EXCEPT ![e] = NoForm ]
              /\ UNCHANGED <<account, methods, page, paidTo, saves>>

------------------------------------------------------------------------------
(* The storefront.                                                         *)

\* getPaymentDetails: the row wins once there is one.
GetPaymentDetails == IF account # NoAccount THEN account ELSE Environment

\* BuyPage: by hand only what is on, and only with an account and a number to
\* pay to.
Payable(a) == CASE a = NoAccount -> {}
                [] a # NoAccount /\ a.oxxo = << >> -> { "transfer" }
                [] OTHER -> ByHandMethods
OpenPage(b) ==
  /\ page' = [ page EXCEPT ![b] =
       [ account |-> GetPaymentDetails, offers |-> methods \cap Payable(GetPaymentDetails) ] ]
  /\ UNCHANGED <<account, methods, form, paidTo, saves>>

\* placeOrder asks again that there be an account, and not whether the method
\* is still on; the customer has paid to the one on the page.
PlaceByHand(b) ==
  /\ page[b].offers # {} /\ GetPaymentDetails # NoAccount
  /\ paidTo' = paidTo \cup { page[b].account }
  /\ page' = [ page EXCEPT ![b] = NoPage ]
  /\ UNCHANGED <<account, methods, form, saves>>

SettingsNext ==
  \/ \E e \in Editors : \/ SaveSettings(e) \/ SavePaymentDetails(e)
                        \/ SavePaymentMethods(e) \/ Abandon(e)
  \/ \E b \in Buyers : OpenPage(b) \/ PlaceByHand(b)
=============================================================================
