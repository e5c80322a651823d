------------------------------- MODULE Books -------------------------------
(***************************************************************************)
(* What the panel says was sold, spent and earned: sales and the day each  *)
(* one is recognised on, the ledger of refunds, rewards and entries made   *)
(* by hand, and the statements computed from them (accounting-queries.ts,  *)
(* manual-ledger-store.ts, mexico-city-time.ts).  Instants are hours of    *)
(* UTC, centavos are integers, dollars ten-thousandths, and the exchange   *)
(* rate hundredths of a peso; a statement is computed at one instant.      *)
(***************************************************************************)
EXTENDS Integers, FiniteSets, FiniteSetsExt, Functions

CONSTANTS
  Sales,      \* orders: id -> [price, cost, method, gateway, reward]
  Hours,      \* the instants at which something happens
  Manual,     \* ids of entries made by hand
  Cents,      \* amounts an admin may type
  Rates,      \* exchange rates an admin may type
  Unknown,    \* no cost was recorded, or no gateway took the payment
  MaxTyped    \* bound on entries, deletions and rates typed

ASSUME BooksAssumption ==
  /\ Hours \subseteq Nat /\ Hours # {} /\ IsFiniteSet(Hours)
  /\ Cents \subseteq Int /\ Rates \subseteq Int /\ MaxTyped \in Nat
  /\ IsFiniteSet(DOMAIN Sales)
  /\ \A s \in DOMAIN Sales : /\ Sales[s].price \in Nat /\ Sales[s].cost \in Nat \cup {Unknown}
                             /\ Sales[s].reward \in BOOLEAN
                             /\ Sales[s].reward => Sales[s].price = 0

VARIABLES
  now,      \* the clock
  sale,     \* orders, by id: status, and when completed
  ledger,   \* financial_ledger_entries
  rate,     \* the settings row fx_usd_mxn
  typed     \* how much of the bound is spent

bookVars == <<now, sale, ledger, rate, typed>>

Placed == [ status |-> "open", done |-> 0 ]

BooksInit ==
  /\ now = Min(Hours) /\ sale = [ s \in DOMAIN Sales |-> Placed ]
  /\ ledger = {} /\ rate = 1850 /\ typed = 0

------------------------------------------------------------------------------
(* Time.  Mexico City is six hours behind UTC, and a range is half-open.   *)

Day(t)      == (t + 18) \div 24
Midnight(d) == 24 * d - 18
DayRange(d) == [ start |-> Midnight(d), end |-> Midnight(d + 1) ]
CustomRange(d, e) == [ start |-> Midnight(d), end |-> Midnight(e + 1) ]

\* The day numbered 1 is taken to be a Monday.
WeekRange(d) == LET monday == d - ((d - 1) % 7)
                IN  [ start |-> Midnight(monday), end |-> Midnight(monday + 7) ]
Within(t, range) == range.start <= t /\ t < range.end

------------------------------------------------------------------------------
(* What happens to orders and to the ledger.                               *)

Passes == /\ \E t \in Hours : t > now /\ now' = t
          /\ UNCHANGED <<sale, ledger, rate, typed>>

Turns(s, status) == sale' = [ sale EXCEPT ![s].status = status ]

\* Delivered in full, or called off before.
Complete(s) ==
  /\ sale[s].status = "open"
  /\ \/ Turns(s, "cancelled")
     \/ sale' = [ sale EXCEPT ![s] = [ @ EXCEPT !.status = "completed", !.done = now ] ]
  /\ UNCHANGED <<now, ledger, rate, typed>>

Entry(type, id, at, cents) == [ type |-> type, id |-> id, at |-> at, cents |-> cents ]

\* reverseCompletedOrder, its money: the order and the entry in one transaction.
ReverseSale(s) ==
  /\ sale[s].status = "completed" /\ Turns(s, "refunded")
  /\ ledger' = ledger \cup { Entry("order_refund", s, now, -Sales[s].price) }
  /\ UNCHANGED <<now, rate, typed>>

\* grantReward, of a reward order that was delivered.
GrantReward(s) ==
  /\ Sales[s].reward /\ sale[s].status = "completed"
  /\ \A e \in ledger : e.type = "level_pass_reward" => e.id # s
  /\ \E cost \in Cents \cap Nat :
       ledger' = ledger \cup { Entry("level_pass_reward", s, now, -cost) }
  /\ UNCHANGED <<now, sale, rate, typed>>

IsManual(e) == e.type \in { "manual_expense", "manual_income" }

ByHand == typed < MaxTyped /\ typed' = typed + 1 /\ UNCHANGED <<now, sale>>

\* addManualLedgerEntry: noon of the day that was picked, any day.
AddEntry(id, kind, d, cents) ==
  /\ ByHand /\ \A e \in ledger : e.id # id
  /\ 0 < cents /\ cents <= 100000000
  /\ ledger' = ledger \cup
       { IF kind = "expense" THEN Entry("manual_expense", id, Midnight(d) + 12, -cents)
                             ELSE Entry("manual_income", id, Midnight(d) + 12, cents) }
  /\ UNCHANGED rate

\* deleteManualLedgerEntry, which refuses the others.
DeleteEntry(id) ==
  /\ ByHand
  /\ \E e \in ledger : e.id = id /\ IsManual(e) /\ ledger' = ledger \ {e}
  /\ UNCHANGED rate

\* reviewFxRate: nothing below 5 or above 100 is saved.
SaveFxRate(r) ==
  /\ ByHand /\ r >= 500 /\ r <= 10000 /\ rate' = r
  /\ UNCHANGED ledger

BooksNext ==
  \/ Passes
  \/ \E s \in DOMAIN Sales : Complete(s) \/ ReverseSale(s) \/ GrantReward(s)
  \/ \E id \in Manual :
       \/ DeleteEntry(id)
       \/ \E kind \in { "expense", "income" }, cents \in Cents, d \in { Day(t) : t \in Hours } :
            AddEntry(id, kind, d, cents)
  \/ \E r \in Rates : SaveFxRate(r)

------------------------------------------------------------------------------
(* The statements.                                                         *)

\* FEE_RATES: a share of the amount, in hundredths of a percent, and an amount.
FeeRate(gateway, method) ==
  CASE gateway = "stripe" /\ method = "card" -> <<360, 300>>
    [] gateway = "stripe" /\ method = "oxxo" -> <<400, 300>>
    [] gateway = "stripe" /\ method = "spei" -> <<0, 700>>
    [] gateway = "mercadopago" /\ method \in { "oxxo", "spei" } -> <<349, 400>>
    [] OTHER -> <<0, 0>>

\* estimateFeeCents, with 16% of tax, rounded to the centavo.
EstimateFee(gateway, method, cents) ==
  LET fee == FeeRate(gateway, method)
  IN  ((cents * fee[1] + fee[2] * 10000) * 29 + 125000) \div 250000

OnlyCompleted == { "completed" }    \* mutant: what was refunded was never sold
Recognised == { "completed", "refunded" }

\* completedFilter of getSalesTotals.
Sold(range) == { s \in DOMAIN Sales : /\ sale[s].status \in Recognised /\ ~Sales[s].reward
                                      /\ Within(sale[s].done, range) }

Prices == [ s \in DOMAIN Sales |-> Sales[s].price ]
Gross(range) == SumFunctionOnSet(Prices, Sold(range))
Costed(range) == { s \in Sold(range) : Sales[s].cost # Unknown }
CostDataIncomplete(range) == Costed(range) # Sold(range)
Costs == [ s \in DOMAIN Sales |-> Sales[s].cost ]
RecargaCost(range) == (SumFunctionOnSet(Costs, Costed(range)) * rate + 5000) \div 10000
Fees == [ s \in DOMAIN Sales |-> EstimateFee(Sales[s].gateway, Sales[s].method, Sales[s].price) ]
EstimatedFee(range) == SumFunctionOnSet(Fees, Sold(range))
NetSales(range) == Gross(range) - RecargaCost(range) - EstimatedFee(range)

\* getLedgerTotals.
Booked(type, range) ==
  SumFunctionOnSet([ e \in ledger |-> e.cents ],
                   { e \in ledger : e.type = type /\ Within(e.at, range) })

LedgerTotals(range) ==
  [ rewards  |-> -Booked("level_pass_reward", range), expenses |-> -Booked("manual_expense", range),
    income   |-> Booked("manual_income", range),      refunds  |-> -Booked("order_refund", range) ]

RealNetProfit(range) ==
  LET l == LedgerTotals(range)
  IN  NetSales(range) - l.rewards - l.expenses - l.refunds + l.income

\* getAccountingSummary; the movements leave out what was refunded since.
Statement(range) ==
  [ gross |-> Gross(range), cost |-> RecargaCost(range), floor |-> CostDataIncomplete(range),
    fee |-> EstimatedFee(range), ledger |-> LedgerTotals(range), profit |-> RealNetProfit(range) ]
Movements(range) == { s \in Sold(range) : sale[s].status = "completed" }

\* Inicio, the tile of a day: its revenue is summed apart from the report's.
Tile(range) == [ revenue |-> SumFunctionOnSet(Prices, Movements(range)),
                 net |-> NetSales(range) ]
=============================================================================
