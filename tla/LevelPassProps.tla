--------------------------- MODULE LevelPassProps ---------------------------
(***************************************************************************)
(* What the level pass has to keep, whatever interleaves.                  *)
(***************************************************************************)
EXTENDS LevelPass

StatusesOfOrders == { "none", "processing", "completed", "refunded" }

(* The shapes of all rows and of the points both kinds of actor can be at. *)
TypeOK ==
  /\ status \in [Orders -> StatusesOfOrders]
  /\ skipped \in [Orders -> BOOLEAN]
  /\ lpTx \in [Orders -> TxRow \cup {NoTx}]
  /\ stats \in [Seasons -> [Profiles -> StatsRow]]
  /\ lifetime \in [Profiles -> LifetimeRow]
  /\ event \in [Events -> EventRow]
  /\ placed \in [Events -> Nat]
  /\ ledger \in [ expenses : [Events -> Nat], refunds : [Orders -> Nat] ]
  /\ vault \in [Seasons -> [Profiles -> VaultStatuses]]
  /\ current \in Seasons \cup {0} /\ due \in BOOLEAN
  /\ ladder \in Ladders /\ linked \in [Profiles -> Ids]
  /\ \A k \in Sweeps : sweep[k].pc \in
       { "idle", "order", "state", "apply", "place", "grant", "close" }
  /\ \A a \in Admins : admin[a].pc \in { "idle", "reverse", "override" }

------------------------------------------------------------------------------
(* Counters against the rows they summarise.                               *)

\* The orders that count for a profile: credited, and not reversed.
Counted(p) == { o \in Orders : lpTx[o].profile = p /\ ~lpTx[o].reversed }
CountedIn(s, p) == { o \in Counted(p) : lpTx[o].season = s }

(* The lifetime counters and the season's ranking are maintained, never    *)
(* recomputed (schema.ts); they equal what the uncancelled transactions    *)
(* recorded, so a crash, a redelivered order or a second sweep added       *)
(* nothing twice, a reversal took back exactly what went in even if the    *)
(* linked id changed since, and no reward order was counted as a sale.     *)
CountersMatch ==
  /\ \A p \in Profiles :
       /\ lifetime[p].recharges = Cardinality(Counted(p) \cap Paid)
       /\ lifetime[p].diamonds = SumFunctionOnSet(Column("diamonds"), Counted(p) \cap Paid)
  /\ \A s \in Seasons, p \in Profiles :
       stats[s][p].diamonds = SumFunctionOnSet(Column("ranking"), CountedIn(s, p))

(* A player's points are the sum of what their orders were awarded, under  *)
(* relative updates from stale reads. Needs admins who do not work on the  *)
(* same order at once.                                                     *)
PointsMatch ==
  \A s \in Seasons, p \in Profiles :
    stats[s][p].lp = SumFunctionOnSet(Column("awarded"), CountedIn(s, p))

(* Everything that is shown as a sum is the sum.                           *)
StatsMatch == CountersMatch /\ PointsMatch

------------------------------------------------------------------------------
(* Rewards.                                                                *)

(* A checkpoint is delivered by one order at most and booked once, exactly *)
(* when it is granted; and what is granted was delivered.                  *)
RewardsAreBooked ==
  \A e \in Events :
    /\ placed[e] = IF event[e].linked THEN 1 ELSE 0
    /\ ledger.expenses[e] = IF event[e].status = "granted" THEN 1 ELSE 0
    /\ event[e].status = "granted" => event[e].linked /\ status[e] \in {"completed", "refunded"}

(* The money of an order goes back once, and a reversed transaction has a  *)
(* refund behind it.                                                       *)
RefundsAreBooked ==
  \A o \in Orders :
    /\ ledger.refunds[o] = IF status[o] = "refunded" THEN 1 ELSE 0
    /\ lpTx[o].reversed => status[o] = "refunded"

(* Nothing is under way.                                                 *)
Quiet == /\ \A k \in Sweeps : sweep[k] = Idle
         /\ \A a \in Admins : admin[a] = Idle

(* A season's report and the pages of its customers pay for the rewards    *)
(* the ledger was charged with.                                            *)
RewardsAreReported ==
  \A s \in Seasons :
    /\ SeasonRewards(s) = { e \in Events : e[1] = s /\ ledger.expenses[e] # 0 }
    /\ \A p \in Profiles :
         CustomerRewards(s, p) = { c \in Thresholds : ledger.expenses[<<s, p, c>>] # 0 }

(* Whenever nothing is under way, a season's report is the sum of the      *)
(* pages of its customers.                                                 *)
ReportsAddUp ==
  Quiet => \A s \in { t \in Seasons : t <= current } :
      LET figures == SeasonFigures(s)
      IN  /\ figures.profit = SumFunctionOnSet([ p \in Profiles |-> CustomerProfit(s, p) ], Profiles)
          /\ figures.awarded = SumFunctionOnSet([ p \in Profiles |-> stats[s][p].lp ], Profiles)

(* The ledger is the story of the orders. Rewards and refunds are booked   *)
(* once each, with sweeps that fail, and with reversals and overrides that *)
(* commit between what a sweep read and what it writes, and the reports    *)
(* say the same (level-pass-store.ts, order-reversal-store.ts,             *)
(* season-funnel-queries.ts).                                              *)
LedgerMatches ==
  RewardsAreBooked /\ RefundsAreBooked /\ RewardsAreReported /\ ReportsAddUp

(* The past is final. Diamonds that are out stay on the books: no step     *)
(* takes a granted checkpoint back (order-reversal.ts). And nobody is      *)
(* credited in a season that is over, though the season was read before    *)
(* the transaction; it is the one sweep loop that sees to it (seasons.ts). *)
PastIsFinal ==
  [][ /\ \A e \in Events : event[e].status = "granted" => event'[e].status = "granted"
      /\ \A o \in Orders : lpTx[o] = NoTx /\ lpTx'[o] # NoTx => lpTx'[o].season = current ]_vars

(* A completed order is credited, found to belong to nobody, or refunded,  *)
(* once there is a season, whatever fails on the way; or two weeks passed  *)
(* and the sweep no longer looks at it.                                    *)
CompletedIsCredited ==
  \A o \in Paid : (status[o] = "completed" /\ current # 0)
                    ~> (lpTx[o] # NoTx \/ skipped[o] \/ status[o] = "refunded" \/ o \in old)

(* A checkpoint that can be delivered is placed, or revoked, although one  *)
(* that cannot be sits before it in every batch.                           *)
RewardsArePlaced ==
  \A e \in Events : (event[e].status = "pending" /\ e[3] \in ladder \ Undeliverable)
                      ~> (event[e].linked \/ event[e].status = "reversed" \/ e[3] \notin ladder)

------------------------------------------------------------------------------
(* Where the code falls short of its comments.                             *)

(* A reversed checkpoint owes no diamonds: "revoking the checkpoint would  *)
(* not stop the diamonds" once a reward order exists.                      *)
ReversedOwesNothing ==
  \A e \in Events : event[e].status = "reversed" => ~event[e].linked

(* The progress a refunded sale bought does not stand.                     *)
RefundedEarnsNothing ==
  \A o \in Orders : status[o] = "refunded" /\ lpTx[o] # NoTx => lpTx[o].reversed

(* Whoever has the points of a checkpoint is owed it or was given it, as   *)
(* soon as nothing is under way.                                           *)
EarnedIsOwed ==
  Quiet => \A s \in Seasons, p \in Profiles, c \in ladder :
             c <= stats[s][p].lp => event[<<s, p, c>>].status \in {"pending", "granted"}

=============================================================================
