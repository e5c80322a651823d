------------------------------ MODULE LevelPass ------------------------------
(***************************************************************************)
(* The level pass: completed orders earn points, points cross checkpoints, *)
(* checkpoints become reward orders, seasons close, and admins reverse     *)
(* orders and override points while all of that goes on.                   *)
(*                                                                         *)
(* A sweep of the worker (Sweeps) runs one job at a time: crediting orders,*)
(* placing reward orders, granting delivered ones, closing a season. It    *)
(* reads in one query and writes in a later transaction. An admin's action *)
(* is one transaction that reads first and writes then, under READ         *)
(* COMMITTED: other transactions may commit in between.                    *)
(*                                                                         *)
(* A reward order is named by the checkpoint event it delivers.            *)
(***************************************************************************)
EXTENDS LevelPassPlans, FiniteSets, Functions

CONSTANTS
  Sweeps,          \* sweep loops running; the deployment has one worker
  Admins,          \* admins with the panel open
  Profiles, Ids,   \* player_profiles, and Free Fire ids
  Paid,            \* the orders customers paid for
  Buyer, Target,   \* the signed-in profile of an order, if any; the id topped up
  Profit, Diamonds,
  Thresholds, Ladders, Undeliverable,
  OverrideValues,
  FirstIds,        \* the id each profile was created with
  Seasons,         \* 1 .. n
  BatchSize,
  MaxReversals, MaxOverrides, MaxLinks, MaxEdits, MaxThrows, MaxAged,
  MaxTurns         \* bounds: one each, and one on the last four together

None == "none"

\* What an admin may save: some rungs, all of them above zero. A set of
\* thresholds climbs as a matter of course.
Reviewed(rungs) == rungs # {} /\ rungs \subseteq Nat \ {0}

ASSUME LevelPassAssumption ==
  /\ Thresholds \subseteq Nat /\ Undeliverable \subseteq Thresholds
  /\ Ladders \subseteq SUBSET Thresholds /\ \A rungs \in Ladders : Reviewed(rungs)
  /\ Buyer \in [Paid -> Profiles \cup {None}] /\ None \notin Profiles
  /\ Target \in [Paid -> Ids]
  /\ Profit \in [Paid -> Int] /\ Diamonds \in [Paid -> Nat]
  /\ FirstIds \in [Profiles -> Ids]
  /\ OverrideValues \subseteq Nat
  /\ Seasons \subseteq Nat /\ 1 \in Seasons /\ BatchSize \in Nat \ {0}
  /\ \A b \in {MaxReversals, MaxOverrides, MaxLinks, MaxEdits, MaxThrows, MaxAged,
              MaxTurns} : b \in Nat

VARIABLES
  status,      \* orders.status, of paid and reward orders
  skipped,     \* orders.level_pass_skipped_at is set
  completed,   \* orders.completed_at, counted from 1; 0 is null
  lpTx,        \* level_pass_lp_transactions, by order
  stats,       \* season_player_stats
  lifetime,    \* the lifetime counters of player_profiles
  event,       \* level_pass_checkpoint_events
  reached,     \* reached_at of the events, likewise
  placed,      \* how many reward orders were inserted for an event
  ledger,      \* financial_ledger_entries: expenses of events, refunds of orders
  vault,       \* vault_entitlements.status
  badges,      \* badge_ownerships
  hall,        \* hall_of_fame_entries: who was first
  current,     \* the number of the active season, 0 before the first
  due,         \* its ends_at has passed
  old,         \* orders completed longer ago than the sweep looks back
  ladder,      \* the thresholds in settings
  linked,      \* player_profiles.player_id
  sweep,       \* what each sweep is doing and holds
  admin,       \* the same of each admin
  used         \* how much of the bounds is spent

progress == <<lpTx, stats, lifetime>>
rewards  == <<event, reached, placed, ledger>>
perks    == <<vault, badges, hall>>
calendar == <<current, due, old>>
setup    == <<ladder, linked>>
vars == <<status, skipped, completed, progress, rewards, perks, calendar, setup,
          sweep, admin, used>>

------------------------------------------------------------------------------

Events == Seasons \X Profiles \X Thresholds
Orders == Paid \cup Events

\* A customer's order is no reward order.
ASSUME OrdersAreApart == Paid \cap Events = {}

NoTx == [ season |-> 0, profile |-> None, calculated |-> 0, awarded |-> 0,
          diamonds |-> 0, ranking |-> 0, reversed |-> FALSE ]
TxRow == [ season : Seasons, profile : Profiles, calculated : Nat, awarded : Nat,
           diamonds : Nat, ranking : Nat, reversed : BOOLEAN ]

StatsRow == [ lp : Nat, diamonds : Nat ]
LifetimeRow == [ diamonds : Nat, recharges : Nat ]
VaultStatuses == { "none", "active", "expired" }

Idle == [ pc |-> "idle" ]

Init ==
  /\ status = [o \in Orders |-> IF o \in Paid THEN "processing" ELSE "none"]
  /\ skipped = [o \in Orders |-> FALSE]
  /\ completed = [o \in Orders |-> 0]
  /\ lpTx = [o \in Orders |-> NoTx]
  /\ stats = [s \in Seasons |-> [p \in Profiles |-> [lp |-> 0, diamonds |-> 0]]]
  /\ lifetime = [p \in Profiles |-> [diamonds |-> 0, recharges |-> 0]]
  /\ event = [e \in Events |-> NoEvent]
  /\ reached = [e \in Events |-> 0]
  /\ placed = [e \in Events |-> 0]
  /\ ledger = [ expenses |-> [e \in Events |-> 0], refunds |-> [o \in Orders |-> 0] ]
  /\ vault = [s \in Seasons |-> [p \in Profiles |-> "none"]]
  /\ badges = {}
  /\ hall = [s \in Seasons |-> None]
  /\ current = 0 /\ due = FALSE /\ old = {}
  /\ ladder \in Ladders
  /\ linked = FirstIds
  /\ sweep = [k \in Sweeps |-> Idle]
  /\ admin = [a \in Admins |-> Idle]
  /\ used = [ reversals |-> 0, overrides |-> 0, links |-> 0, edits |-> 0, throws |-> 0,
             aged |-> 0 ]

\* A player's events of one season, by threshold.
EventsOf(s, p) == [c \in Thresholds |-> event[<<s, p, c>>]]

\* LIMIT on a query, and on one ordered by age: rows of one transaction are
\* equally old, and come in any order.
Batches(rows) ==
  { some \in SUBSET rows :
      IF Cardinality(rows) <= BatchSize THEN some = rows ELSE Cardinality(some) = BatchSize }
Oldest(rows, at) ==
  { some \in Batches(rows) : \A d \in some, e \in rows \ some : at[d] <= at[e] }

\* The next moment: later than all that was stamped.
Now(at) == Cardinality({ x \in DOMAIN at : at[x] # 0 }) + 1

Spend(what) == used' = [used EXCEPT ![what] = @ + 1]
\* The same for what happens of itself, which shares a bound.
Turn(what) ==
  /\ used.links + used.edits + used.throws + used.aged < MaxTurns
  /\ Spend(what)

Goes(k, what) == sweep' = [sweep EXCEPT ![k] = what]
Acts(a, what) == admin' = [admin EXCEPT ![a] = what]

(* The events that become rows, all in one transaction.                    *)
Reach(s, p, new) ==
  LET now == Now(reached)
  IN reached' = [e \in Events |-> IF e[1] = s /\ e[2] = p /\ e[3] \in new
                                  THEN now ELSE reached[e]]

------------------------------------------------------------------------------
(* Fulfilment, as far as it is seen from here.                             *)

Complete(o) ==
  /\ status[o] = "processing"
  /\ status' = [status EXCEPT ![o] = "completed"]
  /\ completed' = [completed EXCEPT ![o] = Now(completed)]
  /\ UNCHANGED <<skipped, progress, rewards, perks, calendar, setup, sweep, admin, used>>

\* Two weeks go by.
AgesOut(o) ==
  /\ status[o] = "completed" /\ o \notin old /\ used.aged < MaxAged
  /\ old' = old \cup {o}
  /\ Turn("aged")
  /\ UNCHANGED <<status, skipped, completed, progress, rewards, perks, current, due, setup,
                 sweep, admin>>

------------------------------------------------------------------------------
(* syncLevelPass: credit the completed orders, one at a time.              *)

\* A mutant: reward orders count as sales.
FindAnyUnprocessed(k) ==
  LET rows == { o \in Orders : /\ status[o] = "completed" /\ lpTx[o] = NoTx
                               /\ ~skipped[o] /\ o \notin old }
  IN /\ sweep[k].pc = "idle" /\ rows # {}
     /\ \E batch \in Oldest(rows, completed) : Goes(k, [ pc |-> "order", todo |-> batch ])
     /\ UNCHANGED <<status, skipped, completed, progress, rewards, perks, calendar,
                    setup, admin, used>>

(* findUnprocessedOrders leaves reward orders out.                         *)
FindUnprocessed(k) ==
  LET rows == { o \in Paid : /\ status[o] = "completed" /\ lpTx[o] = NoTx
                             /\ ~skipped[o] /\ o \notin old }
  IN /\ sweep[k].pc = "idle" /\ rows # {}
     /\ \E batch \in Oldest(rows, completed) : Goes(k, [ pc |-> "order", todo |-> batch ])
     /\ UNCHANGED <<status, skipped, completed, progress, rewards, perks, calendar,
                    setup, admin, used>>

\* What is left of a batch: the sweep goes on or is done.
OnTo(todo, o) == IF todo = {o} THEN Idle ELSE [ pc |-> "order", todo |-> todo \ {o} ]

\* A mutant: any season will do.
FindFirstSeason(k) ==
  /\ sweep[k].pc = "order"
  /\ \E o \in sweep[k].todo :
       IF lpTx[o] # NoTx \/ current = 0
       THEN Goes(k, OnTo(sweep[k].todo, o))
       ELSE Goes(k, [ pc |-> "state", todo |-> sweep[k].todo, order |-> o, season |-> 1 ])
  /\ UNCHANGED <<status, skipped, completed, progress, rewards, perks, calendar, setup,
                 admin, used>>

(* hasProcessedOrder and findActiveSeason; with no season the order stays  *)
(* a candidate.                                                            *)
FindSeason(k) ==
  /\ sweep[k].pc = "order"
  /\ \E o \in sweep[k].todo :
       IF lpTx[o] # NoTx \/ current = 0
       THEN Goes(k, OnTo(sweep[k].todo, o))
       ELSE Goes(k, [ pc |-> "state", todo |-> sweep[k].todo, order |-> o,
                      season |-> current ])
  /\ UNCHANGED <<status, skipped, completed, progress, rewards, perks, calendar, setup,
                 admin, used>>

\* What an order is worth: the paid ones as configured; a reward order costs
\* and delivers, and was sold for nothing.
Financials(o) ==
  IF o \in Paid
  THEN [ lp |-> CalculatedLp(Profit[o]), diamonds |-> Diamonds[o], target |-> Target[o],
         buyer |-> Buyer[o] ]
  ELSE [ lp |-> 0, diamonds |-> 1, target |-> linked[o[2]], buyer |-> None ]

(* getPlayerState: the signed-in buyer, or else whoever linked the id.     *)
Credited(o) ==
  LET f == Financials(o)
  IN IF f.buyer # None THEN {f.buyer} ELSE { p \in Profiles : linked[p] = f.target }

\* A mutant: an order that belongs to nobody is not marked.
ReadPlayerUnmarked(k) ==
  LET j == sweep[k] IN
  /\ j.pc = "state"
  /\ \/ Credited(j.order) = {} /\ Goes(k, OnTo(j.todo, j.order))
     \/ \E p \in Credited(j.order) :
          LET rows == { c \in Thresholds : event[<<j.season, p, c>>].status # "none" }
          IN Goes(k, [ pc |-> "apply", todo |-> j.todo, order |-> j.order,
                       season |-> j.season, profile |-> p,
                       decision |-> Decide(stats[j.season][p].lp, rows,
                                           Financials(j.order).lp, ladder) ])
  /\ UNCHANGED <<status, skipped, completed, progress, rewards, perks, calendar, setup, admin,
                 used>>

(* getPlayerState, getCheckpointConfig and the decision on what they said; *)
(* nobody to credit is marked on the order, and is final.                  *)
ReadPlayer(k) ==
  LET j == sweep[k] IN
  /\ j.pc = "state"
  /\ \/ /\ Credited(j.order) = {}
        /\ skipped' = [skipped EXCEPT ![j.order] = TRUE]
        /\ Goes(k, OnTo(j.todo, j.order))
     \/ /\ \E p \in Credited(j.order) :
             LET rows == { c \in Thresholds : event[<<j.season, p, c>>].status # "none" }
                 lp   == Financials(j.order).lp
             IN Goes(k, [ pc |-> "apply", todo |-> j.todo, order |-> j.order,
                          season |-> j.season, profile |-> p,
                          decision |-> Decide(stats[j.season][p].lp, rows, lp, ladder) ])
        /\ UNCHANGED skipped
  /\ UNCHANGED <<status, completed, progress, rewards, perks, calendar, setup, admin, used>>

(* applyDecision: one transaction. The unique index on the order is the    *)
(* guard, and a conflict leaves everything as it was.                      *)
ApplyDecision(k) ==
  LET j == sweep[k]
      o == j.order
      p == j.profile
      f == Financials(o)
      ranking == IF linked[p] = f.target THEN f.diamonds ELSE 0
      new == { c \in j.decision.crossed : event[<<j.season, p, c>>].status = "none" }
  IN
  /\ j.pc = "apply"
  /\ IF lpTx[o] # NoTx THEN UNCHANGED <<progress, event, reached, vault, badges>>
     ELSE /\ lpTx' = [lpTx EXCEPT ![o] =
               [ season |-> j.season, profile |-> p, calculated |-> f.lp,
                 awarded |-> f.lp, diamonds |-> f.diamonds, ranking |-> ranking,
                 reversed |-> FALSE ]]
          /\ stats' = [stats EXCEPT ![j.season][p] =
               [ lp |-> @.lp + f.lp, diamonds |-> @.diamonds + ranking ]]
          /\ lifetime' = [lifetime EXCEPT ![p] =
               [ diamonds |-> @.diamonds + f.diamonds, recharges |-> @.recharges + 1 ]]
          /\ event' = [e \in Events |->
               IF e[1] = j.season /\ e[2] = p /\ e[3] \in new
               THEN [ status |-> "pending", linked |-> FALSE ] ELSE event[e]]
          /\ Reach(j.season, p, new)
          /\ IF j.decision.vault
             THEN /\ vault' = [vault EXCEPT ![j.season][p] = IF @ = "none" THEN "active" ELSE @]
                  /\ badges' = badges \cup {<<"level_pass_completed", j.season, p>>}
             ELSE UNCHANGED <<vault, badges>>
  /\ Goes(k, OnTo(j.todo, o))
  /\ UNCHANGED <<status, skipped, completed, placed, ledger, hall, calendar, setup, admin, used>>

------------------------------------------------------------------------------
(* Reward delivery.                                                        *)

(* resolveRewardCatalog: no recipe for a threshold that is not on the      *)
(* ladder any more, or whose products are not for sale.                    *)
Recipes == ladder \ Undeliverable

(* findGrantableCheckpointEvents, with the recipes configured now.         *)
FindGrantable(k) ==
  LET rows == { e \in Events : event[e].status = "pending" /\ ~event[e].linked }
  IN /\ sweep[k].pc = "idle" /\ rows # {}
     /\ \E batch \in Oldest(rows, reached) :
          Goes(k, [ pc |-> "place", todo |-> batch, recipes |-> Recipes ])
     /\ UNCHANGED <<status, skipped, completed, progress, rewards, perks, calendar,
                    setup, admin, used>>

\* The rest of a batch of events.
AfterEvent(j, e) == IF j.todo = {e} THEN Idle ELSE [j EXCEPT !.todo = @ \ {e}]

(* createRewardOrder: the order, its items and the link in one             *)
(* transaction, which a link already there rolls back.                     *)
CreateRewardOrder(e) ==
  IF event[e].linked THEN UNCHANGED <<event, placed, status>>
  ELSE /\ event' = [event EXCEPT ![e].linked = TRUE]
       /\ placed' = [placed EXCEPT ![e] = @ + 1]
       /\ status' = [status EXCEPT ![e] = "processing"]

\* A mutant: an event nothing can deliver ends the batch.
PlaceRewardOrStop(k) ==
  /\ sweep[k].pc = "place"
  /\ \E e \in sweep[k].todo :
       /\ \A d \in sweep[k].todo : e[3] <= d[3]
       /\ IF e[3] \in sweep[k].recipes
          THEN CreateRewardOrder(e) /\ Goes(k, AfterEvent(sweep[k], e))
          ELSE UNCHANGED <<event, placed, status>> /\ Goes(k, Idle)
  /\ UNCHANGED <<skipped, completed, progress, reached, ledger, perks, calendar, setup, admin,
                 used>>

(* createPendingRewardOrders. An event nothing can deliver is reported and *)
(* left for the next pass.                                                 *)
PlaceReward(k) ==
  /\ sweep[k].pc = "place"
  /\ \E e \in sweep[k].todo :
       /\ IF e[3] \in sweep[k].recipes THEN CreateRewardOrder(e)
          ELSE UNCHANGED <<event, placed, status>>
       /\ Goes(k, AfterEvent(sweep[k], e))
  /\ UNCHANGED <<skipped, completed, progress, reached, ledger, perks, calendar, setup, admin,
                 used>>

(* findCompletedRewardOrders, in no order: any of them, up to the limit.   *)
FindDelivered(k) ==
  LET rows == { e \in Events : /\ event[e].status = "pending" /\ event[e].linked
                               /\ status[e] = "completed" }
  IN /\ sweep[k].pc = "idle" /\ rows # {}
     /\ \E batch \in Batches(rows) : Goes(k, [ pc |-> "grant", todo |-> batch ])
     /\ UNCHANGED <<status, skipped, completed, progress, rewards, perks, calendar, setup,
                    admin, used>>

\* A mutant: the expense is booked whether or not the event was granted.
GrantRewardUnguarded(k) ==
  /\ sweep[k].pc = "grant"
  /\ \E e \in sweep[k].todo :
       /\ event' = [event EXCEPT ![e].status = IF @ = "pending" THEN "granted" ELSE @]
       /\ ledger' = [ledger EXCEPT !.expenses[e] = @ + 1]
       /\ Goes(k, AfterEvent(sweep[k], e))
  /\ UNCHANGED <<status, skipped, completed, progress, reached, placed, perks, calendar, setup,
                 admin, used>>

(* grantReward: the status and the expense in one transaction.             *)
Grant(e) ==
  IF event[e].status = "pending"
  THEN /\ event' = [event EXCEPT ![e].status = "granted"]
       /\ ledger' = [ledger EXCEPT !.expenses[e] = @ + 1]
  ELSE UNCHANGED <<event, ledger>>

\* grantCompletedRewardOrders
GrantReward(k) ==
  /\ sweep[k].pc = "grant"
  /\ \E e \in sweep[k].todo :
       /\ Grant(e)
       /\ Goes(k, AfterEvent(sweep[k], e))
  /\ UNCHANGED <<status, skipped, completed, progress, reached, placed, perks, calendar, setup,
                 admin, used>>

------------------------------------------------------------------------------
(* Seasons.                                                                *)

StartFirstSeason ==
  /\ current = 0
  /\ current' = 1
  /\ UNCHANGED <<status, skipped, completed, progress, rewards, perks, due, old, setup, sweep,
                 admin, used>>

SeasonEnds ==
  /\ current # 0 /\ ~due /\ current + 1 \in Seasons
  /\ due' = TRUE
  /\ UNCHANGED <<status, skipped, completed, progress, rewards, perks, current, old, setup,
                 sweep, admin, used>>

\* A mutant: every active season is taken for due.
FindActive(k) ==
  /\ sweep[k].pc = "idle" /\ current # 0
  /\ Goes(k, [ pc |-> "close", season |-> current, first |-> None, others |-> {} ])
  /\ UNCHANGED <<status, skipped, completed, progress, rewards, perks, calendar, setup, admin,
                 used>>

(* getSeasonRanking: a profile without a row is not ranked.                *)
Ranked(s) == { p \in Profiles : \E o \in Orders : /\ lpTx[o].season = s
                                                  /\ lpTx[o].profile = p }

(* findDueSeasons and the ranking it is closed with; a tie goes either way.*)
FindDue(k) ==
  LET ranked == Ranked(current)
      Leads(p) == \A q \in ranked : stats[current][q].diamonds <= stats[current][p].diamonds
  IN /\ sweep[k].pc = "idle" /\ due
     /\ \E first \in IF ranked = {} THEN {None} ELSE { p \in ranked : Leads(p) } :
          Goes(k, [ pc |-> "close", season |-> current, first |-> first,
                    others |-> ranked \ {first} ])
     /\ UNCHANGED <<status, skipped, completed, progress, rewards, perks, calendar, setup,
                    admin, used>>

(* planSeasonClose: a badge for everybody ranked.                          *)
Awards(s, first, others) ==
  { <<RankingBadge(2), s, p>> : p \in others }
    \cup (IF first = None THEN {} ELSE { <<RankingBadge(1), s, first>> })

(* closeSeason: the ranking frozen, its badges, the vaults closed, and the *)
(* next season opened, in one transaction. A number already taken fails    *)
(* it: the index on season_number.                                         *)
CloseSeason(k) ==
  LET j == sweep[k] IN
  /\ j.pc = "close"
  /\ IF current # j.season THEN UNCHANGED <<perks, calendar>>
     ELSE /\ hall' = [hall EXCEPT ![j.season] = j.first]
          /\ badges' = badges \cup Awards(j.season, j.first, j.others)
          /\ vault' = [vault EXCEPT ![j.season] =
               [p \in Profiles |-> IF @[p] = "active" THEN "expired" ELSE @[p]]]
          /\ current' = current + 1
          /\ due' = FALSE
          /\ UNCHANGED old
  /\ Goes(k, Idle)
  /\ UNCHANGED <<status, skipped, completed, progress, rewards, setup, admin, used>>

\* A query of the sweep fails, or the worker dies: what it held is gone.
SweepFails(k) ==
  /\ sweep[k].pc # "idle" /\ used.throws < MaxThrows
  /\ Goes(k, Idle)
  /\ Turn("throws")
  /\ UNCHANGED <<status, skipped, completed, progress, rewards, perks, calendar, setup, admin>>

------------------------------------------------------------------------------
(* reverseCompletedOrder. Its first statement sets the order to refunded   *)
(* and holds the row until the commit.                                     *)

Locked(o) == \E a \in Admins : admin[a].pc = "reverse" /\ admin[a].order = o

ReverseReads(a, o) ==
  LET tx == lpTx[o] IN
  /\ admin[a].pc = "idle" /\ used.reversals < MaxReversals
  /\ status[o] = "completed" /\ ~Locked(o)
  /\ Acts(a, [ pc |-> "reverse", order |-> o,
               tx |-> IF tx.reversed THEN NoTx ELSE tx,
               plan |-> IF tx = NoTx \/ tx.reversed THEN [ reverse |-> {}, closes |-> FALSE ]
                        ELSE PlanReversal(tx.awarded, stats[tx.season][tx.profile].lp,
                                          EventsOf(tx.season, tx.profile),
                                          vault[tx.season][tx.profile] = "active") ])
  /\ Spend("reversals")
  /\ UNCHANGED <<status, skipped, completed, progress, rewards, perks, calendar, setup, sweep>>

(* The relative updates of applyLevelPassReversal, floored in SQL.         *)
Unwind(tx) ==
  /\ stats' = [stats EXCEPT ![tx.season][tx.profile] =
       [ lp |-> AtLeastZero(@.lp - tx.awarded),
         diamonds |-> AtLeastZero(@.diamonds - tx.ranking) ]]
  /\ lifetime' = [lifetime EXCEPT ![tx.profile] =
       [ diamonds |-> AtLeastZero(@.diamonds - tx.diamonds),
         recharges |-> AtLeastZero(@.recharges - 1) ]]

\* A mutant, which revokes what it read as pending.
RevokeAny(s, p, which) ==
  [e \in Events |-> IF e[1] = s /\ e[2] = p /\ e[3] \in which
                    THEN [event[e] EXCEPT !.status = "reversed"] ELSE event[e]]
\* Revoked if still pending when written.
Revoke(s, p, which) ==
  [e \in Events |-> IF /\ e[1] = s /\ e[2] = p /\ e[3] \in which
                       /\ event[e].status = "pending"
                    THEN [event[e] EXCEPT !.status = "reversed"] ELSE event[e]]

\* A mutant: an order without points is left before the books are.
ReverseWritesEarly(a) ==
  LET j == admin[a] IN
  /\ j.pc = "reverse"
  /\ status' = [status EXCEPT ![j.order] = "refunded"]
  /\ IF j.tx = NoTx THEN UNCHANGED <<progress, event, vault, ledger>>
     ELSE /\ lpTx' = [lpTx EXCEPT ![j.order].reversed = TRUE]
          /\ ledger' = [ledger EXCEPT !.refunds[j.order] = @ + 1]
          /\ Unwind(j.tx)
          /\ event' = Revoke(j.tx.season, j.tx.profile, j.plan.reverse)
          /\ vault' = IF j.plan.closes
                      THEN [vault EXCEPT ![j.tx.season][j.tx.profile] = "expired"] ELSE vault
  /\ Acts(a, Idle)
  /\ UNCHANGED <<skipped, completed, reached, placed, badges, hall, calendar, setup, sweep, used>>

ReverseWrites(a) ==
  LET j == admin[a] IN
  /\ j.pc = "reverse"
  /\ status' = [status EXCEPT ![j.order] = "refunded"]
  /\ ledger' = [ledger EXCEPT !.refunds[j.order] = @ + 1]
  /\ IF j.tx = NoTx THEN UNCHANGED <<progress, event, vault>>
     ELSE /\ lpTx' = [lpTx EXCEPT ![j.order].reversed = TRUE]
          /\ Unwind(j.tx)
          /\ event' = Revoke(j.tx.season, j.tx.profile, j.plan.reverse)
          /\ vault' = IF j.plan.closes
                      THEN [vault EXCEPT ![j.tx.season][j.tx.profile] = "expired"] ELSE vault
  /\ Acts(a, Idle)
  /\ UNCHANGED <<skipped, completed, reached, placed, badges, hall, calendar, setup, sweep, used>>

------------------------------------------------------------------------------
(* overrideOrderLp.                                                        *)

OverrideReads(a, o, lp) ==
  LET tx == lpTx[o] IN
  /\ admin[a].pc = "idle" /\ used.overrides < MaxOverrides
  /\ tx # NoTx /\ ~tx.reversed
  /\ Acts(a, [ pc |-> "override", order |-> o, tx |-> tx, awarded |-> lp,
               plan |-> PlanOverride(tx.awarded, lp, stats[tx.season][tx.profile].lp, ladder,
                                     EventsOf(tx.season, tx.profile),
                                     vault[tx.season][tx.profile] = "active") ])
  /\ Spend("overrides")
  /\ UNCHANGED <<status, skipped, completed, progress, rewards, perks, calendar, setup, sweep>>

OverrideWrites(a) ==
  LET j == admin[a]
      s == j.tx.season
      p == j.tx.profile
      new == { c \in j.plan.create : event[<<s, p, c>>].status = "none" }
      Rewrite(e) ==
        IF e[3] \in new THEN [ status |-> "pending", linked |-> FALSE ]
        ELSE IF e[3] \in j.plan.restore /\ event[e].status = "reversed"
        THEN [event[e] EXCEPT !.status = "pending"]
        ELSE IF e[3] \in j.plan.reverse /\ event[e].status = "pending"
        THEN [event[e] EXCEPT !.status = "reversed"]
        ELSE event[e]
  IN
  /\ j.pc = "override"
  /\ lpTx' = [lpTx EXCEPT ![j.order].awarded = j.awarded]
  /\ stats' = [stats EXCEPT ![s][p].lp = AtLeastZero(@ + j.plan.delta)]
  /\ event' = [e \in Events |-> IF e[1] = s /\ e[2] = p THEN Rewrite(e) ELSE event[e]]
  /\ Reach(s, p, new)
  /\ vault' = IF j.plan.unlocks THEN [vault EXCEPT ![s][p] = "active"]
              ELSE IF j.plan.closes THEN [vault EXCEPT ![s][p] = "expired"]
              ELSE vault
  /\ badges' = IF j.plan.unlocks THEN badges \cup {<<"level_pass_completed", s, p>>} ELSE badges
  /\ Acts(a, Idle)
  /\ UNCHANGED <<status, skipped, completed, lifetime, placed, ledger, hall, calendar, setup,
                 sweep, used>>

------------------------------------------------------------------------------
(* The player and the owner change what later decisions read.              *)

\* One change per season, which MaxLinks stands for; an id belongs to one profile.
ChangeLinkedId(p, id) ==
  /\ used.links < MaxLinks
  /\ \A q \in Profiles : linked[q] # id
  /\ linked' = [linked EXCEPT ![p] = id]
  /\ Turn("links")
  /\ UNCHANGED <<status, skipped, completed, progress, rewards, perks, calendar, ladder, sweep,
                 admin>>

SaveCheckpoints(l) ==
  /\ used.edits < MaxEdits /\ l # ladder
  /\ ladder' = l
  /\ Turn("edits")
  /\ UNCHANGED <<status, skipped, completed, progress, rewards, perks, calendar, linked, sweep,
                 admin>>

------------------------------------------------------------------------------
(* What the panel says of a season and of one customer in it, each counted *)
(* from the rows and not from the counters.                                *)

\* The transactions that count.
Counting(s, Who) == { o \in Orders : /\ lpTx[o].season = s /\ lpTx[o].profile \in Who
                                     /\ ~lpTx[o].reversed }
\* A column of the transactions.
Column(field) == [ o \in Orders |-> lpTx[o][field] ]

\* getSeasonFunnel, its figures: points, profit, and the rewards it paid for.
SeasonFigures(s) ==
  LET rows == Counting(s, Profiles)
  IN  [ awarded |-> SumFunctionOnSet(Column("awarded"), rows),
        profit  |-> SumFunctionOnSet(Profit, rows \cap Paid) ]
SeasonRewards(s) == { e \in Events : e[1] = s /\ event[e].status = "granted" }

\* getAdminCustomerDetail, its economics.
CustomerProfit(s, p)  == SumFunctionOnSet(Profit, Counting(s, {p}) \cap Paid)
CustomerRewards(s, p) == { c \in Thresholds : event[<<s, p, c>>].status = "granted" }

------------------------------------------------------------------------------

RunLevelPassSync(k)  == FindUnprocessed(k) \/ FindSeason(k) \/ ReadPlayer(k) \/ ApplyDecision(k)
RunRewardDelivery(k) == FindGrantable(k) \/ PlaceReward(k) \/ FindDelivered(k) \/ GrantReward(k)
RunSeasonClose(k)    == FindDue(k) \/ CloseSeason(k)

SweepStep(k) == RunLevelPassSync(k) \/ RunRewardDelivery(k) \/ RunSeasonClose(k)

ReverseOrder(a) == (\E o \in Orders : ReverseReads(a, o)) \/ ReverseWrites(a)
OverrideLp(a) ==
  \/ \E o \in Orders, lp \in OverrideValues : OverrideReads(a, o, lp)
  \/ OverrideWrites(a)

Next ==
  \/ \E o \in Orders : Complete(o) \/ AgesOut(o)
  \/ \E k \in Sweeps : SweepStep(k) \/ SweepFails(k)
  \/ \E a \in Admins : ReverseOrder(a) \/ OverrideLp(a)
  \/ StartFirstSeason \/ SeasonEnds
  \/ \E p \in Profiles, id \in Ids : ChangeLinkedId(p, id)
  \/ \E l \in Ladders : SaveCheckpoints(l)

Spec == Init /\ [][Next]_vars

(* Each job of the sweep comes round as long as the worker runs (main.ts   *)
(* calls them in turn for ever), and a transaction that was begun ends.    *)
(* Fulfilment completes reward orders.                                     *)
FairSpec ==
  /\ Spec
  /\ \A k \in Sweeps :
       /\ WF_vars(FindSeason(k)) /\ WF_vars(ReadPlayer(k)) /\ WF_vars(ApplyDecision(k))
       /\ WF_vars(PlaceReward(k)) /\ WF_vars(GrantReward(k)) /\ WF_vars(CloseSeason(k))
       /\ SF_vars(FindUnprocessed(k)) /\ SF_vars(FindGrantable(k)) /\ SF_vars(FindDelivered(k))
       /\ SF_vars(FindDue(k))
  /\ \A a \in Admins : WF_vars(ReverseWrites(a)) /\ WF_vars(OverrideWrites(a))
  /\ \A e \in Events : WF_vars(Complete(e))

=============================================================================
