--------------------------- MODULE LevelPassPlans ---------------------------
(***************************************************************************)
(* The pure decisions of the level pass: what an order earns               *)
(* (engine/src/level-pass.ts), what reversing it takes back                *)
(* (engine/src/order-reversal.ts), what an admin's override changes        *)
(* (engine/src/lp-override.ts), and which badge a position is worth        *)
(* (engine/src/seasons.ts). The store applies them; see LevelPass.         *)
(*                                                                         *)
(* A ladder is a set of thresholds in LP. A player's events are a function *)
(* from thresholds to records: the status, "none" where no row exists, and *)
(* whether a reward order is linked.                                       *)
(***************************************************************************)
EXTENDS Integers

EventStatuses == { "none", "pending", "granted", "reversed" }
EventRow == [ status : EventStatuses, linked : BOOLEAN ]
NoEvent  == [ status |-> "none", linked |-> FALSE ]

AtLeastZero(n) == IF n < 0 THEN 0 ELSE n
Top(S) == CHOOSE c \in S : \A d \in S : d <= c

------------------------------------------------------------------------------

\* roundCents with the worker's rule, "round": halves go up, towards +infinity.
RoundPesos(cents) == (cents + 50) \div 100

CalculatedLp(profit) == AtLeastZero(RoundPesos(profit))

(* decideLevelPassOutcome. reached holds every threshold with a row,       *)
(* reversed ones included.                                                 *)
Decide(lp, reached, awarded, ladder) ==
  LET new == lp + awarded
      crossed == { c \in ladder : c <= new } \ reached
  IN [ crossed |-> crossed,
       vault   |-> ladder # {} /\ Top(ladder) \in crossed ]

------------------------------------------------------------------------------

\* Rows the LP no longer covers, and those of them nothing was paid out for.
Uncovered(events, lp) ==
  { c \in DOMAIN events : events[c].status # "none" /\ c > lp }
Revocable(events, lp) ==
  { c \in Uncovered(events, lp) :
      events[c].status = "pending" /\ ~events[c].linked }

(* planOrderReversal: the vault hangs off the highest event the player has.*)
PlanReversal(awarded, lp, events, vault) ==
  LET reverse == Revocable(events, AtLeastZero(lp - awarded))
      rows == { c \in DOMAIN events : events[c].status # "none" }
  IN [ reverse |-> reverse,
       closes  |-> vault /\ rows # {} /\ Top(rows) \in reverse ]

(* planLpOverride: the vault hangs off the top of the ladder.              *)
PlanOverride(before, after, lp, ladder, events, vault) ==
  LET delta   == after - before
      new     == AtLeastZero(lp + delta)
      reached == { c \in ladder : c <= new }
      create  == { c \in reached : events[c].status = "none" }
      restore == { c \in reached : events[c].status = "reversed" }
      reverse == Revocable(events, new)
      final   == Top(ladder)
  IN [ delta |-> delta, create |-> create, restore |-> restore,
       reverse |-> reverse,
       unlocks |-> ~vault /\ ladder # {} /\ final \in create \cup restore,
       closes  |-> vault /\ ladder # {} /\ final \in reverse ]

------------------------------------------------------------------------------

BadgeKeys == { "season_champion", "top_3", "top_10", "top_50", "none" }

\* rankingBadgeKey: only the highest tier.
RankingBadge(position) ==
  CASE position = 1 -> "season_champion"
    [] position \in 2 .. 3 -> "top_3"
    [] position \in 4 .. 10 -> "top_10"
    [] position \in 11 .. 50 -> "top_50"
    [] OTHER -> "none"

=============================================================================
